---------------------------- MODULE MCPluginBoot ----------------------------
(* Instances of PluginBoot for TLC. *)
EXTENDS PluginBoot, TLC

CONSTANTS on, off, omitted

BlockOf == on :> "on" @@ off :> "off" @@ omitted :> "omitted"

(* Arrays of none or one account. *)
Arrays == {<<>>, <<on>>, <<off>>, <<omitted>>}
=============================================================================
