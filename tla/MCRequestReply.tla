--------------------------- MODULE MCRequestReply ---------------------------
(* An instance of RequestReply for TLC. *)
EXTENDS RequestReply, TLC

CONSTANTS omitted, on, bare, own, first, second, pairing, admin, greet, list

(* The environment has one account; two others are delivered, or one without *)
(* an instance before another, or none.                                     *)
BlockOf == omitted :> "omitted" @@ on :> "on" @@ bare :> "on"
NamedInstances == Env :> own @@ omitted :> first @@ on :> second @@ bare :> NoInstance
Arrays == {<<>>, <<omitted, on>>, <<bare, on>>}

(* A pairing message for that account, asked again when unanswered, and a    *)
(* query of the topic that may be stuck.                                    *)
Topic == greet :> pairing @@ list :> admin
Forms == greet :> "send" @@ list :> "read"
Accounts == greet :> first @@ list :> first
Tries == greet :> 2 @@ list :> 1
=============================================================================
