-------------------------- MODULE MCOutboundPaths --------------------------
(* Instances of OutboundPaths for TLC: a call is <<op, path, segments>>. *)
EXTENDS OutboundPaths

OpOf == [c \in Calls |-> c[1]]
PathOf == [c \in Calls |-> c[2]]
LengthOf == [c \in Calls |-> c[3]]

(* Long and short texts on every path, a media event, a dropped event and   *)
(* two rejected calls.                                                      *)
MixedCalls == {<<"reply", "direct", 2>>, <<"bridgeReply", "bridge", 1>>, <<"pairingText", "broker", 2>>,
               <<"agentPhoto", "broker", 0>>, <<"reaction", "broker", 0>>, <<"message", "broker", 0>>,
               <<"photo", "direct", 0>>}

(* Every tool on the broker path. *)
ToolEvents == {<<op, "broker", 1>> : op \in Tools}
=============================================================================
