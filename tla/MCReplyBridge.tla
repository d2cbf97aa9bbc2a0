--------------------------- MODULE MCReplyBridge ---------------------------
(* Instances of ReplyBridge for TLC. *)
EXTENDS ReplyBridge

CONSTANTS c1, c2

OneChat == [m \in Msgs |-> c1]
TwoChats == [m \in Msgs |-> IF m = 2 THEN c2 ELSE c1]
=============================================================================
