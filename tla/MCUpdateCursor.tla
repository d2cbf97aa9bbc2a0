--------------------------- MODULE MCUpdateCursor ---------------------------
(* An instance of UpdateCursor for TLC. *)
EXTENDS UpdateCursor, TLC

CONSTANTS p1, b1, offset1, tmp1

MixedKinds == [u \in Updates |-> CASE u = 1 -> "message" [] u = 2 -> "callback" [] OTHER -> "other"]

OnePollerBot == p1 :> b1
OnePollerFile == p1 :> offset1
OnePollerTmp == p1 :> tmp1
=============================================================================
