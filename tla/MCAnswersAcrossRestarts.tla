---------------------- MODULE MCAnswersAcrossRestarts ----------------------
(* An instance of AnswersAcrossRestarts for TLC: one bot, one chat. *)
EXTENDS AnswersAcrossRestarts, TLC

CONSTANTS p1, b1, offset1, tmp1, c1

OneBot == p1 :> b1
OneFile == p1 :> offset1
OneTmp == p1 :> tmp1

Messages == [u \in Updates |-> "message"]
(* At most two things go wrong in a behaviour, of one kind or of two.        *)
TwoTroubles == crashes + ioErrors + misreads + stops + expiries + unsolicited <= 2

OneChat == [u \in Updates |-> c1]
=============================================================================
