--------------------------- MODULE MCVoiceIntake ---------------------------
(* An instance of VoiceIntake for TLC. *)
EXTENDS VoiceIntake, TLC

CONSTANTS m1, m2, f1, f2, f3, x, y

SharedPrefix == f1 :> x @@ f2 :> x @@ f3 :> y

(* A document and a voice, the voice replaced by an edit, and a message with *)
(* a text that has the first file twice (animation and document, both audio). *)
Edits == <<[msg |-> m1, files |-> <<f3, f1>>], [msg |-> m1, files |-> <<f2>>],
           [msg |-> m2, files |-> <<f1, f1>>]>>
=============================================================================
