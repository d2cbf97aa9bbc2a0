--------------------------- MODULE ReplyContract ---------------------------
(***************************************************************************)
(* What the reply bridge promises of each inbound message, without queues, *)
(* tasks or a dispatcher: it is opened once and in arrival order, is given *)
(* at most one reply of its own chat while it is open, shows "typing" only *)
(* while it is open, and ends in exactly one fate (PendingEntry and the    *)
(* bridge task of src/src/plugin.rs).                                      *)
(***************************************************************************)
EXTENDS Naturals

CONSTANTS N, ChatOf, Events, NoEvent

Msgs == 1 .. N

VARIABLES
    fate,      \* unseen, open, answering, answered, expired, abandoned
    reply,     \* the outbound event given to the message
    indicator  \* messages for which the chat shows "typing"

vars == <<fate, reply, indicator>>

Init ==
    /\ fate = [m \in Msgs |-> "unseen"]
    /\ reply = [m \in Msgs |-> NoEvent]
    /\ indicator = {}

Open(m) ==
    /\ fate[m] = "unseen" /\ \A k \in 1 .. m - 1 : fate[k] # "unseen"
    /\ fate' = [fate EXCEPT ![m] = "open"]
    /\ indicator' = indicator \cup {m}
    /\ UNCHANGED reply

(* The first reply is the only one, and it ends the indicator.              *)
Give(m, e) ==
    /\ fate[m] = "open" /\ reply[m] = NoEvent /\ e.session = ChatOf[m]
    /\ reply' = [reply EXCEPT ![m] = e]
    /\ indicator' = indicator \ {m}
    /\ UNCHANGED fate

Hush(S) ==
    /\ indicator' = indicator \ S
    /\ UNCHANGED <<fate, reply>>

Move(m, from, to) ==
    /\ fate[m] = from
    /\ fate' = [fate EXCEPT ![m] = to]
    /\ indicator' = indicator \ {m}
    /\ UNCHANGED reply

Answering(m) == reply[m] # NoEvent /\ Move(m, "open", "answering")
Answer(m)  == Move(m, "answering", "answered")
Expire(m)  == Move(m, "open", "expired")
Abandon(m) == Move(m, "open", "abandoned")

Next ==
    \/ \E S \in SUBSET Msgs : Hush(S)
    \/ \E m \in Msgs :
        \/ Open(m) \/ Answering(m) \/ Answer(m) \/ Expire(m) \/ Abandon(m)
        \/ \E e \in Events : Give(m, e)

Spec == Init /\ [][Next]_vars
=============================================================================
