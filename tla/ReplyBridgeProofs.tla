------------------------- MODULE ReplyBridgeProofs -------------------------
(***************************************************************************)
(* Proofs about ReplyBridge for any chats, any number of messages and any  *)
(* environment: type correctness and the inductive invariant.              *)
(***************************************************************************)
EXTENDS ReplyBridge, SequenceTheorems, TLAPS

(* q.retain(..) of a queue of messages: a queue of the same messages, still *)
(* in order, without the removed one.                                       *)
Increasing(q) == \A i, j \in DOMAIN q : i < j => q[i] < q[j]

LEMMA RemoveAtElements ==
    ASSUME NEW S, NEW q \in Seq(S), NEW k \in 1 .. Len(q)
    PROVE  /\ RemoveAt(q, k) \in Seq(S)
           /\ Len(RemoveAt(q, k)) = Len(q) - 1
           /\ \A i \in 1 .. Len(q) - 1 : RemoveAt(q, k)[i] = IF i < k THEN q[i] ELSE q[i + 1]
<1> DEFINE a == SubSeq(q, 1, k - 1)
           b == SubSeq(q, k + 1, Len(q))
<1>1. a \in Seq(S) /\ Len(a) = k - 1 /\ \A i \in 1 .. k - 1 : a[i] = q[i]
  BY SubSeqProperties
<1>2. b \in Seq(S) /\ Len(b) = Len(q) - k /\ \A i \in 1 .. Len(q) - k : b[i] = q[k + i]
  BY SubSeqProperties
<1>3. RemoveAt(q, k) = a \o b
  BY DEF RemoveAt
<1> HIDE DEF a, b
<1>4. /\ a \o b \in Seq(S) /\ Len(a \o b) = Len(a) + Len(b)
      /\ \A i \in 1 .. Len(a) + Len(b) :
            (a \o b)[i] = IF i <= Len(a) THEN a[i] ELSE b[i - Len(a)]
  BY <1>1, <1>2, ConcatProperties
<1>5. ASSUME NEW i \in 1 .. Len(q) - 1
      PROVE  (a \o b)[i] = IF i < k THEN q[i] ELSE q[i + 1]
  <2>1. CASE i < k
    BY <2>1, <1>1, <1>2, <1>4
  <2>2. CASE ~(i < k)
    <3> DEFINE n == i - Len(a)
    <3>1. n \in 1 .. Len(q) - k /\ k + n = i + 1
      BY <2>2, <1>1
    <3>2. (a \o b)[i] = b[n]
      BY <2>2, <1>1, <1>2, <1>4
    <3> HIDE DEF n
    <3>3. b[n] = q[k + n]
      BY <3>1, <1>2
    <3>4. QED
      BY <2>2, <3>1, <3>2, <3>3
  <2>3. QED BY <2>1, <2>2
<1>6. QED
  BY <1>1, <1>2, <1>3, <1>4, <1>5

LEMMA WithoutProperties ==
    ASSUME NEW q \in Seq(Msgs), NEW m \in Msgs
    PROVE  /\ Without(q, m) \in Seq(Msgs)
           /\ \A i \in DOMAIN Without(q, m) : \E j \in DOMAIN q : Without(q, m)[i] = q[j]
           /\ Increasing(q) => /\ Increasing(Without(q, m))
                               /\ \A i \in DOMAIN Without(q, m) : Without(q, m)[i] # m
<1>1. CASE ~ \E i \in DOMAIN q : q[i] = m
  BY <1>1 DEF Without
<1>2. CASE \E i \in DOMAIN q : q[i] = m
  <2> DEFINE k == CHOOSE i \in DOMAIN q : q[i] = m
             r == RemoveAt(q, k)
  <2>1. k \in 1 .. Len(q) /\ q[k] = m
    BY <1>2
  <2>2. Without(q, m) = r
    BY <1>2 DEF Without
  <2> HIDE DEF k
  <2>3. /\ r \in Seq(Msgs) /\ Len(r) = Len(q) - 1
        /\ \A i \in 1 .. Len(q) - 1 : r[i] = IF i < k THEN q[i] ELSE q[i + 1]
    BY <2>1, RemoveAtElements
  <2> HIDE DEF r
  <2>4. \A i \in DOMAIN r : \E j \in DOMAIN q : r[i] = q[j]
    BY <2>1, <2>3
  <2>5. ASSUME Increasing(q) PROVE Increasing(r) /\ \A i \in DOMAIN r : r[i] # m
    <3>0. \A i \in DOMAIN q : q[i] \in Nat
      BY NAssumption DEF Msgs
    <3>1. ASSUME NEW i \in DOMAIN r PROVE r[i] # m
      <4>0. i \in 1 .. Len(q) - 1 /\ Len(q) \in Nat
        BY <2>3
      <4>1. CASE i < k
        <5>1. r[i] = q[i] /\ q[i] < q[k]
          BY <2>1, <2>3, <2>5, <4>0, <4>1 DEF Increasing
        <5>2. QED BY <2>1, <3>0, <4>0, <5>1
      <4>2. CASE ~(i < k)
        <5>1. r[i] = q[i + 1] /\ i + 1 \in DOMAIN q /\ k < i + 1
          BY <2>1, <2>3, <4>0, <4>2
        <5>2. q[k] < q[i + 1]
          BY <2>1, <2>5, <5>1 DEF Increasing
        <5>3. QED BY <2>1, <3>0, <5>1, <5>2
      <4>3. QED BY <4>1, <4>2
    <3>2. ASSUME NEW i \in DOMAIN r, NEW j \in DOMAIN r, i < j PROVE r[i] < r[j]
      <4> DEFINE I == IF i < k THEN i ELSE i + 1
                 J == IF j < k THEN j ELSE j + 1
      <4>1. I \in DOMAIN q /\ J \in DOMAIN q /\ I < J
        BY <2>1, <2>3, <3>2
      <4>2. r[i] = q[I] /\ r[j] = q[J]
        BY <2>1, <2>3
      <4> HIDE DEF I, J
      <4>3. QED BY <2>5, <4>1, <4>2 DEF Increasing
    <3>3. QED BY <3>1, <3>2 DEF Increasing
  <2>6. QED BY <2>2, <2>3, <2>4, <2>5
<1>3. QED BY <1>1, <1>2
-----------------------------------------------------------------------------
(* Type correctness of a step. *)

USE NAssumption, ChatOfAssumption

LEMMA TypeInit == Init => TypeOK
BY UnsolicitedAssumption DEF Init, TypeOK, Msgs, NoMsg, BridgeStates

LEMMA RetainType ==
    ASSUME TypeOK, NEW m \in Msgs, Retain(m)
    PROVE  pending' \in [Chats -> Seq(Msgs)] /\ sessions' = sessions
<1>1. Without(pending[ChatOf[m]], m) \in Seq(Msgs)
  BY WithoutProperties DEF TypeOK
<1>2. QED BY <1>1 DEF Retain, TypeOK

LEMMA HeadTailType ==
    ASSUME NEW S, NEW q \in Seq(S), q # <<>>
    PROVE  Head(q) \in S /\ Tail(q) \in Seq(S)
BY HeadTailProperties

LEMMA TypeStep ==
    ASSUME TypeOK, PollerInv, DispatcherInv, [Next]_vars
    PROVE  TypeOK'
<1> USE DEF TypeOK, Msgs, NoMsg
<1>1. CASE Fetch
  BY <1>1 DEF Fetch, pendingVars, bridgeVars, dispatcherVars, runtimeVars, stopVars
<1>2. CASE Accept
  BY <1>2 DEF Accept, PollerInv, pendingVars, bridgeVars, dispatcherVars, runtimeVars, stopVars
<1>3. CASE PushEntry
  <2>1. cursor \in Msgs
    BY <1>3 DEF PushEntry, PollerInv
  <2>2. pending' \in [Chats -> Seq(Msgs)]
    BY <1>3, <2>1 DEF PushEntry
  <2>3. bridge' \in [Msgs -> BridgeStates]
    BY <1>3, <2>1 DEF PushEntry, BridgeStates, Receiving
  <2>4. QED
    BY <1>3, <2>1, <2>2, <2>3 DEF PushEntry, dispatcherVars, runtimeVars, stopVars
<1>4. CASE PublishInbound
  <2>1. cursor \in Msgs
    BY <1>4 DEF PublishInbound, PollerInv
  <2>2. inbox' \in [Chats -> Seq(Msgs)]
    BY <1>4, <2>1 DEF PublishInbound
  <2>3. bridge' \in [Msgs -> BridgeStates]
    BY <1>4, <2>1 DEF PublishInbound, BridgeStates, Receiving
  <2>4. QED
    BY <1>4, <2>1, <2>2, <2>3
    DEF PublishInbound, pendingVars, dispatcherVars, stopVars
<1>5. CASE PublishFails
  <2>1. cursor \in Msgs
    BY <1>5 DEF PublishFails, PollerInv
  <2>2. pending' \in [Chats -> Seq(Msgs)] /\ sessions' = sessions
    BY <1>5, <2>1, RetainType DEF PublishFails
  <2>3. bridge' \in [Msgs -> BridgeStates]
    BY <1>5, <2>1 DEF PublishFails, BridgeStates, Resolved
  <2>4. QED
    BY <1>5, <2>1, <2>2, <2>3 DEF PublishFails, dispatcherVars, runtimeVars, stopVars
<1>6. CASE BatchDone
  BY <1>6 DEF BatchDone, pendingVars, bridgeVars, dispatcherVars, runtimeVars, stopVars
<1>7. CASE PollerExit
  BY <1>7 DEF PollerExit, pendingVars, bridgeVars, dispatcherVars, runtimeVars, stopVars
<1>8. ASSUME NEW c \in Chats, AgentReplies(c) PROVE TypeOK'
  <2>0. Head(inbox[c]) \in Msgs /\ Tail(inbox[c]) \in Seq(Msgs)
    <3>1. inbox[c] \in Seq(Msgs) /\ inbox[c] # <<>>
      BY <1>8 DEF AgentReplies
    <3>2. QED BY <3>1, HeadTailType
  <2>1. Head(inbox[c]) \in Msgs /\ inbox' \in [Chats -> Seq(Msgs)]
    BY <1>8, <2>0 DEF AgentReplies
  <2>2. PICK t \in Destinations, b \in Bodies :
          outbound' = Append(outbound, [session |-> c, to |-> t, re |-> Head(inbox[c]), body |-> b])
    BY <1>8 DEF AgentReplies, Publish
  <2>3. [session |-> c, to |-> t, re |-> Head(inbox[c]), body |-> b] \in Events
    BY <2>1, BodiesAssumption, DestinationsAssumption DEF Events
  <2>4. outbound' \in Seq(Events)
    BY <2>2, <2>3
  <2>5. QED
    BY <1>8, <2>1, <2>4
    DEF AgentReplies, pollerVars, pendingVars, bridgeVars, dispatcherVars, stopVars
<1>9. ASSUME NEW c \in Chats, AgentStaysSilent(c) PROVE TypeOK'
  <2>1. inbox' \in [Chats -> Seq(Msgs)]
    BY <1>9 DEF AgentStaysSilent
  <2>2. QED
    BY <1>9, <2>1
    DEF AgentStaysSilent, pollerVars, pendingVars, bridgeVars, dispatcherVars, stopVars
<1>10. CASE Unsolicited
  <2>1. PICK u \in Chats \cup {NoChat}, t \in Destinations, b \in Bodies :
          outbound' = Append(outbound, [session |-> u, to |-> t, re |-> NoMsg, body |-> b])
    BY <1>10 DEF Unsolicited, Publish
  <2>2. [session |-> u, to |-> t, re |-> NoMsg, body |-> b] \in Events
    BY BodiesAssumption, DestinationsAssumption DEF Events
  <2>3. outbound' \in Seq(Events)
    BY <2>1, <2>2
  <2>4. extra' \in 0 .. MaxUnsolicited
    BY <1>10, UnsolicitedAssumption DEF Unsolicited
  <2>5. QED
    BY <1>10, <2>3, <2>4
    DEF Unsolicited, pollerVars, pendingVars, bridgeVars, dispatcherVars, stopVars
<1>11. CASE Receive
  <2>1. Head(outbound) \in Events /\ outbound' \in Seq(Events)
    BY <1>11 DEF Receive
  <2>2. QED
    BY <1>11, <2>1 DEF Receive, pollerVars, pendingVars, bridgeVars, stopVars
<1>12. CASE PopEntry
  <2>1. event.session \in Chats
    BY <1>12 DEF PopEntry, DispatcherInv, Events
  <2>2. held' \in Msgs \cup {NoMsg} /\ pending' \in [Chats -> Seq(Msgs)]
    <3> DEFINE q == pending[event.session]
    <3>1. q \in Seq(Msgs)
      BY <2>1
    <3>2. CASE q = <<>>
      BY <1>12, <3>2 DEF PopEntry
    <3>3. CASE q # <<>>
      <4>1. Head(q) \in Msgs /\ Tail(q) \in Seq(Msgs)
        BY <3>1, <3>3, HeadTailType
      <4>2. held' = Head(q) /\ pending' = [pending EXCEPT ![event.session] = Tail(q)]
        BY <1>12, <3>3 DEF PopEntry
      <4>3. QED BY <2>1, <4>1, <4>2
    <3>4. QED BY <3>2, <3>3
  <2>3. QED
    BY <1>12, <2>2 DEF PopEntry, pollerVars, bridgeVars, runtimeVars, stopVars
<1>13. CASE CheckEmpty
  BY <1>13 DEF CheckEmpty, pollerVars, pendingVars, bridgeVars, runtimeVars, stopVars
<1>14. CASE RemoveSession
  <2>1. pending' \in [Chats -> Seq(Msgs)]
    <3>1. <<>> \in Seq(Msgs)
      BY EmptySeq
    <3>2. QED BY <1>14, <3>1 DEF RemoveSession
  <2>2. QED
    BY <1>14, <2>1 DEF RemoveSession, pollerVars, bridgeVars, runtimeVars, stopVars
<1>15. CASE HandOver
  <2>1. slot' \in [Msgs -> Events \cup {NoEvent}]
    BY <1>15 DEF HandOver
  <2>2. QED
    BY <1>15, <2>1 DEF HandOver, NextEvent, pollerVars, pendingVars, runtimeVars, stopVars
<1>16. CASE Route
  <2>1. proactive' \subseteq [event : Events, chat : Chats]
    <3> DEFINE chat == IF event.to # NoChat THEN event.to ELSE event.session
    <3>1. event \in Events
      BY <1>16 DEF Route, DispatcherInv
    <3>2. event.to # NoChat \/ event.session \in known => chat \in Chats
      BY <3>1 DEF Events
    <3>3. QED BY <1>16, <3>1, <3>2 DEF Route
  <2>2. QED
    BY <1>16, <2>1 DEF Route, NextEvent, pollerVars, pendingVars, bridgeVars, runtimeVars, stopVars
<1>17. CASE DispatcherExit
  BY <1>17 DEF DispatcherExit, pollerVars, pendingVars, bridgeVars, runtimeVars, stopVars
<1>18. ASSUME NEW m \in Msgs, Bridge(m) PROVE TypeOK'
  <2>1. bridge' \in [Msgs -> BridgeStates]
    BY <1>18 DEF Bridge, BridgeReply, BridgeSend, BridgeOrphan, BridgeElapse, BridgeExpire,
                 Become, BridgeStates, Receiving, Resolved
  <2>2. pending' \in [Chats -> Seq(Msgs)] /\ sessions' = sessions
    BY <1>18, RetainType
    DEF Bridge, BridgeReply, BridgeSend, BridgeOrphan, BridgeElapse, BridgeExpire, CleanUp, pendingVars
  <2>3. typing' \subseteq typing /\ UNCHANGED <<pollerVars, slot, dispatcherVars, runtimeVars, stopVars>>
    BY <1>18
    DEF Bridge, BridgeReply, BridgeSend, BridgeOrphan, BridgeElapse, BridgeExpire, CleanUp
  <2>4. QED
    BY <2>1, <2>2, <2>3 DEF pollerVars, dispatcherVars, runtimeVars, stopVars
<1>19. CASE StopCancel
  BY <1>19 DEF StopCancel, pollerVars, pendingVars, bridgeVars, dispatcherVars, runtimeVars
<1>20. ASSUME NEW c \in Chats, StopDrain(c) PROVE TypeOK'
  <2>1. <<>> \in Seq(Msgs)
    BY EmptySeq
  <2>2. pending' \in [Chats -> Seq(Msgs)]
    BY <1>20, <2>1 DEF StopDrain
  <2>3. QED
    BY <1>20, <2>2 DEF StopDrain, pollerVars, dispatcherVars, runtimeVars
<1>21. CASE StopDrained
  BY <1>21 DEF StopDrained, pollerVars, pendingVars, bridgeVars, dispatcherVars, runtimeVars
<1>22. ASSUME NEW c \in Chats, StopClear(c) PROVE TypeOK'
  <2>1. <<>> \in Seq(Msgs)
    BY EmptySeq
  <2>2. pending' \in [Chats -> Seq(Msgs)]
    BY <1>22, <2>1 DEF StopClear
  <2>3. QED
    BY <1>22, <2>2 DEF StopClear, pollerVars, bridgeVars, dispatcherVars, runtimeVars
<1>23. CASE StopCleared
  BY <1>23 DEF StopCleared, pollerVars, pendingVars, bridgeVars, dispatcherVars, runtimeVars
<1>24. CASE StopJoin
  BY <1>24 DEF StopJoin, pollerVars, pendingVars, bridgeVars, dispatcherVars, runtimeVars
<1>25. CASE UNCHANGED vars
  BY <1>25 DEF vars, pollerVars, pendingVars, bridgeVars, dispatcherVars, runtimeVars, stopVars
<1>26. QED
  BY <1>1, <1>2, <1>3, <1>4, <1>5, <1>6, <1>7, <1>8, <1>9, <1>10, <1>11, <1>12, <1>13, <1>14,
     <1>15, <1>16, <1>17, <1>18, <1>19, <1>20, <1>21, <1>22, <1>23, <1>24, <1>25
  DEF Next, Poller, Runtime, Dispatcher, Stop

-----------------------------------------------------------------------------
(* The queues of a step other than a push only lose entries. *)

QueueInv == NoLingeringEntry /\ QueuesAreFifo

Shrinks(c) ==
    /\ \A i \in DOMAIN pending'[c] : \E j \in DOMAIN pending[c] : pending'[c][i] = pending[c][j]
    /\ Increasing(pending'[c])

LEMMA RetainShrinks ==
    ASSUME TypeOK, QueuesAreFifo, NEW m \in Msgs, Retain(m)
    PROVE  \A c \in Chats : /\ Shrinks(c)
                            /\ c = ChatOf[m] => \A i \in DOMAIN pending'[c] : pending'[c][i] # m
<1>1. \A c \in Chats : Increasing(pending[c])
  BY DEF QueuesAreFifo, Increasing
<1>2. \A c \in Chats \ {ChatOf[m]} : pending'[c] = pending[c]
  BY DEF Retain, TypeOK
<1>3. pending'[ChatOf[m]] = Without(pending[ChatOf[m]], m)
  BY DEF Retain, TypeOK
<1>4. pending[ChatOf[m]] \in Seq(Msgs) /\ ChatOf[m] \in Chats
  BY DEF TypeOK
<1>5. /\ \A i \in DOMAIN pending'[ChatOf[m]] :
            \E j \in DOMAIN pending[ChatOf[m]] : pending'[ChatOf[m]][i] = pending[ChatOf[m]][j]
      /\ Increasing(pending'[ChatOf[m]])
      /\ \A i \in DOMAIN pending'[ChatOf[m]] : pending'[ChatOf[m]][i] # m
  BY <1>1, <1>3, <1>4, WithoutProperties
<1>6. QED
  BY <1>1, <1>2, <1>5 DEF Shrinks

LEMMA EmptyShrinks ==
    ASSUME TypeOK, QueuesAreFifo, NEW c \in Chats, pending' = [pending EXCEPT ![c] = <<>>]
    PROVE  \A d \in Chats : Shrinks(d)
BY DEF TypeOK, QueuesAreFifo, Shrinks, Increasing

LEMMA TailShrinks ==
    ASSUME TypeOK, QueuesAreFifo, NEW c \in Chats, pending[c] # <<>>,
           pending' = [pending EXCEPT ![c] = Tail(@)]
    PROVE  /\ \A d \in Chats : Shrinks(d)
           /\ \A i \in DOMAIN pending'[c] : pending'[c][i] # Head(pending[c])
<1> DEFINE q == pending[c]
           t == Tail(q)
<1>1. q \in Seq(Msgs) /\ q # <<>> /\ Increasing(q) /\ pending'[c] = t
  BY DEF TypeOK, QueuesAreFifo, Increasing
<1>2. /\ Len(t) = Len(q) - 1 /\ DOMAIN t = 1 .. Len(q) - 1 /\ Head(q) = q[1] /\ Len(q) \in Nat \ {0}
      /\ \A i \in DOMAIN t : t[i] = q[i + 1]
  BY <1>1, HeadTailProperties
<1>3. \A i \in DOMAIN t : i \in Nat /\ i + 1 \in DOMAIN q /\ 1 < i + 1
  BY <1>1, <1>2
<1>4. \A i \in DOMAIN t : \E j \in DOMAIN q : t[i] = q[j]
  BY <1>2, <1>3
<1>5. \A i \in DOMAIN t : t[i] # Head(q)
  <2>1. \A i \in DOMAIN q : q[i] \in Nat
    BY <1>1 DEF Msgs
  <2>2. 1 \in DOMAIN q
    BY <1>1, <1>2
  <2>3. QED
    BY <1>1, <1>2, <1>3, <2>1, <2>2 DEF Increasing
<1>6. Increasing(t)
  BY <1>1, <1>2, <1>3 DEF Increasing
<1> HIDE DEF q, t
<1>7. \A d \in Chats \ {c} : pending'[d] = pending[d] /\ Increasing(pending[d])
  BY DEF TypeOK, QueuesAreFifo, Increasing
<1>8. Shrinks(c)
  BY <1>1, <1>4, <1>6 DEF Shrinks, q
<1>9. \A d \in Chats \ {c} : Shrinks(d)
  BY <1>7 DEF Shrinks
<1>10. \A i \in DOMAIN pending'[c] : pending'[c][i] # Head(pending[c])
  BY <1>1, <1>5 DEF q
<1>11. QED
  BY <1>8, <1>9, <1>10

(* When queues only shrink, what is left of them still holds if it does for *)
(* each entry.                                                              *)
LEMMA ShrinkKeepsQueueInv ==
    ASSUME QueueInv, \A c \in Chats : Shrinks(c),
           \A c \in Chats : \A i \in DOMAIN pending'[c] :
              LET m == pending'[c][i] IN
              bridge[m] \in Receiving /\ slot[m] = NoEvent =>
              bridge'[m] \in Receiving /\ slot'[m] = NoEvent
    PROVE  QueueInv'
<1>1. QueuesAreFifo'
  BY DEF QueuesAreFifo, Shrinks, Increasing
<1>2. NoLingeringEntry'
  BY DEF QueueInv, NoLingeringEntry, Shrinks
<1>3. QED BY <1>1, <1>2 DEF QueueInv

-----------------------------------------------------------------------------
(* The inductive invariant is preserved. *)

(* No queue, oneshot, ticker or bridge changes.                             *)
Idle == UNCHANGED <<pending, bridge, slot, typing>>

LEMMA IdleSteps ==
    ASSUME Fetch \/ Accept \/ BatchDone \/ PollerExit \/ Runtime \/ Receive \/ CheckEmpty \/ Route
           \/ DispatcherExit \/ StopCancel \/ StopDrained \/ StopCleared \/ StopJoin
           \/ UNCHANGED vars
    PROVE  Idle
BY DEF Idle, Fetch, Accept, BatchDone, PollerExit, Runtime, AgentReplies, AgentStaysSilent, Unsolicited,
       Receive, CheckEmpty, Route, DispatcherExit, StopCancel, StopDrained, StopCleared, StopJoin,
       vars, pendingVars, bridgeVars

LEMMA IdleKeeps ==
    ASSUME Idle, QueueInv, TypingEndsWithBridge
    PROVE  QueueInv' /\ TypingEndsWithBridge'
BY DEF Idle, QueueInv, NoLingeringEntry, QueuesAreFifo, TypingEndsWithBridge

LEMMA PollerStep ==
    ASSUME TypeOK, PollerInv, [Next]_vars
    PROVE  PollerInv'
<1> USE DEF TypeOK, PollerInv, Msgs
<1>1. CASE Fetch
  BY <1>1 DEF Fetch, bridgeVars
<1>2. CASE Accept
  BY <1>2 DEF Accept, bridgeVars
<1>3. CASE PushEntry
  BY <1>3 DEF PushEntry
<1>4. CASE PublishInbound
  BY <1>4 DEF PublishInbound
<1>5. CASE PublishFails
  BY <1>5 DEF PublishFails
<1>6. CASE BatchDone \/ PollerExit
  BY <1>6 DEF BatchDone, PollerExit, bridgeVars
<1>7. ASSUME NEW m \in Msgs, Bridge(m) PROVE PollerInv'
  <2>1. bridge[m] \notin {"unseen", "pushed"} /\ UNCHANGED pollerVars
    BY <1>7 DEF Bridge, BridgeReply, BridgeSend, BridgeOrphan, BridgeElapse, BridgeExpire
  <2>2. \E t \in BridgeStates \ {"unseen", "pushed"} : bridge' = [bridge EXCEPT ![m] = t]
    BY <1>7 DEF Bridge, BridgeReply, BridgeSend, BridgeOrphan, BridgeElapse, BridgeExpire,
                Become, BridgeStates, Receiving, Resolved
  <2>3. QED
    BY <2>1, <2>2 DEF pollerVars
<1>8. CASE UNCHANGED <<cursor, batch, poller, bridge>>
  BY <1>8
<1>9. QED
  BY <1>1, <1>2, <1>3, <1>4, <1>5, <1>6, <1>7, <1>8
  DEF Next, Poller, Runtime, Dispatcher, Stop, AgentReplies, AgentStaysSilent, Unsolicited,
      Receive, PopEntry, CheckEmpty, RemoveSession, HandOver, Route, DispatcherExit,
      StopCancel, StopDrain, StopDrained, StopClear, StopCleared, StopJoin,
      vars, pollerVars, bridgeVars

(* What a step does to bridges and oneshots, whoever takes it.              *)
LEMMA BridgeEffect ==
    ASSUME NEW m \in Msgs, TypeOK, Bridge(m)
    PROVE  /\ UNCHANGED <<pollerVars, slot, dispatcherVars>>
           /\ typing' \subseteq typing
           /\ \E t \in BridgeStates \ {"unseen", "pushed"} : bridge' = [bridge EXCEPT ![m] = t]
           /\ bridge[m] \in {"waiting", "elapsed", "sending"}
           /\ \/ Retain(m) /\ m \notin typing'
              \/ pending' = pending /\ (bridge[m] \in Receiving => bridge'[m] \in Receiving)
<1>1. CASE BridgeReply(m) \/ BridgeOrphan(m) \/ BridgeExpire(m)
  BY <1>1 DEF BridgeReply, BridgeOrphan, BridgeExpire, CleanUp, Become, TypeOK,
              BridgeStates, Resolved, Receiving
<1>2. CASE BridgeSend(m)
  BY <1>2 DEF BridgeSend, Become, TypeOK, BridgeStates, Resolved, Receiving, pendingVars
<1>3. CASE BridgeElapse(m)
  BY <1>3 DEF BridgeElapse, Become, TypeOK, BridgeStates, Resolved, Receiving, pendingVars
<1>4. QED BY <1>1, <1>2, <1>3 DEF Bridge

LEMMA TypingStep ==
    ASSUME TypeOK, PollerInv, TypingEndsWithBridge, [Next]_vars
    PROVE  TypingEndsWithBridge'
<1> USE DEF TypingEndsWithBridge
<1>1. CASE PushEntry
  BY <1>1 DEF PushEntry, TypeOK, PollerInv, Receiving, Msgs
<1>2. CASE PublishInbound
  BY <1>2 DEF PublishInbound, TypeOK, PollerInv, Receiving, Msgs
<1>3. CASE PublishFails
  BY <1>3 DEF PublishFails, TypeOK, Receiving, Msgs
<1>4. ASSUME NEW m \in Msgs, Bridge(m) PROVE TypingEndsWithBridge'
  <2>1. \A k \in typing' \ {m} : bridge'[k] = bridge[k] /\ k \in typing
    BY <1>4, BridgeEffect DEF TypeOK
  <2>2. m \in typing' => bridge'[m] \in Receiving
    BY <1>4, BridgeEffect
  <2>3. QED BY <2>1, <2>2
<1>5. CASE bridge' = bridge /\ typing' \subseteq typing
  BY <1>5
<1>6. QED
  BY <1>1, <1>2, <1>3, <1>4, <1>5, IdleSteps
  DEF Next, Poller, Runtime, Dispatcher, Stop, Idle, PopEntry, RemoveSession, HandOver,
      StopDrain, StopClear, bridgeVars

LEMMA SlotStep ==
    ASSUME TypeOK, PollerInv, DispatcherInv, SlotInv, [Next]_vars
    PROVE  SlotInv'
<1> USE DEF SlotInv
<1>1. \A m \in Msgs : bridge'[m] = "unseen" => bridge[m] = "unseen"
  <2>1. CASE PushEntry
    BY <2>1 DEF PushEntry, TypeOK, Msgs
  <2>2. CASE PublishInbound \/ PublishFails
    BY <2>2 DEF PublishInbound, PublishFails, TypeOK, Msgs
  <2>3. ASSUME NEW m \in Msgs, Bridge(m) PROVE \A k \in Msgs : bridge'[k] = "unseen" => bridge[k] = "unseen"
    BY <2>3, BridgeEffect DEF TypeOK
  <2>4. CASE bridge' = bridge
    BY <2>4
  <2>5. QED
    BY <2>1, <2>2, <2>3, <2>4, IdleSteps
    DEF Next, Poller, Runtime, Dispatcher, Stop, Idle, PopEntry, RemoveSession, HandOver,
        StopDrain, StopClear, bridgeVars
<1>2. CASE HandOver
  BY <1>1, <1>2 DEF HandOver, DispatcherInv, TypeOK
<1>3. CASE slot' = slot
  BY <1>1, <1>3
<1>4. QED
  BY <1>2, <1>3, IdleSteps, BridgeEffect
  DEF Next, Poller, Runtime, Dispatcher, Stop, Idle, PushEntry, PublishInbound, PublishFails,
      PopEntry, RemoveSession, StopDrain, StopClear, bridgeVars

LEMMA SameQueuesKeepQueueInv ==
    ASSUME TypeOK, QueueInv, pending' = pending, slot' = slot,
           \A m \in Msgs : bridge[m] \in Receiving => bridge'[m] \in Receiving
    PROVE  QueueInv'
<1>1. ASSUME NEW c \in Chats, NEW i \in DOMAIN pending'[c]
      PROVE  LET m == pending'[c][i] IN
             ChatOf[m] = c /\ bridge'[m] \in Receiving /\ slot'[m] = NoEvent
  <2>1. i \in DOMAIN pending[c] /\ pending[c][i] \in Msgs
    BY DEF TypeOK
  <2>2. LET m == pending[c][i] IN ChatOf[m] = c /\ bridge[m] \in Receiving /\ slot[m] = NoEvent
    BY <2>1 DEF QueueInv, NoLingeringEntry
  <2>3. QED BY <2>1, <2>2
<1>2. NoLingeringEntry'
  BY <1>1 DEF NoLingeringEntry
<1>3. QED BY <1>2 DEF QueueInv, QueuesAreFifo

LEMMA QueueStep ==
    ASSUME TypeOK, TypeOK', PollerInv, DispatcherInv, SlotInv, QueueInv, [Next]_vars
    PROVE  QueueInv'
<1> USE DEF QueueInv
<1>1. CASE PushEntry
  <2> DEFINE c == ChatOf[cursor]
             q == pending[c]
             r == pending'[c]
  <2>1. cursor \in Msgs /\ c \in Chats /\ q \in Seq(Msgs)
    BY <1>1 DEF PushEntry, PollerInv, TypeOK, Msgs
  <2>2. r = Append(q, cursor) /\ \A d \in Chats \ {c} : pending'[d] = pending[d]
    BY <1>1, <2>1 DEF PushEntry, TypeOK
  <2>3. /\ Len(r) = Len(q) + 1 /\ r[Len(q) + 1] = cursor /\ Len(q) \in Nat
        /\ \A i \in 1 .. Len(q) : r[i] = q[i]
        /\ DOMAIN r = 1 .. Len(q) + 1 /\ DOMAIN q = 1 .. Len(q)
    BY <2>1, <2>2, AppendProperties
  <2>4. bridge[cursor] = "unseen" /\ slot[cursor] = NoEvent
    BY <1>1, <2>1 DEF PushEntry, PollerInv, SlotInv
  <2>5. \A d \in Chats : \A i \in DOMAIN pending[d] :
           pending[d][i] \in Msgs /\ pending[d][i] < cursor /\ bridge[pending[d][i]] \in Receiving
    <3>1. ASSUME NEW d \in Chats, NEW i \in DOMAIN pending[d]
          PROVE  pending[d][i] \in Msgs /\ bridge[pending[d][i]] \in Receiving
      BY DEF NoLingeringEntry, TypeOK
    <3>2. \A m \in Msgs : bridge[m] \in Receiving => m < cursor
      <4>1. poller = "preparing" /\ cursor \in Nat /\ \A m \in Msgs : m \in Nat
        BY <1>1, <2>1 DEF PushEntry, Msgs
      <4>2. \A m \in Msgs : bridge[m] # "unseen" => ~(m > cursor) /\ m # cursor
        BY <4>1 DEF PollerInv
      <4>3. \A m \in Msgs : bridge[m] \in Receiving => bridge[m] # "unseen"
        BY DEF Receiving
      <4>4. QED BY <4>1, <4>2, <4>3
    <3>3. QED BY <3>1, <3>2
  <2>6. /\ bridge'[cursor] = "pushed" /\ slot' = slot
        /\ \A m \in Msgs \ {cursor} : bridge'[m] = bridge[m]
    BY <1>1, <2>1 DEF PushEntry, TypeOK
  <2> HIDE DEF q, r, c
  <2>7. QueuesAreFifo'
    <3>1. ASSUME NEW i \in DOMAIN r, NEW j \in DOMAIN r, i < j PROVE r[i] < r[j]
      <4>1. CASE j = Len(q) + 1
        BY <2>1, <2>3, <2>5, <3>1, <4>1 DEF q
      <4>2. CASE j # Len(q) + 1
        BY <2>1, <2>3, <3>1, <4>2 DEF q, QueuesAreFifo
      <4>3. QED BY <4>1, <4>2
    <3>2. QED
      BY <2>2, <3>1 DEF QueuesAreFifo, r
  <2>8. NoLingeringEntry'
    <3>1. ASSUME NEW d \in Chats, NEW i \in DOMAIN pending'[d]
          PROVE  \/ d = c /\ pending'[d][i] = cursor
                 \/ i \in DOMAIN pending[d] /\ pending'[d][i] = pending[d][i]
      BY <2>2, <2>3 DEF q, r
    <3>2. ASSUME NEW d \in Chats, NEW i \in DOMAIN pending'[d]
          PROVE  LET m == pending'[d][i] IN
                 ChatOf[m] = d /\ bridge'[m] \in Receiving /\ slot'[m] = NoEvent
      <4>1. CASE d = c /\ pending'[d][i] = cursor
        BY <2>4, <2>6, <4>1 DEF Receiving, c
      <4>2. CASE i \in DOMAIN pending[d] /\ pending'[d][i] = pending[d][i]
        <5>1. pending[d][i] \in Msgs \ {cursor}
          BY <2>1, <2>5, <4>2 DEF Msgs
        <5>2. QED BY <2>6, <4>2, <5>1 DEF NoLingeringEntry
      <4>3. QED BY <3>1, <4>1, <4>2
    <3>3. QED BY <3>2 DEF NoLingeringEntry
  <2>9. QED BY <2>7, <2>8
<1>2. CASE PublishInbound
  <2>1. cursor \in Msgs /\ \A m \in Msgs \ {cursor} : bridge'[m] = bridge[m]
    BY <1>2 DEF PublishInbound, PollerInv, TypeOK, Msgs
  <2>2. bridge'[cursor] = "waiting" /\ pending' = pending /\ slot' = slot
    BY <1>2, <2>1 DEF PublishInbound, TypeOK, pendingVars
  <2>3. QED
    BY <2>1, <2>2, SameQueuesKeepQueueInv DEF Receiving
<1>3. ASSUME NEW m \in Msgs, Retain(m), slot' = slot, \A k \in Msgs \ {m} : bridge'[k] = bridge[k]
      PROVE  QueueInv'
  <2>1. \A c \in Chats : Shrinks(c)
    BY <1>3, RetainShrinks
  <2>2. ASSUME NEW c \in Chats, NEW i \in DOMAIN pending'[c] PROVE pending'[c][i] \in Msgs \ {m}
    <3>1. pending'[c][i] \in Msgs
      BY DEF TypeOK
    <3>2. CASE c = ChatOf[m]
      BY <1>3, <3>1, <3>2, RetainShrinks
    <3>3. CASE c # ChatOf[m]
      BY <2>1, <3>1, <3>3 DEF Shrinks, NoLingeringEntry
    <3>4. QED BY <3>2, <3>3
  <2>3. QED
    BY <1>3, <2>1, <2>2, ShrinkKeepsQueueInv
<1>4. CASE PublishFails
  <2>1. cursor \in Msgs /\ Retain(cursor) /\ slot' = slot /\ \A k \in Msgs \ {cursor} : bridge'[k] = bridge[k]
    BY <1>4 DEF PublishFails, PollerInv, TypeOK, Msgs
  <2>2. QED BY <1>3, <2>1
<1>5. ASSUME NEW m \in Msgs, Bridge(m) PROVE QueueInv'
  <2>1. slot' = slot /\ \A k \in Msgs \ {m} : bridge'[k] = bridge[k]
    BY <1>5, BridgeEffect DEF TypeOK
  <2>2. CASE Retain(m)
    BY <1>3, <2>1, <2>2
  <2>3. CASE pending' = pending /\ (bridge[m] \in Receiving => bridge'[m] \in Receiving)
    BY <2>1, <2>3, SameQueuesKeepQueueInv
  <2>4. QED BY <1>5, <2>2, <2>3, BridgeEffect
<1>6. CASE PopEntry
  <2> DEFINE c == event.session
  <2>1. c \in Chats /\ bridge' = bridge /\ slot' = slot
    BY <1>6 DEF PopEntry, DispatcherInv, Events, bridgeVars
  <2>2. CASE pending[c] = <<>>
    BY <1>6, <2>1, <2>2 DEF PopEntry, NoLingeringEntry, QueuesAreFifo
  <2>3. CASE pending[c] # <<>>
    <3>1. pending' = [pending EXCEPT ![c] = Tail(@)]
      BY <1>6, <2>3 DEF PopEntry
    <3>2. QED
      BY <2>1, <2>3, <3>1, TailShrinks, ShrinkKeepsQueueInv
  <2>4. QED BY <2>2, <2>3
<1>7. ASSUME NEW c \in Chats, pending' = [pending EXCEPT ![c] = <<>>], UNCHANGED <<bridge, slot>>
      PROVE  QueueInv'
  BY <1>7, EmptyShrinks, ShrinkKeepsQueueInv
<1>8. CASE RemoveSession
  BY <1>7, <1>8 DEF RemoveSession, DispatcherInv, Events, bridgeVars
<1>9. ASSUME NEW c \in Chats, StopDrain(c) \/ StopClear(c) PROVE QueueInv'
  BY <1>7, <1>9 DEF StopDrain, StopClear, bridgeVars
<1>10. CASE HandOver
  <2>1. pending' = pending /\ bridge' = bridge
    BY <1>10 DEF HandOver, pendingVars
  <2>2. \A m \in Msgs : m # held => slot'[m] = slot[m]
    BY <1>10 DEF HandOver, TypeOK
  <2>3. CASE held = NoMsg
    BY <1>10, <2>1, <2>3 DEF HandOver, NoLingeringEntry, QueuesAreFifo
  <2>4. CASE held # NoMsg
    <3>1. \A c \in Chats : \A i \in DOMAIN pending[c] : pending[c][i] \in Msgs /\ pending[c][i] # held
      BY <2>4 DEF DispatcherInv, InQueue, TypeOK
    <3>2. QED
      BY <2>1, <2>2, <3>1 DEF NoLingeringEntry, QueuesAreFifo
  <2>5. QED BY <2>3, <2>4
<1>11. CASE Idle
  BY <1>11 DEF Idle, NoLingeringEntry, QueuesAreFifo
<1>12. QED
  BY <1>1, <1>2, <1>4, <1>5, <1>6, <1>8, <1>9, <1>10, <1>11, IdleSteps
  DEF Next, Poller, Dispatcher, Stop

LEMMA DispatcherStep ==
    ASSUME TypeOK, PollerInv, DispatcherInv, QueueInv, [Next]_vars
    PROVE  DispatcherInv'
<1> USE DEF QueueInv
<1> DEFINE Others ==
        /\ UNCHANGED <<dispatcher, event, held>>
        /\ held # NoMsg => ~InQueue(held)' /\ bridge'[held] # "unseen" /\ slot'[held] = slot[held]
<1>1. Others => DispatcherInv'
  BY DEF DispatcherInv
<1>2. ASSUME \A c \in Chats : Shrinks(c) PROVE \A m \in Msgs : InQueue(m)' => InQueue(m)
  BY <1>2 DEF InQueue, Shrinks
<1>3. CASE PushEntry
  <2>1. cursor \in Msgs /\ bridge[cursor] = "unseen" /\ UNCHANGED <<dispatcher, event, held, slot>>
    BY <1>3 DEF PushEntry, PollerInv, TypeOK, Msgs, dispatcherVars
  <2>2. ASSUME NEW m \in Msgs, m # cursor PROVE InQueue(m)' => InQueue(m)
    <3>1. ASSUME NEW c \in Chats, NEW i \in DOMAIN pending'[c], pending'[c][i] = m
          PROVE  i \in DOMAIN pending[c] /\ pending[c][i] = m
      <4>1. CASE c = ChatOf[cursor]
        <5>1. pending[c] \in Seq(Msgs) /\ pending'[c] = Append(pending[c], cursor)
          BY <1>3, <4>1 DEF PushEntry, TypeOK
        <5>2. QED BY <2>1, <2>2, <3>1, <5>1, AppendProperties
      <4>2. CASE c # ChatOf[cursor]
        BY <1>3, <3>1, <4>2 DEF PushEntry, TypeOK
      <4>3. QED BY <4>1, <4>2
    <3>2. QED BY <3>1 DEF InQueue
  <2>3. ASSUME held # NoMsg PROVE held \in Msgs \ {cursor} /\ ~InQueue(held) /\ bridge'[held] # "unseen"
    BY <1>3, <2>1, <2>3 DEF PushEntry, DispatcherInv, TypeOK
  <2>4. QED BY <1>1, <2>1, <2>2, <2>3
<1>4. CASE PublishInbound
  BY <1>1, <1>4 DEF PublishInbound, DispatcherInv, TypeOK, InQueue, dispatcherVars, pendingVars, Msgs
<1>5. CASE PublishFails
  <2>0. cursor \in Msgs
    BY <1>5 DEF PublishFails, PollerInv, TypeOK, Msgs
  <2>1. \A c \in Chats : Shrinks(c)
    BY <1>5, <2>0, RetainShrinks DEF PublishFails
  <2>2. \A m \in Msgs : bridge[m] # "unseen" => bridge'[m] # "unseen"
    BY <1>5 DEF PublishFails, TypeOK
  <2>3. QED
    BY <1>1, <1>2, <1>5, <2>1, <2>2 DEF PublishFails, DispatcherInv, TypeOK, dispatcherVars
<1>6. ASSUME NEW m \in Msgs, Bridge(m) PROVE DispatcherInv'
  <2>1. UNCHANGED <<slot, dispatcher, event, held>>
    BY <1>6, BridgeEffect DEF dispatcherVars
  <2>2. \A k \in Msgs : bridge[k] # "unseen" => bridge'[k] # "unseen"
    BY <1>6, BridgeEffect DEF TypeOK
  <2>3. \A k \in Msgs : InQueue(k)' => InQueue(k)
    BY <1>2, <1>6, BridgeEffect, RetainShrinks DEF InQueue
  <2>4. QED
    BY <1>1, <2>1, <2>2, <2>3 DEF DispatcherInv, TypeOK
<1>7. ASSUME NEW c \in Chats, pending' = [pending EXCEPT ![c] = <<>>], UNCHANGED <<bridge, slot>>
      PROVE  /\ \A m \in Msgs : InQueue(m)' => InQueue(m)
             /\ UNCHANGED <<dispatcher, event, held>> => DispatcherInv'
  <2>1. \A m \in Msgs : InQueue(m)' => InQueue(m)
    BY <1>2, <1>7, EmptyShrinks
  <2>2. QED
    BY <1>1, <1>7, <2>1 DEF DispatcherInv, TypeOK
<1>8. ASSUME NEW c \in Chats, StopDrain(c) \/ StopClear(c) PROVE DispatcherInv'
  BY <1>7, <1>8 DEF StopDrain, StopClear, bridgeVars, dispatcherVars
<1>9. CASE RemoveSession
  <2>1. event.session \in Chats
    BY <1>9 DEF RemoveSession, DispatcherInv, Events
  <2>2. \A m \in Msgs : InQueue(m)' => InQueue(m)
    BY <1>7, <1>9, <2>1 DEF RemoveSession, bridgeVars
  <2>3. QED
    BY <1>9, <2>2 DEF RemoveSession, DispatcherInv, TypeOK, bridgeVars
<1>10. CASE PopEntry
  <2> DEFINE c == event.session
             q == pending[c]
  <2>1. /\ c \in Chats /\ event \in Events /\ held = NoMsg
        /\ q \in Seq(Msgs) /\ UNCHANGED <<event, bridge, slot>> /\ dispatcher' = "check"
    BY <1>10 DEF PopEntry, DispatcherInv, Events, TypeOK, bridgeVars
  <2>2. CASE q = <<>>
    BY <1>10, <2>1, <2>2 DEF PopEntry, DispatcherInv
  <2>3. CASE q # <<>>
    <3>1. held' = Head(q) /\ pending' = [pending EXCEPT ![c] = Tail(@)]
      BY <1>10, <2>3 DEF PopEntry
    <3>2. 1 \in DOMAIN q /\ Head(q) = q[1] /\ Head(q) \in Msgs
      BY <2>1, <2>3, HeadTailProperties
    <3>3. ChatOf[Head(q)] = c /\ bridge[Head(q)] \in Receiving /\ slot[Head(q)] = NoEvent
      BY <2>1, <3>2 DEF NoLingeringEntry
    <3>4. InQueue(held)' = FALSE
      <4>1. \A i \in DOMAIN pending'[c] : pending'[c][i] # Head(q)
        BY <2>1, <2>3, <3>1, TailShrinks
      <4>2. \A d \in Chats \ {c} : \A i \in DOMAIN pending'[d] : pending'[d][i] # Head(q)
        BY <3>1, <3>3 DEF NoLingeringEntry, TypeOK
      <4>3. \A d \in Chats : \A i \in DOMAIN pending'[d] : pending'[d][i] # held'
        BY <3>1, <4>1, <4>2
      <4>4. QED BY <4>3 DEF InQueue
    <3>5. bridge[held'] # "unseen" /\ slot[held'] = NoEvent /\ ChatOf[held'] = c
      BY <3>1, <3>3 DEF Receiving
    <3> HIDE DEF q
    <3>6. QED
      BY <2>1, <3>4, <3>5 DEF DispatcherInv
  <2>4. QED BY <2>2, <2>3
<1>11. CASE Receive
  <2>1. Head(outbound) \in Events
    BY <1>11, HeadTailType DEF Receive, TypeOK
  <2>2. held = NoMsg /\ held' = held /\ event' = Head(outbound)
        /\ dispatcher' = IF Head(outbound).session # NoChat THEN "pop" ELSE "route"
    BY <1>11 DEF Receive, DispatcherInv
  <2>3. QED
    BY <2>1, <2>2 DEF DispatcherInv, Events
<1>12. CASE CheckEmpty
  BY <1>12 DEF CheckEmpty, DispatcherInv, InQueue, pendingVars, bridgeVars
<1>13. CASE HandOver
  BY <1>13 DEF HandOver, NextEvent, DispatcherInv, InQueue, pendingVars
<1>14. CASE Route
  BY <1>14 DEF Route, NextEvent, DispatcherInv
<1>15. CASE DispatcherExit
  BY <1>15 DEF DispatcherExit, DispatcherInv
<1>16. CASE UNCHANGED <<pending, bridge, slot, dispatcher, event, held>>
  BY <1>1, <1>16 DEF InQueue, DispatcherInv
<1>17. QED
  BY <1>3, <1>4, <1>5, <1>6, <1>8, <1>9, <1>10, <1>11, <1>12, <1>13, <1>14, <1>15, <1>16
  DEF Next, Poller, Runtime, Dispatcher, Stop, Fetch, Accept, BatchDone, PollerExit,
      AgentReplies, AgentStaysSilent, Unsolicited, StopCancel, StopDrained, StopCleared, StopJoin,
      vars, pendingVars, bridgeVars, dispatcherVars

-----------------------------------------------------------------------------
IInv == TypeOK /\ BridgeInv

LEMMA InvInit == Init => IInv
<1> SUFFICES ASSUME Init PROVE IInv
  OBVIOUS
<1>1. TypeOK
  BY TypeInit
<1>2. PollerInv
  BY DEF Init, PollerInv, Msgs
<1>3. DispatcherInv /\ SlotInv
  BY DEF Init, DispatcherInv, SlotInv
<1>4. TypingEndsWithBridge /\ NoLingeringEntry /\ QueuesAreFifo
  BY DEF Init, TypingEndsWithBridge, NoLingeringEntry, QueuesAreFifo
<1>5. QED
  BY <1>1, <1>2, <1>3, <1>4 DEF IInv, BridgeInv

LEMMA InvStep == IInv /\ [Next]_vars => IInv'
<1> SUFFICES ASSUME IInv, [Next]_vars PROVE IInv'
  OBVIOUS
<1> USE DEF IInv, BridgeInv, QueueInv
<1>1. TypeOK'
  BY TypeStep
<1>2. PollerInv' /\ DispatcherInv' /\ SlotInv'
  BY PollerStep, DispatcherStep, SlotStep
<1>3. NoLingeringEntry' /\ QueuesAreFifo'
  BY <1>1, QueueStep
<1>4. TypingEndsWithBridge'
  BY TypingStep
<1>5. QED
  BY <1>1, <1>2, <1>3, <1>4

(* The poller, the dispatcher, the bridge tasks and stop() keep the         *)
(* bridge invariant whatever their order: this is what the properties below *)
(* follow from.                                                             *)
THEOREM BridgeInvariant == Spec => []BridgeInv
<1>1. Spec => []IInv
  BY InvInit, InvStep, PTL DEF Spec
<1>2. IInv => BridgeInv
  BY DEF IInv
<1>3. QED BY <1>1, <1>2, PTL

(* Every variable of the bridge keeps its type.                             *)
THEOREM TypeCorrect == Spec => []TypeOK
<1>1. Spec => []IInv
  BY InvInit, InvStep, PTL DEF Spec
<1>2. IInv => TypeOK
  BY DEF IInv
<1>3. QED BY <1>1, <1>2, PTL

(* No typing ticker outlives the bridge it was started for.                 *)
THEOREM TypingEnds == Spec => []TypingEndsWithBridge
<1>1. BridgeInv => TypingEndsWithBridge
  BY DEF BridgeInv
<1>2. QED BY <1>1, BridgeInvariant, PTL

(* A resolved message has no entry left in the pending map.                 *)
THEOREM NoEntryLingers == Spec => []NoLingeringEntry
<1>1. BridgeInv => NoLingeringEntry
  BY DEF BridgeInv
<1>2. QED BY <1>1, BridgeInvariant, PTL

(* A pop takes the oldest live message of the chat.                         *)
THEOREM QueuesStayFifo == Spec => []QueuesAreFifo
<1>1. BridgeInv => QueuesAreFifo
  BY DEF BridgeInv
<1>2. QED BY <1>1, BridgeInvariant, PTL

-----------------------------------------------------------------------------
(* Each step of the bridge is a step of the contract, or none of its.       *)

Fate == [m \in Msgs |-> FateOf(m)]

LEMMA FateTable ==
    ASSUME NEW m \in Msgs
    PROVE  /\ bridge[m] = "unseen" => FateOf(m) = "unseen"
           /\ bridge[m] \in Receiving => FateOf(m) = "open"
           /\ bridge[m] = "sending" => FateOf(m) = "answering"
           /\ bridge[m] \in {"delivered", "failed", "discarded"} => FateOf(m) = "answered"
           /\ bridge[m] = "timedOut" => FateOf(m) = "expired"
           /\ bridge[m] \in {"orphaned", "unpublished"} => FateOf(m) = "abandoned"
BY DEF FateOf, Receiving

(* A bridge that changes its state changes the fate of its message only.    *)
LEMMA FateChange ==
    ASSUME NEW m \in Msgs, TypeOK, NEW t \in BridgeStates, bridge' = [bridge EXCEPT ![m] = t]
    PROVE  Fate' = [Fate EXCEPT ![m] = FateOf(m)']
<1>1. \A k \in Msgs \ {m} : FateOf(k)' = FateOf(k)
  BY DEF FateOf, TypeOK
<1>2. QED
  BY <1>1 DEF Fate

LEMMA ContractStep ==
    ASSUME IInv, [Next]_vars
    PROVE  [Contract!Next]_(Contract!vars)
<1> USE DEF IInv, BridgeInv
<1>0. /\ Contract!vars = <<Fate, slot, typing>> /\ Contract!vars' = <<Fate', slot', typing'>>
      /\ Contract!Msgs = Msgs
  BY DEF Contract!vars, Fate, Contract!Msgs, Msgs
<1>1. ASSUME NEW m \in Msgs, bridge' = [bridge EXCEPT ![m] = "pushed"],
             bridge[m] = "unseen", \A k \in 1 .. m - 1 : bridge[k] # "unseen",
             typing' = typing \cup {m}, slot' = slot
      PROVE  Contract!Next
  <2>1. Fate' = [Fate EXCEPT ![m] = "open"]
    <3>1. FateOf(m)' = "open"
      BY <1>1 DEF FateOf, Receiving, TypeOK
    <3>2. QED BY <1>1, <3>1, FateChange DEF BridgeStates, Receiving
  <2>2. Fate[m] = "unseen"
    BY <1>1, FateTable DEF Fate
  <2>3. \A k \in 1 .. m - 1 : Fate[k] # "unseen"
    BY <1>1 DEF Fate, FateOf, Msgs, Receiving
  <2>4. Contract!Open(m)
    BY <1>1, <2>1, <2>2, <2>3 DEF Contract!Open, Fate
  <2>5. QED BY <1>0, <2>4 DEF Contract!Next
<1>2. ASSUME NEW m \in Msgs, NEW t \in BridgeStates, bridge' = [bridge EXCEPT ![m] = t],
             typing' = typing \ {m}, slot' = slot,
             \/ bridge[m] = "waiting" /\ t = "sending" /\ slot[m] # NoEvent
             \/ bridge[m] = "sending" /\ t \in {"delivered", "failed", "discarded"}
             \/ bridge[m] = "elapsed" /\ t = "timedOut"
             \/ bridge[m] \in {"pushed", "waiting"} /\ t \in {"unpublished", "orphaned"}
      PROVE  Contract!Next
  <2>1. bridge'[m] = t
    BY <1>2 DEF TypeOK
  <2>2. Fate' = [Fate EXCEPT ![m] = FateOf(m)']
    BY <1>2, FateChange
  <2>3. Fate[m] = FateOf(m) /\ slot[m] = slot'[m]
    BY <1>2 DEF Fate
  <2>4. CASE bridge[m] = "waiting" /\ t = "sending" /\ slot[m] # NoEvent
    <3>1. FateOf(m) = "open" /\ FateOf(m)' = "answering"
      BY <2>1, <2>4 DEF FateOf, Receiving
    <3>2. Contract!Answering(m)
      BY <1>2, <2>2, <2>3, <2>4, <3>1 DEF Contract!Answering, Contract!Move, Fate
    <3>3. QED BY <1>0, <3>2 DEF Contract!Next
  <2>5. CASE bridge[m] = "sending" /\ t \in {"delivered", "failed", "discarded"}
    <3>1. FateOf(m) = "answering" /\ FateOf(m)' = "answered"
      BY <2>1, <2>5 DEF FateOf, Receiving
    <3>2. Contract!Answer(m)
      BY <1>2, <2>2, <2>3, <3>1 DEF Contract!Answer, Contract!Move, Fate
    <3>3. QED BY <1>0, <3>2 DEF Contract!Next
  <2>6. CASE bridge[m] = "elapsed" /\ t = "timedOut"
    <3>1. FateOf(m) = "open" /\ FateOf(m)' = "expired"
      BY <2>1, <2>6 DEF FateOf, Receiving
    <3>2. Contract!Expire(m)
      BY <1>2, <2>2, <2>3, <3>1 DEF Contract!Expire, Contract!Move, Fate
    <3>3. QED BY <1>0, <3>2 DEF Contract!Next
  <2>7. CASE bridge[m] \in {"pushed", "waiting"} /\ t \in {"unpublished", "orphaned"}
    <3>1. FateOf(m) = "open" /\ FateOf(m)' = "abandoned"
      BY <2>1, <2>7 DEF FateOf, Receiving
    <3>2. Contract!Abandon(m)
      BY <1>2, <2>2, <2>3, <3>1 DEF Contract!Abandon, Contract!Move, Fate
    <3>3. QED BY <1>0, <3>2 DEF Contract!Next
  <2>8. QED BY <1>2, <2>4, <2>5, <2>6, <2>7
<1>3. ASSUME NEW m \in Msgs, NEW t \in Receiving, bridge[m] \in Receiving,
             bridge' = [bridge EXCEPT ![m] = t], UNCHANGED <<slot, typing>>
      PROVE  UNCHANGED Contract!vars
  <2>1. FateOf(m)' = "open" /\ FateOf(m) = "open" /\ t \in BridgeStates
    BY <1>3 DEF FateOf, TypeOK, Receiving, BridgeStates
  <2>2. \A k \in Msgs \ {m} : FateOf(k)' = FateOf(k)
    BY <1>3 DEF FateOf, TypeOK
  <2>3. Fate' = Fate
    BY <2>1, <2>2 DEF Fate
  <2>4. QED BY <1>0, <1>3, <2>3
<1>4. ASSUME NEW S \in SUBSET Msgs, typing' = typing \ S, UNCHANGED <<bridge, slot>>
      PROVE  Contract!Next
  <2>1. Fate' = Fate
    BY <1>4 DEF Fate, FateOf
  <2>2. Contract!Hush(S)
    BY <1>4, <2>1 DEF Contract!Hush, Fate
  <2>3. QED BY <1>0, <2>2 DEF Contract!Next
<1>5. CASE PushEntry
  <2>1. /\ cursor \in Msgs /\ bridge[cursor] = "unseen"
        /\ bridge' = [bridge EXCEPT ![cursor] = "pushed"]
        /\ typing' = typing \cup {cursor} /\ slot' = slot
    BY <1>5 DEF PushEntry, PollerInv, TypeOK, Msgs
  <2>2. \A k \in 1 .. cursor - 1 : bridge[k] # "unseen"
    BY <2>1 DEF PollerInv, TypeOK, Msgs
  <2>3. QED BY <1>1, <2>1, <2>2
<1>6. CASE PublishInbound
  <2>1. cursor \in Msgs /\ bridge[cursor] = "pushed"
    BY <1>6 DEF PublishInbound, PollerInv, TypeOK, Msgs
  <2>2. QED
    BY <1>3, <1>6, <2>1 DEF PublishInbound, Receiving
<1>7. CASE PublishFails
  <2>1. cursor \in Msgs /\ bridge[cursor] = "pushed"
    BY <1>7 DEF PublishFails, PollerInv, TypeOK, Msgs
  <2>2. QED
    BY <1>2, <1>7, <2>1 DEF PublishFails, BridgeStates, Resolved
<1>8. ASSUME NEW m \in Msgs, Bridge(m) PROVE [Contract!Next]_(Contract!vars)
  <2>1. CASE BridgeReply(m) \/ BridgeOrphan(m) \/ BridgeExpire(m)
    BY <1>2, <2>1 DEF BridgeReply, BridgeOrphan, BridgeExpire, CleanUp, Become, BridgeStates, Resolved
  <2>2. CASE BridgeSend(m)
    <3>1. typing' = typing \ {m}
      BY <2>2 DEF BridgeSend, TypingEndsWithBridge, Receiving
    <3>2. QED
      BY <1>2, <2>2, <3>1 DEF BridgeSend, Become, BridgeStates, Resolved
  <2>3. CASE BridgeElapse(m)
    BY <1>3, <2>3 DEF BridgeElapse, Become, Receiving
  <2>4. QED BY <1>8, <2>1, <2>2, <2>3 DEF Bridge
<1>9. CASE HandOver
  <2>1. CASE held # NoMsg /\ bridge[held] \in Receiving
    <3>1. /\ held \in Msgs /\ event \in Events /\ event.session = ChatOf[held]
          /\ slot[held] = NoEvent /\ FateOf(held) = "open"
      BY <1>9, <2>1, FateTable DEF HandOver, DispatcherInv, TypeOK
    <3>2. slot' = [slot EXCEPT ![held] = event] /\ typing' = typing \ {held} /\ bridge' = bridge
      BY <1>9, <2>1 DEF HandOver
    <3>3. Fate' = Fate /\ Fate[held] = "open"
      BY <3>1, <3>2 DEF Fate, FateOf
    <3>4. Contract!Give(held, event)
      BY <3>1, <3>2, <3>3 DEF Contract!Give, Fate
    <3>5. QED BY <1>0, <3>1, <3>4 DEF Contract!Next
  <2>2. CASE ~(held # NoMsg /\ bridge[held] \in Receiving)
    <3>1. typing' = typing \ ({held} \cap Msgs) /\ UNCHANGED <<bridge, slot>>
      BY <1>9, <2>2 DEF HandOver, TypeOK
    <3>2. QED BY <1>4, <3>1
  <2>3. QED BY <2>1, <2>2
<1>10. ASSUME NEW c \in Chats, StopDrain(c) PROVE Contract!Next
  <2>1. ToSet(pending[c]) \in SUBSET Msgs
    BY DEF TypeOK, ToSet
  <2>2. QED BY <1>4, <1>10, <2>1 DEF StopDrain
<1>11. CASE UNCHANGED <<bridge, slot, typing>>
  BY <1>0, <1>11 DEF Fate, FateOf
<1>12. CASE Idle \/ PopEntry \/ RemoveSession \/ \E c \in Chats : StopClear(c)
  BY <1>11, <1>12 DEF Idle, PopEntry, RemoveSession, StopClear, bridgeVars
<1>13. QED
  BY <1>5, <1>6, <1>7, <1>8, <1>9, <1>10, <1>12, IdleSteps
  DEF Next, Poller, Dispatcher, Stop

(* The bridge implements the contract: a message is opened once and in      *)
(* order, given at most one reply of its chat while open, and ends in one   *)
(* fate.                                                                    *)
THEOREM BridgeKeepsContract == Spec => KeepsContract
<1>1. Init => Contract!Init
  <2> SUFFICES ASSUME Init PROVE Contract!Init
    OBVIOUS
  <2>0. \A m \in Msgs : FateOf(m) = "unseen"
    BY FateTable DEF Init
  <2>1. [m \in Msgs |-> FateOf(m)] = [m \in Msgs |-> "unseen"]
    BY <2>0
  <2>2. QED
    BY <2>1 DEF Init, Contract!Init, Contract!Msgs, Msgs
<1>2. IInv /\ [Next]_vars => [Contract!Next]_(Contract!vars)
  BY ContractStep
<1>3. Spec => []IInv
  BY InvInit, InvStep, PTL DEF Spec
<1>4. QED
  BY <1>1, <1>2, <1>3, PTL DEF Spec, KeepsContract, Contract!Spec
=============================================================================
