-------------------------- MODULE AlignmentProofs --------------------------
(***************************************************************************)
(* Proofs about ReplyBridge: which answer meets which message, for any      *)
(* chats, any number of messages and any environment.  The step that pairs  *)
(* them, PopEntry, looks only at the head of a queue and never at what the  *)
(* event answers.  That the two agree follows from order alone: answers     *)
(* travel in the order of their messages (OrderInv), the queue is in the    *)
(* same order, and a message that is missing from the queue, or whose       *)
(* answer is missing from the stream, left a trace that stays (Disturbance). *)
(***************************************************************************)
EXTENDS ReplyBridgeProofs

USE NAssumption, ChatOfAssumption

(* Where the answer to m may be: not yet given, on the topic, in work; or   *)
(* settled, in a oneshot or on the proactive path.                          *)
Published(m) == bridge[m] \notin {"unseen", "pushed", "unpublished"}
InInbox(m) == \E i \in DOMAIN inbox[ChatOf[m]] : inbox[ChatOf[m]][i] = m
InOutbound(m) == \E i \in DOMAIN outbound : outbound[i].re = m
Outstanding(m) == InInbox(m) \/ InOutbound(m) \/ event.re = m
Settled(m) == (\E k \in Msgs : slot[k].re = m) \/ \E p \in proactive : p.event.re = m

WellAddressed(e) == e.re # NoMsg => e.session = ChatOf[e.re]
WellSent(p) == WellAddressed(p.event) /\ p.chat \in {p.event.to, p.event.session}

(* Every answer is of a published message, is tagged with its session, and   *)
(* is under way or settled but not both; it is settled in one place, and on *)
(* the proactive path in the chat its payload names or the session's.       *)
PlaceInv ==
    /\ \A c \in Chats : \A i \in DOMAIN inbox[c] : ChatOf[inbox[c][i]] = c
    /\ \A i \in DOMAIN outbound : WellAddressed(outbound[i])
    /\ WellAddressed(event) /\ \A p \in proactive : WellSent(p)
    /\ dispatcher \in {"recv", "exited"} => event = NoEvent
    /\ \A m \in Msgs : Outstanding(m) => Published(m) /\ ~Settled(m)
    /\ \A m \in Msgs : Settled(m) => Published(m)
    /\ \A k, l \in Msgs : k # l /\ slot[k].re = slot[l].re => slot[k].re = NoMsg
    /\ \A k \in Msgs, p \in proactive : slot[k].re # NoMsg => slot[k].re # p.event.re

(* Within a chat answers keep the order of their messages: the one in work  *)
(* is older than those on the topic, and they than those not yet given.     *)
SameChat(k, m) == ChatOf[k] = ChatOf[m]
OrderInv ==
    /\ \A c \in Chats : Increasing(inbox[c])
    /\ \A i, j \in DOMAIN outbound :
          LET k == outbound[i].re  m == outbound[j].re IN
          i < j /\ k # NoMsg /\ m # NoMsg /\ SameChat(k, m) => k < m
    /\ \A k, m \in Msgs : InOutbound(k) /\ InInbox(m) /\ SameChat(k, m) => k < m
    /\ \A k, m \in Msgs : event.re = k /\ (InOutbound(m) \/ InInbox(m)) /\ SameChat(k, m) => k < m

(* Only the message being published has its entry and no place yet; a       *)
(* bridge resolves with a reply only from its slot; the proactive path is   *)
(* taken with an entry in hand only when its bridge is gone; and the entry  *)
(* in hand is older than those left in its queue.                           *)
LifeInv ==
    /\ \A m \in Msgs : bridge[m] = "pushed" => m = cursor /\ poller = "publishing"
    /\ \A m \in Msgs : bridge[m] \in {"sending", "delivered", "failed", "discarded"} => slot[m] # NoEvent
    /\ dispatcher = "route" /\ held # NoMsg => bridge[held] \notin Receiving
    /\ held # NoMsg => \A i \in DOMAIN pending[ChatOf[held]] : held < pending[ChatOf[held]][i]

(* Nothing disturbed the chat of m up to m.  Then whatever m got is its own *)
(* answer, which never takes the proactive path; an open m still has an     *)
(* answer under way, and event and entry agree from the moment one is popped *)
(* for the other.                                                           *)
Calm(m) == \A k \in 1 .. m : SameChat(k, m) => ~Disturbance(k)
Open(m) == bridge[m] = "waiting" /\ slot[m] = NoEvent
Aligned(m) ==
    /\ slot[m].re \in {NoMsg, m}
    /\ \A p \in proactive : p.event.re # m
    /\ Open(m) => Outstanding(m)
    /\ held = m => event.re \in {NoMsg, m}
    /\ dispatcher \in {"check", "remove", "hand", "route"} /\ event.re = m /\ Open(m) =>
          held = m /\ dispatcher # "route"
AlignInv == \A m \in Msgs : Calm(m) => Aligned(m)
-----------------------------------------------------------------------------
(* Sequences by their indices: one more element, one element less.          *)

LEMMA AppendIndices ==
    ASSUME NEW S, NEW s \in Seq(S), NEW e \in S
    PROVE  /\ \A i \in DOMAIN s : i \in DOMAIN Append(s, e) /\ Append(s, e)[i] = s[i] /\ i < Len(s) + 1
           /\ \A i \in DOMAIN Append(s, e) : i \in DOMAIN s \/ i = Len(s) + 1
           /\ Len(s) + 1 \in DOMAIN Append(s, e) /\ Append(s, e)[Len(s) + 1] = e
           /\ Len(s) \in Nat /\ \A i \in DOMAIN Append(s, e) : i \in Nat /\ i <= Len(s) + 1
<1>1. Len(s) \in Nat /\ DOMAIN s = 1 .. Len(s) /\ DOMAIN Append(s, e) = 1 .. Len(s) + 1
  BY AppendProperties
<1> QED BY <1>1, AppendProperties

LEMMA TailIndices ==
    ASSUME NEW S, NEW s \in Seq(S), s # <<>>
    PROVE  /\ 1 \in DOMAIN s /\ Head(s) = s[1] /\ Head(s) \in S /\ Tail(s) \in Seq(S)
           /\ \A i \in DOMAIN Tail(s) : i \in Nat /\ 1 < i + 1 /\ i + 1 \in DOMAIN s /\ Tail(s)[i] = s[i + 1]
           /\ \A i \in DOMAIN s : i = 1 \/ (i - 1 \in DOMAIN Tail(s) /\ Tail(s)[i - 1] = s[i])
<1>1. /\ Len(s) \in Nat \ {0} /\ DOMAIN s = 1 .. Len(s) /\ DOMAIN Tail(s) = 1 .. Len(s) - 1
      /\ Head(s) = s[1] /\ Tail(s) \in Seq(S)
      /\ \A i \in 1 .. Len(s) - 1 : Tail(s)[i] = s[i + 1]
  BY HeadTailProperties
<1>2. ASSUME NEW i \in 1 .. Len(s), i # 1 PROVE i - 1 \in 1 .. Len(s) - 1 /\ Tail(s)[i - 1] = s[i]
  <2>1. i - 1 \in 1 .. Len(s) - 1 /\ (i - 1) + 1 = i
    BY <1>1, <1>2
  <2> QED BY <1>1, <2>1
<1> QED BY <1>1, <1>2

-----------------------------------------------------------------------------
(* The life of a message. *)

LEMMA PublishedStays ==
    ASSUME TypeOK, PollerInv, [Next]_vars, NEW m \in Msgs, Published(m)
    PROVE  Published(m)'
<1> USE DEF Published
<1>1. CASE PushEntry
  BY <1>1 DEF PushEntry, TypeOK, PollerInv, Msgs
<1>2. CASE PublishInbound \/ PublishFails
  BY <1>2 DEF PublishInbound, PublishFails, TypeOK, PollerInv, Msgs
<1>3. ASSUME NEW k \in Msgs, Bridge(k) PROVE Published(m)'
  BY <1>3 DEF Bridge, BridgeReply, BridgeSend, BridgeOrphan, BridgeElapse, BridgeExpire, Become, TypeOK
<1>4. CASE UNCHANGED bridge
  BY <1>4
<1> QED
  BY <1>1, <1>2, <1>3, <1>4, IdleSteps
  DEF Next, Poller, Runtime, Dispatcher, Stop, Idle, PopEntry, RemoveSession, HandOver,
      StopDrain, StopClear, bridgeVars

(* What is not known yet was not published; the message being published is  *)
(* newer than all that were.                                                *)
LEMMA PublishedAreOlder ==
    ASSUME TypeOK, PollerInv, NEW m \in Msgs, Published(m)
    PROVE  m <= cursor /\ (poller \in {"preparing", "publishing"} => m < cursor)
BY DEF TypeOK, PollerInv, Published, Msgs

(* A push apart, a step only takes entries out of queues.                   *)
LEMMA QueuesShrink ==
    ASSUME IInv, [Next]_vars
    PROVE  PushEntry \/ \A c \in Chats : Shrinks(c)
<1> USE DEF IInv, BridgeInv
<1>1. ASSUME pending' = pending PROVE \A c \in Chats : Shrinks(c)
  BY <1>1 DEF Shrinks, QueuesAreFifo, Increasing
<1>2. CASE PublishInbound \/ HandOver
  BY <1>1, <1>2 DEF PublishInbound, HandOver, pendingVars
<1>3. CASE PublishFails
  <2>1. cursor \in Msgs /\ Retain(cursor)
    BY <1>3 DEF PublishFails, PollerInv, TypeOK, Msgs
  <2> QED BY <2>1, RetainShrinks
<1>4. ASSUME NEW m \in Msgs, Bridge(m) PROVE \A c \in Chats : Shrinks(c)
  BY <1>1, <1>4, BridgeEffect, RetainShrinks
<1>5. CASE PopEntry
  <2>1. event.session \in Chats
    BY <1>5 DEF PopEntry, DispatcherInv, Events
  <2> QED BY <1>1, <1>5, <2>1, TailShrinks DEF PopEntry
<1>6. CASE RemoveSession
  <2>1. event.session \in Chats
    BY <1>6 DEF RemoveSession, DispatcherInv, Events
  <2> QED BY <1>6, <2>1, EmptyShrinks DEF RemoveSession
<1>7. ASSUME NEW c \in Chats, StopDrain(c) \/ StopClear(c) PROVE \A d \in Chats : Shrinks(d)
  BY <1>7, EmptyShrinks DEF StopDrain, StopClear
<1>8. CASE Idle
  BY <1>1, <1>8 DEF Idle
<1> QED
  BY <1>2, <1>3, <1>4, <1>5, <1>6, <1>7, <1>8, IdleSteps DEF Next, Poller, Dispatcher, Stop

LEMMA LifeStep ==
    ASSUME IInv, IInv', LifeInv, [Next]_vars
    PROVE  LifeInv'
<1> USE DEF IInv, BridgeInv
<1>1. \A m \in Msgs : bridge'[m] = "pushed" => m = cursor' /\ poller' = "publishing"
  <2>1. CASE PushEntry
    BY <2>1 DEF PushEntry, TypeOK, LifeInv, Msgs
  <2>2. CASE PublishInbound \/ PublishFails
    BY <2>2 DEF PublishInbound, PublishFails, TypeOK, LifeInv, Msgs
  <2>3. ASSUME NEW k \in Msgs, Bridge(k)
        PROVE  \A m \in Msgs : bridge'[m] = "pushed" => m = cursor' /\ poller' = "publishing"
    BY <2>3, BridgeEffect DEF LifeInv, TypeOK, pollerVars
  <2>4. CASE Fetch \/ Accept \/ BatchDone \/ PollerExit
    BY <2>4 DEF Fetch, Accept, BatchDone, PollerExit, bridgeVars, LifeInv
  <2>5. CASE UNCHANGED <<pollerVars, bridge>>
    BY <2>5 DEF LifeInv, pollerVars
  <2> QED
    BY <2>1, <2>2, <2>3, <2>4, <2>5
    DEF Next, Poller, Runtime, Dispatcher, Stop, AgentReplies, AgentStaysSilent, Unsolicited,
        Receive, PopEntry, CheckEmpty, RemoveSession, HandOver, Route, DispatcherExit,
        StopCancel, StopDrain, StopDrained, StopClear, StopCleared, StopJoin,
        vars, bridgeVars
<1>2. \A m \in Msgs : slot[m] # NoEvent => slot'[m] # NoEvent
  <2>1. CASE HandOver
    BY <2>1 DEF HandOver, DispatcherInv, TypeOK
  <2>2. CASE UNCHANGED slot
    BY <2>2
  <2> QED
    BY <2>1, <2>2, IdleSteps, BridgeEffect
    DEF Next, Poller, Runtime, Dispatcher, Stop, Idle, PushEntry, PublishInbound, PublishFails,
        PopEntry, RemoveSession, StopDrain, StopClear, bridgeVars
<1>3. \A m \in Msgs : bridge'[m] \in {"sending", "delivered", "failed", "discarded"} => slot'[m] # NoEvent
  <2>1. ASSUME NEW m \in Msgs, bridge'[m] \in {"sending", "delivered", "failed", "discarded"}
        PROVE  slot[m] # NoEvent
    <3>1. CASE bridge[m] \in {"sending", "delivered", "failed", "discarded"}
      BY <3>1 DEF LifeInv
    <3>2. ASSUME NEW k \in Msgs, Bridge(k) PROVE slot[m] # NoEvent
      BY <2>1, <3>1, <3>2
      DEF Bridge, BridgeReply, BridgeSend, BridgeOrphan, BridgeElapse, BridgeExpire, Become, TypeOK
    <3>3. CASE PushEntry \/ PublishInbound \/ PublishFails
      BY <2>1, <3>1, <3>3 DEF PushEntry, PublishInbound, PublishFails, TypeOK, Msgs
    <3>4. CASE UNCHANGED bridge
      BY <2>1, <3>1, <3>4
    <3> QED
      BY <3>2, <3>3, <3>4, IdleSteps
      DEF Next, Poller, Runtime, Dispatcher, Stop, Idle, PopEntry, RemoveSession, HandOver,
          StopDrain, StopClear, bridgeVars
  <2> QED BY <1>2, <2>1
<1>4. \A m \in Msgs : bridge[m] \notin Receiving \cup {"unseen"} => bridge'[m] \notin Receiving
  <2>1. ASSUME NEW k \in Msgs, Bridge(k)
        PROVE  \A m \in Msgs : bridge[m] \notin Receiving \cup {"unseen"} => bridge'[m] \notin Receiving
    BY <2>1
    DEF Bridge, BridgeReply, BridgeSend, BridgeOrphan, BridgeElapse, BridgeExpire, Become, TypeOK, Receiving
  <2>2. CASE PushEntry \/ PublishInbound \/ PublishFails
    BY <2>2 DEF PushEntry, PublishInbound, PublishFails, PollerInv, TypeOK, Msgs, Receiving
  <2>3. CASE UNCHANGED bridge
    BY <2>3
  <2> QED
    BY <2>1, <2>2, <2>3, IdleSteps
    DEF Next, Poller, Runtime, Dispatcher, Stop, Idle, PopEntry, RemoveSession, HandOver,
        StopDrain, StopClear, bridgeVars
<1>5. dispatcher' = "route" /\ held' # NoMsg => bridge'[held'] \notin Receiving
  <2>1. CASE HandOver
    BY <2>1 DEF HandOver, NextEvent
  <2>2. CASE Receive
    BY <2>2 DEF Receive, DispatcherInv
  <2>3. CASE Route \/ PopEntry \/ CheckEmpty \/ RemoveSession \/ DispatcherExit
    BY <2>3 DEF Route, NextEvent, PopEntry, CheckEmpty, RemoveSession, DispatcherExit
  <2>4. CASE UNCHANGED dispatcherVars
    BY <1>4, <2>4 DEF dispatcherVars, LifeInv, DispatcherInv, TypeOK
  <2> QED
    BY <2>1, <2>2, <2>3, <2>4, BridgeEffect
    DEF Next, Poller, Runtime, Dispatcher, Stop, Fetch, Accept, PushEntry, PublishInbound, PublishFails,
        BatchDone, PollerExit, AgentReplies, AgentStaysSilent, Unsolicited,
        StopCancel, StopDrain, StopDrained, StopClear, StopCleared, StopJoin, vars
<1>6. held' # NoMsg => \A i \in DOMAIN pending'[ChatOf[held']] : held' < pending'[ChatOf[held']][i]
  <2>1. ASSUME held' = held, held # NoMsg, NEW i \in DOMAIN pending'[ChatOf[held]]
        PROVE  held < pending'[ChatOf[held]][i]
    <3> DEFINE c == ChatOf[held]
    <3>1. held \in Msgs /\ c \in Chats /\ pending[c] \in Seq(Msgs)
      BY <2>1 DEF TypeOK
    <3>2. CASE PushEntry
      <4>1. cursor \in Msgs /\ held < cursor
        BY <3>1, <3>2, <2>1 DEF PushEntry, PollerInv, TypeOK, DispatcherInv, Msgs
      <4>2. pending'[c] = pending[c] \/ pending'[c] = Append(pending[c], cursor)
        BY <3>1, <3>2 DEF PushEntry, TypeOK
      <4>3. (i \in DOMAIN pending[c] /\ pending'[c][i] = pending[c][i]) \/ pending'[c][i] = cursor
        BY <2>1, <3>1, <4>1, <4>2, AppendIndices
      <4> QED BY <2>1, <4>1, <4>3 DEF LifeInv
    <3>3. CASE \A d \in Chats : Shrinks(d)
      BY <2>1, <3>1, <3>3 DEF Shrinks, LifeInv
    <3> QED BY <3>2, <3>3, QueuesShrink
  <2>2. CASE PopEntry
    <3> DEFINE c == event.session
               q == pending[c]
    <3>1. c \in Chats /\ held = NoMsg /\ q \in Seq(Msgs)
      BY <2>2 DEF PopEntry, DispatcherInv, Events, TypeOK
    <3>2. CASE q # <<>>
      <4>1. held' = Head(q) /\ pending'[c] = Tail(q)
        BY <2>2, <3>1, <3>2 DEF PopEntry, TypeOK
      <4>2. Head(q) = q[1] /\ 1 \in DOMAIN q
        BY <3>1, <3>2, TailIndices
      <4>3. ChatOf[Head(q)] = c
        BY <3>1, <4>2 DEF NoLingeringEntry
      <4>4. ASSUME NEW i \in DOMAIN Tail(q) PROVE Head(q) < Tail(q)[i]
        <5>1. i + 1 \in DOMAIN q /\ 1 < i + 1 /\ Tail(q)[i] = q[i + 1]
          BY <3>1, <3>2, TailIndices
        <5>2. q[1] < q[i + 1]
          BY <3>1, <4>2, <5>1 DEF QueuesAreFifo
        <5> QED BY <4>2, <5>1, <5>2
      <4> QED BY <4>1, <4>3, <4>4
    <3>3. CASE q = <<>>
      BY <2>2, <3>1, <3>3 DEF PopEntry
    <3> QED BY <3>2, <3>3
  <2>3. CASE held' = NoMsg
    BY <2>3
  <2>4. PopEntry \/ held' \in {held, NoMsg}
    BY BridgeEffect
    DEF Next, Poller, Runtime, Dispatcher, Stop, Fetch, Accept, PushEntry, PublishInbound, PublishFails,
        BatchDone, PollerExit, AgentReplies, AgentStaysSilent, Unsolicited, Receive, CheckEmpty,
        RemoveSession, HandOver, Route, DispatcherExit, NextEvent,
        StopCancel, StopDrain, StopDrained, StopClear, StopCleared, StopJoin, vars, dispatcherVars
  <2> QED BY <2>1, <2>2, <2>3, <2>4
<1> QED BY <1>1, <1>3, <1>5, <1>6 DEF LifeInv

-----------------------------------------------------------------------------
(* Where an answer is: with the runtime, on its way, at the dispatcher, or  *)
(* settled.                                                                 *)

LEMMA NothingIsNoAnswer == NoEvent.re = NoMsg /\ NoMsg \notin Msgs
BY DEF NoEvent, NoMsg, Msgs

LEMMA EventType == ASSUME NEW e \in Events PROVE e.re \in Msgs \cup {NoMsg}
BY DEF Events

(* No answer is put anywhere, and none leaves the route it is on.           *)
Elsewhere ==
    /\ UNCHANGED <<inbox, outbound, event, slot, proactive>>
    /\ dispatcher' \in {"recv", "exited"} => dispatcher \in {"recv", "exited"}

LEMMA ElsewhereSteps ==
    ASSUME TypeOK, [Next]_vars
    PROVE  \/ PublishInbound \/ Receive \/ HandOver \/ Route
           \/ \E c \in Chats : AgentReplies(c) \/ AgentStaysSilent(c)
           \/ Unsolicited \/ Elsewhere
<1>1. ASSUME NEW m \in Msgs, Bridge(m) PROVE Elsewhere
  BY <1>1
  DEF Bridge, BridgeReply, BridgeSend, BridgeOrphan, BridgeElapse, BridgeExpire, Elsewhere,
      dispatcherVars, runtimeVars
<1> QED
  BY <1>1
  DEF Next, Poller, Runtime, Dispatcher, Stop, Fetch, Accept, PushEntry, PublishFails,
      BatchDone, PollerExit, PopEntry, CheckEmpty, RemoveSession, DispatcherExit,
      StopCancel, StopDrain, StopDrained, StopClear, StopCleared, StopJoin, vars,
      bridgeVars, dispatcherVars, runtimeVars, Elsewhere

(* An answer that only moves on stays unique.                               *)
LEMMA MovingOn ==
    ASSUME TypeOK, PollerInv, [Next]_vars, PlaceInv, UNCHANGED <<slot, proactive>>,
           \A m \in Msgs : Outstanding(m)' => Outstanding(m)
    PROVE  /\ \A m \in Msgs : Outstanding(m)' => Published(m)' /\ ~Settled(m)'
           /\ \A m \in Msgs : Settled(m)' => Published(m)'
           /\ \A k, l \in Msgs : k # l /\ slot'[k].re = slot'[l].re => slot'[k].re = NoMsg
           /\ \A k \in Msgs, p \in proactive' : slot'[k].re # NoMsg => slot'[k].re # p.event.re
<1>1. \A m \in Msgs : Published(m) => Published(m)'
  BY PublishedStays
<1>2. \A m \in Msgs : Settled(m)' <=> Settled(m)
  BY DEF Settled
<1>3. \A m \in Msgs : Outstanding(m) => Published(m) /\ ~Settled(m)
  BY DEF PlaceInv
<1>4. \A m \in Msgs : Settled(m) => Published(m)
  BY DEF PlaceInv
<1>5. /\ \A k, l \in Msgs : k # l /\ slot[k].re = slot[l].re => slot[k].re = NoMsg
      /\ \A k \in Msgs, p \in proactive : slot[k].re # NoMsg => slot[k].re # p.event.re
  BY DEF PlaceInv
<1> QED BY <1>1, <1>2, <1>3, <1>4, <1>5

LEMMA ElsewhereKeeps ==
    ASSUME TypeOK, PollerInv, [Next]_vars, PlaceInv, OrderInv, Elsewhere
    PROVE  PlaceInv' /\ OrderInv'
<1>1. \A m \in Msgs : /\ InInbox(m)' <=> InInbox(m)
                      /\ InOutbound(m)' <=> InOutbound(m)
                      /\ Outstanding(m)' => Outstanding(m)
  BY DEF Elsewhere, InInbox, InOutbound, Outstanding
<1>2. /\ \A c \in Chats : \A i \in DOMAIN inbox'[c] : ChatOf[inbox'[c][i]] = c
      /\ \A i \in DOMAIN outbound' : WellAddressed(outbound'[i])
      /\ WellAddressed(event') /\ (\A p \in proactive' : WellSent(p))
      /\ dispatcher' \in {"recv", "exited"} => event' = NoEvent
  BY DEF Elsewhere, PlaceInv
<1>3. PlaceInv'
  BY <1>1, <1>2, MovingOn DEF Elsewhere, PlaceInv, WellAddressed, WellSent
<1>4. OrderInv'
  BY <1>1 DEF Elsewhere, OrderInv, Increasing
<1> QED BY <1>3, <1>4

LEMMA PublishInboundKeeps ==
    ASSUME IInv, IInv', [Next]_vars, PlaceInv, OrderInv, LifeInv, PublishInbound
    PROVE  PlaceInv' /\ OrderInv'
<1> USE DEF IInv, BridgeInv
<1> DEFINE c == ChatOf[cursor]
           q == inbox[c]
<1>1. /\ cursor \in Msgs /\ c \in Chats /\ q \in Seq(Msgs) /\ poller = "publishing"
      /\ ~Published(cursor) /\ \A m \in Msgs : m = cursor => Published(m)'
      /\ inbox'[c] = Append(q, cursor) /\ \A d \in Chats \ {c} : inbox'[d] = inbox[d]
      /\ UNCHANGED <<outbound, event, dispatcher, slot, proactive>>
  BY DEF PublishInbound, PollerInv, TypeOK, Msgs, Published, dispatcherVars
<1>2. ~Outstanding(cursor) /\ ~Settled(cursor)
  BY <1>1 DEF PlaceInv
<1>3. \A d \in Chats : \A i \in DOMAIN inbox'[d] :
         \/ i \in DOMAIN inbox[d] /\ inbox'[d][i] = inbox[d][i]
         \/ d = c /\ i = Len(q) + 1 /\ inbox'[d][i] = cursor
  BY <1>1, AppendIndices
<1>4. \A m \in Msgs : /\ InInbox(m)' => InInbox(m) \/ m = cursor
                      /\ InOutbound(m)' <=> InOutbound(m)
                      /\ Outstanding(m)' => Outstanding(m) \/ m = cursor
                      /\ Settled(m)' <=> Settled(m)
  BY <1>1, <1>3 DEF InInbox, InOutbound, Outstanding, Settled
<1>5. PlaceInv'
  <2>1. \A d \in Chats : \A i \in DOMAIN inbox'[d] : ChatOf[inbox'[d][i]] = d
    BY <1>1, <1>3 DEF PlaceInv
  <2>2. \A m \in Msgs : Outstanding(m)' => Published(m)' /\ ~Settled(m)'
    <3>1. \A m \in Msgs : Outstanding(m) => Published(m)' /\ ~Settled(m)
      BY PublishedStays DEF PlaceInv
    <3>2. \A m \in Msgs : m = cursor => Published(m)' /\ ~Settled(m)
      BY <1>1, <1>2
    <3> QED BY <1>4, <3>1, <3>2
  <2>3. \A m \in Msgs : Settled(m)' => Published(m)'
    BY <1>4, PublishedStays DEF PlaceInv
  <2>4. /\ \A i \in DOMAIN outbound' : WellAddressed(outbound'[i])
        /\ WellAddressed(event') /\ (\A p \in proactive' : WellSent(p))
        /\ dispatcher' \in {"recv", "exited"} => event' = NoEvent
        /\ \A k, l \in Msgs : k # l /\ slot'[k].re = slot'[l].re => slot'[k].re = NoMsg
        /\ \A k \in Msgs, p \in proactive' : slot'[k].re # NoMsg => slot'[k].re # p.event.re
    BY <1>1 DEF PlaceInv
  <2> QED BY <2>1, <2>2, <2>3, <2>4 DEF PlaceInv, WellAddressed, WellSent
<1>6. \A m \in Msgs : Outstanding(m) => m < cursor
  BY <1>1, PublishedAreOlder DEF PlaceInv
<1>7. OrderInv'
  <2>1. ASSUME NEW d \in Chats PROVE Increasing(inbox'[d])
    <3>1. CASE d # c
      BY <1>1, <3>1 DEF OrderInv, Increasing
    <3>2. CASE d = c
      <4>1. \A i \in DOMAIN q : q[i] \in Msgs /\ q[i] < cursor
        <5>1. ASSUME NEW i \in DOMAIN q PROVE q[i] \in Msgs /\ Outstanding(q[i])
          <6>1. q[i] \in Msgs
            BY <1>1
          <6>2. ChatOf[q[i]] = c
            BY <1>1 DEF PlaceInv
          <6>3. InInbox(q[i])
            BY <6>1, <6>2 DEF InInbox
          <6> QED BY <6>1, <6>3 DEF Outstanding
        <5> QED BY <1>6, <5>1
      <4>2. Increasing(q)
        BY <1>1 DEF OrderInv
      <4>3. /\ \A i \in DOMAIN q : i \in DOMAIN Append(q, cursor) /\ Append(q, cursor)[i] = q[i] /\ i < Len(q) + 1
            /\ \A i \in DOMAIN Append(q, cursor) : i \in DOMAIN q \/ i = Len(q) + 1
            /\ Append(q, cursor)[Len(q) + 1] = cursor /\ Len(q) \in Nat
            /\ \A i \in DOMAIN Append(q, cursor) : i \in Nat /\ i <= Len(q) + 1
        BY <1>1, AppendIndices
      <4> DEFINE r == Append(q, cursor)
      <4>4. ASSUME NEW i \in DOMAIN r, NEW j \in DOMAIN r, i < j PROVE r[i] < r[j]
        <5>1. i \in DOMAIN q
          BY <4>3, <4>4
        <5>2. CASE j = Len(q) + 1
          BY <4>1, <4>3, <5>1, <5>2
        <5>3. CASE j \in DOMAIN q
          BY <4>2, <4>3, <4>4, <5>1, <5>3 DEF Increasing
        <5> QED BY <4>3, <5>2, <5>3
      <4> QED BY <1>1, <3>2, <4>4 DEF Increasing
    <3> QED BY <3>1, <3>2
  <2>2. \A k, m \in Msgs : InOutbound(k)' /\ InInbox(m)' /\ SameChat(k, m) => k < m
    BY <1>4, <1>6 DEF OrderInv, Outstanding
  <2>3. \A k, m \in Msgs : event'.re = k /\ (InOutbound(m)' \/ InInbox(m)') /\ SameChat(k, m) => k < m
    BY <1>1, <1>4, <1>6 DEF OrderInv, Outstanding
  <2>4. \A i, j \in DOMAIN outbound' :
           LET k == outbound'[i].re  m == outbound'[j].re IN
           i < j /\ k # NoMsg /\ m # NoMsg /\ SameChat(k, m) => k < m
    BY <1>1 DEF OrderInv
  <2> QED BY <2>1, <2>2, <2>3, <2>4 DEF OrderInv, SameChat
<1> QED BY <1>5, <1>7

(* The head of an inbox leaves it; what stays is newer.                     *)
LEMMA InboxTail ==
    ASSUME TypeOK, PlaceInv, OrderInv, NEW c \in Chats, inbox[c] # <<>>,
           inbox' = [inbox EXCEPT ![c] = Tail(@)]
    PROVE  /\ Head(inbox[c]) \in Msgs /\ ChatOf[Head(inbox[c])] = c /\ InInbox(Head(inbox[c]))
           /\ \A d \in Chats : \A i \in DOMAIN inbox'[d] : ChatOf[inbox'[d][i]] = d
           /\ \A d \in Chats : Increasing(inbox'[d])
           /\ \A m \in Msgs : InInbox(m)' => InInbox(m) /\ (ChatOf[m] = c => Head(inbox[c]) < m)
           /\ \A m \in Msgs : InInbox(m) => InInbox(m)' \/ m = Head(inbox[c])
<1> DEFINE q == inbox[c]
           t == Tail(q)
<1>1. q \in Seq(Msgs) /\ q # <<>> /\ inbox'[c] = t /\ \A d \in Chats \ {c} : inbox'[d] = inbox[d]
  BY DEF TypeOK
<1>2. Increasing(q) /\ \A i \in DOMAIN q : ChatOf[q[i]] = c
  BY DEF OrderInv, PlaceInv
<1>3. /\ 1 \in DOMAIN q /\ Head(q) = q[1] /\ Head(q) \in Msgs /\ t \in Seq(Msgs)
      /\ \A i \in DOMAIN t : i \in Nat /\ 1 < i + 1 /\ i + 1 \in DOMAIN q /\ t[i] = q[i + 1]
      /\ \A i \in DOMAIN q : i = 1 \/ (i - 1 \in DOMAIN t /\ t[i - 1] = q[i])
  BY <1>1, TailIndices
<1> HIDE DEF q, t
<1>4. Head(q) \in Msgs /\ ChatOf[Head(q)] = c /\ InInbox(Head(q))
  BY <1>2, <1>3 DEF InInbox, q
<1>5. \A i \in DOMAIN t : ChatOf[t[i]] = c /\ Head(q) < t[i]
  BY <1>2, <1>3 DEF Increasing
<1>6. Increasing(t)
  BY <1>2, <1>3 DEF Increasing
<1>7. \A d \in Chats : \A i \in DOMAIN inbox'[d] : ChatOf[inbox'[d][i]] = d
  BY <1>1, <1>5 DEF PlaceInv
<1>8. \A d \in Chats : Increasing(inbox'[d])
  BY <1>1, <1>6 DEF OrderInv, Increasing
<1>9. ASSUME NEW m \in Msgs, InInbox(m)' PROVE InInbox(m) /\ (ChatOf[m] = c => Head(q) < m)
  <2>1. PICK i \in DOMAIN inbox'[ChatOf[m]] : inbox'[ChatOf[m]][i] = m
    BY <1>9 DEF InInbox
  <2>2. CASE ChatOf[m] = c
    <3>1. i \in DOMAIN t /\ t[i] = m
      BY <1>1, <2>1, <2>2
    <3>2. i + 1 \in DOMAIN q /\ q[i + 1] = m /\ Head(q) < m
      BY <1>3, <1>5, <3>1
    <3> QED BY <2>2, <3>2 DEF InInbox, q
  <2>3. CASE ChatOf[m] # c
    BY <1>1, <2>1, <2>3 DEF InInbox
  <2> QED BY <2>2, <2>3
<1>10. ASSUME NEW m \in Msgs, InInbox(m) PROVE InInbox(m)' \/ m = Head(q)
  <2>1. PICK i \in DOMAIN inbox[ChatOf[m]] : inbox[ChatOf[m]][i] = m
    BY <1>10 DEF InInbox
  <2>2. CASE ChatOf[m] = c
    <3>1. i \in DOMAIN q /\ q[i] = m
      BY <2>1, <2>2 DEF q
    <3>2. m = Head(q) \/ (i - 1 \in DOMAIN t /\ t[i - 1] = m)
      BY <1>3, <3>1
    <3> QED BY <1>1, <2>2, <3>2 DEF InInbox
  <2>3. CASE ChatOf[m] # c
    BY <1>1, <2>1, <2>3 DEF InInbox
  <2> QED BY <2>2, <2>3
<1> QED BY <1>4, <1>7, <1>8, <1>9, <1>10 DEF q

(* An event at the end of the topic.                                        *)
LEMMA OutboundAppend ==
    ASSUME TypeOK, NEW e \in Events, outbound' = Append(outbound, e)
    PROVE  /\ \A i \in DOMAIN outbound' :
                 \/ i \in DOMAIN outbound /\ outbound'[i] = outbound[i]
                 \/ i = Len(outbound) + 1 /\ outbound'[i] = e
           /\ \A i \in DOMAIN outbound' : i \in Nat /\ i <= Len(outbound) + 1
           /\ Len(outbound) \in Nat
           /\ \A m \in Msgs : InOutbound(m)' <=> InOutbound(m) \/ m = e.re
<1>1. /\ \A i \in DOMAIN outbound : i \in DOMAIN outbound' /\ outbound'[i] = outbound[i] /\ i < Len(outbound) + 1
      /\ \A i \in DOMAIN outbound' : i \in DOMAIN outbound \/ i = Len(outbound) + 1
      /\ Len(outbound) + 1 \in DOMAIN outbound' /\ outbound'[Len(outbound) + 1] = e
      /\ Len(outbound) \in Nat /\ \A i \in DOMAIN outbound' : i \in Nat /\ i <= Len(outbound) + 1
  BY AppendIndices DEF TypeOK
<1>2. \A m \in Msgs : InOutbound(m)' <=> InOutbound(m) \/ m = e.re
  BY <1>1 DEF InOutbound
<1> QED BY <1>1, <1>2

(* The runtime answers the oldest message of an inbox.                      *)
LEMMA AgentRepliesKeeps ==
    ASSUME IInv, [Next]_vars, PlaceInv, OrderInv, NEW c \in Chats, AgentReplies(c)
    PROVE  PlaceInv' /\ OrderInv'
<1> USE DEF IInv, BridgeInv
<1> DEFINE r == Head(inbox[c])
<1>1. /\ r \in Msgs /\ ChatOf[r] = c /\ InInbox(r)
      /\ \A d \in Chats : \A i \in DOMAIN inbox'[d] : ChatOf[inbox'[d][i]] = d
      /\ \A d \in Chats : Increasing(inbox'[d])
      /\ \A m \in Msgs : InInbox(m)' => InInbox(m) /\ (ChatOf[m] = c => r < m)
  BY InboxTail DEF AgentReplies
<1>2. PICK e \in Events : outbound' = Append(outbound, e) /\ e.re = r /\ e.session = c
  <2>1. PICK t \in Destinations, b \in Bodies :
           outbound' = Append(outbound, [session |-> c, to |-> t, re |-> r, body |-> b])
    BY DEF AgentReplies, Publish
  <2>2. [session |-> c, to |-> t, re |-> r, body |-> b] \in Events
    BY <1>1, BodiesAssumption, DestinationsAssumption DEF Events
  <2> QED BY <2>1, <2>2
<1>3. UNCHANGED <<event, dispatcher, slot, proactive>>
  BY DEF AgentReplies, bridgeVars, dispatcherVars
<1>4. /\ \A i \in DOMAIN outbound' :
            \/ i \in DOMAIN outbound /\ outbound'[i] = outbound[i]
            \/ i = Len(outbound) + 1 /\ outbound'[i] = e
      /\ \A i \in DOMAIN outbound' : i \in Nat /\ i <= Len(outbound) + 1
      /\ Len(outbound) \in Nat
      /\ \A m \in Msgs : InOutbound(m)' <=> InOutbound(m) \/ m = r
  BY <1>2, OutboundAppend
<1> HIDE DEF r
<1>5. \A m \in Msgs : Outstanding(m)' => Outstanding(m)
  BY <1>1, <1>3, <1>4 DEF Outstanding
<1>6. PlaceInv'
  <2>1. \A i \in DOMAIN outbound' : WellAddressed(outbound'[i])
    BY <1>1, <1>2, <1>4 DEF WellAddressed, PlaceInv
  <2>2. /\ WellAddressed(event') /\ (\A p \in proactive' : WellSent(p))
        /\ dispatcher' \in {"recv", "exited"} => event' = NoEvent
    BY <1>3 DEF PlaceInv
  <2> QED BY <1>1, <1>3, <1>5, <2>1, <2>2, MovingOn DEF PlaceInv, WellAddressed, WellSent
<1>7. OrderInv'
  <2>1. ASSUME NEW i \in DOMAIN outbound', NEW j \in DOMAIN outbound', i < j,
               outbound'[i].re # NoMsg, outbound'[j].re # NoMsg, SameChat(outbound'[i].re, outbound'[j].re)
        PROVE  outbound'[i].re < outbound'[j].re
    <3>1. i \in DOMAIN outbound /\ outbound'[i] = outbound[i] /\ outbound[i].re \in Msgs
      BY <1>4, <2>1, EventType DEF TypeOK
    <3>2. CASE j \in DOMAIN outbound /\ outbound'[j] = outbound[j]
      BY <2>1, <3>1, <3>2 DEF OrderInv
    <3>3. CASE outbound'[j] = e
      <4>1. InOutbound(outbound[i].re)
        BY <3>1 DEF InOutbound
      <4> QED BY <1>1, <1>2, <2>1, <3>1, <3>3, <4>1 DEF OrderInv
    <3> QED BY <1>4, <3>2, <3>3
  <2>2. \A k, m \in Msgs : InOutbound(k)' /\ InInbox(m)' /\ SameChat(k, m) => k < m
    BY <1>1, <1>4 DEF OrderInv, SameChat
  <2>3. \A k, m \in Msgs : event'.re = k /\ (InOutbound(m)' \/ InInbox(m)') /\ SameChat(k, m) => k < m
    BY <1>1, <1>3, <1>4 DEF OrderInv
  <2> QED BY <1>1, <2>1, <2>2, <2>3 DEF OrderInv, SameChat
<1> QED BY <1>6, <1>7

(* A turn that ends in silence only shortens its inbox.                     *)
LEMMA AgentStaysSilentKeeps ==
    ASSUME IInv, [Next]_vars, PlaceInv, OrderInv, NEW c \in Chats, AgentStaysSilent(c)
    PROVE  PlaceInv' /\ OrderInv'
<1> USE DEF IInv, BridgeInv
<1>1. /\ \A d \in Chats : \A i \in DOMAIN inbox'[d] : ChatOf[inbox'[d][i]] = d
      /\ \A d \in Chats : Increasing(inbox'[d])
      /\ \A m \in Msgs : InInbox(m)' => InInbox(m)
  BY InboxTail DEF AgentStaysSilent
<1>2. UNCHANGED <<outbound, event, dispatcher, slot, proactive>>
  BY DEF AgentStaysSilent, bridgeVars, dispatcherVars
<1>3. \A m \in Msgs : /\ InOutbound(m)' <=> InOutbound(m)
                      /\ Outstanding(m)' => Outstanding(m)
  BY <1>1, <1>2 DEF InOutbound, Outstanding
<1>4. PlaceInv'
  <2>1. /\ \A i \in DOMAIN outbound' : WellAddressed(outbound'[i])
        /\ WellAddressed(event') /\ (\A p \in proactive' : WellSent(p))
        /\ dispatcher' \in {"recv", "exited"} => event' = NoEvent
    BY <1>2 DEF PlaceInv
  <2> QED BY <1>1, <1>2, <1>3, <2>1, MovingOn DEF PlaceInv, WellAddressed, WellSent
<1>5. OrderInv'
  <2>1. \A k, m \in Msgs : InOutbound(k)' /\ InInbox(m)' /\ SameChat(k, m) => k < m
    BY <1>1, <1>3 DEF OrderInv
  <2>2. \A k, m \in Msgs : event'.re = k /\ (InOutbound(m)' \/ InInbox(m)') /\ SameChat(k, m) => k < m
    BY <1>1, <1>2, <1>3 DEF OrderInv
  <2>3. \A i, j \in DOMAIN outbound' :
           LET k == outbound'[i].re  m == outbound'[j].re IN
           i < j /\ k # NoMsg /\ m # NoMsg /\ SameChat(k, m) => k < m
    BY <1>2 DEF OrderInv
  <2> QED BY <1>1, <2>1, <2>2, <2>3 DEF OrderInv, SameChat
<1> QED BY <1>4, <1>5

(* An event nobody asked for answers no message.                            *)
LEMMA UnsolicitedKeeps ==
    ASSUME IInv, [Next]_vars, PlaceInv, OrderInv, Unsolicited
    PROVE  PlaceInv' /\ OrderInv'
<1> USE DEF IInv, BridgeInv
<1>1. PICK e \in Events : outbound' = Append(outbound, e) /\ e.re = NoMsg
  <2>1. PICK u \in Chats \cup {NoChat}, t \in Destinations, b \in Bodies :
           outbound' = Append(outbound, [session |-> u, to |-> t, re |-> NoMsg, body |-> b])
    BY DEF Unsolicited, Publish
  <2>2. [session |-> u, to |-> t, re |-> NoMsg, body |-> b] \in Events
    BY BodiesAssumption, DestinationsAssumption DEF Events
  <2> QED BY <2>1, <2>2
<1>2. UNCHANGED <<inbox, event, dispatcher, slot, proactive>>
  BY DEF Unsolicited, bridgeVars, dispatcherVars
<1>3. /\ \A i \in DOMAIN outbound' :
            \/ i \in DOMAIN outbound /\ outbound'[i] = outbound[i]
            \/ outbound'[i].re = NoMsg
      /\ \A m \in Msgs : InOutbound(m)' <=> InOutbound(m)
  BY <1>1, OutboundAppend, NothingIsNoAnswer
<1>4. \A m \in Msgs : /\ InInbox(m)' <=> InInbox(m)
                      /\ Outstanding(m)' => Outstanding(m)
  BY <1>2, <1>3 DEF InInbox, Outstanding
<1>5. PlaceInv'
  <2>1. \A i \in DOMAIN outbound' : WellAddressed(outbound'[i])
    BY <1>3 DEF WellAddressed, PlaceInv
  <2>2. /\ \A d \in Chats : \A i \in DOMAIN inbox'[d] : ChatOf[inbox'[d][i]] = d
        /\ WellAddressed(event') /\ (\A p \in proactive' : WellSent(p))
        /\ dispatcher' \in {"recv", "exited"} => event' = NoEvent
    BY <1>2 DEF PlaceInv
  <2> QED BY <1>2, <1>4, <2>1, <2>2, MovingOn DEF PlaceInv, WellAddressed, WellSent
<1>6. OrderInv'
  <2>1. \A k, m \in Msgs : InOutbound(k)' /\ InInbox(m)' /\ SameChat(k, m) => k < m
    BY <1>3, <1>4 DEF OrderInv
  <2>2. \A k, m \in Msgs : event'.re = k /\ (InOutbound(m)' \/ InInbox(m)') /\ SameChat(k, m) => k < m
    BY <1>2, <1>3, <1>4 DEF OrderInv
  <2>3. \A i, j \in DOMAIN outbound' :
           LET k == outbound'[i].re  m == outbound'[j].re IN
           i < j /\ k # NoMsg /\ m # NoMsg /\ SameChat(k, m) => k < m
    BY <1>3 DEF OrderInv
  <2>4. \A d \in Chats : Increasing(inbox'[d])
    BY <1>2 DEF OrderInv, Increasing
  <2> QED BY <2>1, <2>2, <2>3, <2>4 DEF OrderInv, SameChat
<1> QED BY <1>5, <1>6

(* The dispatcher takes the oldest event of the topic.                      *)
LEMMA ReceiveKeeps ==
    ASSUME IInv, [Next]_vars, PlaceInv, OrderInv, Receive
    PROVE  PlaceInv' /\ OrderInv'
<1> USE DEF IInv, BridgeInv
<1>1. /\ outbound \in Seq(Events) /\ outbound # <<>>
      /\ event' = Head(outbound) /\ outbound' = Tail(outbound)
      /\ dispatcher' \in {"pop", "route"} /\ UNCHANGED <<inbox, slot, proactive>>
  BY DEF Receive, TypeOK, bridgeVars
<1>2. /\ 1 \in DOMAIN outbound /\ event' = outbound[1] /\ event' \in Events
      /\ \A i \in DOMAIN outbound' :
            i \in Nat /\ 1 < i + 1 /\ i + 1 \in DOMAIN outbound /\ outbound'[i] = outbound[i + 1]
  BY <1>1, TailIndices
<1>3. \A m \in Msgs : /\ InInbox(m)' <=> InInbox(m)
                      /\ InOutbound(m)' => InOutbound(m)
                      /\ event'.re = m => InOutbound(m)
  BY <1>1, <1>2 DEF InInbox, InOutbound
<1>4. \A m \in Msgs : Outstanding(m)' => Outstanding(m)
  BY <1>3 DEF Outstanding
<1>5. PlaceInv'
  <2>1. \A i \in DOMAIN outbound' : WellAddressed(outbound'[i])
    BY <1>2 DEF WellAddressed, PlaceInv
  <2>2. /\ \A c \in Chats : \A i \in DOMAIN inbox'[c] : ChatOf[inbox'[c][i]] = c
        /\ WellAddressed(event') /\ (\A p \in proactive' : WellSent(p))
        /\ dispatcher' \in {"recv", "exited"} => event' = NoEvent
    BY <1>1, <1>2 DEF PlaceInv, WellAddressed, WellSent
  <2> QED BY <1>1, <1>4, <2>1, <2>2, MovingOn DEF PlaceInv, WellAddressed, WellSent
<1>6. OrderInv'
  <2>1. \A i, j \in DOMAIN outbound' :
           LET k == outbound'[i].re  m == outbound'[j].re IN
           i < j /\ k # NoMsg /\ m # NoMsg /\ SameChat(k, m) => k < m
    <3>1. \A i, j \in DOMAIN outbound' : i < j => i + 1 < j + 1
      BY <1>2
    <3> QED BY <1>2, <3>1 DEF OrderInv
  <2>2. \A k, m \in Msgs : InOutbound(k)' /\ InInbox(m)' /\ SameChat(k, m) => k < m
    BY <1>3 DEF OrderInv
  <2>3. ASSUME NEW k \in Msgs, NEW m \in Msgs, event'.re = k, InOutbound(m)' \/ InInbox(m)', SameChat(k, m)
        PROVE  k < m
    <3>1. CASE InInbox(m)'
      BY <1>3, <2>3, <3>1 DEF OrderInv
    <3>2. CASE InOutbound(m)'
      <4>1. PICK i \in DOMAIN outbound' : outbound'[i].re = m
        BY <3>2 DEF InOutbound
      <4>2. i + 1 \in DOMAIN outbound /\ 1 < i + 1 /\ outbound[i + 1].re = m /\ outbound[1].re = k
        BY <1>2, <2>3, <4>1
      <4> QED BY <1>2, <2>3, <4>2, NothingIsNoAnswer DEF OrderInv
    <3> QED BY <2>3, <3>1, <3>2
  <2>4. \A c \in Chats : Increasing(inbox'[c])
    BY <1>1 DEF OrderInv, Increasing
  <2> QED BY <2>1, <2>2, <2>3, <2>4 DEF OrderInv, SameChat
<1> QED BY <1>5, <1>6

(* The event in work is settled: put into a slot, sent, or forgotten.        *)
LEMMA SettlingKeeps ==
    ASSUME IInv, [Next]_vars, PlaceInv, OrderInv,
           event' = NoEvent, UNCHANGED <<inbox, outbound, bridge>>,
           \/ held # NoMsg /\ slot' = [slot EXCEPT ![held] = event] /\ proactive' = proactive
           \/ \E c \in {event.to, event.session} :
                 slot' = slot /\ proactive' = proactive \cup {[event |-> event, chat |-> c]}
           \/ slot' = slot /\ proactive' = proactive
    PROVE  PlaceInv' /\ OrderInv'
<1> USE DEF IInv, BridgeInv
<1>1. \A m \in Msgs : /\ InInbox(m)' <=> InInbox(m)
                      /\ InOutbound(m)' <=> InOutbound(m)
                      /\ Published(m)' <=> Published(m)
                      /\ event'.re # m
  BY NothingIsNoAnswer DEF InInbox, InOutbound, Published
<1>2. \A m \in Msgs : Outstanding(m)' => Outstanding(m) /\ event.re # m
  BY <1>1 DEF Outstanding, OrderInv, SameChat, Msgs
<1>3. \/ slot' = slot
      \/ /\ held \in Msgs /\ slot[held] = NoEvent /\ proactive' = proactive
         /\ slot'[held] = event /\ \A m \in Msgs \ {held} : slot'[m] = slot[m]
  BY DEF TypeOK, DispatcherInv
<1>4. \A m \in Msgs : Settled(m)' => Settled(m) \/ m = event.re
  BY <1>3 DEF Settled
<1>5. \A m \in Msgs : m = event.re => Outstanding(m) /\ ~Settled(m) /\ Published(m)
  BY DEF PlaceInv, Outstanding
<1>6. \A m \in Msgs : Outstanding(m)' => Published(m)' /\ ~Settled(m)'
  BY <1>1, <1>2, <1>4 DEF PlaceInv
<1>7. \A m \in Msgs : Settled(m)' => Published(m)'
  BY <1>1, <1>4, <1>5 DEF PlaceInv
<1>8. event.re \in Msgs \cup {NoMsg} /\ \A m \in Msgs : slot[m].re \in Msgs \cup {NoMsg}
  BY EventType, NothingIsNoAnswer DEF TypeOK
<1>9. ASSUME NEW k \in Msgs, NEW l \in Msgs, k # l, slot'[k].re = slot'[l].re
      PROVE  slot'[k].re = NoMsg
  <2>1. CASE slot' = slot
    BY <1>9, <2>1 DEF PlaceInv
  <2>2. CASE /\ held \in Msgs /\ slot'[held] = event
             /\ \A m \in Msgs \ {held} : slot'[m] = slot[m]
    <3>1. CASE k # held /\ l # held
      BY <1>9, <2>2, <3>1 DEF PlaceInv
    <3>2. \A m \in Msgs \ {held} : slot[m].re = event.re => event.re = NoMsg
      BY <1>5, <1>8 DEF Settled
    <3>3. CASE k = held
      BY <1>9, <2>2, <3>2, <3>3
    <3>4. CASE l = held
      BY <1>9, <2>2, <3>2, <3>4
    <3> QED BY <3>1, <3>3, <3>4
  <2> QED BY <1>3, <2>1, <2>2
<1>10. ASSUME NEW k \in Msgs, NEW p \in proactive', slot'[k].re # NoMsg
       PROVE  slot'[k].re # p.event.re
  <2>1. CASE slot' = slot /\ p \in proactive
    BY <1>10, <2>1 DEF PlaceInv
  <2>2. CASE slot' = slot /\ p.event = event
    BY <1>5, <1>8, <1>10, <2>2 DEF Settled
  <2>3. CASE /\ held \in Msgs /\ slot'[held] = event /\ proactive' = proactive
             /\ \A m \in Msgs \ {held} : slot'[m] = slot[m]
    <3>1. CASE k = held
      BY <1>5, <1>8, <1>10, <2>3, <3>1 DEF Settled
    <3>2. CASE k # held
      BY <1>10, <2>3, <3>2 DEF PlaceInv
    <3> QED BY <3>1, <3>2
  <2> QED BY <1>3, <2>1, <2>2, <2>3
<1>11. PlaceInv'
  <2>1. /\ \A c \in Chats : \A i \in DOMAIN inbox'[c] : ChatOf[inbox'[c][i]] = c
        /\ \A i \in DOMAIN outbound' : WellAddressed(outbound'[i])
        /\ WellAddressed(event') /\ (\A p \in proactive' : WellSent(p))
        /\ dispatcher' \in {"recv", "exited"} => event' = NoEvent
    BY NothingIsNoAnswer DEF PlaceInv, WellAddressed, WellSent
  <2> QED BY <1>6, <1>7, <1>9, <1>10, <2>1 DEF PlaceInv, WellAddressed, WellSent
<1>12. OrderInv'
  <2>1. /\ \A c \in Chats : Increasing(inbox'[c])
        /\ \A i, j \in DOMAIN outbound' :
              LET k == outbound'[i].re  m == outbound'[j].re IN
              i < j /\ k # NoMsg /\ m # NoMsg /\ SameChat(k, m) => k < m
    BY DEF OrderInv, Increasing
  <2>2. \A k, m \in Msgs : InOutbound(k)' /\ InInbox(m)' /\ SameChat(k, m) => k < m
    BY <1>1 DEF OrderInv
  <2>3. \A k, m \in Msgs : event'.re = k /\ (InOutbound(m)' \/ InInbox(m)') /\ SameChat(k, m) => k < m
    BY <1>1
  <2> QED BY <2>1, <2>2, <2>3 DEF OrderInv, SameChat
<1> QED BY <1>11, <1>12

LEMMA HandOverKeeps ==
    ASSUME IInv, [Next]_vars, PlaceInv, OrderInv, LifeInv, HandOver
    PROVE  PlaceInv' /\ OrderInv'
<1> USE DEF IInv, BridgeInv
<1>1. CASE held # NoMsg /\ bridge[held] \in Receiving
  BY <1>1, SettlingKeeps DEF HandOver, NextEvent, runtimeVars
<1> QED
  BY <1>1, ElsewhereKeeps DEF HandOver, Elsewhere, runtimeVars

LEMMA RouteKeeps ==
    ASSUME IInv, [Next]_vars, PlaceInv, OrderInv, Route
    PROVE  PlaceInv' /\ OrderInv'
BY SettlingKeeps DEF Route, NextEvent, bridgeVars, runtimeVars

LEMMA PlaceStep ==
    ASSUME IInv, IInv', PlaceInv, OrderInv, LifeInv, [Next]_vars
    PROVE  PlaceInv' /\ OrderInv'
<1>1. TypeOK /\ PollerInv
  BY DEF IInv, BridgeInv
<1> QED
  BY <1>1, ElsewhereSteps, ElsewhereKeeps, PublishInboundKeeps, AgentRepliesKeeps,
     AgentStaysSilentKeeps, UnsolicitedKeeps, ReceiveKeeps, HandOverKeeps, RouteKeeps

-----------------------------------------------------------------------------
(* The pairing. *)

(* How answers flow: only a publish starts one, only the event in work is   *)
(* settled, and one that is under way stays so until it is settled or its   *)
(* turn ends in silence.                                                    *)
Flows ==
    /\ \A m \in Msgs : Outstanding(m)' => Outstanding(m) \/ (PublishInbound /\ m = cursor)
    /\ \A m \in Msgs : Settled(m)' => Settled(m) \/ event.re = m
    /\ \A m \in Msgs : Outstanding(m) => \/ Outstanding(m)'
                                         \/ (HandOver \/ Route) /\ event.re = m
                                         \/ \E c \in Chats : AgentStaysSilent(c)
    /\ \A m \in Msgs : slot'[m] = slot[m] \/ (HandOver /\ m = held /\ slot[m] = NoEvent /\ slot'[m] = event)

LEMMA Flow ==
    ASSUME IInv, PlaceInv, OrderInv, [Next]_vars
    PROVE  Flows
<1> USE DEF IInv, BridgeInv
<1>1. CASE Elsewhere
  BY <1>1 DEF Elsewhere, Flows, Outstanding, Settled, InInbox, InOutbound
<1>2. CASE PublishInbound
  <2>1. UNCHANGED <<outbound, event, slot, proactive>>
    BY <1>2 DEF PublishInbound, dispatcherVars
  <2>2. cursor \in Msgs /\ ChatOf[cursor] \in Chats /\ inbox[ChatOf[cursor]] \in Seq(Msgs)
    BY <1>2 DEF PublishInbound, PollerInv, TypeOK, Msgs
  <2> DEFINE q == inbox[ChatOf[cursor]]
  <2>3. /\ \A i \in DOMAIN q : i \in DOMAIN Append(q, cursor) /\ Append(q, cursor)[i] = q[i]
        /\ \A i \in DOMAIN Append(q, cursor) : i \in DOMAIN q \/ Append(q, cursor)[i] = cursor
    BY <2>2, AppendIndices
  <2>4. \A m \in Msgs : \/ inbox'[ChatOf[m]] = inbox[ChatOf[m]]
                        \/ inbox[ChatOf[m]] = q /\ inbox'[ChatOf[m]] = Append(q, cursor)
    BY <1>2, <2>2 DEF PublishInbound, TypeOK
  <2>5. \A m \in Msgs : InInbox(m) => InInbox(m)'
    BY <2>3, <2>4 DEF InInbox
  <2>6. \A m \in Msgs : InInbox(m)' => InInbox(m) \/ m = cursor
    BY <2>3, <2>4 DEF InInbox
  <2>7. \A m \in Msgs : (InOutbound(m)' <=> InOutbound(m)) /\ (Settled(m)' <=> Settled(m))
    BY <2>1 DEF InOutbound, Settled
  <2> QED BY <1>2, <2>1, <2>5, <2>6, <2>7 DEF Flows, Outstanding
<1>3. ASSUME NEW c \in Chats, AgentReplies(c) \/ AgentStaysSilent(c) PROVE Flows
  <2>1. /\ Head(inbox[c]) \in Msgs /\ InInbox(Head(inbox[c]))
        /\ \A m \in Msgs : InInbox(m)' => InInbox(m)
        /\ \A m \in Msgs : InInbox(m) => InInbox(m)' \/ m = Head(inbox[c])
    BY <1>3, InboxTail DEF AgentReplies, AgentStaysSilent
  <2>2. UNCHANGED <<event, slot, proactive>>
    BY <1>3 DEF AgentReplies, AgentStaysSilent, bridgeVars, dispatcherVars
  <2>3. \A m \in Msgs : Settled(m)' <=> Settled(m)
    BY <2>2 DEF Settled
  <2>4. CASE AgentReplies(c)
    <3>1. PICK t \in Destinations, b \in Bodies :
             outbound' = Append(outbound, [session |-> c, to |-> t, re |-> Head(inbox[c]), body |-> b])
      BY <2>4 DEF AgentReplies, Publish
    <3>2. [session |-> c, to |-> t, re |-> Head(inbox[c]), body |-> b] \in Events
      BY <2>1, BodiesAssumption, DestinationsAssumption DEF Events
    <3>3. \A m \in Msgs : InOutbound(m)' <=> InOutbound(m) \/ m = Head(inbox[c])
      BY <3>1, <3>2, OutboundAppend
    <3> QED BY <2>1, <2>2, <2>3, <3>3 DEF Flows, Outstanding
  <2>5. CASE AgentStaysSilent(c)
    <3>1. \A m \in Msgs : InOutbound(m)' <=> InOutbound(m)
      BY <2>5 DEF AgentStaysSilent, InOutbound
    <3> QED BY <2>1, <2>2, <2>3, <2>5, <3>1 DEF Flows, Outstanding
  <2> QED BY <1>3, <2>4, <2>5
<1>4. CASE Unsolicited
  <2>1. PICK u \in Chats \cup {NoChat}, t \in Destinations, b \in Bodies :
           outbound' = Append(outbound, [session |-> u, to |-> t, re |-> NoMsg, body |-> b])
    BY <1>4 DEF Unsolicited, Publish
  <2>2. [session |-> u, to |-> t, re |-> NoMsg, body |-> b] \in Events
    BY BodiesAssumption, DestinationsAssumption DEF Events
  <2>3. \A m \in Msgs : InOutbound(m)' <=> InOutbound(m)
    BY <2>1, <2>2, OutboundAppend, NothingIsNoAnswer
  <2>4. UNCHANGED <<inbox, event, slot, proactive>>
    BY <1>4 DEF Unsolicited, bridgeVars, dispatcherVars
  <2> QED BY <2>3, <2>4 DEF Flows, Outstanding, Settled, InInbox
<1>5. CASE Receive
  <2>1. UNCHANGED <<inbox, slot, proactive>> /\ event = NoEvent
    BY <1>5 DEF Receive, bridgeVars, PlaceInv
  <2>2. /\ 1 \in DOMAIN outbound /\ event' = outbound[1]
        /\ \A i \in DOMAIN outbound' : i + 1 \in DOMAIN outbound /\ outbound'[i] = outbound[i + 1]
        /\ \A i \in DOMAIN outbound : i = 1 \/ (i - 1 \in DOMAIN outbound' /\ outbound'[i - 1] = outbound[i])
    BY <1>5, TailIndices DEF Receive, TypeOK
  <2>3. \A m \in Msgs : InOutbound(m) <=> InOutbound(m)' \/ event'.re = m
    BY <2>2 DEF InOutbound
  <2> QED BY <2>1, <2>3, NothingIsNoAnswer DEF Flows, Outstanding, Settled, InInbox
<1>6. CASE HandOver
  <2>1. UNCHANGED <<inbox, outbound, proactive>> /\ (event' = event \/ event' = NoEvent)
    BY <1>6 DEF HandOver, NextEvent, runtimeVars
  <2>2. \A m \in Msgs : slot'[m] = slot[m] \/ (m = held /\ slot[m] = NoEvent /\ slot'[m] = event)
    BY <1>6 DEF HandOver, TypeOK, DispatcherInv
  <2> QED
    BY <1>6, <2>1, <2>2, NothingIsNoAnswer DEF Flows, Outstanding, Settled, InInbox, InOutbound
<1>7. CASE Route
  <2>1. UNCHANGED <<inbox, outbound, slot>> /\ event' = NoEvent /\ \A p \in proactive' : p \in proactive \/ p.event = event
    BY <1>7 DEF Route, NextEvent, runtimeVars, bridgeVars
  <2> QED
    BY <1>7, <2>1, NothingIsNoAnswer DEF Flows, Outstanding, Settled, InInbox, InOutbound
<1> QED BY <1>1, <1>2, <1>3, <1>4, <1>5, <1>6, <1>7, ElsewhereSteps

LEMMA SilencedMeans ==
    ASSUME NEW m \in Msgs
    PROVE  Silenced(m) <=> ~Outstanding(m) /\ ~Settled(m)
BY DEF Silenced, Outstanding, Settled, InInbox, InOutbound

(* A dropped sender stays dropped.                                          *)
LEMMA SenderStaysDropped ==
    ASSUME IInv, [Next]_vars, NEW m \in Msgs, SenderDropped(m), bridge[m] # "unseen"
    PROVE  SenderDropped(m)'
<1> USE DEF IInv, BridgeInv
<1> DEFINE c == ChatOf[m]
<1>1. c \in Chats /\ pending[c] \in Seq(Msgs) /\ held # m /\ \A i \in DOMAIN pending[c] : pending[c][i] # m
  BY DEF SenderDropped, TypeOK
<1>2. \A i \in DOMAIN pending'[c] : pending'[c][i] # m
  <2>1. CASE PushEntry
    <3>1. cursor \in Msgs /\ cursor # m
      BY <2>1 DEF PushEntry, PollerInv, TypeOK, Msgs
    <3>2. pending'[c] = pending[c] \/ pending'[c] = Append(pending[c], cursor)
      BY <1>1, <2>1 DEF PushEntry, TypeOK
    <3>3. \A i \in DOMAIN Append(pending[c], cursor) :
             \/ i \in DOMAIN pending[c] /\ Append(pending[c], cursor)[i] = pending[c][i]
             \/ Append(pending[c], cursor)[i] = cursor
      BY <1>1, <3>1, AppendIndices
    <3> QED BY <1>1, <3>1, <3>2, <3>3
  <2>2. CASE \A d \in Chats : Shrinks(d)
    BY <1>1, <2>2 DEF Shrinks
  <2> QED BY <2>1, <2>2, QueuesShrink
<1>3. held' # m
  <2>1. CASE PopEntry
    <3> DEFINE q == pending[event.session]
    <3>1. event.session \in Chats /\ q \in Seq(Msgs)
      BY <2>1 DEF PopEntry, DispatcherInv, Events, TypeOK
    <3>2. CASE q = <<>>
      BY <1>1, <2>1, <3>2 DEF PopEntry
    <3>3. CASE q # <<>>
      <4>1. held' = q[1] /\ 1 \in DOMAIN q
        BY <2>1, <3>1, <3>3, TailIndices DEF PopEntry
      <4>2. ChatOf[q[1]] = event.session
        BY <3>1, <4>1 DEF NoLingeringEntry
      <4> QED BY <1>1, <4>1, <4>2
    <3> QED BY <3>2, <3>3
  <2>2. PopEntry \/ held' \in {held, NoMsg}
    BY BridgeEffect
    DEF Next, Poller, Runtime, Dispatcher, Stop, Fetch, Accept, PushEntry, PublishInbound, PublishFails,
        BatchDone, PollerExit, AgentReplies, AgentStaysSilent, Unsolicited, Receive, CheckEmpty,
        RemoveSession, HandOver, Route, DispatcherExit, NextEvent,
        StopCancel, StopDrain, StopDrained, StopClear, StopCleared, StopJoin, vars, dispatcherVars
  <2> QED BY <1>1, <2>1, <2>2, NothingIsNoAnswer
<1> QED BY <1>2, <1>3 DEF SenderDropped

(* What a step may do to the life of one bridge.                            *)
LEMMA BridgeMoves ==
    ASSUME IInv, [Next]_vars, NEW m \in Msgs
    PROVE  \/ bridge'[m] = bridge[m]
           \/ PushEntry /\ m = cursor /\ bridge'[m] = "pushed"
           \/ PublishInbound /\ m = cursor /\ bridge'[m] = "waiting"
           \/ PublishFails /\ m = cursor /\ bridge'[m] = "unpublished"
           \/ bridge[m] = "waiting" /\ slot[m] = NoEvent /\ bridge'[m] \in {"elapsed", "orphaned"}
           \/ bridge[m] = "waiting" /\ slot[m] # NoEvent /\ bridge'[m] = "sending"
           \/ bridge[m] = "sending" /\ bridge'[m] \in {"delivered", "failed", "discarded"}
           \/ bridge[m] = "elapsed" /\ bridge'[m] = "timedOut"
<1> USE DEF IInv, BridgeInv
<1>1. CASE PushEntry \/ PublishInbound \/ PublishFails
  BY <1>1 DEF PushEntry, PublishInbound, PublishFails, TypeOK
<1>2. ASSUME NEW k \in Msgs, Bridge(k)
      PROVE  \/ bridge'[m] = bridge[m]
             \/ bridge[m] = "waiting" /\ slot[m] = NoEvent /\ bridge'[m] \in {"elapsed", "orphaned"}
             \/ bridge[m] = "waiting" /\ slot[m] # NoEvent /\ bridge'[m] = "sending"
             \/ bridge[m] = "sending" /\ bridge'[m] \in {"delivered", "failed", "discarded"}
             \/ bridge[m] = "elapsed" /\ bridge'[m] = "timedOut"
  BY <1>2
  DEF Bridge, BridgeReply, BridgeSend, BridgeOrphan, BridgeElapse, BridgeExpire, Become, TypeOK
<1>3. CASE UNCHANGED bridge
  BY <1>3
<1> QED
  BY <1>1, <1>2, <1>3, IdleSteps
  DEF Next, Poller, Runtime, Dispatcher, Stop, Idle, PopEntry, RemoveSession, HandOver,
      StopDrain, StopClear, bridgeVars

(* A disturbance is never undone, but for a dropped sender whose message    *)
(* could not be published after all.                                        *)
LEMMA DisturbanceStays ==
    ASSUME IInv, PlaceInv, OrderInv, [Next]_vars, NEW k \in Msgs, Disturbance(k)
    PROVE  \/ Disturbance(k)'
           \/ PublishFails /\ k = cursor /\ slot[k] = NoEvent /\ held # k
<1>1. Flows
  BY Flow
<1>2. CASE bridge[k] \in {"elapsed", "timedOut", "orphaned"}
  <2>1. ~((PushEntry \/ PublishInbound \/ PublishFails) /\ k = cursor)
    BY <1>2 DEF PushEntry, PublishInbound, PublishFails, IInv, BridgeInv, PollerInv, TypeOK
  <2> QED BY <1>2, <2>1, BridgeMoves DEF Disturbance
<1>3. CASE bridge[k] \in {"pushed", "waiting"} /\ slot[k] = NoEvent /\ SenderDropped(k)
  <2>1. slot'[k] = NoEvent /\ held # k
    BY <1>1, <1>3 DEF Flows, SenderDropped
  <2>2. SenderDropped(k)'
    BY <1>3, SenderStaysDropped
  <2>3. bridge'[k] \in {"pushed", "waiting", "elapsed", "orphaned"} \/ (PublishFails /\ k = cursor)
    BY <1>3, BridgeMoves
  <2> QED BY <1>3, <2>1, <2>2, <2>3 DEF Disturbance
<1>4. CASE slot[k] # NoEvent /\ slot[k].re = NoMsg
  BY <1>1, <1>4 DEF Flows, Disturbance
<1>5. CASE "silent" \in Environment /\ Published(k) /\ Silenced(k)
  <2>1. ~Outstanding(k) /\ ~Settled(k)
    BY <1>5, SilencedMeans
  <2>2. event.re # k
    BY <2>1 DEF Outstanding
  <2>3. ~(PublishInbound /\ k = cursor)
    BY <1>5 DEF PublishInbound, IInv, BridgeInv, PollerInv, Published
  <2>4. ~Outstanding(k)' /\ ~Settled(k)'
    BY <1>1, <2>1, <2>2, <2>3 DEF Flows
  <2>5. Silenced(k)'
    BY <2>4, SilencedMeans DEF Silenced, Outstanding, Settled, InInbox, InOutbound
  <2>6. Published(k)'
    BY <1>5, PublishedStays DEF IInv, BridgeInv
  <2> QED BY <1>5, <2>5, <2>6 DEF Disturbance, Published
<1> QED BY <1>2, <1>3, <1>4, <1>5 DEF Disturbance, Published

(* So a chat calm up to m after a step was calm before it.                  *)
LEMMA CalmBefore ==
    ASSUME IInv, IInv', PlaceInv, OrderInv, [Next]_vars, NEW m \in Msgs, Calm(m)'
    PROVE  \/ Calm(m)
           \/ PublishFails /\ slot[m] = NoEvent /\ held # m /\ ~Published(m)'
<1>1. SUFFICES ASSUME NEW k \in 1 .. m, SameChat(k, m), Disturbance(k)
               PROVE  PublishFails /\ slot[m] = NoEvent /\ held # m /\ ~Published(m)'
  BY DEF Calm
<1>2. k \in Msgs /\ k <= m
  BY DEF Msgs
<1>3. ~Disturbance(k)'
  BY <1>1 DEF Calm, SameChat
<1>4. PublishFails /\ k = cursor /\ slot[k] = NoEvent /\ held # k
  BY <1>1, <1>2, <1>3, DisturbanceStays
<1>5. CASE m = k
  BY <1>4, <1>5 DEF PublishFails, IInv, TypeOK, Published
<1>6. CASE m # k
  <2>1. m > cursor /\ poller = "publishing" /\ bridge' = [bridge EXCEPT ![cursor] = "unpublished"]
    BY <1>2, <1>4, <1>6 DEF PublishFails, Msgs
  <2>2. bridge[m] = "unseen"
    BY <2>1 DEF IInv, BridgeInv, PollerInv
  <2>3. bridge'[m] = "unseen"
    BY <1>4, <1>6, <2>1, <2>2 DEF IInv, TypeOK
  <2> QED BY <1>4, <2>2, <2>3, NothingIsNoAnswer DEF IInv, BridgeInv, SlotInv, DispatcherInv, Published
<1> QED BY <1>5, <1>6

(* An event that answers r is popped against the head h of the queue: in a  *)
(* chat calm up to h they are the same message.                             *)
LEMMA HeadIsAnswered ==
    ASSUME IInv, LifeInv, PlaceInv, OrderInv, AlignInv, dispatcher = "pop",
           NEW h \in Msgs, pending[event.session] # <<>>, h = Head(pending[event.session]), Calm(h)
    PROVE  event.re \in {NoMsg, h}
<1> USE DEF IInv, BridgeInv
<1> DEFINE q == pending[event.session]
           r == event.re
<1>1. /\ event \in Events /\ event.session \in Chats
      /\ q \in Seq(Msgs) /\ q # <<>> /\ held = NoMsg
      /\ 1 \in DOMAIN q /\ q[1] = h /\ r \in Msgs \cup {NoMsg}
  BY TailIndices, EventType DEF DispatcherInv, TypeOK, Events
<1>2. ChatOf[h] = event.session /\ bridge[h] \in Receiving /\ slot[h] = NoEvent
  BY <1>1 DEF NoLingeringEntry, Events
<1>3. \A i \in DOMAIN q : h <= q[i]
  <2>1. event.session \in Chats /\ h \in Nat
    BY <1>1 DEF Events, Msgs
  <2>2. \A i \in DOMAIN q : (i = 1 \/ 1 < i) /\ q[i] \in Nat
    BY <1>1 DEF Msgs
  <2> QED BY <1>1, <2>1, <2>2 DEF QueuesAreFifo
<1>4. SUFFICES ASSUME r \in Msgs, r # h PROVE FALSE
  BY <1>1
<1>5. SameChat(r, h) /\ Outstanding(r) /\ Published(r) /\ ~Settled(r)
  BY <1>2, <1>4, NothingIsNoAnswer DEF PlaceInv, WellAddressed, SameChat, Outstanding
<1>6. CASE r < h
  <2>1. Calm(r) /\ ~Disturbance(r)
    BY <1>4, <1>5, <1>6 DEF Calm, SameChat, Msgs
  <2>2. slot[r].re \in {NoMsg, r}
    BY <1>4, <2>1 DEF AlignInv, Aligned
  <2>3. slot[r] = NoEvent
    BY <1>4, <1>5, <2>1, <2>2 DEF Disturbance, Settled
  <2>4. bridge[r] = "waiting"
    BY <1>4, <1>5, <2>1, <2>3 DEF Published, Disturbance, LifeInv, TypeOK, BridgeStates, Receiving, Resolved
  <2>5. \E i \in DOMAIN q : q[i] = r
    <3>1. ~SenderDropped(r)
      BY <2>1, <2>3, <2>4 DEF Disturbance
    <3> QED BY <1>1, <1>2, <1>4, <1>5, <3>1, NothingIsNoAnswer DEF SenderDropped, SameChat
  <2> QED BY <1>3, <1>4, <1>6, <2>5 DEF Msgs
<1>7. CASE h < r
  <2>1. bridge[h] \in {"pushed", "waiting"}
    BY <1>2 DEF Calm, Disturbance, SameChat, Receiving, Msgs
  <2>2. CASE bridge[h] = "pushed"
    <3>1. r <= cursor /\ h = cursor
      BY <1>4, <1>5, <2>2, PublishedAreOlder DEF LifeInv
    <3> QED BY <1>4, <1>7, <3>1 DEF Msgs
  <2>3. CASE bridge[h] = "waiting"
    <3>1. Outstanding(h)
      BY <1>2, <2>3 DEF AlignInv, Aligned, Open
    <3>2. h < r \/ h = r
      BY <1>7
    <3>3. r < h
      BY <1>4, <1>5, <3>1 DEF Outstanding, OrderInv
    <3> QED BY <1>7, <3>3, <1>4 DEF Msgs
  <2> QED BY <2>1, <2>2, <2>3
<1> QED BY <1>4, <1>6, <1>7 DEF Msgs

(* And an open message in a calm chat is popped by its own answer.          *)
LEMMA AnswerPopsItsMessage ==
    ASSUME IInv, LifeInv, PlaceInv, OrderInv, AlignInv, PopEntry,
           NEW m \in Msgs, event.re = m, Open(m), Calm(m)
    PROVE  held' = m
<1> USE DEF IInv, BridgeInv
<1> DEFINE q == pending[event.session]
<1>1. /\ event \in Events /\ q \in Seq(Msgs) /\ held = NoMsg /\ dispatcher = "pop"
      /\ ChatOf[m] = event.session
  BY NothingIsNoAnswer DEF PopEntry, DispatcherInv, TypeOK, Events, PlaceInv, WellAddressed
<1>2. \E i \in DOMAIN q : q[i] = m
  <2>1. ~SenderDropped(m)
    BY DEF Calm, Open, Disturbance, SameChat, Msgs
  <2> QED BY <1>1, <2>1, NothingIsNoAnswer DEF SenderDropped
<1>3. q # <<>> /\ held' = Head(q) /\ Head(q) \in Msgs /\ Head(q) = q[1] /\ 1 \in DOMAIN q
  BY <1>1, <1>2, TailIndices DEF PopEntry
<1>4. Head(q) <= m /\ ChatOf[Head(q)] = event.session
  <2>1. event.session \in Chats
    BY <1>1 DEF Events
  <2>2. \A i \in DOMAIN q : i = 1 \/ 1 < i
    BY <1>1
  <2>3. Head(q) = m \/ Head(q) < m
    BY <1>2, <1>3, <2>1, <2>2 DEF QueuesAreFifo
  <2> QED BY <1>3, <2>1, <2>3 DEF NoLingeringEntry, Msgs
<1>5. Calm(Head(q))
  BY <1>1, <1>3, <1>4 DEF Calm, SameChat, Msgs
<1>6. event.re \in {NoMsg, Head(q)}
  BY <1>1, <1>3, <1>5, HeadIsAnswered
<1> QED BY <1>3, <1>6, NothingIsNoAnswer

LEMMA AlignStep ==
    ASSUME IInv, IInv', LifeInv, PlaceInv, PlaceInv', OrderInv, AlignInv, [Next]_vars
    PROVE  AlignInv'
<1> USE DEF IInv, BridgeInv
<1>1. SUFFICES ASSUME NEW m \in Msgs, Calm(m)' PROVE Aligned(m)'
  BY DEF AlignInv
<1>2. Flows
  BY Flow
<1>3. CASE PublishFails /\ slot[m] = NoEvent /\ held # m /\ ~Published(m)'
  <2>1. \A p \in proactive' : p.event.re # m
    BY <1>3 DEF PlaceInv, Settled
  <2> QED BY <1>3, <2>1, NothingIsNoAnswer DEF PublishFails, dispatcherVars, Aligned, Open, Published
<1>4. CASE Calm(m)
  <2>1. Aligned(m)
    BY <1>4 DEF AlignInv
  <2>2. slot'[m].re \in {NoMsg, m}
    BY <1>2, <2>1 DEF Flows, Aligned
  <2>3. Open(m)' => Open(m) \/ (PublishInbound /\ m = cursor)
    BY <1>2, BridgeMoves DEF Flows, Open, DispatcherInv, PlaceInv
  <2>4. Open(m)' => Outstanding(m)'
    <3>1. CASE PublishInbound /\ m = cursor
      <4>1. inbox'[ChatOf[m]] = Append(inbox[ChatOf[m]], m) /\ inbox[ChatOf[m]] \in Seq(Msgs)
        BY <3>1 DEF PublishInbound, TypeOK
      <4>2. InInbox(m)'
        BY <4>1, AppendIndices DEF InInbox
      <4> QED BY <4>2 DEF Outstanding
    <3>2. CASE Open(m) /\ Open(m)'
      <4>1. Outstanding(m)
        BY <2>1, <3>2 DEF Aligned
      <4>2. ~((HandOver \/ Route) /\ event.re = m)
        <5>1. SUFFICES ASSUME HandOver \/ Route, event.re = m PROVE FALSE
          OBVIOUS
        <5>2. held = m /\ dispatcher = "hand"
          BY <2>1, <3>2, <5>1 DEF Aligned, HandOver, Route
        <5>3. HandOver /\ slot'[m] = event
          BY <3>2, <5>1, <5>2, NothingIsNoAnswer DEF HandOver, Route, Open, Receiving, TypeOK
        <5> QED BY <3>2, <5>1, <5>3, NothingIsNoAnswer DEF Open
      <4>3. ASSUME NEW c \in Chats, AgentStaysSilent(c), ~Outstanding(m)' PROVE FALSE
        <5>1. ~Settled(m)' /\ Published(m)'
          <6>1. ~Settled(m) /\ Published(m)
            BY <4>1 DEF PlaceInv
          <6>2. UNCHANGED <<slot, proactive, bridge>>
            BY <4>3 DEF AgentStaysSilent, bridgeVars, dispatcherVars
          <6> QED BY <6>1, <6>2 DEF Settled, Published
        <5>2. Silenced(m)'
          BY <4>3, <5>1 DEF Silenced, Outstanding, Settled, InInbox, InOutbound
        <5>3. Disturbance(m)'
          BY <4>3, <5>1, <5>2 DEF AgentStaysSilent, Disturbance, Published
        <5> QED BY <1>1, <5>3 DEF Calm, SameChat, Msgs
      <4> QED BY <1>2, <4>1, <4>2, <4>3 DEF Flows
    <3> QED BY <2>3, <3>1, <3>2
  <2>5. held' = m => event'.re \in {NoMsg, m}
    <3>1. CASE PopEntry
      <4> DEFINE q == pending[event.session]
      <4>1. CASE q # <<>>
        <5>1. dispatcher = "pop" /\ held' = Head(q) /\ event' = event
          BY <3>1, <4>1 DEF PopEntry
        <5> QED BY <1>4, <4>1, <5>1, HeadIsAnswered
      <4>2. CASE q = <<>>
        BY <2>1, <3>1, <4>2 DEF PopEntry, Aligned
      <4> QED BY <4>1, <4>2
    <3>2. CASE held' = held /\ event' = event
      BY <2>1, <3>2 DEF Aligned
    <3>3. CASE held' = NoMsg
      BY <3>3, NothingIsNoAnswer
    <3>4. PopEntry \/ held' = NoMsg \/ (held' = held /\ event' = event)
      BY BridgeEffect
      DEF Next, Poller, Runtime, Dispatcher, Stop, Fetch, Accept, PushEntry, PublishInbound, PublishFails,
          BatchDone, PollerExit, AgentReplies, AgentStaysSilent, Unsolicited, Receive, CheckEmpty,
          RemoveSession, HandOver, Route, DispatcherExit, NextEvent, DispatcherInv,
          StopCancel, StopDrain, StopDrained, StopClear, StopCleared, StopJoin, vars, dispatcherVars
    <3> QED BY <3>1, <3>2, <3>3, <3>4
  <2>6. ASSUME dispatcher' \in {"check", "remove", "hand", "route"}, event'.re = m, Open(m)'
        PROVE  held' = m /\ dispatcher' # "route"
    <3>1. CASE PopEntry
      <4>1. event' = event /\ dispatcher' = "check" /\ Open(m)
        BY <2>3, <2>6, <3>1 DEF PopEntry, PublishInbound, dispatcherVars
      <4> QED BY <1>4, <2>6, <3>1, <4>1, AnswerPopsItsMessage
    <3>2. CASE CheckEmpty \/ RemoveSession
      <4>1. /\ event' = event /\ held' = held /\ dispatcher \in {"check", "remove"}
            /\ dispatcher' \in {"remove", "hand"} /\ Open(m)
        BY <2>3, <2>6, <3>2 DEF CheckEmpty, RemoveSession, PublishInbound, dispatcherVars
      <4> QED BY <2>1, <2>6, <4>1 DEF Aligned
    <3>3. CASE HandOver
      <4>1. dispatcher = "hand" /\ event.re = m /\ Open(m)
        BY <2>3, <2>6, <3>3, NothingIsNoAnswer DEF HandOver, NextEvent, PublishInbound, dispatcherVars
      <4>2. held = m
        BY <2>1, <4>1 DEF Aligned
      <4> QED BY <2>6, <3>3, <4>1, <4>2, NothingIsNoAnswer DEF HandOver, NextEvent, Open, Receiving
    <3>4. CASE Receive
      <4>1. WellAddressed(event') /\ dispatcher' \in {"pop", "route"}
        BY <3>4 DEF PlaceInv, Receive
      <4>2. event'.session \in Chats
        BY <2>6, <4>1, NothingIsNoAnswer DEF WellAddressed
      <4>3. dispatcher' = "pop"
        BY <3>4, <4>2, NoChatAssumption DEF Receive
      <4> QED BY <2>6, <4>3
    <3>5. CASE Route \/ DispatcherExit
      BY <2>6, <3>5 DEF Route, NextEvent, DispatcherExit
    <3>6. CASE UNCHANGED dispatcherVars
      <4>1. ~(PublishInbound /\ m = cursor)
        <5>1. SUFFICES ASSUME PublishInbound, m = cursor PROVE FALSE
          OBVIOUS
        <5>2. Outstanding(m)
          BY <2>6, <3>6 DEF Outstanding, dispatcherVars
        <5> QED BY <5>1, <5>2 DEF PlaceInv, Published, PublishInbound, PollerInv
      <4> QED BY <2>1, <2>3, <2>6, <3>6, <4>1 DEF Aligned, dispatcherVars
    <3> QED
      BY <3>1, <3>2, <3>3, <3>4, <3>5, <3>6, BridgeEffect
      DEF Next, Poller, Runtime, Dispatcher, Stop, Fetch, Accept, PushEntry, PublishInbound, PublishFails,
          BatchDone, PollerExit, AgentReplies, AgentStaysSilent, Unsolicited,
          StopCancel, StopDrain, StopDrained, StopClear, StopCleared, StopJoin, vars
  <2>7. ASSUME NEW p \in proactive', p.event.re = m PROVE FALSE
    <3>1. p \notin proactive
      BY <2>1, <2>7 DEF Aligned
    <3>2. Route /\ event.re = m
      BY <2>7, <3>1, ElsewhereSteps
      DEF Elsewhere, PublishInbound, Receive, HandOver, Route, AgentReplies, AgentStaysSilent, Unsolicited,
          dispatcherVars
    <3>3. ~Open(m) /\ Published(m) /\ ~Settled(m)
      BY <2>1, <3>2 DEF Aligned, Route, PlaceInv, Outstanding
    <3>4. ~Disturbance(m)
      BY <1>4 DEF Calm, SameChat, Msgs
    <3>5. slot[m] = NoEvent
      BY <2>1, <3>3, <3>4 DEF Aligned, Disturbance, Settled
    <3> QED
      BY <3>3, <3>4, <3>5
      DEF Open, Published, Disturbance, LifeInv, TypeOK, BridgeStates, Receiving, Resolved
  <2> QED BY <2>2, <2>4, <2>5, <2>6, <2>7 DEF Aligned
<1> QED BY <1>1, <1>3, <1>4, CalmBefore

-----------------------------------------------------------------------------
(* What every behaviour of the bridge keeps. *)

PairingInv == IInv /\ LifeInv /\ PlaceInv /\ OrderInv /\ AlignInv

LEMMA PairingInit == Init => PairingInv
<1> SUFFICES ASSUME Init PROVE PairingInv
  OBVIOUS
<1>1. IInv
  BY InvInit
<1>2. LifeInv
  BY DEF Init, LifeInv, NoMsg
<1>3. \A m \in Msgs : ~Outstanding(m) /\ ~Settled(m)
  BY NothingIsNoAnswer DEF Init, Outstanding, Settled, InInbox, InOutbound
<1>4. PlaceInv
  BY <1>3, NothingIsNoAnswer DEF Init, PlaceInv, WellAddressed
<1>5. OrderInv
  BY <1>3 DEF Init, OrderInv, Outstanding, Increasing
<1>6. AlignInv
  BY NothingIsNoAnswer DEF Init, AlignInv, Aligned, Open
<1> QED BY <1>1, <1>2, <1>4, <1>5, <1>6 DEF PairingInv

LEMMA PairingStep == PairingInv /\ [Next]_vars => PairingInv'
<1> SUFFICES ASSUME PairingInv, [Next]_vars PROVE PairingInv'
  OBVIOUS
<1>1. IInv /\ LifeInv /\ PlaceInv /\ OrderInv /\ AlignInv
  BY DEF PairingInv
<1>2. IInv'
  BY <1>1, InvStep
<1>3. LifeInv'
  BY <1>1, <1>2, LifeStep
<1>4. PlaceInv' /\ OrderInv'
  BY <1>1, <1>2, PlaceStep
<1>5. AlignInv'
  BY <1>1, <1>2, <1>4, AlignStep
<1> QED BY <1>2, <1>3, <1>4, <1>5 DEF PairingInv

LEMMA PairingHolds == Spec => []PairingInv
BY PairingInit, PairingStep, PTL DEF Spec

(* An answer takes one route: one bridge or the proactive path, never both  *)
(* and never two bridges.                                                   *)
THEOREM AnswersTakeOneRoute == Spec => []OneRoute
<1>1. PlaceInv => OneRoute
  BY DEF PlaceInv, OneRoute
<1>2. PairingInv => OneRoute
  BY <1>1 DEF PairingInv
<1> QED BY <1>2, PairingHolds, PTL

(* A reply threaded to another message than its own was preceded by a       *)
(* disturbance of that chat at that message or an older one.                *)
THEOREM MisalignmentIsCaused == Spec => []MisalignmentHasACause
<1>1. AlignInv => MisalignmentHasACause
  BY DEF AlignInv, Aligned, Calm, SameChat, MisalignmentHasACause
<1>2. PairingInv => MisalignmentHasACause
  BY <1>1 DEF PairingInv
<1> QED BY <1>2, PairingHolds, PTL

(* An answer that takes the proactive path goes to the chat its payload      *)
(* names or to its own, and was preceded by a disturbance of its own chat at *)
(* its message or an older one.                                              *)
THEOREM StrayAnswersAreCaused == Spec => []StrayAnswersHaveACause
<1>1. ASSUME PairingInv PROVE StrayAnswersHaveACause
  <2>1. SUFFICES ASSUME NEW p \in proactive, p.event.re # NoMsg
                 PROVE  /\ p.chat \in {p.event.to, ChatOf[p.event.re]}
                        /\ \E k \in 1 .. p.event.re : ChatOf[k] = ChatOf[p.event.re] /\ Disturbance(k)
    BY DEF StrayAnswersHaveACause
  <2>2. p.event \in Events /\ p.event.re \in Msgs
    BY <1>1, <2>1, EventType DEF PairingInv, IInv, TypeOK
  <2>3. p.chat \in {p.event.to, ChatOf[p.event.re]}
    BY <1>1, <2>1 DEF PairingInv, PlaceInv, WellSent, WellAddressed
  <2>4. ~Calm(p.event.re)
    BY <1>1, <2>2 DEF PairingInv, AlignInv, Aligned
  <2> QED BY <2>3, <2>4 DEF Calm, SameChat
<1> QED BY <1>1, PairingHolds, PTL

(* A reply sent in a chat that nothing disturbed up to its message.         *)
CalmChatsAlign == \A m \in Msgs : Calm(m) /\ bridge[m] = "delivered" => slot[m].re = m

(* What the comment on the pending map promises ("a queue pop aligns reply  *)
(* N with message N"), where it holds: in a chat that nothing disturbed the *)
(* reply to a message answers that message.                                 *)
THEOREM CalmChatsStayAligned == Spec => []CalmChatsAlign
<1>1. ASSUME PairingInv PROVE CalmChatsAlign
  <2>1. SUFFICES ASSUME NEW m \in Msgs, Calm(m), bridge[m] = "delivered" PROVE slot[m].re = m
    BY DEF CalmChatsAlign
  <2>2. slot[m] # NoEvent /\ slot[m].re \in {NoMsg, m}
    BY <1>1, <2>1 DEF PairingInv, LifeInv, AlignInv, Aligned
  <2>3. ~Disturbance(m)
    BY <2>1 DEF Calm, SameChat, Msgs
  <2> QED BY <2>2, <2>3 DEF Disturbance
<1> QED BY <1>1, PairingHolds, PTL
=============================================================================
