---------------------------- MODULE ReplyBridge ----------------------------
(***************************************************************************)
(* How an inbound Telegram message meets its reply: the poller pushes a    *)
(* pending entry per message, the dispatcher pops the oldest entry of a    *)
(* session for every outbound event tagged with that session, and a bridge *)
(* task per message waits for the reply or gives up (src/src/plugin.rs,    *)
(* spawn_poller, spawn_dispatcher, stop).                                  *)
(*                                                                         *)
(* A session is its chat: session_id_for_chat is injective (UUIDv5 of the  *)
(* chat id).  Messages are numbered in the order the poller meets them and *)
(* are those the allowlist lets through.                                   *)
(***************************************************************************)
EXTENDS Naturals, SequencesExt

CONSTANTS
    Chats,          \* chats that write to the bot
    N,              \* bound: number of inbound messages
    ChatOf,         \* the chat of each message
    NoChat,         \* no session, or no explicit destination
    Destinations,   \* what outbound payloads name as `to' in this instance
    Bodies,         \* bodies outbound payloads carry in this instance
    MaxUnsolicited, \* bound: outbound events that answer no message
    Environment     \* what the surroundings may do in this instance

Msgs == 1 .. N
NoMsg == 0

ASSUME NAssumption == N \in Nat
ASSUME ChatOfAssumption == ChatOf \in [Msgs -> Chats]
ASSUME NoChatAssumption == NoChat \notin Chats
ASSUME DestinationsAssumption == Destinations \subseteq Chats \cup {NoChat}
ASSUME BodiesAssumption == Bodies \subseteq {"text", "media", "empty"}
ASSUME UnsolicitedAssumption == MaxUnsolicited \in Nat
ASSUME EnvironmentAssumption ==
    Environment \subseteq {"slow", "silent", "publish_fails", "send_fails", "stop",
                            "subscription_ends"}

(* An event on plugin.outbound.telegram.  `session' is the chat whose       *)
(* session_id tags the event and `to' the one its payload names, each       *)
(* NoChat where there is none; they need not agree.  `re' is the message    *)
(* the runtime answers (NoMsg when it speaks up by itself).                 *)
Events == [session : Chats \cup {NoChat}, to : Chats \cup {NoChat},
           re : Msgs \cup {NoMsg}, body : {"text", "media", "empty"}]
NoEvent == [re |-> NoMsg]

VARIABLES
    cursor,    \* messages taken from getUpdates batches so far
    batch,     \* updates of the current batch still to process
    poller,    \* where the poller task is
    known,     \* keys of session_to_chat
    sessions,  \* keys of the pending map
    pending,   \* the queue under each key (<<>> where there is none)
    bridge,    \* life of each message's oneshot receiver and bridge task
    slot,      \* what tx.send put into each message's oneshot
    typing,    \* messages whose typing ticker runs
    dispatcher,\* where the dispatcher task is
    event,     \* the event the dispatcher works on
    held,      \* the entry it popped for that event
    proactive, \* events sent on the proactive path, and where to (history)
    outbound,  \* broker: events published for the dispatcher, in order
    inbox,     \* runtime: messages published to it and not yet answered
    extra,     \* unsolicited events published so far
    stopper,   \* where stop() is
    todo       \* chats stop() has still to visit in its present phase

pollerVars     == <<cursor, batch, poller, known>>
pendingVars    == <<sessions, pending>>
bridgeVars     == <<bridge, slot, typing>>
dispatcherVars == <<dispatcher, event, held, proactive>>
runtimeVars    == <<outbound, inbox, extra>>
stopVars       == <<stopper, todo>>
vars == <<pollerVars, pendingVars, bridgeVars, dispatcherVars, runtimeVars, stopVars>>

(* rx of the message's oneshot still exists, so tx.send returns Ok.         *)
Receiving == {"pushed", "waiting", "elapsed"}
Resolved  == {"delivered", "failed", "discarded", "timedOut", "orphaned", "unpublished"}
BridgeStates == {"unseen", "sending"} \cup Receiving \cup Resolved

TypeOK ==
    /\ cursor \in 0 .. N
    /\ batch \in 0 .. N
    /\ poller \in {"poll", "batch", "preparing", "publishing", "exited"}
    /\ known \subseteq Chats
    /\ sessions \subseteq Chats
    /\ pending \in [Chats -> Seq(Msgs)]
    /\ bridge \in [Msgs -> BridgeStates]
    /\ slot \in [Msgs -> Events \cup {NoEvent}]
    /\ typing \subseteq Msgs
    /\ dispatcher \in {"recv", "pop", "check", "remove", "hand", "route", "exited"}
    /\ event \in Events \cup {NoEvent}
    /\ held \in Msgs \cup {NoMsg}
    /\ proactive \subseteq [event : Events, chat : Chats]
    /\ outbound \in Seq(Events)
    /\ inbox \in [Chats -> Seq(Msgs)]
    /\ extra \in 0 .. MaxUnsolicited
    /\ stopper \in {"running", "draining", "clearing", "joining", "stopped"}
    /\ todo \subseteq Chats

Init ==
    /\ cursor = 0 /\ batch = 0 /\ poller = "poll" /\ known = {}
    /\ sessions = {} /\ pending = [c \in Chats |-> <<>>]
    /\ bridge = [m \in Msgs |-> "unseen"]
    /\ slot = [m \in Msgs |-> NoEvent]
    /\ typing = {}
    /\ dispatcher = "recv" /\ event = NoEvent /\ held = NoMsg /\ proactive = {}
    /\ outbound = <<>> /\ inbox = [c \in Chats |-> <<>>] /\ extra = 0
    /\ stopper = "running" /\ todo = {}

shutdown == stopper # "running"

(* q.retain(|e| e.entry_id != entry_id): entry ids are fresh, one can match. *)
Without(q, m) ==
    IF \E i \in DOMAIN q : q[i] = m
    THEN RemoveAt(q, CHOOSE i \in DOMAIN q : q[i] = m)
    ELSE q

Retain(m) ==
    /\ pending' = [pending EXCEPT ![ChatOf[m]] = Without(@, m)]
    /\ UNCHANGED sessions

-----------------------------------------------------------------------------
(* An operator named <definition>_<slip> is that definition with a slip in   *)
(* it.  Next does not use them: they show which property notices the slip.   *)

(* The poller task. *)

(* getUpdates answers; the biased select returns instead once cancelled.    *)
Fetch ==
    /\ poller = "poll" /\ ~shutdown
    /\ \E k \in 1 .. N - cursor : batch' = k
    /\ poller' = "batch"
    /\ UNCHANGED <<cursor, known, pendingVars, bridgeVars, dispatcherVars, runtimeVars, stopVars>>

(* The next update of the batch, whatever happened to `shutdown' meanwhile. *)
(* Downloading and transcribing its media is the time spent in "preparing". *)
Accept ==
    /\ poller = "batch" /\ batch > 0
    /\ cursor' = cursor + 1
    /\ batch' = batch - 1
    /\ known' = known \cup {ChatOf[cursor + 1]}
    /\ poller' = "preparing"
    /\ UNCHANGED <<pendingVars, bridgeVars, dispatcherVars, runtimeVars, stopVars>>

PushEntry_Front ==
    /\ poller = "preparing"
    /\ sessions' = sessions \cup {ChatOf[cursor]}
    /\ pending' = [pending EXCEPT ![ChatOf[cursor]] = <<cursor>> \o @]
    /\ bridge' = [bridge EXCEPT ![cursor] = "pushed"]
    /\ typing' = typing \cup {cursor}
    /\ poller' = "publishing"
    /\ UNCHANGED <<cursor, batch, known, slot, dispatcherVars, runtimeVars, stopVars>>

PushEntry ==
    /\ poller = "preparing"
    /\ sessions' = sessions \cup {ChatOf[cursor]}
    /\ pending' = [pending EXCEPT ![ChatOf[cursor]] = Append(@, cursor)]
    /\ bridge' = [bridge EXCEPT ![cursor] = "pushed"]
    /\ typing' = typing \cup {cursor}
    /\ poller' = "publishing"
    /\ UNCHANGED <<cursor, batch, known, slot, dispatcherVars, runtimeVars, stopVars>>

PublishInbound ==
    /\ poller = "publishing"
    /\ inbox' = [inbox EXCEPT ![ChatOf[cursor]] = Append(@, cursor)]
    /\ bridge' = [bridge EXCEPT ![cursor] = "waiting"]
    /\ poller' = "batch"
    /\ UNCHANGED <<cursor, batch, known, pendingVars, slot, typing, dispatcherVars,
                   outbound, extra, stopVars>>

PublishFails_TickerLeft ==
    /\ poller = "publishing" /\ "publish_fails" \in Environment
    /\ Retain(cursor)
    /\ bridge' = [bridge EXCEPT ![cursor] = "unpublished"]
    /\ poller' = "batch"
    /\ UNCHANGED <<cursor, batch, known, typing, slot, dispatcherVars, runtimeVars, stopVars>>

PublishFails ==
    /\ poller = "publishing" /\ "publish_fails" \in Environment
    /\ Retain(cursor)
    /\ typing' = typing \ {cursor}
    /\ bridge' = [bridge EXCEPT ![cursor] = "unpublished"]
    /\ poller' = "batch"
    /\ UNCHANGED <<cursor, batch, known, slot, dispatcherVars, runtimeVars, stopVars>>

BatchDone ==
    /\ poller = "batch" /\ batch = 0
    /\ poller' = IF shutdown THEN "exited" ELSE "poll"
    /\ UNCHANGED <<cursor, batch, known, pendingVars, bridgeVars, dispatcherVars, runtimeVars, stopVars>>

PollerExit ==
    /\ poller = "poll" /\ shutdown
    /\ poller' = "exited"
    /\ UNCHANGED <<cursor, batch, known, pendingVars, bridgeVars, dispatcherVars, runtimeVars, stopVars>>

Poller == \/ Accept \/ PushEntry \/ PublishInbound \/ PublishFails \/ BatchDone \/ PollerExit

-----------------------------------------------------------------------------
(* The core runtime and whoever else publishes on the outbound topic        *)
(* (external).  It serialises the messages of a session: first in, first    *)
(* replied.                                                                 *)

Publish(e) == outbound' = Append(outbound, e)

AgentReplies(c) ==
    /\ inbox[c] # <<>>
    /\ inbox' = [inbox EXCEPT ![c] = Tail(@)]
    /\ \E t \in Destinations, b \in Bodies :
           Publish([session |-> c, to |-> t, re |-> Head(inbox[c]), body |-> b])
    /\ UNCHANGED <<pollerVars, pendingVars, bridgeVars, dispatcherVars, extra, stopVars>>

(* The turn ends without an answer.                                         *)
AgentStaysSilent(c) ==
    /\ "silent" \in Environment /\ inbox[c] # <<>>
    /\ inbox' = [inbox EXCEPT ![c] = Tail(@)]
    /\ UNCHANGED <<pollerVars, pendingVars, bridgeVars, dispatcherVars, outbound, extra, stopVars>>

Unsolicited ==
    /\ extra < MaxUnsolicited
    /\ extra' = extra + 1
    /\ \E s \in Chats \cup {NoChat}, t \in Destinations, b \in Bodies :
           Publish([session |-> s, to |-> t, re |-> NoMsg, body |-> b])
    /\ UNCHANGED <<pollerVars, pendingVars, bridgeVars, dispatcherVars, inbox, stopVars>>

Runtime == \/ \E c \in Chats : AgentReplies(c) \/ AgentStaysSilent(c)
           \/ Unsolicited

-----------------------------------------------------------------------------
(* The dispatcher task: each look at the map is a step of its own, because  *)
(* DashMap is locked per call and not across them.                          *)

NextEvent == dispatcher' = "recv" /\ event' = NoEvent /\ held' = NoMsg

Receive_ExplicitFirst ==
    /\ dispatcher = "recv" /\ outbound # <<>>
    /\ event' = Head(outbound)
    /\ outbound' = Tail(outbound)
    /\ dispatcher' = IF Head(outbound).session # NoChat /\ Head(outbound).to = NoChat
                     THEN "pop" ELSE "route"
    /\ UNCHANGED <<pollerVars, pendingVars, bridgeVars, held, proactive, inbox, extra, stopVars>>

(* The session_id alone decides whether the map is looked at: an event that *)
(* finds an entry answers it in the session's chat, whatever `to' says.     *)
Receive ==
    /\ dispatcher = "recv" /\ outbound # <<>>
    /\ event' = Head(outbound)
    /\ outbound' = Tail(outbound)
    /\ dispatcher' = IF Head(outbound).session # NoChat THEN "pop" ELSE "route"
    /\ UNCHANGED <<pollerVars, pendingVars, bridgeVars, held, proactive, inbox, extra, stopVars>>

PopEntry_Newest ==
    /\ dispatcher = "pop"
    /\ LET q == pending[event.session] IN
       IF q # <<>>
       THEN /\ held' = Last(q)
            /\ pending' = [pending EXCEPT ![event.session] = Front(@)]
       ELSE UNCHANGED <<held, pending>>
    /\ dispatcher' = "check"
    /\ UNCHANGED <<pollerVars, sessions, bridgeVars, event, proactive, runtimeVars, stopVars>>

PopEntry ==
    /\ dispatcher = "pop"
    /\ LET q == pending[event.session] IN
       IF q # <<>>
       THEN /\ held' = Head(q)
            /\ pending' = [pending EXCEPT ![event.session] = Tail(@)]
       ELSE UNCHANGED <<held, pending>>
    /\ dispatcher' = "check"
    /\ UNCHANGED <<pollerVars, sessions, bridgeVars, event, proactive, runtimeVars, stopVars>>

CheckEmpty ==
    /\ dispatcher = "check"
    /\ dispatcher' = IF event.session \in sessions /\ pending[event.session] = <<>>
                     THEN "remove" ELSE "hand"
    /\ UNCHANGED <<pollerVars, pendingVars, bridgeVars, event, held, proactive, runtimeVars, stopVars>>

(* pending.remove(&sid) drops whatever the queue holds by now.              *)
RemoveSession ==
    /\ dispatcher = "remove"
    /\ sessions' = sessions \ {event.session}
    /\ pending' = [pending EXCEPT ![event.session] = <<>>]
    /\ dispatcher' = "hand"
    /\ UNCHANGED <<pollerVars, bridgeVars, event, held, proactive, runtimeVars, stopVars>>

HandOver_NoContinue ==
    /\ dispatcher = "hand"
    /\ typing' = typing \ {held}
    /\ IF held # NoMsg /\ bridge[held] \in Receiving
       THEN slot' = [slot EXCEPT ![held] = event]
       ELSE UNCHANGED slot
    /\ dispatcher' = "route"
    /\ UNCHANGED <<pollerVars, pendingVars, bridge, event, held, proactive, runtimeVars, stopVars>>

HandOver_DeadReceiver ==
    /\ dispatcher = "hand"
    /\ typing' = typing \ {held}
    /\ IF held # NoMsg
       THEN slot' = [slot EXCEPT ![held] = event] /\ NextEvent
       ELSE dispatcher' = "route" /\ UNCHANGED <<slot, event, held>>
    /\ UNCHANGED <<pollerVars, pendingVars, bridge, proactive, runtimeVars, stopVars>>

HandOver ==
    /\ dispatcher = "hand"
    /\ typing' = typing \ {held}
    /\ IF held # NoMsg /\ bridge[held] \in Receiving
       THEN slot' = [slot EXCEPT ![held] = event] /\ NextEvent
       ELSE dispatcher' = "route" /\ UNCHANGED <<slot, event, held>>
    /\ UNCHANGED <<pollerVars, pendingVars, bridge, proactive, runtimeVars, stopVars>>

(* The proactive path.  An explicit `to' comes before the session's chat,   *)
(* which is taken from session_to_chat; an unresolved chat, an empty text   *)
(* and a failed send all end with the event forgotten.                      *)
Route ==
    /\ dispatcher = "route"
    /\ LET chat == IF event.to # NoChat THEN event.to ELSE event.session
           resolved == event.to # NoChat \/ event.session \in known
       IN
       \/ /\ resolved /\ event.body # "empty"
          /\ proactive' = proactive \cup {[event |-> event, chat |-> chat]}
       \/ /\ ~resolved \/ event.body = "empty" \/ "send_fails" \in Environment
          /\ UNCHANGED proactive
    /\ NextEvent
    /\ UNCHANGED <<pollerVars, pendingVars, bridgeVars, runtimeVars, stopVars>>

DispatcherExit_AfterLastKey ==
    /\ dispatcher = "recv" /\ shutdown /\ sessions = {}
    /\ dispatcher' = "exited"
    /\ UNCHANGED <<pollerVars, pendingVars, bridgeVars, event, held, proactive, runtimeVars, stopVars>>

(* Cancelled, or the subscription has been closed: sub.next() is None.      *)
DispatcherExit ==
    /\ dispatcher = "recv"
    /\ shutdown \/ (outbound = <<>> /\ "subscription_ends" \in Environment)
    /\ dispatcher' = "exited"
    /\ UNCHANGED <<pollerVars, pendingVars, bridgeVars, event, held, proactive, runtimeVars, stopVars>>

Dispatcher ==
    \/ Receive \/ PopEntry \/ CheckEmpty \/ RemoveSession \/ HandOver \/ Route \/ DispatcherExit

-----------------------------------------------------------------------------
(* The bridge task of message m: timeout(bridge_timeout, rx), then abort the *)
(* ticker, retain the other entries, and act on the result.                  *)

Become(m, state) == bridge' = [bridge EXCEPT ![m] = state]

CleanUp_EntryLeft(m) == typing' = typing \ {m} /\ UNCHANGED pendingVars

CleanUp(m) == Retain(m) /\ typing' = typing \ {m}

(* The timeout future polls rx before its timer.                            *)
BridgeReply(m) ==
    /\ bridge[m] = "waiting" /\ slot[m] # NoEvent
    /\ CleanUp(m)
    /\ Become(m, "sending")
    /\ UNCHANGED <<pollerVars, slot, dispatcherVars, runtimeVars, stopVars>>

(* Only the payload's text went through the oneshot; an empty one is not sent. *)
BridgeSend(m) ==
    /\ bridge[m] = "sending"
    /\ \/ slot[m].body = "text" /\ Become(m, "delivered")
       \/ slot[m].body = "text" /\ "send_fails" \in Environment /\ Become(m, "failed")
       \/ slot[m].body # "text" /\ Become(m, "discarded")
    /\ UNCHANGED <<pollerVars, pendingVars, slot, typing, dispatcherVars, runtimeVars, stopVars>>

SenderDropped(m) == held # m /\ \A i \in DOMAIN pending[ChatOf[m]] : pending[ChatOf[m]][i] # m

BridgeOrphan(m) ==
    /\ bridge[m] = "waiting" /\ slot[m] = NoEvent /\ SenderDropped(m)
    /\ CleanUp(m)
    /\ Become(m, "orphaned")
    /\ UNCHANGED <<pollerVars, slot, dispatcherVars, runtimeVars, stopVars>>

BridgeElapse_WhileRunning(m) ==
    /\ bridge[m] = "waiting" /\ slot[m] = NoEvent /\ ~SenderDropped(m)
    /\ "slow" \in Environment /\ ~shutdown
    /\ Become(m, "elapsed")
    /\ UNCHANGED <<pollerVars, pendingVars, slot, typing, dispatcherVars, runtimeVars, stopVars>>

(* The timer has fired but rx is dropped only when the await returns.        *)
BridgeElapse(m) ==
    /\ bridge[m] = "waiting" /\ slot[m] = NoEvent /\ ~SenderDropped(m)
    /\ "slow" \in Environment
    /\ Become(m, "elapsed")
    /\ UNCHANGED <<pollerVars, pendingVars, slot, typing, dispatcherVars, runtimeVars, stopVars>>

(* rx dropped, cleaned up, BridgeTimeout published.                          *)
BridgeExpire(m) ==
    /\ bridge[m] = "elapsed"
    /\ CleanUp(m)
    /\ Become(m, "timedOut")
    /\ UNCHANGED <<pollerVars, slot, dispatcherVars, runtimeVars, stopVars>>

Bridge(m) ==
    BridgeReply(m) \/ BridgeSend(m) \/ BridgeOrphan(m) \/ BridgeElapse(m) \/ BridgeExpire(m)

-----------------------------------------------------------------------------
(* stop(): cancel, drain every queue, clear the map, join the two tasks.    *)

StopCancel ==
    /\ stopper = "running" /\ "stop" \in Environment
    /\ stopper' = "draining" /\ todo' = Chats
    /\ UNCHANGED <<pollerVars, pendingVars, bridgeVars, dispatcherVars, runtimeVars>>

(* iter_mut holds one shard at a time, so other tasks run between chats.    *)
StopDrain(c) ==
    /\ stopper = "draining" /\ c \in todo
    /\ typing' = typing \ ToSet(pending[c])
    /\ pending' = [pending EXCEPT ![c] = <<>>]
    /\ todo' = todo \ {c}
    /\ UNCHANGED <<pollerVars, sessions, bridge, slot, dispatcherVars, runtimeVars, stopper>>

StopDrained ==
    /\ stopper = "draining" /\ todo = {}
    /\ stopper' = "clearing" /\ todo' = Chats
    /\ UNCHANGED <<pollerVars, pendingVars, bridgeVars, dispatcherVars, runtimeVars>>

StopClear(c) ==
    /\ stopper = "clearing" /\ c \in todo
    /\ sessions' = sessions \ {c}
    /\ pending' = [pending EXCEPT ![c] = <<>>]
    /\ todo' = todo \ {c}
    /\ UNCHANGED <<pollerVars, bridgeVars, dispatcherVars, runtimeVars, stopper>>

StopCleared ==
    /\ stopper = "clearing" /\ todo = {}
    /\ stopper' = "joining"
    /\ UNCHANGED <<pollerVars, pendingVars, bridgeVars, dispatcherVars, runtimeVars, todo>>

(* Each join is given up after five seconds, so it ends in any state.       *)
StopJoin ==
    /\ stopper = "joining"
    /\ stopper' = "stopped"
    /\ UNCHANGED <<pollerVars, pendingVars, bridgeVars, dispatcherVars, runtimeVars, todo>>

Stop == \/ StopDrained \/ StopCleared \/ StopJoin
        \/ \E c \in Chats : StopDrain(c) \/ StopClear(c)

-----------------------------------------------------------------------------
Next ==
    \/ Fetch \/ Poller \/ Runtime \/ Dispatcher
    \/ \E m \in Msgs : Bridge(m)
    \/ StopCancel \/ Stop

Spec == Init /\ [][Next]_vars

(* Tokio polls every ready task again and a timer that is due fires; the    *)
(* broker and Telegram need not produce anything, stop() need not be called *)
(* and the runtime need not answer, so Fetch, StopCancel and Runtime are    *)
(* under no fairness.                                                       *)
Fairness ==
    /\ WF_vars(Poller)
    /\ WF_vars(Dispatcher)
    /\ WF_vars(Stop)
    /\ \A m \in Msgs : WF_vars(Bridge(m))

FairSpec == Spec /\ Fairness

-----------------------------------------------------------------------------
(* Safety. *)

(* A ticker never outlives the bridge it was created for: whichever of the  *)
(* six places that abort it comes first, once the bridge task has its       *)
(* result the chat no longer shows "typing" for that message                *)
(* (plugin.rs:757-760, 810-812).                                            *)
TypingEndsWithBridge == \A m \in typing : bridge[m] \in Receiving

(* The pending map holds only live entries, each under its own chat and not *)
(* yet answered: a resolved bridge leaves nothing behind that could swallow *)
(* a later reply (plugin.rs:813-816, 788-793).                              *)
NoLingeringEntry ==
    \A c \in Chats : \A i \in DOMAIN pending[c] :
        LET m == pending[c][i] IN
        ChatOf[m] = c /\ bridge[m] \in Receiving /\ slot[m] = NoEvent

(* The queue of a chat is in arrival order however pushes, pops, timeouts   *)
(* and retains interleave, so a pop takes the oldest live message           *)
(* (plugin.rs:1357-1360).                                                   *)
QueuesAreFifo ==
    \A c \in Chats : \A i, j \in DOMAIN pending[c] : i < j => pending[c][i] < pending[c][j]

(* An answer takes one route: it is handed to one bridge or sent            *)
(* proactively, never both and never to two bridges (plugin.rs:1379-1382).  *)
OneRoute ==
    \A m \in Msgs : slot[m] # NoEvent /\ slot[m].re # NoMsg =>
        /\ \A p \in proactive : p.event # slot[m]
        /\ \A k \in Msgs \ {m} : slot[k] # slot[m]

(* When reply N is threaded to another message than message N, something    *)
(* earlier in that chat broke the pairing: a bridge that timed out or lost  *)
(* its sender, an event nobody asked for, a turn without an answer.  In a   *)
(* chat where none of these happened reply N meets message N.               *)
Silenced(m) ==
    /\ \A i \in DOMAIN inbox[ChatOf[m]] : inbox[ChatOf[m]][i] # m
    /\ \A i \in DOMAIN outbound : outbound[i].re # m
    /\ event.re # m /\ \A k \in Msgs : slot[k].re # m
    /\ \A p \in proactive : p.event.re # m
Disturbance(k) ==
    \/ bridge[k] \in {"elapsed", "timedOut", "orphaned"}
    \/ bridge[k] \in {"pushed", "waiting"} /\ slot[k] = NoEvent /\ SenderDropped(k)
    \/ slot[k] # NoEvent /\ slot[k].re = NoMsg
    \/ "silent" \in Environment /\ bridge[k] \notin {"unseen", "pushed", "unpublished"} /\ Silenced(k)
MisalignmentHasACause ==
    \A m \in Msgs : slot[m].re \notin {NoMsg, m} =>
        \E k \in 1 .. m : ChatOf[k] = ChatOf[m] /\ Disturbance(k)

(* An answer leaves by the proactive path, unthreaded and to whatever other  *)
(* chat its payload may name, only when the pairing of its own chat has been *)
(* disturbed at its message or before it: a `to' that names another chat     *)
(* cannot by itself take an answer out of its conversation                   *)
(* (plugin.rs:1359-1392).                                                    *)
StrayAnswersHaveACause ==
    \A p \in proactive : p.event.re # NoMsg =>
        /\ p.chat \in {p.event.to, ChatOf[p.event.re]}
        /\ \E k \in 1 .. p.event.re : ChatOf[k] = ChatOf[p.event.re] /\ Disturbance(k)

-----------------------------------------------------------------------------
(* The inductive invariant behind the safety properties. *)

InQueue(m) == \E c \in Chats : \E i \in DOMAIN pending[c] : pending[c][i] = m

(* Where the poller is, and which messages it has pushed.                    *)
PollerInv ==
    /\ cursor + batch <= N
    /\ poller \in {"preparing", "publishing"} => cursor > 0
    /\ poller = "publishing" => bridge[cursor] = "pushed"
    /\ \A m \in Msgs :
          bridge[m] = "unseen" <=> m > cursor \/ (m = cursor /\ poller = "preparing")

(* An event in work, and the entry popped for it: it left its queue, is of    *)
(* the event's chat and has not been answered.                               *)
DispatcherInv ==
    /\ dispatcher \in {"pop", "check", "remove", "hand", "route"} => event \in Events
    /\ dispatcher \in {"pop", "check", "remove", "hand"} => event.session \in Chats
    /\ dispatcher \in {"recv", "pop", "exited"} => held = NoMsg
    /\ held # NoMsg => /\ event.session = ChatOf[held]
                       /\ ~InQueue(held)
                       /\ bridge[held] # "unseen" /\ slot[held] = NoEvent

(* A message that was never pushed has no reply, and a reply was tagged with  *)
(* the session of its message's chat.                                        *)
SlotInv ==
    \A m \in Msgs :
        /\ bridge[m] = "unseen" => slot[m] = NoEvent
        /\ slot[m] # NoEvent => slot[m].session = ChatOf[m]

BridgeInv ==
    /\ PollerInv /\ DispatcherInv /\ SlotInv
    /\ TypingEndsWithBridge /\ NoLingeringEntry /\ QueuesAreFifo

-----------------------------------------------------------------------------
(* Liveness. *)

(* Every message whose entry was pushed gets its outcome, whatever the      *)
(* runtime does: a threaded reply, a BridgeTimeout, or a dropped sender.     *)
EveryBridgeResolves == \A m \in Msgs : bridge[m] = "pushed" ~> bridge[m] \in Resolved

(* Cancelling ends both background tasks and stop() itself.                 *)
ShutdownCompletes ==
    shutdown ~> (poller = "exited" /\ dispatcher = "exited" /\ stopper = "stopped")

-----------------------------------------------------------------------------
(* The bridge keeps the contract of ReplyContract.                          *)

FateOf(m) ==
    CASE bridge[m] = "unseen" -> "unseen"
      [] bridge[m] \in Receiving -> "open"
      [] bridge[m] = "sending" -> "answering"
      [] bridge[m] \in {"delivered", "failed", "discarded"} -> "answered"
      [] bridge[m] = "timedOut" -> "expired"
      [] OTHER -> "abandoned"

Contract == INSTANCE ReplyContract
    WITH fate <- [m \in Msgs |-> FateOf(m)], reply <- slot, indicator <- typing

(* Each message is opened once, in arrival order, is given at most one reply *)
(* while it is open, and ends in exactly one fate.                           *)
KeepsContract == Contract!Spec

-----------------------------------------------------------------------------
(* What comments in the code say and the code does not do.                  *)

(* "a queue pop aligns reply N with message N" (plugin.rs:63-65).            *)
ReplyAlignsWithMessage ==
    \A m \in Msgs : bridge[m] = "delivered" => slot[m].re = m

(* "Clean up empty queues" (plugin.rs:1361): only an empty queue is dropped. *)
(* The answer to a message that loses its entry so still goes out, unthreaded. *)
OnlyEmptyQueuesAreDropped ==
    [][\A c \in sessions \ sessions' : shutdown \/ pending[c] = <<>>]_vars
=============================================================================
