----------------------- MODULE AnswersAcrossRestarts -----------------------
(***************************************************************************)
(* What a restart does to a conversation: UpdateCursor, whose offset file   *)
(* outlives the process, together with what does not outlive it, the        *)
(* pending entries and session_to_chat of src/src/plugin.rs, and with the   *)
(* dispatcher, which takes an event in four steps.  The agent runs elsewhere *)
(* and takes its turns also while the plugin is down.                       *)
(*                                                                         *)
(* Every step is a step of UpdateCursor or leaves its variables alone.  An  *)
(* answer carries its session and no chat id here; events that name their   *)
(* chat, and the typing tickers, are in ReplyBridge.                        *)
(***************************************************************************)
EXTENDS UpdateCursor, SequencesExt

CONSTANTS
    Chats, ChatOf,   \* the chat of each update
    MaxExpiries,     \* bound: bridges that time out
    MaxUnsolicited   \* bound: events of a session that answer no message

ASSUME ChatOfAssumption == ChatOf \in [Updates -> Chats]
ASSUME ExpiriesAssumption == MaxExpiries \in Nat /\ MaxUnsolicited \in Nat

VARIABLES
    registered, \* the message in hand has its pending entry
    pending,    \* the entries of each chat, by the update they are for
    known,      \* keys of session_to_chat
    keys,       \* keys of pending
    dispatcher, \* where the dispatcher is with its event
    session,    \* the chat of that event's session
    carried,    \* the update that event answers, or 0
    popped,     \* the update whose entry it popped and can still hand over, or 0
    inbox,      \* the agent: messages it has yet to answer, per chat
    outbound,   \* answers on their way, by the update they are for
    unsolicited, \* events so far that answer no message
    answered,   \* how often an answer to each update went to a bridge or was
                \* sent on its own (history)
    threads,    \* <<answer, message whose bridge got it>> (history)
    unresolved, \* answers dropped for want of a chat id (history)
    refused,    \* updates the broker did not take (history)
    gone,       \* updates that lost their entry or their answer (history)
    outlived,   \* updates that waited for an answer when a process ended (history)
    expiries

memoryVars == <<registered, pending, known, keys>>
eventVars == <<dispatcher, session, carried, popped>>
agentVars == <<inbox, outbound, unsolicited>>
answerVars == <<answered, threads, unresolved, refused, gone, outlived>>
bridgeVars == <<memoryVars, eventVars, agentVars, answerVars, expiries>>
allVars == <<vars, bridgeVars>>

NoEntries == [c \in Chats |-> <<>>]
Members(s) == {s[i] : i \in DOMAIN s}

(* Messages whose answer the agent owes, or that is on its way.              *)
Carried(b) == {carried[p] : p \in {q \in Pollers : BotOf[q] = b}} \ {0}
Waiting(b) ==
    Members(outbound[b]) \cup Carried(b) \cup UNION {Members(inbox[b][c]) : c \in Chats}

Entries(p) == UNION {Members(pending[p][c]) : c \in Chats}
Popped(p) == {popped[p]} \ {0}

BridgeInit ==
    /\ registered = [p \in Pollers |-> FALSE]
    /\ pending = [p \in Pollers |-> NoEntries]
    /\ known = [p \in Pollers |-> {}]
    /\ keys = [p \in Pollers |-> {}]
    /\ dispatcher = [p \in Pollers |-> "recv"]
    /\ session \in [Pollers -> Chats]
    /\ carried = [p \in Pollers |-> 0]
    /\ popped = [p \in Pollers |-> 0]
    /\ inbox = [b \in Bots |-> NoEntries]
    /\ outbound = [b \in Bots |-> <<>>]
    /\ unsolicited = 0
    /\ answered = [b \in Bots |-> [u \in Updates |-> 0]]
    /\ threads = [b \in Bots |-> {}]
    /\ unresolved = [b \in Bots |-> {}]
    /\ refused = [b \in Bots |-> {}]
    /\ gone = [b \in Bots |-> {}]
    /\ outlived = [b \in Bots |-> {}]
    /\ expiries = 0

-----------------------------------------------------------------------------
(* An operator named <definition>_<slip> is that definition with a slip in   *)
(* it; RestartNext does not use them.                                        *)

Wanted(u) == Kind[u] # "other" /\ u \in Allowed
Answerable(u) == Kind[u] = "message" /\ u \in Allowed

Loses(b, lost) == gone' = [gone EXCEPT ![b] = @ \cup lost]

Drain(p) ==
    /\ pending' = [pending EXCEPT ![p] = NoEntries]
    /\ keys' = [keys EXCEPT ![p] = {}]

(* The process ends.  What its subscription had buffered is lost, unless the *)
(* broker kept it (external); the event in its dispatcher is.               *)
EndProcess(p) ==
    /\ Drain(p)
    /\ Loses(BotOf[p], Entries(p) \cup Popped(p))
    /\ known' = [known EXCEPT ![p] = {}]
    /\ registered' = [registered EXCEPT ![p] = FALSE]
    /\ dispatcher' = [dispatcher EXCEPT ![p] = "recv"]
    /\ carried' = [carried EXCEPT ![p] = 0]
    /\ popped' = [popped EXCEPT ![p] = 0]
    /\ outlived' = [outlived EXCEPT ![BotOf[p]] = @ \cup Waiting(BotOf[p])]
    /\ outbound' \in {outbound, [outbound EXCEPT ![BotOf[p]] = <<>>]}
    /\ UNCHANGED <<session, inbox, unsolicited, answered, threads, unresolved, refused, expiries>>

(* A step of the poller that does not touch the message in hand.            *)
Polling(p) ==
    /\ \/ Start(p) \/ Misread(p) \/ FetchOk(p) \/ FetchFails(p) \/ WakeUp(p) \/ LeavePoll(p)
       \/ TakeUpdate(p) \/ EndBatch(p) \/ Truncate(p) \/ Write(p) \/ Rename(p) \/ SaveFails(p)
       \/ Crash(p)
    /\ IF pc'[p] = "down" THEN EndProcess(p) ELSE UNCHANGED bridgeVars

(* stop(): the drained entries' bridges end without an answer.               *)
StopDrains(p) ==
    /\ Stop(p)
    /\ Drain(p)
    /\ Loses(BotOf[p], Entries(p))
    /\ UNCHANGED <<registered, known, eventVars, agentVars, answered, threads, unresolved, refused,
                   outlived, expiries>>

Register_ChatForgotten(p) == LET u == current[p]  c == ChatOf[u] IN
    /\ pc[p] = "working" /\ Answerable(u) /\ ~registered[p]
    /\ registered' = [registered EXCEPT ![p] = TRUE]
    /\ pending' = [pending EXCEPT ![p][c] = Append(@, u)]
    /\ keys' = [keys EXCEPT ![p] = @ \cup {c}]
    /\ UNCHANGED <<vars, known, eventVars, agentVars, answerVars, expiries>>

(* session_to_chat.insert and push_back, before the message is published.   *)
Register(p) == LET u == current[p]  c == ChatOf[u] IN
    /\ pc[p] = "working" /\ Answerable(u) /\ ~registered[p]
    /\ registered' = [registered EXCEPT ![p] = TRUE]
    /\ known' = [known EXCEPT ![p] = @ \cup {c}]
    /\ pending' = [pending EXCEPT ![p][c] = Append(@, u)]
    /\ keys' = [keys EXCEPT ![p] = @ \cup {c}]
    /\ UNCHANGED <<vars, eventVars, agentVars, answerVars, expiries>>

(* q.retain(|e| e.entry_id != entry_id): entry ids are fresh, one can match. *)
Without(s, u) ==
    IF u \in Members(s) THEN RemoveAt(s, CHOOSE i \in DOMAIN s : s[i] = u) ELSE s

(* The receiver of an entry is dropped: nothing can be handed to it.         *)
Unreachable(p, u) == popped' = [popped EXCEPT ![p] = IF @ = u THEN 0 ELSE @]

PublishUpdate_EntryLeft(p) == LET b == BotOf[p]  u == current[p]  c == ChatOf[u] IN
    /\ FinishUpdate(p)
    /\ Answerable(u) => registered[p]
    /\ registered' = [registered EXCEPT ![p] = FALSE]
    /\ IF published' # published
       THEN /\ inbox' = IF Answerable(u) THEN [inbox EXCEPT ![b][c] = Append(@, u)] ELSE inbox
            /\ UNCHANGED <<refused, popped>>
       ELSE /\ refused' = IF Wanted(u) THEN [refused EXCEPT ![b] = @ \cup {u}] ELSE refused
            /\ Unreachable(p, u)
            /\ UNCHANGED inbox
    /\ UNCHANGED <<pending, known, keys, dispatcher, session, carried, outbound, unsolicited,
                   answered, threads, unresolved, gone, outlived, expiries>>

(* FinishUpdate publishes; a refusal takes the entry out again and drops its *)
(* receiver.                                                                *)
PublishUpdate(p) == LET b == BotOf[p]  u == current[p]  c == ChatOf[u] IN
    /\ FinishUpdate(p)
    /\ Answerable(u) => registered[p]
    /\ registered' = [registered EXCEPT ![p] = FALSE]
    /\ IF published' # published
       THEN /\ inbox' = IF Answerable(u) THEN [inbox EXCEPT ![b][c] = Append(@, u)] ELSE inbox
            /\ UNCHANGED <<refused, pending, popped>>
       ELSE /\ refused' = IF Wanted(u) THEN [refused EXCEPT ![b] = @ \cup {u}] ELSE refused
            /\ pending' = [pending EXCEPT ![p][c] = Without(@, u)]
            /\ Unreachable(p, u)
            /\ UNCHANGED inbox
    /\ UNCHANGED <<known, keys, dispatcher, session, carried, outbound, unsolicited,
                   answered, threads, unresolved, gone, outlived, expiries>>

(* The bridge task, spawned once the message was published, gives up: also   *)
(* when the dispatcher has just popped its entry.                           *)
Expire(p, u) == LET c == ChatOf[u] IN
    /\ expiries < MaxExpiries
    /\ u \in Members(pending[p][c]) \/ popped[p] = u
    /\ ~(registered[p] /\ current[p] = u)
    /\ pending' = [pending EXCEPT ![p][c] = Without(@, u)]
    /\ Unreachable(p, u)
    /\ Loses(BotOf[p], {u})
    /\ expiries' = expiries + 1
    /\ UNCHANGED <<vars, registered, known, keys, dispatcher, session, carried, agentVars,
                   answered, threads, unresolved, refused, outlived>>

(* The agent ends its turn for the oldest message of a chat.  No answer      *)
(* comes of a silent turn, or of one that ends while nobody is subscribed,   *)
(* unless the broker keeps it (external).                                   *)
Turn(b, c) == LET u == Head(inbox[b][c]) IN
    /\ inbox[b][c] # <<>>
    /\ inbox' = [inbox EXCEPT ![b][c] = Tail(@)]
    /\ \/ outbound' = [outbound EXCEPT ![b] = Append(@, u)] /\ UNCHANGED gone
       \/ Loses(b, {u}) /\ UNCHANGED outbound
    /\ UNCHANGED <<vars, memoryVars, eventVars, unsolicited, answered, threads, unresolved,
                   refused, outlived, expiries>>

-----------------------------------------------------------------------------
(* The dispatcher. *)

(* An event pops the oldest entry of its chat, whatever message it answers:  *)
(* an unsolicited one takes it from the message it is for.                  *)
Pop(p, c, u) == LET q == pending[p][c] IN
    /\ dispatcher' = [dispatcher EXCEPT ![p] = "check"]
    /\ session' = [session EXCEPT ![p] = c]
    /\ carried' = [carried EXCEPT ![p] = u]
    /\ \/ /\ q = <<>>
          /\ UNCHANGED <<pending, popped, gone>>
       \/ /\ q # <<>>
          /\ pending' = [pending EXCEPT ![p][c] = Tail(@)]
          /\ popped' = [popped EXCEPT ![p] = Head(q)]
          /\ IF u = 0 THEN Loses(BotOf[p], {Head(q)}) ELSE UNCHANGED gone

(* The next event of the topic; an unsolicited one may come before any other. *)
TakeEvent(p) == LET b == BotOf[p] IN
    /\ pc[p] # "down" /\ dispatcher[p] = "recv"
    /\ \/ /\ outbound[b] # <<>>
          /\ outbound' = [outbound EXCEPT ![b] = Tail(@)]
          /\ Pop(p, ChatOf[Head(outbound[b])], Head(outbound[b]))
          /\ UNCHANGED unsolicited
       \/ /\ unsolicited < MaxUnsolicited
          /\ unsolicited' = unsolicited + 1
          /\ \E c \in Chats : Pop(p, c, 0)
          /\ UNCHANGED outbound
    /\ UNCHANGED <<vars, registered, known, keys, inbox, answered, threads, unresolved, refused,
                   outlived, expiries>>

(* An empty queue is to be removed.                                         *)
CheckEmpty(p) == LET c == session[p] IN
    /\ dispatcher[p] = "check"
    /\ dispatcher' = [dispatcher EXCEPT ![p] =
                         IF c \in keys[p] /\ pending[p][c] = <<>> THEN "remove" ELSE "hand"]
    /\ UNCHANGED <<vars, memoryVars, session, carried, popped, agentVars, answerVars, expiries>>

(* pending.remove(&sid), with what was pushed since the check.               *)
RemoveSession(p) == LET c == session[p] IN
    /\ dispatcher[p] = "remove"
    /\ dispatcher' = [dispatcher EXCEPT ![p] = "hand"]
    /\ pending' = [pending EXCEPT ![p][c] = <<>>]
    /\ keys' = [keys EXCEPT ![p] = @ \ {c}]
    /\ Loses(BotOf[p], Members(pending[p][c]))
    /\ UNCHANGED <<vars, registered, known, session, carried, popped, agentVars, answered, threads,
                   unresolved, refused, outlived, expiries>>

Sent(b, u) == answered' = IF u = 0 THEN answered ELSE [answered EXCEPT ![b][u] = @ + 1]

(* The event goes to the bridge of the popped entry; without one it is sent  *)
(* to the chat known for the session, and without one of those it is dropped. *)
HandOver(p) ==
    LET b == BotOf[p]  u == carried[p]  c == session[p] IN
    /\ dispatcher[p] = "hand"
    /\ \/ /\ popped[p] # 0
          /\ threads' = [threads EXCEPT ![b] = @ \cup ({<<u, popped[p]>>} \ {<<0, popped[p]>>})]
          /\ Sent(b, u)
          /\ UNCHANGED unresolved
       \/ /\ popped[p] = 0 /\ c \in known[p]
          /\ Sent(b, u)
          /\ UNCHANGED <<threads, unresolved>>
       \/ /\ popped[p] = 0 /\ c \notin known[p]
          /\ unresolved' = [unresolved EXCEPT ![b] = @ \cup ({u} \ {0})]
          /\ UNCHANGED <<threads, answered>>
    /\ dispatcher' = [dispatcher EXCEPT ![p] = "recv"]
    /\ carried' = [carried EXCEPT ![p] = 0]
    /\ popped' = [popped EXCEPT ![p] = 0]
    /\ UNCHANGED <<vars, memoryVars, session, agentVars, refused, gone, outlived, expiries>>

Dispatch(p) == TakeEvent(p) \/ CheckEmpty(p) \/ RemoveSession(p) \/ HandOver(p)

-----------------------------------------------------------------------------
RestartInit == Init /\ BridgeInit

RestartNext ==
    \/ \E b \in Bots : Arrive(b) /\ UNCHANGED bridgeVars
    \/ \E p \in Pollers :
          \/ Polling(p) \/ StopDrains(p) \/ Register(p) \/ PublishUpdate(p) \/ Dispatch(p)
          \/ \E u \in Updates : Expire(p, u)
    \/ \E b \in Bots, c \in Chats : Turn(b, c)

RestartSpec == RestartInit /\ [][RestartNext]_allVars

-----------------------------------------------------------------------------
(* Once Telegram forgets an update for good, the agent was sent it, at least *)
(* once, or the broker refused it at its own turn: no crash, stop or failed  *)
(* write comes between the two (plugin.rs:564-569, 787-795).                *)
ConfirmedReachesTheAgent ==
    \A b \in Bots : \A u \in Updates :
        u < confirmed[b] /\ Wanted(u) => published[b][u] > 0 \/ u \in refused[b]

(* As long as no offset was lost, a person gets at most one answer to a      *)
(* message, also over stops, time-outs and answers that come late.          *)
AnsweredOnce ==
    NothingLost => \A b \in Bots : \A u \in Updates : answered[b][u] <= 1

(* An answer goes to the bridge of another message only in a chat where some *)
(* message lost its entry (to a time-out, to the clean-up of an emptied      *)
(* queue, to an event that answers nothing, to a stop or to the end of the   *)
(* process) or its answer.  A chat in which none did keeps its pairing       *)
(* through every restart, however the dispatcher's steps fall between the    *)
(* poller's (plugin.rs:1359-1385).                                          *)
CrossedThreadsHaveACause ==
    \A b \in Bots : \A t \in threads[b] :
        t[1] # t[2] => \E w \in gone[b] : ChatOf[w] = ChatOf[t[1]]

(* An answer is dropped for want of a chat id only when the process that     *)
(* published its message ended before the answer came: within one life       *)
(* session_to_chat resolves every answer (plugin.rs:1391-1397).             *)
DroppedAnswersOutlivedAProcess ==
    \A b \in Bots : unresolved[b] \subseteq outlived[b]

-----------------------------------------------------------------------------
(* The inductive invariant of the proofs (AnswersProofs), besides CursorInv. *)

BridgeTypeOK ==
    /\ registered \in [Pollers -> BOOLEAN]
    /\ known \in [Pollers -> SUBSET Chats]
    /\ keys \in [Pollers -> SUBSET Chats]
    /\ dispatcher \in [Pollers -> {"recv", "check", "remove", "hand"}]
    /\ session \in [Pollers -> Chats]
    /\ carried \in [Pollers -> Updates \cup {0}]
    /\ inbox \in [Bots -> [Chats -> Seq(Updates)]]
    /\ outbound \in [Bots -> Seq(Updates)]
    /\ unresolved \in [Bots -> SUBSET Updates]
    /\ refused \in [Bots -> SUBSET Updates]
    /\ outlived \in [Bots -> SUBSET Updates]

(* What was processed was published, or refused.                            *)
ReachInv ==
    \A b \in Bots : \A u \in handled[b] : Wanted(u) => published[b][u] > 0 \/ u \in refused[b]

(* A message is published after its chat became known, and the chat is known *)
(* until the process ends.                                                  *)
KnownInv ==
    \A p \in Pollers :
        /\ registered[p] => pc[p] = "working" /\ ChatOf[current[p]] \in known[p]
        /\ \A u \in Waiting(BotOf[p]) : ChatOf[u] \in known[p] \/ u \in outlived[BotOf[p]]

(* Between two events the dispatcher carries nothing; an answer it carries   *)
(* is of the chat it looks into.                                            *)
EventInv ==
    \A p \in Pollers :
        /\ dispatcher[p] = "recv" => carried[p] = 0
        /\ carried[p] # 0 => ChatOf[carried[p]] = session[p]

RestartInv == BridgeTypeOK /\ ReachInv /\ KnownInv /\ EventInv /\ DroppedAnswersOutlivedAProcess
=============================================================================
