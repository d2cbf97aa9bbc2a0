---------------------------- MODULE RequestReply ----------------------------
(***************************************************************************)
(* The subprocess beside its bot (PluginBoot): one task per request topic,   *)
(* subscribed at process start, that answers the daemon's requests one after *)
(* another, and the credential handlers, which read what plugin.configure    *)
(* delivered last (src/src/main.rs, spawn_one and on_credentials_*;          *)
(* src/src/auto_discovery.rs).  The daemon asks again when no answer came    *)
(* (external).  Every step is a step of PluginBoot or leaves its variables   *)
(* alone.                                                                   *)
(***************************************************************************)
EXTENDS PluginBoot, FiniteSets

CONSTANTS
    Topics, Requests,
    TopicOf,     \* the topic of each request
    Form,        \* "send" a pairing message, or "read" what is configured
    AccountOf,   \* the account a request is for
    InstanceOf,  \* the instance of each configuration, or NoInstance
    NoInstance,  \* of a configuration that has none: the legacy topics
    MaxAttempts, \* bound: how often the daemon asks each
    Stuck        \* topics whose task may wait for the broker forever

ASSUME RequestsAssumption ==
    /\ TopicOf \in [Requests -> Topics]
    /\ Form \in [Requests -> {"send", "read"}]
    /\ None \notin Requests \X Nat
ASSUME AttemptsAssumption == MaxAttempts \in [Requests -> Nat]

VARIABLES
    loop,      \* the task of each topic
    queue,     \* its subscription: attempts <<request, number>> in order
    hand,      \* the attempt it serves, or None
    answer,    \* what its handler made of it
    attempts,  \* how often the daemon asked each request
    replies,   \* the answers the daemon got, in order, per topic
    unreplied, \* attempts whose reply could not be published (history)
    events,    \* outbound events of the handlers (history)
    readAt     \* deliveries before each plugin read its configuration (history)

serverVars == <<loop, queue, hand, answer>>
daemonVars == <<attempts, replies, unreplied, events>>
requestVars == <<serverVars, daemonVars, readAt>>
allVars == <<vars, requestVars>>

RequestInit ==
    /\ Init
    /\ loop = [t \in Topics |-> "starting"]
    /\ queue = [t \in Topics |-> <<>>]
    /\ hand = [t \in Topics |-> None]
    /\ answer = [t \in Topics |-> "none"]
    /\ attempts = [r \in Requests |-> 0]
    /\ replies = [t \in Topics |-> <<>>]
    /\ unreplied = {} /\ events = {}
    /\ readAt = [c \in Calls |-> 0]

Ready == cell # None

(* The running plugin has not seen the last delivery.                       *)
Behind == Ready /\ configures > readAt[cell]

(* on_credentials_list: a configuration without instance is not an account.  *)
Listed ==
    IF configured = None THEN {}
    ELSE {InstanceOf[configured[i]] : i \in DOMAIN configured} \ {NoInstance}

FoundAt(i, account) ==
    /\ InstanceOf[configured[i]] = account
    /\ \A j \in 1 .. i - 1 : InstanceOf[configured[j]] # account

(* on_credentials_resolve_bytes: the first delivered configuration of the    *)
(* account, or not found; issue reads the same array.                       *)
Resolved(account) ==
    IF account \notin Listed THEN None
    ELSE configured[CHOOSE i \in DOMAIN configured : FoundAt(i, account)]

(* The account that a plugin started now would serve: the environment's, or  *)
(* the first of those delivered.                                            *)
Serves(account) ==
    \/ configured = None /\ account = InstanceOf[Env]
    \/ configured \notin {None, <<>>} /\ account = InstanceOf[Head(configured)]

-----------------------------------------------------------------------------
(* An operator named <definition>_<slip> is that definition with a slip in   *)
(* it; RequestNext does not use them.                                       *)

Beside ==
    /\ readAt' = [c \in Calls |-> IF cfg'[c] # cfg[c] THEN configures ELSE readAt[c]]
    /\ UNCHANGED <<serverVars, daemonVars>>

Deliver == Configure /\ Beside
Call(c) == Invoke(c) /\ Beside
Boot(c) == Step(c) /\ Beside

SubscribeTopic(t) ==
    /\ loop[t] = "starting"
    /\ loop' \in {[loop EXCEPT ![t] = "up"], [loop EXCEPT ![t] = "failed"]}
    /\ UNCHANGED <<vars, queue, hand, answer, daemonVars, readAt>>

Told(t) == {replies[t][i] : i \in DOMAIN replies[t]}
Succeeded(r) == \E n \in 1 .. attempts[r] : [attempt |-> <<r, n>>, answer |-> "ok"] \in Told(TopicOf[r])

(* The daemon asks, again when it was not told of a success (external).  A   *)
(* topic nobody subscribed to loses the request.                            *)
Ask(r) == LET t == TopicOf[r] IN
    /\ attempts[r] < MaxAttempts[r] /\ ~Succeeded(r)
    /\ attempts' = [attempts EXCEPT ![r] = @ + 1]
    /\ queue' = IF loop[t] = "up" THEN [queue EXCEPT ![t] = Append(@, <<r, attempts[r] + 1>>)]
                ELSE queue
    /\ UNCHANGED <<vars, loop, hand, answer, replies, unreplied, events, readAt>>

Take_OneAtATime(t) ==
    /\ \A u \in Topics : hand[u] = None
    /\ queue[t] # <<>>
    /\ queue' = [queue EXCEPT ![t] = Tail(@)]
    /\ hand' = [hand EXCEPT ![t] = Head(queue[t])]
    /\ UNCHANGED <<vars, loop, answer, daemonVars, readAt>>

Take_Newest(t) == LET last == queue[t][Len(queue[t])] IN
    /\ hand[t] = None /\ queue[t] # <<>>
    /\ queue' = [queue EXCEPT ![t] = SubSeq(@, 1, Len(@) - 1)]
    /\ hand' = [hand EXCEPT ![t] = last]
    /\ UNCHANGED <<vars, loop, answer, daemonVars, readAt>>

(* The next request of the topic.  One that does not parse, or asks for no   *)
(* reply, is passed over and leaves nothing.                                *)
Take(t) ==
    /\ hand[t] = None /\ queue[t] # <<>>
    /\ queue' = [queue EXCEPT ![t] = Tail(@)]
    /\ hand' = [hand EXCEPT ![t] = Head(queue[t])]
    /\ UNCHANGED <<vars, loop, answer, daemonVars, readAt>>

Answered(t, word) == answer' = [answer EXCEPT ![t] = word]

(* Who hears an event on the outbound topic of an account.                  *)
Hearers(account) == {d \in dispatchers : InstanceOf[cfg[d]] = account}

(* An event for the account of the request in hand, as it is published.      *)
Event(t) == LET account == AccountOf[hand[t][1]] IN
    [attempt |-> hand[t], hearers |-> Cardinality(Hearers(account)),
     expected |-> Ready /\ ~Behind /\ Serves(account)]

(* The handler.  pairing_send_reply and pairing_send_qr_image publish an     *)
(* outbound event and answer for that alone; the event cannot be published,  *)
(* or the handler's checks refuse the request.                              *)
Handle(t) == LET r == hand[t][1] IN
    /\ hand[t] # None /\ answer[t] = "none"
    /\ \/ Form[r] = "send" /\ Answered(t, "ok") /\ events' = events \cup {Event(t)}
       \/ Form[r] = "read" /\ Answered(t, "ok") /\ UNCHANGED events
       \/ Answered(t, "error") /\ UNCHANGED events
    /\ UNCHANGED <<vars, loop, queue, hand, attempts, replies, unreplied, readAt>>

Reply(t) ==
    /\ answer[t] # "none"
    /\ \/ /\ replies' = [replies EXCEPT ![t] = Append(@, [attempt |-> hand[t], answer |-> answer[t]])]
          /\ UNCHANGED unreplied
       \/ unreplied' = unreplied \cup {hand[t]} /\ UNCHANGED replies
    /\ hand' = [hand EXCEPT ![t] = None]
    /\ Answered(t, "none")
    /\ UNCHANGED <<vars, loop, queue, attempts, events, readAt>>

-----------------------------------------------------------------------------
Serve(t) == SubscribeTopic(t) \/ Take(t) \/ Handle(t) \/ Reply(t)

RequestNext ==
    \/ Deliver
    \/ \E c \in Calls : Call(c) \/ Boot(c)
    \/ \E t \in Topics : Serve(t)
    \/ \E r \in Requests : Ask(r)

RequestSpec == RequestInit /\ [][RequestNext]_allVars

(* Tokio runs a task that is ready; the broker answers those of the topics   *)
(* outside Stuck, and the requests of the initialiser end.                  *)
RequestFairSpec ==
    /\ RequestSpec
    /\ \A t \in Topics \ Stuck : WF_allVars(Serve(t))
    /\ \A c \in Calls : WF_allVars(Boot(c))

-----------------------------------------------------------------------------
(* A pairing message the daemon is told was published is heard by one bot at *)
(* most, that is, it reaches the dispatcher of one, whatever that makes of   *)
(* it (OutboundPaths); and by none only before a bot runs, when the bot has  *)
(* not seen the last configuration, or when its account is not the one that  *)
(* is started: also one that is listed further down an array                 *)
(* (main.rs:93-99, 169-172).                                                 *)
UnheardSendsHaveACause ==
    \A e \in events : e.hearers <= 1 /\ (e.expected => e.hearers = 1)

(* The daemon resolves the credentials the running bot uses under the bot's  *)
(* instance, unless a configuration came after the bot read its own, be it   *)
(* while it was starting.  Those of a bot without instance it resolves under *)
(* no account, although the bot runs with them (main.rs:93, 171, 205-212).   *)
CredentialsMatchTheBot ==
    Ready /\ configured # None /\ ~Behind =>
        {account \in Listed \cup {NoInstance} : Resolved(account) = cfg[cell]}
            = {InstanceOf[cfg[cell]]} \ {NoInstance}

(* The late answer of an attempt never comes after that of a later one, and  *)
(* none comes twice: the daemon cannot take a stale result for the new one.  *)
AnswersInOrder ==
    \A t \in Topics : \A i, j \in DOMAIN replies[t] :
        LET a == replies[t][i].attempt  b == replies[t][j].attempt IN
            i < j /\ a[1] = b[1] => a[2] < b[2]

(* Every request a topic received is answered, or its reply was refused by   *)
(* the broker, also while another topic is stuck (main.rs:308-310).          *)
EveryRequestIsAnswered ==
    \A r \in Requests : \A n \in 1 .. MaxAttempts[r] : LET t == TopicOf[r]  a == <<r, n>> IN
        t \notin Stuck =>
            ((\E i \in DOMAIN queue[t] : queue[t][i] = a)
                ~> (a \in unreplied \/ \E m \in Told(t) : m.attempt = a))
=============================================================================
