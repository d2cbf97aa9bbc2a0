-------------------------- MODULE PluginBootProofs --------------------------
(* Proofs about PluginBoot and the request handlers beside it, for any       *)
(* number of tool calls, deliveries, topics and requests.                   *)
EXTENDS RequestReply, FiniteSetTheorems, WellFoundedInduction, TLAPS

USE DEF Initialising

LEMMA InitEstablishes == Init => BootInv
<1> SUFFICES ASSUME Init PROVE BootInv
  OBVIOUS
<1>1. TypeOK
  BY EnvAssumption DEF Init, TypeOK
<1>2. \A c \in Calls : pc[c] = "new" /\ reached[c] = None
  BY DEF Init
<1>3. PermitHeld /\ (\A c \in Calls : PluginInv(c)) /\ ReadyMeansRunning
  BY <1>2 DEF Init, PermitHeld, PluginInv, ReadyMeansRunning
<1> QED
  BY <1>1, <1>3 DEF Init, BootInv

(* Steps outside the initialiser: nothing of a plugin changes. *)
LEMMA ConfigureKeeps == BootInv /\ Configure => BootInv'
  BY EnvAssumption DEF BootInv, TypeOK, PermitHeld, PluginInv, ReadyMeansRunning, Configure, PollingEnabled

LEMMA StutterKeeps == BootInv /\ UNCHANGED vars => BootInv'
  BY DEF BootInv, TypeOK, PermitHeld, PluginInv, ReadyMeansRunning, vars, PollingEnabled

LEMMA InvokeKeeps == ASSUME NEW c \in Calls, BootInv, Invoke(c) PROVE BootInv'
  BY CallsAssumption DEF BootInv, TypeOK, PermitHeld, PluginInv, ReadyMeansRunning, Invoke, Goto, PollingEnabled

LEMMA FindPluginKeeps == ASSUME NEW c \in Calls, BootInv, FindPlugin(c) PROVE BootInv'
  BY CallsAssumption DEF BootInv, TypeOK, PermitHeld, PluginInv, ReadyMeansRunning, FindPlugin, Goto, PollingEnabled

(* The permit is free when a call takes it, so no other call is inside. *)
LEMMA LeadKeeps == ASSUME NEW c \in Calls, BootInv, Lead(c) PROVE BootInv'
  BY CallsAssumption DEF BootInv, TypeOK, PermitHeld, PluginInv, ReadyMeansRunning, Lead, Goto, PollingEnabled

LEMMA ReadConfigKeeps == ASSUME NEW c \in Calls, BootInv, ReadConfig(c) PROVE BootInv'
  BY CallsAssumption, SlicesAssumption
     DEF BootInv, TypeOK, PermitHeld, PluginInv, ReadyMeansRunning, ReadConfig, Fail, Goto, PollingEnabled

LEMMA BuildBrokerKeeps == ASSUME NEW c \in Calls, BootInv, BuildBroker(c) PROVE BootInv'
  BY CallsAssumption
     DEF BootInv, TypeOK, PermitHeld, PluginInv, ReadyMeansRunning, BuildBroker, Fail, Goto, PollingEnabled

LEMMA GetMeKeeps == ASSUME NEW c \in Calls, BootInv, GetMe(c) PROVE BootInv'
  BY CallsAssumption
     DEF BootInv, TypeOK, PermitHeld, PluginInv, ReadyMeansRunning, GetMe, Fail, Goto, PollingEnabled

LEMMA SpawnPollerKeeps == ASSUME NEW c \in Calls, BootInv, SpawnPoller(c) PROVE BootInv'
  BY CallsAssumption
     DEF BootInv, TypeOK, PermitHeld, PluginInv, ReadyMeansRunning, SpawnPoller, Goto, PollingEnabled

LEMMA SubscribeKeeps == ASSUME NEW c \in Calls, BootInv, Subscribe(c) PROVE BootInv'
  BY CallsAssumption
     DEF BootInv, TypeOK, PermitHeld, PluginInv, ReadyMeansRunning, Subscribe, Fail, Goto, PollingEnabled

LEMMA RunToolKeeps == ASSUME NEW c \in Calls, BootInv, RunTool(c) PROVE BootInv'
  BY CallsAssumption DEF BootInv, TypeOK, PermitHeld, PluginInv, ReadyMeansRunning, RunTool, Goto, PollingEnabled

-----------------------------------------------------------------------------
(* The inductive invariant: one call at a time is inside the initialiser,   *)
(* and what it has started belongs to the plugin it will put in the cell.   *)
THEOREM BootInvariant == Spec => []BootInv
<1>1. BootInv /\ [Next]_vars => BootInv'
  <2> SUFFICES ASSUME BootInv, [Next]_vars PROVE BootInv'
    OBVIOUS
  <2>1. CASE Configure
    BY <2>1, ConfigureKeeps
  <2>2. CASE UNCHANGED vars
    BY <2>2, StutterKeeps
  <2>3. ASSUME NEW c \in Calls, Invoke(c) \/ Step(c) PROVE BootInv'
    BY <2>3, InvokeKeeps, FindPluginKeeps, LeadKeeps, ReadConfigKeeps, BuildBrokerKeeps, GetMeKeeps,
       SpawnPollerKeeps, SubscribeKeeps, RunToolKeeps DEF Step
  <2> QED
    BY <2>1, <2>2, <2>3 DEF Next
<1> QED
  BY InitEstablishes, <1>1, PTL DEF Spec

(* A plugin that tool calls can reach has its dispatcher, and polls exactly *)
(* when its configuration says so, however many starts failed before.       *)
THEOREM ReadyPluginsRun == Spec => []ReadyMeansRunning
<1>1. BootInv => ReadyMeansRunning
  BY DEF BootInv
<1> QED
  BY <1>1, BootInvariant, PTL

(* The outbound topic has one consumer in the process: a dispatcher belongs *)
(* to the plugin in the cell, and the cell is filled once.                  *)
THEOREM OneConsumer == Spec => []OneDispatcher
<1>1. BootInv => OneDispatcher
  BY DEF BootInv, TypeOK, PluginInv, OneDispatcher
<1> QED
  BY <1>1, BootInvariant, PTL

(* All tool calls that reach a plugin reach the same one. *)
THEOREM OnePluginForAllCalls == Spec => []CallsAgree
<1>1. BootInv => CallsAgree
  BY DEF BootInv, PluginInv, CallsAgree
<1> QED
  BY <1>1, BootInvariant, PTL

(* The plugin in the cell stays there: get_or_try_init fills it once. *)
THEOREM CellIsFilledOnce == Spec => [][cell # None => cell' = cell]_vars
<1>1. BootInv /\ [Next]_vars => [cell # None => cell' = cell]_vars
  BY DEF BootInv, PermitHeld, Next, vars, Step, Configure, Invoke, FindPlugin, Lead, ReadConfig, BuildBroker,
         GetMe, SpawnPoller, Subscribe, RunTool
<1> QED
  BY <1>1, BootInvariant, PTL DEF Spec

-----------------------------------------------------------------------------
(* The request handlers: every step is a step of PluginBoot or leaves its    *)
(* variables alone, so what is proved above holds beside them.              *)
LEMMA RequestStepIsBootStep == [RequestNext]_allVars => [Next]_vars
<1>1. CASE Deliver
  BY <1>1 DEF Deliver, Next
<1>2. ASSUME NEW c \in Calls, Call(c) \/ Boot(c) PROVE Next
  BY <1>2 DEF Call, Boot, Next
<1>3. ASSUME NEW t \in Topics, Serve(t) PROVE UNCHANGED vars
  BY <1>3 DEF Serve, SubscribeTopic, Take, Handle, Reply
<1>4. ASSUME NEW r \in Requests, Ask(r) PROVE UNCHANGED vars
  BY <1>4 DEF Ask
<1>5. CASE UNCHANGED allVars
  BY <1>5 DEF allVars
<1> QED
  BY <1>1, <1>2, <1>3, <1>4, <1>5 DEF RequestNext

THEOREM RequestsKeepTheBoot == RequestSpec => Spec
<1>1. RequestInit => Init
  BY DEF RequestInit
<1> QED
  BY <1>1, RequestStepIsBootStep, PTL DEF RequestSpec, Spec

(* What a plugin read is the configuration of its moment, and it is still    *)
(* the delivered one unless a delivery came since.                          *)
ReadInv(c) ==
    /\ readAt[c] \in Nat
    /\ pc[c] \in {"new", "waiting", "config"} => cfg[c] = None
    /\ cfg[c] # None =>
        /\ readAt[c] <= configures
        /\ readAt[c] = configures =>
            /\ configured # <<>>
            /\ cfg[c] = IF configured = None THEN Env ELSE Head(configured)

RequestInv ==
    /\ readAt \in [Calls -> Nat]
    /\ \A c \in Calls : ReadInv(c)
    /\ cell # None => cfg[cell] # None
    /\ UnheardSendsHaveACause

LEMMA ReadInvHolds ==
  ASSUME RequestInv, BootInv, [RequestNext]_allVars
  PROVE  /\ readAt' \in [Calls -> Nat]
         /\ \A c \in Calls : ReadInv(c)'
         /\ (cell # None => cfg[cell] # None)'
<1> USE EnvAssumption, SlicesAssumption, CallsAssumption
<1>1. CASE Deliver
  BY <1>1 DEF RequestInv, ReadInv, BootInv, TypeOK, Deliver, Configure, Beside
<1>2. ASSUME NEW c \in Calls, Call(c)
      PROVE  /\ readAt' \in [Calls -> Nat]
             /\ \A d \in Calls : ReadInv(d)'
             /\ (cell # None => cfg[cell] # None)'
  BY <1>2 DEF RequestInv, ReadInv, BootInv, TypeOK, Call, Invoke, Goto, Beside
<1>3. ASSUME NEW c \in Calls, Boot(c)
      PROVE  /\ readAt' \in [Calls -> Nat]
             /\ \A d \in Calls : ReadInv(d)'
             /\ (cell # None => cfg[cell] # None)'
  <2> USE <1>3 DEF Boot, Beside
  <2>1. CASE FindPlugin(c)
    BY <2>1 DEF RequestInv, ReadInv, BootInv, TypeOK, FindPlugin, Goto
  <2>2. CASE Lead(c)
    BY <2>2 DEF RequestInv, ReadInv, BootInv, TypeOK, Lead, Goto
  <2>3. CASE ReadConfig(c)
    BY <2>3 DEF RequestInv, ReadInv, BootInv, TypeOK, ReadConfig, Fail, Goto
  <2>4. CASE BuildBroker(c) \/ GetMe(c)
    BY <2>4 DEF RequestInv, ReadInv, BootInv, TypeOK, BuildBroker, GetMe, Fail, Goto
  <2>5. CASE SpawnPoller(c)
    BY <2>5 DEF RequestInv, ReadInv, BootInv, TypeOK, SpawnPoller, Goto
  <2>6. CASE Subscribe(c)
    BY <2>6 DEF RequestInv, ReadInv, BootInv, TypeOK, PluginInv, Subscribe, Fail, Goto
  <2>7. CASE RunTool(c)
    BY <2>7 DEF RequestInv, ReadInv, BootInv, TypeOK, RunTool, Goto
  <2> QED
    BY <2>1, <2>2, <2>3, <2>4, <2>5, <2>6, <2>7 DEF Step
<1>4. CASE UNCHANGED <<vars, readAt>>
  BY <1>4 DEF RequestInv, ReadInv, vars
<1>5. ASSUME NEW t \in Topics, Serve(t) PROVE UNCHANGED <<vars, readAt>>
  BY <1>5 DEF Serve, SubscribeTopic, Take, Handle, Reply
<1>6. ASSUME NEW r \in Requests, Ask(r) PROVE UNCHANGED <<vars, readAt>>
  BY <1>6 DEF Ask
<1>7. UNCHANGED allVars => UNCHANGED <<vars, readAt>>
  BY DEF allVars, requestVars
<1> QED
  BY <1>1, <1>2, <1>3, <1>4, <1>5, <1>6, <1>7 DEF RequestNext

(* An event is heard by the dispatchers of its account, and the only one    *)
(* there can be is that of the plugin in the cell.                          *)
LEMMA EventsAreHeard ==
  ASSUME RequestInv, BootInv, NEW t \in Topics
  PROVE  Event(t).hearers <= 1 /\ (Event(t).expected => Event(t).hearers = 1)
<1> DEFINE account == AccountOf[hand[t][1]]
           expected == Ready /\ ~Behind /\ Serves(account)
<1>1. Event(t) = [attempt |-> hand[t], hearers |-> Cardinality(Hearers(account)),
                  expected |-> expected]
  BY DEF Event
<1>2. Hearers(account) \subseteq {cell}
  BY DEF Hearers, BootInv, TypeOK, PluginInv
<1>3. Hearers(account) = {} \/ Hearers(account) = {cell}
  BY <1>2
<1>4. Cardinality({}) = 0 /\ Cardinality({cell}) = 1
  BY FS_EmptySet, FS_Singleton
<1>5. Cardinality(Hearers(account)) <= 1
  BY <1>3, <1>4
<1>6. ASSUME Ready, ~Behind, Serves(account) PROVE cell \in Hearers(account)
  <2>1. cell \in Calls /\ cell \in dispatchers /\ configures \in Nat
    BY <1>6, EnvAssumption DEF Ready, BootInv, TypeOK, ReadyMeansRunning
  <2>2. readAt[cell] = configures
    BY <1>6, <2>1 DEF Ready, Behind, RequestInv, ReadInv
  <2>3. cfg[cell] = IF configured = None THEN Env ELSE Head(configured)
    BY <1>6, <2>1, <2>2 DEF Ready, RequestInv, ReadInv
  <2>4. account = InstanceOf[cfg[cell]]
    BY <1>6, <2>3 DEF Serves
  <2> QED
    BY <2>1, <2>4 DEF Hearers
<1>7. expected => Cardinality(Hearers(account)) = 1
  BY <1>3, <1>4, <1>6
<1> HIDE DEF account, expected
<1>8. Event(t).hearers = Cardinality(Hearers(account))
  BY <1>1
<1>9. Event(t).expected = expected
  BY <1>1
<1> QED
  BY <1>5, <1>7, <1>8, <1>9

LEMMA EventsKeepTheirCause ==
  ASSUME RequestInv, BootInv, [RequestNext]_allVars
  PROVE  UnheardSendsHaveACause'
<1>1. ASSUME NEW t \in Topics, Handle(t) PROVE UnheardSendsHaveACause'
  <2>1. events' = events \/ events' = events \cup {Event(t)}
    BY <1>1 DEF Handle
  <2> QED
    BY <2>1, EventsAreHeard DEF RequestInv, UnheardSendsHaveACause
<1>2. CASE UNCHANGED events
  BY <1>2 DEF RequestInv, UnheardSendsHaveACause
<1>3. Deliver \/ (\E c \in Calls : Call(c) \/ Boot(c)) => UNCHANGED events
  BY DEF Deliver, Call, Boot, Beside, daemonVars
<1>4. ASSUME NEW t \in Topics, SubscribeTopic(t) \/ Take(t) \/ Reply(t) PROVE UNCHANGED events
  BY <1>4 DEF SubscribeTopic, Take, Reply, daemonVars
<1>5. ASSUME NEW r \in Requests, Ask(r) PROVE UNCHANGED events
  BY <1>5 DEF Ask
<1>6. UNCHANGED allVars => UNCHANGED events
  BY DEF allVars, requestVars, daemonVars
<1> QED
  BY <1>1, <1>2, <1>3, <1>4, <1>5, <1>6 DEF RequestNext, Serve

(* What the requests add to the invariant of the boot: the configuration a  *)
(* plugin read, by the delivery it saw, and who hears the events.           *)
THEOREM RequestInvariant == RequestSpec => [](BootInv /\ RequestInv)
<1>1. RequestInit => RequestInv
  BY DEF RequestInit, Init, RequestInv, ReadInv, UnheardSendsHaveACause
<1>2. RequestInv /\ BootInv /\ [RequestNext]_allVars => RequestInv'
  BY ReadInvHolds, EventsKeepTheirCause DEF RequestInv
<1> QED
  BY <1>1, <1>2, RequestsKeepTheBoot, BootInvariant, PTL DEF RequestSpec

(* A pairing message whose publication the daemon is told of is heard by     *)
(* exactly one bot, unless no bot runs yet, the bot has not seen the last    *)
(* configuration, or its account is in no configuration.                    *)
THEOREM PairingSendsAreHeardOnce == RequestSpec => []UnheardSendsHaveACause
<1>1. RequestInv => UnheardSendsHaveACause
  BY DEF RequestInv
<1> QED
  BY <1>1, RequestInvariant, PTL

(* An account resolves to a configuration of that account, and the first of *)
(* an array is the one its instance resolves to.                            *)
LEMMA ResolvesToItsOwn ==
  ASSUME configured \in Seq(Slices), NEW account \in Listed
  PROVE  /\ Resolved(account) \in Slices /\ InstanceOf[Resolved(account)] = account
         /\ configured # <<>> /\ account = InstanceOf[Head(configured)] => Resolved(account) = Head(configured)
<1> DEFINE found == CHOOSE i \in DOMAIN configured : FoundAt(i, account)
<1>1. PICK n \in DOMAIN configured : InstanceOf[configured[n]] = account
  BY DEF Listed
<1>2. \E i \in DOMAIN configured : FoundAt(i, account)
  <2> DEFINE matches == {i \in DOMAIN configured : InstanceOf[configured[i]] = account}
             Less == OpToRel(<, Nat)
  <2>1. DOMAIN configured \subseteq Nat /\ \A i \in DOMAIN configured : 1 .. i - 1 \subseteq DOMAIN configured
    OBVIOUS
  <2>2. matches \subseteq Nat /\ matches # {}
    BY <1>1, <2>1
  <2>4. IsWellFoundedOn(Less, Nat)
    BY NatLessThanWellFounded
  <2>5. \A i, j \in Nat : i < j => <<i, j>> \in Less
    BY DEF OpToRel
  <2> HIDE DEF matches, Less
  <2>6. PICK i \in matches : \A j \in matches : <<j, i>> \notin Less
    BY <2>2, <2>4, WFMin
  <2>3. ASSUME NEW j \in 1 .. i - 1 PROVE InstanceOf[configured[j]] # account
    <3>1. i \in DOMAIN configured /\ i \in Nat
      BY <2>2 DEF matches
    <3>2. j \in DOMAIN configured /\ j \in Nat /\ j < i
      BY <2>1, <3>1
    <3>3. j \notin matches
      BY <2>5, <2>6, <3>1, <3>2
    <3> QED
      BY <3>2, <3>3 DEF matches
  <2> QED
    BY <2>3, <2>6 DEF FoundAt, matches
<1>3. found \in DOMAIN configured /\ FoundAt(found, account)
  BY <1>2
<1>4. Resolved(account) = configured[found]
  BY DEF Resolved
<1>5. configured # <<>> /\ account = InstanceOf[Head(configured)] => found = 1
  <2> SUFFICES ASSUME configured # <<>>, account = InstanceOf[Head(configured)], found # 1 PROVE FALSE
    OBVIOUS
  <2> HIDE DEF found
  <2>1. 1 \in 1 .. found - 1 /\ configured[1] = Head(configured)
    BY <1>3
  <2> QED
    BY <1>3, <2>1 DEF FoundAt
<1> HIDE DEF found
<1> QED
  BY <1>3, <1>4, <1>5 DEF FoundAt

(* The credentials of the running bot are resolved under its instance and    *)
(* no other account, and under none when it has no instance, unless a        *)
(* configuration came after the bot read its own.                           *)
THEOREM ResolvedCredentialsAreTheBots == RequestSpec => []CredentialsMatchTheBot
<1>1. ASSUME BootInv, RequestInv PROVE CredentialsMatchTheBot
  <2> SUFFICES ASSUME Ready, configured # None, ~Behind
               PROVE  {account \in Listed \cup {NoInstance} : Resolved(account) = cfg[cell]}
                          = {InstanceOf[cfg[cell]]} \ {NoInstance}
    BY DEF CredentialsMatchTheBot
  <2>1. cell \in Calls /\ configures \in Nat /\ configured \in Deliveries
    BY <1>1, EnvAssumption DEF Ready, BootInv, TypeOK
  <2>2. readAt[cell] = configures
    BY <1>1, <2>1 DEF Ready, Behind, RequestInv, ReadInv
  <2>3. cfg[cell] = Head(configured) /\ configured # <<>>
    BY <1>1, <2>1, <2>2 DEF Ready, RequestInv, ReadInv
  <2>4. configured \in Seq(Slices) /\ None \notin Slices
    BY <2>1, SlicesAssumption
  <2>5. cfg[cell] \in Slices /\ cfg[cell] # None
    BY <2>3, <2>4
  <2>6. Resolved(NoInstance) = None
    BY DEF Resolved, Listed
  <2>7. \A account \in Listed : account # NoInstance
    BY DEF Listed
  <2>8. InstanceOf[cfg[cell]] # NoInstance => InstanceOf[cfg[cell]] \in Listed
    <3>1. 1 \in DOMAIN configured /\ configured[1] = cfg[cell]
      BY <2>3, <2>4
    <3> QED
      BY <3>1 DEF Listed
  <2>9. \A account \in Listed : Resolved(account) = cfg[cell] <=> account = InstanceOf[cfg[cell]]
    BY <2>3, <2>4, ResolvesToItsOwn
  <2> QED
    BY <2>5, <2>6, <2>7, <2>8, <2>9
<1> QED
  BY <1>1, RequestInvariant, PTL

-----------------------------------------------------------------------------
(* The order of answers: what a topic has answered, has in hand and has in    *)
(* its queue are the attempts of each request in the order of asking.        *)
Attempts == Requests \X Nat
Answers == [attempt : Attempts, answer : {"ok", "error"}]
Before(a, b) == a[1] = b[1] => a[2] < b[2]
Asked(a, numbers) == a[2] <= numbers[a[1]]

QueueInOrder(t) ==
    /\ \A i \in DOMAIN queue[t] : Asked(queue[t][i], attempts)
    /\ \A i, j \in DOMAIN queue[t] : i < j => Before(queue[t][i], queue[t][j])
HandInOrder(t) ==
    hand[t] # None => Asked(hand[t], attempts) /\ \A i \in DOMAIN queue[t] : Before(hand[t], queue[t][i])
RepliesInOrder(t) ==
    /\ \A i \in DOMAIN replies[t] : LET a == replies[t][i].attempt IN
          /\ Asked(a, attempts)
          /\ \A j \in DOMAIN queue[t] : Before(a, queue[t][j])
          /\ hand[t] # None => Before(a, hand[t])
    /\ \A i, j \in DOMAIN replies[t] : i < j => Before(replies[t][i].attempt, replies[t][j].attempt)

OrderType ==
    /\ attempts \in [Requests -> Nat]
    /\ queue \in [Topics -> Seq(Attempts)]
    /\ hand \in [Topics -> Attempts \cup {None}]
    /\ answer \in [Topics -> {"none", "ok", "error"}]
    /\ replies \in [Topics -> Seq(Answers)]
    /\ \A t \in Topics : answer[t] # "none" => hand[t] # None

OrderInv ==
    /\ OrderType
    /\ \A t \in Topics : QueueInOrder(t) /\ HandInOrder(t) /\ RepliesInOrder(t)

LEMMA OrderInit == RequestInit => OrderInv
<1> SUFFICES ASSUME RequestInit PROVE OrderInv
  OBVIOUS
<1>1. OrderType
  BY DEF RequestInit, OrderType
<1>2. \A t \in Topics : QueueInOrder(t) /\ HandInOrder(t) /\ RepliesInOrder(t)
  BY DEF RequestInit, QueueInOrder, HandInOrder, RepliesInOrder
<1> QED
  BY <1>1, <1>2 DEF OrderInv

(* A new attempt has the highest number of its request. *)
LEMMA AskKeepsOrder == ASSUME OrderInv, NEW r \in Requests, Ask(r) PROVE OrderInv'
<1> DEFINE new == <<r, attempts[r] + 1>>
<1>a. attempts \in [Requests -> Nat] /\ attempts' = [attempts EXCEPT ![r] = attempts[r] + 1]
  BY DEF Ask, OrderInv, OrderType
<1>b. attempts[r] \in Nat /\ attempts' \in [Requests -> Nat] /\ attempts'[r] = attempts[r] + 1
  BY <1>a
<1>1. new \in Attempts /\ new[1] = r /\ new[2] = attempts[r] + 1
  BY <1>b DEF Attempts
<1>c. TopicOf[r] \in Topics
  BY RequestsAssumption
<1>d. queue \in [Topics -> Seq(Attempts)]
      /\ (queue' = [queue EXCEPT ![TopicOf[r]] = Append(queue[TopicOf[r]], new)] \/ queue' = queue)
  BY DEF Ask, OrderInv, OrderType
<1>2. UNCHANGED <<hand, answer, replies>>
  BY DEF Ask
<1>3. \A q \in Requests : attempts[q] <= attempts'[q] /\ attempts[q] \in Nat /\ attempts'[q] \in Nat
  BY <1>a
<1>4. \A a \in Attempts : Asked(a, attempts) => Asked(a, attempts')
  BY <1>3 DEF Attempts, Asked
<1>5. \A a \in Attempts : Asked(a, attempts) => Before(a, new)
  BY <1>3 DEF Attempts, Asked, Before
<1>6. Asked(new, attempts')
  BY <1>1, <1>b DEF Asked
<1>7. OrderType'
  <2>1. queue' \in [Topics -> Seq(Attempts)]
    <3> HIDE DEF new
    <3>1. \A t \in Topics : Append(queue[t], new) \in Seq(Attempts)
      BY <1>1, <1>d
    <3> QED
      BY <3>1, <1>c, <1>d
  <2> QED
    BY <1>b, <1>2, <2>1 DEF OrderInv, OrderType
<1>8. ASSUME NEW t \in Topics PROVE (QueueInOrder(t) /\ HandInOrder(t) /\ RepliesInOrder(t))'
  <2>1. QueueInOrder(t) /\ HandInOrder(t) /\ RepliesInOrder(t) /\ queue[t] \in Seq(Attempts)
        /\ hand[t] \in Attempts \cup {None}
        /\ replies[t] \in Seq(Answers)
    BY DEF OrderInv, OrderType
  <2> HIDE DEF new
  <2>2. CASE queue'[t] = queue[t]
    <3>1. \A i \in DOMAIN queue[t] : queue[t][i] \in Attempts
      BY <2>1
    <3>2. \A i \in DOMAIN replies[t] : replies[t][i].attempt \in Attempts
      <4>1. \A i \in DOMAIN replies[t] : replies[t][i] \in Answers
        BY <2>1
      <4> QED
        BY <4>1 DEF Answers
    <3>3. QueueInOrder(t)'
      BY <3>1, <2>1, <2>2, <1>4 DEF QueueInOrder
    <3>4. HandInOrder(t)'
      BY <2>1, <2>2, <1>2, <1>4 DEF HandInOrder
    <3>5. RepliesInOrder(t)'
      BY <3>2, <2>1, <2>2, <1>2, <1>4 DEF RepliesInOrder
    <3> QED
      BY <3>3, <3>4, <3>5
  <2>3. CASE queue'[t] = Append(queue[t], new)
    <3>1. \A i \in DOMAIN queue'[t] :
             \/ i \in DOMAIN queue[t] /\ queue'[t][i] = queue[t][i]
             \/ i = Len(queue[t]) + 1 /\ queue'[t][i] = new
      BY <1>1, <2>1, <2>3
    <3>2. \A i \in DOMAIN queue[t] : queue[t][i] \in Attempts /\ i <= Len(queue[t]) /\ i \in Nat
      BY <2>1
    <3>3. QueueInOrder(t)'
      BY <3>1, <3>2, <2>1, <1>4, <1>5, <1>6 DEF QueueInOrder
    <3>4. HandInOrder(t)'
      BY <3>1, <3>2, <2>1, <1>2, <1>4, <1>5 DEF HandInOrder
    <3>5. \A i \in DOMAIN replies[t] : replies[t][i].attempt \in Attempts
      <4>1. \A i \in DOMAIN replies[t] : replies[t][i] \in Answers
        BY <2>1
      <4> QED
        BY <4>1 DEF Answers
    <3>6. RepliesInOrder(t)'
      BY <3>1, <3>5, <2>1, <1>2, <1>4, <1>5 DEF RepliesInOrder
    <3> QED
      BY <3>3, <3>4, <3>6
  <2>4. queue'[t] = queue[t] \/ queue'[t] = Append(queue[t], new)
    BY <1>c, <1>d
  <2> QED
    BY <2>2, <2>3, <2>4
<1> QED
  BY <1>7, <1>8 DEF OrderInv

LEMMA TakeKeepsOrder == ASSUME OrderInv, NEW u \in Topics, Take(u) PROVE OrderInv'
<1>1. UNCHANGED <<answer, attempts, replies>>
  BY DEF Take, daemonVars
<1>2. hand' = [hand EXCEPT ![u] = Head(queue[u])] /\ queue' = [queue EXCEPT ![u] = Tail(queue[u])]
      /\ hand[u] = None /\ queue[u] # <<>> /\ queue[u] \in Seq(Attempts)
  BY DEF Take, OrderInv, OrderType
<1>3. /\ Head(queue[u]) = queue[u][1] /\ 1 \in DOMAIN queue[u] /\ queue[u][1] \in Attempts
      /\ Tail(queue[u]) \in Seq(Attempts)
      /\ \A i \in DOMAIN Tail(queue[u]) : i + 1 \in DOMAIN queue[u] /\ Tail(queue[u])[i] = queue[u][i + 1] /\ i \in Nat /\ i >= 1
  BY <1>2
<1>4. OrderType'
  BY <1>1, <1>2, <1>3 DEF OrderInv, OrderType
<1>5. ASSUME NEW t \in Topics PROVE (QueueInOrder(t) /\ HandInOrder(t) /\ RepliesInOrder(t))'
  <2>1. QueueInOrder(t) /\ HandInOrder(t) /\ RepliesInOrder(t)
    BY DEF OrderInv
  <2>2. CASE t = u
    <3>1. hand'[t] = queue[t][1] /\ queue'[t] = Tail(queue[t])
      BY <1>2, <1>3, <2>2 DEF OrderInv, OrderType
    <3>2. QueueInOrder(t)'
      <4>1. \A i \in DOMAIN queue'[t] :
               i \in Nat /\ i + 1 \in DOMAIN queue[t] /\ queue'[t][i] = queue[t][i + 1]
        BY <3>1, <2>2, <1>3
      <4>2. \A i \in DOMAIN queue'[t] : Asked(queue'[t][i], attempts')
        BY <4>1, <2>1, <1>1 DEF QueueInOrder
      <4>3. ASSUME NEW i \in DOMAIN queue'[t], NEW j \in DOMAIN queue'[t], i < j
            PROVE  Before(queue'[t][i], queue'[t][j])
        <5>1. i + 1 < j + 1
          BY <4>1, <4>3
        <5> QED
          BY <5>1, <4>1, <2>1 DEF QueueInOrder
      <4> QED
        BY <4>2, <4>3 DEF QueueInOrder
    <3>3. HandInOrder(t)'
      BY <3>1, <2>1, <2>2, <1>1, <1>3 DEF QueueInOrder, HandInOrder, Asked
    <3>4. RepliesInOrder(t)'
      BY <3>1, <2>1, <2>2, <1>1, <1>3 DEF RepliesInOrder, Asked
    <3> QED
      BY <3>2, <3>3, <3>4
  <2>3. CASE t # u
    <3>1. hand'[t] = hand[t] /\ queue'[t] = queue[t]
      BY <1>2, <2>3 DEF OrderInv, OrderType
    <3> QED
      BY <3>1, <2>1, <1>1 DEF QueueInOrder, HandInOrder, RepliesInOrder, Asked
  <2> QED
    BY <2>2, <2>3
<1> QED
  BY <1>4, <1>5 DEF OrderInv

LEMMA ReplyKeepsOrder == ASSUME OrderInv, NEW u \in Topics, Reply(u) PROVE OrderInv'
<1> DEFINE told == [attempt |-> hand[u], answer |-> answer[u]]
<1>1. UNCHANGED <<queue, attempts>> /\ hand' = [hand EXCEPT ![u] = None] /\ answer' = [answer EXCEPT ![u] = "none"]
      /\ hand[u] # None /\ hand[u] \in Attempts /\ answer[u] \in {"ok", "error"}
  BY DEF Reply, Answered, OrderInv, OrderType
<1>2. told \in Answers /\ told.attempt = hand[u]
  BY <1>1 DEF Answers
<1> HIDE DEF told
<1>3. replies' = replies \/ replies' = [replies EXCEPT ![u] = Append(replies[u], told)]
  BY DEF Reply, told
<1>4. OrderType'
  <2>1. replies \in [Topics -> Seq(Answers)]
    BY DEF OrderInv, OrderType
  <2>2. \A t \in Topics : Append(replies[t], told) \in Seq(Answers)
    BY <2>1, <1>2
  <2>3. replies' \in [Topics -> Seq(Answers)]
    BY <2>1, <2>2, <1>3
  <2> QED
    BY <2>3, <1>1 DEF OrderInv, OrderType
<1>5. ASSUME NEW t \in Topics PROVE (QueueInOrder(t) /\ HandInOrder(t) /\ RepliesInOrder(t))'
  <2>1. QueueInOrder(t) /\ HandInOrder(t) /\ RepliesInOrder(t)
        /\ replies[t] \in Seq(Answers)
    BY DEF OrderInv, OrderType
  <2>2. QueueInOrder(t)'
    BY <2>1, <1>1 DEF QueueInOrder, Asked
  <2>3. hand'[t] = None \/ hand'[t] = hand[t]
    BY <1>1 DEF OrderInv, OrderType
  <2>4. HandInOrder(t)'
    BY <2>1, <2>3, <1>1 DEF HandInOrder, Asked
  <2>5. CASE replies'[t] = replies[t]
    BY <2>1, <2>2, <2>3, <2>4, <2>5, <1>1 DEF RepliesInOrder, Asked
  <2>6. CASE t = u /\ replies'[t] = Append(replies[t], told)
    <3>1. \A i \in DOMAIN replies'[t] :
             \/ i \in DOMAIN replies[t] /\ replies'[t][i] = replies[t][i]
             \/ i = Len(replies[t]) + 1 /\ replies'[t][i] = told
      BY <2>1, <2>6, <1>2
    <3>2. \A i \in DOMAIN replies[t] : i \in Nat /\ i <= Len(replies[t])
      BY <2>1
    <3>3. hand'[t] = None
      BY <2>6, <1>1 DEF OrderInv, OrderType
    <3>4. Asked(hand[t], attempts') /\ \A i \in DOMAIN queue'[t] : Before(hand[t], queue'[t][i])
      BY <2>1, <2>6, <1>1 DEF HandInOrder, Asked
    <3>5. \A i \in DOMAIN replies[t] : Asked(replies[t][i].attempt, attempts') /\ Before(replies[t][i].attempt, hand[t])
             /\ \A j \in DOMAIN queue'[t] : Before(replies[t][i].attempt, queue'[t][j])
      BY <2>1, <2>6, <1>1 DEF RepliesInOrder, Asked
    <3>6. RepliesInOrder(t)'
      BY <3>1, <3>2, <3>3, <3>4, <3>5, <2>1, <2>6, <1>1, <1>2 DEF RepliesInOrder, Asked
    <3> QED
      BY <2>2, <2>4, <3>6
  <2>7. replies'[t] = replies[t] \/ (t = u /\ replies'[t] = Append(replies[t], told))
    BY <1>3 DEF OrderInv, OrderType
  <2> QED
    BY <2>5, <2>6, <2>7
<1> QED
  BY <1>4, <1>5 DEF OrderInv

(* Handling a request changes only its answer; the boot none of this. *)
LEMMA OthersKeepOrder ==
  ASSUME OrderInv, UNCHANGED <<queue, hand, attempts, replies>>,
         \/ UNCHANGED answer
         \/ \E t \in Topics, word \in {"ok", "error"} : hand[t] # None /\ Answered(t, word)
  PROVE  OrderInv'
<1>1. OrderType'
  BY DEF OrderInv, OrderType, Answered
<1> QED
  BY <1>1 DEF OrderInv, QueueInOrder, HandInOrder, RepliesInOrder, Asked

THEOREM OrderInvariant == RequestSpec => []OrderInv
<1>1. OrderInv /\ [RequestNext]_allVars => OrderInv'
  <2> SUFFICES ASSUME OrderInv, [RequestNext]_allVars PROVE OrderInv'
    OBVIOUS
  <2>1. ASSUME NEW r \in Requests, Ask(r) PROVE OrderInv'
    BY <2>1, AskKeepsOrder
  <2>2. ASSUME NEW t \in Topics, Serve(t) PROVE OrderInv'
    <3>1. CASE Take(t)
      BY <3>1, TakeKeepsOrder
    <3>2. CASE Reply(t)
      BY <3>2, ReplyKeepsOrder
    <3>3. CASE Handle(t)
      <4>1. UNCHANGED <<queue, hand, attempts, replies>> /\ hand[t] # None
        BY <3>3 DEF Handle
      <4>2. \E word \in {"ok", "error"} : Answered(t, word)
        BY <3>3 DEF Handle
      <4> QED
        BY <4>1, <4>2, OthersKeepOrder
    <3>4. CASE SubscribeTopic(t)
      BY <3>4, OthersKeepOrder DEF SubscribeTopic, daemonVars
    <3> QED
      BY <2>2, <3>1, <3>2, <3>3, <3>4 DEF Serve
  <2>3. CASE Deliver \/ \E c \in Calls : Call(c) \/ Boot(c)
    BY <2>3, OthersKeepOrder DEF Deliver, Call, Boot, Beside, serverVars, daemonVars
  <2>4. CASE UNCHANGED allVars
    BY <2>4, OthersKeepOrder DEF allVars, requestVars, serverVars, daemonVars
  <2> QED
    BY <2>1, <2>2, <2>3, <2>4 DEF RequestNext
<1> QED
  BY OrderInit, <1>1, PTL DEF RequestSpec

(* The daemon never gets the late answer of an attempt after that of a later *)
(* one, however often it asks and whatever fails.                           *)
THEOREM AnswersStayInOrder == RequestSpec => []AnswersInOrder
<1>1. OrderInv => AnswersInOrder
  BY DEF OrderInv, RepliesInOrder, Before, AnswersInOrder
<1> QED
  BY <1>1, OrderInvariant, PTL
=============================================================================
