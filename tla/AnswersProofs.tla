--------------------------- MODULE AnswersProofs ---------------------------
(***************************************************************************)
(* AnswersAcrossRestarts implements UpdateCursor, so what is proved of the  *)
(* cursor holds of it.  Three invariants say the rest of conversations:     *)
(* RestartInv, of what is published, known and dropped; OnceInv, of where a *)
(* message is on its way to its one answer; and PairInv, of the chats in    *)
(* which no message lost its entry or its answer, where the entries are the *)
(* messages on their way.                                                   *)
(***************************************************************************)
EXTENDS AnswersAcrossRestarts, UpdateCursorProofs, SequenceTheorems

(* Every step is a step of the cursor or leaves it alone.                   *)
LEMMA StepIsACursorStep == [RestartNext]_allVars => [Next]_vars
<1> SUFFICES ASSUME [RestartNext]_allVars PROVE [Next]_vars
  OBVIOUS
<1>1. CASE UNCHANGED allVars
  BY <1>1 DEF allVars
<1>2. ASSUME NEW b \in Bots, Arrive(b) PROVE Next
  BY <1>2 DEF Next
<1>3. ASSUME NEW p \in Pollers, Polling(p) PROVE Next
  BY <1>3 DEF Polling, Next, Step
<1>4. ASSUME NEW p \in Pollers, StopDrains(p) PROVE Next
  BY <1>4 DEF StopDrains, Next
<1>5. ASSUME NEW p \in Pollers, PublishUpdate(p) PROVE Next
  BY <1>5 DEF PublishUpdate, Next, Step
<1>6. ASSUME NEW p \in Pollers, Register(p) \/ Dispatch(p) \/ \E u \in Updates : Expire(p, u)
      PROVE  UNCHANGED vars
  BY <1>6 DEF Register, Dispatch, TakeEvent, CheckEmpty, RemoveSession, HandOver, Expire
<1>7. ASSUME NEW b \in Bots, NEW c \in Chats, Turn(b, c) PROVE UNCHANGED vars
  BY <1>7 DEF Turn
<1> QED BY <1>1, <1>2, <1>3, <1>4, <1>5, <1>6, <1>7 DEF RestartNext

(* The conversations keep the offsets, the files and the order of updates    *)
(* exactly as the cursor alone does.                                        *)
THEOREM RestartsKeepTheCursor == RestartSpec => Spec
<1>1. RestartInit => Init
  BY DEF RestartInit
<1> QED BY <1>1, StepIsACursorStep, PTL DEF RestartSpec, Spec

-----------------------------------------------------------------------------
(* Facts about the elements of a sequence. *)

LEMMA MembersAppend ==
    ASSUME NEW s \in Seq(Updates), NEW u \in Updates
    PROVE  Members(Append(s, u)) \subseteq Members(s) \cup {u}
BY DEF Members

LEMMA MembersTail ==
    ASSUME NEW s \in Seq(Updates), s # <<>>
    PROVE  /\ Members(Tail(s)) \subseteq Members(s)
           /\ Head(s) \in Members(s) /\ Head(s) \in Updates
BY DEF Members

LEMMA MembersEmpty == Members(<<>>) = {}
BY DEF Members

(* A queue by its indices: with one element more, with one less.            *)
Increasing(q) == \A i, j \in DOMAIN q : i < j => q[i] < q[j]

LEMMA AppendIndices ==
    ASSUME NEW s \in Seq(Updates), NEW u \in Updates
    PROVE  /\ \A i \in DOMAIN s : i \in DOMAIN Append(s, u) /\ Append(s, u)[i] = s[i] /\ i < Len(s) + 1
           /\ \A i \in DOMAIN Append(s, u) : i \in DOMAIN s \/ i = Len(s) + 1
           /\ Len(s) + 1 \in DOMAIN Append(s, u) /\ Append(s, u)[Len(s) + 1] = u
           /\ Len(s) \in Nat /\ \A i \in DOMAIN Append(s, u) : i \in Nat /\ i <= Len(s) + 1
<1>1. Len(s) \in Nat /\ DOMAIN s = 1 .. Len(s) /\ DOMAIN Append(s, u) = 1 .. Len(s) + 1
  BY AppendProperties
<1> QED BY <1>1, AppendProperties

LEMMA TailIndices ==
    ASSUME NEW s \in Seq(Updates), s # <<>>
    PROVE  /\ 1 \in DOMAIN s /\ Head(s) = s[1] /\ Head(s) \in Updates /\ Tail(s) \in Seq(Updates)
           /\ \A i \in DOMAIN Tail(s) : i \in Nat /\ 1 < i + 1 /\ i + 1 \in DOMAIN s /\ Tail(s)[i] = s[i + 1]
           /\ \A i \in DOMAIN s : i = 1 \/ (i - 1 \in DOMAIN Tail(s) /\ Tail(s)[i - 1] = s[i])
<1>1. /\ Len(s) \in Nat \ {0} /\ DOMAIN s = 1 .. Len(s) /\ DOMAIN Tail(s) = 1 .. Len(s) - 1
      /\ Head(s) = s[1] /\ Head(s) \in Updates /\ Tail(s) \in Seq(Updates)
      /\ \A i \in 1 .. Len(s) - 1 : Tail(s)[i] = s[i + 1]
  BY HeadTailProperties
<1>2. ASSUME NEW i \in 1 .. Len(s), i # 1 PROVE i - 1 \in 1 .. Len(s) - 1 /\ Tail(s)[i - 1] = s[i]
  <2>1. i - 1 \in 1 .. Len(s) - 1 /\ (i - 1) + 1 = i
    BY <1>1, <1>2
  <2> QED BY <1>1, <2>1
<1> QED BY <1>1, <1>2

LEMMA RemoveAtElements ==
    ASSUME NEW q \in Seq(Updates), NEW k \in 1 .. Len(q)
    PROVE  /\ RemoveAt(q, k) \in Seq(Updates)
           /\ Len(RemoveAt(q, k)) = Len(q) - 1
           /\ \A i \in 1 .. Len(q) - 1 : RemoveAt(q, k)[i] = IF i < k THEN q[i] ELSE q[i + 1]
<1> DEFINE a == SubSeq(q, 1, k - 1)
           b == SubSeq(q, k + 1, Len(q))
<1>1. a \in Seq(Updates) /\ Len(a) = k - 1 /\ \A i \in 1 .. k - 1 : a[i] = q[i]
  BY SubSeqProperties
<1>2. b \in Seq(Updates) /\ Len(b) = Len(q) - k /\ \A i \in 1 .. Len(q) - k : b[i] = q[k + i]
  BY SubSeqProperties
<1>3. RemoveAt(q, k) = a \o b
  BY DEF RemoveAt
<1> HIDE DEF a, b
<1>4. /\ a \o b \in Seq(Updates) /\ Len(a \o b) = Len(a) + Len(b)
      /\ \A i \in 1 .. Len(a) + Len(b) :
            (a \o b)[i] = IF i <= Len(a) THEN a[i] ELSE b[i - Len(a)]
  BY <1>1, <1>2, ConcatProperties
<1>5. ASSUME NEW i \in 1 .. Len(q) - 1
      PROVE  (a \o b)[i] = IF i < k THEN q[i] ELSE q[i + 1]
  <2>1. CASE i < k
    BY <2>1, <1>1, <1>2, <1>4
  <2>2. CASE ~(i < k)
    <3> DEFINE n == i - Len(a)
    <3>1. n \in 1 .. Len(q) - k /\ k + n = i + 1
      BY <2>2, <1>1
    <3>2. (a \o b)[i] = b[n]
      BY <2>2, <1>1, <1>2, <1>4
    <3> HIDE DEF n
    <3>3. b[n] = q[k + n]
      BY <3>1, <1>2
    <3> QED
      BY <2>2, <3>1, <3>2, <3>3
  <2> QED BY <2>1, <2>2
<1>6. Len(a \o b) = Len(q) - 1
  <2>1. Len(a) + Len(b) = Len(q) - 1
    BY <1>1, <1>2
  <2> QED BY <1>4, <2>1
<1> QED
  <2> DEFINE s == a \o b
  <2>1. s \in Seq(Updates) /\ Len(s) = Len(q) - 1
    BY <1>4, <1>6
  <2>2. \A i \in 1 .. Len(q) - 1 : s[i] = IF i < k THEN q[i] ELSE q[i + 1]
    BY <1>5
  <2>3. RemoveAt(q, k) = s
    BY <1>3
  <2> HIDE DEF s
  <2> QED BY <2>1, <2>2, <2>3

(* A queue of updates without one of them.                                  *)
LEMMA WithoutProperties ==
    ASSUME NEW q \in Seq(Updates), NEW u \in Updates
    PROVE  /\ Without(q, u) \in Seq(Updates)
           /\ Members(Without(q, u)) \subseteq Members(q)
           /\ Increasing(q) => /\ Increasing(Without(q, u))
                               /\ Members(Without(q, u)) = Members(q) \ {u}
<1>1. CASE u \notin Members(q)
  BY <1>1 DEF Without
<1>2. CASE u \in Members(q)
  <2> DEFINE k == CHOOSE i \in DOMAIN q : q[i] = u
             r == RemoveAt(q, k)
  <2>1. k \in 1 .. Len(q) /\ q[k] = u
    BY <1>2 DEF Members
  <2>2. Without(q, u) = r
    BY <1>2 DEF Without
  <2> HIDE DEF k
  <2>3. /\ r \in Seq(Updates) /\ Len(r) = Len(q) - 1
        /\ \A i \in 1 .. Len(q) - 1 : r[i] = IF i < k THEN q[i] ELSE q[i + 1]
    BY <2>1, RemoveAtElements
  <2> HIDE DEF r
  <2>4. DOMAIN q = 1 .. Len(q) /\ DOMAIN r = 1 .. Len(q) - 1 /\ Len(q) \in Nat
    BY <2>3
  <2>5. Members(r) \subseteq Members(q)
    BY <2>1, <2>3, <2>4 DEF Members
  <2>6. ASSUME Increasing(q) PROVE Increasing(r) /\ Members(r) = Members(q) \ {u}
    <3>0. \A i \in DOMAIN q : q[i] \in Nat
      BY NAssumption DEF Updates
    <3>1. ASSUME NEW i \in DOMAIN r PROVE r[i] # u
      <4>1. CASE i < k
        <5>1. r[i] = q[i] /\ q[i] < q[k]
          BY <2>1, <2>3, <2>4, <2>6, <4>1 DEF Increasing
        <5> QED BY <2>1, <2>4, <3>0, <5>1
      <4>2. CASE ~(i < k)
        <5>1. r[i] = q[i + 1] /\ i + 1 \in DOMAIN q /\ k < i + 1
          BY <2>1, <2>3, <2>4, <4>2
        <5>2. q[k] < q[i + 1]
          BY <2>1, <2>6, <5>1 DEF Increasing
        <5> QED BY <2>1, <3>0, <5>1, <5>2
      <4> QED BY <4>1, <4>2
    <3>2. ASSUME NEW i \in DOMAIN r, NEW j \in DOMAIN r, i < j PROVE r[i] < r[j]
      <4> DEFINE I == IF i < k THEN i ELSE i + 1
                 J == IF j < k THEN j ELSE j + 1
      <4>1. I \in DOMAIN q /\ J \in DOMAIN q /\ I < J
        BY <2>1, <2>4, <3>2
      <4>2. r[i] = q[I] /\ r[j] = q[J]
        BY <2>1, <2>3, <2>4
      <4> HIDE DEF I, J
      <4> QED BY <2>6, <4>1, <4>2 DEF Increasing
    <3>3. ASSUME NEW j \in DOMAIN q, q[j] # u PROVE q[j] \in Members(r)
      <4>1. CASE j < k
        <5>1. j \in DOMAIN r /\ r[j] = q[j]
          BY <2>1, <2>3, <2>4, <4>1
        <5> QED BY <5>1 DEF Members
      <4>2. CASE k < j
        <5>1. j - 1 \in DOMAIN r /\ (j - 1) + 1 = j /\ ~(j - 1 < k)
          BY <2>1, <2>4, <4>2
        <5>2. r[j - 1] = q[j]
          BY <2>3, <2>4, <5>1
        <5> QED BY <5>1, <5>2 DEF Members
      <4> QED BY <2>1, <2>4, <3>3, <4>1, <4>2
    <3> QED BY <2>5, <3>1, <3>2, <3>3 DEF Increasing, Members
  <2> QED BY <2>2, <2>3, <2>5, <2>6
<1> QED BY <1>1, <1>2

LEMMA NestedUpdate ==
    ASSUME NEW f \in [Bots -> [Chats -> Seq(Updates)]], NEW b \in Bots, NEW c \in Chats,
           NEW s \in Seq(Updates)
    PROVE  [f EXCEPT ![b][c] = s] \in [Bots -> [Chats -> Seq(Updates)]]
OBVIOUS

LEMMA PendingUpdate ==
    ASSUME NEW f \in [Pollers -> [Chats -> Seq(Updates)]], NEW p \in Pollers, NEW c \in Chats,
           NEW s \in Seq(Updates)
    PROVE  [f EXCEPT ![p][c] = s] \in [Pollers -> [Chats -> Seq(Updates)]]
OBVIOUS

LEMMA OutboundUpdate ==
    ASSUME NEW f \in [Bots -> Seq(Updates)], NEW b \in Bots, NEW s \in Seq(Updates)
    PROVE  [f EXCEPT ![b] = s] \in [Bots -> Seq(Updates)]
OBVIOUS

LEMMA HistoryUpdate ==
    ASSUME NEW f \in [Bots -> SUBSET Updates], NEW b \in Bots, NEW s \in SUBSET Updates
    PROVE  [f EXCEPT ![b] = s] \in [Bots -> SUBSET Updates]
OBVIOUS

(* Nothing new waits for an answer when the queues only shrink.              *)
LEMMA WaitingShrinks ==
    ASSUME NEW b \in Bots, Carried(b)' \subseteq Waiting(b),
           Members(outbound'[b]) \subseteq Waiting(b),
           \A c \in Chats : Members(inbox'[b][c]) \subseteq Waiting(b)
    PROVE  Waiting(b)' \subseteq Waiting(b)
BY DEF Waiting

LEMMA WaitingHolds ==
    ASSUME NEW b \in Bots
    PROVE  /\ Members(outbound[b]) \subseteq Waiting(b) /\ Carried(b) \subseteq Waiting(b)
           /\ \A c \in Chats : Members(inbox[b][c]) \subseteq Waiting(b)
BY DEF Waiting

LEMMA WaitingGrowsBy ==
    ASSUME NEW b \in Bots, NEW u \in Updates, Carried(b)' \subseteq Waiting(b) \cup {u},
           Members(outbound'[b]) \subseteq Waiting(b) \cup {u},
           \A c \in Chats : Members(inbox'[b][c]) \subseteq Waiting(b) \cup {u}
    PROVE  Waiting(b)' \subseteq Waiting(b) \cup {u}
BY DEF Waiting

(* What is carried, when one dispatcher takes or leaves an event.            *)
LEMMA CarriedSame ==
    ASSUME NEW b \in Bots, UNCHANGED carried
    PROVE  Carried(b)' = Carried(b)
BY DEF Carried

LEMMA CarriedChanges ==
    ASSUME carried \in [Pollers -> Updates \cup {0}], NEW p \in Pollers, NEW u \in Updates \cup {0},
           carried' = [carried EXCEPT ![p] = u], NEW b \in Bots
    PROVE  /\ Carried(b)' \subseteq Carried(b) \cup ({u} \ {0})
           /\ b # BotOf[p] => Carried(b)' = Carried(b)
<1>1. \A q \in Pollers : carried'[q] = IF q = p THEN u ELSE carried[q]
  OBVIOUS
<1> QED BY <1>1 DEF Carried

LEMMA InitRestartInv == RestartInit => RestartInv
<1> SUFFICES ASSUME RestartInit PROVE RestartInv
  OBVIOUS
<1> USE DEF RestartInit, BridgeInit, Init
<1>1. BridgeTypeOK
  BY DEF BridgeTypeOK, NoEntries
<1>2. ReachInv /\ DroppedAnswersOutlivedAProcess
  BY DEF ReachInv, DroppedAnswersOutlivedAProcess
<1>3. \A b \in Bots : Waiting(b) = {}
  BY MembersEmpty DEF Waiting, Carried, NoEntries
<1>4. EventInv
  BY DEF EventInv
<1> QED BY <1>1, <1>2, <1>3, <1>4, PollerAssumption DEF RestartInv, KnownInv

-----------------------------------------------------------------------------
(* Types. *)

LEMMA TypesKept ==
    ASSUME CursorInv, BridgeTypeOK, [RestartNext]_allVars
    PROVE  BridgeTypeOK'
<1> USE DEF BridgeTypeOK
<1>0. /\ BotOf \in [Pollers -> Bots] /\ ChatOf \in [Updates -> Chats]
      /\ \A b \in Bots : Waiting(b) \subseteq Updates
  BY PollerAssumption, ChatOfAssumption DEF Waiting, Carried, Members
<1>1. CASE UNCHANGED bridgeVars
  BY <1>1 DEF bridgeVars, memoryVars, eventVars, agentVars, answerVars
<1>2. ASSUME NEW p \in Pollers, EndProcess(p) PROVE BridgeTypeOK'
  <2>1. outbound' \in [Bots -> Seq(Updates)]
    <3>1. outbound' \in {outbound, [outbound EXCEPT ![BotOf[p]] = <<>>]}
      BY <1>2 DEF EndProcess
    <3>2. BotOf[p] \in Bots /\ <<>> \in Seq(Updates)
      BY <1>0
    <3> QED BY <3>1, <3>2, OutboundUpdate
  <2>2. outlived' \in [Bots -> SUBSET Updates]
    <3>1. Waiting(BotOf[p]) \subseteq Updates
      BY <1>0
    <3> QED BY <1>2, <3>1 DEF EndProcess
  <2>3. /\ registered' \in [Pollers -> BOOLEAN] /\ known' \in [Pollers -> SUBSET Chats]
        /\ keys' \in [Pollers -> SUBSET Chats] /\ carried' \in [Pollers -> Updates \cup {0}]
        /\ dispatcher' \in [Pollers -> {"recv", "check", "remove", "hand"}]
    BY <1>2 DEF EndProcess, Drain
  <2> QED BY <1>2, <2>1, <2>2, <2>3 DEF EndProcess
<1>3. ASSUME NEW p \in Pollers, StopDrains(p) PROVE BridgeTypeOK'
  BY <1>3 DEF StopDrains, Drain, eventVars, agentVars
<1>4. ASSUME NEW p \in Pollers, Register(p) PROVE BridgeTypeOK'
  <2>1. current[p] \in Updates
    BY <1>4 DEF Register, CursorInv, PollerInv, CurrentInv
  <2>2. /\ registered' \in [Pollers -> BOOLEAN] /\ known' \in [Pollers -> SUBSET Chats]
        /\ keys' \in [Pollers -> SUBSET Chats]
    BY <1>0, <1>4, <2>1 DEF Register
  <2> QED BY <1>4, <2>2 DEF Register, eventVars, agentVars, answerVars
<1>5. ASSUME NEW p \in Pollers, PublishUpdate(p) PROVE BridgeTypeOK'
  <2>1. current[p] \in Updates
    BY <1>5 DEF PublishUpdate, FinishUpdate, CursorInv, PollerInv, CurrentInv
  <2> DEFINE b == BotOf[p]  u == current[p]  c == ChatOf[u]
  <2>2. b \in Bots /\ c \in Chats
    BY <1>0, <2>1
  <2>3. inbox' \in [Bots -> [Chats -> Seq(Updates)]]
    <3>1. Append(inbox[b][c], u) \in Seq(Updates)
      BY <2>1, <2>2
    <3>2. [inbox EXCEPT ![b][c] = Append(inbox[b][c], u)] \in [Bots -> [Chats -> Seq(Updates)]]
      BY <2>2, <3>1, NestedUpdate
    <3>3. inbox' \in {inbox, [inbox EXCEPT ![b][c] = Append(inbox[b][c], u)]}
      BY <1>5 DEF PublishUpdate
    <3> QED BY <3>2, <3>3
  <2>4. refused' \in [Bots -> SUBSET Updates]
    <3>1. refused' \in {refused, [refused EXCEPT ![b] = refused[b] \cup {u}]}
      BY <1>5 DEF PublishUpdate
    <3>2. refused[b] \cup {u} \in SUBSET Updates
      BY <2>1, <2>2
    <3>3. [refused EXCEPT ![b] = refused[b] \cup {u}] \in [Bots -> SUBSET Updates]
      BY <2>2, <3>2, HistoryUpdate
    <3> QED BY <3>1, <3>3
  <2>5. registered' \in [Pollers -> BOOLEAN]
    BY <1>5 DEF PublishUpdate
  <2> QED BY <1>5, <2>3, <2>4, <2>5 DEF PublishUpdate
<1>6. ASSUME NEW p \in Pollers, Dispatch(p) PROVE BridgeTypeOK'
  <2> DEFINE b == BotOf[p]
  <2>0. b \in Bots
    BY <1>0
  <2>1. ASSUME TakeEvent(p) PROVE BridgeTypeOK'
    <3>1. PICK c \in Chats, u \in Updates \cup {0} : Pop(p, c, u) /\ outbound' \in [Bots -> Seq(Updates)]
      <4>1. CASE outbound[b] # <<>> /\ outbound' = [outbound EXCEPT ![b] = Tail(outbound[b])]
                 /\ Pop(p, ChatOf[Head(outbound[b])], Head(outbound[b]))
        <5>1. Head(outbound[b]) \in Updates /\ Tail(outbound[b]) \in Seq(Updates)
          BY <2>0, <4>1
        <5>2. [outbound EXCEPT ![b] = Tail(outbound[b])] \in [Bots -> Seq(Updates)]
          BY <2>0, <5>1, OutboundUpdate
        <5> QED BY <1>0, <4>1, <5>1, <5>2
      <4>2. CASE UNCHANGED outbound /\ \E c \in Chats : Pop(p, c, 0)
        BY <4>2
      <4> QED BY <2>1, <4>1, <4>2 DEF TakeEvent
    <3>2. /\ dispatcher' = [dispatcher EXCEPT ![p] = "check"] /\ session' = [session EXCEPT ![p] = c]
          /\ carried' = [carried EXCEPT ![p] = u]
      BY <3>1 DEF Pop
    <3>3. /\ dispatcher' \in [Pollers -> {"recv", "check", "remove", "hand"}]
          /\ session' \in [Pollers -> Chats] /\ carried' \in [Pollers -> Updates \cup {0}]
      BY <3>2
    <3> QED BY <2>1, <3>1, <3>3 DEF TakeEvent
  <2>2. ASSUME CheckEmpty(p) PROVE BridgeTypeOK'
    <3>1. dispatcher' \in [Pollers -> {"recv", "check", "remove", "hand"}]
      BY <2>2 DEF CheckEmpty
    <3> QED BY <2>2, <3>1 DEF CheckEmpty, memoryVars, agentVars, answerVars
  <2>3. ASSUME RemoveSession(p) PROVE BridgeTypeOK'
    <3>1. /\ dispatcher' \in [Pollers -> {"recv", "check", "remove", "hand"}]
          /\ keys' \in [Pollers -> SUBSET Chats]
      BY <2>3 DEF RemoveSession
    <3> QED BY <2>3, <3>1 DEF RemoveSession, agentVars
  <2>4. ASSUME HandOver(p) PROVE BridgeTypeOK'
    <3>1. /\ dispatcher' \in [Pollers -> {"recv", "check", "remove", "hand"}]
          /\ carried' \in [Pollers -> Updates \cup {0}]
      BY <2>4 DEF HandOver
    <3>2. unresolved' \in [Bots -> SUBSET Updates]
      <4>1. \/ unresolved' = unresolved
            \/ unresolved' = [unresolved EXCEPT ![b] = unresolved[b] \cup ({carried[p]} \ {0})]
        BY <2>4 DEF HandOver
      <4>2. unresolved[b] \cup ({carried[p]} \ {0}) \in SUBSET Updates
        BY <2>0
      <4> QED BY <2>0, <4>1, <4>2, HistoryUpdate
    <3> QED BY <2>4, <3>1, <3>2 DEF HandOver, memoryVars, agentVars
  <2> QED BY <1>6, <2>1, <2>2, <2>3, <2>4 DEF Dispatch
<1>7. ASSUME NEW p \in Pollers, NEW u \in Updates, Expire(p, u) PROVE BridgeTypeOK'
  BY <1>7 DEF Expire, agentVars
<1>8. ASSUME NEW b \in Bots, NEW c \in Chats, Turn(b, c) PROVE BridgeTypeOK'
  <2>1. inbox[b][c] \in Seq(Updates) /\ Head(inbox[b][c]) \in Updates /\ Tail(inbox[b][c]) \in Seq(Updates)
    BY <1>8 DEF Turn
  <2>2. inbox' \in [Bots -> [Chats -> Seq(Updates)]]
    BY <1>8, <2>1, NestedUpdate DEF Turn
  <2>3. outbound' \in [Bots -> Seq(Updates)]
    <3>1. PICK u \in Updates : u = Head(inbox[b][c])
      BY <2>1
    <3>2. outbound' \in {outbound, [outbound EXCEPT ![b] = Append(outbound[b], u)]}
      BY <1>8, <3>1 DEF Turn
    <3>3. Append(outbound[b], u) \in Seq(Updates)
      OBVIOUS
    <3> QED BY <3>2, <3>3, OutboundUpdate
  <2> QED BY <1>8, <2>2, <2>3 DEF Turn, memoryVars, eventVars
<1>9. ASSUME NEW p \in Pollers, Polling(p) PROVE BridgeTypeOK'
  BY <1>9, <1>1, <1>2 DEF Polling
<1> QED
  BY <1>1, <1>3, <1>4, <1>5, <1>6, <1>7, <1>8, <1>9 DEF RestartNext, allVars

-----------------------------------------------------------------------------
(* A message processed was published or refused, and stays so.              *)
LEMMA ReachKept ==
    ASSUME CursorInv, RestartInv, [RestartNext]_allVars
    PROVE  ReachInv'
<1> USE DEF RestartInv
<1>0. /\ BotOf \in [Pollers -> Bots]
      /\ published \in [Bots -> [Updates -> Nat]] /\ handled \in [Bots -> SUBSET Updates]
      /\ refused \in [Bots -> SUBSET Updates]
  BY PollerAssumption DEF CursorInv, TypeOK, BridgeTypeOK
<1>1. CASE UNCHANGED <<historyVars, refused>>
  BY <1>1 DEF ReachInv, historyVars
<1>2. ASSUME NEW p \in Pollers, PublishUpdate(p) PROVE ReachInv'
  <2> DEFINE b == BotOf[p]  u == current[p]
  <2>1. b \in Bots /\ u \in Updates
    BY <1>0, <1>2 DEF PublishUpdate, FinishUpdate, CursorInv, PollerInv, CurrentInv
  <2>2. handled' = [handled EXCEPT ![b] = handled[b] \cup {u}]
    BY <1>2 DEF PublishUpdate, FinishUpdate
  <2>3. CASE published' = [published EXCEPT ![b][u] = published[b][u] + 1]
    <3>1. published' # published /\ UNCHANGED refused
      BY <1>0, <1>2, <2>1, <2>3 DEF PublishUpdate
    <3> QED BY <1>0, <2>1, <2>2, <2>3, <3>1 DEF ReachInv
  <2>4. CASE published' = published
    <3>1. refused' = IF Wanted(u) THEN [refused EXCEPT ![b] = refused[b] \cup {u}] ELSE refused
      BY <1>2, <2>4 DEF PublishUpdate
    <3> QED BY <1>0, <2>1, <2>2, <2>4, <3>1 DEF ReachInv
  <2> QED BY <1>2, <2>3, <2>4 DEF PublishUpdate, FinishUpdate
<1>3. ASSUME NEW b \in Bots, Arrive(b) /\ UNCHANGED bridgeVars PROVE UNCHANGED <<historyVars, refused>>
  BY <1>3 DEF Arrive, bridgeVars, answerVars
<1>4. ASSUME NEW p \in Pollers, Polling(p) PROVE UNCHANGED <<historyVars, refused>>
  <2>1. UNCHANGED refused
    BY <1>4 DEF Polling, EndProcess, bridgeVars, answerVars
  <2>2. UNCHANGED historyVars
    BY <1>4 DEF Polling, Start, Misread, Begin, FetchOk, FetchFails, WakeUp, LeavePoll, TakeUpdate,
                Take, EndBatch, Truncate, Write, Rename, SaveFails, Crash, Goto
  <2> QED BY <2>1, <2>2
<1>5. ASSUME NEW p \in Pollers,
             StopDrains(p) \/ Register(p) \/ Dispatch(p) \/ \E u \in Updates : Expire(p, u)
      PROVE  UNCHANGED <<historyVars, refused>>
  BY <1>5 DEF StopDrains, Stop, Register, Dispatch, TakeEvent, CheckEmpty, RemoveSession, HandOver,
              Expire, vars, answerVars
<1>6. ASSUME NEW b \in Bots, NEW c \in Chats, Turn(b, c) PROVE UNCHANGED <<historyVars, refused>>
  BY <1>6 DEF Turn, vars
<1>7. CASE UNCHANGED allVars
  BY <1>1, <1>7 DEF allVars, vars, bridgeVars, answerVars
<1> QED BY <1>1, <1>2, <1>3, <1>4, <1>5, <1>6, <1>7 DEF RestartNext

-----------------------------------------------------------------------------
(* While a process lives it knows the chat of everything it published.      *)

(* What the cursor's steps do to the places KnownInv speaks of.             *)
LEMMA PollingFrame ==
    ASSUME CursorInv, NEW p \in Pollers, Polling(p), pc'[p] # "down"
    PROVE  /\ UNCHANGED bridgeVars /\ pc[p] # "working"
           /\ \A q \in Pollers \ {p} : pc'[q] = pc[q] /\ current'[q] = current[q]
<1>1. pc \in [Pollers -> Labels] /\ current \in [Pollers -> 0 .. N]
  BY DEF CursorInv, TypeOK
<1>2. UNCHANGED bridgeVars
  BY DEF Polling
<1>3. pc[p] # "working"
  BY <1>1 DEF Polling, Start, Misread, Begin, FetchOk, FetchFails, WakeUp, LeavePoll, TakeUpdate,
              Take, EndBatch, Truncate, Write, Rename, SaveFails, Crash, Goto
<1>4. \A q \in Pollers \ {p} : pc'[q] = pc[q] /\ current'[q] = current[q]
  BY <1>1 DEF Polling, Start, Misread, Begin, FetchOk, FetchFails, WakeUp, LeavePoll, TakeUpdate,
              Take, EndBatch, Truncate, Write, Rename, SaveFails, Crash, LoopTop, Goto
<1> QED BY <1>2, <1>3, <1>4

LEMMA EndFrame ==
    ASSUME CursorInv, NEW p \in Pollers, Polling(p)
    PROVE  \A q \in Pollers \ {p} : pc'[q] = pc[q] /\ current'[q] = current[q]
<1>1. pc \in [Pollers -> Labels] /\ current \in [Pollers -> 0 .. N]
  BY DEF CursorInv, TypeOK
<1> QED
  BY <1>1 DEF Polling, Start, Misread, Begin, FetchOk, FetchFails, WakeUp, LeavePoll, TakeUpdate,
              Take, EndBatch, Truncate, Write, Rename, SaveFails, Crash, LoopTop, Goto

(* KnownInv of one process is kept when no more waits, no less is known and  *)
(* the process has the same message in hand.                                *)
KnownFor(p) ==
    /\ registered[p] => pc[p] = "working" /\ ChatOf[current[p]] \in known[p]
    /\ \A u \in Waiting(BotOf[p]) : ChatOf[u] \in known[p] \/ u \in outlived[BotOf[p]]

LEMMA KnownFrame ==
    ASSUME NEW q \in Pollers, KnownFor(q),
           Waiting(BotOf[q])' \subseteq Waiting(BotOf[q]),
           known[q] \subseteq known'[q], outlived[BotOf[q]] \subseteq outlived'[BotOf[q]],
           registered'[q] => registered[q] /\ pc'[q] = pc[q] /\ current'[q] = current[q]
    PROVE  KnownFor(q)'
BY DEF KnownFor

(* Queues that are left alone: so is what waits.                            *)
LEMMA WaitingSame ==
    ASSUME NEW b \in Bots, inbox'[b] = inbox[b], outbound'[b] = outbound[b],
           Carried(b)' = Carried(b)
    PROVE  Waiting(b)' = Waiting(b)
BY DEF Waiting

(* An event is of one chat and answers one message, or none.                 *)
LEMMA TakenEvent ==
    ASSUME BridgeTypeOK, NEW p \in Pollers, TakeEvent(p)
    PROVE  \E c \in Chats, u \in Updates \cup {0} : Pop(p, c, u) /\ (u # 0 => c = ChatOf[u])
<1>1. outbound[BotOf[p]] \in Seq(Updates) /\ ChatOf \in [Updates -> Chats]
  BY PollerAssumption, ChatOfAssumption DEF BridgeTypeOK
<1>2. outbound[BotOf[p]] # <<>> => Head(outbound[BotOf[p]]) \in Updates
  BY <1>1, MembersTail
<1> QED BY <1>1, <1>2 DEF TakeEvent

(* The dispatcher moves what waits, or has done with it.                     *)
LEMMA DispatchHolds ==
    ASSUME BridgeTypeOK, NEW p \in Pollers, Dispatch(p), NEW a \in Bots
    PROVE  Waiting(a)' \subseteq Waiting(a)
<1> DEFINE b == BotOf[p]
<1>0. /\ b \in Bots /\ carried \in [Pollers -> Updates \cup {0}] /\ ChatOf \in [Updates -> Chats]
      /\ outbound \in [Bots -> Seq(Updates)]
  BY PollerAssumption, ChatOfAssumption DEF BridgeTypeOK
<1>1. ASSUME UNCHANGED <<inbox, outbound>>,
             NEW u \in Updates \cup {0}, u \in Carried(a) \cup {0}, carried' = [carried EXCEPT ![p] = u]
      PROVE  Waiting(a)' \subseteq Waiting(a)
  <2>1. Carried(a)' \subseteq Carried(a) \cup ({u} \ {0})
    BY <1>0, <1>1, CarriedChanges
  <2>2. Carried(a)' \subseteq Carried(a)
    BY <1>1, <2>1
  <2> QED BY <1>1, <2>2, WaitingHolds, WaitingShrinks
<1>2. ASSUME TakeEvent(p), outbound[b] # <<>>, outbound' = [outbound EXCEPT ![b] = Tail(outbound[b])],
             Pop(p, ChatOf[Head(outbound[b])], Head(outbound[b]))
      PROVE  Waiting(a)' \subseteq Waiting(a)
  <2>1. PICK u \in Updates : u = Head(outbound[b]) /\ u \in Members(outbound[b])
    BY <1>0, <1>2, MembersTail
  <2>2. carried' = [carried EXCEPT ![p] = u] /\ inbox' = inbox
    BY <1>2, <2>1 DEF Pop, TakeEvent
  <2>3. Members(Tail(outbound[b])) \subseteq Members(outbound[b])
    BY <1>0, <1>2, MembersTail
  <2>4. Members(outbound'[a]) \subseteq Members(outbound[a])
    BY <1>0, <1>2, <2>3
  <2>5. Carried(a)' \subseteq Waiting(a)
    <3>1. CASE a = b
      <4>1. Carried(a)' \subseteq Carried(a) \cup ({u} \ {0})
        BY <1>0, <2>2, CarriedChanges
      <4> QED BY <2>1, <3>1, <4>1, WaitingHolds
    <3>2. CASE a # b
      BY <1>0, <2>2, <3>2, CarriedChanges, WaitingHolds
    <3> QED BY <3>1, <3>2
  <2> QED BY <2>2, <2>4, <2>5, WaitingHolds, WaitingShrinks
<1>3. ASSUME TakeEvent(p), UNCHANGED outbound, NEW c \in Chats, Pop(p, c, 0)
      PROVE  Waiting(a)' \subseteq Waiting(a)
  <2>1. UNCHANGED inbox /\ carried' = [carried EXCEPT ![p] = 0]
    BY <1>3 DEF TakeEvent, Pop
  <2> QED BY <1>1, <1>3, <2>1
<1>4. CASE TakeEvent(p)
  BY <1>2, <1>3, <1>4 DEF TakeEvent
<1>5. CASE HandOver(p)
  <2>1. UNCHANGED <<inbox, outbound>> /\ carried' = [carried EXCEPT ![p] = 0]
    BY <1>5 DEF HandOver, agentVars
  <2> QED BY <1>1, <2>1
<1>6. CASE CheckEmpty(p) \/ RemoveSession(p)
  <2>1. UNCHANGED <<inbox, outbound, carried>>
    BY <1>6 DEF CheckEmpty, RemoveSession, agentVars
  <2>2. Waiting(a)' = Waiting(a)
    BY <2>1, CarriedSame, WaitingSame
  <2> QED BY <2>2
<1> QED BY <1>4, <1>5, <1>6 DEF Dispatch

LEMMA KnownKept ==
    ASSUME Scoped, CursorInv, RestartInv, [RestartNext]_allVars
    PROVE  KnownInv'
<1> USE DEF RestartInv, BridgeTypeOK
<1>0. /\ BotOf \in [Pollers -> Bots] /\ ChatOf \in [Updates -> Chats]
      /\ pc \in [Pollers -> Labels] /\ current \in [Pollers -> 0 .. N]
      /\ \A p, q \in Pollers : p # q => BotOf[p] # BotOf[q]
  BY PollerAssumption, ChatOfAssumption DEF CursorInv, TypeOK, Scoped
<1>1. SUFFICES ASSUME NEW q \in Pollers PROVE KnownFor(q)'
  BY DEF KnownInv, KnownFor
<1>2. KnownFor(q) /\ BotOf[q] \in Bots
  BY <1>0 DEF KnownInv, KnownFor
<1>3. CASE UNCHANGED allVars
  BY <1>2, <1>3, CarriedSame, WaitingSame, KnownFrame
     DEF allVars, vars, pollerVars, bridgeVars, memoryVars, eventVars, agentVars, answerVars
<1>4. ASSUME NEW b \in Bots, Arrive(b) /\ UNCHANGED bridgeVars PROVE KnownFor(q)'
  BY <1>2, <1>4, CarriedSame, WaitingSame, KnownFrame
     DEF Arrive, pollerVars, bridgeVars, memoryVars, eventVars, agentVars, answerVars
<1>5. ASSUME NEW p \in Pollers, Polling(p) PROVE KnownFor(q)'
  <2>1. CASE pc'[p] # "down"
    <3>1. UNCHANGED bridgeVars /\ pc[p] # "working"
      BY <1>5, <2>1, PollingFrame
    <3>2. registered'[q] => registered[q] /\ pc'[q] = pc[q] /\ current'[q] = current[q]
      BY <1>2, <1>5, <3>1, EndFrame DEF bridgeVars, memoryVars, KnownFor
    <3> QED
      BY <1>2, <3>1, <3>2, CarriedSame, WaitingSame, KnownFrame
         DEF bridgeVars, memoryVars, eventVars, agentVars, answerVars
  <2>2. CASE pc'[p] = "down"
    <3>1. EndProcess(p)
      BY <1>5, <2>2 DEF Polling
    <3>0. carried' = [carried EXCEPT ![p] = 0]
      BY <3>1 DEF EndProcess
    <3>2. CASE q = p
      <4>0. Carried(BotOf[p])' \subseteq Carried(BotOf[p])
        BY <1>0, <3>0, CarriedChanges
      <4>1. inbox' = inbox /\ outbound'[BotOf[p]] \in {outbound[BotOf[p]], <<>>}
        BY <1>0, <3>1 DEF EndProcess
      <4>2. Waiting(BotOf[p])' \subseteq Waiting(BotOf[p])
        BY <4>0, <4>1, MembersEmpty DEF Waiting
      <4>3. outlived'[BotOf[p]] = outlived[BotOf[p]] \cup Waiting(BotOf[p]) /\ ~registered'[p]
        BY <1>0, <3>1 DEF EndProcess
      <4> QED BY <3>2, <4>2, <4>3 DEF KnownFor
    <3>3. CASE q # p
      <4>1. BotOf[q] # BotOf[p]
        BY <1>0, <3>3
      <4>2. /\ inbox' = inbox /\ outbound'[BotOf[q]] = outbound[BotOf[q]]
            /\ outlived'[BotOf[q]] = outlived[BotOf[q]]
            /\ known'[q] = known[q] /\ registered'[q] = registered[q]
        BY <1>0, <1>2, <3>1, <3>3, <4>1 DEF EndProcess
      <4>3. pc'[q] = pc[q] /\ current'[q] = current[q]
        BY <1>5, <3>3, EndFrame
      <4>4. Carried(BotOf[q])' = Carried(BotOf[q])
        BY <1>2, <3>0, <4>1, CarriedChanges
      <4> QED BY <1>2, <4>2, <4>3, <4>4, WaitingSame, KnownFrame
    <3> QED BY <3>2, <3>3
  <2> QED BY <2>1, <2>2
<1>6. ASSUME NEW p \in Pollers, StopDrains(p) PROVE KnownFor(q)'
  <2>1. /\ UNCHANGED <<registered, known, inbox, outbound, carried, outlived>>
        /\ UNCHANGED <<pc, current>>
    BY <1>6 DEF StopDrains, Stop, eventVars, agentVars
  <2> QED BY <1>2, <2>1, CarriedSame, WaitingSame, KnownFrame
<1>7. ASSUME NEW p \in Pollers, Register(p) PROVE KnownFor(q)'
  <2>1. UNCHANGED <<pc, current, inbox, outbound, carried, outlived>> /\ pc[p] = "working"
    BY <1>7 DEF Register, vars, pollerVars, eventVars, agentVars, answerVars
  <2>2. /\ registered' = [registered EXCEPT ![p] = TRUE]
        /\ known' = [known EXCEPT ![p] = known[p] \cup {ChatOf[current[p]]}]
    BY <1>7 DEF Register
  <2>3. Waiting(BotOf[q])' = Waiting(BotOf[q])
    BY <1>2, <2>1, CarriedSame, WaitingSame
  <2> QED BY <1>2, <2>1, <2>2, <2>3 DEF KnownFor
<1>8. ASSUME NEW p \in Pollers, PublishUpdate(p) PROVE KnownFor(q)'
  <2> DEFINE b == BotOf[p]  u == current[p]  c == ChatOf[u]
  <2>1. b \in Bots /\ u \in Updates /\ c \in Chats
    BY <1>0, <1>8 DEF PublishUpdate, FinishUpdate, CursorInv, PollerInv, CurrentInv
  <2>2. /\ UNCHANGED <<known, outbound, carried, outlived>> /\ registered' = [registered EXCEPT ![p] = FALSE]
        /\ pc' = [pc EXCEPT ![p] = "batch"] /\ current' = [current EXCEPT ![p] = 0]
    BY <1>8 DEF PublishUpdate, FinishUpdate, Goto
  <2>3. inbox' = inbox \/ (registered[p] /\ inbox' = [inbox EXCEPT ![b][c] = Append(inbox[b][c], u)])
    BY <1>8 DEF PublishUpdate
  <2>4. CASE q = p
    <3>1. Waiting(b)' \subseteq Waiting(b) \cup {u}
      <4>1. inbox[b][c] \in Seq(Updates)
        BY <2>1
      <4>2. Members(Append(inbox[b][c], u)) \subseteq Members(inbox[b][c]) \cup {u}
        BY <2>1, <4>1, MembersAppend
      <4>3. ASSUME NEW d \in Chats
            PROVE  Members(inbox'[b][d]) \subseteq Waiting(b) \cup {u}
        <5>1. inbox'[b][d] = inbox[b][d] \/ (d = c /\ inbox'[b][d] = Append(inbox[b][c], u))
          BY <2>1, <2>3
        <5> QED BY <2>1, <4>2, <5>1, WaitingHolds
      <4>4. Carried(b)' = Carried(b)
        BY <2>1, <2>2, CarriedSame
      <4>5. Carried(b)' \subseteq Waiting(b) \cup {u} /\ Members(outbound'[b]) \subseteq Waiting(b) \cup {u}
        BY <2>1, <2>2, <4>4, WaitingHolds
      <4> QED BY <2>1, <4>3, <4>5, WaitingGrowsBy
    <3>2. registered[p] => c \in known[p]
      BY <1>2, <2>4 DEF KnownFor
    <3>3. CASE inbox' = inbox
      BY <1>2, <2>1, <2>2, <2>4, <3>3, CarriedSame, WaitingSame DEF KnownFor
    <3>4. CASE registered[p]
      BY <1>2, <2>2, <2>4, <3>1, <3>2, <3>4 DEF KnownFor
    <3> QED BY <2>3, <3>3, <3>4
  <2>5. CASE q # p
    <3>1. inbox'[BotOf[q]] = inbox[BotOf[q]]
      BY <1>0, <1>2, <2>1, <2>3, <2>5
    <3>2. registered'[q] = registered[q] /\ pc'[q] = pc[q] /\ current'[q] = current[q]
      BY <1>0, <2>2, <2>5
    <3> QED BY <1>2, <2>2, <3>1, <3>2, CarriedSame, WaitingSame, KnownFrame
  <2> QED BY <2>4, <2>5
<1>9. ASSUME NEW p \in Pollers, Dispatch(p) PROVE KnownFor(q)'
  <2>1. UNCHANGED <<pc, current, registered, known, inbox, outlived>>
    BY <1>9 DEF Dispatch, TakeEvent, CheckEmpty, RemoveSession, HandOver, vars, pollerVars, memoryVars,
                agentVars, answerVars
  <2>2. Waiting(BotOf[q])' \subseteq Waiting(BotOf[q])
    BY <1>2, <1>9, DispatchHolds DEF RestartInv
  <2> QED BY <1>2, <2>1, <2>2, KnownFrame
<1>10. ASSUME NEW p \in Pollers, NEW u \in Updates, Expire(p, u) PROVE KnownFor(q)'
  <2>1. UNCHANGED <<pc, current, registered, known, inbox, outbound, carried, outlived>>
    BY <1>10 DEF Expire, vars, pollerVars, agentVars
  <2> QED BY <1>2, <2>1, CarriedSame, WaitingSame, KnownFrame
<1>11. ASSUME NEW b \in Bots, NEW c \in Chats, Turn(b, c) PROVE KnownFor(q)'
  <2>1. inbox[b][c] \in Seq(Updates) /\ inbox[b][c] # <<>> /\ outbound[b] \in Seq(Updates)
    BY <1>11 DEF Turn
  <2>2. UNCHANGED <<pc, current, registered, known, carried, outlived>>
    BY <1>11 DEF Turn, vars, pollerVars, memoryVars, eventVars
  <2>3. PICK u \in Updates : u = Head(inbox[b][c]) /\ u \in Members(inbox[b][c])
    BY <2>1, MembersTail
  <2>4. Members(Tail(inbox[b][c])) \subseteq Members(inbox[b][c])
    BY <2>1, MembersTail
  <2>5. Members(Append(outbound[b], u)) \subseteq Members(outbound[b]) \cup {u}
    BY <2>1, MembersAppend
  <2>6. /\ inbox' = [inbox EXCEPT ![b][c] = Tail(inbox[b][c])]
        /\ outbound' = outbound \/ outbound' = [outbound EXCEPT ![b] = Append(outbound[b], u)]
    BY <1>11, <2>3 DEF Turn
  <2>7. Waiting(BotOf[q])' \subseteq Waiting(BotOf[q])
    <3> DEFINE a == BotOf[q]
    <3>1. ASSUME NEW d \in Chats PROVE Members(inbox'[a][d]) \subseteq Waiting(a)
      <4>1. inbox'[a][d] = inbox[a][d] \/ (a = b /\ d = c /\ inbox'[a][d] = Tail(inbox[b][c]))
        BY <1>2, <2>6
      <4> QED BY <1>2, <2>4, <4>1, WaitingHolds
    <3>2. Members(outbound'[a]) \subseteq Waiting(a)
      <4>1. \/ outbound'[a] = outbound[a]
            \/ a = b /\ outbound'[a] = Append(outbound[b], u)
        BY <1>2, <2>6
      <4>2. CASE outbound'[a] = outbound[a]
        BY <1>2, <4>2, WaitingHolds
      <4>3. CASE a = b /\ outbound'[a] = Append(outbound[b], u)
        <5>1. u \in Waiting(b) /\ Members(outbound[b]) \subseteq Waiting(b)
          BY <2>3, WaitingHolds
        <5> QED BY <2>5, <4>3, <5>1
      <4> QED BY <4>1, <4>2, <4>3
    <3>3. Carried(a)' \subseteq Waiting(a)
      BY <1>2, <2>2, CarriedSame, WaitingHolds
    <3> QED BY <1>2, <3>1, <3>2, <3>3, WaitingShrinks
  <2> QED BY <1>2, <2>2, <2>7, KnownFrame
<1> QED
  BY <1>3, <1>4, <1>5, <1>6, <1>7, <1>8, <1>9, <1>10, <1>11 DEF RestartNext

-----------------------------------------------------------------------------
(* An answer is dropped only for a message that outlived a process.          *)
LEMMA DroppedKept ==
    ASSUME CursorInv, RestartInv, [RestartNext]_allVars
    PROVE  DroppedAnswersOutlivedAProcess'
<1> USE DEF RestartInv
<1>0. /\ BotOf \in [Pollers -> Bots] /\ ChatOf \in [Updates -> Chats]
      /\ unresolved \in [Bots -> SUBSET Updates] /\ outlived \in [Bots -> SUBSET Updates]
  BY PollerAssumption, ChatOfAssumption DEF BridgeTypeOK
<1>1. CASE UNCHANGED <<unresolved, outlived>>
  BY <1>1 DEF DroppedAnswersOutlivedAProcess
<1>2. ASSUME NEW p \in Pollers, EndProcess(p) PROVE DroppedAnswersOutlivedAProcess'
  <2>1. \A b \in Bots : outlived[b] \subseteq outlived'[b] /\ unresolved'[b] = unresolved[b]
    BY <1>0, <1>2 DEF EndProcess
  <2> QED BY <2>1 DEF DroppedAnswersOutlivedAProcess
<1>3. ASSUME NEW p \in Pollers, HandOver(p) PROVE DroppedAnswersOutlivedAProcess'
  <2> DEFINE b == BotOf[p]  u == carried[p]
  <2>1. b \in Bots /\ UNCHANGED outlived
    BY <1>0, <1>3 DEF HandOver
  <2>2. CASE UNCHANGED unresolved
    BY <1>1, <2>1, <2>2
  <2>3. CASE session[p] \notin known[p] /\ unresolved' = [unresolved EXCEPT ![b] = unresolved[b] \cup ({u} \ {0})]
    <3>1. ASSUME u # 0 PROVE u \in outlived[b]
      <4>1. u \in Waiting(b)
        BY <2>1, <3>1, WaitingHolds DEF Carried
      <4>2. ChatOf[u] = session[p]
        BY <3>1 DEF EventInv
      <4> QED BY <2>3, <4>1, <4>2 DEF KnownInv
    <3> QED BY <1>0, <2>1, <2>3, <3>1 DEF DroppedAnswersOutlivedAProcess
  <2> QED BY <1>3, <2>2, <2>3 DEF HandOver
<1>4. ASSUME NEW p \in Pollers, Polling(p) PROVE EndProcess(p) \/ UNCHANGED <<unresolved, outlived>>
  BY <1>4 DEF Polling, bridgeVars, answerVars
<1>5. ASSUME NEW p \in Pollers,
             \/ StopDrains(p) \/ Register(p) \/ PublishUpdate(p) \/ \E u \in Updates : Expire(p, u)
             \/ TakeEvent(p) \/ CheckEmpty(p) \/ RemoveSession(p)
      PROVE  UNCHANGED <<unresolved, outlived>>
  BY <1>5 DEF StopDrains, Register, PublishUpdate, Expire, TakeEvent, CheckEmpty, RemoveSession, answerVars
<1>6. ASSUME NEW b \in Bots, NEW c \in Chats, Turn(b, c) PROVE UNCHANGED <<unresolved, outlived>>
  BY <1>6 DEF Turn
<1>7. CASE UNCHANGED bridgeVars
  BY <1>1, <1>7 DEF bridgeVars, answerVars
<1> QED
  BY <1>1, <1>2, <1>3, <1>4, <1>5, <1>6, <1>7 DEF RestartNext, Dispatch, allVars

(* What the dispatcher carries is of the chat it looks into.                 *)
LEMMA EventKept ==
    ASSUME CursorInv, RestartInv, [RestartNext]_allVars
    PROVE  EventInv'
<1> USE DEF RestartInv
<1>0. /\ dispatcher \in [Pollers -> {"recv", "check", "remove", "hand"}]
      /\ session \in [Pollers -> Chats] /\ carried \in [Pollers -> Updates \cup {0}]
  BY DEF BridgeTypeOK
<1>1. CASE UNCHANGED <<dispatcher, session, carried>>
  BY <1>1 DEF EventInv
<1>2. ASSUME NEW p \in Pollers, dispatcher' = [dispatcher EXCEPT ![p] = "recv"], UNCHANGED session,
             carried' = [carried EXCEPT ![p] = 0]
      PROVE  EventInv'
  BY <1>0, <1>2 DEF EventInv
<1>3. ASSUME NEW p \in Pollers, TakeEvent(p) PROVE EventInv'
  <2>1. PICK c, u : Pop(p, c, u) /\ (u # 0 => c = ChatOf[u])
    BY <1>3 DEF TakeEvent
  <2>2. /\ dispatcher' = [dispatcher EXCEPT ![p] = "check"] /\ session' = [session EXCEPT ![p] = c]
        /\ carried' = [carried EXCEPT ![p] = u]
    BY <2>1 DEF Pop
  <2> QED BY <1>0, <2>1, <2>2 DEF EventInv
<1>4. ASSUME NEW p \in Pollers, CheckEmpty(p) \/ RemoveSession(p) PROVE EventInv'
  <2>1. /\ dispatcher' \in {[dispatcher EXCEPT ![p] = "remove"], [dispatcher EXCEPT ![p] = "hand"]}
        /\ UNCHANGED <<session, carried>>
    BY <1>4 DEF CheckEmpty, RemoveSession
  <2> QED BY <1>0, <2>1 DEF EventInv
<1>5. ASSUME NEW p \in Pollers, HandOver(p) PROVE EventInv'
  BY <1>2, <1>5 DEF HandOver
<1>6. ASSUME NEW p \in Pollers, Polling(p) PROVE EventInv'
  BY <1>1, <1>2, <1>6 DEF Polling, EndProcess, bridgeVars, eventVars
<1>7. ASSUME NEW p \in Pollers,
             \/ StopDrains(p) \/ Register(p) \/ PublishUpdate(p) \/ \E u \in Updates : Expire(p, u)
      PROVE  UNCHANGED <<dispatcher, session, carried>>
  BY <1>7 DEF StopDrains, Register, PublishUpdate, Expire, eventVars
<1>8. ASSUME NEW b \in Bots, NEW c \in Chats, Turn(b, c) PROVE UNCHANGED <<dispatcher, session, carried>>
  BY <1>8 DEF Turn, eventVars
<1>9. CASE UNCHANGED bridgeVars
  BY <1>1, <1>9 DEF bridgeVars, eventVars
<1> QED
  BY <1>1, <1>3, <1>4, <1>5, <1>6, <1>7, <1>8, <1>9 DEF RestartNext, Dispatch, allVars

(* What is published, known, waiting and dropped agree in every state, for    *)
(* any number of bots, chats, updates and restarts, provided no two pollers  *)
(* share a bot.                                                              *)
THEOREM RestartInvariant ==
    ASSUME Scoped
    PROVE  RestartSpec => []RestartInv
<1>1. RestartSpec => []CursorInv
  BY RestartsKeepTheCursor, CursorInvariant, PTL
<1>2. CursorInv /\ RestartInv /\ [RestartNext]_allVars => RestartInv'
  BY TypesKept, ReachKept, KnownKept, EventKept, DroppedKept DEF RestartInv
<1> QED BY <1>1, <1>2, InitRestartInv, PTL DEF RestartSpec

(* An update Telegram has forgotten was published to the agent or refused by  *)
(* the broker, whatever crashes, stops and lost offsets came between         *)
(* (plugin.rs:564-569, 787-795).                                             *)
THEOREM ForgottenUpdatesReachedTheAgent ==
    ASSUME Scoped
    PROVE  RestartSpec => []ConfirmedReachesTheAgent
<1>1. CursorInv /\ RestartInv => ConfirmedReachesTheAgent
  BY DEF CursorInv, RestartInv, ReachInv, ConfirmedReachesTheAgent, ConfirmedIsHandled
<1>2. RestartSpec => []CursorInv
  BY RestartsKeepTheCursor, CursorInvariant, PTL
<1> QED BY <1>1, <1>2, RestartInvariant, PTL

(* Within one life of the process no answer is dropped for want of a chat id  *)
(* (plugin.rs:680, 1391-1397).                                               *)
THEOREM OnlyOutlivedAnswersAreDropped ==
    ASSUME Scoped
    PROVE  RestartSpec => []DroppedAnswersOutlivedAProcess
<1>1. RestartInv => DroppedAnswersOutlivedAProcess
  BY DEF RestartInv
<1> QED BY <1>1, RestartInvariant, PTL

-----------------------------------------------------------------------------
(* Entries, answers and threads: what RestartInv does not speak of.          *)

AnswerTypeOK ==
    /\ pending \in [Pollers -> [Chats -> Seq(Updates)]]
    /\ popped \in [Pollers -> Updates \cup {0}]
    /\ answered \in [Bots -> [Updates -> Nat]]
    /\ threads \in [Bots -> SUBSET (Updates \X Updates)]
    /\ gone \in [Bots -> SUBSET Updates]

LEMMA EntriesTyped ==
    ASSUME AnswerTypeOK, NEW p \in Pollers
    PROVE  Entries(p) \subseteq Updates /\ Popped(p) \subseteq Updates
BY DEF AnswerTypeOK, Entries, Popped, Members

LEMMA GoneTyped ==
    ASSUME AnswerTypeOK, NEW b \in Bots, NEW lost \in SUBSET Updates, Loses(b, lost)
    PROVE  gone' \in [Bots -> SUBSET Updates]
<1>1. gone[b] \cup lost \in SUBSET Updates
  BY DEF AnswerTypeOK
<1> QED BY <1>1, HistoryUpdate DEF AnswerTypeOK, Loses

(* The types of what the dispatcher changes.                                *)
LEMMA DispatchTypes ==
    ASSUME RestartInv, AnswerTypeOK, NEW p \in Pollers, Dispatch(p)
    PROVE  AnswerTypeOK'
<1> DEFINE b == BotOf[p]
<1>0. /\ b \in Bots /\ ChatOf \in [Updates -> Chats] /\ outbound \in [Bots -> Seq(Updates)]
      /\ carried[p] \in Updates \cup {0} /\ session[p] \in Chats
      /\ pending \in [Pollers -> [Chats -> Seq(Updates)]] /\ popped \in [Pollers -> Updates \cup {0}]
  BY PollerAssumption, ChatOfAssumption DEF RestartInv, BridgeTypeOK, AnswerTypeOK
<1>1. ASSUME NEW c \in Chats, NEW u, Pop(p, c, u), UNCHANGED <<answered, threads>> PROVE AnswerTypeOK'
  <2> DEFINE q == pending[p][c]
  <2>1. CASE UNCHANGED <<pending, popped, gone>>
    BY <1>1, <2>1 DEF AnswerTypeOK
  <2>2. CASE /\ q # <<>> /\ pending' = [pending EXCEPT ![p][c] = Tail(q)]
             /\ popped' = [popped EXCEPT ![p] = Head(q)] /\ (Loses(b, {Head(q)}) \/ UNCHANGED gone)
    <3>1. Head(q) \in Updates /\ Tail(q) \in Seq(Updates)
      BY <1>0, <2>2, TailIndices
    <3>2. pending' \in [Pollers -> [Chats -> Seq(Updates)]] /\ popped' \in [Pollers -> Updates \cup {0}]
      BY <1>0, <2>2, <3>1, PendingUpdate
    <3>3. gone' \in [Bots -> SUBSET Updates]
      BY <1>0, <2>2, <3>1, GoneTyped DEF AnswerTypeOK
    <3> QED BY <1>1, <3>2, <3>3 DEF AnswerTypeOK
  <2> QED BY <1>1, <2>1, <2>2 DEF Pop
<1>2. CASE TakeEvent(p)
  <2>1. UNCHANGED <<answered, threads>>
    BY <1>2 DEF TakeEvent
  <2>2. outbound[b] # <<>> => ChatOf[Head(outbound[b])] \in Chats
    BY <1>0, TailIndices
  <2> QED BY <1>1, <1>2, <2>1, <2>2 DEF TakeEvent
<1>3. CASE CheckEmpty(p)
  BY <1>3 DEF CheckEmpty, AnswerTypeOK, memoryVars, answerVars
<1>4. CASE RemoveSession(p)
  <2>1. Members(pending[p][session[p]]) \in SUBSET Updates /\ <<>> \in Seq(Updates)
    BY <1>0 DEF Members
  <2>2. gone' \in [Bots -> SUBSET Updates] /\ pending' \in [Pollers -> [Chats -> Seq(Updates)]]
    BY <1>0, <1>4, <2>1, GoneTyped, PendingUpdate DEF RemoveSession
  <2> QED BY <1>4, <2>2 DEF RemoveSession, AnswerTypeOK
<1>5. CASE HandOver(p)
  <2>1. UNCHANGED <<pending, gone>> /\ popped' = [popped EXCEPT ![p] = 0]
    BY <1>5 DEF HandOver, memoryVars
  <2>2. answered' \in [Bots -> [Updates -> Nat]]
    <3>1. \/ answered' = answered
          \/ carried[p] # 0 /\ answered' = [answered EXCEPT ![b][carried[p]] = answered[b][carried[p]] + 1]
      BY <1>5 DEF HandOver, Sent
    <3>2. answered \in [Bots -> [Updates -> Nat]]
      BY DEF AnswerTypeOK
    <3>3. ASSUME NEW u \in Updates PROVE [answered EXCEPT ![b][u] = answered[b][u] + 1] \in [Bots -> [Updates -> Nat]]
      BY <1>0, <3>2
    <3> QED BY <1>0, <3>1, <3>2, <3>3
  <2>3. threads' \in [Bots -> SUBSET (Updates \X Updates)]
    <3>1. \/ threads' = threads
          \/ /\ popped[p] # 0
             /\ threads' = [threads EXCEPT ![b] =
                               threads[b] \cup ({<<carried[p], popped[p]>>} \ {<<0, popped[p]>>})]
      BY <1>5 DEF HandOver
    <3>2. threads \in [Bots -> SUBSET (Updates \X Updates)]
      BY DEF AnswerTypeOK
    <3>3. popped[p] # 0 => {<<carried[p], popped[p]>>} \ {<<0, popped[p]>>} \subseteq Updates \X Updates
      BY <1>0
    <3>4. ASSUME NEW T \in SUBSET (Updates \X Updates)
          PROVE  [threads EXCEPT ![b] = threads[b] \cup T] \in [Bots -> SUBSET (Updates \X Updates)]
      BY <1>0, <3>2
    <3> QED BY <3>1, <3>2, <3>3, <3>4
  <2>4. popped' \in [Pollers -> Updates \cup {0}]
    BY <1>0, <2>1
  <2> QED BY <2>1, <2>2, <2>3, <2>4 DEF AnswerTypeOK
<1> QED BY <1>2, <1>3, <1>4, <1>5 DEF Dispatch

LEMMA AnswerTypesKept ==
    ASSUME CursorInv, RestartInv, AnswerTypeOK, [RestartNext]_allVars
    PROVE  AnswerTypeOK'
<1>0. /\ BotOf \in [Pollers -> Bots] /\ ChatOf \in [Updates -> Chats]
      /\ inbox \in [Bots -> [Chats -> Seq(Updates)]]
      /\ \A p \in Pollers : pc[p] = "working" => current[p] \in Updates
  BY PollerAssumption, ChatOfAssumption DEF RestartInv, BridgeTypeOK, CursorInv, PollerInv, CurrentInv
<1>1. CASE UNCHANGED <<pending, popped, answered, threads, gone>>
  BY <1>1 DEF AnswerTypeOK
<1>2. ASSUME NEW p \in Pollers, Drain(p), UNCHANGED <<answered, threads>>,
             Loses(BotOf[p], Entries(p)) \/ Loses(BotOf[p], Entries(p) \cup Popped(p)),
             popped' \in {popped, [popped EXCEPT ![p] = 0]}
      PROVE  AnswerTypeOK'
  <2>1. gone' \in [Bots -> SUBSET Updates]
    <3>1. Entries(p) \in SUBSET Updates /\ Entries(p) \cup Popped(p) \in SUBSET Updates
      BY EntriesTyped
    <3> QED BY <1>0, <1>2, <3>1, GoneTyped
  <2>2. pending' \in [Pollers -> [Chats -> Seq(Updates)]]
    <3>1. NoEntries \in [Chats -> Seq(Updates)]
      BY DEF NoEntries
    <3> QED BY <1>2, <3>1 DEF Drain, AnswerTypeOK
  <2>3. popped' \in [Pollers -> Updates \cup {0}]
    BY <1>2 DEF AnswerTypeOK
  <2> QED BY <1>2, <2>1, <2>2, <2>3 DEF AnswerTypeOK
<1>3. ASSUME NEW p \in Pollers, Register(p) PROVE AnswerTypeOK'
  <2> DEFINE u == current[p]  c == ChatOf[u]
  <2>1. u \in Updates /\ c \in Chats
    BY <1>0, <1>3 DEF Register
  <2>2. Append(pending[p][c], u) \in Seq(Updates)
    BY <2>1 DEF AnswerTypeOK
  <2>3. /\ pending' = [pending EXCEPT ![p][c] = Append(pending[p][c], u)]
        /\ UNCHANGED <<popped, answered, threads, gone>>
    BY <1>3 DEF Register, eventVars, answerVars
  <2> QED BY <2>1, <2>2, <2>3, PendingUpdate DEF AnswerTypeOK
<1>4. ASSUME NEW p \in Pollers, NEW u \in Updates, Unreachable(p, u)
      PROVE  popped' \in [Pollers -> Updates \cup {0}]
  BY <1>4 DEF Unreachable, AnswerTypeOK
<1>5. ASSUME NEW p \in Pollers, PublishUpdate(p) PROVE AnswerTypeOK'
  <2> DEFINE u == current[p]  c == ChatOf[u]
  <2>1. u \in Updates /\ c \in Chats
    BY <1>0, <1>5 DEF PublishUpdate, FinishUpdate
  <2>2. Without(pending[p][c], u) \in Seq(Updates)
    BY <2>1, WithoutProperties DEF AnswerTypeOK
  <2>3. /\ pending' \in {pending, [pending EXCEPT ![p][c] = Without(pending[p][c], u)]}
        /\ UNCHANGED <<answered, threads, gone>> /\ (UNCHANGED popped \/ Unreachable(p, u))
    BY <1>5 DEF PublishUpdate
  <2>4. [pending EXCEPT ![p][c] = Without(pending[p][c], u)] \in [Pollers -> [Chats -> Seq(Updates)]]
    BY <2>1, <2>2, PendingUpdate DEF AnswerTypeOK
  <2>5. popped' \in [Pollers -> Updates \cup {0}]
    BY <1>4, <2>1, <2>3 DEF AnswerTypeOK
  <2> QED BY <2>3, <2>4, <2>5 DEF AnswerTypeOK
<1>6. ASSUME NEW p \in Pollers, NEW u \in Updates, Expire(p, u) PROVE AnswerTypeOK'
  <2> DEFINE c == ChatOf[u]
  <2>1. c \in Chats /\ Without(pending[p][c], u) \in Seq(Updates)
    BY <1>0, WithoutProperties DEF AnswerTypeOK
  <2>2. /\ pending' = [pending EXCEPT ![p][c] = Without(pending[p][c], u)]
        /\ Loses(BotOf[p], {u}) /\ Unreachable(p, u) /\ UNCHANGED <<answered, threads>>
    BY <1>6 DEF Expire
  <2>3. gone' \in [Bots -> SUBSET Updates] /\ popped' \in [Pollers -> Updates \cup {0}]
    BY <1>0, <1>4, <2>2, GoneTyped
  <2> QED BY <2>1, <2>2, <2>3, PendingUpdate DEF AnswerTypeOK
<1>7. ASSUME NEW p \in Pollers, Polling(p) PROVE AnswerTypeOK'
  BY <1>1, <1>2, <1>7 DEF Polling, EndProcess, bridgeVars, memoryVars, eventVars, answerVars
<1>8. ASSUME NEW p \in Pollers, StopDrains(p) PROVE AnswerTypeOK'
  BY <1>2, <1>8 DEF StopDrains, eventVars
<1>9. ASSUME NEW b \in Bots, NEW c \in Chats, Turn(b, c) PROVE AnswerTypeOK'
  <2>1. UNCHANGED <<pending, popped, answered, threads>>
    BY <1>9 DEF Turn, memoryVars, eventVars
  <2>2. Head(inbox[b][c]) \in Updates
    BY <1>0, <1>9, TailIndices DEF Turn
  <2>3. gone' \in [Bots -> SUBSET Updates]
    <3>1. gone' = gone \/ Loses(b, {Head(inbox[b][c])})
      BY <1>9 DEF Turn
    <3> QED BY <2>2, <3>1, GoneTyped DEF AnswerTypeOK
  <2> QED BY <2>1, <2>3 DEF AnswerTypeOK
<1>10. CASE UNCHANGED bridgeVars
  BY <1>1, <1>10 DEF bridgeVars, memoryVars, eventVars, answerVars
<1>11. ASSUME NEW p \in Pollers, Dispatch(p) PROVE AnswerTypeOK'
  BY <1>11, DispatchTypes
<1> QED
  BY <1>3, <1>5, <1>6, <1>7, <1>8, <1>9, <1>10, <1>11 DEF RestartNext, allVars

(* What is in an inbox is of its chat.                                       *)
InboxInv == \A b \in Bots, c \in Chats : \A u \in Members(inbox[b][c]) : ChatOf[u] = c

(* Queues without repetition.                                                *)
Distinct(q) == \A i, j \in DOMAIN q : q[i] = q[j] => i = j

LEMMA MembersAfterAppend ==
    ASSUME NEW s \in Seq(Updates), NEW u \in Updates
    PROVE  /\ Members(Append(s, u)) = Members(s) \cup {u}
           /\ Distinct(s) /\ u \notin Members(s) => Distinct(Append(s, u))
           /\ Increasing(s) /\ (\A w \in Members(s) : w < u) => Increasing(Append(s, u))
<1> DEFINE t == Append(s, u)
<1>1. /\ \A i \in DOMAIN s : i \in DOMAIN t /\ t[i] = s[i] /\ i < Len(s) + 1
      /\ \A i \in DOMAIN t : i \in DOMAIN s \/ i = Len(s) + 1
      /\ Len(s) + 1 \in DOMAIN t /\ t[Len(s) + 1] = u
      /\ Len(s) \in Nat /\ \A i \in DOMAIN t : i \in Nat /\ i <= Len(s) + 1
  BY AppendIndices
<1> HIDE DEF t
<1>2. Members(t) = Members(s) \cup {u}
  BY <1>1 DEF Members
<1>3. Distinct(s) /\ u \notin Members(s) => Distinct(t)
  BY <1>1 DEF Distinct, Members
<1>4. ASSUME Increasing(s), \A w \in Members(s) : w < u, NEW i \in DOMAIN t, NEW j \in DOMAIN t, i < j
      PROVE  t[i] < t[j]
  <2>1. i \in DOMAIN s /\ t[i] = s[i]
    BY <1>1, <1>4
  <2>2. CASE j = Len(s) + 1
    BY <1>1, <1>4, <2>1, <2>2 DEF Members
  <2>3. CASE j \in DOMAIN s
    BY <1>1, <1>4, <2>1, <2>3 DEF Increasing
  <2> QED BY <1>1, <2>2, <2>3
<1> QED BY <1>2, <1>3, <1>4 DEF t, Increasing

LEMMA MembersAfterTail ==
    ASSUME NEW s \in Seq(Updates), s # <<>>
    PROVE  /\ Head(s) \in Members(s) /\ Head(s) \in Updates /\ Tail(s) \in Seq(Updates)
           /\ Members(s) = Members(Tail(s)) \cup {Head(s)}
           /\ Distinct(s) => Distinct(Tail(s)) /\ Head(s) \notin Members(Tail(s))
           /\ Increasing(s) => /\ Increasing(Tail(s)) /\ Distinct(s)
                               /\ \A w \in Members(Tail(s)) : Head(s) < w
<1> DEFINE h == Head(s)
           t == Tail(s)
<1>1. /\ 1 \in DOMAIN s /\ h = s[1] /\ h \in Updates /\ t \in Seq(Updates)
      /\ \A i \in DOMAIN t : i \in Nat /\ 1 < i + 1 /\ i + 1 \in DOMAIN s /\ t[i] = s[i + 1]
      /\ \A i \in DOMAIN s : i = 1 \/ (i - 1 \in DOMAIN t /\ t[i - 1] = s[i])
  BY TailIndices
<1>0. \A i \in DOMAIN s : i \in Nat /\ s[i] \in Nat
  BY NAssumption DEF Updates
<1> HIDE DEF h, t
<1>2. Members(s) = Members(t) \cup {h}
  BY <1>1 DEF Members
<1>3. ASSUME Distinct(s) PROVE Distinct(t) /\ h \notin Members(t)
  <2>1. \A i \in DOMAIN t : t[i] # h
    BY <1>1, <1>3 DEF Distinct
  <2>2. ASSUME NEW i \in DOMAIN t, NEW j \in DOMAIN t, t[i] = t[j] PROVE i = j
    <3>1. i + 1 = j + 1
      BY <1>1, <1>3, <2>2 DEF Distinct
    <3> QED BY <1>1, <3>1
  <2> QED BY <2>1, <2>2 DEF Distinct, Members
<1>4. ASSUME Increasing(s) PROVE Increasing(t) /\ \A w \in Members(t) : h < w
  <2>1. \A i \in DOMAIN t : h < t[i]
    BY <1>1, <1>4 DEF Increasing
  <2>2. ASSUME NEW i \in DOMAIN t, NEW j \in DOMAIN t, i < j PROVE t[i] < t[j]
    <3>1. i + 1 < j + 1
      BY <1>1, <2>2
    <3> QED BY <1>1, <1>4, <3>1 DEF Increasing
  <2> QED BY <2>1, <2>2 DEF Increasing, Members
<1>5. ASSUME Increasing(s) PROVE Distinct(s)
  <2>1. ASSUME NEW i \in DOMAIN s, NEW j \in DOMAIN s, s[i] = s[j] PROVE i = j
    <3>1. ~(i < j) /\ ~(j < i)
      BY <1>0, <1>5, <2>1 DEF Increasing
    <3> QED BY <1>0, <3>1
  <2> QED BY <2>1 DEF Distinct
<1>6. h \in Members(s)
  BY <1>2
<1> QED BY <1>1, <1>2, <1>3, <1>4, <1>5, <1>6 DEF h, t

(* A message is published into the inbox of its own chat.                   *)
LEMMA InboxKept ==
    ASSUME CursorInv, RestartInv, InboxInv, [RestartNext]_allVars
    PROVE  InboxInv'
<1>0. /\ BotOf \in [Pollers -> Bots] /\ ChatOf \in [Updates -> Chats]
      /\ inbox \in [Bots -> [Chats -> Seq(Updates)]]
      /\ \A p \in Pollers : pc[p] = "working" => current[p] \in Updates
  BY PollerAssumption, ChatOfAssumption DEF RestartInv, BridgeTypeOK, CursorInv, PollerInv, CurrentInv
<1>1. CASE UNCHANGED inbox
  BY <1>1 DEF InboxInv
<1>2. ASSUME NEW p \in Pollers, PublishUpdate(p) PROVE InboxInv'
  <2> DEFINE b == BotOf[p]  u == current[p]  c == ChatOf[u]
  <2>1. b \in Bots /\ u \in Updates /\ c \in Chats
    BY <1>0, <1>2 DEF PublishUpdate, FinishUpdate
  <2>2. inbox' \in {inbox, [inbox EXCEPT ![b][c] = Append(inbox[b][c], u)]}
    BY <1>2 DEF PublishUpdate
  <2>3. Members(Append(inbox[b][c], u)) = Members(inbox[b][c]) \cup {u}
    BY <1>0, <2>1, MembersAfterAppend
  <2>4. ASSUME NEW a \in Bots, NEW d \in Chats
        PROVE  \/ inbox'[a][d] = inbox[a][d]
               \/ a = b /\ d = c /\ inbox'[a][d] = Append(inbox[b][c], u)
    BY <1>0, <2>1, <2>2
  <2>5. ASSUME NEW a \in Bots, NEW d \in Chats, NEW w \in Members(inbox'[a][d]) PROVE ChatOf[w] = d
    <3>1. w \in Members(inbox[a][d]) \/ (d = c /\ w = u)
      BY <2>3, <2>4, <2>5
    <3> QED BY <3>1 DEF InboxInv
  <2> QED BY <2>5 DEF InboxInv
<1>3. ASSUME NEW b \in Bots, NEW c \in Chats, Turn(b, c) PROVE InboxInv'
  <2>1. inbox[b][c] # <<>> /\ inbox' = [inbox EXCEPT ![b][c] = Tail(inbox[b][c])]
    BY <1>3 DEF Turn
  <2>2. Members(Tail(inbox[b][c])) \subseteq Members(inbox[b][c])
    BY <1>0, <2>1, MembersTail
  <2>3. ASSUME NEW a \in Bots, NEW d \in Chats
        PROVE  \/ inbox'[a][d] = inbox[a][d]
               \/ a = b /\ d = c /\ inbox'[a][d] = Tail(inbox[b][c])
    BY <1>0, <2>1
  <2> QED BY <2>2, <2>3 DEF InboxInv
<1>4. ASSUME NEW p \in Pollers, Polling(p) PROVE UNCHANGED inbox
  BY <1>4 DEF Polling, EndProcess, bridgeVars, agentVars
<1>5. ASSUME NEW p \in Pollers,
             StopDrains(p) \/ Register(p) \/ Dispatch(p) \/ \E u \in Updates : Expire(p, u)
      PROVE  UNCHANGED inbox
  BY <1>5 DEF StopDrains, Register, Dispatch, TakeEvent, CheckEmpty, RemoveSession, HandOver, Expire,
              agentVars
<1>6. CASE UNCHANGED bridgeVars
  BY <1>1, <1>6 DEF bridgeVars, agentVars
<1> QED BY <1>1, <1>2, <1>3, <1>4, <1>5, <1>6 DEF RestartNext, allVars

-----------------------------------------------------------------------------
(* As long as no offset was lost a message is in one place of the way, once,  *)
(* and has no answer yet while it is there.                                  *)

OnceFor(b) ==
    /\ Distinct(outbound[b]) /\ \A c \in Chats : Distinct(inbox[b][c])
    /\ \A c \in Chats : \A u \in Members(inbox[b][c]) : u \notin Members(outbound[b])
    /\ \A u \in Carried(b) : /\ u \notin Members(outbound[b])
                            /\ \A c \in Chats : u \notin Members(inbox[b][c])
    /\ \A u \in Waiting(b) : answered[b][u] = 0 /\ published[b][u] # 0
    /\ \A u \in Updates : answered[b][u] <= 1 /\ (answered[b][u] # 0 => published[b][u] # 0)

OnceInv == NothingLost => \A b \in Bots : OnceFor(b)

(* What was lost stays lost.                                                *)
LEMMA LostBefore ==
    ASSUME CursorInv, [Next]_vars, NothingLost'
    PROVE  NothingLost
<1>0. /\ crashes \in Nat /\ ioErrors \in Nat /\ misreads \in Nat
  BY BoundAssumption DEF CursorInv, TypeOK
<1>1. /\ crashes' = crashes \/ crashes' = crashes + 1
      /\ ioErrors' = ioErrors \/ ioErrors' = ioErrors + 1
      /\ misreads' = misreads \/ misreads' = misreads + 1
  <2>1. CASE UNCHANGED vars
    BY <2>1 DEF vars, countVars
  <2>2. ASSUME NEW b \in Bots, Arrive(b) PROVE UNCHANGED countVars
    BY <2>2 DEF Arrive
  <2>3. ASSUME NEW p \in Pollers,
               \/ FetchOk(p) \/ FetchFails(p) \/ WakeUp(p) \/ LeavePoll(p) \/ TakeUpdate(p)
               \/ EndBatch(p) \/ Truncate(p) \/ Write(p) \/ Rename(p)
        PROVE  UNCHANGED countVars
    BY <2>3 DEF FetchOk, FetchFails, WakeUp, LeavePoll, TakeUpdate, Take, EndBatch, Truncate, Write, Rename
  <2>4. ASSUME NEW p \in Pollers, Start(p) \/ Misread(p) \/ Stop(p) \/ Crash(p) PROVE <1>1
    BY <2>4 DEF Start, Misread, Begin, Stop, Crash
  <2>5. ASSUME NEW p \in Pollers, SaveFails(p) \/ FinishUpdate(p) PROVE <1>1
    BY <2>5 DEF SaveFails, FinishUpdate
  <2> QED BY <2>1, <2>2, <2>3, <2>4, <2>5 DEF Next, Step, countVars
<1> QED BY <1>0, <1>1 DEF NothingLost

(* Nothing is unpublished.                                                  *)
LEMMA PublishedGrows ==
    ASSUME CursorInv, [Next]_vars, NEW b \in Bots, NEW u \in Updates
    PROVE  published[b][u] # 0 => published'[b][u] # 0
<1>0. published \in [Bots -> [Updates -> Nat]]
  BY DEF CursorInv, TypeOK
<1>1. CASE UNCHANGED published
  BY <1>1
<1>2. ASSUME NEW p \in Pollers, FinishUpdate(p) PROVE published[b][u] # 0 => published'[b][u] # 0
  <2>1. published' = published
        \/ published' = [published EXCEPT ![BotOf[p]][current[p]] = published[BotOf[p]][current[p]] + 1]
    BY <1>2 DEF FinishUpdate
  <2>2. published'[b][u] = published[b][u] \/ published'[b][u] = published[b][u] + 1
    BY <1>0, <2>1
  <2> QED BY <1>0, <2>2
<1>3. ASSUME NEW p \in Pollers, Step(p) \/ FetchOk(p) \/ FetchFails(p) \/ Stop(p) \/ Crash(p), ~FinishUpdate(p)
      PROVE  UNCHANGED published
  BY <1>3 DEF Step, Start, Misread, Begin, FetchOk, FetchFails, WakeUp, LeavePoll, TakeUpdate, Take,
              EndBatch, Truncate, Write, Rename, SaveFails, Stop, Crash, historyVars
<1>4. ASSUME NEW a \in Bots, Arrive(a) PROVE UNCHANGED published
  BY <1>4 DEF Arrive, historyVars
<1>5. CASE UNCHANGED vars
  BY <1>1, <1>5 DEF vars, historyVars
<1> QED BY <1>1, <1>2, <1>3, <1>4, <1>5 DEF Next

(* Queues that only empty, and the same answers.                             *)
LEMMA OnceFrame ==
    ASSUME NEW b \in Bots, OnceFor(b),
           inbox'[b] = inbox[b], outbound'[b] = outbound[b] \/ outbound'[b] = <<>>,
           answered'[b] = answered[b], Carried(b)' \subseteq Carried(b),
           \A u \in Updates : published[b][u] # 0 => published'[b][u] # 0,
           Waiting(b) \subseteq Updates
    PROVE  OnceFor(b)'
<1>1. Waiting(b)' \subseteq Waiting(b)
  BY MembersEmpty DEF Waiting
<1>2. Distinct(outbound'[b]) /\ Members(outbound'[b]) \subseteq Members(outbound[b])
  BY MembersEmpty DEF OnceFor, Distinct
<1>3. Distinct(outbound[b])' /\ \A c \in Chats : Distinct(inbox[b][c])'
  BY <1>2 DEF OnceFor, Distinct
<1>4. \A c \in Chats : \A u \in Members(inbox'[b][c]) : u \notin Members(outbound'[b])
  BY <1>2 DEF OnceFor
<1>5. \A u \in Waiting(b)' : answered'[b][u] = 0 /\ published'[b][u] # 0
  BY <1>1 DEF OnceFor
<1>6. \A u \in Updates : answered'[b][u] <= 1 /\ (answered'[b][u] # 0 => published'[b][u] # 0)
  BY DEF OnceFor
<1>7. \A c \in Chats : \A u \in Members(inbox[b][c])' : u \notin Members(outbound[b])'
  BY <1>4 DEF Members
<1>8. \A u \in Carried(b)' : /\ u \notin Members(outbound'[b])
                            /\ \A c \in Chats : u \notin Members(inbox'[b][c])
  BY <1>2 DEF OnceFor
<1>9. (\A u \in Carried(b) : /\ u \notin Members(outbound[b])
                            /\ \A c \in Chats : u \notin Members(inbox[b][c]))'
  BY <1>8 DEF Members
<1> QED BY <1>3, <1>5, <1>6, <1>7, <1>9 DEF OnceFor

Spared(b) ==
    /\ inbox'[b] = inbox[b] /\ answered'[b] = answered[b] /\ Carried(b)' \subseteq Carried(b)
    /\ outbound'[b] = outbound[b] \/ outbound'[b] = <<>>

(* Only a publication, a turn and an answer touch what OnceFor speaks of.    *)
LEMMA OnceOthers ==
    ASSUME CursorInv, RestartInv, AnswerTypeOK, [RestartNext]_allVars,
           NEW b \in Bots, OnceFor(b),
           \A p \in Pollers : BotOf[p] = b => ~PublishUpdate(p) /\ ~Dispatch(p),
           \A c \in Chats : ~Turn(b, c)
    PROVE  OnceFor(b)'
<1>0. /\ BotOf \in [Pollers -> Bots] /\ ChatOf \in [Updates -> Chats]
      /\ inbox \in [Bots -> [Chats -> Seq(Updates)]] /\ outbound \in [Bots -> Seq(Updates)]
      /\ answered \in [Bots -> [Updates -> Nat]] /\ carried \in [Pollers -> Updates \cup {0}]
      /\ \A p \in Pollers : pc[p] = "working" => current[p] \in Updates
  BY PollerAssumption, ChatOfAssumption DEF RestartInv, BridgeTypeOK, AnswerTypeOK, CursorInv, PollerInv, CurrentInv
<1>1. Waiting(b) \subseteq Updates
  BY <1>0 DEF Waiting, Carried, Members
<1> USE DEF Spared
<1>2. \A u \in Updates : published[b][u] # 0 => published'[b][u] # 0
  BY StepIsACursorStep, PublishedGrows
<1>3. SUFFICES Spared(b)
  BY <1>1, <1>2, OnceFrame DEF Spared
<1>4. ASSUME NEW p \in Pollers, EndProcess(p) PROVE Spared(b)
  <2>1. carried' = [carried EXCEPT ![p] = 0]
    BY <1>4 DEF EndProcess
  <2>2. Carried(b)' \subseteq Carried(b)
    BY <1>0, <2>1, CarriedChanges
  <2> QED BY <1>0, <1>4, <2>2 DEF EndProcess
<1>5. ASSUME NEW p \in Pollers, Polling(p) PROVE Spared(b)
  BY <1>4, <1>5, CarriedSame DEF Polling, bridgeVars, eventVars, agentVars, answerVars
<1>6. ASSUME NEW p \in Pollers, StopDrains(p) \/ Register(p) \/ \E u \in Updates : Expire(p, u)
      PROVE  Spared(b)
  BY <1>6, CarriedSame DEF StopDrains, Register, Expire, eventVars, agentVars, answerVars
<1>7. ASSUME NEW p \in Pollers, PublishUpdate(p) PROVE Spared(b)
  <2>1. BotOf[p] # b /\ BotOf[p] \in Bots /\ current[p] \in Updates
    BY <1>0, <1>7 DEF PublishUpdate, FinishUpdate
  <2>2. UNCHANGED <<answered, outbound, carried>>
    BY <1>7 DEF PublishUpdate
  <2>3. \E q : inbox' = [inbox EXCEPT ![BotOf[p]][ChatOf[current[p]]] = q] \/ inbox' = inbox
    BY <1>7 DEF PublishUpdate
  <2> QED BY <1>0, <2>1, <2>2, <2>3, CarriedSame
<1>8. ASSUME NEW p \in Pollers, Dispatch(p) PROVE Spared(b)
  <2>1. BotOf[p] # b /\ BotOf[p] \in Bots
    BY <1>0, <1>8
  <2>2. inbox' = inbox /\ \E n : outbound' \in {outbound, [outbound EXCEPT ![BotOf[p]] = n]}
    BY <1>8 DEF Dispatch, TakeEvent, CheckEmpty, RemoveSession, HandOver, agentVars
  <2>3. \/ answered' = answered
        \/ \E u, n : answered' = [answered EXCEPT ![BotOf[p]][u] = n]
    BY <1>8 DEF Dispatch, TakeEvent, CheckEmpty, RemoveSession, HandOver, answerVars, Sent
  <2>4. answered'[b] = answered[b] /\ outbound'[b] = outbound[b]
    BY <1>0, <2>1, <2>2, <2>3
  <2>5. carried' = carried \/ \E u \in Updates \cup {0} : carried' = [carried EXCEPT ![p] = u]
    <3>1. outbound[BotOf[p]] # <<>> => Head(outbound[BotOf[p]]) \in Updates
      BY <1>0, <2>1, TailIndices
    <3> QED BY <1>8, <3>1 DEF Dispatch, TakeEvent, Pop, CheckEmpty, RemoveSession, HandOver
  <2>6. Carried(b)' = Carried(b)
    BY <1>0, <2>1, <2>5, CarriedSame, CarriedChanges
  <2> QED BY <1>0, <2>1, <2>2, <2>4, <2>6
<1>9. ASSUME NEW a \in Bots, NEW c \in Chats, Turn(a, c) PROVE Spared(b)
  <2>1. a # b
    BY <1>9
  <2>2. \E q : inbox' = [inbox EXCEPT ![a][c] = q]
    BY <1>9 DEF Turn
  <2>3. outbound' = outbound \/ outbound' = [outbound EXCEPT ![a] = Append(outbound[a], Head(inbox[a][c]))]
    BY <1>9 DEF Turn
  <2>4. UNCHANGED <<answered, carried>>
    BY <1>9 DEF Turn, eventVars
  <2> QED BY <1>0, <2>1, <2>2, <2>3, <2>4, CarriedSame
<1>10. CASE UNCHANGED bridgeVars
  BY <1>10, CarriedSame DEF bridgeVars, eventVars, agentVars, answerVars
<1> QED BY <1>5, <1>6, <1>7, <1>8, <1>9, <1>10 DEF RestartNext, allVars

(* A message that is published was never published before, so it is nowhere. *)
LEMMA OncePublish ==
    ASSUME CursorInv, RestartInv, NothingLost, [RestartNext]_allVars,
           NEW p \in Pollers, PublishUpdate(p), OnceFor(BotOf[p])
    PROVE  OnceFor(BotOf[p])'
<1> DEFINE b == BotOf[p]  u == current[p]  c == ChatOf[u]
<1>0. /\ b \in Bots /\ u \in Updates /\ c \in Chats /\ pc[p] = "working"
      /\ inbox \in [Bots -> [Chats -> Seq(Updates)]] /\ outbound \in [Bots -> Seq(Updates)]
      /\ published \in [Bots -> [Updates -> Nat]] /\ carried \in [Pollers -> Updates \cup {0}]
  BY PollerAssumption, ChatOfAssumption
     DEF RestartInv, BridgeTypeOK, CursorInv, TypeOK, PollerInv, CurrentInv, PublishUpdate, FinishUpdate
<1>1. published[b][u] = 0
  <2>1. u \notin handled[b]
    BY <1>0 DEF CursorInv, PollerInv, FreshInv
  <2> QED BY <1>0, <2>1 DEF CursorInv, PublishedInv
<1>2. answered[b][u] = 0 /\ u \notin Waiting(b)
  BY <1>0, <1>1 DEF OnceFor
<1>3. UNCHANGED <<outbound, answered>> /\ Carried(b)' = Carried(b)
  BY <1>0, CarriedSame DEF PublishUpdate
<1>4. \A w \in Updates : published[b][w] # 0 => published'[b][w] # 0
  BY <1>0, StepIsACursorStep, PublishedGrows
<1>5. CASE UNCHANGED inbox
  <2>1. Waiting(b) \subseteq Updates
    BY <1>0 DEF Waiting, Carried, Members
  <2> QED BY <1>0, <1>3, <1>4, <1>5, <2>1, OnceFrame
<1>6. CASE /\ published' # published
           /\ inbox' = [inbox EXCEPT ![b][c] = Append(inbox[b][c], u)]
  <2>1. published'[b][u] # 0
    BY <1>0, <1>6 DEF PublishUpdate, FinishUpdate
  <2>2. /\ inbox[b][c] \in Seq(Updates)
        /\ u \notin Members(inbox[b][c]) /\ u \notin Members(outbound[b]) /\ u \notin Carried(b)
    BY <1>0, <1>2, WaitingHolds
  <2>3. /\ Members(Append(inbox[b][c], u)) = Members(inbox[b][c]) \cup {u}
        /\ Distinct(Append(inbox[b][c], u))
    BY <1>0, <2>2, MembersAfterAppend DEF OnceFor
  <2>4. ASSUME NEW d \in Chats
        PROVE  \/ inbox'[b][d] = inbox[b][d]
               \/ d = c /\ inbox'[b][d] = Append(inbox[b][c], u)
    BY <1>0, <1>6
  <2>5. ASSUME NEW d \in Chats
        PROVE  Distinct(inbox'[b][d]) /\ Members(inbox'[b][d]) \subseteq Members(inbox[b][d]) \cup {u}
    BY <2>3, <2>4, <2>5 DEF OnceFor
  <2>6. Waiting(b)' \subseteq Waiting(b) \cup {u}
    <3>1. outbound'[b] = outbound[b] /\ Carried(b)' = Carried(b)
      BY <1>3
    <3>2. \A d \in Chats : Members(inbox'[b][d]) \subseteq Waiting(b) \cup {u}
      BY <1>0, <2>5, WaitingHolds
    <3>3. Carried(b)' \subseteq Waiting(b) \cup {u} /\ Members(outbound'[b]) \subseteq Waiting(b) \cup {u}
      BY <1>0, <3>1, WaitingHolds
    <3> QED BY <1>0, <3>2, <3>3, WaitingGrowsBy
  <2>7. Distinct(outbound[b])' /\ \A d \in Chats : Distinct(inbox[b][d])'
    BY <1>3, <2>5 DEF OnceFor, Distinct
  <2>8. \A d \in Chats : \A w \in Members(inbox'[b][d]) : w \notin Members(outbound'[b])
    BY <1>3, <2>2, <2>5 DEF OnceFor
  <2>9. \A w \in Waiting(b)' : answered'[b][w] = 0 /\ published'[b][w] # 0
    <3>1. Waiting(b) \subseteq Updates
      BY <1>0 DEF Waiting, Carried, Members
    <3> QED BY <1>2, <1>3, <1>4, <2>1, <2>6, <3>1 DEF OnceFor
  <2>10. \A w \in Updates : answered'[b][w] <= 1 /\ (answered'[b][w] # 0 => published'[b][w] # 0)
    BY <1>3, <1>4 DEF OnceFor
  <2>11. \A d \in Chats : \A w \in Members(inbox[b][d])' : w \notin Members(outbound[b])'
    BY <2>8 DEF Members
  <2>12. (\A w \in Carried(b) : /\ w \notin Members(outbound[b])
                              /\ \A d \in Chats : w \notin Members(inbox[b][d]))'
    <3>1. \A w \in Carried(b) : /\ w \notin Members(outbound'[b])
                               /\ \A d \in Chats : w \notin Members(inbox'[b][d])
      BY <1>3, <2>2, <2>5 DEF OnceFor
    <3> QED BY <1>3, <3>1 DEF Members
  <2> QED BY <2>7, <2>9, <2>10, <2>11, <2>12 DEF OnceFor
<1> QED BY <1>5, <1>6 DEF PublishUpdate

(* A turn moves a message from the agent's inbox to the answers, or drops it. *)
LEMMA OnceTurn ==
    ASSUME RestartInv, InboxInv, NEW b \in Bots, NEW c \in Chats, Turn(b, c), OnceFor(b)
    PROVE  OnceFor(b)'
<1>0. /\ inbox \in [Bots -> [Chats -> Seq(Updates)]] /\ outbound \in [Bots -> Seq(Updates)]
      /\ inbox[b][c] \in Seq(Updates) /\ outbound[b] \in Seq(Updates)
      /\ inbox[b][c] # <<>>
  BY DEF RestartInv, BridgeTypeOK, Turn
<1> DEFINE t == Tail(inbox[b][c])
<1>1. PICK u \in Updates : u = Head(inbox[b][c])
  BY <1>0, MembersAfterTail
<1>2. /\ u \in Members(inbox[b][c]) /\ u \notin Members(t) /\ Distinct(t)
      /\ Members(t) \subseteq Members(inbox[b][c])
  BY <1>0, <1>1, MembersAfterTail DEF OnceFor
<1> HIDE DEF t
<1>3. u \notin Members(outbound[b]) /\ u \in Waiting(b) /\ u \notin Carried(b)
  BY <1>2, WaitingHolds DEF OnceFor
<1>4. UNCHANGED <<answered, published>> /\ Carried(b)' = Carried(b)
  BY CarriedSame DEF Turn, vars, historyVars, eventVars
<1>5. /\ inbox' = [inbox EXCEPT ![b][c] = t]
      /\ outbound' = outbound \/ outbound' = [outbound EXCEPT ![b] = Append(outbound[b], u)]
  BY <1>1 DEF Turn, t
<1>6. ASSUME NEW d \in Chats
      PROVE  (d # c => inbox'[b][d] = inbox[b][d]) /\ (d = c => inbox'[b][d] = t)
  BY <1>0, <1>5
<1>7. ASSUME NEW d \in Chats
      PROVE  /\ Distinct(inbox'[b][d]) /\ Members(inbox'[b][d]) \subseteq Members(inbox[b][d])
             /\ u \notin Members(inbox'[b][d])
  <2>1. CASE d = c
    BY <1>2, <1>6, <2>1
  <2>2. CASE d # c
    BY <1>2, <1>6, <2>2 DEF OnceFor, InboxInv
  <2> QED BY <2>1, <2>2
<1>8. Distinct(outbound'[b]) /\ Members(outbound'[b]) \subseteq Members(outbound[b]) \cup {u}
  <2>1. Distinct(Append(outbound[b], u)) /\ Members(Append(outbound[b], u)) = Members(outbound[b]) \cup {u}
    BY <1>0, <1>1, <1>3, MembersAfterAppend DEF OnceFor
  <2>2. outbound'[b] = outbound[b] \/ outbound'[b] = Append(outbound[b], u)
    BY <1>0, <1>5
  <2> QED BY <2>1, <2>2 DEF OnceFor
<1>9. Waiting(b)' \subseteq Waiting(b)
  <2>1. Carried(b)' \subseteq Waiting(b) /\ Members(outbound'[b]) \subseteq Waiting(b)
    BY <1>3, <1>4, <1>8, WaitingHolds
  <2>2. \A d \in Chats : Members(inbox'[b][d]) \subseteq Waiting(b)
    BY <1>7, WaitingHolds
  <2> QED BY <2>1, <2>2, WaitingShrinks
<1>10. Distinct(outbound[b])' /\ \A d \in Chats : Distinct(inbox[b][d])'
  BY <1>7, <1>8 DEF Distinct
<1>11. \A d \in Chats : \A w \in Members(inbox'[b][d]) : w \notin Members(outbound'[b])
  BY <1>7, <1>8 DEF OnceFor
<1>12. \A d \in Chats : \A w \in Members(inbox[b][d])' : w \notin Members(outbound[b])'
  BY <1>11 DEF Members
<1>13. /\ \A w \in Waiting(b)' : answered'[b][w] = 0 /\ published'[b][w] # 0
       /\ \A w \in Updates : answered'[b][w] <= 1 /\ (answered'[b][w] # 0 => published'[b][w] # 0)
  BY <1>4, <1>9 DEF OnceFor
<1>14. (\A w \in Carried(b) : /\ w \notin Members(outbound[b])
                             /\ \A d \in Chats : w \notin Members(inbox[b][d]))'
  <2>1. \A w \in Carried(b) : /\ w \notin Members(outbound'[b])
                             /\ \A d \in Chats : w \notin Members(inbox'[b][d])
    BY <1>3, <1>7, <1>8 DEF OnceFor
  <2> QED BY <1>4, <2>1 DEF Members
<1> QED BY <1>10, <1>12, <1>13, <1>14 DEF OnceFor

(* The dispatcher takes an answer from those on their way.                   *)
LEMMA OnceTake ==
    ASSUME RestartInv, NEW p \in Pollers, TakeEvent(p), OnceFor(BotOf[p])
    PROVE  OnceFor(BotOf[p])'
<1> DEFINE b == BotOf[p]
<1>0. /\ b \in Bots /\ outbound \in [Bots -> Seq(Updates)] /\ outbound[b] \in Seq(Updates)
      /\ inbox \in [Bots -> [Chats -> Seq(Updates)]] /\ carried \in [Pollers -> Updates \cup {0}]
  BY PollerAssumption DEF RestartInv, BridgeTypeOK
<1>1. UNCHANGED <<inbox, answered, published>>
  BY DEF TakeEvent, vars, historyVars
<1>2. Waiting(b)' \subseteq Waiting(b)
  BY <1>0, DispatchHolds DEF RestartInv, Dispatch
<1>3. CASE UNCHANGED outbound /\ carried' = [carried EXCEPT ![p] = 0]
  <2>1. Carried(b)' \subseteq Carried(b)
    BY <1>0, <1>3, CarriedChanges
  <2>2. Waiting(b) \subseteq Updates
    BY <1>0 DEF Waiting, Carried, Members
  <2> QED BY <1>0, <1>1, <1>3, <2>1, <2>2, OnceFrame
<1>4. ASSUME NEW u, u = Head(outbound[b]), outbound[b] # <<>>,
             outbound' = [outbound EXCEPT ![b] = Tail(outbound[b])], carried' = [carried EXCEPT ![p] = u]
      PROVE  OnceFor(b)'
  <2> DEFINE t == Tail(outbound[b])
  <2>1. /\ u \in Updates /\ u \in Members(outbound[b]) /\ u \notin Members(t) /\ Distinct(t)
        /\ Members(t) \subseteq Members(outbound[b])
    BY <1>0, <1>4, MembersAfterTail DEF OnceFor
  <2>2. outbound'[b] = t
    BY <1>0, <1>4
  <2> HIDE DEF t
  <2>3. \A d \in Chats : u \notin Members(inbox[b][d])
    BY <2>1 DEF OnceFor
  <2>4. Carried(b)' \subseteq Carried(b) \cup {u}
    BY <1>0, <1>4, <2>1, CarriedChanges
  <2>5. \A w \in Carried(b)' : /\ w \notin Members(t)
                               /\ \A d \in Chats : w \notin Members(inbox[b][d])
    BY <2>1, <2>3, <2>4 DEF OnceFor
  <2>6. (\A w \in Carried(b) : /\ w \notin Members(outbound[b])
                              /\ \A d \in Chats : w \notin Members(inbox[b][d]))'
    BY <1>1, <2>2, <2>5 DEF Members
  <2>7. Distinct(outbound[b])' /\ \A d \in Chats : Distinct(inbox[b][d])'
    BY <1>1, <2>1, <2>2 DEF Distinct, OnceFor
  <2>8. \A d \in Chats : \A w \in Members(inbox[b][d])' : w \notin Members(outbound[b])'
    BY <1>1, <2>1, <2>2 DEF Members, OnceFor
  <2>9. /\ \A w \in Waiting(b)' : answered'[b][w] = 0 /\ published'[b][w] # 0
        /\ \A w \in Updates : answered'[b][w] <= 1 /\ (answered'[b][w] # 0 => published'[b][w] # 0)
    BY <1>1, <1>2 DEF OnceFor
  <2> QED BY <2>6, <2>7, <2>8, <2>9 DEF OnceFor
<1> QED BY <1>3, <1>4 DEF TakeEvent, Pop

(* An answer that is sent, or dropped, is on its way no more.                *)
LEMMA OnceHandOver ==
    ASSUME Scoped, RestartInv, AnswerTypeOK, NEW p \in Pollers, HandOver(p), OnceFor(BotOf[p])
    PROVE  OnceFor(BotOf[p])'
<1> DEFINE b == BotOf[p]  u == carried[p]
<1>0. /\ b \in Bots /\ outbound \in [Bots -> Seq(Updates)] /\ answered \in [Bots -> [Updates -> Nat]]
      /\ inbox \in [Bots -> [Chats -> Seq(Updates)]] /\ carried \in [Pollers -> Updates \cup {0}]
      /\ Waiting(b) \subseteq Updates
  <2>1. /\ b \in Bots /\ outbound \in [Bots -> Seq(Updates)] /\ answered \in [Bots -> [Updates -> Nat]]
        /\ inbox \in [Bots -> [Chats -> Seq(Updates)]] /\ carried \in [Pollers -> Updates \cup {0}]
    BY PollerAssumption DEF RestartInv, BridgeTypeOK, AnswerTypeOK
  <2> QED BY <2>1 DEF Waiting, Carried, Members
<1>1. UNCHANGED <<inbox, outbound, published>> /\ carried' = [carried EXCEPT ![p] = 0]
  BY DEF HandOver, vars, historyVars, agentVars
<1>2. Carried(b)' = {}
  <2>1. \A q \in Pollers : BotOf[q] = b => q = p
    BY DEF Scoped
  <2> QED BY <1>0, <1>1, <2>1 DEF Carried
<1>3. \A w \in Updates : published[b][w] # 0 => published'[b][w] # 0
  BY <1>1
<1>4. CASE answered' = answered
  BY <1>0, <1>1, <1>2, <1>3, <1>4, OnceFrame
<1>5. CASE u # 0 /\ answered' = [answered EXCEPT ![b][u] = answered[b][u] + 1]
  <2>1. u \in Carried(b) /\ u \in Updates
    BY <1>0, <1>5 DEF Carried
  <2>2. answered[b][u] = 0 /\ published[b][u] # 0
    BY <1>0, <2>1, WaitingHolds DEF OnceFor
  <2>3. Waiting(b)' \subseteq Waiting(b) \ {u}
    <3>1. Waiting(b)' = Members(outbound[b]) \cup UNION {Members(inbox[b][d]) : d \in Chats}
      BY <1>1, <1>2 DEF Waiting, Members
    <3>2. u \notin Members(outbound[b]) /\ \A d \in Chats : u \notin Members(inbox[b][d])
      BY <2>1 DEF OnceFor
    <3> QED BY <3>1, <3>2 DEF Waiting
  <2>4. \A w \in Updates \ {u} : answered'[b][w] = answered[b][w]
    BY <1>0, <1>5
  <2>5. answered'[b][u] <= 1
    BY <1>0, <1>5, <2>1, <2>2
  <2>6. Distinct(outbound[b])' /\ \A d \in Chats : Distinct(inbox[b][d])'
    BY <1>1 DEF Distinct, OnceFor
  <2>7. \A d \in Chats : \A w \in Members(inbox[b][d])' : w \notin Members(outbound[b])'
    BY <1>1 DEF Members, OnceFor
  <2>8. \A w \in Waiting(b)' : answered'[b][w] = 0 /\ published'[b][w] # 0
    BY <1>0, <1>1, <2>3, <2>4 DEF OnceFor
  <2>9. \A w \in Updates : answered'[b][w] <= 1 /\ (answered'[b][w] # 0 => published'[b][w] # 0)
    BY <1>1, <2>2, <2>4, <2>5 DEF OnceFor
  <2> QED BY <1>2, <2>6, <2>7, <2>8, <2>9 DEF OnceFor
<1> QED BY <1>4, <1>5 DEF HandOver, Sent

LEMMA OnceDispatch ==
    ASSUME Scoped, RestartInv, AnswerTypeOK, NEW p \in Pollers, Dispatch(p), OnceFor(BotOf[p])
    PROVE  OnceFor(BotOf[p])'
<1>1. CASE CheckEmpty(p) \/ RemoveSession(p)
  <2>0. /\ BotOf[p] \in Bots /\ outbound \in [Bots -> Seq(Updates)]
        /\ inbox \in [Bots -> [Chats -> Seq(Updates)]] /\ carried \in [Pollers -> Updates \cup {0}]
    BY PollerAssumption DEF RestartInv, BridgeTypeOK
  <2>1. UNCHANGED <<inbox, outbound, answered, published, carried>>
    BY <1>1 DEF CheckEmpty, RemoveSession, vars, historyVars, agentVars, answerVars
  <2>2. Carried(BotOf[p])' = Carried(BotOf[p])
    BY <2>0, <2>1, CarriedSame
  <2>3. Waiting(BotOf[p]) \subseteq Updates
    BY <2>0 DEF Waiting, Carried, Members
  <2> QED BY <2>0, <2>1, <2>2, <2>3, OnceFrame
<1> QED BY <1>1, OnceTake, OnceHandOver DEF Dispatch

(* Every step keeps a message in one place.                                  *)
LEMMA OnceKept ==
    ASSUME Scoped, CursorInv, RestartInv, AnswerTypeOK, InboxInv, OnceInv, [RestartNext]_allVars
    PROVE  OnceInv'
<1> SUFFICES ASSUME NothingLost', NEW b \in Bots PROVE OnceFor(b)'
  BY DEF OnceInv
<1>1. NothingLost
  BY StepIsACursorStep, LostBefore
<1>2. OnceFor(b)
  BY <1>1 DEF OnceInv
<1>3. ASSUME NEW p \in Pollers, BotOf[p] = b, PublishUpdate(p) PROVE OnceFor(b)'
  BY <1>1, <1>2, <1>3, OncePublish
<1>4. ASSUME NEW p \in Pollers, BotOf[p] = b, Dispatch(p) PROVE OnceFor(b)'
  BY <1>2, <1>4, OnceDispatch
<1>5. ASSUME NEW c \in Chats, Turn(b, c) PROVE OnceFor(b)'
  BY <1>2, <1>5, OnceTurn
<1> QED BY <1>2, <1>3, <1>4, <1>5, OnceOthers

LEMMA InitOnce == RestartInit => AnswerTypeOK /\ InboxInv /\ OnceInv
<1> SUFFICES ASSUME RestartInit PROVE AnswerTypeOK /\ InboxInv /\ OnceInv
  OBVIOUS
<1> USE DEF RestartInit, BridgeInit, Init
<1>1. AnswerTypeOK
  BY DEF AnswerTypeOK, NoEntries
<1>2. InboxInv
  BY MembersEmpty DEF InboxInv, NoEntries
<1>3. ASSUME NEW b \in Bots PROVE OnceFor(b)
  <2>1. outbound[b] = <<>> /\ \A c \in Chats : inbox[b][c] = <<>>
    BY DEF NoEntries
  <2>2. Distinct(<<>>) /\ Members(<<>>) = {}
    BY MembersEmpty DEF Distinct
  <2>3. Waiting(b) = {} /\ Carried(b) = {}
    BY <2>1, <2>2 DEF Waiting, Carried
  <2>4. \A u \in Updates : answered[b][u] = 0
    OBVIOUS
  <2> QED BY <2>1, <2>2, <2>3, <2>4 DEF OnceFor
<1> QED BY <1>1, <1>2, <1>3 DEF OnceInv

(* In every reachable state.                                                 *)
LEMMA OnceInvariant ==
    ASSUME Scoped
    PROVE  RestartSpec => [](AnswerTypeOK /\ InboxInv /\ OnceInv)
<1> DEFINE I == AnswerTypeOK /\ InboxInv /\ OnceInv
<1>1. CursorInv /\ RestartInv /\ I /\ [RestartNext]_allVars => I'
  BY AnswerTypesKept, InboxKept, OnceKept
<1>2. RestartSpec => []CursorInv
  BY RestartsKeepTheCursor, CursorInvariant, PTL
<1> QED BY <1>1, <1>2, InitOnce, RestartInvariant, PTL DEF RestartSpec

(* As long as no crash, failed write or misread lost an offset, a person gets *)
(* at most one answer to a message, whatever stops, time-outs and late       *)
(* answers come in between (plugin.rs:787-801, 1374-1397).                   *)
THEOREM NoAnswerComesTwice ==
    ASSUME Scoped
    PROVE  RestartSpec => []AnsweredOnce
<1>1. OnceInv => AnsweredOnce
  BY DEF OnceInv, OnceFor, AnsweredOnce
<1> QED BY <1>1, OnceInvariant, PTL

-----------------------------------------------------------------------------
(* Every entry, in its queue or popped, is for an update below the offset: one *)
(* that was taken before.                                                   *)

Kept(p) == Entries(p) \cup Popped(p)

EntryFor(p) ==
    /\ pc[p] \in {"batch", "working"} => \A u \in batch[p] : offset[p] <= u
    /\ pc[p] = "working" => offset[p] = current[p] + 1
    /\ \A u \in Kept(p) : u < offset[p] /\ (pc[p] = "working" /\ u = current[p] => registered[p])
    /\ pc[p] = "down" => pending[p] = NoEntries /\ popped[p] = 0
    /\ registered[p] => Answerable(current[p])

EntryInv == \A p \in Pollers : EntryFor(p)

LEMMA NoEntriesHold ==
    ASSUME NEW p \in Pollers, pending[p] = NoEntries, popped[p] = 0
    PROVE  Kept(p) = {}
BY MembersEmpty DEF Kept, Entries, Popped, NoEntries

(* What a process does is invisible to the others' cursors.                 *)
LEMMA CursorFrame ==
    ASSUME CursorInv, NEW p \in Pollers, Step(p) \/ FetchOk(p) \/ FetchFails(p) \/ Stop(p) \/ Crash(p)
    PROVE  \A q \in Pollers \ {p} : /\ pc'[q] = pc[q] /\ current'[q] = current[q]
                                    /\ batch'[q] = batch[q] /\ offset'[q] = offset[q]
<1>1. /\ pc \in [Pollers -> Labels] /\ current \in [Pollers -> 0 .. N]
      /\ batch \in [Pollers -> SUBSET Updates] /\ offset \in [Pollers -> Offsets]
  BY DEF CursorInv, TypeOK
<1>2. CASE FetchOk(p)
  <2>1. \E s : batch' = [batch EXCEPT ![p] = s]
    BY <1>2 DEF FetchOk
  <2> QED BY <1>1, <1>2, <2>1 DEF FetchOk
<1>3. CASE Step(p) \/ FetchFails(p) \/ Stop(p) \/ Crash(p)
  BY <1>1, <1>3 DEF Step, Start, Misread, Begin, FetchFails, WakeUp, LeavePoll, TakeUpdate, Take,
                    FinishUpdate, EndBatch, Truncate, Write, Rename, SaveFails, Stop, Crash, LoopTop, Goto
<1> QED BY <1>2, <1>3

(* The steps of a process that keep it up and do not touch its entries.      *)
LEMMA EntryPolling ==
    ASSUME CursorInv, RestartInv, AnswerTypeOK, NEW p \in Pollers, Polling(p), EntryFor(p)
    PROVE  EntryFor(p)'
<1>0. /\ pc \in [Pollers -> Labels] /\ current \in [Pollers -> 0 .. N]
      /\ batch \in [Pollers -> SUBSET Updates] /\ offset \in [Pollers -> Offsets]
      /\ confirmed \in [Bots -> Offsets] /\ BotOf[p] \in Bots /\ offset[p] \in Nat /\ N \in Nat
      /\ \A u \in Updates : u \in Nat
  BY NAssumption, PollerAssumption DEF CursorInv, TypeOK, Offsets, Updates
<1>1. CASE pc'[p] = "down"
  <2>1. EndProcess(p)
    BY <1>1 DEF Polling
  <2>2. pending'[p] = NoEntries /\ ~registered'[p] /\ popped'[p] = 0
    <3>1. /\ pending \in [Pollers -> [Chats -> Seq(Updates)]] /\ registered \in [Pollers -> BOOLEAN]
          /\ popped \in [Pollers -> Updates \cup {0}]
      BY DEF AnswerTypeOK, RestartInv, BridgeTypeOK
    <3> QED BY <2>1, <3>1 DEF EndProcess, Drain
  <2>3. Kept(p)' = {}
    BY <2>2, MembersEmpty DEF Kept, Entries, Popped, NoEntries
  <2> QED BY <1>1, <2>2, <2>3 DEF EntryFor, NoEntries
<1>2. CASE pc'[p] # "down"
  <2>1. UNCHANGED bridgeVars /\ pc[p] # "working"
    BY <1>2, PollingFrame
  <2>2. ~registered[p] /\ ~registered'[p] /\ pending'[p] = pending[p] /\ popped'[p] = popped[p]
    BY <2>1 DEF RestartInv, KnownInv, bridgeVars, memoryVars, eventVars
  <2>3. Kept(p)' = Kept(p)
    BY <2>2 DEF Kept, Entries, Popped, Members
  <2>4. CASE Start(p) \/ Misread(p)
    <3>1. pc[p] = "down" /\ pc'[p] = "poll"
      BY <1>0, <2>4 DEF Start, Misread, Begin, Goto
    <3>2. Kept(p) = {}
      BY <3>1, NoEntriesHold DEF EntryFor
    <3> QED BY <2>2, <2>3, <3>1, <3>2 DEF EntryFor
  <2>5. CASE FetchOk(p)
    <3>1. offset' = offset /\ pc'[p] \in {"poll", "batch"}
      BY <1>0, <2>5 DEF FetchOk
    <3>2. batch'[p] \in Answer(p)
      BY <1>0, <2>5 DEF FetchOk
    <3>3. \A u \in batch'[p] : offset[p] <= u
      <4>1. \A u \in batch'[p] : Larger(confirmed[BotOf[p]], offset[p]) <= u /\ u \in Updates
        BY <3>2 DEF Answer
      <4>2. confirmed[BotOf[p]] \in Nat
        BY <1>0 DEF Offsets
      <4> QED BY <1>0, <4>1, <4>2 DEF Larger
    <3> QED BY <2>2, <2>3, <3>1, <3>3 DEF EntryFor
  <2>6. CASE TakeUpdate(p)
    <3>1. PICK u \in batch[p] : Oldest(p, u) /\ Take(p, u, u + 1)
      BY <2>6 DEF TakeUpdate
    <3>2. /\ pc[p] = "batch" /\ pc'[p] = "working" /\ current'[p] = u /\ batch'[p] = batch[p] \ {u}
          /\ offset'[p] = Larger(offset[p], u + 1) /\ u \in Updates
      BY <1>0, <3>1 DEF Take, Goto
    <3>3. offset[p] <= u
      BY <3>2 DEF EntryFor
    <3>4. offset'[p] = u + 1
      BY <1>0, <3>2, <3>3 DEF Larger
    <3>5. \A w \in batch'[p] : offset'[p] <= w
      <4>1. ASSUME NEW w \in batch'[p] PROVE u <= w /\ w # u /\ w \in Nat /\ u \in Nat
        BY <1>0, <3>1, <3>2 DEF Oldest
      <4> QED BY <3>4, <4>1
    <3>6. \A w \in Kept(p) : w < offset'[p] /\ w # u
      <4>1. ASSUME NEW w \in Kept(p) PROVE w < offset'[p] /\ w # u
        <5>1. w < offset[p] /\ w \in Updates
          BY EntriesTyped DEF EntryFor, Kept
        <5> QED BY <1>0, <3>2, <3>3, <3>4, <5>1
      <4> QED BY <4>1
    <3> QED BY <2>2, <2>3, <3>2, <3>4, <3>5, <3>6 DEF EntryFor
  <2>7. CASE \/ FetchFails(p) \/ WakeUp(p) \/ LeavePoll(p) \/ EndBatch(p)
             \/ Truncate(p) \/ Write(p) \/ Rename(p) \/ SaveFails(p) \/ Crash(p)
    <3>1. offset'[p] = offset[p] /\ pc'[p] \notin {"batch", "working"}
      BY <1>0, <1>2, <2>7 DEF FetchFails, WakeUp, LeavePoll, EndBatch, Truncate, Write, Rename, SaveFails,
                        Crash, LoopTop, Goto
    <3> QED BY <1>2, <2>2, <2>3, <3>1 DEF EntryFor
  <2> QED BY <2>4, <2>5, <2>6, <2>7 DEF Polling
<1> QED BY <1>1, <1>2

(* The same message in hand, and no more entries.                            *)
LEMMA EntryFrame ==
    ASSUME NEW p \in Pollers, EntryFor(p),
           pc'[p] = pc[p], current'[p] = current[p], batch'[p] = batch[p], offset'[p] = offset[p],
           registered'[p] = registered[p],
           \A c \in Chats : Members(pending'[p][c]) \subseteq Members(pending[p][c]),
           popped'[p] \in {popped[p], 0} \cup Entries(p),
           pc[p] = "down" => pending'[p] \in {pending[p], NoEntries} /\ popped'[p] \in {popped[p], 0}
    PROVE  EntryFor(p)'
<1>0. Entries(p)' \subseteq Entries(p)
  BY DEF Entries, Members
<1>1. Kept(p)' \subseteq Kept(p)
  BY <1>0 DEF Kept, Popped
<1> QED BY <1>1 DEF EntryFor, NoEntries

(* The entry of the message in hand is the first one not below the others.   *)
LEMMA EntryRegister ==
    ASSUME CursorInv, RestartInv, AnswerTypeOK, NEW p \in Pollers, Register(p), EntryFor(p)
    PROVE  EntryFor(p)'
<1> DEFINE u == current[p]  c == ChatOf[u]  q == Append(pending[p][c], u)
<1>0. /\ u \in Updates /\ c \in Chats /\ pc[p] = "working" /\ Answerable(u)
      /\ pending \in [Pollers -> [Chats -> Seq(Updates)]] /\ registered \in [Pollers -> BOOLEAN]
      /\ u \in Nat
  BY ChatOfAssumption, NAssumption
     DEF Register, CursorInv, PollerInv, CurrentInv, AnswerTypeOK, RestartInv, BridgeTypeOK, Updates
<1>1. /\ UNCHANGED <<pc, current, batch, offset, popped>> /\ registered'[p]
      /\ pending' = [pending EXCEPT ![p][c] = q]
  BY <1>0 DEF Register, vars, pollerVars, eventVars
<1>2. Members(q) = Members(pending[p][c]) \cup {u}
  BY <1>0, MembersAfterAppend
<1> HIDE DEF q
<1>3. ASSUME NEW d \in Chats PROVE Members(pending'[p][d]) \subseteq Entries(p) \cup {u}
  <2>1. pending'[p][d] = pending[p][d] \/ pending'[p][d] = q
    BY <1>0, <1>1
  <2> QED BY <1>0, <1>2, <2>1 DEF Entries
<1>4. Kept(p)' \subseteq Kept(p) \cup {u}
  <2>1. Entries(p)' \subseteq Entries(p) \cup {u}
    BY <1>3 DEF Entries, Members
  <2> QED BY <1>1, <2>1 DEF Kept, Popped
<1>5. offset[p] = u + 1
  BY <1>0 DEF EntryFor
<1> QED BY <1>0, <1>1, <1>4, <1>5 DEF EntryFor, Answerable

(* The message leaves the hand; its entry stays below the offset.             *)
LEMMA EntryPublish ==
    ASSUME CursorInv, RestartInv, AnswerTypeOK, NEW p \in Pollers, PublishUpdate(p), EntryFor(p)
    PROVE  EntryFor(p)'
<1> DEFINE u == current[p]  c == ChatOf[u]  q == Without(pending[p][c], u)
<1>0. /\ u \in Updates /\ c \in Chats /\ pc[p] = "working"
      /\ pc \in [Pollers -> Labels]
      /\ pending \in [Pollers -> [Chats -> Seq(Updates)]] /\ registered \in [Pollers -> BOOLEAN]
  BY ChatOfAssumption
     DEF PublishUpdate, FinishUpdate, CursorInv, TypeOK, PollerInv, CurrentInv, AnswerTypeOK,
         RestartInv, BridgeTypeOK
<1>1. UNCHANGED <<batch, offset>> /\ ~registered'[p] /\ pc'[p] = "batch"
  BY <1>0 DEF PublishUpdate, FinishUpdate, Goto
<1>2. /\ pending' = pending \/ pending' = [pending EXCEPT ![p][c] = q]
      /\ popped'[p] \in {popped[p], 0}
  <2>1. popped \in [Pollers -> Updates \cup {0}]
    BY DEF AnswerTypeOK
  <2> QED BY <2>1 DEF PublishUpdate, Unreachable
<1>3. Members(q) \subseteq Members(pending[p][c])
  BY <1>0, WithoutProperties
<1> HIDE DEF q
<1>4. ASSUME NEW d \in Chats PROVE Members(pending'[p][d]) \subseteq Members(pending[p][d])
  <2>1. pending'[p][d] = pending[p][d] \/ (d = c /\ pending'[p][d] = q)
    BY <1>0, <1>2
  <2> QED BY <1>3, <2>1
<1>5. Kept(p)' \subseteq Kept(p)
  <2>1. Entries(p)' \subseteq Entries(p)
    BY <1>4 DEF Entries, Members
  <2> QED BY <1>2, <2>1 DEF Kept, Popped
<1> QED BY <1>0, <1>1, <1>5 DEF EntryFor

(* Every step keeps the entries below the offset.                            *)
LEMMA EntryKept ==
    ASSUME CursorInv, RestartInv, AnswerTypeOK, EntryInv, [RestartNext]_allVars
    PROVE  EntryInv'
<1> SUFFICES ASSUME NEW q \in Pollers PROVE EntryFor(q)'
  BY DEF EntryInv
<1>0. /\ EntryFor(q) /\ BotOf \in [Pollers -> Bots] /\ ChatOf \in [Updates -> Chats]
      /\ pending \in [Pollers -> [Chats -> Seq(Updates)]] /\ registered \in [Pollers -> BOOLEAN]
      /\ popped \in [Pollers -> Updates \cup {0}]
  BY PollerAssumption, ChatOfAssumption DEF EntryInv, AnswerTypeOK, RestartInv, BridgeTypeOK
<1>1. CASE UNCHANGED <<pollerVars, registered, pending, popped>>
  BY <1>0, <1>1, EntryFrame DEF pollerVars
<1>2. ASSUME NEW p \in Pollers, p # q,
             Polling(p) \/ StopDrains(p) \/ Register(p) \/ PublishUpdate(p) \/ Dispatch(p)
             \/ \E u \in Updates : Expire(p, u)
      PROVE  EntryFor(q)'
  <2>1. \/ Step(p) \/ FetchOk(p) \/ FetchFails(p) \/ Stop(p) \/ Crash(p)
        \/ UNCHANGED vars
    BY <1>2 DEF Polling, StopDrains, Register, PublishUpdate, Dispatch, TakeEvent, CheckEmpty,
                RemoveSession, HandOver, Expire, Step
  <2>2. pc'[q] = pc[q] /\ current'[q] = current[q] /\ batch'[q] = batch[q] /\ offset'[q] = offset[q]
    BY <1>2, <2>1, CursorFrame DEF vars, pollerVars
  <2>3. registered'[q] = registered[q]
    BY <1>0, <1>2 DEF Polling, EndProcess, bridgeVars, memoryVars, StopDrains, Register, PublishUpdate,
                      Dispatch, TakeEvent, CheckEmpty, RemoveSession, HandOver, Expire
  <2>4. pending'[q] = pending[q]
    BY <1>0, <1>2 DEF Polling, EndProcess, Drain, bridgeVars, memoryVars, StopDrains, Register,
                      PublishUpdate, Dispatch, TakeEvent, Pop, CheckEmpty, RemoveSession, HandOver, Expire
  <2>5. popped'[q] = popped[q]
    BY <1>0, <1>2 DEF Polling, EndProcess, bridgeVars, eventVars, StopDrains, Register, PublishUpdate,
                      Unreachable, Dispatch, TakeEvent, Pop, CheckEmpty, RemoveSession, HandOver, Expire
  <2> QED BY <1>0, <2>2, <2>3, <2>4, <2>5, EntryFrame
<1>3. CASE Polling(q)
  BY <1>0, <1>3, EntryPolling
<1>4. CASE StopDrains(q)
  <2>1. /\ UNCHANGED <<pc, current, batch, offset, registered, popped>>
        /\ pending'[q] = NoEntries
    BY <1>0, <1>4 DEF StopDrains, Stop, Drain, eventVars
  <2>2. \A c \in Chats : Members(pending'[q][c]) = {}
    BY <2>1, MembersEmpty DEF NoEntries
  <2> QED BY <1>0, <2>1, <2>2, EntryFrame
<1>5. CASE Register(q)
  BY <1>0, <1>5, EntryRegister
<1>6. CASE PublishUpdate(q)
  BY <1>0, <1>6, EntryPublish
<1>7. CASE Dispatch(q)
  <2>1. UNCHANGED <<pc, current, batch, offset, registered>>
    BY <1>7 DEF Dispatch, TakeEvent, CheckEmpty, RemoveSession, HandOver, vars, pollerVars, memoryVars
  <2>2. CASE TakeEvent(q)
    <3>1. PICK c \in Chats, u \in Updates \cup {0} : Pop(q, c, u) /\ pc[q] # "down"
      BY <2>2, TakenEvent DEF RestartInv, TakeEvent
    <3>2. CASE UNCHANGED <<pending, popped>>
      BY <1>0, <2>1, <3>1, <3>2, EntryFrame
    <3>3. CASE /\ pending[q][c] # <<>> /\ pending' = [pending EXCEPT ![q][c] = Tail(pending[q][c])]
               /\ popped' = [popped EXCEPT ![q] = Head(pending[q][c])]
      <4>1. /\ Members(Tail(pending[q][c])) \subseteq Members(pending[q][c])
            /\ Head(pending[q][c]) \in Members(pending[q][c])
        BY <1>0, <3>3, MembersTail
      <4>2. ASSUME NEW d \in Chats PROVE Members(pending'[q][d]) \subseteq Members(pending[q][d])
        <5>1. \/ pending'[q][d] = pending[q][d]
              \/ d = c /\ pending'[q][d] = Tail(pending[q][c])
          BY <1>0, <3>3
        <5> QED BY <4>1, <5>1
      <4>3. popped'[q] \in Entries(q)
        BY <1>0, <3>3, <4>1 DEF Entries
      <4> QED BY <1>0, <2>1, <3>1, <4>2, <4>3, EntryFrame
    <3> QED BY <3>1, <3>2, <3>3 DEF Pop
  <2>3. CASE CheckEmpty(q)
    BY <1>0, <2>1, <2>3, EntryFrame DEF CheckEmpty, memoryVars
  <2>4. CASE RemoveSession(q)
    <3> DEFINE c == session[q]
    <3>1. pending' = [pending EXCEPT ![q][c] = <<>>] /\ UNCHANGED popped
      BY <2>4 DEF RemoveSession
    <3>2. ASSUME NEW d \in Chats
          PROVE  /\ pending'[q][d] = pending[q][d] \/ pending'[q][d] = <<>>
                 /\ Members(pending'[q][d]) \subseteq Members(pending[q][d])
      <4>1. pending'[q][d] = pending[q][d] \/ pending'[q][d] = <<>>
        BY <1>0, <3>1
      <4> QED BY <4>1, MembersEmpty
    <3>3. pending[q] = NoEntries => pending'[q] = NoEntries
      <4>1. pending'[q] = [pending[q] EXCEPT ![c] = <<>>]
        BY <1>0, <3>1
      <4> QED BY <4>1 DEF NoEntries
    <3>4. pc[q] = "down" => pending'[q] \in {pending[q], NoEntries}
      BY <1>0, <3>3 DEF EntryFor
    <3> QED BY <1>0, <2>1, <3>1, <3>2, <3>4, EntryFrame
  <2>5. CASE HandOver(q)
    <3>1. UNCHANGED pending /\ popped'[q] = 0
      BY <1>0, <2>5 DEF HandOver, memoryVars
    <3> QED BY <1>0, <2>1, <3>1, EntryFrame
  <2> QED BY <1>7, <2>2, <2>3, <2>4, <2>5 DEF Dispatch
<1>8. ASSUME NEW u \in Updates, Expire(q, u) PROVE EntryFor(q)'
  <2> DEFINE c == ChatOf[u]
  <2>1. /\ UNCHANGED <<pc, current, batch, offset, registered>> /\ c \in Chats
        /\ u \in Members(pending[q][c]) \/ popped[q] = u
    BY <1>0, <1>8 DEF Expire, vars, pollerVars
  <2>2. pc[q] # "down"
    <3>1. u # 0
      BY DEF Updates
    <3> QED BY <1>0, <2>1, <3>1, MembersEmpty DEF EntryFor, NoEntries
  <2>3. /\ pending' = [pending EXCEPT ![q][c] = Without(pending[q][c], u)]
        /\ popped'[q] \in {popped[q], 0}
    BY <1>0, <1>8 DEF Expire, Unreachable
  <2>4. Members(Without(pending[q][c], u)) \subseteq Members(pending[q][c])
    BY <1>0, <2>1, WithoutProperties
  <2>5. \A d \in Chats : Members(pending'[q][d]) \subseteq Members(pending[q][d])
    BY <1>0, <2>1, <2>3, <2>4
  <2> QED BY <1>0, <2>1, <2>2, <2>3, <2>5, EntryFrame
<1>9. ASSUME NEW b \in Bots, NEW c \in Chats, Turn(b, c) PROVE UNCHANGED <<pollerVars, registered, pending, popped>>
  BY <1>9 DEF Turn, vars, memoryVars, eventVars
<1>10. ASSUME NEW b \in Bots, Arrive(b), UNCHANGED bridgeVars
       PROVE  UNCHANGED <<pollerVars, registered, pending, popped>>
  BY <1>10 DEF Arrive, bridgeVars, memoryVars, eventVars
<1>11. CASE UNCHANGED allVars
  BY <1>1, <1>11 DEF allVars, vars, bridgeVars, memoryVars, eventVars
<1> QED
  BY <1>1, <1>2, <1>3, <1>4, <1>5, <1>6, <1>7, <1>8, <1>9, <1>10, <1>11 DEF RestartNext

-----------------------------------------------------------------------------
(* A quiet chat, where no entry and no answer was ever lost: its entries are, *)
(* in order, the messages still on their way and the one in hand, and an     *)
(* answer in the dispatcher has popped the entry of its own message.         *)

Quiet(b, c) == \A w \in gone[b] : ChatOf[w] # c

Held(p, c) == IF registered[p] /\ ChatOf[current[p]] = c THEN {current[p]} ELSE {}

OfChat(q, c) == {u \in Members(q) : ChatOf[u] = c}

Way(b, c) == Members(inbox[b][c]) \cup OfChat(outbound[b], c)

Ordered(q, c) ==
    \A i, j \in DOMAIN q : i < j /\ ChatOf[q[i]] = c /\ ChatOf[q[j]] = c => q[i] < q[j]

Matched(p, c) ==
    carried[p] # 0 /\ session[p] = c => popped[p] = carried[p] /\ carried[p] \notin Held(p, c)

Paired(p, c) == LET b == BotOf[p] IN
    /\ Matched(p, c)
    /\ Increasing(pending[p][c])
    /\ Members(pending[p][c]) = Way(b, c) \cup Held(p, c)
    /\ Held(p, c) \cap Way(b, c) = {}
    /\ Increasing(inbox[b][c])
    /\ Ordered(outbound[b], c)
    /\ \A u \in OfChat(outbound[b], c), w \in Members(inbox[b][c]) : u < w

PairInv == \A p \in Pollers, c \in Chats : Quiet(BotOf[p], c) => Paired(p, c)

LEMMA MatchedFrame ==
    ASSUME NEW p \in Pollers, NEW c \in Chats, Matched(p, c), Held(p, c)' \subseteq Held(p, c),
           \/ carried'[p] = 0
           \/ carried'[p] = carried[p] /\ session'[p] = session[p] /\ popped'[p] = popped[p]
    PROVE  Matched(p, c)'
BY DEF Matched

(* A step that leaves the chat's queues and the message in hand alone.       *)
LEMMA PairFrame ==
    ASSUME NEW p \in Pollers, NEW c \in Chats, Paired(p, c), pending'[p][c] = pending[p][c],
           inbox'[BotOf[p]][c] = inbox[BotOf[p]][c], outbound'[BotOf[p]] = outbound[BotOf[p]],
           registered'[p] = registered[p], registered[p] => current'[p] = current[p],
           \/ carried'[p] = 0
           \/ session'[p] # c
           \/ carried'[p] = carried[p] /\ session'[p] = session[p] /\ popped'[p] = popped[p]
    PROVE  Paired(p, c)'
<1>1. Held(p, c)' = Held(p, c)
  BY DEF Held
<1>2. Way(BotOf[p], c)' = Way(BotOf[p], c) /\ OfChat(outbound[BotOf[p]], c)' = OfChat(outbound[BotOf[p]], c)
  BY DEF Way, OfChat, Members
<1>3. /\ Increasing(pending[p][c])' /\ Increasing(inbox[BotOf[p]][c])' /\ Ordered(outbound[BotOf[p]], c)'
  BY DEF Paired, Increasing, Ordered
<1>4. /\ Members(pending[p][c])' = Members(pending[p][c])
      /\ Members(inbox[BotOf[p]][c])' = Members(inbox[BotOf[p]][c])
  BY DEF Members
<1>5. Matched(p, c)'
  BY <1>1 DEF Paired, Matched
<1> QED BY <1>1, <1>2, <1>3, <1>4, <1>5 DEF Paired

(* The entries of a paired chat are of that chat.                           *)
LEMMA EntriesOfChat ==
    ASSUME RestartInv, InboxInv, NEW p \in Pollers, NEW c \in Chats, Paired(p, c),
           NEW u \in Members(pending[p][c])
    PROVE  ChatOf[u] = c
<1>1. BotOf[p] \in Bots
  BY PollerAssumption
<1> QED BY <1>1 DEF Paired, Way, Held, OfChat, InboxInv

(* The elements of one chat in a queue of many.                             *)
LEMMA OrderedAppend ==
    ASSUME NEW s \in Seq(Updates), NEW u \in Updates, NEW c \in Chats, Ordered(s, c)
    PROVE  /\ OfChat(Append(s, u), c) = OfChat(s, c) \cup (IF ChatOf[u] = c THEN {u} ELSE {})
           /\ (\A w \in OfChat(s, c) : ChatOf[u] = c => w < u) => Ordered(Append(s, u), c)
<1> DEFINE t == Append(s, u)
<1>1. /\ \A i \in DOMAIN s : i \in DOMAIN t /\ t[i] = s[i] /\ i < Len(s) + 1
      /\ \A i \in DOMAIN t : i \in DOMAIN s \/ i = Len(s) + 1
      /\ Len(s) + 1 \in DOMAIN t /\ t[Len(s) + 1] = u
      /\ Len(s) \in Nat /\ \A i \in DOMAIN t : i \in Nat /\ i <= Len(s) + 1
  BY AppendIndices
<1>2. Members(t) = Members(s) \cup {u}
  BY MembersAfterAppend
<1> HIDE DEF t
<1>3. ASSUME \A w \in OfChat(s, c) : ChatOf[u] = c => w < u,
             NEW i \in DOMAIN t, NEW j \in DOMAIN t, i < j, ChatOf[t[i]] = c, ChatOf[t[j]] = c
      PROVE  t[i] < t[j]
  <2>1. i \in DOMAIN s /\ t[i] = s[i]
    BY <1>1, <1>3
  <2>2. CASE j = Len(s) + 1
    <3>1. s[i] \in OfChat(s, c)
      BY <1>3, <2>1 DEF OfChat, Members
    <3> QED BY <1>1, <1>3, <2>1, <2>2, <3>1
  <2>3. CASE j \in DOMAIN s
    BY <1>1, <1>3, <2>1, <2>3 DEF Ordered
  <2> QED BY <1>1, <2>2, <2>3
<1> QED BY <1>2, <1>3 DEF t, Ordered, OfChat

LEMMA OrderedTail ==
    ASSUME NEW s \in Seq(Updates), s # <<>>, NEW c \in Chats, Ordered(s, c)
    PROVE  /\ Ordered(Tail(s), c)
           /\ ChatOf[Head(s)] # c => OfChat(Tail(s), c) = OfChat(s, c)
           /\ ChatOf[Head(s)] = c => /\ OfChat(Tail(s), c) = OfChat(s, c) \ {Head(s)}
                                     /\ \A w \in OfChat(Tail(s), c) : Head(s) < w
<1> DEFINE h == Head(s)
           t == Tail(s)
<1>1. /\ 1 \in DOMAIN s /\ h = s[1] /\ h \in Updates /\ t \in Seq(Updates)
      /\ \A i \in DOMAIN t : i \in Nat /\ 1 < i + 1 /\ i + 1 \in DOMAIN s /\ t[i] = s[i + 1]
      /\ \A i \in DOMAIN s : i = 1 \/ (i - 1 \in DOMAIN t /\ t[i - 1] = s[i])
  BY TailIndices
<1>2. Members(s) = Members(t) \cup {h}
  BY MembersAfterTail
<1>3. h \in Nat
  BY <1>1, NAssumption DEF Updates
<1> HIDE DEF h, t
<1>4. ASSUME NEW i \in DOMAIN t, NEW j \in DOMAIN t, i < j, ChatOf[t[i]] = c, ChatOf[t[j]] = c
      PROVE  t[i] < t[j]
  <2>1. i + 1 < j + 1
    BY <1>1, <1>4
  <2> QED BY <1>1, <1>4, <2>1 DEF Ordered
<1>5. ASSUME ChatOf[h] = c, NEW w \in OfChat(t, c) PROVE h < w
  <2>1. PICK i \in DOMAIN t : t[i] = w
    BY DEF OfChat, Members
  <2>2. ChatOf[w] = c
    BY DEF OfChat
  <2> QED BY <1>1, <1>5, <2>1, <2>2 DEF Ordered
<1>6. ChatOf[h] = c => h \notin OfChat(t, c)
  BY <1>3, <1>5
<1>7. Ordered(t, c)
  BY <1>4 DEF Ordered
<1>8. ChatOf[h] # c => OfChat(t, c) = OfChat(s, c)
  BY <1>2 DEF OfChat
<1>9. ChatOf[h] = c => OfChat(t, c) = OfChat(s, c) \ {h}
  BY <1>2, <1>6 DEF OfChat
<1> QED BY <1>5, <1>7, <1>8, <1>9 DEF h, t

(* What is drained is gone: a chat that stays quiet had nothing to drain.    *)
LEMMA PairDrain ==
    ASSUME AnswerTypeOK, RestartInv, InboxInv, NEW p \in Pollers, NEW c \in Chats,
           Drain(p), Quiet(BotOf[p], c)', Entries(p) \subseteq gone'[BotOf[p]],
           Paired(p, c), Matched(p, c)',
           inbox'[BotOf[p]] = inbox[BotOf[p]],
           outbound'[BotOf[p]] = outbound[BotOf[p]] \/ outbound'[BotOf[p]] = <<>>,
           registered'[p] => registered[p] /\ current'[p] = current[p]
    PROVE  Paired(p, c)'
<1> DEFINE b == BotOf[p]
<1>0. /\ b \in Bots /\ gone \in [Bots -> SUBSET Updates] /\ inbox[b][c] \in Seq(Updates)
      /\ pending \in [Pollers -> [Chats -> Seq(Updates)]]
  BY PollerAssumption DEF AnswerTypeOK, RestartInv, BridgeTypeOK
<1>1. pending'[p][c] = <<>>
  BY <1>0 DEF Drain, NoEntries
<1>2. Paired(p, c)
  OBVIOUS
<1>3. ASSUME NEW u \in Members(pending[p][c]) PROVE FALSE
  <2>1. ChatOf[u] = c
    BY <1>2, EntriesOfChat
  <2>2. u \in gone'[b]
    BY DEF Entries
  <2> QED BY <2>1, <2>2 DEF Quiet
<1>4. Way(b, c) = {} /\ Held(p, c) = {}
  BY <1>2, <1>3 DEF Paired
<1>5. Held(p, c)' = {}
  BY <1>4 DEF Held
<1>6. Members(inbox[b][c])' = {} /\ OfChat(outbound[b], c)' = {}
  <2>1. Members(inbox[b][c]) = {} /\ OfChat(outbound[b], c) = {}
    BY <1>4 DEF Way
  <2>2. Members(inbox[b][c])' = Members(inbox[b][c])
    BY DEF Members
  <2>3. CASE outbound'[b] = outbound[b]
    BY <2>1, <2>2, <2>3 DEF OfChat, Members
  <2>4. CASE outbound'[b] = <<>>
    <3>1. Members(outbound[b])' = {}
      BY <2>4, MembersEmpty DEF Members
    <3> QED BY <2>1, <2>2, <3>1 DEF OfChat
  <2> QED BY <2>3, <2>4
<1>7. Way(b, c)' = {}
  BY <1>6 DEF Way
<1>8. Increasing(pending[p][c])' /\ Members(pending[p][c])' = {}
  BY <1>1, MembersEmpty DEF Increasing, Members
<1>9. Increasing(inbox[b][c])'
  BY <1>2 DEF Paired, Increasing
<1>10. Ordered(outbound[b], c)'
  BY <1>2 DEF Paired, Ordered
<1> QED BY <1>5, <1>6, <1>7, <1>8, <1>9, <1>10 DEF Paired

(* The message in hand gets the newest entry of its chat.                    *)
LEMMA PairRegister ==
    ASSUME CursorInv, RestartInv, AnswerTypeOK, EntryInv, NEW p \in Pollers, NEW c \in Chats,
           Register(p), Paired(p, c)
    PROVE  Paired(p, c)'
<1> DEFINE b == BotOf[p]  u == current[p]
<1>0. /\ u \in Updates /\ ChatOf[u] \in Chats /\ pc[p] = "working" /\ ~registered[p]
      /\ pending \in [Pollers -> [Chats -> Seq(Updates)]] /\ registered \in [Pollers -> BOOLEAN]
      /\ u \in Nat /\ pending[p][c] \in Seq(Updates) /\ EntryFor(p)
  BY ChatOfAssumption, NAssumption
     DEF Register, CursorInv, PollerInv, CurrentInv, AnswerTypeOK, RestartInv, BridgeTypeOK, Updates, EntryInv
<1>1. /\ UNCHANGED <<current, inbox, outbound, session, carried, popped>> /\ registered'[p]
      /\ pending' = [pending EXCEPT ![p][ChatOf[u]] = Append(pending[p][ChatOf[u]], u)]
  BY <1>0 DEF Register, vars, pollerVars, eventVars, agentVars
<1>2. /\ Way(b, c)' = Way(b, c) /\ OfChat(outbound[b], c)' = OfChat(outbound[b], c)
      /\ Members(inbox[b][c])' = Members(inbox[b][c])
  BY <1>1 DEF Way, OfChat, Members
<1>3. Increasing(inbox[b][c])' /\ Ordered(outbound[b], c)'
  BY <1>1 DEF Paired, Increasing, Ordered
<1>4. Held(p, c) = {} /\ Held(p, c)' \subseteq {u}
  BY <1>0, <1>1 DEF Held
<1>7. Matched(p, c)'
  <2>1. ASSUME carried[p] # 0, session[p] = c PROVE popped[p] = carried[p] /\ carried[p] # u
    <3>1. popped[p] = carried[p] /\ popped[p] \in Kept(p)
      BY <2>1 DEF Paired, Matched, Kept, Popped
    <3> QED BY <1>0, <3>1 DEF EntryFor
  <2> QED BY <1>1, <1>4, <2>1 DEF Matched
<1>5. CASE ChatOf[u] # c
  <2>1. pending'[p][c] = pending[p][c]
    BY <1>0, <1>1, <1>5
  <2>2. Held(p, c)' = {}
    BY <1>1, <1>5 DEF Held
  <2>3. Increasing(pending[p][c])' /\ Members(pending[p][c])' = Members(pending[p][c])
    BY <2>1 DEF Paired, Increasing, Members
  <2> QED BY <1>2, <1>3, <1>4, <1>7, <2>2, <2>3 DEF Paired
<1>6. CASE ChatOf[u] = c
  <2>1. pending'[p][c] = Append(pending[p][c], u)
    BY <1>0, <1>1, <1>6
  <2>2. Held(p, c)' = {u}
    BY <1>1, <1>6 DEF Held
  <2>3. ASSUME NEW w \in Members(pending[p][c]) PROVE w < u
    <3>1. w \in Kept(p) /\ w \in Updates
      BY <1>0 DEF Kept, Entries, Members
    <3>2. w < offset[p] /\ w # u /\ offset[p] = u + 1
      BY <1>0, <3>1 DEF EntryFor
    <3> QED BY <1>0, <3>1, <3>2, NAssumption DEF Updates
  <2>4. u \notin Way(b, c)
    BY <1>0, <2>3 DEF Paired
  <2>5. Increasing(Append(pending[p][c], u)) /\ Members(Append(pending[p][c], u)) = Members(pending[p][c]) \cup {u}
    BY <1>0, <2>3, MembersAfterAppend DEF Paired
  <2>6. Increasing(pending[p][c])' /\ Members(pending[p][c])' = Members(pending[p][c]) \cup {u}
    BY <2>1, <2>5 DEF Increasing, Members
  <2> QED BY <1>2, <1>3, <1>4, <1>7, <2>2, <2>4, <2>6 DEF Paired
<1> QED BY <1>5, <1>6

(* It goes on its way, or takes its entry back.                              *)
LEMMA PairPublish ==
    ASSUME CursorInv, RestartInv, AnswerTypeOK, EntryInv, NEW p \in Pollers, NEW c \in Chats,
           PublishUpdate(p), Paired(p, c)
    PROVE  Paired(p, c)'
<1> DEFINE b == BotOf[p]  u == current[p]
<1>0. /\ u \in Updates /\ ChatOf[u] \in Chats /\ pc[p] = "working" /\ b \in Bots
      /\ pending \in [Pollers -> [Chats -> Seq(Updates)]] /\ registered \in [Pollers -> BOOLEAN]
      /\ u \in Nat /\ pending[p][c] \in Seq(Updates) /\ EntryFor(p) /\ inbox[b][c] \in Seq(Updates)
      /\ inbox \in [Bots -> [Chats -> Seq(Updates)]]
  <2>1. pc[p] = "working" /\ EntryFor(p)
    BY DEF PublishUpdate, FinishUpdate, EntryInv
  <2>2. u \in Updates /\ ChatOf[u] \in Chats /\ u \in Nat /\ b \in Bots
    BY <2>1, ChatOfAssumption, NAssumption, PollerAssumption DEF CursorInv, PollerInv, CurrentInv, Updates
  <2>3. /\ pending \in [Pollers -> [Chats -> Seq(Updates)]] /\ registered \in [Pollers -> BOOLEAN]
        /\ inbox \in [Bots -> [Chats -> Seq(Updates)]]
    BY DEF AnswerTypeOK, RestartInv, BridgeTypeOK
  <2> QED BY <2>1, <2>2, <2>3
<1>1. UNCHANGED outbound /\ ~registered'[p]
  BY <1>0 DEF PublishUpdate
<1>7. Matched(p, c)'
  <2>1. popped \in [Pollers -> Updates \cup {0}]
    BY DEF AnswerTypeOK
  <2>2. /\ UNCHANGED <<session, carried>>
        /\ popped'[p] = popped[p] \/ (popped[p] = u /\ popped'[p] = 0)
    BY <2>1 DEF PublishUpdate, Unreachable
  <2>3. Held(p, c)' = {}
    BY <1>1 DEF Held
  <2>4. ASSUME carried[p] # 0, session[p] = c PROVE popped[p] = carried[p] /\ popped[p] # u
    <3>1. popped[p] = carried[p] /\ carried[p] \notin Held(p, c) /\ ChatOf[carried[p]] = c
      BY <2>4 DEF Paired, Matched, RestartInv, EventInv
    <3>2. ASSUME popped[p] = u PROVE FALSE
      <4>1. popped[p] \in Kept(p)
        BY <2>4, <3>1 DEF Kept, Popped
      <4>2. registered[p]
        BY <1>0, <3>2, <4>1 DEF EntryFor
      <4> QED BY <3>1, <3>2, <4>2 DEF Held
    <3> QED BY <3>1, <3>2
  <2> QED BY <2>2, <2>3, <2>4 DEF Matched
<1>2. Held(p, c)' = {} /\ OfChat(outbound[b], c)' = OfChat(outbound[b], c) /\ Ordered(outbound[b], c)'
  BY <1>1 DEF Held, OfChat, Members, Paired, Ordered
<1>3. \/ inbox' = inbox /\ pending' = pending /\ ~Answerable(u)
      \/ /\ inbox' = inbox
         /\ pending' = [pending EXCEPT ![p][ChatOf[u]] = Without(pending[p][ChatOf[u]], u)]
      \/ /\ Answerable(u) /\ pending' = pending
         /\ inbox' = [inbox EXCEPT ![b][ChatOf[u]] = Append(inbox[b][ChatOf[u]], u)]
  BY DEF PublishUpdate
<1>4. registered[p] <=> Answerable(u)
  BY <1>0 DEF PublishUpdate, EntryFor
<1>5. CASE ~registered[p] \/ ChatOf[u] # c
  <2>1. Held(p, c) = {}
    BY <1>5 DEF Held
  <2>2. inbox'[b][c] = inbox[b][c]
    <3>1. inbox' = inbox \/ ChatOf[u] # c
      BY <1>3, <1>4, <1>5
    <3>2. \E s : inbox' = inbox \/ inbox' = [inbox EXCEPT ![b][ChatOf[u]] = s]
      BY <1>3
    <3> QED BY <1>0, <3>1, <3>2
  <2>3. pending'[p][c] = pending[p][c]
    <3>1. CASE ChatOf[u] # c
      BY <1>0, <1>3, <3>1
    <3>2. CASE ChatOf[u] = c /\ ~registered[p]
      <4>1. u \notin Members(pending[p][c])
        BY <1>0, <3>2 DEF EntryFor, Kept, Entries
      <4>2. Without(pending[p][c], u) = pending[p][c]
        BY <4>1 DEF Without
      <4> QED BY <1>0, <1>3, <1>4, <3>2, <4>2
    <3> QED BY <1>5, <3>1, <3>2
  <2>4. /\ Increasing(pending[p][c])' /\ Members(pending[p][c])' = Members(pending[p][c])
        /\ Increasing(inbox[b][c])' /\ Members(inbox[b][c])' = Members(inbox[b][c])
    BY <2>2, <2>3 DEF Paired, Increasing, Members
  <2>5. Way(b, c)' = Way(b, c)
    BY <1>2, <2>4 DEF Way
  <2> QED BY <1>2, <1>7, <2>1, <2>4, <2>5 DEF Paired
<1>6. CASE registered[p] /\ ChatOf[u] = c
  <2>1. Held(p, c) = {u}
    BY <1>6 DEF Held
  <2>2. ASSUME NEW w \in Way(b, c) PROVE w < u
    <3>1. w \in Members(pending[p][c]) /\ w # u
      BY <2>1 DEF Paired
    <3>2. w \in Kept(p) /\ w \in Updates
      BY <1>0, <3>1 DEF Kept, Entries, Members
    <3>3. w < offset[p] /\ offset[p] = u + 1
      BY <1>0, <3>2 DEF EntryFor
    <3> QED BY <1>0, <3>1, <3>2, <3>3, NAssumption DEF Updates
  <2>3. CASE inbox' = inbox
    <3>1. pending'[p][c] = Without(pending[p][c], u)
      BY <1>0, <1>3, <1>4, <1>6, <2>3
    <3>2. /\ Increasing(Without(pending[p][c], u))
          /\ Members(Without(pending[p][c], u)) = Members(pending[p][c]) \ {u}
      BY <1>0, WithoutProperties DEF Paired
    <3>3. /\ Increasing(pending[p][c])' /\ Members(pending[p][c])' = Members(pending[p][c]) \ {u}
          /\ Increasing(inbox[b][c])' /\ Members(inbox[b][c])' = Members(inbox[b][c])
      BY <2>3, <3>1, <3>2 DEF Paired, Increasing, Members
    <3>4. Way(b, c)' = Way(b, c)
      BY <1>2, <3>3 DEF Way
    <3> QED BY <1>2, <1>7, <2>1, <3>3, <3>4 DEF Paired
  <2>4. CASE /\ pending' = pending
             /\ inbox' = [inbox EXCEPT ![b][ChatOf[u]] = Append(inbox[b][ChatOf[u]], u)]
    <3>1. inbox'[b][c] = Append(inbox[b][c], u)
      BY <1>0, <1>6, <2>4
    <3>2. /\ Members(Append(inbox[b][c], u)) = Members(inbox[b][c]) \cup {u}
          /\ Increasing(Append(inbox[b][c], u))
      BY <1>0, <2>2, MembersAfterAppend DEF Paired, Way
    <3>3. /\ Increasing(pending[p][c])' /\ Members(pending[p][c])' = Members(pending[p][c])
          /\ Increasing(inbox[b][c])' /\ Members(inbox[b][c])' = Members(inbox[b][c]) \cup {u}
      BY <2>4, <3>1, <3>2 DEF Paired, Increasing, Members
    <3>4. Way(b, c)' = Way(b, c) \cup {u}
      BY <1>2, <3>3 DEF Way
    <3>5. \A w \in OfChat(outbound[b], c) : w < u
      BY <2>2 DEF Way
    <3> QED BY <1>2, <1>7, <2>1, <3>3, <3>4, <3>5 DEF Paired
  <2> QED BY <1>3, <1>4, <1>6, <2>3, <2>4
<1> QED BY <1>5, <1>6

(* No turn is silent in a quiet chat, and no answer of it lost.              *)
LEMMA PairTurn ==
    ASSUME RestartInv, AnswerTypeOK, InboxInv, NEW p \in Pollers, NEW c \in Chats,
           NEW d \in Chats, Turn(BotOf[p], d), Paired(p, c), Quiet(BotOf[p], c)'
    PROVE  Paired(p, c)'
<1> DEFINE b == BotOf[p]
<1>0. /\ b \in Bots /\ inbox \in [Bots -> [Chats -> Seq(Updates)]] /\ outbound \in [Bots -> Seq(Updates)]
      /\ inbox[b][d] \in Seq(Updates) /\ outbound[b] \in Seq(Updates) /\ inbox[b][d] # <<>>
  BY PollerAssumption DEF RestartInv, BridgeTypeOK, Turn
<1> DEFINE t == Tail(inbox[b][d])
<1>1. PICK u \in Updates : u = Head(inbox[b][d])
  BY <1>0, MembersAfterTail
<1>2. /\ u \in Members(inbox[b][d]) /\ Members(inbox[b][d]) = Members(t) \cup {u}
      /\ Increasing(inbox[b][d]) => Increasing(t) /\ \A w \in Members(t) : u < w
  BY <1>0, <1>1, MembersAfterTail
<1> HIDE DEF t
<1>3. ChatOf[u] = d
  BY <1>0, <1>2 DEF InboxInv
<1>4. UNCHANGED <<registered, current, pending, session, carried, popped>> /\ inbox' = [inbox EXCEPT ![b][d] = t]
  BY DEF Turn, vars, pollerVars, memoryVars, eventVars, t
<1>5. /\ Held(p, c)' = Held(p, c)
      /\ Increasing(pending[p][c])' /\ Members(pending[p][c])' = Members(pending[p][c])
      /\ Matched(p, c)'
  <2>1. Held(p, c)' = Held(p, c)
    BY <1>4 DEF Held
  <2>2. Matched(p, c)'
    BY <1>4, <2>1, MatchedFrame DEF Paired
  <2> QED BY <1>4, <2>1, <2>2 DEF Paired, Increasing, Members
<1>6. ASSUME NEW s, outbound'[b] = s
      PROVE  OfChat(outbound[b], c)' = OfChat(s, c) /\ (Ordered(outbound[b], c)' <=> Ordered(s, c))
  BY <1>6 DEF OfChat, Members, Ordered
<1>7. CASE outbound' = [outbound EXCEPT ![b] = Append(outbound[b], u)]
  <2> DEFINE o == Append(outbound[b], u)
  <2>1. outbound'[b] = o
    BY <1>0, <1>7
  <2>2. /\ OfChat(o, c) = OfChat(outbound[b], c) \cup (IF d = c THEN {u} ELSE {})
        /\ (\A w \in OfChat(outbound[b], c) : d = c => w < u) => Ordered(o, c)
    BY <1>0, <1>1, <1>3, OrderedAppend DEF Paired
  <2> HIDE DEF o
  <2>3. OfChat(outbound[b], c)' = OfChat(o, c) /\ (Ordered(outbound[b], c)' <=> Ordered(o, c))
    BY <1>6, <2>1
  <2>4. CASE d = c
    <3>1. inbox'[b][c] = t
      BY <1>0, <1>4, <2>4
    <3>2. Increasing(inbox[b][c])' /\ Members(inbox[b][c])' = Members(t)
      BY <1>2, <2>4, <3>1 DEF Paired, Increasing, Members
    <3>3. Way(b, c)' = Way(b, c)
      BY <1>2, <2>2, <2>3, <2>4, <3>2 DEF Way
    <3>4. Ordered(outbound[b], c)'
      BY <1>2, <2>2, <2>3, <2>4 DEF Paired
    <3>5. \A v \in OfChat(outbound[b], c)', w \in Members(inbox[b][c])' : v < w
      BY <1>2, <2>2, <2>3, <2>4, <3>2 DEF Paired
    <3> QED BY <1>5, <3>2, <3>3, <3>4, <3>5 DEF Paired
  <2>5. CASE d # c
    <3>1. inbox'[b][c] = inbox[b][c]
      BY <1>0, <1>4, <2>5
    <3>2. Increasing(inbox[b][c])' /\ Members(inbox[b][c])' = Members(inbox[b][c])
      BY <3>1 DEF Paired, Increasing, Members
    <3>3. /\ OfChat(outbound[b], c)' = OfChat(outbound[b], c) /\ Ordered(outbound[b], c)'
          /\ Way(b, c)' = Way(b, c)
      BY <2>2, <2>3, <2>5, <3>2 DEF Way
    <3> QED BY <1>5, <3>2, <3>3 DEF Paired
  <2> QED BY <2>4, <2>5
<1>8. CASE outbound' = outbound /\ Loses(b, {u})
  <2>1. u \in gone'[b]
    BY <1>0, <1>8 DEF Loses, AnswerTypeOK
  <2>2. d # c
    BY <1>3, <2>1 DEF Quiet
  <2>3. inbox'[b][c] = inbox[b][c]
    BY <1>0, <1>4, <2>2
  <2> QED BY <1>4, <1>8, <2>3, PairFrame
<1> QED BY <1>1, <1>7, <1>8 DEF Turn

(* In a quiet chat the next answer is to the oldest entry.                   *)
LEMMA AnswerMeetsItsEntry ==
    ASSUME CursorInv, RestartInv, AnswerTypeOK, EntryInv, NEW p \in Pollers, NEW u \in Updates,
           outbound[BotOf[p]] # <<>>, u = Head(outbound[BotOf[p]]), Paired(p, ChatOf[u])
    PROVE  pending[p][ChatOf[u]] # <<>> /\ Head(pending[p][ChatOf[u]]) = u
<1> DEFINE b == BotOf[p]  c == ChatOf[u]  q == pending[p][c]
<1>0. /\ b \in Bots /\ c \in Chats /\ outbound[b] \in Seq(Updates) /\ q \in Seq(Updates)
  BY PollerAssumption, ChatOfAssumption DEF RestartInv, BridgeTypeOK, AnswerTypeOK
<1>1. u \in OfChat(outbound[b], c)
  BY <1>0, MembersAfterTail DEF OfChat
<1>2. u \in Way(b, c) /\ u \in Members(q)
  BY <1>1 DEF Paired, Way
<1>3. q # <<>>
  BY <1>2, MembersEmpty
<1>4. PICK h \in Updates : h = Head(q)
  BY <1>0, <1>3, MembersAfterTail
<1>5. h \in Members(q) /\ (u = h \/ h < u)
  BY <1>0, <1>2, <1>3, <1>4, MembersAfterTail DEF Paired
<1>6. u = h \/ u < h
  <2>1. CASE h \in OfChat(outbound[b], c)
    <3>1. Ordered(outbound[b], c)
      BY DEF Paired
    <3>2. /\ OfChat(Tail(outbound[b]), c) = OfChat(outbound[b], c) \ {Head(outbound[b])}
          /\ \A w \in OfChat(Tail(outbound[b]), c) : Head(outbound[b]) < w
      BY <1>0, <3>1, OrderedTail
    <3> QED BY <2>1, <3>2
  <2>2. CASE h \in Members(inbox[b][c])
    BY <1>1, <2>2 DEF Paired
  <2>3. CASE h \in Held(p, c)
    <3>1. h = current[p] /\ registered[p]
      BY <2>3 DEF Held
    <3>2. offset[p] = h + 1
      BY <3>1 DEF RestartInv, KnownInv, EntryInv, EntryFor
    <3>3. u < offset[p]
      BY <1>0, <1>2 DEF EntryInv, EntryFor, Kept, Entries
    <3> QED BY <3>2, <3>3, NAssumption DEF Updates
  <2> QED BY <1>5, <2>1, <2>2, <2>3 DEF Paired, Way
<1>7. h = u
  BY <1>5, <1>6, NAssumption DEF Updates
<1> QED BY <1>3, <1>4, <1>7

(* The answer and its entry leave their queues together.                     *)
LEMMA PairTake ==
    ASSUME CursorInv, RestartInv, AnswerTypeOK, InboxInv, EntryInv, NEW p \in Pollers, NEW c \in Chats,
           TakeEvent(p), Paired(p, c), Quiet(BotOf[p], c)'
    PROVE  Paired(p, c)'
<1> DEFINE b == BotOf[p]  q == pending[p][c]  o == Tail(outbound[b])
<1>0. /\ b \in Bots /\ outbound \in [Bots -> Seq(Updates)] /\ outbound[b] \in Seq(Updates)
      /\ pending \in [Pollers -> [Chats -> Seq(Updates)]] /\ q \in Seq(Updates)
      /\ carried \in [Pollers -> Updates \cup {0}] /\ session \in [Pollers -> Chats]
      /\ popped \in [Pollers -> Updates \cup {0}] /\ gone \in [Bots -> SUBSET Updates]
  BY PollerAssumption DEF RestartInv, BridgeTypeOK, AnswerTypeOK
<1>1. UNCHANGED <<registered, current, inbox>>
  BY DEF TakeEvent, vars, pollerVars
<1>2. /\ Held(p, c)' = Held(p, c)
      /\ Increasing(inbox[b][c])' /\ Members(inbox[b][c])' = Members(inbox[b][c])
  BY <1>1 DEF Held, Paired, Increasing, Members
<1>3. ASSUME UNCHANGED outbound, NEW d \in Chats, Pop(p, d, 0) PROVE Paired(p, c)'
  <2>1. carried'[p] = 0
    BY <1>0, <1>3 DEF Pop
  <2>2. pending'[p][c] = pending[p][c]
    <3>1. CASE pending' = pending
      BY <3>1
    <3>2. CASE /\ pending[p][d] # <<>> /\ pending' = [pending EXCEPT ![p][d] = Tail(pending[p][d])]
               /\ Loses(b, {Head(pending[p][d])})
      <4>1. Head(pending[p][d]) \in Members(pending[p][d]) /\ Head(pending[p][d]) \in gone'[b]
        BY <1>0, <3>2, MembersAfterTail DEF Loses
      <4>2. d # c
        BY <4>1, EntriesOfChat DEF Quiet
      <4> QED BY <1>0, <3>2, <4>2
    <3> QED BY <1>3, <3>1, <3>2 DEF Pop
  <2> QED BY <1>1, <1>3, <2>1, <2>2, PairFrame
<1>4. ASSUME outbound[b] # <<>>, outbound' = [outbound EXCEPT ![b] = o], NEW u \in Updates,
             u = Head(outbound[b]), Pop(p, ChatOf[u], u)
      PROVE  Paired(p, c)'
  <2>1. ChatOf[u] \in Chats /\ outbound'[b] = o
    BY <1>0, <1>4, ChatOfAssumption
  <2>2. /\ Ordered(o, c)
        /\ ChatOf[u] # c => OfChat(o, c) = OfChat(outbound[b], c)
        /\ ChatOf[u] = c => OfChat(o, c) = OfChat(outbound[b], c) \ {u}
    BY <1>0, <1>4, OrderedTail DEF Paired
  <2> HIDE DEF o
  <2>3. Ordered(outbound[b], c)' /\ OfChat(outbound[b], c)' = OfChat(o, c)
    BY <2>1, <2>2 DEF Ordered, OfChat, Members
  <2>4. session'[p] = ChatOf[u] /\ carried'[p] = u
    BY <1>0, <1>4 DEF Pop
  <2>5. CASE ChatOf[u] # c
    <3>1. pending'[p][c] = pending[p][c]
      <4>1. pending' = pending \/ pending' = [pending EXCEPT ![p][ChatOf[u]] = Tail(pending[p][ChatOf[u]])]
        BY <1>4 DEF Pop
      <4>2. pending \in [Pollers -> [Chats -> Seq(Updates)]]
        BY <1>0
      <4> QED BY <2>1, <2>5, <4>1, <4>2
    <3>2. Increasing(pending[p][c])' /\ Members(pending[p][c])' = Members(pending[p][c])
      BY <3>1 DEF Paired, Increasing, Members
    <3>3. Way(b, c)' = Way(b, c)
      BY <1>2, <2>2, <2>3, <2>5 DEF Way
    <3>4. Matched(p, c)'
      BY <2>4, <2>5 DEF Matched
    <3> QED BY <1>2, <2>2, <2>3, <2>5, <3>2, <3>3, <3>4 DEF Paired
  <2>6. CASE ChatOf[u] = c
    <3>1. q # <<>> /\ Head(q) = u
      BY <1>0, <1>4, <2>6, AnswerMeetsItsEntry
    <3>2. pending'[p][c] = Tail(q) /\ popped'[p] = u
      <4>1. pending' = [pending EXCEPT ![p][c] = Tail(q)] /\ popped' = [popped EXCEPT ![p] = u]
        BY <1>4, <2>6, <3>1 DEF Pop
      <4> QED BY <1>0, <4>1
    <3>3. /\ Increasing(Tail(q)) /\ Members(q) = Members(Tail(q)) \cup {u}
          /\ u \notin Members(Tail(q))
      BY <1>0, <3>1, MembersAfterTail DEF Paired
    <3>4. Increasing(pending[p][c])' /\ Members(pending[p][c])' = Members(q) \ {u}
      BY <3>2, <3>3 DEF Increasing, Members
    <3>5. u \in OfChat(outbound[b], c) /\ u \in Nat
      BY <1>0, <1>4, <2>6, MembersAfterTail, NAssumption DEF OfChat, Updates
    <3>6. u \notin Members(inbox[b][c]) /\ u \notin Held(p, c)
      BY <3>5 DEF Paired, Way
    <3>7. Way(b, c)' = Way(b, c) \ {u}
      BY <1>2, <2>2, <2>3, <2>6, <3>6 DEF Way
    <3>8. Matched(p, c)'
      BY <1>2, <2>4, <3>2, <3>6 DEF Matched
    <3> QED BY <1>2, <2>2, <2>3, <2>6, <3>4, <3>6, <3>7, <3>8 DEF Paired
  <2> QED BY <2>5, <2>6
<1>5. outbound[b] # <<>> => Head(outbound[b]) \in Updates
  BY <1>0, MembersTail
<1> QED BY <1>3, <1>4, <1>5 DEF TakeEvent

(* What the clean-up removes of a quiet chat is an empty queue.              *)
LEMMA PairRemove ==
    ASSUME RestartInv, AnswerTypeOK, InboxInv, NEW p \in Pollers, NEW c \in Chats,
           RemoveSession(p), Paired(p, c), Quiet(BotOf[p], c)'
    PROVE  Paired(p, c)'
<1> DEFINE b == BotOf[p]
<1>0. /\ b \in Bots /\ gone \in [Bots -> SUBSET Updates]
      /\ pending \in [Pollers -> [Chats -> Seq(Updates)]]
  BY PollerAssumption DEF AnswerTypeOK
<1>1. /\ UNCHANGED <<registered, current, inbox, outbound, session, carried, popped>>
      /\ pending' = [pending EXCEPT ![p][session[p]] = <<>>]
      /\ Loses(b, Members(pending[p][session[p]]))
  BY DEF RemoveSession, vars, pollerVars, agentVars
<1>2. CASE session[p] # c
  <2>1. pending'[p][c] = pending[p][c]
    BY <1>0, <1>1, <1>2
  <2> QED BY <1>1, <2>1, PairFrame
<1>3. CASE session[p] = c
  <2>1. ASSUME NEW u \in Members(pending[p][c]) PROVE FALSE
    <3>1. ChatOf[u] = c /\ u \in gone'[b]
      BY <1>0, <1>1, <1>3, <2>1, EntriesOfChat DEF Loses
    <3> QED BY <3>1 DEF Quiet
  <2>2. pending[p][c] = <<>>
    <3>1. pending[p][c] \in Seq(Updates)
      BY <1>0
    <3>2. SUFFICES ASSUME pending[p][c] # <<>> PROVE FALSE
      OBVIOUS
    <3>3. 1 \in DOMAIN pending[p][c]
      BY <3>1, <3>2
    <3>4. pending[p][c][1] \in Members(pending[p][c])
      BY <3>3 DEF Members
    <3> QED BY <2>1, <3>4
  <2>3. pending'[p][c] = pending[p][c]
    BY <1>0, <1>1, <1>3, <2>2
  <2> QED BY <1>1, <2>3, PairFrame
<1> QED BY <1>2, <1>3

LEMMA PairDispatch ==
    ASSUME CursorInv, RestartInv, AnswerTypeOK, InboxInv, EntryInv, NEW p \in Pollers, NEW c \in Chats,
           Dispatch(p), Paired(p, c), Quiet(BotOf[p], c)'
    PROVE  Paired(p, c)'
<1>1. CASE CheckEmpty(p)
  BY <1>1, PairFrame DEF CheckEmpty, vars, pollerVars, memoryVars, agentVars
<1>2. CASE HandOver(p)
  <2>1. carried'[p] = 0
    BY <1>2 DEF HandOver, RestartInv, BridgeTypeOK
  <2> QED BY <1>2, <2>1, PairFrame DEF HandOver, vars, pollerVars, memoryVars, agentVars
<1> QED BY <1>1, <1>2, PairTake, PairRemove DEF Dispatch

(* A chat that lost an entry is never quiet again.                           *)
LEMMA GoneGrows ==
    ASSUME AnswerTypeOK, [RestartNext]_allVars, NEW b \in Bots
    PROVE  gone[b] \subseteq gone'[b]
<1>0. gone \in [Bots -> SUBSET Updates]
  BY DEF AnswerTypeOK
<1>1. CASE UNCHANGED gone
  BY <1>1
<1>2. ASSUME NEW a \in Bots, NEW lost, Loses(a, lost) PROVE gone[b] \subseteq gone'[b]
  BY <1>0, <1>2 DEF Loses
<1>3. ASSUME NEW p \in Pollers,
             \/ Polling(p) \/ StopDrains(p) \/ Dispatch(p) \/ Register(p) \/ PublishUpdate(p)
             \/ \E u \in Updates : Expire(p, u)
      PROVE  UNCHANGED gone \/ \E lost : Loses(BotOf[p], lost)
  BY <1>3 DEF Polling, EndProcess, StopDrains, Dispatch, TakeEvent, Pop, CheckEmpty, RemoveSession, HandOver,
              Register, PublishUpdate, Expire, bridgeVars, answerVars
<1>4. ASSUME NEW a \in Bots, NEW c \in Chats, Turn(a, c) PROVE UNCHANGED gone \/ \E lost : Loses(a, lost)
  BY <1>4 DEF Turn
<1>5. CASE UNCHANGED bridgeVars
  BY <1>1, <1>5 DEF bridgeVars, answerVars
<1>6. \A p \in Pollers : BotOf[p] \in Bots
  BY PollerAssumption
<1> QED BY <1>1, <1>2, <1>3, <1>4, <1>5, <1>6 DEF RestartNext, allVars

(* A process touches the conversations of its own bot only.                  *)
LEMMA OtherConversations ==
    ASSUME Scoped, CursorInv, RestartInv, AnswerTypeOK, NEW p \in Pollers, NEW q \in Pollers \ {p},
           \/ Polling(q) \/ StopDrains(q) \/ Register(q) \/ PublishUpdate(q) \/ Dispatch(q)
           \/ \E u \in Updates : Expire(q, u)
    PROVE  /\ pending'[p] = pending[p] /\ registered'[p] = registered[p] /\ current'[p] = current[p]
           /\ inbox'[BotOf[p]] = inbox[BotOf[p]] /\ outbound'[BotOf[p]] = outbound[BotOf[p]]
           /\ carried'[p] = carried[p] /\ session'[p] = session[p] /\ popped'[p] = popped[p]
<1>0. /\ BotOf[p] \in Bots /\ BotOf[q] \in Bots /\ BotOf[p] # BotOf[q]
      /\ pending \in [Pollers -> [Chats -> Seq(Updates)]] /\ registered \in [Pollers -> BOOLEAN]
      /\ inbox \in [Bots -> [Chats -> Seq(Updates)]] /\ outbound \in [Bots -> Seq(Updates)]
      /\ carried \in [Pollers -> Updates \cup {0}] /\ session \in [Pollers -> Chats]
      /\ popped \in [Pollers -> Updates \cup {0}]
  BY PollerAssumption DEF Scoped, AnswerTypeOK, RestartInv, BridgeTypeOK
<1>1. current'[p] = current[p]
  <2>1. \/ Step(q) \/ FetchOk(q) \/ FetchFails(q) \/ Stop(q) \/ Crash(q)
        \/ UNCHANGED vars
    BY DEF Polling, StopDrains, Register, PublishUpdate, Dispatch, TakeEvent, CheckEmpty, RemoveSession,
           HandOver, Expire, Step
  <2> QED BY <2>1, CursorFrame DEF vars, pollerVars
<1>2. registered'[p] = registered[p]
  BY <1>0 DEF Polling, EndProcess, bridgeVars, memoryVars, StopDrains, Register, PublishUpdate, Dispatch,
              TakeEvent, CheckEmpty, RemoveSession, HandOver, Expire
<1>3. pending'[p] = pending[p]
  BY <1>0 DEF Polling, EndProcess, Drain, bridgeVars, memoryVars, StopDrains, Register, PublishUpdate,
              Dispatch, TakeEvent, Pop, CheckEmpty, RemoveSession, HandOver, Expire
<1>4. inbox'[BotOf[p]] = inbox[BotOf[p]]
  <2>1. CASE PublishUpdate(q)
    <3>1. \E c, s : inbox' = [inbox EXCEPT ![BotOf[q]][c] = s] \/ inbox' = inbox
      BY <2>1 DEF PublishUpdate
    <3> QED BY <1>0, <3>1
  <2> QED BY <2>1 DEF Polling, EndProcess, bridgeVars, agentVars, StopDrains, Register, Dispatch, TakeEvent,
                      CheckEmpty, RemoveSession, HandOver, Expire
<1>5. outbound'[BotOf[p]] = outbound[BotOf[p]]
  BY <1>0 DEF Polling, EndProcess, bridgeVars, agentVars, StopDrains, Register, PublishUpdate, Dispatch,
              TakeEvent, CheckEmpty, RemoveSession, HandOver, Expire
<1>6. carried'[p] = carried[p] /\ session'[p] = session[p] /\ popped'[p] = popped[p]
  BY <1>0 DEF Polling, EndProcess, bridgeVars, eventVars, StopDrains, Register, PublishUpdate, Unreachable,
              Dispatch, TakeEvent, Pop, CheckEmpty, RemoveSession, HandOver, Expire
<1> QED BY <1>1, <1>2, <1>3, <1>4, <1>5, <1>6

(* Every step keeps a quiet chat paired.                                     *)
LEMMA PairKept ==
    ASSUME Scoped, CursorInv, RestartInv, AnswerTypeOK, InboxInv, EntryInv, PairInv,
           [RestartNext]_allVars
    PROVE  PairInv'
<1> SUFFICES ASSUME NEW p \in Pollers, NEW c \in Chats, Quiet(BotOf[p], c)' PROVE Paired(p, c)'
  BY DEF PairInv
<1> DEFINE b == BotOf[p]
<1>0. /\ b \in Bots /\ BotOf \in [Pollers -> Bots] /\ ChatOf \in [Updates -> Chats]
      /\ pending \in [Pollers -> [Chats -> Seq(Updates)]] /\ registered \in [Pollers -> BOOLEAN]
      /\ inbox \in [Bots -> [Chats -> Seq(Updates)]] /\ outbound \in [Bots -> Seq(Updates)]
      /\ gone \in [Bots -> SUBSET Updates] /\ carried \in [Pollers -> Updates \cup {0}]
  BY PollerAssumption, ChatOfAssumption DEF AnswerTypeOK, RestartInv, BridgeTypeOK
<1>1. Quiet(b, c) /\ Paired(p, c)
  <2>1. gone[b] \subseteq gone'[b]
    BY <1>0, GoneGrows
  <2> QED BY <2>1 DEF Quiet, PairInv
<1>2. ASSUME NEW q \in Pollers \ {p},
             \/ Polling(q) \/ StopDrains(q) \/ Register(q) \/ PublishUpdate(q) \/ Dispatch(q)
             \/ \E u \in Updates : Expire(q, u)
      PROVE  Paired(p, c)'
  BY <1>1, <1>2, OtherConversations, PairFrame
<1>3. CASE Polling(p)
  <2>1. CASE pc'[p] = "down"
    <3>1. EndProcess(p)
      BY <1>3, <2>1 DEF Polling
    <3>2. /\ Drain(p) /\ inbox'[b] = inbox[b] /\ ~registered'[p]
          /\ outbound'[b] = outbound[b] \/ outbound'[b] = <<>>
          /\ carried'[p] = 0 /\ Entries(p) \subseteq gone'[b]
      BY <1>0, <3>1 DEF EndProcess, Loses
    <3>3. Matched(p, c)'
      BY <3>2 DEF Matched
    <3> QED BY <1>1, <3>2, <3>3, PairDrain
  <2>2. CASE pc'[p] # "down"
    <3>1. UNCHANGED bridgeVars /\ ~registered[p]
      BY <1>3, <2>2, PollingFrame DEF RestartInv, KnownInv
    <3> QED BY <1>1, <3>1, PairFrame DEF bridgeVars, memoryVars, eventVars, agentVars
  <2> QED BY <2>1, <2>2
<1>4. CASE StopDrains(p)
  <2>1. /\ Drain(p) /\ UNCHANGED <<registered, current, inbox, outbound, session, carried, popped>>
        /\ Entries(p) \subseteq gone'[b]
    BY <1>0, <1>4 DEF StopDrains, Stop, Loses, eventVars, agentVars
  <2>2. Held(p, c)' = Held(p, c)
    BY <2>1 DEF Held
  <2>3. Matched(p, c)'
    BY <1>1, <2>1, <2>2, MatchedFrame DEF Paired
  <2> QED BY <1>1, <2>1, <2>3, PairDrain
<1>5. CASE Register(p)
  BY <1>1, <1>5, PairRegister
<1>6. CASE PublishUpdate(p)
  BY <1>1, <1>6, PairPublish
<1>7. CASE Dispatch(p)
  BY <1>1, <1>7, PairDispatch
<1>8. ASSUME NEW u \in Updates, Expire(p, u) PROVE Paired(p, c)'
  <2>1. u \in gone'[b] /\ UNCHANGED <<registered, current, inbox, outbound, session, carried>>
    BY <1>0, <1>8 DEF Expire, Loses, vars, pollerVars, agentVars
  <2>2. ChatOf[u] # c
    BY <2>1 DEF Quiet
  <2>3. pending'[p][c] = pending[p][c]
    BY <1>0, <1>8, <2>2 DEF Expire
  <2>4. carried[p] # 0 /\ session[p] = c => popped'[p] = popped[p]
    <3>1. popped' = [popped EXCEPT ![p] = IF @ = u THEN 0 ELSE @] /\ popped \in [Pollers -> Updates \cup {0}]
      BY <1>8 DEF Expire, Unreachable, AnswerTypeOK
    <3>2. carried[p] # 0 /\ session[p] = c => popped[p] = carried[p] /\ ChatOf[carried[p]] = c
      BY <1>1 DEF Paired, Matched, RestartInv, EventInv
    <3> QED BY <2>2, <3>1, <3>2
  <2> QED BY <1>1, <2>1, <2>3, <2>4, PairFrame
<1>9. ASSUME NEW a \in Bots, NEW d \in Chats, Turn(a, d) PROVE Paired(p, c)'
  <2>1. CASE a = b
    BY <1>1, <1>9, <2>1, PairTurn
  <2>2. CASE a # b
    <3>1. UNCHANGED <<pending, registered, current, session, carried, popped>>
      BY <1>9 DEF Turn, vars, pollerVars, memoryVars, eventVars
    <3>2. \E s : inbox' = [inbox EXCEPT ![a][d] = s]
      BY <1>9 DEF Turn
    <3>3. outbound' = outbound \/ outbound' = [outbound EXCEPT ![a] = Append(outbound[a], Head(inbox[a][d]))]
      BY <1>9 DEF Turn
    <3>4. inbox'[b] = inbox[b] /\ outbound'[b] = outbound[b]
      BY <1>0, <2>2, <3>2, <3>3
    <3> QED BY <1>1, <3>1, <3>4, PairFrame
  <2> QED BY <2>1, <2>2
<1>10. CASE UNCHANGED <<current, bridgeVars>>
  BY <1>1, <1>10, PairFrame DEF bridgeVars, memoryVars, eventVars, agentVars
<1>11. ASSUME NEW a \in Bots, Arrive(a), UNCHANGED bridgeVars PROVE UNCHANGED <<current, bridgeVars>>
  BY <1>11 DEF Arrive, pollerVars
<1>12. CASE UNCHANGED allVars
  BY <1>10, <1>12 DEF allVars, vars, pollerVars
<1> QED
  BY <1>2, <1>3, <1>4, <1>5, <1>6, <1>7, <1>8, <1>9, <1>10, <1>11, <1>12 DEF RestartNext

(* Only an answer in a chat that is not quiet meets another's entry.         *)
LEMMA CrossedKept ==
    ASSUME CursorInv, RestartInv, AnswerTypeOK, EntryInv, PairInv, CrossedThreadsHaveACause,
           [RestartNext]_allVars
    PROVE  CrossedThreadsHaveACause'
<1> SUFFICES ASSUME NEW b \in Bots, NEW t \in threads'[b], t[1] # t[2]
             PROVE  \E w \in gone'[b] : ChatOf[w] = ChatOf[t[1]]
  BY DEF CrossedThreadsHaveACause
<1>0. /\ BotOf \in [Pollers -> Bots] /\ ChatOf \in [Updates -> Chats]
      /\ threads \in [Bots -> SUBSET (Updates \X Updates)] /\ outbound \in [Bots -> Seq(Updates)]
  BY PollerAssumption, ChatOfAssumption DEF AnswerTypeOK, RestartInv, BridgeTypeOK
<1>1. CASE t \in threads[b]
  <2>1. PICK w \in gone[b] : ChatOf[w] = ChatOf[t[1]]
    BY <1>1 DEF CrossedThreadsHaveACause
  <2> QED BY <2>1, GoneGrows
<1>2. ASSUME NEW p \in Pollers, HandOver(p), t \notin threads[b]
      PROVE  \E w \in gone'[b] : ChatOf[w] = ChatOf[t[1]]
  <2> DEFINE u == carried[p]  c == session[p]
  <2>1. BotOf[p] \in Bots /\ UNCHANGED gone /\ c \in Chats
    BY <1>0, <1>2 DEF HandOver, RestartInv, BridgeTypeOK
  <2> DEFINE new == {<<u, popped[p]>>} \ {<<0, popped[p]>>}
  <2>2. threads' = [threads EXCEPT ![BotOf[p]] = threads[BotOf[p]] \cup new]
    <3>1. threads' # threads
      BY <1>2
    <3> QED BY <1>2, <3>1 DEF HandOver
  <2>3. b = BotOf[p] /\ t = <<u, popped[p]>> /\ u # 0
    <3>1. threads'[b] = IF b = BotOf[p] THEN threads[b] \cup new ELSE threads[b]
      BY <1>0, <2>1, <2>2
    <3>2. b = BotOf[p] /\ t \in new
      BY <1>2, <3>1
    <3>3. t = <<u, popped[p]>> /\ t # <<0, popped[p]>>
      BY <3>2
    <3> QED BY <3>2, <3>3
  <2>4. ~Paired(p, c)
    BY <2>3 DEF Paired, Matched
  <2>5. ~Quiet(b, c)
    BY <2>1, <2>3, <2>4 DEF PairInv
  <2>6. ChatOf[u] = c
    BY <2>3 DEF RestartInv, EventInv
  <2> QED BY <2>1, <2>3, <2>5, <2>6 DEF Quiet
<1>3. ASSUME NEW p \in Pollers,
             \/ Polling(p) \/ StopDrains(p) \/ Register(p) \/ PublishUpdate(p)
             \/ TakeEvent(p) \/ CheckEmpty(p) \/ RemoveSession(p) \/ \E u \in Updates : Expire(p, u)
      PROVE  UNCHANGED threads
  BY <1>3 DEF Polling, EndProcess, bridgeVars, StopDrains, Register, PublishUpdate, TakeEvent, CheckEmpty,
              RemoveSession, Expire, answerVars
<1>4. ASSUME NEW a \in Bots, NEW c \in Chats, Turn(a, c) PROVE UNCHANGED threads
  BY <1>4 DEF Turn
<1>5. CASE UNCHANGED bridgeVars
  BY <1>1, <1>5 DEF bridgeVars, answerVars
<1> QED BY <1>1, <1>2, <1>3, <1>4, <1>5 DEF RestartNext, Dispatch, allVars

LEMMA InitPaired == RestartInit => EntryInv /\ PairInv /\ CrossedThreadsHaveACause
<1> SUFFICES ASSUME RestartInit PROVE EntryInv /\ PairInv /\ CrossedThreadsHaveACause
  OBVIOUS
<1> USE DEF RestartInit, BridgeInit, Init
<1>1. ASSUME NEW p \in Pollers PROVE EntryFor(p)
  <2>1. Kept(p) = {}
    BY NoEntriesHold
  <2> QED BY <2>1 DEF EntryFor
<1>2. ASSUME NEW p \in Pollers, NEW c \in Chats PROVE Paired(p, c)
  <2>1. /\ pending[p][c] = <<>> /\ inbox[BotOf[p]][c] = <<>> /\ outbound[BotOf[p]] = <<>>
        /\ ~registered[p] /\ carried[p] = 0
    BY PollerAssumption DEF NoEntries
  <2>2. Increasing(<<>>) /\ Ordered(<<>>, c) /\ Members(<<>>) = {}
    BY MembersEmpty DEF Increasing, Ordered
  <2> QED BY <2>1, <2>2 DEF Paired, Matched, Way, Held, OfChat
<1>3. CrossedThreadsHaveACause
  BY DEF CrossedThreadsHaveACause
<1> QED BY <1>1, <1>2, <1>3 DEF EntryInv, PairInv

(* An answer is sent as a reply to another message only in a chat where some  *)
(* message lost its entry (to a time-out, the clean-up of an emptied queue,   *)
(* an event that answers nothing, a stop or the end of the process) or its    *)
(* answer; every other chat keeps its pairing through any number of restarts  *)
(* and any order of the dispatcher's steps (plugin.rs:680-707, 1359-1397).    *)
THEOREM CrossedThreadsAreCaused ==
    ASSUME Scoped
    PROVE  RestartSpec => []CrossedThreadsHaveACause
<1> DEFINE I == AnswerTypeOK /\ InboxInv /\ EntryInv /\ PairInv /\ CrossedThreadsHaveACause
<1>1. CursorInv /\ RestartInv /\ I /\ [RestartNext]_allVars => I'
  BY AnswerTypesKept, InboxKept, EntryKept, PairKept, CrossedKept
<1>2. RestartSpec => []CursorInv
  BY RestartsKeepTheCursor, CursorInvariant, PTL
<1>3. RestartInit => I
  BY InitOnce, InitPaired
<1> QED BY <1>1, <1>2, <1>3, RestartInvariant, PTL DEF RestartSpec
=============================================================================
