--------------------------- MODULE OutboundProofs ---------------------------
(* Proofs about OutboundPaths, for any calls, paths and lengths. *)
EXTENDS OutboundPaths, FiniteSetTheorems, TLAPS

(* What a call sends is a sequence of requests. *)
LEMMA RequestsType == ASSUME NEW c \in Calls PROVE Requests(c) \in Seq(RequestType)
<1>1. Segments[c] \in Nat
  BY CallsAssumption
<1>2. \A t \in BOOLEAN : Texts(c, t) \in Seq(RequestType)
  <2> SUFFICES ASSUME NEW t \in BOOLEAN PROVE Texts(c, t) \in Seq(RequestType)
    OBVIOUS
  <2> DEFINE parts == IF Segments[c] = 0 THEN 1 ELSE Segments[c]
  <2>1. parts \in Nat
    BY <1>1
  <2>2. ASSUME NEW i \in 1 .. parts PROVE Request("sendMessage", t, i) \in RequestType
    <3>1. i \in Nat /\ "sendMessage" \in Methods
      BY <2>1 DEF Methods
    <3> QED
      BY <3>1 DEF Request, RequestType
  <2> HIDE DEF parts
  <2>3. [i \in 1 .. parts |-> Request("sendMessage", t, i)] \in Seq(RequestType)
    BY <2>1, <2>2
  <2> QED
    BY <2>3 DEF Texts, parts
<1>3. \A m \in Methods : Single(m) \in Seq(RequestType)
  BY DEF Single, Request, RequestType
<1>4. DirectRequests(c) \in Seq(RequestType)
  BY <1>2, <1>3 DEF DirectRequests, Methods
<1>5. DispatcherRequests(c) \in Seq(RequestType)
  <2> DEFINE payload == Event(c)
  <2>1. DispatcherRequests(c) =
          CASE ChatKnown(payload) /\ IsMedia(payload) -> Single("sendPhoto")
            [] ChatKnown(payload) /\ ~IsMedia(payload) /\ payload.text > 0 -> Texts(c, FALSE)
            [] OTHER -> <<>>
    BY DEF DispatcherRequests
  <2> HIDE DEF payload
  <2>2. DispatcherRequests(c) \in {Single("sendPhoto"), Texts(c, FALSE), <<>>}
    BY <2>1
  <2>3. "sendPhoto" \in Methods
    BY DEF Methods
  <2>4. Texts(c, FALSE) \in Seq(RequestType) /\ Single("sendPhoto") \in Seq(RequestType)
    BY <1>2, <1>3, <2>3
  <2>5. <<>> \in Seq(RequestType)
    OBVIOUS
  <2> QED
    BY <2>2, <2>4, <2>5
<1> QED
  BY <1>4, <1>5 DEF Requests

LEMMA InitEstablishes == Init => OutboundInv
<1> SUFFICES ASSUME Init PROVE OutboundInv
  OBVIOUS
<1>1. TypeOK
  BY DEF Init, TypeOK
<1>2. \A c \in Calls : sent[c] = <<>> /\ pc[c] = "new" /\ result[c] = "none" /\ Len(Requests(c)) \in Nat
  BY RequestsType DEF Init
<1>3. TopicInv
  BY DEF Init, TopicInv
<1>4. \A c \in Calls : CallInv(c)
  BY <1>2 DEF CallInv
<1>5. OkMeansDone /\ NothingTwiceOrAfterAGap
  BY <1>2 DEF OkMeansDone, NothingTwiceOrAfterAGap
<1> QED
  BY <1>1, <1>3, <1>4, <1>5 DEF OutboundInv

(* A call that is rejected, starts to send or is published has sent nothing. *)
LEMMA PublishKeeps == ASSUME NEW c \in Calls, OutboundInv, Publish(c) PROVE OutboundInv'
<1> USE DEF Answer, Move
<1>1. TypeOK'
  <2>1. topic' \in Seq(Calls) /\ taken' \in 0 .. Len(topic')
    <3>1. CASE UNCHANGED topic
      BY <3>1 DEF OutboundInv, TypeOK, Publish
    <3>2. CASE topic' = Append(topic, c)
      BY <3>2 DEF OutboundInv, TypeOK, Publish
    <3> QED
      BY <3>1, <3>2 DEF Publish
  <2>2. pc' \in [Calls -> {"new", "queued", "sending", "done"}] /\ result' \in [Calls -> {"none", "invalid", "error", "ok"}]
    BY DEF OutboundInv, TypeOK, Publish
  <2> QED
    BY <2>1, <2>2 DEF OutboundInv, TypeOK, Publish
<1>2. c \notin {topic[i] : i \in DOMAIN topic}
  BY DEF OutboundInv, TopicInv, Publish
<1>3. CASE UNCHANGED topic
  <2>1. TopicInv'
    BY <1>2, <1>3 DEF OutboundInv, TypeOK, TopicInv, Publish
  <2>2. \A d \in Calls : CallInv(d)'
    BY <1>3, RequestsType DEF OutboundInv, TypeOK, CallInv, Publish, Requests, DirectRequests
  <2>3. OkMeansDone' /\ NothingTwiceOrAfterAGap'
    BY <1>3 DEF OutboundInv, TypeOK, OkMeansDone, NothingTwiceOrAfterAGap, Publish
  <2> QED
    BY <1>1, <2>1, <2>2, <2>3 DEF OutboundInv
<1>4. CASE topic' = Append(topic, c) /\ pc' = [pc EXCEPT ![c] = "queued"] /\ result' = [result EXCEPT ![c] = "ok"]
  <2>1. TopicInv'
    <3>1. Len(topic') = Len(topic) + 1 /\ Len(topic) \in Nat /\ DOMAIN topic = 1 .. Len(topic)
      BY <1>4 DEF OutboundInv, TypeOK
    <3>2. topic'[Len(topic) + 1] = c /\ \A i \in DOMAIN topic : topic'[i] = topic[i] /\ topic[i] \in Calls
      BY <1>4, <3>1 DEF OutboundInv, TypeOK
    <3>3. DOMAIN topic' = 1 .. Len(topic) + 1
      BY <1>4, <3>1 DEF OutboundInv, TypeOK
    <3>4. taken \in Nat /\ taken <= Len(topic) /\ taken' = taken
      BY <3>1 DEF OutboundInv, TypeOK, Publish
    <3>5. Via[c] = "broker" /\ pc \in [Calls -> {"new", "queued", "sending", "done"}]
      BY DEF Publish, OutboundInv, TypeOK
    <3> QED
      BY <1>2, <1>4, <3>1, <3>2, <3>3, <3>4, <3>5 DEF OutboundInv, TopicInv
  <2>2. \A d \in Calls : CallInv(d)'
    BY <1>4 DEF OutboundInv, TypeOK, CallInv, Publish
  <2>3. OkMeansDone' /\ NothingTwiceOrAfterAGap'
    BY <1>4 DEF OutboundInv, TypeOK, OkMeansDone, NothingTwiceOrAfterAGap, Publish
  <2> QED
    BY <1>1, <2>1, <2>2, <2>3 DEF OutboundInv
<1> QED
  BY <1>3, <1>4 DEF Publish

LEMMA InvokeKeeps == ASSUME NEW c \in Calls, OutboundInv, Invoke(c) PROVE OutboundInv'
<1> USE DEF Answer, Move
<1>1. TypeOK'
  BY DEF OutboundInv, TypeOK, Invoke
<1>2. TopicInv'
  BY DEF OutboundInv, TypeOK, TopicInv, Invoke
<1>3. 0 < Len(Requests(c))
  <2>1. Len(DirectRequests(c)) > 0
    BY CallsAssumption DEF DirectRequests, Texts, Single
  <2> QED
    BY <2>1 DEF Invoke, Requests
<1>4. \A d \in Calls : CallInv(d)'
  BY <1>3 DEF OutboundInv, TypeOK, CallInv, Invoke
<1>5. OkMeansDone' /\ NothingTwiceOrAfterAGap'
  BY DEF OutboundInv, TypeOK, OkMeansDone, NothingTwiceOrAfterAGap, Invoke
<1> QED
  BY <1>1, <1>2, <1>4, <1>5 DEF OutboundInv

LEMMA BridgeReplyKeeps == ASSUME NEW c \in Calls, OutboundInv, BridgeReply(c) PROVE OutboundInv'
<1> USE DEF Move
<1>1. TypeOK'
  BY DEF OutboundInv, TypeOK, BridgeReply
<1>2. TopicInv'
  BY DEF OutboundInv, TypeOK, TopicInv, BridgeReply
<1>3. Segments[c] # 0 => 0 < Len(Requests(c))
  BY CallsAssumption DEF DirectRequests, Texts, BridgeReply, Requests
<1>4. \A d \in Calls : CallInv(d)'
  BY <1>3 DEF OutboundInv, TypeOK, CallInv, BridgeReply
<1>5. OkMeansDone' /\ NothingTwiceOrAfterAGap'
  BY DEF OutboundInv, TypeOK, OkMeansDone, NothingTwiceOrAfterAGap, BridgeReply
<1> QED
  BY <1>1, <1>2, <1>4, <1>5 DEF OutboundInv

(* No event of the dispatcher is in work, so the one it took last is done.  *)
LEMMA TakeKeeps == OutboundInv /\ Take => OutboundInv'
<1> SUFFICES ASSUME OutboundInv, Take PROVE OutboundInv'
  OBVIOUS
<1> DEFINE c == topic[taken + 1]
<1>1. taken \in Nat /\ taken + 1 \in DOMAIN topic /\ taken' = taken + 1 /\ UNCHANGED <<result, topic, sent, failed, health>>
  BY DEF OutboundInv, TypeOK, Take
<1>2. c \in Calls /\ Via[c] = "broker" /\ pc[c] = "queued" /\ sent[c] = <<>>
  BY <1>1 DEF OutboundInv, TypeOK, TopicInv, CallInv
<1>3. pc' = [pc EXCEPT ![c] = IF Requests(c) = <<>> THEN "done" ELSE "sending"]
  BY <1>1 DEF Take, Move
<1>4. \A i \in DOMAIN topic : topic[i] \in Calls
  BY DEF OutboundInv, TypeOK
<1>5. \A i \in DOMAIN topic : i <= taken => pc[topic[i]] = "done"
  <2> SUFFICES ASSUME NEW i \in DOMAIN topic, i <= taken PROVE pc[topic[i]] = "done"
    OBVIOUS
  <2>1. pc[topic[i]] \notin {"new", "queued", "sending"}
    BY <1>1, <1>4 DEF OutboundInv, TypeOK, TopicInv, Take, Dispatching
  <2> QED
    BY <1>4, <2>1 DEF OutboundInv, TypeOK
<1>6. TypeOK'
  BY <1>1, <1>2, <1>3 DEF OutboundInv, TypeOK
<1>7. TopicInv'
  <2>1. \A i \in DOMAIN topic : topic[i] = c <=> i = taken + 1
    BY <1>1 DEF OutboundInv, TopicInv
  <2>2. \A i \in DOMAIN topic : i \in Nat
    BY DEF OutboundInv, TypeOK
  <2>3. \A i \in DOMAIN topic :
          pc'[topic[i]] = IF i = taken + 1 THEN (IF Requests(c) = <<>> THEN "done" ELSE "sending") ELSE pc[topic[i]]
    BY <1>2, <1>3, <1>4, <2>1 DEF OutboundInv, TypeOK
  <2>4. \A i \in DOMAIN topic : Via[topic[i]] = "broker" /\ pc'[topic[i]] # "new"
    BY <2>3 DEF OutboundInv, TopicInv
  <2>5. \A i \in DOMAIN topic : pc'[topic[i]] = "queued" <=> i > taken + 1
    BY <1>1, <2>2, <2>3 DEF OutboundInv, TopicInv
  <2>6. \A i \in DOMAIN topic : i < taken + 1 => pc'[topic[i]] = "done"
    BY <1>1, <1>5, <2>2, <2>3
  <2> QED
    BY <1>1, <2>4, <2>5, <2>6 DEF OutboundInv, TopicInv
<1>8. Requests(c) = <<>> \/ 0 < Len(Requests(c))
  BY <1>2, RequestsType
<1>9. \A d \in Calls : CallInv(d)'
  BY <1>1, <1>2, <1>3, <1>8 DEF OutboundInv, TypeOK, CallInv
<1>10. OkMeansDone' /\ NothingTwiceOrAfterAGap'
  BY <1>1 DEF OutboundInv, OkMeansDone, NothingTwiceOrAfterAGap
<1> QED
  BY <1>6, <1>7, <1>9, <1>10 DEF OutboundInv

(* What a call has sent after one more request. *)
LEMMA OneMore ==
    ASSUME NEW c \in Calls, OutboundInv, pc[c] = "sending", NEW s, s = Append(sent[c], NextRequest(c))
    PROVE  /\ s \in Seq(RequestType)
           /\ Len(s) = Len(sent[c]) + 1 /\ Len(s) \in Nat
           /\ Len(s) <= Len(Requests(c)) /\ Len(Requests(c)) \in Nat
           /\ \A i \in DOMAIN s : s[i] = Requests(c)[i]
<1>1. sent[c] \in Seq(RequestType) /\ Requests(c) \in Seq(RequestType)
  BY RequestsType DEF OutboundInv, TypeOK
<1>2. Len(sent[c]) < Len(Requests(c)) /\ \A i \in DOMAIN sent[c] : sent[c][i] = Requests(c)[i]
  BY DEF OutboundInv, CallInv, NothingTwiceOrAfterAGap
<1>3. NextRequest(c) \in RequestType /\ NextRequest(c) = Requests(c)[Len(sent[c]) + 1]
  BY <1>1, <1>2 DEF NextRequest
<1> QED
  BY <1>1, <1>2, <1>3

(* The requests of a finished call are all of them. *)
LEMMA AllOfThem ==
    ASSUME NEW c \in Calls, NEW s \in Seq(RequestType), Len(s) = Len(Requests(c)),
           \A i \in DOMAIN s : s[i] = Requests(c)[i]
    PROVE  s = Requests(c)
BY RequestsType

(* A step of a sending call to "done", or on to its next request.           *)
LEMMA SendingStep ==
    ASSUME NEW c \in Calls, OutboundInv, pc[c] = "sending",
           NEW to \in {"sending", "done"}, pc' = [pc EXCEPT ![c] = to],
           UNCHANGED <<topic, taken>>
    PROVE  TopicInv'
<1>1. pc \in [Calls -> {"new", "queued", "sending", "done"}] /\ \A i \in DOMAIN topic : topic[i] \in Calls /\ i \in Nat
  BY DEF OutboundInv, TypeOK
<1>2. \A i \in DOMAIN topic : topic[i] = c => i <= taken /\ ~(i < taken)
  BY <1>1 DEF OutboundInv, TypeOK, TopicInv
<1> QED
  BY <1>1, <1>2 DEF OutboundInv, TopicInv

LEMMA SendKeeps == ASSUME NEW c \in Calls, OutboundInv, Send(c) PROVE OutboundInv'
<1> DEFINE s == Append(sent[c], NextRequest(c))
<1>1. pc[c] = "sending" /\ sent' = [sent EXCEPT ![c] = s] /\ UNCHANGED <<topic, taken, failed>>
  BY DEF Send
<1>2. /\ s \in Seq(RequestType)
      /\ Len(s) = Len(sent[c]) + 1 /\ Len(s) \in Nat
      /\ Len(s) <= Len(Requests(c)) /\ Len(Requests(c)) \in Nat
      /\ \A i \in DOMAIN s : s[i] = Requests(c)[i]
  BY <1>1, OneMore
<1> HIDE DEF s
<1>3. sent' \in [Calls -> Seq(RequestType)] /\ sent'[c] = s /\ \A d \in Calls \ {c} : sent'[d] = sent[d]
  BY <1>1, <1>2 DEF OutboundInv, TypeOK
<1>4. NothingTwiceOrAfterAGap'
  BY <1>2, <1>3 DEF OutboundInv, NothingTwiceOrAfterAGap
<1>5. CASE IsLast(c)
  <2>1. /\ pc' = [pc EXCEPT ![c] = "done"]
        /\ health' \in {health, [health EXCEPT !["success"] = @ + 1]}
        /\ result' = [result EXCEPT ![c] = IF Via[c] = "direct" THEN "ok" ELSE result[c]]
    BY <1>5 DEF Send, Move, Answer, Count, OutboundInv, TypeOK
  <2>2. TypeOK'
    <3>1. health' \in [success : Nat, failure : Nat]
      BY <2>1 DEF OutboundInv, TypeOK
    <3>2. pc' \in [Calls -> {"new", "queued", "sending", "done"}] /\ result' \in [Calls -> {"none", "invalid", "error", "ok"}]
      BY <2>1 DEF OutboundInv, TypeOK
    <3> QED
      BY <1>1, <1>3, <3>1, <3>2 DEF OutboundInv, TypeOK
  <2>3. TopicInv'
    BY <1>1, <2>1, SendingStep
  <2>4. s = Requests(c)
    BY <1>2, <1>5, AllOfThem DEF IsLast, OutboundInv, TypeOK
  <2>5. \A d \in Calls : CallInv(d)'
    BY <1>1, <1>3, <2>1 DEF OutboundInv, TypeOK, CallInv
  <2>6. OkMeansDone'
    BY <1>1, <1>3, <2>1, <2>4 DEF OutboundInv, TypeOK, OkMeansDone, Requests
  <2> QED
    BY <1>4, <2>2, <2>3, <2>5, <2>6 DEF OutboundInv
<1>6. CASE ~IsLast(c)
  <2>1. UNCHANGED <<pc, result, health>>
    BY <1>6 DEF Send
  <2>2. TypeOK'
    BY <1>1, <1>3, <2>1 DEF OutboundInv, TypeOK
  <2>3. TopicInv'
    BY <1>1, <2>1 DEF OutboundInv, TopicInv
  <2>4. Len(s) < Len(Requests(c))
    BY <1>2, <1>6 DEF IsLast
  <2>5. \A d \in Calls : CallInv(d)'
    BY <1>1, <1>3, <2>1, <2>4 DEF OutboundInv, CallInv
  <2>6. OkMeansDone'
    BY <1>1, <1>3, <2>1 DEF OutboundInv, CallInv, OkMeansDone
  <2> QED
    BY <1>4, <2>2, <2>3, <2>5, <2>6 DEF OutboundInv
<1> QED
  BY <1>5, <1>6

LEMMA SendFailsKeeps == ASSUME NEW c \in Calls, OutboundInv, SendFails(c) PROVE OutboundInv'
<1> DEFINE s == Append(sent[c], NextRequest(c))
<1>1. pc[c] = "sending" /\ sent' \in {sent, [sent EXCEPT ![c] = s]} /\ UNCHANGED <<topic, taken>>
  BY DEF SendFails
<1>2. /\ s \in Seq(RequestType)
      /\ Len(s) = Len(sent[c]) + 1 /\ Len(s) \in Nat
      /\ Len(s) <= Len(Requests(c)) /\ Len(Requests(c)) \in Nat
      /\ \A i \in DOMAIN s : s[i] = Requests(c)[i]
  BY <1>1, OneMore
<1> HIDE DEF s
<1>3. sent' \in [Calls -> Seq(RequestType)] /\ sent'[c] \in {sent[c], s} /\ \A d \in Calls \ {c} : sent'[d] = sent[d]
  BY <1>1, <1>2 DEF OutboundInv, TypeOK
<1>4. NothingTwiceOrAfterAGap'
  BY <1>2, <1>3 DEF OutboundInv, NothingTwiceOrAfterAGap
<1>5. /\ pc' = [pc EXCEPT ![c] = "done"]
      /\ failed' = failed \cup {c}
      /\ health' \in {health, [health EXCEPT !["failure"] = @ + 1]}
      /\ result' = [result EXCEPT ![c] = IF Via[c] = "direct" THEN "error" ELSE result[c]]
  BY DEF SendFails, Move, Answer, Count, OutboundInv, TypeOK
<1>6. TypeOK'
  <2>1. health' \in [success : Nat, failure : Nat]
    BY <1>5 DEF OutboundInv, TypeOK
  <2>2. pc' \in [Calls -> {"new", "queued", "sending", "done"}] /\ result' \in [Calls -> {"none", "invalid", "error", "ok"}]
    BY <1>5 DEF OutboundInv, TypeOK
  <2>3. failed' \subseteq Calls
    BY <1>5 DEF OutboundInv, TypeOK
  <2> QED
    BY <1>1, <1>3, <2>1, <2>2, <2>3 DEF OutboundInv, TypeOK
<1>7. TopicInv'
  BY <1>1, <1>5, SendingStep
<1>8. \A d \in Calls : CallInv(d)'
  BY <1>1, <1>3, <1>5 DEF OutboundInv, TypeOK, CallInv
<1>9. OkMeansDone'
  BY <1>1, <1>3, <1>5 DEF OutboundInv, TypeOK, OkMeansDone
<1> QED
  BY <1>4, <1>6, <1>7, <1>8, <1>9 DEF OutboundInv

-----------------------------------------------------------------------------
(* The inductive invariant, for any calls on any paths.                     *)
THEOREM OutboundInvariant == Spec => []OutboundInv
<1>1. OutboundInv /\ [Next]_vars => OutboundInv'
  <2> SUFFICES ASSUME OutboundInv, [Next]_vars PROVE OutboundInv'
    OBVIOUS
  <2>1. CASE Take
    BY <2>1, TakeKeeps
  <2>2. ASSUME NEW c \in Calls, Start(c) PROVE OutboundInv'
    BY <2>2, PublishKeeps, InvokeKeeps, BridgeReplyKeeps DEF Start
  <2>3. ASSUME NEW c \in Calls, Sending(c) PROVE OutboundInv'
    BY <2>3, SendKeeps, SendFailsKeeps DEF Sending
  <2>4. CASE UNCHANGED vars
    BY <2>4 DEF vars, OutboundInv, TypeOK, TopicInv, CallInv, OkMeansDone, NothingTwiceOrAfterAGap
  <2> QED
    BY <2>1, <2>2, <2>3, <2>4 DEF Next
<1> QED
  BY InitEstablishes, <1>1, PTL DEF Spec

(* A tool that reports success directly has done all its requests.          *)
THEOREM SuccessIsWhole == Spec => []OkMeansDone
<1>1. OutboundInv => OkMeansDone
  BY DEF OutboundInv
<1> QED
  BY <1>1, OutboundInvariant, PTL

(* Whatever fails, Telegram sees a prefix of each call's requests.          *)
THEOREM OnlyPrefixes == Spec => []NothingTwiceOrAfterAGap
<1>1. OutboundInv => NothingTwiceOrAfterAGap
  BY DEF OutboundInv
<1> QED
  BY <1>1, OutboundInvariant, PTL

(* Events are sent whole and in the order of publishing: what has sent      *)
(* something was taken, and everything taken before it is done.             *)
THEOREM OrderIsKept == Spec => []EventsInOrder
<1>1. OutboundInv => EventsInOrder
  <2> SUFFICES ASSUME OutboundInv, NEW i \in DOMAIN topic, NEW j \in DOMAIN topic, i < j, sent[topic[j]] # <<>>
               PROVE  pc[topic[i]] = "done"
    BY DEF EventsInOrder
  <2>1. i \in Nat /\ j \in Nat /\ taken \in Nat /\ topic[j] \in Calls
    BY DEF OutboundInv, TypeOK
  <2>2. j <= taken
    BY <2>1 DEF OutboundInv, TopicInv, CallInv
  <2> QED
    BY <2>1, <2>2 DEF OutboundInv, TopicInv
<1> QED
  BY <1>1, OutboundInvariant, PTL

-----------------------------------------------------------------------------
(* The health counters.  Each set they count starts empty and grows by the  *)
(* call that ends, which was not in it: so both stay finite, whatever the   *)
(* number of calls, and the counters are their sizes.                       *)

InTheChat == {c \in Calls : CountsInHealth(c) /\ pc[c] = "done" /\ c \notin failed /\ sent[c] # <<>>}
NotAllThere == {c \in failed : CountsInHealth(c)}

HealthCounts ==
    /\ health.success = Cardinality(InTheChat)
    /\ health.failure = Cardinality(NotAllThere)

HealthInv ==
    /\ \A c \in failed : pc[c] = "done"
    /\ \A c \in InTheChat : sent[c] = Requests(c)
    /\ IsFiniteSet(InTheChat) /\ IsFiniteSet(NotAllThere)
    /\ HealthCounts

(* A call that has sent nothing counts nowhere, wherever it goes.           *)
LEMMA NothingSentCountsNowhere ==
    ASSUME OutboundInv, HealthInv, NEW c \in Calls, pc[c] # "done", sent[c] = <<>>,
           NEW to, pc' = [pc EXCEPT ![c] = to], UNCHANGED <<sent, failed, health>>
    PROVE  HealthInv'
<1>1. pc'[c] = to /\ \A d \in Calls \ {c} : pc'[d] = pc[d]
  BY DEF OutboundInv, TypeOK
<1>2. c \notin failed /\ failed \subseteq Calls
  BY DEF HealthInv, OutboundInv, TypeOK
<1>3. \A d \in Calls : CountsInHealth(d)' <=> CountsInHealth(d)
  BY DEF CountsInHealth
<1>4. InTheChat' = InTheChat
  BY <1>1, <1>3 DEF InTheChat
<1>5. NotAllThere' = NotAllThere
  BY <1>2, <1>3 DEF NotAllThere
<1>6. \A d \in failed' : pc'[d] = "done"
  BY <1>1, <1>2 DEF HealthInv
<1>7. \A d \in InTheChat' : sent'[d] = Requests(d)'
  BY <1>4 DEF HealthInv
<1> QED
  BY <1>4, <1>5, <1>6, <1>7 DEF HealthInv, HealthCounts

(* The last request of a call puts it into the chat.                        *)
LEMMA SendCounts == ASSUME NEW c \in Calls, OutboundInv, HealthInv, Send(c) PROVE HealthInv'
<1>1. /\ pc[c] = "sending" /\ c \notin failed /\ failed' = failed /\ c \notin InTheChat
      /\ sent' = [sent EXCEPT ![c] = Append(@, NextRequest(c))]
  BY DEF Send, HealthInv, InTheChat
<1>2. sent'[c] # <<>> /\ \A d \in Calls \ {c} : sent'[d] = sent[d]
  <2>1. sent[c] \in Seq(RequestType) /\ sent'[c] = Append(sent[c], NextRequest(c))
    BY <1>1 DEF OutboundInv, TypeOK
  <2>2. sent'[c] # <<>>
    BY <1>1, <2>1, OneMore
  <2> QED BY <1>1, <2>2 DEF OutboundInv, TypeOK
<1>3. \A d \in Calls : CountsInHealth(d)' <=> CountsInHealth(d)
  BY DEF CountsInHealth
<1>4. NotAllThere' = NotAllThere
  BY <1>1, <1>3 DEF NotAllThere, OutboundInv, TypeOK
<1>5. CASE IsLast(c)
  <2>1. pc' = [pc EXCEPT ![c] = "done"] /\ Count(c, "success")
    BY <1>5 DEF Send, Move
  <2>2. pc'[c] = "done" /\ \A d \in Calls \ {c} : pc'[d] = pc[d]
    BY <2>1 DEF OutboundInv, TypeOK
  <2>3. \A d \in failed' : pc'[d] = "done"
    BY <1>1, <2>2 DEF HealthInv, OutboundInv, TypeOK
  <2>6. sent'[c] = Requests(c)
    <3>1. /\ sent[c] \in Seq(RequestType) /\ sent'[c] = Append(sent[c], NextRequest(c))
          /\ sent'[c] \in Seq(RequestType) /\ Len(sent'[c]) = Len(sent[c]) + 1
          /\ \A i \in DOMAIN sent'[c] : sent'[c][i] = Requests(c)[i]
      BY <1>1, OneMore DEF OutboundInv, TypeOK
    <3>2. Len(sent'[c]) = Len(Requests(c))
      BY <3>1, <1>5 DEF IsLast
    <3> QED BY <3>1, <3>2, AllOfThem
  <2>7. \A d \in InTheChat : sent'[d] = Requests(d)
    BY <1>1, <1>2 DEF HealthInv, InTheChat
  <2>4. CASE CountsInHealth(c)
    <3>1. InTheChat' = InTheChat \cup {c}
      BY <1>1, <1>2, <1>3, <2>2, <2>4 DEF InTheChat
    <3>2. IsFiniteSet(InTheChat') /\ Cardinality(InTheChat') = Cardinality(InTheChat) + 1
      BY <1>1, <3>1, FS_AddElement DEF HealthInv
    <3>3. health'.success = health.success + 1 /\ health'.failure = health.failure
      BY <2>1, <2>4 DEF Count, OutboundInv, TypeOK
    <3>4. \A d \in InTheChat' : sent'[d] = Requests(d)'
      BY <2>6, <2>7, <3>1
    <3> QED
      BY <1>4, <2>3, <3>2, <3>3, <3>4 DEF HealthInv, HealthCounts
  <2>5. CASE ~CountsInHealth(c)
    <3>1. InTheChat' = InTheChat
      BY <1>1, <1>2, <1>3, <2>2, <2>5 DEF InTheChat
    <3>2. health' = health
      BY <2>1, <2>5 DEF Count
    <3>3. \A d \in InTheChat' : sent'[d] = Requests(d)'
      BY <2>7, <3>1
    <3> QED
      BY <1>4, <2>3, <3>1, <3>2, <3>3 DEF HealthInv, HealthCounts
  <2> QED BY <2>4, <2>5
<1>6. CASE ~IsLast(c)
  <2>1. UNCHANGED <<pc, health>>
    BY <1>6 DEF Send
  <2>2. InTheChat' = InTheChat
    BY <1>1, <1>2, <1>3, <2>1 DEF InTheChat
  <2>3. \A d \in InTheChat' : sent'[d] = Requests(d)'
    BY <1>1, <1>2, <2>2 DEF HealthInv, InTheChat
  <2> QED
    BY <1>1, <1>4, <2>1, <2>2, <2>3 DEF HealthInv, HealthCounts
<1> QED BY <1>5, <1>6

(* A failed request ends its call, which is then not all in the chat.       *)
LEMMA SendFailsCounts == ASSUME NEW c \in Calls, OutboundInv, HealthInv, SendFails(c) PROVE HealthInv'
<1>1. /\ pc[c] = "sending" /\ c \notin failed /\ c \notin InTheChat /\ c \notin NotAllThere
      /\ failed' = failed \cup {c} /\ failed \subseteq Calls
      /\ pc' = [pc EXCEPT ![c] = "done"] /\ Count(c, "failure")
      /\ sent' \in {sent, [sent EXCEPT ![c] = Append(@, NextRequest(c))]}
  BY DEF SendFails, Move, HealthInv, InTheChat, NotAllThere, OutboundInv, TypeOK
<1>2. pc'[c] = "done" /\ \A d \in Calls \ {c} : pc'[d] = pc[d] /\ sent'[d] = sent[d]
  BY <1>1 DEF OutboundInv, TypeOK
<1>3. \A d \in Calls : CountsInHealth(d)' <=> CountsInHealth(d)
  BY DEF CountsInHealth
<1>4. \A d \in failed' : pc'[d] = "done"
  BY <1>1, <1>2 DEF HealthInv
<1>5. InTheChat' = InTheChat
  BY <1>1, <1>2, <1>3 DEF InTheChat
<1>8. \A d \in InTheChat' : sent'[d] = Requests(d)'
  BY <1>1, <1>2, <1>5 DEF HealthInv, InTheChat
<1>6. CASE CountsInHealth(c)
  <2>1. NotAllThere' = NotAllThere \cup {c}
    BY <1>1, <1>3, <1>6 DEF NotAllThere
  <2>2. IsFiniteSet(NotAllThere') /\ Cardinality(NotAllThere') = Cardinality(NotAllThere) + 1
    BY <1>1, <2>1, FS_AddElement DEF HealthInv
  <2>3. health'.failure = health.failure + 1 /\ health'.success = health.success
    BY <1>1, <1>6 DEF Count, OutboundInv, TypeOK
  <2> QED
    BY <1>4, <1>5, <1>8, <2>2, <2>3 DEF HealthInv, HealthCounts
<1>7. CASE ~CountsInHealth(c)
  <2>1. NotAllThere' = NotAllThere
    BY <1>1, <1>3, <1>7 DEF NotAllThere
  <2>2. health' = health
    BY <1>1, <1>7 DEF Count
  <2> QED
    BY <1>4, <1>5, <1>8, <2>1, <2>2 DEF HealthInv, HealthCounts
<1> QED BY <1>6, <1>7

LEMMA HealthInit == Init => HealthInv
<1> SUFFICES ASSUME Init PROVE HealthInv
  OBVIOUS
<1>1. InTheChat = {} /\ NotAllThere = {}
  BY DEF Init, InTheChat, NotAllThere
<1>2. IsFiniteSet({}) /\ Cardinality({}) = 0
  BY FS_EmptySet
<1> QED
  BY <1>1, <1>2 DEF Init, HealthInv, HealthCounts

LEMMA HealthStep == OutboundInv /\ HealthInv /\ [Next]_vars => HealthInv'
<1> SUFFICES ASSUME OutboundInv, HealthInv, [Next]_vars PROVE HealthInv'
  OBVIOUS
<1>1. CASE Take
  <2> DEFINE c == topic[taken + 1]
  <2>1. c \in Calls /\ pc[c] = "queued" /\ sent[c] = <<>>
    <3>1. taken \in Nat /\ taken + 1 \in DOMAIN topic
      BY <1>1 DEF OutboundInv, TypeOK, Take
    <3> QED BY <3>1 DEF OutboundInv, TypeOK, TopicInv, CallInv
  <2>2. pc' = [pc EXCEPT ![c] = IF Requests(c) = <<>> THEN "done" ELSE "sending"]
    BY <1>1 DEF Take, Move
  <2> QED BY <1>1, <2>1, <2>2, NothingSentCountsNowhere DEF Take
<1>2. ASSUME NEW c \in Calls, Start(c) PROVE HealthInv'
  <2>1. pc[c] = "new" /\ sent[c] = <<>> /\ UNCHANGED <<sent, failed, health>>
    BY <1>2 DEF Start, Publish, Invoke, BridgeReply, OutboundInv, CallInv
  <2>2. \E to \in {"queued", "sending", "done"} : pc' = [pc EXCEPT ![c] = to]
    BY <1>2 DEF Start, Publish, Invoke, BridgeReply, Move
  <2> QED BY <2>1, <2>2, NothingSentCountsNowhere
<1>3. ASSUME NEW c \in Calls, Sending(c) PROVE HealthInv'
  BY <1>3, SendCounts, SendFailsCounts DEF Sending
<1>4. CASE UNCHANGED vars
  BY <1>4
  DEF vars, HealthInv, HealthCounts, InTheChat, NotAllThere, CountsInHealth
<1> QED BY <1>1, <1>2, <1>3, <1>4 DEF Next

(* A text that was sent to its end is whole in its chat, and one that ended *)
(* is in just one of the two sets.                                          *)
LEMMA HealthInvIsEnough == OutboundInv /\ HealthInv => HealthNeverFlatters
<1> SUFFICES ASSUME OutboundInv, HealthInv PROVE HealthNeverFlatters
  OBVIOUS
<1> DEFINE ended == {c \in Calls : CountsInHealth(c) /\ pc[c] = "done" /\ (sent[c] # <<>> \/ c \in failed)}
           whole == {c \in ended : sent[c] = Requests(c)}
<1>1. failed \subseteq Calls /\ \A c \in failed : pc[c] = "done"
  BY DEF OutboundInv, TypeOK, HealthInv
<1>2. ended = InTheChat \cup NotAllThere /\ InTheChat \cap NotAllThere = {}
  BY <1>1 DEF InTheChat, NotAllThere
<1>3. InTheChat \subseteq whole /\ whole \subseteq ended
  BY <1>2 DEF HealthInv
<1> HIDE DEF ended, whole
<1>4. IsFiniteSet(InTheChat) /\ IsFiniteSet(NotAllThere) /\ HealthCounts
  BY DEF HealthInv
<1>5. /\ IsFiniteSet(ended)
      /\ Cardinality(ended) = Cardinality(InTheChat) + Cardinality(NotAllThere) - Cardinality(InTheChat \cap NotAllThere)
  BY <1>2, <1>4, FS_Union
<1>6. Cardinality(InTheChat \cap NotAllThere) = 0
  BY <1>2, FS_EmptySet
<1>7. Cardinality(InTheChat) \in Nat /\ Cardinality(NotAllThere) \in Nat
  BY <1>4, FS_CardinalityType
<1>8. IsFiniteSet(whole)
  BY <1>3, <1>5, FS_Subset
<1>9. Cardinality(InTheChat) <= Cardinality(whole)
  BY <1>3, <1>8, FS_Subset
<1>10. health.success <= Cardinality(whole)
  BY <1>4, <1>9 DEF HealthCounts
<1>11. health.success + health.failure = Cardinality(ended)
  BY <1>4, <1>5, <1>6, <1>7 DEF HealthCounts
<1> QED
  BY <1>10, <1>11 DEF HealthNeverFlatters, ended, whole

(* The health counters never claim more texts than are whole in the chats,  *)
(* and count each text that was sent or failed once.                        *)
THEOREM HealthErrsOnTheSafeSide == Spec => []HealthNeverFlatters
<1>1. Spec => []HealthInv
  BY OutboundInvariant, HealthInit, HealthStep, PTL DEF Spec
<1> QED
  BY <1>1, OutboundInvariant, HealthInvIsEnough, PTL
=============================================================================
