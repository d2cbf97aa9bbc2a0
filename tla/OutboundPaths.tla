--------------------------- MODULE OutboundPaths ---------------------------
(***************************************************************************)
(* How what an agent wants to send becomes requests to the Bot API.  A tool *)
(* call either publishes an event (src/src/tool.rs) for the dispatcher      *)
(* (spawn_dispatcher in src/src/plugin.rs), or is served at once            *)
(* (src/src/subprocess_dispatch.rs); pairing handlers publish events too    *)
(* (src/src/auto_discovery.rs), and a bridge task sends its reply itself.   *)
(* A long text is several requests, and any request may fail, also after    *)
(* Telegram has carried it out.                                             *)
(***************************************************************************)
EXTENDS Naturals, Sequences, FiniteSets

CONSTANTS
    Calls,     \* what is to be sent
    Op,        \* what each call does
    Via,       \* the path it takes
    Segments,  \* how many segments split_text makes of its text, 0 for ""
    Denied     \* calls to a chat outside the agent's allowlist

Tools == {"message", "reply", "edit", "reaction", "location", "photo", "photoByKind"}
Pairing == {"pairingText", "pairingQr"}

ASSUME CallsAssumption ==
    /\ Op \in [Calls -> Tools \cup Pairing \cup {"bridgeReply", "agentPhoto"}]
    /\ Via \in [Calls -> {"direct", "broker", "bridge"}]
    /\ Segments \in [Calls -> Nat]
    /\ \A c \in Calls :
          /\ Via[c] = "direct" => Op[c] \in Tools
          /\ Via[c] = "bridge" <=> Op[c] = "bridgeReply"
    /\ Denied \subseteq {c \in Calls : Via[c] = "broker" /\ Op[c] \in Tools}

VARIABLES
    pc,      \* where each call is
    result,  \* what its caller was told
    topic,   \* the events published on the outbound topic, by call
    taken,   \* how many of them the dispatcher has taken
    sent,    \* the requests of each call that Telegram carried out
    failed,  \* calls one of whose requests failed
    health   \* outbound_success, outbound_failure

vars == <<pc, result, topic, taken, sent, failed, health>>

-----------------------------------------------------------------------------
(* Requests.  An operator named <definition>_<slip> is that definition with *)
(* a slip in it; Next does not use them.                                    *)

Methods == {"sendMessage", "editMessageText", "setMessageReaction", "sendLocation", "sendPhoto"}
RequestType == [method : Methods, threaded : BOOLEAN, part : Nat]

Request(method, threaded, part) == [method |-> method, threaded |-> threaded, part |-> part]

(* send_text_chunked: every segment carries the reply reference; "" is one  *)
(* empty segment.                                                           *)
Texts(c, threaded) ==
    LET parts == IF Segments[c] = 0 THEN 1 ELSE Segments[c]
    IN  [i \in 1 .. parts |-> Request("sendMessage", threaded, i)]

Single(method) == <<Request(method, FALSE, 1)>>

(* dispatch_telegram_tool, dispatch_custom and the bridge's reply.          *)
DirectRequests(c) ==
    CASE Op[c] = "message" -> Texts(c, FALSE)
      [] Op[c] \in {"reply", "bridgeReply"} -> Texts(c, TRUE)
      [] Op[c] = "edit" -> Single("editMessageText")
      [] Op[c] = "reaction" -> Single("setMessageReaction")
      [] Op[c] = "location" -> Single("sendLocation")
      [] OTHER -> Single("sendPhoto")

-----------------------------------------------------------------------------
(* Events: how the chat is given, the kind, and whether there is a source.  *)

Payload(to, kind, source, text) == [to |-> to, kind |-> kind, source |-> source, text |-> text]

ToolEvent(c) ==
    CASE Op[c] = "message" -> Payload("integer", "none", FALSE, Segments[c])
      [] Op[c] = "reply" -> Payload("chat_id", "reply", FALSE, Segments[c])
      [] Op[c] = "edit" -> Payload("chat_id", "edit_message", FALSE, Segments[c])
      [] Op[c] = "reaction" -> Payload("chat_id", "reaction", FALSE, 0)
      [] Op[c] = "location" -> Payload("chat_id", "send_location", FALSE, 0)
      [] OTHER -> Payload("chat_id", "send_photo", TRUE, 0)

(* The QR image travels as png_base64, which is not a source.               *)
PairingEvent(c) ==
    IF Op[c] = "pairingText" THEN Payload("string", "text", FALSE, Segments[c])
                             ELSE Payload("string", "photo", FALSE, 0)

Event(c) ==
    CASE Op[c] \in Tools -> ToolEvent(c)
      [] Op[c] \in Pairing -> PairingEvent(c)
      [] OTHER -> Payload("chat_id", "photo", TRUE, 0)

(* `to' counts when it is a string, chat_id when it is an integer.          *)
ChatKnown(payload) == payload.to \in {"string", "chat_id"}

IsMedia(payload) ==
    payload.kind \in {"photo", "voice", "audio", "video", "document", "animation"} /\ payload.source

DispatcherRequests(c) ==
    LET payload == Event(c)
    IN  CASE ChatKnown(payload) /\ IsMedia(payload) -> Single("sendPhoto")
          [] ChatKnown(payload) /\ ~IsMedia(payload) /\ payload.text > 0 -> Texts(c, FALSE)
          [] OTHER -> <<>>

Requests(c) == IF Via[c] = "broker" THEN DispatcherRequests(c) ELSE DirectRequests(c)

CountsInHealth(c) ==
    \/ Via[c] = "bridge"
    \/ Via[c] = "broker" /\ Requests(c) # <<>> /\ ~IsMedia(Event(c))

-----------------------------------------------------------------------------
TypeOK ==
    /\ pc \in [Calls -> {"new", "queued", "sending", "done"}]
    /\ result \in [Calls -> {"none", "invalid", "error", "ok"}]
    /\ topic \in Seq(Calls) /\ taken \in 0 .. Len(topic)
    /\ sent \in [Calls -> Seq(RequestType)]
    /\ failed \subseteq Calls
    /\ health \in [success : Nat, failure : Nat]

Init ==
    /\ pc = [c \in Calls |-> "new"]
    /\ result = [c \in Calls |-> "none"]
    /\ sent = [c \in Calls |-> <<>>]
    /\ topic = <<>> /\ taken = 0 /\ failed = {}
    /\ health = [success |-> 0, failure |-> 0]

Move(c, to) == pc' = [pc EXCEPT ![c] = to]
Answer(c, to) == result' = [result EXCEPT ![c] = to]
Count(c, outcome) == health' = IF CountsInHealth(c) THEN [health EXCEPT ![outcome] = @ + 1] ELSE health

-----------------------------------------------------------------------------
(* The calls.                                                               *)

(* What publish_outbound's callers and pairing_send_reply check first.      *)
Publishable(c) ==
    /\ c \notin Denied
    /\ Op[c] \in {"message", "pairingText"} => Segments[c] > 0
    /\ Op[c] # "photoByKind"

(* A tool or a pairing handler publishes its event; the daemon's breaker or *)
(* the broker can refuse it.                                                *)
Publish(c) ==
    /\ Via[c] = "broker" /\ pc[c] = "new"
    /\ \/ ~Publishable(c) /\ Answer(c, "invalid") /\ Move(c, "done") /\ UNCHANGED topic
       \/ Publishable(c) /\ Answer(c, "error") /\ Move(c, "done") /\ UNCHANGED topic
       \/ Publishable(c) /\ Answer(c, "ok") /\ Move(c, "queued") /\ topic' = Append(topic, c)
    /\ UNCHANGED <<taken, sent, failed, health>>

(* The advertised schema names the media field `media', the direct path     *)
(* requires `kind'.                                                         *)
Invoke(c) ==
    /\ Via[c] = "direct" /\ pc[c] = "new"
    /\ \/ Op[c] = "photo" /\ Answer(c, "invalid") /\ Move(c, "done")
       \/ Op[c] # "photo" /\ Move(c, "sending") /\ UNCHANGED result
    /\ UNCHANGED <<topic, taken, sent, failed, health>>

(* A bridge task got its reply; an empty one is not sent.                   *)
BridgeReply(c) ==
    /\ Via[c] = "bridge" /\ pc[c] = "new"
    /\ Move(c, IF Segments[c] = 0 THEN "done" ELSE "sending")
    /\ UNCHANGED <<result, topic, taken, sent, failed, health>>

Dispatching == {c \in Calls : Via[c] = "broker" /\ pc[c] = "sending"}

Take_WhileSending ==
    /\ taken < Len(topic)
    /\ taken' = taken + 1
    /\ Move(topic[taken'], IF Requests(topic[taken']) = <<>> THEN "done" ELSE "sending")
    /\ UNCHANGED <<result, topic, sent, failed, health>>

(* An error that is propagated instead of logged ends the dispatcher.       *)
Take_UntilAFailure ==
    /\ taken < Len(topic) /\ Dispatching = {}
    /\ \A c \in failed : Via[c] # "broker"
    /\ taken' = taken + 1
    /\ Move(topic[taken'], IF Requests(topic[taken']) = <<>> THEN "done" ELSE "sending")
    /\ UNCHANGED <<result, topic, sent, failed, health>>

(* The dispatcher takes one event at a time; one that resolves to no chat,  *)
(* or has neither a text nor a media source, is dropped.                    *)
Take ==
    /\ taken < Len(topic) /\ Dispatching = {}
    /\ taken' = taken + 1
    /\ Move(topic[taken'], IF Requests(topic[taken']) = <<>> THEN "done" ELSE "sending")
    /\ UNCHANGED <<result, topic, sent, failed, health>>

-----------------------------------------------------------------------------
(* The requests of a call, one after the other.                             *)

NextRequest(c) == Requests(c)[Len(sent[c]) + 1]
IsLast(c) == Len(sent[c]) + 1 = Len(Requests(c))

(* The success of every segment is counted.                                 *)
Send_CountsSegments(c) ==
    /\ pc[c] = "sending"
    /\ sent' = [sent EXCEPT ![c] = Append(@, NextRequest(c))]
    /\ Count(c, "success")
    /\ IF IsLast(c)
       THEN /\ Move(c, "done")
            /\ IF Via[c] = "direct" THEN Answer(c, "ok") ELSE UNCHANGED result
       ELSE UNCHANGED <<pc, result>>
    /\ UNCHANGED <<topic, taken, failed>>

Send(c) ==
    /\ pc[c] = "sending"
    /\ sent' = [sent EXCEPT ![c] = Append(@, NextRequest(c))]
    /\ IF IsLast(c)
       THEN /\ Move(c, "done")
            /\ Count(c, "success")
            /\ IF Via[c] = "direct" THEN Answer(c, "ok") ELSE UNCHANGED result
       ELSE UNCHANGED <<pc, result, health>>
    /\ UNCHANGED <<topic, taken, failed>>

(* The rest of the text is sent all the same, and the call succeeds.        *)
SendFails_GoesOn(c) ==
    /\ pc[c] = "sending"
    /\ failed' = failed \cup {c}
    /\ Move(c, "done")
    /\ Count(c, "success")
    /\ IF Via[c] = "direct" THEN Answer(c, "ok") ELSE UNCHANGED result
    /\ UNCHANGED <<topic, taken, sent>>

(* A request that timed out is sent again.                                  *)
SendFails_Retries(c) ==
    /\ pc[c] = "sending"
    /\ failed' = failed \cup {c}
    /\ sent' \in {sent, [sent EXCEPT ![c] = @ \o <<NextRequest(c), NextRequest(c)>>]}
    /\ Move(c, "done")
    /\ Count(c, "failure")
    /\ IF Via[c] = "direct" THEN Answer(c, "error") ELSE UNCHANGED result
    /\ UNCHANGED <<topic, taken>>

(* A request fails, having reached Telegram or not: the rest is not sent.   *)
(* A tool returns the error; dispatcher and bridge count it and go on.      *)
SendFails(c) ==
    /\ pc[c] = "sending"
    /\ failed' = failed \cup {c}
    /\ sent' \in {sent, [sent EXCEPT ![c] = Append(@, NextRequest(c))]}
    /\ Move(c, "done")
    /\ Count(c, "failure")
    /\ IF Via[c] = "direct" THEN Answer(c, "error") ELSE UNCHANGED result
    /\ UNCHANGED <<topic, taken>>

-----------------------------------------------------------------------------
Start(c) == Publish(c) \/ Invoke(c) \/ BridgeReply(c)
Sending(c) == Send(c) \/ SendFails(c)

Next == Take \/ \E c \in Calls : Start(c) \/ Sending(c)

Spec == Init /\ [][Next]_vars

(* Every request ends within its time-out, and Tokio runs ready tasks.      *)
FairSpec == Spec /\ WF_vars(Take) /\ \A c \in Calls : WF_vars(Sending(c))

-----------------------------------------------------------------------------
(* A tool that reports success directly has done all its requests.          *)
OkMeansDone ==
    \A c \in Calls : Via[c] = "direct" /\ result[c] = "ok" => sent[c] = DirectRequests(c)

(* Whatever fails, Telegram sees of each call a prefix of its requests:     *)
(* nothing twice, out of order or after a gap.                              *)
NothingTwiceOrAfterAGap ==
    \A c \in Calls :
        /\ Len(sent[c]) <= Len(Requests(c))
        /\ \A i \in DOMAIN sent[c] : sent[c][i] = Requests(c)[i]

(* Events are sent whole, one after the other, in the order of publishing.  *)
(* (Replies and direct calls send at the same time, in between.)            *)
EventsInOrder ==
    \A i, j \in DOMAIN topic : i < j /\ sent[topic[j]] # <<>> => pc[topic[i]] = "done"

(* The health counters err on the safe side.  A failed request may have been *)
(* carried out, so the texts that are whole in their chats may be more than *)
(* the successes, but never fewer; and each text counts once, although it is *)
(* several requests.                                                        *)
HealthNeverFlatters ==
    LET ended == {c \in Calls : CountsInHealth(c) /\ pc[c] = "done" /\ (sent[c] # <<>> \/ c \in failed)}
    IN  /\ health.success <= Cardinality({c \in ended : sent[c] = Requests(c)})
        /\ health.success + health.failure = Cardinality(ended)

(* Everything that is started ends; the topic is drained.                   *)
EverythingEnds == \A c \in Calls : pc[c] \in {"queued", "sending"} ~> pc[c] = "done"

-----------------------------------------------------------------------------
(* The inductive invariant behind OkMeansDone, NothingTwiceOrAfterAGap and  *)
(* EventsInOrder: the dispatcher's place in the topic tells where each event *)
(* is, and a call that sends has a request left.                            *)

TopicInv ==
    /\ \A i \in DOMAIN topic : Via[topic[i]] = "broker" /\ pc[topic[i]] # "new"
    /\ \A i, j \in DOMAIN topic : topic[i] = topic[j] => i = j
    /\ \A i \in DOMAIN topic : pc[topic[i]] = "queued" <=> i > taken
    /\ \A i \in DOMAIN topic : i < taken => pc[topic[i]] = "done"

CallInv(c) ==
    /\ pc[c] \in {"new", "queued"} => sent[c] = <<>>
    /\ pc[c] = "new" => result[c] = "none"
    /\ pc[c] = "sending" => Len(sent[c]) < Len(Requests(c))
    /\ pc[c] = "sending" /\ Via[c] = "direct" => result[c] = "none"

OutboundInv ==
    /\ TypeOK
    /\ TopicInv
    /\ \A c \in Calls : CallInv(c)
    /\ OkMeansDone
    /\ NothingTwiceOrAfterAGap

-----------------------------------------------------------------------------
(* A tool's event is routed through the Bot API (tool.rs:1-3).  A message's  *)
(* event names its chat by an integer `to', which is not read; a reaction's   *)
(* and a location's have neither text nor source.                            *)
EveryToolReachesTheApi ==
    \A c \in Calls : Op[c] \in Tools /\ result[c] = "ok" /\ pc[c] = "done" /\ c \notin failed => sent[c] # <<>>
=============================================================================
