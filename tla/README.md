# A TLA+ model of nexo-plugin-telegram

`nexo-plugin-telegram` connects a Telegram bot to an agent daemon. One process
long-polls the Bot API, publishes each accepted message on the daemon's broker,
waits for the agent's answer, and sends it back to the chat; it also serves tool
calls and a few request-reply topics. This directory models the parts of that
program where the order of things matters, checks them with TLC and proves the
main results with TLAPS. Paths below are relative to the repository's root as
`src/…`; `plugin.rs` is `src/src/plugin.rs` and so on.

## 1. Inventory

| Component | State it keeps | Operations | What is hard | What makes it correct |
|---|---|---|---|---|
| Reply bridge (`plugin.rs` 54-66, 227-246, 547-888, 1328-1537) | `pending` (a queue of entries per session), `session_to_chat`, a oneshot and a typing ticker per message, `health` | accept a message, push its entry, publish it, hand over or send an outbound event, time out, `stop` | poller, dispatcher, a bridge task per message and `stop()` share the maps without one lock | an answer reaches the message it answers, once; nothing types or waits for ever; queues stay in order |
| Update cursor (`plugin.rs` 547-608, 875-886, 991-1016) | `offset` in memory, the offset file, Telegram's queue of updates | fetch, walk a batch, save (write a temporary file, rename) | crashes between any two steps, failed requests and writes, unreadable files, several instances | no update is lost; repeats only with a cause; order is kept |
| Conversations across restarts (`plugin.rs` 63-66, 680, 783, 991-1016, 1357-1397) | the offset file outlives the process; `pending` and `session_to_chat` do not, and the agent does not notice | everything of the two rows above, a crash or a stop between any two | three memories with three lifetimes | what is forgotten reached the agent; repeated, crossed and dropped answers have a cause |
| Start and configuration (`main.rs` 43-159, `plugin.rs` 171-225, `config.rs`, `env_config.rs`) | `PLUGIN` (a OnceCell), `configured_state()`, the spawned tasks | `plugin.configure`, first `tool.invoke`, each step of `start()` | several first calls at once; every step can fail after earlier ones took effect | one complete plugin per process; every call is answered; a delivered array has one account that runs |
| Outbound dispatcher (`plugin.rs` 1328-1537) | the subscription | one event at a time: reply, media by `kind`, text | payload shapes of several producers; failure halfway through a long text | an event that was accepted has its effect |
| LLM tools (`tool.rs`, `subprocess_dispatch.rs`) | none (a breaker of the daemon) | six tools, over the broker or directly | the same tool on two paths | both paths do the same |
| Bot API client (`bot.rs`) | a circuit breaker | one request per method, upload, download | the breaker belongs to a library | a failing API is left alone and found again |
| Text splitting (`bot.rs` 631-703) | none | `split_text`, `truncate_utf16` | two length units | no unit lost, every segment within the limit |
| Media cache (`plugin.rs` 1021-1193, `bot.rs` 546-571) | files under the media directory | download, reuse | interrupted downloads | a reused file is the whole file |
| Voice transcription (`plugin.rs` 698-713, 1211-1326) | a child process | start, feed, hear, time out, kill | time-out against late answer; cached, edited and repeated files | the text is that of the message's voice; no child left; the message goes out |
| Request-reply topics (`main.rs` 244-376, `auto_discovery.rs`) | a subscription per topic | pairing, http, admin, metrics | requests of one topic wait for each other; a pairing message needs a running bot | one reply per request, in order; a message that nobody hears has a cause |
| Credential handlers (`main.rs` 160-221) | none of their own | list, issue, resolve, reload | they read what was delivered, the bot runs with what it read | both agree but for a delivery since, and for an account without instance |

The poller and the dispatcher meet in `pending`; the poller and the broker meet
in the inbound topic; everything that sends shares one `BotClient`. The offset
file is the only state that survives the process.

`PROJECT.json` lists every component with what is and is not modelled of it, and
the hazards, each at the line where it bites with the properties that watch it.

## 2. Modules

| Module | Models | Composed with |
|---|---|---|
| `ReplyContract` | what a message is promised: opened once and in order, at most one reply, one fate | abstract specification of `ReplyBridge` |
| `ReplyBridge` | poller, dispatcher, bridge tasks and `stop()` around the pending map | implements `ReplyContract` (refinement mapping `FateOf`, `slot`, `typing`) |
| `UpdateCursor` | the offset, its file, the batch loop, crashes | the life of one update is `Accept … PublishInbound` in `ReplyBridge` |
| `AnswersAcrossRestarts` | the two above over crashes and stops: pending entries, known chats, an agent that goes on | extends `UpdateCursor`; each step is one of its steps or leaves it alone |
| `PluginBoot` | `plugin.configure`, the OnceCell, each step of `start()` | what it starts is what the modules above run |
| `RequestReply` | the tasks of the request topics, pairing messages, credentials | extends `PluginBoot` in the same way |
| `OutboundPaths` | tools, pairing, dispatcher, direct dispatch, chunked sends | a bridge's reply is its `bridgeReply`; `Segments` is what `SplitText` returns |
| `SplitText` | `split_text` | see above |
| `MediaCache` | downloads, cache hits and descriptors of a message's attachments | between `TakeUpdate` and `FinishUpdate` of `UpdateCursor` |
| `VoiceIntake` | the whisper process of a voice message | extends `MediaCache` in the same way |

An `MC…` module gives TLC the instance of each run (`MediaCache` runs inside
`VoiceIntake`), and a `…Proofs` module holds the theorems of each, those about
`RequestReply` in `PluginBootProofs`. An operator named `<definition>_<slip>` is that definition
with a plausible mistake in it; no specification uses one, and `PROJECT.json`
says which property notices which mistake.

### ReplyBridge

Every lock-free window of the code is a boundary between two actions. The poller
is `Fetch`, `Accept` (`session_to_chat.insert`), `PushEntry` (entry and ticker),
`PublishInbound` or `PublishFails`, `BatchDone`, `PollerExit`. The dispatcher is
`Receive`, `PopEntry`, `CheckEmpty`, `RemoveSession`, `HandOver`, `Route`,
`DispatcherExit`: three separate guards of the DashMap are three actions. A
bridge task is `BridgeElapse` (the timer is due), `BridgeReply`, `BridgeOrphan`
or `BridgeExpire` (each with the abort of the ticker and the `retain`), then
`BridgeSend`. The oneshot is `slot` and `Receiving`: a send succeeds while the
receiver exists, which it still does between the timer and the end of the task.
`stop()` cancels, then drains and clears chat by chat, as `iter_mut` and `clear`
hold one shard at a time, and joins. A session is its chat. An event has the session
that tags it and the chat its payload names (`to`), each of which may be missing, and
they need not agree: `Receive` looks at the session alone, `Route` lets `to` come first.
A payload is a text, something with media, or empty; the agent (`Runtime`) answers a session's
messages in order, may stay silent, be slow, or speak up by itself.

### UpdateCursor

`FetchOk` and `FetchFails` are `getUpdates`; `TakeUpdate` moves the offset past an
update, `FinishUpdate` is everything the loop body does with it, `EndBatch`,
`Truncate`, `Write`, `Rename` and `SaveFails` are `save_offset`, `Start` and
`Misread` are `load_offset`. `Crash` is possible in every state. Telegram forgets
what lies below the offset of a request; it gives ids one by one, as it does but
after long silences.

### AnswersAcrossRestarts

`Polling` is every step of `UpdateCursor` that does not finish an update; when it
ends the process, `EndProcess` empties `pending` and `known` with it. `Register`
and `PublishUpdate` are the life of an accepted message around `FinishUpdate`,
`Expire` its bridge's time-out, `StopDrains` is `stop()`. `Turn` is the agent, which
takes the messages it was sent in order, also while the plugin is down, and answers
them or not; whether the broker keeps what nobody hears is left open. `Dispatch` is the
dispatcher, in the steps of `ReplyBridge`: `TakeEvent` pops the oldest entry of the
event's session, whatever message the event answers, if any; `CheckEmpty` and
`RemoveSession` are the clean-up, with the poller's pushes between them; `HandOver` gives
the event to the bridge of the popped entry while its receiver lives (`popped`), else
sends it to the chat known for the session, else drops it. A bridge's reply is sent in
`HandOver` too: what can fail after it is in `ReplyBridge` and `OutboundPaths`.

### PluginBoot

`Invoke` finds the cell full, takes the permit of the OnceCell or waits for it;
`ReadConfig`, `BuildBroker`, `GetMe`, `SpawnPoller` and `Subscribe` are the steps
of the initialiser, each of which can `Fail` but the spawn. A failure gives the
permit back and leaves running what was spawned: dropping a JoinHandle does not
end its task. Plugins are named by the call that creates them. A delivery is an
array of accounts, of which the first is started.

### RequestReply

`SubscribeTopic`, `Take`, `Handle` and `Reply` are the task of one topic (`spawn_one`): it
has one request in hand, and a reply it cannot publish is lost. `Handle` publishes the event
of a pairing message and remembers who hears it (`Hearers`, the dispatchers of its
account); the handlers that only read are a word. `Ask` is the daemon, which asks
again when it was not told of a success. `Resolved` and `Listed` are the credential
handlers, which are reads of the delivered array: a configuration may have no instance
(`NoInstance`), in which case it is not an account to them. `Deliver`, `Call` and `Boot` are the
steps of `PluginBoot`.

### OutboundPaths

A call is what it does (`Op`), the path it takes (`Via`) and how many segments its
text has. `Publish` is a tool or a pairing handler that puts an event on the topic,
`Take` the dispatcher that resolves chat and kind, `Invoke` the direct dispatch,
`BridgeReply` a bridge that sends its answer. `Send` and `SendFails` are one request each;
one that fails may have been carried out. Events differ only in what the
dispatcher looks at: how the chat is named, the kind, a source, a text.

### SplitText

A text is how many UTF-16 units its first *i* characters have and where its
newlines are; `cur`, `buf` and the segments are stretches of it, `curUnits` and
`bufUnits` the counters of the code. `LongLine`, `Character`, `EndOfLine`,
`NextLine` and `Finish` are the branches of `split_text`, the stale `cur_units` of
lines 670-672 included.

### MediaCache

An attachment goes through `GetFile`, `LookUp`, `Request`, then `FinishWrite` or
`BreakWrite`; the message is published with the descriptors its attachments gave.
A path is the message and the first ten characters of the file id with the
extension; a file on disk is partial or whole. `Crash` goes back to the saved
offset, so that updates come again; an edited message comes with the same id.

### VoiceIntake

`Take`, `Launch`, `Feed`, `Hear`, `TimeOut`, `Reap` and `Publish` are the poller from a downloaded
message to its publication, `Speak` the whisper program, which may be late, fail or
stay silent. A text is the content that was transcribed, so that a text of a wrong or
torn file can be told. `Die` is a kill of the plugin, which leaves the child to itself
(`kill_on_drop` needs a drop) until `OrphanEnds`.

## 3. Runs

| Run | Instance | Shows |
|---|---|---|
| `bridge_safety` | 3 messages, 2 chats, 1 unsolicited event with any session or none, every event naming the second chat; slow and silent turns, failing publishes and sends | the safety of the bridge and its refinement of `ReplyContract`; an answer leaves its conversation only with a cause |
| `bridge_stop` | 2 messages, 2 chats, slow turns, `stop()` and a subscription that ends, at any moment; texts and media that name no chat | every bridge gets an outcome, and shutdown completes |
| `bridge_alignment` | 2 messages, slow turns | **violated**: "a queue pop aligns reply N with message N" |
| `bridge_cleanup_race` | 2 messages | **violated**: only empty queues are dropped |
| `cursor_restarts` | 3 updates of mixed kinds, one outside the allowlist, 2 crashes, a failed write, an unreadable file, a stop | nothing is lost or reordered, repeats have a cause, everything is processed |
| `answers_restarts` | 2 messages of one chat; any two of a crash, a failed write, an unreadable file, a stop, a time-out, an event that answers nothing; silent turns | what Telegram forgets reached the agent; an answer comes once while no offset is lost; crossed and dropped answers have a cause |
| `requests` | 2 first calls, an empty array, two accounts or one without instance before another, beside the environment's, a pairing message asked for twice, a query of a topic that is stuck | one complete plugin; every call and request answered, in order; unheard messages and stale credentials have a cause |
| `boot_orphan` | 2 calls, 1 delivery | **violated**: one plugin per process |
| `outbound_sends` | 7 sends on three paths, texts of 0 to 2 segments | no success is told of what is not in the chat; nothing twice, nothing out of order, everything ends |
| `outbound_tools` | each tool over the broker | **violated**: a tool's event reaches the Bot API |
| `split_text` | all 3280 texts of up to 7 narrow or wide characters and newlines, limit 3 | segments are the text, sendable, and broken only by force |
| `voice_intake` | 3 messages (a document and a voice, an edit of the voice, audio under a text), 3 files of which two share a prefix, 2 crashes, a broken download, a whisper program that says anything or nothing | wrong files and wrong texts have a cause, published files stay, no child is left, every message goes out |

**Bounds.** Two messages of a chat are the least for a reply to meet the wrong
one, a third shows that the shift stays, and a second chat that it does not
spread. A poller, a dispatcher and a bridge are in the race of the clean-up, so
two messages show it. The cursor needs a batch of two with a crash in it, a
restart, and a crash in the repeat; a third update shows that order survives. Over
restarts, two messages of one chat are the least for an answer to cross over. Each kind of
trouble happens once at most, and two of the six in one behaviour (the constraint
`TwoTroubles`): a property that gives a cause is violated by a behaviour with one trouble
that is not among the causes, and a second one shows that they do not hide each other;
silent turns are not counted. The proofs have no such bound. Two calls suffice
for the OnceCell to hand the permit on after a failure; a pairing message asked for
twice is the least that can be answered out of order, and the second topic is the one
that is stuck. Texts of seven characters at a limit of three give up to four
segments: short lines that are merged, a long line between them, and wide
characters that do not fit the last unit. The voice instance holds one repeat of
each kind: the same prefix in an edit, another file, the same file twice in one
message; its second crash comes in the repeat of the first. Every bound is a constant
of its module; what is proved holds without them. The inductive invariants of the
proofs were checked on these instances before they were proved; no run repeats
that.

**Fairness.** `ReplyBridge`: weak fairness for the poller's own steps, the
dispatcher, `stop()` and each bridge task, since Tokio polls a ready task again
and a due timer fires; none for the broker, Telegram, the agent or the call of
`stop()`, so liveness does not rest on anyone answering. `UpdateCursor`: weak
fairness for the process (a supervisor restarts it, and the tasks are ready) and
strong fairness for a request that brings updates while some wait: a network that
fails for ever cannot be asked to deliver. `RequestReply`: weak fairness for each
step of a call, as every request has a time-out, and for the task of each topic but
the stuck one: the broker answers the others. `VoiceIntake`: weak fairness for the
poller, whose requests to Telegram end; nothing is assumed of the whisper program. `OutboundPaths`: the dispatcher and
each request in flight, for the same reason.

**Deadlock** is not checked in any run: every instance ends by itself, when the
bounded environment has nothing left to do or the process has stopped. The liveness
properties say what must have happened by then.

## 4. What the code says and does not do

Checked by a run each (section 3):

1. A late reply is threaded to the next message (`plugin.rs:1360` against 63-65),
   and every later reply of that chat is one off until a queue runs empty.
2. The clean-up of an empty queue can drop an entry pushed between check and
   removal (`plugin.rs:1364-1370` against 1361).
3. A failed subscription leaves a poller running beside the next plugin's
   (`plugin.rs:211` against `main.rs:9`).
4. On the broker path the dispatcher drops the events of three tools that have answered
   ok (`plugin.rs:1386-1397` and 1501-1513 against `tool.rs:1-3`): the `to` of
   `telegram_send_message` is an integer (`tool.rs:157`) and is read as a string only,
   and the events of `telegram_send_reaction` and `telegram_send_location` have neither
   a text nor a media source. Those of an edit and of a reply do reach the API, but each
   as a new message: the dispatcher reads their `text` and `chat_id` and not the message
   they are about (`tool.rs:200-209` and 314-319 against `plugin.rs:1501-1512`).

Seen while reading, one fact of the code each, without a run:

- A time-out or a failed publish leaves an empty queue under its key
  (`plugin.rs:814` against the clean-up at 1361).
- A media event with a session id pops an entry and arrives as an empty text
  (`plugin.rs:1357-1376`).
- `stop()` clears `pending` while the poller may still push; the ticker of such an
  entry runs until its bridge times out (`plugin.rs:233-239`).
- Two instances whose offset files differ only in the extension share one
  temporary file (`plugin.rs:1012` against `src/README.md:75-77`), and one can then
  install the other's offset. `UpdateCursor` excludes it by its assumption `Scoped`.
- An event with a session id that names another chat is sent to its session's chat when
  an entry is pending there, and to the chat it names when none is
  (`plugin.rs:1359-1392`).
- An account without instance is listed, issued and resolved by none of the credential
  handlers, though the plugin starts it when it comes first (`main.rs:171`, 188, 211
  against `config.rs:38-39` and `main.rs:95`).
- A configuration delivered after the plugin read its own does not reach it, be it
  before or after the start is complete (`main.rs:88-104`), while the credential
  handlers answer from it at once. The causes in `CredentialsMatchTheBot` and
  `UnheardSendsHaveACause` are this one and the next two.
- Of a delivered array the first account is started (`main.rs:95`); list, issue and
  resolve answer for all (`main.rs:164-214`), so a pairing message to a later account
  is answered ok and heard by nobody.
- The plugin starts at the first tool call (`main.rs:40-43`): a pairing message before
  it is answered ok and heard by nobody (`auto_discovery.rs:96-98`).
- `telegram_plugin_ready` is 1 whatever the plugin's state (`auto_discovery.rs:240-242`).
- An answer that comes after a restart finds an empty `session_to_chat` and is dropped,
  until the chat's next message; then it can be threaded to that one
  (`plugin.rs:1357-1397`).
- `normalize_sender` of the broker handler rejects what the library form of the adapter
  trims and accepts, though it says to mirror it (`auto_discovery.rs:28-29` against
  `pairing_adapter.rs:58-71`).
- A whisper process outlives a plugin that is killed (`plugin.rs:1246` needs a drop).
- A configuration without a polling block does not poll, though the field's own
  default is to (`config.rs:75` against 86-88).
- The cache takes a file that exists as complete (`plugin.rs:1174`), so one that
  broke off is handed on by the next delivery of the message; a forwarded message
  has another id and never reuses a file (against 1172-1173); and its key is ten
  characters of the file id, not the file id (`src/README.md:71`).
- `telegram_send_media` advertises `media` and is dispatched by `kind`
  (`tool.rs:396` against `subprocess_dispatch.rs:159`).
- The pairing QR image travels as `png_base64`, which the dispatcher does not read
  (`auto_discovery.rs:102-145` against the comment at 103-105).
- `subprocess_dispatch.rs:6-8` speaks of at most one HTTP call per tool; a long
  text is one per segment.
- `getUpdates` bypasses the breaker all other requests share (`bot.rs:82-98`,
  162-188).
- Bridge tasks send independently, so two long replies of one chat can alternate.

## 5. Proofs

TLAPS proves, for every value of the constants that satisfies the modules'
assumptions:

| Module | Theorems | Carried by |
|---|---|---|
| `ReplyBridgeProofs` | `TypeCorrect`, `BridgeInvariant`, `TypingEnds`, `NoEntryLingers`, `QueuesStayFifo`, `BridgeKeepsContract` | `TypeOK` and `BridgeInv` |
| `AlignmentProofs` | `AnswersTakeOneRoute`, `MisalignmentIsCaused`, `StrayAnswersAreCaused`, `CalmChatsStayAligned` | `PairingInv` |
| `UpdateCursorProofs` | `CursorInvariant`, `NothingIsForgotten`, `RestartSkipsOnlyHandled`, `ProcessingKeepsOrder`, `StopRepeatsNothing`, `OffsetFileNeverGoesBack` | `CursorInv`, under `Scoped` |
| `AnswersProofs` | `RestartsKeepTheCursor`, `RestartInvariant`, `ForgottenUpdatesReachedTheAgent`, `OnlyOutlivedAnswersAreDropped`; `NoAnswerComesTwice`, `CrossedThreadsAreCaused` | `CursorInv` and `RestartInv`; `OnceInv`; `EntryInv` and `PairInv`; all under `Scoped` |
| `PluginBootProofs` | `BootInvariant`, `ReadyPluginsRun`, `OneConsumer`, `OnePluginForAllCalls`, `CellIsFilledOnce`; `RequestsKeepTheBoot`, `RequestInvariant`, `PairingSendsAreHeardOnce`, `ResolvedCredentialsAreTheBots`, `OrderInvariant`, `AnswersStayInOrder` | `BootInv`, `RequestInv`, `OrderInv` |
| `OutboundProofs` | `OutboundInvariant`, `SuccessIsWhole`, `OnlyPrefixes`, `OrderIsKept`; `HealthErrsOnTheSafeSide` | `OutboundInv`; `HealthInv` |
| `SplitProofs` | `SplitInvariant`, `NothingIsLost`, `SegmentsFit`, `BreaksAreForced` | `SplitInv` |
| `VoiceProofs` | `MediaInvariant`, `WrongFilesHaveACause`, `PublishedFilesAreStable`, of `MediaCache` alone | `MediaInv` |
| `VoiceProofs` | `VoiceKeepsTheCache`, `VoiceInvariant`, `TranscriptsAreOfTheirVoice`, `EveryChildIsReaped` | `MediaInv` and `VoiceInv` |

**BridgeInv.** That a queue holds only live entries of its own chat is not
inductive: between a pop and the send an entry is in nobody's queue, and between
`push_back` and the publication it is in a queue before its bridge task exists.
`PollerInv` says which messages have been pushed, `DispatcherInv` that the held
entry left its queue and has no answer yet, `SlotInv` that what was never pushed
has none. `BridgeKeepsContract` follows action by action: each is one step of
`ReplyContract` or a stutter.

**PairingInv.** `PopEntry` pairs the event in work with the head of its chat's queue
without looking at what the event answers, so `MisalignmentHasACause` says something
about two streams that never meet before. `PlaceInv` puts every answer in one place
(not yet given, on the topic, in work, in one oneshot, sent proactively), which is
`OneRoute`; `OrderInv` keeps the answers of a chat in the order of its messages in and
between these places; `LifeInv` says what the stages of a bridge exclude. `AlignInv`
puts them together: in a chat without a disturbance up to `m`, a message `m` that still
waits has its answer still under way, and the event and the entry in hand agree from
the pop on. An entry popped for the answer of a younger message would be a waiting
message whose own, older answer had been overtaken, and of an older one, a message
that was answered already; order and place exclude both. An answer that is sent on its own
found no live entry, so its message was disturbed, or an older one was
(`StrayAnswersAreCaused`). A disturbance is never undone, hence "calm" can
only be lost: that is why the property names the messages `1 .. m` and not the whole
chat. TLC checked `PairingInv` on the instances of the runs `bridge_safety`,
`bridge_stop` and `bridge_alignment`, and with every member of `Environment` at once,
before it was proved.

**CursorInv.** `ConfirmedIsHandled` needs the offset in memory to be covered by what
was processed, but for the update in hand (`OffsetInv`, `CurrentInv`), batches
without gaps (`BatchInv`), and a temporary file that holds the offset when it is
renamed (`TmpInv`). `RepeatsNeedALostOffset` needs `FreshInv`: as long as nothing
went wrong, what is yet to be processed never was. `Scoped` assumes that instances
share neither bot nor paths, the temporary ones included; the operator's configuration has
to ensure it, as the code does not (section 4), and nothing is claimed of instances that
do share one.

**BootInv.** One call at a time is inside the initialiser, it holds the permit, and
the cell is empty; a plugin has a dispatcher only from the step that fills the cell.

**RestartInv.** The composition is a behaviour of `UpdateCursor` (`RestartsKeepTheCursor`), so
`ConfirmedIsHandled` holds in it; `ReachInv` adds that what was processed was published or
refused, and `KnownInv` that a chat is known from before its message goes out until
the process ends, so that a dropped answer has outlived one.

**OnceInv.** While no offset was lost, a message is in its chat's inbox or among the answers
on their way, in one of them, once, and has no answer yet. It enters only by being
published, and `FreshInv` of the cursor says that what is published then never was.

**EntryInv, PairInv.** A chat is quiet while none of its messages lost its entry or its
answer (`gone`). Its pending entries are then, in order, exactly the
messages in its inbox, those of its answers on their way, and the one in hand; all
three are in order, answers before inbox before the message in hand. So the next answer
is that of the oldest entry (`AnswerMeetsItsEntry`), and while the dispatcher carries it the
entry it popped is that of the same message (`Matched`). The clean-up of an emptied queue
removes nothing of a quiet chat: what was pushed since would be in `gone` (`PairRemove`).
`EntryInv` puts every entry below the
offset, which makes the message in hand the youngest. A process that ends drains its
entries into `gone`: a chat that is quiet afterwards had none, so nothing of it was on
its way either. TLC checked both, and `OnceInv`, with two chats and with every kind of loss
before they were proved. `Without` finds the entry by its update and removes that one
position, as `retain` does with unique entry ids; a filter with an operator argument
could not be reasoned about.

**RequestInv, OrderInv.** The handlers leave the boot alone (`RequestsKeepTheBoot`), so `BootInv`
holds beside them: at most one dispatcher, that of the cell. `ReadInv` says that a
plugin has the configuration of the delivery it saw. `OrderInv` puts what a topic
answered, has in hand and has queued in one order of attempts.

**OutboundInv.** The place of the dispatcher in the topic tells of each event whether
it is queued, being sent or done (`TopicInv`), and a call that sends has a request
left (`CallInv`); what was sent is then always a prefix. `HealthInv` adds that the calls counted
are finitely many: each counter grows by one when one call joins the set it counts.

**SplitInv.** Between lines `cur` reaches from the end of the last segment to the
characters consumed, and within a long line `buf` does; their counters are their
lengths. `curUnits` is right only between lines, which is all the code needs.

**MediaInv.** The file being written is partial and named by no descriptor; any other
partial file was broken off. So nothing writes to a file that a descriptor names,
and a descriptor of a wrong file has one of two causes.

**VoiceInv.** What the child said, what was heard and which child is alive, stage by
stage: a text is that of the message in hand from the moment it is said, which needs
`MediaInv` for what the file holds, and a child of this life belongs to that message.

Every safety invariant and action property of the passing runs is a theorem. Only
model-checked: the liveness properties `EveryBridgeResolves`, `ShutdownCompletes`,
`EveryUpdateIsHandled`, `EverythingEnds`, `EveryMessageGoesOut`, `EveryCallIsAnswered` and
`EveryRequestIsAnswered`, which need fairness and `ENABLED`. `OutboundPaths` takes the
number of segments of a text as a constant; that it is what `SplitText` returns is not
proved. That the widths of a text's characters add up to `ends` is part of the definition of a
text (`IsText`), as sums over data cannot be proved by induction here.

## 6. What is not modelled, and the plan

Where the model could go next, in this order:

- **One process**: the typing tickers, the named destinations and the sending bridge tasks
  of `ReplyBridge` inside `AnswersAcrossRestarts`; `PluginBoot` before both, so that a second poller (finding
  3) polls the bot of the first.

What stays out, and why:

- The circuit breaker's thresholds are those of `nexo_resilience`, which is not
  part of the repository; an open breaker is a request that fails.
- Event payloads, session ids, `normalize_sender`, `parse_mode`, multipart bodies,
  `truncate_utf16`, the texts of the http, admin and metrics answers, the variables of
  `env_config.rs` and the manifest are pure conversions: no order of events can break
  them.
- `on_credentials_issue` adds to the account list a check of one field (`allow_agents`);
  `on_credentials_reload` does nothing.
- `health` is modelled where it counts sends; the other counters are written in one
  place each.
- How long a download or a transcription takes within its limit (`bot.rs:124-125`,
  `plugin.rs:1304`).
