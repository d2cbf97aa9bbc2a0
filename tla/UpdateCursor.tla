---------------------------- MODULE UpdateCursor ----------------------------
(***************************************************************************)
(* How updates get from Telegram into the inbound topic exactly in order   *)
(* and at least once: the getUpdates offset in memory, its copy in the     *)
(* offset file, the batch loop of the poller, and what crashes, failed     *)
(* requests and failed writes do to them (src/src/plugin.rs, spawn_poller, *)
(* load_offset, save_offset).                                              *)
(*                                                                         *)
(* A poller is one plugin process.  Pollers may serve different bots and   *)
(* still meet in the file system.                                          *)
(***************************************************************************)
EXTENDS Naturals

CONSTANTS
    Pollers, Bots,
    Files,          \* paths in the file system
    BotOf,          \* the bot whose token each poller holds
    FileOf, TmpOf,  \* its offset file, and that path with extension "tmp"
    N,              \* bound: updates per bot
    Kind,           \* what each update is
    Allowed,        \* updates whose chat the allowlist lets through
    MaxCrashes, MaxIoErrors, MaxMisreads, MaxStops  \* bounds on what goes wrong

Updates == 1 .. N
Offsets == 0 .. N + 1
Absent == N + 2     \* no such file

ASSUME NAssumption == N \in Nat
ASSUME PollerAssumption ==
    BotOf \in [Pollers -> Bots] /\ FileOf \in [Pollers -> Files] /\ TmpOf \in [Pollers -> Files]
ASSUME KindAssumption ==
    Kind \in [Updates -> {"message", "membership", "callback", "other"}] /\ Allowed \subseteq Updates
ASSUME BoundAssumption ==
    MaxCrashes \in Nat /\ MaxIoErrors \in Nat /\ MaxMisreads \in Nat /\ MaxStops \in Nat

VARIABLES
    pc,        \* where each poller is
    offset,    \* its offset variable
    batch,     \* updates of its current batch still to process
    current,   \* the update it is processing (0 when none)
    stopping,  \* its shutdown token is cancelled
    arrived,   \* Telegram: updates each bot has received so far
    confirmed, \* Telegram: updates below this id are forgotten
    handled,   \* updates whose processing came to its end (history)
    published, \* how often each update was published (history)
    disk,      \* content of each file
    crashes, ioErrors, misreads, stops

pollerVars == <<pc, offset, batch, current, stopping>>
telegramVars == <<arrived, confirmed>>
historyVars == <<handled, published>>
countVars == <<crashes, ioErrors, misreads, stops>>
vars == <<pollerVars, telegramVars, historyVars, disk, countVars>>

Labels == {"down", "poll", "batch", "working", "save", "write", "rename", "sleep"}

TypeOK ==
    /\ pc \in [Pollers -> Labels]
    /\ offset \in [Pollers -> Offsets]
    /\ batch \in [Pollers -> SUBSET Updates]
    /\ current \in [Pollers -> 0 .. N]
    /\ stopping \in [Pollers -> BOOLEAN]
    /\ arrived \in [Bots -> 0 .. N]
    /\ confirmed \in [Bots -> Offsets]
    /\ handled \in [Bots -> SUBSET Updates]
    /\ published \in [Bots -> [Updates -> Nat]]
    /\ disk \in [Files -> Offsets \cup {Absent}]
    /\ crashes \in 0 .. MaxCrashes /\ ioErrors \in 0 .. MaxIoErrors
    /\ misreads \in 0 .. MaxMisreads /\ stops \in 0 .. MaxStops

Init ==
    /\ pc = [p \in Pollers |-> "down"]
    /\ offset = [p \in Pollers |-> 0]
    /\ batch = [p \in Pollers |-> {}]
    /\ current = [p \in Pollers |-> 0]
    /\ stopping = [p \in Pollers |-> FALSE]
    /\ arrived = [b \in Bots |-> 0]
    /\ confirmed = [b \in Bots |-> 0]
    /\ handled = [b \in Bots |-> {}]
    /\ published = [b \in Bots |-> [u \in Updates |-> 0]]
    /\ disk = [f \in Files |-> Absent]
    /\ crashes = 0 /\ ioErrors = 0 /\ misreads = 0 /\ stops = 0

Larger(a, b) == IF a < b THEN b ELSE a
Goto(p, label) == pc' = [pc EXCEPT ![p] = label]

-----------------------------------------------------------------------------
(* Telegram (external): ids are given in order of arrival; a request with   *)
(* an offset forgets the updates below it and answers with the oldest of    *)
(* the rest, or with none when the long poll runs out.                      *)

Arrive(b) ==
    /\ arrived[b] < N
    /\ arrived' = [arrived EXCEPT ![b] = @ + 1]
    /\ UNCHANGED <<pollerVars, confirmed, historyVars, disk, countVars>>

Confirm(p) ==
    confirmed' = [confirmed EXCEPT ![BotOf[p]] = Larger(@, offset[p])]

Answer(p) ==
    LET first == Larger(confirmed[BotOf[p]], offset[p])
    IN  {{u \in Updates : first <= u /\ u <= last} : last \in 0 .. arrived[BotOf[p]]}

-----------------------------------------------------------------------------
(* An operator named <definition>_<slip> is that definition with a slip in   *)
(* it.  Next does not use them: they show which property notices the slip.   *)

(* A process starts: load_offset gives what the offset file holds, and 0 for *)
(* a file that is missing or cannot be read.                                *)
Begin(p, from) ==
    /\ pc[p] = "down"
    /\ offset' = [offset EXCEPT ![p] = from]
    /\ stopping' = [stopping EXCEPT ![p] = FALSE]
    /\ Goto(p, "poll")
    /\ UNCHANGED <<batch, current, telegramVars, historyVars, disk, crashes, ioErrors, stops>>

Saved(p) == IF disk[FileOf[p]] = Absent THEN 0 ELSE disk[FileOf[p]]

Start_OffByOne(p) ==
    Saved(p) <= N /\ Begin(p, Saved(p) + 1) /\ UNCHANGED misreads

Start(p) ==
    Begin(p, Saved(p)) /\ UNCHANGED misreads

Misread(p) ==
    /\ misreads < MaxMisreads
    /\ misreads' = misreads + 1
    /\ Begin(p, 0)

FetchOk(p) ==
    /\ pc[p] = "poll" /\ ~stopping[p]
    /\ Confirm(p)
    /\ batch' \in {[batch EXCEPT ![p] = updates] : updates \in Answer(p)}
    /\ pc' = [pc EXCEPT ![p] = IF batch'[p] = {} THEN "poll" ELSE "batch"]
    /\ UNCHANGED <<offset, current, stopping, arrived, historyVars, disk, countVars>>

(* The request fails, perhaps after Telegram saw it; the task backs off.    *)
FetchFails(p) ==
    /\ pc[p] = "poll" /\ ~stopping[p]
    /\ Confirm(p) \/ UNCHANGED confirmed
    /\ Goto(p, "sleep")
    /\ UNCHANGED <<offset, batch, current, stopping, arrived, historyVars, disk, countVars>>

WakeUp_OnlyToStop(p) ==
    /\ pc[p] = "sleep" /\ stopping[p]
    /\ Goto(p, "down")
    /\ UNCHANGED <<offset, batch, current, stopping, telegramVars, historyVars, disk, countVars>>

WakeUp(p) ==
    /\ pc[p] = "sleep"
    /\ Goto(p, IF stopping[p] THEN "down" ELSE "poll")
    /\ UNCHANGED <<offset, batch, current, stopping, telegramVars, historyVars, disk, countVars>>

(* Cancelled in the select; the request on its way may still be seen.       *)
LeavePoll(p) ==
    /\ pc[p] = "poll" /\ stopping[p]
    /\ Confirm(p) \/ UNCHANGED confirmed
    /\ Goto(p, "down")
    /\ UNCHANGED <<offset, batch, current, stopping, arrived, historyVars, disk, countVars>>

(* offset = offset.max(update_id + 1) comes first, before any `continue'.   *)
Take(p, u, next) ==
    /\ pc[p] = "batch"
    /\ current' = [current EXCEPT ![p] = u]
    /\ batch' = [batch EXCEPT ![p] = @ \ {u}]
    /\ offset' = [offset EXCEPT ![p] = Larger(@, next)]
    /\ Goto(p, "working")
    /\ UNCHANGED <<stopping, telegramVars, historyVars, countVars>>

Oldest(p, u) == u \in batch[p] /\ \A w \in batch[p] : u <= w

TakeUpdate_NewestFirst(p) ==
    \E u \in batch[p] :
        (\A w \in batch[p] : w <= u) /\ Take(p, u, u + 1) /\ UNCHANGED disk

TakeUpdate_SavesAtOnce(p) ==
    \E u \in batch[p] :
        Oldest(p, u) /\ Take(p, u, u + 1) /\ disk' = [disk EXCEPT ![FileOf[p]] = u + 1]

TakeUpdate(p) ==
    \E u \in batch[p] : Oldest(p, u) /\ Take(p, u, u + 1) /\ UNCHANGED disk

(* Chats outside the allowlist and unknown kinds are skipped; whatever      *)
(* publish answers, the loop continues with the next update.                *)
FinishUpdate(p) ==
    LET b == BotOf[p]  u == current[p] IN
    /\ pc[p] = "working"
    /\ handled' = [handled EXCEPT ![b] = @ \cup {u}]
    /\ \/ /\ Kind[u] # "other" /\ u \in Allowed
          /\ published' = [published EXCEPT ![b][u] = @ + 1]
          /\ UNCHANGED ioErrors
       \/ /\ Kind[u] # "other" /\ u \in Allowed /\ ioErrors < MaxIoErrors
          /\ ioErrors' = ioErrors + 1
          /\ UNCHANGED published
       \/ /\ Kind[u] = "other" \/ u \notin Allowed
          /\ UNCHANGED <<published, ioErrors>>
    /\ current' = [current EXCEPT ![p] = 0]
    /\ Goto(p, "batch")
    /\ UNCHANGED <<offset, batch, stopping, telegramVars, disk, crashes, misreads, stops>>

EndBatch_StopsFirst(p) ==
    /\ pc[p] = "batch" /\ batch[p] = {}
    /\ Goto(p, IF stopping[p] THEN "down" ELSE "save")
    /\ UNCHANGED <<offset, batch, current, stopping, telegramVars, historyVars, disk, countVars>>

EndBatch(p) ==
    /\ pc[p] = "batch" /\ batch[p] = {}
    /\ Goto(p, "save")
    /\ UNCHANGED <<offset, batch, current, stopping, telegramVars, historyVars, disk, countVars>>

LoopTop(p) == Goto(p, IF stopping[p] THEN "down" ELSE "poll")

(* save_offset: tokio::fs::write truncates and writes the temporary file,   *)
(* then it is renamed over the offset file.                                 *)
Truncate_InPlace(p) ==
    /\ pc[p] = "save"
    /\ disk' = [disk EXCEPT ![FileOf[p]] = 0]
    /\ Goto(p, "write")
    /\ UNCHANGED <<offset, batch, current, stopping, telegramVars, historyVars, countVars>>

Truncate(p) ==
    /\ pc[p] = "save"
    /\ disk' = [disk EXCEPT ![TmpOf[p]] = 0]
    /\ Goto(p, "write")
    /\ UNCHANGED <<offset, batch, current, stopping, telegramVars, historyVars, countVars>>

Write(p) ==
    /\ pc[p] = "write"
    /\ disk' = [disk EXCEPT ![TmpOf[p]] = offset[p]]
    /\ Goto(p, "rename")
    /\ UNCHANGED <<offset, batch, current, stopping, telegramVars, historyVars, countVars>>

(* A rename whose source has gone fails like any other I/O error.           *)
Rename(p) ==
    /\ pc[p] = "rename"
    /\ disk' = IF disk[TmpOf[p]] = Absent THEN disk
               ELSE [disk EXCEPT ![FileOf[p]] = disk[TmpOf[p]], ![TmpOf[p]] = Absent]
    /\ LoopTop(p)
    /\ UNCHANGED <<offset, batch, current, stopping, telegramVars, historyVars, countVars>>

(* An I/O error is logged and the loop goes on with the offset in memory.   *)
SaveFails(p) ==
    /\ pc[p] \in {"save", "write", "rename"} /\ ioErrors < MaxIoErrors
    /\ ioErrors' = ioErrors + 1
    /\ LoopTop(p)
    /\ UNCHANGED <<offset, batch, current, stopping, telegramVars, historyVars, disk, crashes, misreads, stops>>

Stop(p) ==
    /\ pc[p] # "down" /\ ~stopping[p] /\ stops < MaxStops
    /\ stopping' = [stopping EXCEPT ![p] = TRUE]
    /\ stops' = stops + 1
    /\ UNCHANGED <<pc, offset, batch, current, telegramVars, historyVars, disk, crashes, ioErrors, misreads>>

(* The process ends anywhere, also when stop() gave up joining the poller.   *)
Crash(p) ==
    /\ pc[p] # "down" /\ crashes < MaxCrashes
    /\ crashes' = crashes + 1
    /\ Goto(p, "down")
    /\ batch' = [batch EXCEPT ![p] = {}]
    /\ current' = [current EXCEPT ![p] = 0]
    /\ UNCHANGED <<offset, stopping, telegramVars, historyVars, disk, ioErrors, misreads, stops>>

-----------------------------------------------------------------------------
Step(p) ==
    \/ Start(p) \/ Misread(p) \/ WakeUp(p) \/ LeavePoll(p) \/ TakeUpdate(p) \/ FinishUpdate(p)
    \/ EndBatch(p) \/ Truncate(p) \/ Write(p) \/ Rename(p) \/ SaveFails(p)

Next ==
    \/ \E b \in Bots : Arrive(b)
    \/ \E p \in Pollers : Step(p) \/ FetchOk(p) \/ FetchFails(p) \/ Stop(p) \/ Crash(p)

Spec == Init /\ [][Next]_vars

(* The supervisor restarts an ended process and Tokio runs a ready task; a  *)
(* request that is tried again and again with updates waiting brings some   *)
(* in the end.                                                              *)
Fairness ==
    \A p \in Pollers : WF_vars(Step(p)) /\ SF_vars(FetchOk(p) /\ batch'[p] # {})

FairSpec == Spec /\ Fairness

-----------------------------------------------------------------------------
(* Telegram forgets an update only after its processing ended here: nothing *)
(* a crash or a stop interrupts is lost (plugin.rs:564-569).                *)
ConfirmedIsHandled ==
    \A b \in Bots : \A u \in Updates : u < confirmed[b] => u \in handled[b]

SkipsOnlyHandled(p) == LET f == FileOf[p] IN
    disk[f] # Absent => \A u \in Updates : u < disk[f] => u \in handled[BotOf[p]]

(* What a restart will skip has been processed, by this bot: the offset     *)
(* file is written after the batch, and by nobody else.                     *)
OffsetFileSkipsOnlyHandled == \A p \in Pollers : SkipsOnlyHandled(p)

(* No update is processed before an earlier one: a chat's messages are      *)
(* published in the order they were written.                                *)
HandledInOrder ==
    \A b \in Bots : \A u \in handled[b] : 1 .. u \subseteq handled[b]

NothingLost == crashes = 0 /\ ioErrors = 0 /\ misreads = 0

(* An update is published again only because a crash, a failed write or an  *)
(* unreadable file lost the offset, never by a stop that waits for the      *)
(* poller and a start.  One that gives up joining after five seconds and    *)
(* lets the process end in the batch is a crash here (plugin.rs:240-245).   *)
RepeatsNeedALostOffset ==
    NothingLost =>
        \A b \in Bots : \A u \in Updates : published[b][u] <= 1

(* The offset file never goes back and is never lost, whatever crashes or   *)
(* fails between the truncation and the rename, as long as it can be read.  *)
OffsetFileAdvances ==
    [][\A p \in Pollers : LET f == FileOf[p] IN
        disk[f] # Absent /\ misreads = 0 => disk'[f] # Absent /\ disk[f] <= disk'[f]]_vars

(* Every update Telegram has received is processed in the end.              *)
EveryUpdateIsHandled ==
    \A b \in Bots : \A u \in Updates : u <= arrived[b] ~> u \in handled[b]

-----------------------------------------------------------------------------
(* The inductive invariant behind the properties, checked here and proved   *)
(* in UpdateCursorProofs, for instances that share neither bot nor path.    *)

Scoped ==
    \A p, q \in Pollers :
        /\ FileOf[p] # TmpOf[q]
        /\ p # q => BotOf[p] # BotOf[q] /\ FileOf[p] # FileOf[q] /\ TmpOf[p] # TmpOf[q]

(* Below the offset everything is processed, but for the current update.    *)
OffsetInv(p) ==
    pc[p] # "down" => \A u \in Updates : u < offset[p] =>
        u \in handled[BotOf[p]] \/ (pc[p] = "working" /\ u = current[p])

CurrentInv(p) ==
    pc[p] = "working" =>
        /\ current[p] \in Updates /\ current[p] < offset[p]
        /\ \A u \in Updates : u < current[p] => u \in handled[BotOf[p]]

(* The batch has no gaps.                                                   *)
BatchInv(p) ==
    pc[p] \in {"batch", "working"} =>
        \A u \in batch[p], w \in Updates : w < u =>
            w \in handled[BotOf[p]] \/ w \in batch[p] \/ (pc[p] = "working" /\ w = current[p])

TmpInv(p) ==
    pc[p] = "rename" => disk[TmpOf[p]] = offset[p]

SavedInv(p) ==
    misreads = 0 /\ pc[p] # "down" /\ disk[FileOf[p]] # Absent => disk[FileOf[p]] <= offset[p]

(* With nothing lost, what is still to process was never processed before.  *)
FreshInv(p) ==
    NothingLost =>
        LET done == handled[BotOf[p]]  f == FileOf[p] IN
        /\ pc[p] # "down" => \A u \in done : u < offset[p]
        /\ pc[p] \in {"down", "poll", "sleep"} => \A u \in done : disk[f] # Absent /\ u < disk[f]
        /\ pc[p] \in {"batch", "working"} => \A u \in batch[p] : u \notin done
        /\ pc[p] = "working" => current[p] \notin done /\ current[p] \notin batch[p]

PollerInv(p) ==
    SkipsOnlyHandled(p) /\ OffsetInv(p) /\ CurrentInv(p) /\ BatchInv(p) /\ TmpInv(p)
    /\ SavedInv(p) /\ FreshInv(p)

PublishedInv ==
    \A b \in Bots : \A u \in Updates : published[b][u] # 0 => u \in handled[b]

(* Offsets, batches, temporary files and the offset files stay in step.     *)
CursorInv ==
    /\ TypeOK
    /\ ConfirmedIsHandled
    /\ HandledInOrder
    /\ RepeatsNeedALostOffset
    /\ PublishedInv
    /\ \A p \in Pollers : PollerInv(p)
=============================================================================
