------------------------- MODULE UpdateCursorProofs -------------------------
(***************************************************************************)
(* UpdateCursor for any number of instances, updates, crashes and failures: *)
(* CursorInv is inductive when the instances share neither bot nor path.    *)
(***************************************************************************)
EXTENDS UpdateCursor, TLAPS

LEMMA InitHolds == Init => CursorInv
<1> USE NAssumption, PollerAssumption, KindAssumption, BoundAssumption
<1> SUFFICES ASSUME Init PROVE CursorInv
    OBVIOUS
<1>1. TypeOK
    BY DEF Init, TypeOK, Labels, Updates, Offsets, Absent
<1>2. ConfirmedIsHandled /\ HandledInOrder /\ RepeatsNeedALostOffset /\ PublishedInv
    BY DEF Init, ConfirmedIsHandled, HandledInOrder, RepeatsNeedALostOffset, PublishedInv, Updates
<1>3. ASSUME NEW p \in Pollers PROVE PollerInv(p)
    BY DEF Init, PollerInv, SkipsOnlyHandled, OffsetInv, CurrentInv, BatchInv, TmpInv, SavedInv, FreshInv
<1> QED BY <1>1, <1>2, <1>3 DEF CursorInv

-----------------------------------------------------------------------------
(* Typing, one action at a time.                                            *)

LEMMA Increment ==
    ASSUME NEW S, NEW f \in [S -> Nat], NEW x \in S
    PROVE  [f EXCEPT ![x] = @ + 1] \in [S -> Nat]
OBVIOUS

LEMMA TypeStep == TypeOK /\ (\A p \in Pollers : CurrentInv(p)) /\ [Next]_vars => TypeOK'
<1> USE DEF TypeOK, Goto, Labels
<1> SUFFICES ASSUME TypeOK, \A p \in Pollers : CurrentInv(p), [Next]_vars PROVE TypeOK'
    OBVIOUS
<1>1. ASSUME NEW b \in Bots, Arrive(b) PROVE TypeOK'
  <2>1. arrived' \in [Bots -> 0 .. N]
      BY NAssumption, <1>1 DEF Arrive
  <2> QED BY <1>1, <2>1 DEF Arrive, pollerVars, historyVars, countVars
<1>2. ASSUME NEW p \in Pollers, NEW from \in Offsets, Begin(p, from), misreads' \in 0 .. MaxMisreads
      PROVE  TypeOK'
    BY <1>2 DEF Begin, telegramVars, historyVars
<1>3. ASSUME NEW p \in Pollers, Start(p) \/ Misread(p) PROVE TypeOK'
  <2>1. Saved(p) \in Offsets /\ 0 \in Offsets
      BY NAssumption, PollerAssumption DEF Saved, Absent, Offsets
  <2>2. misreads' \in 0 .. MaxMisreads
      BY BoundAssumption, <1>3 DEF Start, Misread
  <2> QED BY <1>2, <1>3, <2>1, <2>2 DEF Start, Misread
<1>4. ASSUME NEW p \in Pollers, Confirm(p) \/ UNCHANGED confirmed PROVE confirmed' \in [Bots -> Offsets]
  <2>1. BotOf[p] \in Bots
      BY PollerAssumption
  <2>2. Larger(confirmed[BotOf[p]], offset[p]) \in Offsets
      BY <2>1 DEF Larger
  <2> QED BY <1>4, <2>1, <2>2 DEF Confirm
<1>5. ASSUME NEW p \in Pollers, WakeUp(p) \/ LeavePoll(p) \/ FetchFails(p) PROVE TypeOK'
  <2>1. confirmed' \in [Bots -> Offsets]
      BY <1>4, <1>5 DEF WakeUp, LeavePoll, FetchFails, telegramVars
  <2>2. pc' \in [Pollers -> Labels]
      BY <1>5 DEF WakeUp, LeavePoll, FetchFails
  <2> QED BY <1>5, <2>1, <2>2 DEF WakeUp, LeavePoll, FetchFails, telegramVars, historyVars, countVars
<1>6. ASSUME NEW p \in Pollers, FetchOk(p) PROVE TypeOK'
  <2>1. confirmed' \in [Bots -> Offsets]
      BY <1>4, <1>6 DEF FetchOk
  <2>2. Answer(p) \subseteq SUBSET Updates
      BY DEF Answer
  <2>3. PICK updates \in Answer(p) : batch' = [batch EXCEPT ![p] = updates]
      BY <1>6 DEF FetchOk
  <2>4. batch' \in [Pollers -> SUBSET Updates]
      BY <2>2, <2>3
  <2> QED BY <1>6, <2>1, <2>4 DEF FetchOk, historyVars, countVars
<1>7. ASSUME NEW p \in Pollers, TakeUpdate(p) PROVE TypeOK'
  <2>1. PICK u \in batch[p] : Take(p, u, u + 1) /\ UNCHANGED disk
      BY <1>7 DEF TakeUpdate
  <2>2. u \in Updates /\ u \in 0 .. N /\ Larger(offset[p], u + 1) \in Offsets
      BY NAssumption DEF Updates, Offsets, Larger
  <2> QED BY <2>1, <2>2 DEF Take, telegramVars, historyVars, countVars
<1>8. ASSUME NEW p \in Pollers, FinishUpdate(p) PROVE TypeOK'
  <2>1. BotOf[p] \in Bots /\ 0 \in 0 .. N /\ current[p] \in Updates
      BY NAssumption, PollerAssumption, <1>8 DEF CurrentInv, FinishUpdate
  <2>2. handled' \in [Bots -> SUBSET Updates]
      BY <1>8, <2>1 DEF FinishUpdate
  <2>3. published' \in [Bots -> [Updates -> Nat]]
    <3> DEFINE b == BotOf[p]
    <3>1. published[b] \in [Updates -> Nat]
        BY <2>1
    <3>2. [published[b] EXCEPT ![current[p]] = @ + 1] \in [Updates -> Nat]
        BY <2>1, <3>1, Increment
    <3>3. \/ published' = published
          \/ published' = [published EXCEPT ![b] = [published[b] EXCEPT ![current[p]] = @ + 1]]
        BY <1>8 DEF FinishUpdate
    <3> QED BY <2>1, <3>2, <3>3
  <2>4. ioErrors' \in 0 .. MaxIoErrors
      BY BoundAssumption, <1>8 DEF FinishUpdate
  <2> QED BY <1>8, <2>1, <2>2, <2>3, <2>4 DEF FinishUpdate, telegramVars
<1>9. ASSUME NEW p \in Pollers, EndBatch(p) PROVE TypeOK'
    BY <1>9 DEF EndBatch, telegramVars, historyVars, countVars
<1>10. ASSUME NEW p \in Pollers, Truncate(p) \/ Write(p) PROVE TypeOK'
  <2>1. 0 \in Offsets /\ TmpOf[p] \in Files
      BY NAssumption, PollerAssumption DEF Offsets
  <2>2. disk' \in [Files -> Offsets \cup {Absent}]
      BY <1>10, <2>1 DEF Truncate, Write
  <2> QED BY <1>10, <2>2 DEF Truncate, Write, telegramVars, historyVars, countVars
<1>11. ASSUME NEW p \in Pollers, Rename(p) PROVE TypeOK'
  <2>1. FileOf[p] \in Files /\ TmpOf[p] \in Files
      BY PollerAssumption
  <2>2. disk' \in [Files -> Offsets \cup {Absent}]
      BY <1>11, <2>1 DEF Rename
  <2> QED BY <1>11, <2>2 DEF Rename, LoopTop, telegramVars, historyVars, countVars
<1>12. ASSUME NEW p \in Pollers, SaveFails(p) PROVE TypeOK'
  <2>1. ioErrors' \in 0 .. MaxIoErrors
      BY BoundAssumption, <1>12 DEF SaveFails
  <2> QED BY <1>12, <2>1 DEF SaveFails, LoopTop, telegramVars, historyVars
<1>13. ASSUME NEW p \in Pollers, Stop(p) PROVE TypeOK'
  <2>1. stops' \in 0 .. MaxStops
      BY BoundAssumption, <1>13 DEF Stop
  <2> QED BY <1>13, <2>1 DEF Stop, telegramVars, historyVars
<1>14. ASSUME NEW p \in Pollers, Crash(p) PROVE TypeOK'
  <2>1. crashes' \in 0 .. MaxCrashes /\ 0 \in 0 .. N
      BY NAssumption, BoundAssumption, <1>14 DEF Crash
  <2> QED BY <1>14, <2>1 DEF Crash, telegramVars, historyVars
<1>15. ASSUME UNCHANGED vars PROVE TypeOK'
    BY <1>15 DEF vars, pollerVars, telegramVars, historyVars, countVars
<1> QED BY <1>1, <1>3, <1>5, <1>6, <1>7, <1>8, <1>9, <1>10, <1>11, <1>12, <1>13, <1>14, <1>15
        DEF Next, Step

-----------------------------------------------------------------------------
(* What a step leaves alone it does not disturb.                            *)

SameCounts == crashes' = crashes /\ ioErrors' = ioErrors /\ misreads' = misreads

(* Nothing of poller q moves, and nothing that is lost comes back.          *)
Same(q) ==
    /\ pc'[q] = pc[q] /\ offset'[q] = offset[q] /\ batch'[q] = batch[q] /\ current'[q] = current[q]
    /\ handled'[BotOf[q]] = handled[BotOf[q]]
    /\ disk'[FileOf[q]] = disk[FileOf[q]] /\ disk'[TmpOf[q]] = disk[TmpOf[q]]
    /\ misreads' = 0 => misreads = 0
    /\ NothingLost' => NothingLost

LEMMA Frame ==
    ASSUME NEW q \in Pollers, PollerInv(q), Same(q)
    PROVE  PollerInv(q)'
<1> USE DEF PollerInv, Same
<1>1. SkipsOnlyHandled(q)' /\ TmpInv(q)' /\ SavedInv(q)'
    BY DEF SkipsOnlyHandled, TmpInv, SavedInv
<1>2. OffsetInv(q)' /\ CurrentInv(q)'
    BY DEF OffsetInv, CurrentInv
<1>3. BatchInv(q)'
    BY DEF BatchInv
<1>4. FreshInv(q)'
    BY DEF FreshInv
<1> QED BY <1>1, <1>2, <1>3, <1>4

(* A step that processes nothing.                                           *)
LEMMA QuietHistory ==
    ASSUME CursorInv, TypeOK', UNCHANGED historyVars, NothingLost' => NothingLost,
           ConfirmedIsHandled' \/ UNCHANGED confirmed,
           \A q \in Pollers : PollerInv(q)'
    PROVE  CursorInv'
<1> USE DEF historyVars
<1>1. ConfirmedIsHandled'
    BY DEF CursorInv, ConfirmedIsHandled
<1>2. HandledInOrder' /\ PublishedInv'
    BY DEF CursorInv, HandledInOrder, PublishedInv
<1>3. RepeatsNeedALostOffset'
    BY DEF CursorInv, RepeatsNeedALostOffset
<1> QED BY <1>1, <1>2, <1>3 DEF CursorInv

-----------------------------------------------------------------------------
(* One lemma per kind of step.                                              *)

LEMMA ArriveStep ==
    ASSUME CursorInv, TypeOK', NEW b \in Bots, Arrive(b)
    PROVE  CursorInv'
<1>1. UNCHANGED <<pollerVars, confirmed, historyVars, disk, countVars>>
    BY DEF Arrive
<1>2. ASSUME NEW q \in Pollers PROVE PollerInv(q)'
  <2>1. Same(q)
      BY <1>1 DEF Same, NothingLost, pollerVars, historyVars, countVars
  <2> QED BY <2>1, Frame DEF CursorInv
<1>3. ConfirmedIsHandled' /\ HandledInOrder' /\ PublishedInv' /\ RepeatsNeedALostOffset'
    BY <1>1 DEF CursorInv, ConfirmedIsHandled, HandledInOrder, PublishedInv, RepeatsNeedALostOffset,
                NothingLost, historyVars, countVars
<1> QED BY <1>2, <1>3 DEF CursorInv

LEMMA BeginStep ==
    ASSUME CursorInv, TypeOK', NEW p \in Pollers, NEW from, Begin(p, from),
           \/ from = Saved(p) /\ misreads' = misreads
           \/ from = 0 /\ misreads' = misreads + 1
    PROVE  CursorInv'
<1>1. /\ pc \in [Pollers -> Labels] /\ pc' = [pc EXCEPT ![p] = "poll"]
      /\ offset \in [Pollers -> Offsets] /\ offset' = [offset EXCEPT ![p] = from]
      /\ pc[p] = "down"
    BY DEF CursorInv, TypeOK, Begin, Goto
<1>2. UNCHANGED <<batch, current, telegramVars, historyVars, disk, crashes, ioErrors>>
    BY DEF Begin
<1>3. misreads \in Nat
    BY BoundAssumption DEF CursorInv, TypeOK
<1>4. NothingLost' => NothingLost
    BY <1>2, <1>3 DEF NothingLost
<1>5. ASSUME NEW q \in Pollers, q # p PROVE PollerInv(q)'
  <2>1. pc'[q] = pc[q] /\ offset'[q] = offset[q]
      BY <1>1, <1>5
  <2>2. Same(q)
      BY <1>2, <1>3, <1>4, <2>1 DEF Same, historyVars
  <2> QED BY <2>2, Frame DEF CursorInv
<1>6. PollerInv(p)'
  <2>1. SkipsOnlyHandled(p) /\ FreshInv(p)
      BY DEF CursorInv, PollerInv
  <2>2. pc'[p] = "poll" /\ offset'[p] = from /\ handled' = handled /\ disk' = disk
      BY <1>1, <1>2 DEF historyVars
  <2>3. SkipsOnlyHandled(p)'
      BY <2>1, <2>2 DEF SkipsOnlyHandled
  <2>4. OffsetInv(p)'
      BY <2>1, <2>2 DEF OffsetInv, SkipsOnlyHandled, Saved, Updates
  <2>5. CurrentInv(p)' /\ BatchInv(p)' /\ TmpInv(p)'
      BY <2>2 DEF CurrentInv, BatchInv, TmpInv
  <2>6. disk[FileOf[p]] \in Offsets \cup {Absent}
      BY PollerAssumption DEF CursorInv, TypeOK
  <2>7. SavedInv(p)'
      BY NAssumption, <1>3, <2>2, <2>6 DEF SavedInv, Saved, Offsets, Absent
  <2>8. FreshInv(p)'
      BY <1>1, <1>2, <1>3, <1>4, <2>1, <2>2 DEF FreshInv, NothingLost, Saved
  <2> QED BY <2>3, <2>4, <2>5, <2>7, <2>8 DEF PollerInv
<1> QED BY <1>2, <1>4, <1>5, <1>6, QuietHistory DEF telegramVars

(* The task leaves the request or its back-off, with or without the request *)
(* having reached Telegram.                                                 *)
LEMMA ConfirmStep ==
    ASSUME CursorInv, NEW p \in Pollers, UNCHANGED handled,
           (pc[p] = "poll" /\ Confirm(p)) \/ UNCHANGED confirmed
    PROVE  ConfirmedIsHandled'
<1>1. CASE UNCHANGED confirmed
    BY <1>1 DEF CursorInv, ConfirmedIsHandled
<1>2. CASE pc[p] = "poll" /\ Confirm(p)
  <2>1. BotOf[p] \in Bots /\ confirmed \in [Bots -> Offsets]
      BY PollerAssumption DEF CursorInv, TypeOK
  <2>2. \A u \in Updates : u < offset[p] => u \in handled[BotOf[p]]
      BY <1>2 DEF CursorInv, PollerInv, OffsetInv
  <2>3. \A b \in Bots : confirmed'[b] = IF b = BotOf[p] THEN Larger(confirmed[b], offset[p]) ELSE confirmed[b]
      BY <1>2, <2>1 DEF Confirm
  <2> QED BY <2>1, <2>2, <2>3 DEF CursorInv, ConfirmedIsHandled, Larger
<1> QED BY <1>1, <1>2

LEMMA IdleStep ==
    ASSUME CursorInv, TypeOK', NEW p \in Pollers, NEW to \in {"poll", "sleep", "down"},
           pc[p] \in {"poll", "sleep"}, Goto(p, to),
           (pc[p] = "poll" /\ Confirm(p)) \/ UNCHANGED confirmed,
           UNCHANGED <<offset, batch, current, historyVars, disk, countVars>>
    PROVE  CursorInv'
<1>1. pc \in [Pollers -> Labels] /\ pc' = [pc EXCEPT ![p] = to]
    BY DEF CursorInv, TypeOK, Goto
<1>2. ConfirmedIsHandled'
    BY ConfirmStep DEF historyVars
<1>3. NothingLost' <=> NothingLost
    BY DEF NothingLost, countVars
<1>4. ASSUME NEW q \in Pollers, q # p PROVE PollerInv(q)'
  <2>1. pc'[q] = pc[q]
      BY <1>1, <1>4
  <2>2. Same(q)
      BY <1>3, <2>1 DEF Same, historyVars, countVars
  <2> QED BY <2>2, Frame DEF CursorInv
<1>5. PollerInv(p)'
  <2>1. pc'[p] = to
      BY <1>1
  <2>2. PollerInv(p)
      BY DEF CursorInv
  <2>3. SkipsOnlyHandled(p)' /\ TmpInv(p)' /\ CurrentInv(p)' /\ BatchInv(p)'
      BY <2>1, <2>2 DEF PollerInv, SkipsOnlyHandled, TmpInv, CurrentInv, BatchInv, historyVars
  <2>4. OffsetInv(p)' /\ SavedInv(p)'
      BY <2>1, <2>2 DEF PollerInv, OffsetInv, SavedInv, historyVars, countVars
  <2>5. FreshInv(p)'
      BY <1>3, <2>1, <2>2 DEF PollerInv, FreshInv, historyVars
  <2> QED BY <2>3, <2>4, <2>5 DEF PollerInv
<1> QED BY <1>2, <1>3, <1>4, <1>5, QuietHistory

(* An answer holds what comes after the confirmed and the requested offset: *)
(* everything before its first update was processed.                        *)
LEMMA FetchOkStep ==
    ASSUME CursorInv, TypeOK', NEW p \in Pollers, FetchOk(p)
    PROVE  CursorInv'
<1>1. PICK updates \in Answer(p) : batch' = [batch EXCEPT ![p] = updates]
    BY DEF FetchOk
<1>2. /\ pc \in [Pollers -> Labels] /\ batch \in [Pollers -> SUBSET Updates]
      /\ pc' = [pc EXCEPT ![p] = IF batch'[p] = {} THEN "poll" ELSE "batch"]
      /\ pc[p] = "poll" /\ Confirm(p)
    BY DEF CursorInv, TypeOK, FetchOk
<1>3. UNCHANGED <<offset, current, historyVars, disk, countVars>>
    BY DEF FetchOk
<1>4. ConfirmedIsHandled'
    BY <1>2, <1>3, ConfirmStep DEF historyVars
<1>5. NothingLost' <=> NothingLost
    BY <1>3 DEF NothingLost, countVars
<1>6. ASSUME NEW q \in Pollers, q # p PROVE PollerInv(q)'
  <2>1. pc'[q] = pc[q] /\ batch'[q] = batch[q]
      BY <1>1, <1>2, <1>6
  <2>2. Same(q)
      BY <1>3, <1>5, <2>1 DEF Same, historyVars, countVars
  <2> QED BY <2>2, Frame DEF CursorInv
<1>7. PollerInv(p)'
  <2>1. pc'[p] \in {"poll", "batch"} /\ batch'[p] = updates
      BY <1>1, <1>2
  <2>2. PollerInv(p)
      BY DEF CursorInv
  <2>3. SkipsOnlyHandled(p)' /\ TmpInv(p)' /\ CurrentInv(p)'
      BY <1>3, <2>1, <2>2 DEF PollerInv, SkipsOnlyHandled, TmpInv, CurrentInv, historyVars
  <2>4. OffsetInv(p)' /\ SavedInv(p)'
      BY <1>2, <1>3, <2>1, <2>2 DEF PollerInv, OffsetInv, SavedInv, historyVars, countVars
  <2> DEFINE first == Larger(confirmed[BotOf[p]], offset[p])
  <2>5. PICK last \in 0 .. arrived[BotOf[p]] : updates = {u \in Updates : first <= u /\ u <= last}
      BY <1>1 DEF Answer
  <2>6. /\ BotOf[p] \in Bots /\ confirmed[BotOf[p]] \in Nat /\ offset[p] \in Nat
        /\ arrived[BotOf[p]] \in Nat
      BY NAssumption, PollerAssumption DEF CursorInv, TypeOK, Offsets
  <2>7. \A u \in Updates : u < first => u \in handled[BotOf[p]]
      BY <1>2, <2>2, <2>6 DEF CursorInv, ConfirmedIsHandled, PollerInv, OffsetInv, Larger
  <2>8. first \in Nat /\ offset[p] <= first
      BY <2>6 DEF Larger
  <2> HIDE DEF first
  <2>9. BatchInv(p)'
      BY NAssumption, <1>3, <2>1, <2>5, <2>6, <2>7, <2>8 DEF BatchInv, Updates, historyVars
  <2>10. FreshInv(p)'
    <3>1. \A u \in updates : u \in Nat /\ offset[p] <= u
        BY <2>5, <2>6, <2>8 DEF Updates
    <3>2. NothingLost => \A u \in updates : u \notin handled[BotOf[p]]
        BY <1>2, <2>2, <2>6, <3>1 DEF PollerInv, FreshInv
    <3>3. pc'[p] = "poll" \/ pc'[p] = "batch"
        BY <2>1
    <3> QED BY <1>2, <1>3, <1>5, <2>1, <2>2, <3>2, <3>3 DEF PollerInv, FreshInv, historyVars
  <2> QED BY <2>3, <2>4, <2>9, <2>10 DEF PollerInv
<1> QED BY <1>3, <1>4, <1>5, <1>6, <1>7, QuietHistory

LEMMA TakeUpdateStep ==
    ASSUME CursorInv, TypeOK', NEW p \in Pollers, TakeUpdate(p)
    PROVE  CursorInv'
<1>1. PICK u \in batch[p] : Oldest(p, u) /\ Take(p, u, u + 1) /\ UNCHANGED disk
    BY DEF TakeUpdate
<1>2. /\ pc \in [Pollers -> Labels] /\ pc' = [pc EXCEPT ![p] = "working"]
      /\ batch \in [Pollers -> SUBSET Updates] /\ batch' = [batch EXCEPT ![p] = @ \ {u}]
      /\ current \in [Pollers -> 0 .. N] /\ current' = [current EXCEPT ![p] = u]
      /\ offset \in [Pollers -> Offsets] /\ offset' = [offset EXCEPT ![p] = Larger(@, u + 1)]
      /\ pc[p] = "batch"
    BY <1>1 DEF CursorInv, TypeOK, Take, Goto
<1>3. UNCHANGED <<telegramVars, historyVars, disk, countVars>>
    BY <1>1 DEF Take
<1>4. NothingLost' <=> NothingLost
    BY <1>3 DEF NothingLost, countVars
<1>5. ASSUME NEW q \in Pollers, q # p PROVE PollerInv(q)'
  <2>1. pc'[q] = pc[q] /\ batch'[q] = batch[q] /\ current'[q] = current[q] /\ offset'[q] = offset[q]
      BY <1>2, <1>5
  <2>2. Same(q)
      BY <1>3, <1>4, <2>1 DEF Same, historyVars, countVars
  <2> QED BY <2>2, Frame DEF CursorInv
<1>6. PollerInv(p)'
  <2>1. /\ pc'[p] = "working" /\ batch'[p] = batch[p] \ {u} /\ current'[p] = u
        /\ offset'[p] = Larger(offset[p], u + 1)
      BY <1>2
  <2>2. PollerInv(p) /\ handled' = handled /\ disk' = disk
      BY <1>3 DEF CursorInv, historyVars
  <2>3. u \in Updates /\ offset[p] \in Nat /\ Updates \subseteq Nat
      BY NAssumption, <1>2 DEF Updates, Offsets
  <2>4. SkipsOnlyHandled(p)' /\ TmpInv(p)'
      BY <2>1, <2>2 DEF PollerInv, SkipsOnlyHandled, TmpInv
  <2>5. \A w \in Updates : w < u => w \in handled[BotOf[p]]
      BY <1>1, <1>2, <2>2, <2>3 DEF PollerInv, BatchInv, Oldest
  <2>6. CurrentInv(p)'
      BY <2>1, <2>2, <2>3, <2>5 DEF CurrentInv, Larger
  <2>7. OffsetInv(p)'
    <3>1. ASSUME NEW w \in Updates, w < Larger(offset[p], u + 1), w # u PROVE w \in handled[BotOf[p]]
      <4>1. w < offset[p] \/ w < u
          BY <2>3, <3>1 DEF Larger
      <4> QED BY <1>2, <2>2, <2>5, <4>1 DEF PollerInv, OffsetInv
    <3> QED BY <2>1, <2>2, <3>1 DEF OffsetInv
  <2>8. BatchInv(p)'
      BY <1>2, <2>1, <2>2 DEF PollerInv, BatchInv
  <2>9. SavedInv(p)'
    <3>1. disk[FileOf[p]] \in Offsets \cup {Absent} /\ Offsets \subseteq Nat
        BY NAssumption, PollerAssumption DEF CursorInv, TypeOK, Offsets
    <3>2. misreads' = misreads
        BY <1>3 DEF countVars
    <3>3. offset'[p] \in Nat /\ offset[p] <= offset'[p]
        BY <2>1, <2>3 DEF Larger
    <3>4. SavedInv(p)
        BY <2>2 DEF PollerInv
    <3>5. misreads = 0 /\ disk[FileOf[p]] # Absent => disk[FileOf[p]] \in Nat /\ disk[FileOf[p]] <= offset[p]
        BY <1>2, <3>1, <3>4 DEF SavedInv
    <3>6. misreads = 0 /\ disk[FileOf[p]] # Absent => disk[FileOf[p]] <= offset'[p]
        BY <2>3, <3>3, <3>5
    <3> QED BY <2>2, <3>2, <3>6 DEF SavedInv
  <2>10. FreshInv(p)'
    <3>1. handled[BotOf[p]] \subseteq Nat
        BY <2>3, PollerAssumption DEF CursorInv, TypeOK
    <3> QED BY <1>2, <1>4, <2>1, <2>2, <2>3, <3>1 DEF PollerInv, FreshInv, Larger
  <2> QED BY <2>4, <2>6, <2>7, <2>8, <2>9, <2>10 DEF PollerInv
<1> QED BY <1>3, <1>4, <1>5, <1>6, QuietHistory DEF telegramVars

(* The current update is the first that is not processed, so processing     *)
(* stays in order; with nothing lost it is processed for the first time.    *)
LEMMA FinishUpdateStep ==
    ASSUME CursorInv, Scoped, TypeOK', NEW p \in Pollers, FinishUpdate(p)
    PROVE  CursorInv'
<1> DEFINE b == BotOf[p]  u == current[p]
<1>1. /\ pc \in [Pollers -> Labels] /\ pc' = [pc EXCEPT ![p] = "batch"]
      /\ current \in [Pollers -> 0 .. N] /\ current' = [current EXCEPT ![p] = 0]
      /\ handled \in [Bots -> SUBSET Updates] /\ handled' = [handled EXCEPT ![b] = @ \cup {u}]
      /\ pc[p] = "working"
    BY DEF CursorInv, TypeOK, FinishUpdate, Goto
<1>2. UNCHANGED <<offset, batch, telegramVars, disk, crashes, misreads>>
    BY DEF FinishUpdate
<1>3. ioErrors \in Nat /\ ioErrors' \in {ioErrors, ioErrors + 1}
    BY BoundAssumption DEF CursorInv, TypeOK, FinishUpdate
<1>4. NothingLost' => NothingLost
    BY <1>2, <1>3 DEF NothingLost
<1>5. b \in Bots /\ PollerInv(p) /\ u \in Updates /\ Updates \subseteq Nat
    BY NAssumption, PollerAssumption, <1>1 DEF CursorInv, PollerInv, CurrentInv, Updates
<1>6. \A c \in Bots : handled'[c] = IF c = b THEN handled[c] \cup {u} ELSE handled[c]
    BY <1>1, <1>5
<1>7. published' \in {published, [published EXCEPT ![b] = [published[b] EXCEPT ![u] = @ + 1]]}
    BY DEF FinishUpdate
<1>8. ASSUME NEW q \in Pollers, q # p PROVE PollerInv(q)'
  <2>1. BotOf[q] \in Bots /\ BotOf[q] # b
      BY PollerAssumption, <1>8 DEF Scoped
  <2>2. pc'[q] = pc[q] /\ current'[q] = current[q] /\ handled'[BotOf[q]] = handled[BotOf[q]]
      BY <1>1, <1>6, <1>8, <2>1
  <2>3. Same(q)
      BY <1>2, <1>4, <2>2 DEF Same
  <2> QED BY <2>3, Frame DEF CursorInv
<1>9. PollerInv(p)'
  <2>1. /\ pc'[p] = "batch" /\ handled'[b] = handled[b] \cup {u}
        /\ offset'[p] = offset[p] /\ batch'[p] = batch[p] /\ disk' = disk /\ misreads' = misreads
      BY <1>1, <1>2, <1>5, <1>6
  <2>2. SkipsOnlyHandled(p)' /\ TmpInv(p)' /\ CurrentInv(p)' /\ SavedInv(p)'
      BY <1>1, <1>5, <2>1 DEF PollerInv, SkipsOnlyHandled, TmpInv, CurrentInv, SavedInv
  <2>3. OffsetInv(p)' /\ BatchInv(p)'
      BY <1>1, <1>5, <2>1 DEF PollerInv, OffsetInv, BatchInv
  <2>4. u < offset[p]
      BY <1>1, <1>5 DEF PollerInv, CurrentInv
  <2>5. FreshInv(p)'
      BY <1>1, <1>4, <1>5, <2>1, <2>4 DEF PollerInv, FreshInv
  <2> QED BY <2>2, <2>3, <2>5 DEF PollerInv
<1>10. ConfirmedIsHandled'
    BY <1>2, <1>6 DEF CursorInv, ConfirmedIsHandled, telegramVars
<1>11. HandledInOrder'
  <2>1. \A w \in 1 .. u : w \in handled[b] \cup {u}
    <3>1. \A w \in 1 .. u : w \in Updates /\ (w < u \/ w = u)
        BY NAssumption, <1>5 DEF Updates
    <3> QED BY <1>1, <1>5, <3>1 DEF PollerInv, CurrentInv
  <2>2. ASSUME NEW c \in Bots, NEW w \in handled'[c] PROVE 1 .. w \subseteq handled'[c]
    <3>1. CASE w \in handled[c]
        BY <1>6, <3>1 DEF CursorInv, HandledInOrder
    <3>2. CASE c = b /\ w = u
        BY <1>6, <2>1, <3>2
    <3> QED BY <1>6, <2>2, <3>1, <3>2
  <2> QED BY <2>2 DEF HandledInOrder
<1>12. published \in [Bots -> [Updates -> Nat]]
    BY DEF CursorInv, TypeOK
<1>13. \A c \in Bots : \A w \in Updates :
          \/ published'[c][w] = published[c][w]
          \/ c = b /\ w = u /\ published'[c][w] = published[c][w] + 1
    BY <1>5, <1>7, <1>12
<1>14. PublishedInv'
  <2>1. ASSUME NEW c \in Bots, NEW w \in Updates, published'[c][w] # 0 PROVE w \in handled'[c]
    <3>1. CASE published'[c][w] = published[c][w]
        BY <1>6, <2>1, <3>1 DEF CursorInv, PublishedInv
    <3>2. CASE c = b /\ w = u
        BY <1>6, <3>2
    <3> QED BY <1>13, <3>1, <3>2
  <2> QED BY <2>1 DEF PublishedInv
<1>15. RepeatsNeedALostOffset'
  <2>1. NothingLost => published[b][u] = 0
      BY <1>1, <1>5 DEF CursorInv, PublishedInv, PollerInv, FreshInv
  <2> QED BY <1>4, <1>12, <1>13, <2>1 DEF CursorInv, RepeatsNeedALostOffset
<1> QED BY <1>8, <1>9, <1>10, <1>11, <1>14, <1>15 DEF CursorInv

(* Steps of the save: the batch ends, the temporary file is emptied and     *)
(* then written.  No offset file is a temporary file.                       *)
LEMMA SaveStep ==
    ASSUME CursorInv, Scoped, TypeOK', NEW p \in Pollers,
           EndBatch(p) \/ Truncate(p) \/ Write(p)
    PROVE  CursorInv'
<1>1. PICK to \in {"save", "write", "rename"} :
          /\ pc' = [pc EXCEPT ![p] = to]
          /\ \/ to = "save" /\ UNCHANGED disk
             \/ to = "write" /\ disk' = [disk EXCEPT ![TmpOf[p]] = 0]
             \/ to = "rename" /\ disk' = [disk EXCEPT ![TmpOf[p]] = offset[p]]
    BY DEF EndBatch, Truncate, Write, Goto
<1>2. pc \in [Pollers -> Labels] /\ pc[p] \in {"batch", "save", "write"} /\ disk \in [Files -> Offsets \cup {Absent}]
    BY DEF CursorInv, TypeOK, EndBatch, Truncate, Write
<1>3. UNCHANGED <<offset, batch, current, telegramVars, historyVars, countVars>>
    BY DEF EndBatch, Truncate, Write
<1>4. NothingLost' <=> NothingLost
    BY <1>3 DEF NothingLost, countVars
<1>5. TmpOf[p] \in Files /\ \A q \in Pollers : disk'[FileOf[q]] = disk[FileOf[q]]
    BY PollerAssumption, <1>1, <1>2 DEF Scoped
<1>6. ASSUME NEW q \in Pollers, q # p PROVE PollerInv(q)'
  <2>1. pc'[q] = pc[q]
      BY <1>1, <1>2, <1>6
  <2>2. disk'[TmpOf[q]] = disk[TmpOf[q]]
      BY PollerAssumption, <1>1, <1>2, <1>6 DEF Scoped
  <2>3. Same(q)
      BY <1>3, <1>4, <1>5, <2>1, <2>2 DEF Same, historyVars, countVars
  <2> QED BY <2>3, Frame DEF CursorInv
<1>7. PollerInv(p)'
  <2>1. pc'[p] = to /\ handled' = handled /\ offset' = offset /\ misreads' = misreads
      BY <1>1, <1>2, <1>3 DEF historyVars, countVars
  <2>2. PollerInv(p) /\ disk'[FileOf[p]] = disk[FileOf[p]]
      BY <1>5 DEF CursorInv
  <2>3. SkipsOnlyHandled(p)' /\ CurrentInv(p)' /\ BatchInv(p)' /\ SavedInv(p)'
      BY <1>2, <2>1, <2>2 DEF PollerInv, SkipsOnlyHandled, CurrentInv, BatchInv, SavedInv
  <2>4. TmpInv(p)'
      BY <1>1, <1>2, <1>5, <2>1 DEF TmpInv
  <2>5. OffsetInv(p)'
      BY <1>2, <2>1, <2>2 DEF PollerInv, OffsetInv
  <2>6. FreshInv(p)'
      BY <1>2, <1>4, <2>1, <2>2 DEF PollerInv, FreshInv
  <2> QED BY <2>3, <2>4, <2>5, <2>6 DEF PollerInv
<1> QED BY <1>3, <1>4, <1>6, <1>7, QuietHistory DEF telegramVars

(* The rename puts the whole offset into place in one step.                 *)
LEMMA RenameStep ==
    ASSUME CursorInv, Scoped, TypeOK', NEW p \in Pollers, Rename(p)
    PROVE  CursorInv'
<1>1. PICK to \in {"poll", "down"} : pc' = [pc EXCEPT ![p] = to]
    BY DEF Rename, LoopTop, Goto
<1>2. /\ pc \in [Pollers -> Labels] /\ pc[p] = "rename"
      /\ disk \in [Files -> Offsets \cup {Absent}] /\ offset[p] \in Offsets
    BY DEF CursorInv, TypeOK, Rename
<1>3. UNCHANGED <<offset, batch, current, telegramVars, historyVars, countVars>>
    BY DEF Rename
<1>4. NothingLost' <=> NothingLost
    BY <1>3 DEF NothingLost, countVars
<1>5. disk[TmpOf[p]] = offset[p] /\ offset[p] # Absent /\ offset[p] \in Nat
    BY NAssumption, <1>2 DEF CursorInv, PollerInv, TmpInv, Offsets, Absent
<1>6. disk' = [disk EXCEPT ![FileOf[p]] = offset[p], ![TmpOf[p]] = Absent]
    BY <1>5 DEF Rename
<1>7. FileOf[p] \in Files /\ TmpOf[p] \in Files /\ FileOf[p] # TmpOf[p]
    BY PollerAssumption DEF Scoped
<1>8. ASSUME NEW q \in Pollers, q # p PROVE PollerInv(q)'
  <2>1. pc'[q] = pc[q]
      BY <1>1, <1>2, <1>8
  <2>2. disk'[FileOf[q]] = disk[FileOf[q]] /\ disk'[TmpOf[q]] = disk[TmpOf[q]]
      BY PollerAssumption, <1>2, <1>6, <1>8 DEF Scoped
  <2>3. Same(q)
      BY <1>3, <1>4, <2>1, <2>2 DEF Same, historyVars, countVars
  <2> QED BY <2>3, Frame DEF CursorInv
<1>9. PollerInv(p)'
  <2>1. /\ pc'[p] = to /\ handled' = handled /\ offset' = offset /\ misreads' = misreads
        /\ disk'[FileOf[p]] = offset[p]
      BY <1>1, <1>2, <1>3, <1>6, <1>7 DEF historyVars, countVars
  <2>2. PollerInv(p)
      BY DEF CursorInv
  <2>3. SkipsOnlyHandled(p)' /\ OffsetInv(p)'
      BY <1>2, <2>1, <2>2 DEF PollerInv, OffsetInv, SkipsOnlyHandled
  <2>4. CurrentInv(p)' /\ BatchInv(p)' /\ TmpInv(p)'
      BY <2>1 DEF CurrentInv, BatchInv, TmpInv
  <2>5. SavedInv(p)'
      BY <1>5, <2>1 DEF SavedInv
  <2>6. FreshInv(p)'
      BY <1>2, <1>4, <1>5, <2>1, <2>2 DEF PollerInv, FreshInv, Absent
  <2> QED BY <2>3, <2>4, <2>5, <2>6 DEF PollerInv
<1> QED BY <1>3, <1>4, <1>8, <1>9, QuietHistory DEF telegramVars

(* Steps after which something may be lost, or that only note a request to  *)
(* stop.                                                                    *)
LEMMA InterruptStep ==
    ASSUME CursorInv, TypeOK', NEW p \in Pollers, SaveFails(p) \/ Stop(p) \/ Crash(p)
    PROVE  CursorInv'
<1>1. UNCHANGED <<offset, telegramVars, historyVars, disk, misreads>>
    BY DEF SaveFails, Stop, Crash
<1>2. crashes \in Nat /\ ioErrors \in Nat
    BY BoundAssumption DEF CursorInv, TypeOK
<1>3. NothingLost' => NothingLost
    BY <1>1, <1>2 DEF NothingLost, SaveFails, Stop, Crash
<1>4. ASSUME NEW q \in Pollers, q # p PROVE PollerInv(q)'
  <2>1. pc'[q] = pc[q] /\ batch'[q] = batch[q] /\ current'[q] = current[q]
      BY <1>4 DEF CursorInv, TypeOK, SaveFails, LoopTop, Goto, Stop, Crash
  <2>2. Same(q)
      BY <1>1, <1>3, <2>1 DEF Same, historyVars
  <2> QED BY <2>2, Frame DEF CursorInv
<1>5. PollerInv(p)'
  <2>1. CASE Stop(p)
    <3>1. Same(p)
        BY <1>1, <1>3, <2>1 DEF Same, historyVars, Stop
    <3> QED BY <3>1, Frame DEF CursorInv
  <2>2. CASE SaveFails(p) \/ Crash(p)
    <3>1. /\ pc'[p] \in {"poll", "down"} /\ ~NothingLost'
          /\ pc'[p] = "poll" => pc[p] \in {"save", "write", "rename"}
        BY <1>2, <2>2 DEF CursorInv, TypeOK, NothingLost, SaveFails, LoopTop, Goto, Crash
    <3>2. PollerInv(p)
        BY DEF CursorInv
    <3>3. SkipsOnlyHandled(p)' /\ CurrentInv(p)' /\ BatchInv(p)' /\ TmpInv(p)'
        BY <1>1, <3>1, <3>2 DEF PollerInv, SkipsOnlyHandled, CurrentInv, BatchInv, TmpInv, historyVars
    <3>4. OffsetInv(p)' /\ SavedInv(p)'
        BY <1>1, <3>1, <3>2 DEF PollerInv, OffsetInv, SavedInv, historyVars
    <3>5. FreshInv(p)'
        BY <3>1 DEF FreshInv
    <3> QED BY <3>3, <3>4, <3>5 DEF PollerInv
  <2> QED BY <2>1, <2>2
<1> QED BY <1>1, <1>3, <1>4, <1>5, QuietHistory DEF telegramVars

LEMMA StutterStep ==
    ASSUME CursorInv, TypeOK', UNCHANGED vars
    PROVE  CursorInv'
<1>1. NothingLost' <=> NothingLost
    BY DEF NothingLost, vars, countVars
<1>2. ASSUME NEW q \in Pollers PROVE PollerInv(q)'
  <2>1. Same(q)
      BY <1>1 DEF Same, vars, pollerVars, historyVars, countVars
  <2> QED BY <2>1, Frame DEF CursorInv
<1> QED BY <1>1, <1>2, QuietHistory DEF vars, telegramVars

-----------------------------------------------------------------------------
(* Instances that share neither bot nor path keep the cursor consistent     *)
(* through every poll, batch, save, failure, stop and crash.                *)
THEOREM CursorInvariant == ASSUME Scoped PROVE Spec => []CursorInv
<1>1. CursorInv /\ [Next]_vars => CursorInv'
  <2> SUFFICES ASSUME CursorInv, [Next]_vars PROVE CursorInv'
      OBVIOUS
  <2>1. TypeOK'
      BY TypeStep DEF CursorInv, PollerInv
  <2>2. ASSUME NEW b \in Bots, Arrive(b) PROVE CursorInv'
      BY <2>1, <2>2, ArriveStep
  <2>3. ASSUME NEW p \in Pollers, Start(p) \/ Misread(p) PROVE CursorInv'
      BY <2>1, <2>3, BeginStep DEF Start, Misread
  <2>4. ASSUME NEW p \in Pollers, FetchFails(p) \/ WakeUp(p) \/ LeavePoll(p) PROVE CursorInv'
      BY <2>1, <2>4, IdleStep DEF FetchFails, WakeUp, LeavePoll, telegramVars
  <2>5. ASSUME NEW p \in Pollers, FetchOk(p) PROVE CursorInv'
      BY <2>1, <2>5, FetchOkStep
  <2>6. ASSUME NEW p \in Pollers, TakeUpdate(p) PROVE CursorInv'
      BY <2>1, <2>6, TakeUpdateStep
  <2>7. ASSUME NEW p \in Pollers, FinishUpdate(p) PROVE CursorInv'
      BY <2>1, <2>7, FinishUpdateStep
  <2>8. ASSUME NEW p \in Pollers, EndBatch(p) \/ Truncate(p) \/ Write(p) PROVE CursorInv'
      BY <2>1, <2>8, SaveStep
  <2>9. ASSUME NEW p \in Pollers, Rename(p) PROVE CursorInv'
      BY <2>1, <2>9, RenameStep
  <2>10. ASSUME NEW p \in Pollers, SaveFails(p) \/ Stop(p) \/ Crash(p) PROVE CursorInv'
      BY <2>1, <2>10, InterruptStep
  <2>11. CASE UNCHANGED vars
      BY <2>1, <2>11, StutterStep
  <2> QED BY <2>2, <2>3, <2>4, <2>5, <2>6, <2>7, <2>8, <2>9, <2>10, <2>11 DEF Next, Step
<1> QED BY <1>1, InitHolds, PTL DEF Spec

(* Telegram is told to forget an update only after it was processed: no     *)
(* crash, stop or failed request loses one (plugin.rs:564-569).             *)
THEOREM NothingIsForgotten == ASSUME Scoped PROVE Spec => []ConfirmedIsHandled
<1>1. CursorInv => ConfirmedIsHandled
    BY DEF CursorInv
<1> QED BY <1>1, CursorInvariant, PTL

(* What a restart skips was processed (plugin.rs:877, 1007-1016).           *)
THEOREM RestartSkipsOnlyHandled == ASSUME Scoped PROVE Spec => []OffsetFileSkipsOnlyHandled
<1>1. CursorInv => OffsetFileSkipsOnlyHandled
    BY DEF CursorInv, PollerInv, OffsetFileSkipsOnlyHandled
<1> QED BY <1>1, CursorInvariant, PTL

(* Updates are processed in the order Telegram received them.               *)
THEOREM ProcessingKeepsOrder == ASSUME Scoped PROVE Spec => []HandledInOrder
<1>1. CursorInv => HandledInOrder
    BY DEF CursorInv
<1> QED BY <1>1, CursorInvariant, PTL

(* Stopping and starting again repeats nothing: only a crash, a failed      *)
(* write or an unreadable offset file does.                                 *)
THEOREM StopRepeatsNothing == ASSUME Scoped PROVE Spec => []RepeatsNeedALostOffset
<1>1. CursorInv => RepeatsNeedALostOffset
    BY DEF CursorInv
<1> QED BY <1>1, CursorInvariant, PTL

-----------------------------------------------------------------------------
(* With paths of their own, only the owner's rename changes an offset file. *)
LEMMA OffsetFileStep ==
    ASSUME CursorInv, Scoped, [Next]_vars, NEW q \in Pollers, disk'[FileOf[q]] # disk[FileOf[q]]
    PROVE  pc[q] = "rename" /\ disk'[FileOf[q]] = offset[q]
<1> DEFINE f == FileOf[q]
<1>1. f \in Files /\ disk \in [Files -> Offsets \cup {Absent}]
    BY PollerAssumption DEF CursorInv, TypeOK
<1>2. PICK p \in Pollers : Truncate(p) \/ Write(p) \/ Rename(p)
  <2>1. CASE UNCHANGED vars
      BY <2>1 DEF vars
  <2>2. CASE \E b \in Bots : Arrive(b)
      BY <2>2 DEF Arrive
  <2>3. ASSUME NEW p \in Pollers, \/ Start(p) \/ Misread(p) \/ WakeUp(p) \/ LeavePoll(p)
                                  \/ TakeUpdate(p) \/ FinishUpdate(p) \/ EndBatch(p) \/ SaveFails(p)
                                  \/ FetchOk(p) \/ FetchFails(p) \/ Stop(p) \/ Crash(p)
        PROVE  FALSE
      BY <2>3 DEF Start, Misread, Begin, WakeUp, LeavePoll, TakeUpdate, FinishUpdate, EndBatch,
                  SaveFails, FetchOk, FetchFails, Stop, Crash
  <2> QED BY <2>1, <2>2, <2>3 DEF Next, Step
<1>3. TmpOf[p] # f
    BY DEF Scoped
<1>4. ~Truncate(p) /\ ~Write(p)
    BY <1>1, <1>3 DEF Truncate, Write
<1>5. Rename(p) /\ disk[TmpOf[p]] = offset[p]
    BY <1>2, <1>4 DEF CursorInv, PollerInv, TmpInv, Rename
<1>6. p = q
    BY <1>1, <1>3, <1>5 DEF Scoped, Rename
<1>7. disk'[f] = offset[q]
    BY <1>1, <1>3, <1>5, <1>6 DEF Rename
<1> QED BY <1>5, <1>6, <1>7 DEF Rename

(* As long as it can be read, an offset file never goes back.               *)
THEOREM OffsetFileNeverGoesBack == ASSUME Scoped PROVE Spec => OffsetFileAdvances
<1>1. ASSUME CursorInv, [Next]_vars, NEW p \in Pollers, disk[FileOf[p]] # Absent, misreads = 0
      PROVE  disk'[FileOf[p]] # Absent /\ disk[FileOf[p]] <= disk'[FileOf[p]]
  <2>1. disk[FileOf[p]] \in Nat /\ offset[p] \in Offsets
      BY NAssumption, PollerAssumption, <1>1 DEF CursorInv, TypeOK, Offsets
  <2>2. CASE disk'[FileOf[p]] = disk[FileOf[p]]
      BY <1>1, <2>1, <2>2
  <2>3. CASE disk'[FileOf[p]] # disk[FileOf[p]]
    <3>1. pc[p] = "rename" /\ disk'[FileOf[p]] = offset[p]
        BY <1>1, <2>3, OffsetFileStep
    <3>2. offset[p] # Absent
        BY NAssumption, <2>1 DEF Offsets, Absent
    <3> QED BY <1>1, <3>1, <3>2 DEF CursorInv, PollerInv, SavedInv
  <2> QED BY <2>2, <2>3
<1>2. CursorInv /\ [Next]_vars => [\A p \in Pollers : LET f == FileOf[p] IN
          disk[f] # Absent /\ misreads = 0 => disk'[f] # Absent /\ disk[f] <= disk'[f]]_vars
    BY <1>1
<1> QED BY <1>2, CursorInvariant, PTL DEF Spec, OffsetFileAdvances
=============================================================================
