---------------------------- MODULE VoiceProofs ----------------------------
(***************************************************************************)
(* What is proved of the intake of attachments.  First MediaCache alone:    *)
(* its invariant, why a descriptor may name a file that is not the          *)
(* attachment, and that no published file changes.  Then VoiceIntake, which *)
(* implements MediaCache: what holds of the cache holds of it, and what     *)
(* that and the inductive invariant VoiceInv say of transcripts and of the  *)
(* processes that make them.                                                *)
(***************************************************************************)
EXTENDS VoiceIntake, TLAPS, WellFoundedInduction

(* An element of a sequence is of its kind.                                 *)
LEMMA ElementType ==
    ASSUME NEW S, NEW s \in Seq(S), NEW i \in 1 .. Len(s)
    PROVE  s[i] \in S
OBVIOUS

(* What the poller works on is an attachment of an update.                  *)
LEMMA CurrentType ==
    ASSUME TypeOK, StepInv, step \in {"lookUp", "request", "write"}
    PROVE  /\ Current.msg \in Messages /\ File \in Files
           /\ Path \in Paths /\ Path[2] = PrefixOf[File]
           /\ tried + 1 \in Nat /\ tried + 1 <= Len(Current.files)
<1>1. done + 1 \in 1 .. Len(Updates)
  BY UpdatesAssumption DEF TypeOK, StepInv
<1>2. Current \in [msg : Messages, files : Seq(Files)]
  BY <1>1, ElementType, UpdatesAssumption DEF Current
<1>3. tried \in Nat /\ tried < Len(Current.files) /\ Len(Current.files) \in Nat
  BY <1>2 DEF TypeOK, StepInv
<1>4. tried + 1 \in 1 .. Len(Current.files)
  BY <1>3
<1>5. File \in Files
  BY <1>2, <1>4 DEF File
<1> QED BY <1>2, <1>3, <1>4, <1>5, UpdatesAssumption DEF Path, Paths

(* The initial state: nothing on disk, nothing published.                   *)
LEMMA InitInv == Init => MediaInv
<1> SUFFICES ASSUME Init PROVE MediaInv
  OBVIOUS
<1> USE DEF Init
<1>1. TypeOK
  BY UpdatesAssumption, BoundsAssumption DEF TypeOK, Contents, Absent
<1>2. StepInv
  BY DEF StepInv
<1>3. DiskInv
  BY DEF DiskInv, Absent
<1>4. DescriptorInv
  BY DEF DescriptorInv
<1> QED BY <1>1, <1>2, <1>3, <1>4 DEF MediaInv

(* The poller's place: taking an update, publishing it, saving the offset,  *)
(* and starting again.                                                      *)
LEMMA PlaceStep ==
    ASSUME MediaInv, TakeUpdate \/ PublishMessage \/ SaveOffset \/ Crash
    PROVE  MediaInv'
<1> USE DEF MediaInv
<1>1. CASE TakeUpdate
  <2>1. TypeOK'
    BY <1>1 DEF TypeOK, TakeUpdate, place, Contents, Absent
  <2>2. StepInv'
    <3>1. done + 1 \in 1 .. Len(Updates)
      BY <1>1, UpdatesAssumption DEF TakeUpdate, TypeOK
    <3>2. Current \in [msg : Messages, files : Seq(Files)]
      BY <3>1, ElementType, UpdatesAssumption DEF Current
    <3>3. Len(Current.files) \in Nat
      BY <3>2
    <3> QED BY <1>1, <3>3 DEF StepInv, TakeUpdate, TypeOK, place, Current, File, Path
  <2>3. DiskInv'
    BY <1>1 DEF DiskInv, TakeUpdate
  <2>4. DescriptorInv'
    BY <1>1 DEF DescriptorInv, TakeUpdate
  <2> QED BY <2>1, <2>2, <2>3, <2>4
<1>2. CASE PublishMessage
  <2>1. TypeOK'
    <3>1. done < Len(Updates) /\ done \in Nat /\ Len(Updates) \in Nat /\ saved \in 0 .. done
      BY <1>2, UpdatesAssumption DEF PublishMessage, StepInv, TypeOK
    <3>2. done + 1 \in 0 .. Len(Updates) /\ saved \in 0 .. (done + 1)
      BY <3>1
    <3> QED BY <1>2, <3>2 DEF TypeOK, PublishMessage, Contents, Absent
  <2>2. StepInv'
    BY <1>2 DEF StepInv, PublishMessage
  <2>3. DiskInv'
    BY <1>2 DEF DiskInv, PublishMessage
  <2>4. DescriptorInv'
    BY <1>2 DEF DescriptorInv, PublishMessage
  <2> QED BY <2>1, <2>2, <2>3, <2>4
<1>3. CASE SaveOffset
  <2>1. TypeOK'
    BY <1>3 DEF TypeOK, SaveOffset, Contents, Absent
  <2>2. StepInv'
    BY <1>3 DEF StepInv, SaveOffset
  <2>3. DiskInv'
    BY <1>3 DEF DiskInv, SaveOffset
  <2>4. DescriptorInv'
    BY <1>3 DEF DescriptorInv, SaveOffset
  <2> QED BY <2>1, <2>2, <2>3, <2>4
<1>4. CASE Crash
  <2>1. step = "write" => Path \in Paths
    BY CurrentType
  <2>2. TypeOK'
    BY <1>4, <2>1, BoundsAssumption, UpdatesAssumption DEF TypeOK, Crash, Contents, Absent
  <2>3. StepInv'
    BY <1>4 DEF StepInv, Crash
  <2>4. DiskInv'
    BY <1>4 DEF DiskInv, Crash
  <2>5. DescriptorInv'
    BY <1>4 DEF DescriptorInv, Crash
  <2> QED BY <2>2, <2>3, <2>4, <2>5
<1> QED BY <1>1, <1>2, <1>3, <1>4

(* One step of one download.                                                *)
LEMMA DownloadStep ==
    ASSUME MediaInv, Download
    PROVE  MediaInv'
<1> USE DEF MediaInv
<1>0. done < Len(Updates) /\ tried \in Nat /\ (step \in {"lookUp", "request", "write"} \/ step = "getFile")
  BY DEF Download, GetFile, LookUp, Request, FinishWrite, BreakWrite, StepInv, TypeOK
<1>1. Current' = Current
  BY DEF Download, GetFile, LookUp, Request, FinishWrite, BreakWrite, Current, place
<1>2. tried' = tried => File' = File /\ Path' = Path
  BY <1>1 DEF File, Path
<1>3. Len(Current.files) \in Nat
  <2>1. done + 1 \in 1 .. Len(Updates)
    BY <1>0, UpdatesAssumption DEF TypeOK
  <2> QED BY <2>1, UpdatesAssumption DEF Current
<1>4. CASE GetFile
  <2>1. TypeOK'
    BY <1>4 DEF TypeOK, GetFile, Give, place, Contents, Absent
  <2>2. StepInv'
    BY <1>4, <1>0, <1>1, <1>3 DEF StepInv, GetFile, Give, place, TypeOK
  <2>3. DiskInv'
    BY <1>4 DEF DiskInv, GetFile, Give
  <2>4. DescriptorInv'
    BY <1>4 DEF DescriptorInv, GetFile, Give
  <2> QED BY <2>1, <2>2, <2>3, <2>4
<1>5. CASE LookUp
  <2>1. Path \in Paths /\ File \in Files /\ Path[2] = PrefixOf[File] /\ tried + 1 <= Len(Current.files)
    BY <1>5, CurrentType DEF LookUp
  <2>2. Descriptor \in Descriptors /\ Descriptor.path = Path /\ Descriptor.file = File
    BY <2>1 DEF Descriptor, Descriptors
  <2>3. TypeOK'
    BY <1>5, <2>2 DEF TypeOK, LookUp, Give, place, Contents, Absent
  <2>4. StepInv'
    BY <1>5, <1>0, <1>1, <1>2, <1>3, <2>1 DEF StepInv, LookUp, Give, place, TypeOK
  <2>5. DiskInv'
    BY <1>5 DEF DiskInv, LookUp, Give
  <2>6. DescriptorInv'
    BY <1>5, <2>1, <2>2 DEF DescriptorInv, LookUp, Give
  <2> QED BY <2>3, <2>4, <2>5, <2>6
<1>6. CASE Request
  <2>1. Path \in Paths /\ File \in Files /\ Path[2] = PrefixOf[File] /\ tried + 1 <= Len(Current.files)
    BY <1>6, CurrentType DEF Request
  <2>2. CASE Give({}) /\ UNCHANGED disk
    <3>1. TypeOK'
      BY <1>6, <2>2 DEF TypeOK, Request, Give, place, Contents, Absent
    <3>2. StepInv'
      BY <1>6, <2>2, <1>0, <1>1, <1>3, <2>1 DEF StepInv, Request, Give, place, TypeOK
    <3>3. DiskInv'
      BY <1>6, <2>2 DEF DiskInv, Request, Give
    <3>4. DescriptorInv'
      BY <1>6, <2>2 DEF DescriptorInv, Request, Give
    <3> QED BY <3>1, <3>2, <3>3, <3>4
  <2>3. CASE Put("partial") /\ step' = "write" /\ UNCHANGED <<tried, found>>
    <3>0. /\ disk' = [disk EXCEPT ![Path] = [state |-> "partial", file |-> File]]
          /\ disk[Path] = Absent /\ disk'[Path] = [state |-> "partial", file |-> File]
          /\ File' = File /\ Path' = Path
      BY <1>6, <2>1, <2>3, <1>2 DEF Put, TypeOK, StepInv, Request
    <3>1. TypeOK'
      BY <1>6, <2>3, <3>0, <2>1 DEF TypeOK, Request, place, Contents
    <3>2. StepInv'
      BY <1>6, <2>3, <3>0, <1>0, <1>1, <1>3, <2>1 DEF StepInv, Request, place, TypeOK
    <3>3. DiskInv'
      BY <1>6, <2>3, <3>0, <2>1 DEF DiskInv, Request, TypeOK
    <3>4. DescriptorInv'
      BY <1>6, <2>3, <3>0, <2>1 DEF DescriptorInv, Request, TypeOK, Descriptors
    <3> QED BY <3>1, <3>2, <3>3, <3>4
  <2> QED BY <1>6, <2>2, <2>3 DEF Request
<1>7. CASE FinishWrite
  <2>1. Path \in Paths /\ File \in Files /\ Path[2] = PrefixOf[File] /\ tried + 1 <= Len(Current.files)
    BY <1>7, CurrentType DEF FinishWrite
  <2>2. Descriptor \in Descriptors /\ Descriptor.path = Path /\ Descriptor.file = File
    BY <2>1 DEF Descriptor, Descriptors
  <2>3. /\ disk' = [disk EXCEPT ![Path] = [state |-> "whole", file |-> File]]
        /\ disk'[Path] = [state |-> "whole", file |-> File] /\ disk'[Path] # Absent
    BY <1>7, <2>1 DEF Put, TypeOK, FinishWrite, Absent
  <2>4. TypeOK'
    BY <1>7, <2>1, <2>2, <2>3 DEF TypeOK, FinishWrite, Give, place, Contents
  <2>5. StepInv'
    BY <1>7, <1>0, <1>1, <1>3, <2>1 DEF StepInv, FinishWrite, Give, place, TypeOK
  <2>6. DiskInv'
    BY <1>7, <2>1, <2>3 DEF DiskInv, FinishWrite, Give, TypeOK
  <2>7. DescriptorInv'
    BY <1>7, <2>1, <2>2, <2>3 DEF DescriptorInv, FinishWrite, Give, TypeOK, Descriptors
  <2> QED BY <2>4, <2>5, <2>6, <2>7
<1>8. CASE BreakWrite
  <2>1. Path \in Paths /\ File \in Files /\ tried + 1 <= Len(Current.files)
    BY <1>8, CurrentType DEF BreakWrite
  <2>2. TypeOK'
    BY <1>8, <2>1, BoundsAssumption DEF TypeOK, BreakWrite, Give, place, Contents, Absent
  <2>3. StepInv'
    BY <1>8, <1>0, <1>1, <1>3, <2>1 DEF StepInv, BreakWrite, Give, place, TypeOK
  <2>4. DiskInv'
    BY <1>8 DEF DiskInv, BreakWrite, Give
  <2>5. DescriptorInv'
    BY <1>8 DEF DescriptorInv, BreakWrite, Give
  <2> QED BY <2>2, <2>3, <2>4, <2>5
<1> QED BY <1>4, <1>5, <1>6, <1>7, <1>8 DEF Download

(* MediaInv holds of every behaviour, whatever breaks off and however often *)
(* the process is killed.                                                   *)
THEOREM MediaInvariant == Spec => []MediaInv
<1>1. ASSUME MediaInv, UNCHANGED vars PROVE MediaInv'
  BY <1>1 DEF MediaInv, TypeOK, StepInv, DiskInv, DescriptorInv, Current, File, Path,
              vars, place, Contents, Absent
<1>2. MediaInv /\ [Next]_vars => MediaInv'
  BY <1>1, PlaceStep, DownloadStep DEF Next
<1> QED BY InitInv, <1>2, PTL DEF Spec

(* A file other than the whole attachment is handed on only after a download *)
(* to that path broke off, or for another attachment of the same message and *)
(* the same ten characters (download_one_media's cache check).              *)
THEOREM WrongFilesHaveACause == Spec => []WrongFileHasACause
<1>1. MediaInv => WrongFileHasACause
  <2> SUFFICES ASSUME MediaInv, NEW d \in published
               PROVE  /\ disk[d.path] # Absent
                      /\ \/ disk[d.path] = [state |-> "whole", file |-> d.file]
                         \/ d.path \in broken
                         \/ disk[d.path].file # d.file /\ PrefixOf[disk[d.path].file] = PrefixOf[d.file]
    BY DEF WrongFileHasACause
  <2>1. d.path \in Paths /\ disk[d.path] # Absent /\ d.path[2] = PrefixOf[d.file]
    BY DEF MediaInv, DescriptorInv, TypeOK, Descriptors
  <2>2. disk[d.path] \in [state : {"partial", "whole"}, file : Files]
    BY <2>1 DEF MediaInv, TypeOK, Contents
  <2>3. PrefixOf[disk[d.path].file] = PrefixOf[d.file]
    BY <2>1 DEF MediaInv, DiskInv
  <2>4. disk[d.path].state = "partial" => d.path \in broken
    BY <2>1 DEF MediaInv, DiskInv, DescriptorInv
  <2>5. disk[d.path].file = d.file /\ disk[d.path].state = "whole"
          => disk[d.path] = [state |-> "whole", file |-> d.file]
    BY <2>2
  <2> QED BY <2>1, <2>2, <2>3, <2>4, <2>5
<1> QED BY <1>1, MediaInvariant, PTL

(* Nothing writes to a file a published descriptor names, so the agent reads *)
(* what was there when the message was published.                           *)
THEOREM PublishedFilesAreStable == Spec => PublishedFilesStay
<1>1. ASSUME MediaInv, [Next]_vars, NEW d \in published
      PROVE  disk'[d.path] = disk[d.path]
  <2>1. d.path \in Paths /\ disk[d.path] # Absent
    BY <1>1 DEF MediaInv, DescriptorInv, TypeOK, Descriptors
  <2>2. CASE Request
    BY <1>1, <2>1, <2>2 DEF Request, Put, MediaInv, StepInv, TypeOK
  <2>3. CASE FinishWrite
    <3>1. d.path # Path
      BY <1>1, <2>3 DEF FinishWrite, MediaInv, DescriptorInv
    <3> QED BY <1>1, <2>1, <2>3, <3>1 DEF FinishWrite, Put, MediaInv, TypeOK
  <2>4. CASE UNCHANGED disk
    BY <2>4
  <2> QED BY <1>1, <2>2, <2>3, <2>4 DEF Next, Download, TakeUpdate, GetFile, LookUp, BreakWrite,
                                         PublishMessage, SaveOffset, Crash, vars
<1>2. MediaInv /\ [Next]_vars => [\A d \in published : disk'[d.path] = disk[d.path]]_vars
  BY <1>1
<1> QED BY <1>2, MediaInvariant, PTL DEF Spec, PublishedFilesStay

-----------------------------------------------------------------------------
(* Every step is a step of the cache or leaves it alone.                    *)
LEMMA StepIsAMediaStep == [IntakeNext]_allVars => [Next]_vars
<1> SUFFICES ASSUME [IntakeNext]_allVars PROVE [Next]_vars
  OBVIOUS
<1>1. CASE Take \/ Publish \/ Die \/ SaveOffset \/ Download
  BY <1>1 DEF Take, Publish, Die, Next
<1>2. CASE Launch \/ Feed \/ Speak \/ Hear \/ TimeOut \/ Reap \/ OrphanEnds \/ UNCHANGED allVars
  BY <1>2 DEF Launch, Feed, Speak, Hear, TimeOut, Reap, OrphanEnds, allVars
<1> QED BY <1>1, <1>2 DEF IntakeNext, Poll

(* Transcription leaves the downloads, the files and the offset exactly as   *)
(* they are without it.                                                     *)
THEOREM VoiceKeepsTheCache == IntakeSpec => Spec
<1>1. IntakeInit => Init
  BY DEF IntakeInit
<1> QED BY <1>1, StepIsAMediaStep, PTL DEF IntakeSpec, Spec

-----------------------------------------------------------------------------
(* A set of naturals has a least one.                                       *)
LEMMA LeastOne ==
    ASSUME NEW S \in SUBSET Nat, S # {}
    PROVE  \E i \in S : \A j \in S : i <= j
<1>1. PICK i \in S : \A j \in S : ~(<<j, i>> \in OpToRel(<, Nat))
  BY NatLessThanWellFounded, WFMin
<1>2. \A j \in S : ~(j < i)
  BY <1>1 DEF OpToRel
<1> QED BY <1>2

(* What the poller hands to the program is a downloaded voice of the message. *)
LEMMA VoiceIsSpoken ==
    ASSUME MediaInv, step # "idle", Spoken # {}
    PROVE  \E i \in Spoken : Voice = At(i)
<1>1. done + 1 \in 1 .. Len(Updates)
  BY UpdatesAssumption DEF MediaInv, TypeOK, StepInv
<1>2. Current \in [msg : Messages, files : Seq(Files)]
  BY <1>1, ElementType, UpdatesAssumption DEF Current
<1>3. Spoken \in SUBSET Nat
  BY <1>2 DEF Spoken
<1>4. \E i \in Spoken : \A j \in Spoken : i <= j
  BY <1>3, LeastOne
<1> QED BY <1>4 DEF Voice

(* A file that is found is the attachment, or is not for a cause.           *)
LEMMA FoundFiles ==
    ASSUME MediaInv, step # "write", NEW d \in found
    PROVE  \/ disk[d.path] = [state |-> "whole", file |-> d.file]
           \/ d.path \in broken
           \/ disk[d.path].file # d.file /\ PrefixOf[disk[d.path].file] = PrefixOf[d.file]
<1>1. d.path \in Paths /\ disk[d.path] # Absent /\ d.path[2] = PrefixOf[d.file]
  BY DEF MediaInv, DescriptorInv, TypeOK, Descriptors
<1>2. disk[d.path] \in [state : {"partial", "whole"}, file : Files]
  BY <1>1 DEF MediaInv, TypeOK, Contents
<1>3. PrefixOf[disk[d.path].file] = PrefixOf[d.file]
  BY <1>1 DEF MediaInv, DiskInv
<1>4. disk[d.path].state = "partial" => d.path \in broken
  BY <1>1 DEF MediaInv, DiskInv
<1>5. disk[d.path].file = d.file /\ disk[d.path].state = "whole"
        => disk[d.path] = [state |-> "whole", file |-> d.file]
  BY <1>2
<1> QED BY <1>2, <1>3, <1>4, <1>5

(* So what the program reads there is of the voice.                         *)
LEMMA HeardIsOfTheVoice ==
    ASSUME MediaInv, MediaDone, Wanted
    PROVE  OfTheVoice(done + 1, disk[Voice.path], broken)
<1>1. PICK i \in Spoken : Voice = At(i)
  BY VoiceIsSpoken DEF MediaDone, Wanted
<1>2. /\ i \in DOMAIN Current.files /\ Current.files[i] \in Voices /\ At(i) \in found
      /\ Voice.path = <<Current.msg, PrefixOf[Current.files[i]]>> /\ Voice.file = Current.files[i]
  BY <1>1 DEF Spoken, At
<1>3. \/ disk[Voice.path] = [state |-> "whole", file |-> Voice.file]
      \/ Voice.path \in broken
      \/ disk[Voice.path].file # Voice.file /\ PrefixOf[disk[Voice.path].file] = PrefixOf[Voice.file]
  BY <1>1, <1>2, FoundFiles DEF MediaDone
<1> QED BY <1>2, <1>3 DEF OfTheVoice, Current, Wanted

(* More broken paths only excuse more.                                      *)
LEMMA OfTheVoiceStays ==
    ASSUME NEW at, NEW text, NEW torn, NEW more, torn \subseteq more, OfTheVoice(at, text, torn)
    PROVE  OfTheVoice(at, text, more)
BY DEF OfTheVoice

-----------------------------------------------------------------------------
LEMMA InitVoiceInv == IntakeInit => VoiceInv
BY WordsAssumption DEF IntakeInit, VoiceInv, TextInv, ChildInv, TranscriptIsOfTheVoice, Own

(* Steps of the transcription leave what it is about alone.                 *)
LEMMA SameMessage ==
    ASSUME UNCHANGED vars
    PROVE  UNCHANGED <<done, step, broken, crashes, disk>> /\ MediaDone' = MediaDone /\ Wanted' = Wanted
<1>1. Spoken' = Spoken
  BY DEF Spoken, At, Current, vars, place
<1> QED BY <1>1 DEF vars, place, MediaDone, Wanted, Current

LEMMA TextKept ==
    ASSUME MediaInv, TextInv, [IntakeNext]_allVars
    PROVE  TextInv'
<1> USE DEF TextInv, TranscriptIsOfTheVoice
<1>1. CASE UNCHANGED allVars
  <2>1. UNCHANGED <<done, step, broken, crashes, disk>> /\ MediaDone' = MediaDone /\ Wanted' = Wanted
    BY <1>1, SameMessage DEF allVars
  <2> QED BY <1>1, <2>1 DEF allVars, intakeVars
<1>2. CASE Launch \/ Feed \/ TimeOut \/ Reap \/ OrphanEnds
  <2>1. UNCHANGED <<done, step, broken, crashes, disk>> /\ MediaDone' = MediaDone /\ Wanted' = Wanted
    BY <1>2, SameMessage DEF Launch, Feed, TimeOut, Reap, OrphanEnds
  <2> QED BY <1>2, <2>1 DEF Launch, Feed, TimeOut, Reap, OrphanEnds
<1>3. CASE Speak
  <2>1. UNCHANGED <<done, step, broken, crashes, disk>> /\ MediaDone' = MediaDone /\ Wanted' = Wanted
    BY <1>3, SameMessage DEF Speak
  <2>2. OfTheVoice(done + 1, disk[Voice.path], broken)
    BY <1>3, HeardIsOfTheVoice DEF Speak
  <2> QED BY <1>3, <2>1, <2>2 DEF Speak
<1>4. CASE Hear
  <2>1. UNCHANGED <<done, step, broken, crashes, disk>> /\ MediaDone' = MediaDone /\ Wanted' = Wanted
    BY <1>4, SameMessage DEF Hear
  <2> QED BY <1>4, <2>1 DEF Hear
<1>5. CASE Take \/ Die
  <2>1. broken \subseteq broken' /\ transcripts' = transcripts /\ stage' = "media" /\ heard' = Nothing
    BY <1>5 DEF Take, TakeUpdate, Die, Crash
  <2>2. said' = Silent
    BY <1>5 DEF Take, TakeUpdate, Die, MediaDone
  <2> QED BY <2>1, <2>2, OfTheVoiceStays
<1>6. CASE Publish
  <2>1. UNCHANGED broken /\ stage' = "media" /\ step' = "idle" /\ UNCHANGED <<heard, said>>
    BY <1>6 DEF Publish, PublishMessage
  <2>2. said = Silent
    BY <1>6 DEF Publish
  <2>3. heard # Nothing => OfTheVoice(done + 1, heard, broken)
    BY <1>6 DEF Publish, PublishMessage
  <2>4. \A t \in transcripts' : OfTheVoice(t.at, t.text, broken)
    BY <1>6, <2>3 DEF Publish
  <2> QED BY <2>1, <2>2, <2>4
<1>7. CASE (Download \/ SaveOffset) /\ UNCHANGED intakeVars
  <2>1. stage = "media" /\ said = Silent
    BY <1>7 DEF Download, GetFile, LookUp, Request, FinishWrite, BreakWrite, SaveOffset, MediaDone
  <2>2. broken \subseteq broken' /\ done' = done /\ (step' # "idle" => step # "idle")
    BY <1>7 DEF Download, GetFile, LookUp, Request, FinishWrite, BreakWrite, SaveOffset, place
  <2>3. UNCHANGED <<stage, heard, said, transcripts>>
    BY <1>7 DEF intakeVars
  <2> QED BY <2>1, <2>2, <2>3, OfTheVoiceStays
<1> QED BY <1>1, <1>2, <1>3, <1>4, <1>5, <1>6, <1>7 DEF IntakeNext, Poll

LEMMA ChildrenKept ==
    ASSUME MediaInv, VoiceInv, [IntakeNext]_allVars
    PROVE  ChildInv'
<1> USE DEF VoiceInv, TextInv, ChildInv, Own, Transcribing
<1>0. crashes \in Nat
  BY DEF MediaInv, TypeOK
<1>1. CASE UNCHANGED allVars
  BY <1>1 DEF allVars, vars, place, intakeVars
<1>2. CASE Launch
  BY <1>0, <1>2 DEF Launch, vars, place
<1>3. CASE Feed
  BY <1>3 DEF Feed, Kill, vars, place
<1>4. CASE Speak \/ Hear \/ TimeOut
  BY <1>4 DEF Speak, Hear, TimeOut, vars, place
<1>5. CASE Reap
  BY <1>5 DEF Reap, Kill, vars, place
<1>6. CASE OrphanEnds
  BY <1>6 DEF OrphanEnds, vars, place
<1>7. CASE Take \/ Publish
  <2>1. stage \in {"media", "told"} /\ stage' = "media" /\ UNCHANGED <<crashes, children>>
    BY <1>7 DEF Take, TakeUpdate, Publish, PublishMessage, MediaDone
  <2> QED BY <2>1
<1>8. CASE Die
  BY <1>0, <1>8 DEF Die, Crash
<1>9. CASE (Download \/ SaveOffset) /\ UNCHANGED intakeVars
  <2>1. UNCHANGED <<crashes, done, children, stage>>
    BY <1>9 DEF Download, GetFile, LookUp, Request, FinishWrite, BreakWrite, SaveOffset, place, intakeVars
  <2> QED BY <2>1
<1> QED BY <1>1, <1>2, <1>3, <1>4, <1>5, <1>6, <1>7, <1>8, <1>9 DEF IntakeNext, Poll

(* The invariant of the transcription, for any messages, files, programs and *)
(* crashes.                                                                 *)
THEOREM VoiceInvariant == IntakeSpec => []VoiceInv
<1>1. IntakeSpec => []MediaInv
  BY VoiceKeepsTheCache, MediaInvariant, PTL
<1>2. MediaInv /\ VoiceInv /\ [IntakeNext]_allVars => VoiceInv'
  BY TextKept, ChildrenKept DEF VoiceInv
<1> QED BY <1>1, <1>2, InitVoiceInv, PTL DEF IntakeSpec

(* Whatever breaks off, crashes and is repeated, a transcript is that of a   *)
(* voice of the message it is published with (plugin.rs:698-713).            *)
THEOREM TranscriptsAreOfTheirVoice == IntakeSpec => []TranscriptIsOfTheVoice
<1>1. VoiceInv => TranscriptIsOfTheVoice
  BY DEF VoiceInv, TextInv
<1> QED BY <1>1, VoiceInvariant, PTL

(* No whisper process outlives the wait for it, short of a killed plugin     *)
(* (plugin.rs:1319-1324).                                                    *)
THEOREM EveryChildIsReaped == IntakeSpec => []ChildrenAreReaped
<1>1. VoiceInv => ChildrenAreReaped
  BY DEF VoiceInv, ChildInv, ChildrenAreReaped, Own, Transcribing
<1> QED BY <1>1, VoiceInvariant, PTL
=============================================================================
