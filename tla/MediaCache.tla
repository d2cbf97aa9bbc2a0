----------------------------- MODULE MediaCache -----------------------------
(***************************************************************************)
(* The attachments the poller downloads before it publishes a message, and  *)
(* the files it finds and reuses (download_media and download_one_media in  *)
(* src/src/plugin.rs, download_file in src/src/bot.rs).  Updates come again *)
(* after a crash, and an edited message keeps its message id.               *)
(***************************************************************************)
EXTENDS Naturals, Sequences

CONSTANTS
    Updates,    \* in order: [msg, files], the message and its attachments
    Messages,   \* message ids (with their chats)
    Files,      \* files on Telegram's servers, by file_id
    PrefixOf,   \* the first ten characters of each file_id, with the extension
    Prefixes,
    MaxCrashes, \* bound: kills of the process
    MaxBreaks   \* bound: downloads that break off

ASSUME UpdatesAssumption ==
    /\ Updates \in Seq([msg : Messages, files : Seq(Files)])
    /\ PrefixOf \in [Files -> Prefixes]
ASSUME BoundsAssumption == MaxCrashes \in Nat /\ MaxBreaks \in Nat

VARIABLES
    done,      \* updates published since the last start, as a position
    saved,     \* the position the offset file holds
    step,      \* what the poller is doing with update done + 1
    tried,     \* how many attachments of it are dealt with
    found,     \* the descriptors they gave
    disk,      \* media_dir: what each file holds, and whether all of it
    published, \* the descriptors published
    broken,    \* history: paths a download left unfinished
    crashes, breaks

place == <<done, saved>>
vars == <<place, step, tried, found, disk, published, broken, crashes, breaks>>

Paths == Messages \X Prefixes
Absent == [state |-> "absent"]
Contents == {Absent} \cup [state : {"partial", "whole"}, file : Files]
Descriptors == [path : Paths, file : Files]

TypeOK ==
    /\ done \in 0 .. Len(Updates) /\ saved \in 0 .. done
    /\ step \in {"idle", "getFile", "lookUp", "request", "write"}
    /\ tried \in Nat
    /\ found \subseteq Descriptors /\ published \subseteq Descriptors
    /\ disk \in [Paths -> Contents]
    /\ broken \subseteq Paths
    /\ crashes \in 0 .. MaxCrashes /\ breaks \in 0 .. MaxBreaks

Init ==
    /\ done = 0 /\ saved = 0 /\ step = "idle"
    /\ tried = 0 /\ found = {}
    /\ disk = [p \in Paths |-> Absent]
    /\ published = {} /\ broken = {}
    /\ crashes = 0 /\ breaks = 0

Current == Updates[done + 1]
File == Current.files[tried + 1]

(* chat id, message id and the first ten characters of the file_id.         *)
Path == <<Current.msg, PrefixOf[File]>>
Descriptor == [path |-> Path, file |-> File]

Put(state) == disk' = [disk EXCEPT ![Path] = [state |-> state, file |-> File]]

(* The attachment is dealt with, with a descriptor or without.              *)
Give(descriptors) ==
    /\ found' = found \cup descriptors
    /\ tried' = tried + 1
    /\ step' = "getFile"

-----------------------------------------------------------------------------
(* An operator named <definition>_<slip> is that definition with a slip in   *)
(* it; Next does not use them.                                               *)

TakeUpdate ==
    /\ step = "idle" /\ done < Len(Updates)
    /\ step' = "getFile"
    /\ tried' = 0 /\ found' = {}
    /\ UNCHANGED <<place, disk, published, broken, crashes, breaks>>

(* getFile fails, or answers without a path: the message goes without it.   *)
GetFile ==
    /\ step = "getFile" /\ tried < Len(Current.files)
    /\ \/ step' = "lookUp" /\ UNCHANGED <<tried, found>>
       \/ Give({})
    /\ UNCHANGED <<place, disk, published, broken, crashes, breaks>>

LookUp_Always ==
    /\ step = "lookUp"
    /\ step' = "request"
    /\ UNCHANGED <<place, tried, found, disk, published, broken, crashes, breaks>>

(* A file of that name is taken, whatever it holds.                         *)
LookUp ==
    /\ step = "lookUp"
    /\ \/ disk[Path] # Absent /\ Give({Descriptor})
       \/ disk[Path] = Absent /\ step' = "request" /\ UNCHANGED <<tried, found>>
    /\ UNCHANGED <<place, disk, published, broken, crashes, breaks>>

(* The download is answered and the file created, or it is not.             *)
Request ==
    /\ step = "request"
    /\ \/ Put("partial") /\ step' = "write" /\ UNCHANGED <<tried, found>>
       \/ Give({}) /\ UNCHANGED disk
    /\ UNCHANGED <<place, published, broken, crashes, breaks>>

FinishWrite ==
    /\ step = "write"
    /\ Put("whole")
    /\ Give({Descriptor})
    /\ UNCHANGED <<place, published, broken, crashes, breaks>>

BreakWrite_Described ==
    /\ step = "write" /\ breaks < MaxBreaks
    /\ breaks' = breaks + 1
    /\ Give({Descriptor})
    /\ UNCHANGED <<place, disk, published, broken, crashes>>

(* The stream breaks off or the disk is full: `?' returns, the file stays.  *)
BreakWrite ==
    /\ step = "write" /\ breaks < MaxBreaks
    /\ breaks' = breaks + 1
    /\ broken' = broken \cup {Path}
    /\ Give({})
    /\ UNCHANGED <<place, disk, published, crashes>>

(* The message goes out with the descriptors of its attachments.            *)
PublishMessage ==
    /\ step = "getFile" /\ tried = Len(Current.files)
    /\ published' = published \cup found
    /\ done' = done + 1
    /\ step' = "idle"
    /\ UNCHANGED <<saved, tried, found, disk, broken, crashes, breaks>>

(* The end of a batch.                                                      *)
SaveOffset ==
    /\ step = "idle" /\ saved # done
    /\ saved' = done
    /\ UNCHANGED <<done, step, tried, found, disk, published, broken, crashes, breaks>>

(* The process is killed and starts again at the saved offset.              *)
Crash ==
    /\ crashes < MaxCrashes
    /\ crashes' = crashes + 1
    /\ broken' = IF step = "write" THEN broken \cup {Path} ELSE broken
    /\ done' = saved
    /\ step' = "idle"
    /\ UNCHANGED <<saved, tried, found, disk, published, breaks>>

Download == GetFile \/ LookUp \/ Request \/ FinishWrite \/ BreakWrite

Next == TakeUpdate \/ Download \/ PublishMessage \/ SaveOffset \/ Crash

Spec == Init /\ [][Next]_vars

-----------------------------------------------------------------------------
(* A file other than the whole attachment is handed on for two reasons only: *)
(* a download to that path broke off, or another attachment of the message   *)
(* has a file_id with the same first ten characters.                         *)
WrongFileHasACause ==
    \A d \in published :
        /\ disk[d.path] # Absent
        /\ \/ disk[d.path] = [state |-> "whole", file |-> d.file]
           \/ d.path \in broken
           \/ disk[d.path].file # d.file /\ PrefixOf[disk[d.path].file] = PrefixOf[d.file]

(* What a published descriptor names does not change under its reader.      *)
PublishedFilesStay ==
    [][\A d \in published : disk'[d.path] = disk[d.path]]_vars

-----------------------------------------------------------------------------
(* The inductive invariant: a file is unfinished while it is written or when *)
(* its download broke off, and no descriptor names the one being written.    *)

StepInv ==
    /\ step # "idle" => done < Len(Updates) /\ tried <= Len(Current.files)
    /\ step \in {"lookUp", "request", "write"} => tried < Len(Current.files)
    /\ step = "request" => disk[Path] = Absent
    /\ step = "write" => disk[Path] = [state |-> "partial", file |-> File]

DiskInv ==
    \A p \in Paths :
        /\ disk[p] # Absent => PrefixOf[disk[p].file] = p[2]
        /\ disk[p].state = "partial" => p \in broken \/ (step = "write" /\ p = Path)

DescriptorInv ==
    \A d \in published \cup found :
        /\ disk[d.path] # Absent
        /\ d.path[2] = PrefixOf[d.file]
        /\ step = "write" => d.path # Path

MediaInv == TypeOK /\ StepInv /\ DiskInv /\ DescriptorInv
=============================================================================
