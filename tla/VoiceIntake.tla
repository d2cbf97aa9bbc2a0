---------------------------- MODULE VoiceIntake ----------------------------
(***************************************************************************)
(* A voice message becomes text before it is published: once its files are  *)
(* downloaded (MediaCache), the poller starts the whisper program on the    *)
(* first voice or audio file, writes one request, and waits for a line with *)
(* the text, for an error or for its time limit (auto_transcribe and        *)
(* transcribe_voice in src/src/plugin.rs).  The program is a process of its *)
(* own: it may answer late, never or with an error, and outlive a plugin    *)
(* that is killed.  Every step is a step of MediaCache or leaves its        *)
(* variables alone.                                                         *)
(***************************************************************************)
EXTENDS MediaCache

CONSTANTS
    Voices,   \* the files that are voice or audio
    Worded,   \* positions in Updates with a text or caption of their own
    Enabled,  \* auto_transcribe.enabled
    Nothing,  \* no text
    Silent, Failure \* the program: no line yet; an error, garbage or its end

ASSUME VoicesAssumption == Voices \subseteq Files /\ Worded \subseteq Nat /\ Enabled \in BOOLEAN
ASSUME WordsAssumption == {Nothing, Silent, Failure} \cap Contents = {} /\ Silent # Failure

VARIABLES
    stage,      \* how far the message in hand is
    heard,      \* its text, as the content that was transcribed, or Nothing
    said,       \* what the poller's child has answered
    children,   \* whisper processes alive: the life of the plugin that started
                \* each, and the position of its message
    transcripts \* published texts, with the position of their message (history)

intakeVars == <<stage, heard, said, children, transcripts>>
allVars == <<vars, intakeVars>>

IntakeInit ==
    /\ Init
    /\ stage = "media" /\ heard = Nothing /\ said = Silent
    /\ children = {} /\ transcripts = {}

At(i) == [path |-> <<Current.msg, PrefixOf[Current.files[i]]>>, file |-> Current.files[i]]

(* The voice or audio files of the message that were downloaded, and the     *)
(* first of them.                                                           *)
Spoken == {i \in DOMAIN Current.files : Current.files[i] \in Voices /\ At(i) \in found}
Voice == At(CHOOSE i \in Spoken : \A j \in Spoken : i <= j)

MediaDone == step = "getFile" /\ tried = Len(Current.files)
Wanted == Enabled /\ Spoken # {} /\ done + 1 \notin Worded

(* The child of this life of the plugin.                                    *)
Own == {c \in children : c.life = crashes}

-----------------------------------------------------------------------------
(* An operator named <definition>_<slip> is that definition with a slip in   *)
(* it; IntakeNext does not use them.                                        *)

Take_KeepsText ==
    /\ TakeUpdate
    /\ stage' = "media"
    /\ UNCHANGED <<heard, said, children, transcripts>>

Take ==
    /\ TakeUpdate
    /\ stage' = "media" /\ heard' = Nothing
    /\ UNCHANGED <<said, children, transcripts>>

(* The program is started, or it is not there or cannot be.                 *)
Launch ==
    /\ stage = "media" /\ MediaDone /\ Wanted
    /\ \/ /\ stage' = "feed"
          /\ children' = children \cup {[life |-> crashes, at |-> done + 1]}
       \/ stage' = "told" /\ UNCHANGED children
    /\ UNCHANGED <<vars, heard, said, transcripts>>

Kill == children' = children \ Own

(* The request is written and stdin closed, or the write fails.             *)
Feed ==
    /\ stage = "feed"
    /\ \/ stage' = "read" /\ UNCHANGED children
       \/ stage' = "told" /\ Kill
    /\ UNCHANGED <<vars, heard, said, transcripts>>

(* The program answers with the text of what the file holds, or fails        *)
(* (external).                                                              *)
Speak ==
    /\ stage = "read" /\ said = Silent
    /\ said' \in {disk[Voice.path], Failure}
    /\ UNCHANGED <<vars, stage, heard, children, transcripts>>

(* The line with the text, or what ends the wait for it.  Empty lines, those *)
(* of other requests and results without a text change nothing.             *)
Hear ==
    /\ stage = "read" /\ said # Silent
    /\ heard' = IF said = Failure THEN Nothing ELSE said
    /\ stage' = "reap"
    /\ UNCHANGED <<vars, said, children, transcripts>>

TimeOut_OnceItSpeaks ==
    /\ stage = "read" /\ said # Silent
    /\ stage' = "reap"
    /\ UNCHANGED <<vars, heard, said, children, transcripts>>

TimeOut_Leaks ==
    /\ stage = "read" /\ said = Silent
    /\ stage' = "told"
    /\ UNCHANGED <<vars, heard, said, children, transcripts>>

TimeOut ==
    /\ stage = "read" /\ said = Silent
    /\ stage' = "reap"
    /\ UNCHANGED <<vars, heard, said, children, transcripts>>

(* kill and wait, whichever way the wait ended; its pipe goes with it.       *)
Reap ==
    /\ stage = "reap"
    /\ Kill
    /\ stage' = "told" /\ said' = Silent
    /\ UNCHANGED <<vars, heard, transcripts>>

Publish ==
    /\ PublishMessage
    /\ Wanted => stage = "told"
    /\ stage' = "media"
    /\ transcripts' = IF heard = Nothing THEN transcripts
                      ELSE transcripts \cup {[at |-> done + 1, text |-> heard]}
    /\ UNCHANGED <<heard, said, children>>

(* kill_on_drop does nothing in a process that is killed itself: the child   *)
(* goes on, and ends on its own or by the broken pipe (external).            *)
Die ==
    /\ Crash
    /\ stage' = "media" /\ heard' = Nothing /\ said' = Silent
    /\ UNCHANGED <<children, transcripts>>

OrphanEnds ==
    /\ \E c \in children \ Own : children' = children \ {c}
    /\ UNCHANGED <<vars, stage, heard, said, transcripts>>

-----------------------------------------------------------------------------
Poll ==
    \/ Take \/ Launch \/ Feed \/ Hear \/ TimeOut \/ Reap \/ Publish
    \/ Download /\ UNCHANGED intakeVars

IntakeNext ==
    \/ Poll
    \/ SaveOffset /\ UNCHANGED intakeVars
    \/ Speak \/ Die \/ OrphanEnds

IntakeSpec == IntakeInit /\ [][IntakeNext]_allVars

(* Telegram's requests have their time limits, and Tokio runs a task that is *)
(* ready; nothing is assumed of the whisper program.                        *)
IntakeFairSpec == IntakeSpec /\ WF_allVars(Poll)

-----------------------------------------------------------------------------
(* The text is what a voice file of the message holds, which had no text of  *)
(* its own; or the file is not what it seems, by WrongFileHasACause: `torn'  *)
(* are the paths a download left unfinished.                                *)
OfTheVoice(at, text, torn) == LET m == Updates[at] IN
    /\ at \notin Worded
    /\ \E i \in DOMAIN m.files : LET f == m.files[i] IN
          /\ f \in Voices
          /\ \/ text = [state |-> "whole", file |-> f]
             \/ <<m.msg, PrefixOf[f]>> \in torn
             \/ text.file # f /\ PrefixOf[text.file] = PrefixOf[f]

(* A published transcript is that of a voice of its own message, over edits, *)
(* repeats, broken downloads and crashes (plugin.rs:698-713). *)
TranscriptIsOfTheVoice == \A t \in transcripts : OfTheVoice(t.at, t.text, broken)

(* A whisper process is that of the message in hand, and is gone before that *)
(* goes out, however the wait for it ended; any other is an orphan of a      *)
(* plugin that was killed (plugin.rs:1239-1241, 1319-1324).                  *)
ChildrenAreReaped ==
    \A c \in children :
        c.life = crashes => stage \in {"feed", "read", "reap"} /\ c.at = done + 1

(* However slow or broken the whisper program is, every message goes out.    *)
EveryMessageGoesOut == <>[](done = Len(Updates))

-----------------------------------------------------------------------------
(* The inductive invariant of the proofs (VoiceProofs), besides MediaInv.    *)

Transcribing == stage \in {"feed", "read", "reap"}

TextInv ==
    /\ stage \in {"media", "feed", "read", "reap", "told"}
    /\ stage # "media" => MediaDone /\ Wanted
    /\ said # Silent => stage \in {"read", "reap"}
    /\ said \notin {Silent, Failure} => OfTheVoice(done + 1, said, broken)
    /\ heard # Nothing /\ step # "idle" => OfTheVoice(done + 1, heard, broken)
    /\ TranscriptIsOfTheVoice

ChildInv ==
    /\ \A c \in children : c.life \in 0 .. crashes
    /\ Own \subseteq (IF Transcribing THEN {[life |-> crashes, at |-> done + 1]} ELSE {})

VoiceInv == TextInv /\ ChildInv
=============================================================================
