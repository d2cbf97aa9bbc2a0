----------------------------- MODULE SplitText -----------------------------
(***************************************************************************)
(* split_text in src/src/bot.rs: a long text becomes segments of at most    *)
(* Limit UTF-16 units, broken after a newline where that is possible.  A text *)
(* is how many units its first i characters have, and where its newlines    *)
(* are; a piece of it is the stretch of characters from .. to.              *)
(***************************************************************************)
EXTENDS Naturals, Sequences

CONSTANTS
    Texts, \* the texts to split: [length, ends, newlines]
    Limit    \* TELEGRAM_TEXT_MAX, in UTF-16 units

(* A character has one unit or two, a newline has one.                      *)
IsText(t) ==
    /\ t.length \in Nat
    /\ t.ends \in [0 .. t.length -> Nat]
    /\ t.ends[0] = 0
    /\ t.newlines \subseteq 1 .. t.length
    /\ \A i, j \in 0 .. t.length : i <= j =>
          t.ends[i] + (j - i) <= t.ends[j] /\ t.ends[j] <= t.ends[i] + 2 * (j - i)
    /\ \A i \in t.newlines : t.ends[i] = t.ends[i - 1] + 1

ASSUME TextsAssumption == \A t \in Texts : IsText(t)
ASSUME LimitAssumption == Limit \in Nat /\ Limit >= 2

VARIABLES
    text,     \* the argument
    at,       \* characters consumed
    lineEnd,  \* the end of the line that is hard-split, 0 between lines
    cur, curUnits, buf, bufUnits,  \* the locals of split_text
    out,      \* the segments
    done

vars == <<text, at, lineEnd, cur, curUnits, buf, bufUnits, out, done>>

Piece(from, to) == [from |-> from, to |-> to]
EmptyAt(i) == Piece(i + 1, i)
IsEmpty(piece) == piece.to < piece.from

(* utf16_len *)
Units(piece) == text.ends[piece.to] - text.ends[piece.from - 1]

(* push and push_str: the next characters go to the end of a piece.         *)
Push(piece, to) == [piece EXCEPT !.to = to]

IsPiece(piece) ==
    /\ piece = Piece(piece.from, piece.to)
    /\ piece.from \in 1 .. text.length + 1 /\ piece.to \in 0 .. text.length
    /\ piece.from <= piece.to + 1

OutOK ==
    /\ out \in Seq([from : Nat, to : Nat])
    /\ \A i \in DOMAIN out : IsPiece(out[i])

TypeOK ==
    /\ IsText(text)
    /\ at \in 0 .. text.length /\ lineEnd \in 0 .. text.length
    /\ IsPiece(cur) /\ IsPiece(buf)
    /\ curUnits \in 0 .. Limit /\ bufUnits \in 0 .. Limit
    /\ OutOK
    /\ done \in BOOLEAN

Init ==
    /\ text \in Texts
    /\ at = 0 /\ lineEnd = 0
    /\ cur = EmptyAt(0) /\ curUnits = 0
    /\ buf = EmptyAt(0) /\ bufUnits = 0
    /\ out = <<>> /\ done = FALSE

(* split_inclusive: the line that begins after `at' ends at to.             *)
IsLine(to) ==
    /\ to \in at + 1 .. text.length
    /\ to \in text.newlines \/ to = text.length
    /\ \A i \in at + 1 .. to - 1 : i \notin text.newlines

Line(to) == Piece(at + 1, to)

-----------------------------------------------------------------------------
(* An operator named <definition>_<slip> is that definition with a slip in   *)
(* it; Next does not use them.                                               *)

BetweenLines == ~done /\ lineEnd = 0

LongLine_ForgetsCur(to) ==
    /\ BetweenLines /\ IsLine(to) /\ Units(Line(to)) > Limit
    /\ lineEnd' = to
    /\ buf' = EmptyAt(at) /\ bufUnits' = 0
    /\ UNCHANGED <<text, at, cur, curUnits, out, done>>

(* A line that does not fit at all: cur goes out, curUnits stays as it was, *)
(* and the line is taken character by character.                            *)
LongLine(to) ==
    /\ BetweenLines /\ IsLine(to) /\ Units(Line(to)) > Limit
    /\ IF IsEmpty(cur) THEN UNCHANGED <<out, cur>>
                       ELSE out' = Append(out, cur) /\ cur' = EmptyAt(at)
    /\ lineEnd' = to
    /\ buf' = EmptyAt(at) /\ bufUnits' = 0
    /\ UNCHANGED <<text, at, curUnits, done>>

Character_CountsCharacters ==
    /\ ~done /\ at < lineEnd
    /\ at' = at + 1
    /\ IF bufUnits + 1 > Limit
       THEN out' = Append(out, buf) /\ buf' = Piece(at', at') /\ bufUnits' = 1
       ELSE buf' = Push(buf, at') /\ bufUnits' = bufUnits + 1 /\ UNCHANGED out
    /\ UNCHANGED <<text, lineEnd, cur, curUnits, done>>

Character ==
    /\ ~done /\ at < lineEnd
    /\ at' = at + 1
    /\ LET w == Units(Piece(at', at'))
       IN  IF bufUnits + w > Limit
           THEN out' = Append(out, buf) /\ buf' = Piece(at', at') /\ bufUnits' = w
           ELSE buf' = Push(buf, at') /\ bufUnits' = bufUnits + w /\ UNCHANGED out
    /\ UNCHANGED <<text, lineEnd, cur, curUnits, done>>

(* What is left of a hard-split line begins the next segment.               *)
EndOfLine ==
    /\ ~done /\ lineEnd > 0 /\ at = lineEnd
    /\ cur' = buf /\ curUnits' = bufUnits
    /\ lineEnd' = 0
    /\ UNCHANGED <<text, at, buf, bufUnits, out, done>>

NextLine_BreaksEarly(to) ==
    /\ BetweenLines /\ IsLine(to)
    /\ LET units == Units(Line(to))
       IN  /\ units <= Limit
           /\ IF curUnits + units >= Limit /\ ~IsEmpty(cur)
              THEN out' = Append(out, cur) /\ cur' = Line(to) /\ curUnits' = units
              ELSE cur' = Push(cur, to) /\ curUnits' = curUnits + units /\ UNCHANGED out
    /\ at' = to
    /\ UNCHANGED <<text, lineEnd, buf, bufUnits, done>>

(* A line that fits, with cur or after it.                                  *)
NextLine(to) ==
    /\ BetweenLines /\ IsLine(to)
    /\ LET units == Units(Line(to))
       IN  /\ units <= Limit
           /\ IF curUnits + units > Limit
              THEN out' = Append(out, cur) /\ cur' = Line(to) /\ curUnits' = units
              ELSE cur' = Push(cur, to) /\ curUnits' = curUnits + units /\ UNCHANGED out
    /\ at' = to
    /\ UNCHANGED <<text, lineEnd, buf, bufUnits, done>>

(* The rest goes out; a text with no segment has an empty one.              *)
Finish ==
    /\ BetweenLines /\ at = text.length
    /\ out' = IF IsEmpty(cur) /\ out # <<>> THEN out ELSE Append(out, cur)
    /\ done' = TRUE
    /\ UNCHANGED <<text, at, lineEnd, cur, curUnits, buf, bufUnits>>

TakeLine == \E to \in 1 .. text.length : LongLine(to) \/ NextLine(to)

Next == TakeLine \/ Character \/ EndOfLine \/ Finish

Spec == Init /\ [][Next]_vars

-----------------------------------------------------------------------------
(* The segments are the text: from its first character to its last, each    *)
(* segment beginning where the one before it ends.                          *)
SegmentsAreTheText ==
    /\ \A i \in DOMAIN out : out[i].from = IF i = 1 THEN 1 ELSE out[i - 1].to + 1
    /\ done => out[Len(out)].to = text.length

(* No segment is longer than Telegram takes, and none is empty, which       *)
(* Telegram refuses, but that of an empty text.                             *)
SegmentsAreSendable ==
    \A i \in DOMAIN out : /\ Units(out[i]) <= Limit
                          /\ IsEmpty(out[i]) => text.length = 0

(* A break is made only where the next line, or within a line that is too   *)
(* long the next character, would not have fitted.                          *)
NextBreak(i) ==
    IF i \in text.newlines
    THEN {to \in i + 1 .. text.length :
             /\ to \in text.newlines \/ to = text.length
             /\ \A k \in i + 1 .. to - 1 : k \notin text.newlines}
    ELSE {i + 1} \cap 1 .. text.length

NoNeedlessBreak ==
    \A i \in DOMAIN out : out[i].to < text.length =>
        \A to \in NextBreak(out[i].to) : text.ends[to] - text.ends[out[i].from - 1] > Limit

-----------------------------------------------------------------------------
(* The inductive invariant: out, cur and buf follow one another, and the    *)
(* counters hold the lengths of cur and buf.                                *)

Reached == IF out = <<>> THEN 0 ELSE out[Len(out)].to

InLine ==
    /\ at <= lineEnd
    /\ lineEnd \in text.newlines \/ lineEnd = text.length
    /\ IsEmpty(cur)
    /\ buf.from = Reached + 1 /\ buf.to = at
    /\ bufUnits = Units(buf)
    /\ \A i \in buf.from .. lineEnd - 1 : i \notin text.newlines
    /\ IsEmpty(buf) => at < lineEnd

AtLineEnd ==
    /\ cur.from = Reached + 1 /\ cur.to = at
    /\ curUnits = Units(cur)
    /\ at = 0 \/ at \in text.newlines \/ at = text.length
    /\ IsEmpty(cur) => at = 0

SplitInv ==
    /\ TypeOK
    /\ ~done => (lineEnd > 0 => InLine) /\ (lineEnd = 0 => AtLineEnd)
    /\ SegmentsAreTheText
    /\ SegmentsAreSendable
    /\ NoNeedlessBreak
=============================================================================
