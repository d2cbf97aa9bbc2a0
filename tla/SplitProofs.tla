---------------------------- MODULE SplitProofs ----------------------------
(***************************************************************************)
(* split_text for every text and every limit of at least two units: the     *)
(* segments are the text, each can be sent, and no break is needless.       *)
(***************************************************************************)
EXTENDS SplitText, TLAPS

(* Units of a piece: what is pushed adds up, and more text has more units.  *)
LEMMA UnitsAddUp ==
    ASSUME IsText(text), NEW from \in 1 .. text.length + 1, NEW mid \in 0 .. text.length,
           NEW to \in 0 .. text.length, from <= mid + 1, mid <= to
    PROVE  /\ Units(Piece(from, mid)) \in Nat
           /\ Units(Piece(from, to)) = Units(Piece(from, mid)) + Units(Piece(mid + 1, to))
           /\ Units(Piece(from, mid)) <= Units(Piece(from, to))
           /\ Units(Piece(mid + 1, to)) >= to - mid
           /\ Units(Piece(mid + 1, to)) <= 2 * (to - mid)
           /\ Units(Piece(mid + 1, to)) \in Nat
<1>1. from - 1 \in 0 .. text.length /\ from - 1 <= mid /\ (mid + 1) - 1 = mid
  BY DEF IsText
<1>2. text.ends[from - 1] \in Nat /\ text.ends[mid] \in Nat /\ text.ends[to] \in Nat
  BY <1>1 DEF IsText
<1>3. text.ends[from - 1] + (mid - (from - 1)) <= text.ends[mid]
  BY <1>1 DEF IsText
<1>4. text.ends[mid] + (to - mid) <= text.ends[to] /\ text.ends[to] <= text.ends[mid] + 2 * (to - mid)
  BY DEF IsText
<1>5. /\ Units(Piece(from, mid)) = text.ends[mid] - text.ends[from - 1]
      /\ Units(Piece(from, to)) = text.ends[to] - text.ends[from - 1]
      /\ Units(Piece(mid + 1, to)) = text.ends[to] - text.ends[mid]
  BY <1>1 DEF Units, Piece
<1>6. text.length \in Nat
  BY DEF IsText
<1> QED BY <1>1, <1>2, <1>3, <1>4, <1>5, <1>6

(* The types, with what they say of the text.                               *)
LEMMA TypeFacts ==
    ASSUME SplitInv
    PROVE  /\ IsText(text) /\ text.length \in Nat
           /\ at \in 0 .. text.length /\ lineEnd \in 0 .. text.length
           /\ IsPiece(cur) /\ IsPiece(buf) /\ OutOK /\ done \in BOOLEAN
           /\ curUnits \in 0 .. Limit /\ bufUnits \in 0 .. Limit
           /\ Limit \in Nat /\ Limit >= 2
<1>1. IsText(text)
  BY DEF SplitInv, TypeOK
<1>2. text.length \in Nat
  BY <1>1 DEF IsText
<1> QED BY <1>1, <1>2, LimitAssumption DEF SplitInv, TypeOK

(* No characters, no units.                                                 *)
LEMMA NoUnits ==
    ASSUME IsText(text), NEW i \in 0 .. text.length
    PROVE  Units(Piece(i + 1, i)) = 0
<1>1. text.length \in Nat /\ text.ends[i] \in Nat
  BY DEF IsText
<1>2. (i + 1) - 1 = i
  BY <1>1
<1> QED BY <1>1, <1>2 DEF Units, Piece

(* A line has one end: the next break after a newline is where split_inclusive
   ends the line.                                                           *)
LEMMA LineEndsOnce ==
    ASSUME IsText(text), at \in text.newlines, NEW to, IsLine(to), NEW j \in NextBreak(at)
    PROVE  j = to
<1>1. text.length \in Nat /\ at \in Nat
  <2>1. text.length \in Nat /\ at \in 1 .. text.length
    BY DEF IsText
  <2> QED BY <2>1
<1>2. /\ to \in at + 1 .. text.length
      /\ to \in text.newlines \/ to = text.length
      /\ \A k \in at + 1 .. to - 1 : k \notin text.newlines
  BY DEF IsLine
<1>3. /\ j \in at + 1 .. text.length
      /\ j \in text.newlines \/ j = text.length
      /\ \A k \in at + 1 .. j - 1 : k \notin text.newlines
  BY DEF NextBreak
<1>4. to \in Nat /\ j \in Nat /\ to <= text.length /\ j <= text.length
  BY <1>1, <1>2, <1>3
<1>5. ASSUME to < j PROVE FALSE
  <2>1. to \in at + 1 .. j - 1
    BY <1>1, <1>2, <1>4, <1>5
  <2>2. to # text.length
    BY <1>1, <1>4, <1>5
  <2> QED BY <2>1, <2>2, <1>2, <1>3
<1>6. ASSUME j < to PROVE FALSE
  <2>1. j \in at + 1 .. to - 1
    BY <1>1, <1>3, <1>4, <1>6
  <2>2. j # text.length
    BY <1>1, <1>4, <1>6
  <2> QED BY <2>1, <2>2, <1>2, <1>3
<1> QED BY <1>4, <1>5, <1>6

(* What a segment must satisfy when it goes out; then the segments are in   *)
(* order, sendable, and broken only where they must be.                     *)
Ready(piece) ==
    /\ IsPiece(piece)
    /\ piece.from = Reached + 1
    /\ Units(piece) <= Limit
    /\ IsEmpty(piece) => text.length = 0
    /\ piece.to < text.length =>
          \A to \in NextBreak(piece.to) : text.ends[to] - text.ends[piece.from - 1] > Limit

LEMMA Emitting ==
    ASSUME SplitInv, ~done, NEW piece, Ready(piece), out' = Append(out, piece), text' = text,
           done' => piece.to = text.length
    PROVE  /\ OutOK'
           /\ Reached' = piece.to
           /\ SegmentsAreTheText' /\ SegmentsAreSendable' /\ NoNeedlessBreak'
<1>0. /\ out \in Seq([from : Nat, to : Nat]) /\ piece \in [from : Nat, to : Nat]
      /\ IsText(text)
  <2>1. IsText(text) /\ text.length \in Nat /\ out \in Seq([from : Nat, to : Nat])
    BY DEF SplitInv, TypeOK, OutOK, IsText
  <2>2. piece = [from |-> piece.from, to |-> piece.to] /\ piece.from \in Nat /\ piece.to \in Nat
    BY <2>1 DEF Ready, IsPiece, Piece
  <2> QED BY <2>1, <2>2
<1>1. /\ out' \in Seq([from : Nat, to : Nat]) /\ Len(out') = Len(out) + 1 /\ Len(out) \in Nat
      /\ out'[Len(out')] = piece
      /\ \A i \in DOMAIN out : out'[i] = out[i]
      /\ DOMAIN out' = 1 .. Len(out) + 1 /\ DOMAIN out = 1 .. Len(out)
      /\ out' # <<>>
  BY <1>0
<1>2. \A i \in DOMAIN out' : i \in DOMAIN out \/ (i = Len(out) + 1 /\ out'[i] = piece)
  BY <1>1
<1>3. OutOK'
  BY <1>1, <1>2 DEF SplitInv, TypeOK, OutOK, Ready, IsPiece
<1>4. Reached' = piece.to
  BY <1>1 DEF Reached
<1>5. \A i \in DOMAIN out' : out'[i].from = IF i = 1 THEN 1 ELSE out'[i - 1].to + 1
  <2> SUFFICES ASSUME NEW i \in DOMAIN out'
               PROVE  out'[i].from = IF i = 1 THEN 1 ELSE out'[i - 1].to + 1
    OBVIOUS
  <2>1. CASE i \in DOMAIN out
    <3>1. out'[i] = out[i] /\ (i # 1 => i - 1 \in DOMAIN out)
      BY <1>1, <2>1
    <3> QED BY <3>1, <1>1, <2>1 DEF SplitInv, SegmentsAreTheText
  <2>2. CASE i = Len(out) + 1 /\ i # 1
    <3>1. i - 1 = Len(out) /\ i - 1 \in DOMAIN out /\ out # <<>>
      BY <1>1, <2>2
    <3> QED BY <3>1, <2>2, <1>1 DEF Ready, Reached
  <2>3. CASE i = Len(out) + 1 /\ i = 1
    <3>1. out = <<>>
      BY <1>0, <1>1, <2>3
    <3> QED BY <3>1, <2>3, <1>1 DEF Ready, Reached
  <2> QED BY <1>2, <2>1, <2>2, <2>3
<1>6. SegmentsAreTheText'
  BY <1>1, <1>5 DEF SegmentsAreTheText
<1>7. SegmentsAreSendable'
  BY <1>1, <1>2 DEF SegmentsAreSendable, Ready, SplitInv, Units, IsEmpty
<1>8. NoNeedlessBreak'
  BY <1>1, <1>2 DEF NoNeedlessBreak, Ready, SplitInv, NextBreak
<1> QED BY <1>1, <1>3, <1>4, <1>6, <1>7, <1>8

(* No segment yet, at the first character.                                  *)
LEMMA InitInv == Init => SplitInv
<1> SUFFICES ASSUME Init PROVE SplitInv
  OBVIOUS
<1>1. IsText(text)
  BY TextsAssumption DEF Init
<1>2. TypeOK
  <2>1. text.length \in Nat
    BY <1>1 DEF IsText
  <2>2. IsPiece(cur) /\ IsPiece(buf)
    BY <2>1 DEF Init, IsPiece, Piece, EmptyAt
  <2>3. OutOK
    BY DEF Init, OutOK
  <2>4. at \in 0 .. text.length /\ lineEnd \in 0 .. text.length /\ curUnits \in 0 .. Limit
        /\ bufUnits \in 0 .. Limit
    <3>1. 0 \in 0 .. text.length /\ 0 \in 0 .. Limit
      BY <2>1, LimitAssumption
    <3> QED BY <3>1 DEF Init
  <2>5. done \in BOOLEAN
    BY DEF Init
  <2> QED BY <1>1, <2>2, <2>3, <2>4, <2>5 DEF TypeOK
<1>3. AtLineEnd
  BY <1>1 DEF AtLineEnd, Init, EmptyAt, Piece, Reached, Units, IsText
<1>4. SegmentsAreTheText /\ SegmentsAreSendable /\ NoNeedlessBreak
  BY DEF Init, SegmentsAreTheText, SegmentsAreSendable, NoNeedlessBreak
<1> QED BY <1>2, <1>3, <1>4 DEF SplitInv, Init

(* What holds when cur goes out before the line that ends at to.            *)
LEMMA CurIsReady ==
    ASSUME SplitInv, BetweenLines, NEW to, IsLine(to), ~IsEmpty(cur),
           text.ends[to] - text.ends[cur.from - 1] > Limit
    PROVE  Ready(cur)
<1>1. /\ IsText(text) /\ AtLineEnd /\ IsPiece(cur) /\ curUnits <= Limit
      /\ at \in 0 .. text.length /\ to \in at + 1 .. text.length /\ text.length \in Nat
  <2>1. AtLineEnd
    BY DEF SplitInv, BetweenLines
  <2> QED BY TypeFacts, <2>1 DEF IsLine
<1>2. cur.to = at /\ cur.from \in 1 .. at /\ at \in text.newlines
  BY <1>1 DEF AtLineEnd, IsEmpty, IsPiece, Piece
<1>3. \A j \in NextBreak(at) : j = to
  BY <1>1, <1>2, LineEndsOnce
<1> QED BY <1>1, <1>2, <1>3 DEF Ready, AtLineEnd

LEMMA LongLineStep ==
    ASSUME SplitInv, NEW to \in 1 .. text.length, LongLine(to)
    PROVE  SplitInv'
<1>1. /\ IsText(text) /\ AtLineEnd /\ IsPiece(cur) /\ BetweenLines /\ IsLine(to) /\ text.length \in Nat
      /\ at \in 0 .. text.length /\ to \in at + 1 .. text.length /\ Limit \in Nat
  BY LimitAssumption DEF SplitInv, LongLine, BetweenLines, TypeOK, IsLine, IsText
<1>2. Units(Piece(at + 1, to)) > Limit /\ text' = text /\ at' = at /\ lineEnd' = to /\ done' = done
  BY DEF LongLine, Line
<1>3. buf' = Piece(at + 1, at) /\ bufUnits' = 0 /\ curUnits' = curUnits
  BY DEF LongLine, EmptyAt
<1>4. Units(Piece(at + 1, at)) = 0
  BY <1>1, NoUnits
<1>5. /\ OutOK'
      /\ Reached' = at /\ SegmentsAreTheText' /\ SegmentsAreSendable' /\ NoNeedlessBreak'
      /\ IsPiece(cur)' /\ IsEmpty(cur)'
  <2>1. CASE IsEmpty(cur)
    <3>1. Reached = at
      BY <1>1, <2>1 DEF AtLineEnd, IsEmpty, IsPiece, Piece, Reached, SplitInv, TypeOK, OutOK
    <3>2. cur' = cur /\ out' = out
      BY <2>1 DEF LongLine
    <3> QED BY <3>1, <3>2, <2>1, <1>2 DEF SplitInv, TypeOK, OutOK, Reached, SegmentsAreTheText,
             SegmentsAreSendable, NoNeedlessBreak, NextBreak, Units, IsEmpty, IsPiece
  <2>2. CASE ~IsEmpty(cur)
    <3>1. out' = Append(out, cur) /\ cur' = Piece(at + 1, at)
      BY <2>2 DEF LongLine, EmptyAt
    <3>2. cur = Piece(cur.from, at) /\ cur.from \in 1 .. at /\ cur.to = at
      BY <1>1, <2>2 DEF AtLineEnd, IsEmpty, IsPiece, Piece
    <3>3. Units(Piece(cur.from, to)) = Units(Piece(cur.from, at)) + Units(Piece(at + 1, to))
          /\ Units(Piece(cur.from, at)) \in Nat /\ Units(Piece(at + 1, to)) \in Nat
      <4>1. cur.from \in 1 .. text.length + 1 /\ to \in 0 .. text.length /\ cur.from <= at + 1 /\ at <= to
        BY <1>1, <3>2
      <4> QED BY <4>1, <1>1, UnitsAddUp
    <3>4. text.ends[to] - text.ends[cur.from - 1] > Limit
      BY <3>3, <1>2, <1>1 DEF Units, Piece
    <3>5. Ready(cur)
      BY <1>1, <2>2, <3>4, CurIsReady
    <3>6. IsPiece(cur)' /\ IsEmpty(cur)'
      BY <3>1, <1>1, <1>2 DEF IsPiece, IsEmpty, Piece
    <3>7. ~done /\ ~done'
      BY <1>1, <1>2 DEF BetweenLines
    <3> QED BY <3>1, <3>2, <3>5, <3>6, <3>7, <1>2, Emitting
  <2> QED BY <2>1, <2>2
<1>6. TypeOK'
  <2>1. IsPiece(buf)'
    BY <1>1, <1>2, <1>3 DEF IsPiece, Piece
  <2>2. lineEnd' \in 0 .. text.length /\ bufUnits' \in 0 .. Limit
    BY <1>1, <1>2, <1>3
  <2> QED BY TypeFacts, <1>2, <1>3, <1>5, <2>1, <2>2 DEF TypeOK
<1>7. InLine'
  <2>1. \A i \in at + 1 .. to - 1 : i \notin text.newlines
    BY <1>1 DEF IsLine
  <2> QED BY <1>1, <1>2, <1>3, <1>4, <1>5, <2>1 DEF InLine, IsEmpty, Piece, IsLine, Units
<1> QED BY <1>1, <1>2, <1>5, <1>6, <1>7 DEF SplitInv

LEMMA NextLineStep ==
    ASSUME SplitInv, NEW to \in 1 .. text.length, NextLine(to)
    PROVE  SplitInv'
<1>1. /\ IsText(text) /\ AtLineEnd /\ IsPiece(cur) /\ BetweenLines /\ IsLine(to) /\ text.length \in Nat
      /\ at \in 0 .. text.length /\ to \in at + 1 .. text.length /\ Limit \in Nat
      /\ curUnits \in 0 .. Limit
  BY LimitAssumption DEF SplitInv, NextLine, BetweenLines, TypeOK, IsLine, IsText
<1>2. /\ text' = text /\ at' = to /\ lineEnd' = lineEnd /\ done' = done
      /\ buf' = buf /\ bufUnits' = bufUnits /\ lineEnd = 0 /\ ~done
  BY DEF NextLine, BetweenLines
<1> DEFINE units == Units(Piece(at + 1, to))
<1>3. units <= Limit
  BY DEF NextLine, Line
<1>4. /\ cur = Piece(cur.from, at) /\ cur.from \in 1 .. at + 1 /\ cur.to = at
      /\ cur.from = Reached + 1 /\ curUnits = Units(Piece(cur.from, at))
  BY <1>1 DEF AtLineEnd, IsEmpty, IsPiece, Piece
<1>5. Units(Piece(cur.from, to)) = curUnits + units /\ units \in Nat
  <2>1. cur.from \in 1 .. text.length + 1 /\ to \in 0 .. text.length /\ cur.from <= at + 1 /\ at <= to
    BY <1>1, <1>4
  <2> QED BY <2>1, <1>1, <1>4, UnitsAddUp
<1>6. at' = 0 \/ at' \in text.newlines \/ at' = text.length
  BY <1>1, <1>2 DEF IsLine
<1>7. CASE curUnits + units > Limit
  <2>1. out' = Append(out, cur) /\ cur' = Piece(at + 1, to) /\ curUnits' = units
    BY <1>7 DEF NextLine, Line
  <2>2. ~IsEmpty(cur)
    <3>1. curUnits > 0
      BY <1>1, <1>3, <1>5, <1>7
    <3>2. cur.from = at + 1 => curUnits = 0
      BY <1>1, <1>4 DEF Units, Piece, IsText
    <3> QED BY <1>1, <1>4, <3>1, <3>2 DEF IsEmpty
  <2>3. text.ends[to] - text.ends[cur.from - 1] > Limit
    BY <1>5, <1>7 DEF Units, Piece
  <2>4. Ready(cur)
    BY <1>1, <2>2, <2>3, CurIsReady
  <2>5. /\ OutOK'
        /\ Reached' = at /\ SegmentsAreTheText' /\ SegmentsAreSendable' /\ NoNeedlessBreak'
    BY <2>1, <2>4, <1>2, <1>4, Emitting
  <2>6. TypeOK'
    <3>1. IsPiece(cur)'
      BY <1>1, <1>2, <2>1 DEF IsPiece, Piece
    <3>2. IsPiece(buf)'
      BY TypeFacts, <1>2 DEF IsPiece
    <3>3. at' \in 0 .. text.length /\ curUnits' \in 0 .. Limit
      BY <1>1, <1>2, <1>3, <1>5, <2>1
    <3> QED BY TypeFacts, <1>2, <2>5, <3>1, <3>2, <3>3 DEF TypeOK
  <2>7. AtLineEnd'
    BY <1>1, <1>2, <1>6, <2>1, <2>5 DEF AtLineEnd, Units, Piece, IsEmpty
  <2> QED BY <1>2, <2>5, <2>6, <2>7 DEF SplitInv
<1>8. CASE ~(curUnits + units > Limit)
  <2>1. out' = out /\ cur' = Piece(cur.from, to) /\ curUnits' = curUnits + units
    <3>1. out' = out /\ cur' = Push(cur, to) /\ curUnits' = curUnits + units
      BY <1>8 DEF NextLine, Line
    <3>2. Push(cur, to) = Piece(cur.from, to)
      BY <1>4 DEF Push, Piece
    <3> QED BY <3>1, <3>2
  <2>2. TypeOK'
    <3>1. curUnits' \in 0 .. Limit
      BY <1>1, <1>5, <1>8, <2>1
    <3>2. IsPiece(cur)'
      BY <1>1, <1>2, <1>4, <2>1 DEF IsPiece, Piece
    <3>3. at' \in 0 .. text.length
      BY <1>1, <1>2
    <3> QED BY <1>2, <2>1, <3>1, <3>2, <3>3 DEF SplitInv, TypeOK, OutOK, IsPiece
  <2>3. AtLineEnd'
    <3>1. Reached' = Reached
      BY <2>1 DEF Reached
    <3>2. curUnits' = Units(cur)'
      BY <1>2, <1>5, <2>1 DEF Units
    <3>3. cur'.from = Reached' + 1 /\ cur'.to = at' /\ ~IsEmpty(cur)'
      BY <1>1, <1>2, <1>4, <2>1, <3>1 DEF IsEmpty, Piece
    <3> QED BY <1>2, <1>6, <3>2, <3>3 DEF AtLineEnd
  <2>4. SegmentsAreTheText' /\ SegmentsAreSendable' /\ NoNeedlessBreak'
    BY <1>2, <2>1 DEF SplitInv, SegmentsAreTheText, SegmentsAreSendable, NoNeedlessBreak,
       NextBreak, Units, IsEmpty
  <2> QED BY <1>2, <2>2, <2>3, <2>4 DEF SplitInv
<1> QED BY <1>7, <1>8

LEMMA CharacterStep ==
    ASSUME SplitInv, Character
    PROVE  SplitInv'
<1>1. /\ IsText(text) /\ InLine /\ IsPiece(buf) /\ ~done /\ text.length \in Nat
      /\ at \in 0 .. text.length /\ at + 1 \in 1 .. lineEnd /\ lineEnd \in 1 .. text.length
      /\ Limit \in Nat /\ Limit >= 2 /\ bufUnits \in 0 .. Limit
  <2>1. ~done /\ at < lineEnd
    BY DEF Character
  <2>2. InLine
    BY <2>1, TypeFacts DEF SplitInv
  <2> QED BY TypeFacts, <2>1, <2>2
<1>2. /\ text' = text /\ at' = at + 1 /\ lineEnd' = lineEnd /\ done' = done
      /\ cur' = cur /\ curUnits' = curUnits
  BY DEF Character
<1> DEFINE w == Units(Piece(at + 1, at + 1))
<1>3. /\ buf = Piece(buf.from, at) /\ buf.from \in 1 .. at + 1 /\ buf.to = at
      /\ buf.from = Reached + 1 /\ bufUnits = Units(Piece(buf.from, at))
  BY <1>1 DEF InLine, IsPiece, Piece
<1>4. Units(Piece(buf.from, at + 1)) = bufUnits + w /\ w \in 1 .. 2
  <2>1. buf.from \in 1 .. text.length + 1 /\ at + 1 \in 0 .. text.length /\ buf.from <= at + 1 /\ at <= at + 1
    BY <1>1, <1>3
  <2>2. (at + 1) - at = 1
    BY <1>1
  <2>3. /\ Units(Piece(buf.from, at + 1)) = Units(Piece(buf.from, at)) + w
        /\ w >= (at + 1) - at /\ w <= 2 * ((at + 1) - at) /\ w \in Nat
    BY <2>1, <1>1, UnitsAddUp
  <2> QED BY <2>2, <2>3, <1>3
<1>5. \A i \in buf.from .. lineEnd - 1 : i \notin text.newlines
  BY <1>1 DEF InLine
<1>6. CASE bufUnits + w > Limit
  <2>1. out' = Append(out, buf) /\ buf' = Piece(at + 1, at + 1) /\ bufUnits' = w
    BY <1>6, <1>2 DEF Character
  <2>2. buf.from <= at /\ ~IsEmpty(buf)
    <3>1. buf.from = at + 1 => bufUnits = 0
      BY <1>1, <1>3 DEF Units, Piece, IsText
    <3> QED BY <1>1, <1>3, <1>4, <1>6, <3>1 DEF IsEmpty
  <2>3. NextBreak(at) = {at + 1}
    <3>1. at \notin text.newlines /\ at + 1 \in 1 .. text.length
      BY <1>1, <1>3, <1>5, <2>2
    <3> QED BY <3>1 DEF NextBreak
  <2>4. text.ends[at + 1] - text.ends[buf.from - 1] > Limit
    BY <1>4, <1>6 DEF Units, Piece
  <2>5. Ready(buf)
    BY <1>1, <1>3, <2>2, <2>3, <2>4 DEF Ready, InLine
  <2>6. /\ OutOK'
        /\ Reached' = at /\ SegmentsAreTheText' /\ SegmentsAreSendable' /\ NoNeedlessBreak'
    BY <2>1, <2>5, <1>1, <1>2, <1>3, Emitting
  <2>7. TypeOK'
    <3>1. bufUnits' \in 0 .. Limit /\ at' \in 0 .. text.length
      BY <1>1, <1>2, <1>4, <2>1
    <3>2. IsPiece(buf)'
      BY <1>1, <1>2, <2>1 DEF IsPiece, Piece
    <3> QED BY <1>2, <2>6, <3>1, <3>2 DEF SplitInv, TypeOK, OutOK, IsPiece
  <2>8. InLine'
    <3>1. bufUnits' = Units(buf)'
      BY <1>2, <2>1 DEF Units
    <3>2. \A i \in at + 1 .. lineEnd - 1 : i \notin text.newlines
      BY <1>1, <1>3, <1>5
    <3>3. buf'.from = at + 1 /\ buf'.to = at + 1 /\ ~IsEmpty(buf)'
      BY <1>1, <2>1 DEF Piece, IsEmpty
    <3>4. IsEmpty(cur)' /\ at' <= lineEnd' /\ (lineEnd \in text.newlines \/ lineEnd = text.length)
      BY <1>1, <1>2 DEF InLine, IsEmpty
    <3> QED BY <1>2, <2>6, <3>1, <3>2, <3>3, <3>4 DEF InLine
  <2> QED BY <1>1, <1>2, <2>6, <2>7, <2>8 DEF SplitInv
<1>7. CASE ~(bufUnits + w > Limit)
  <2>1. out' = out /\ buf' = Piece(buf.from, at + 1) /\ bufUnits' = bufUnits + w
    <3>1. out' = out /\ buf' = Push(buf, at + 1) /\ bufUnits' = bufUnits + w
      BY <1>7, <1>2 DEF Character
    <3>2. Push(buf, at + 1) = Piece(buf.from, at + 1)
      BY <1>3 DEF Push, Piece
    <3> QED BY <3>1, <3>2
  <2>2. TypeOK'
    <3>1. bufUnits' \in 0 .. Limit /\ at' \in 0 .. text.length
      BY <1>1, <1>2, <1>4, <1>7, <2>1
    <3>2. IsPiece(buf)'
      BY <1>1, <1>2, <1>3, <2>1 DEF IsPiece, Piece
    <3> QED BY <1>2, <2>1, <3>1, <3>2 DEF SplitInv, TypeOK, OutOK, IsPiece
  <2>3. InLine'
    <3>1. bufUnits' = Units(buf)' /\ Reached' = Reached
      BY <1>2, <1>4, <2>1 DEF Units, Reached
    <3>2. buf'.from = buf.from /\ buf'.to = at + 1 /\ ~IsEmpty(buf)'
      BY <1>1, <1>3, <2>1 DEF Piece, IsEmpty
    <3>3. IsEmpty(cur)' /\ at' <= lineEnd' /\ (lineEnd \in text.newlines \/ lineEnd = text.length)
      BY <1>1, <1>2 DEF InLine, IsEmpty
    <3> QED BY <1>2, <1>3, <1>5, <3>1, <3>2, <3>3 DEF InLine
  <2>4. SegmentsAreTheText' /\ SegmentsAreSendable' /\ NoNeedlessBreak'
    BY <1>2, <2>1 DEF SplitInv, SegmentsAreTheText, SegmentsAreSendable, NoNeedlessBreak,
       NextBreak, Units, IsEmpty
  <2> QED BY <1>1, <1>2, <2>2, <2>3, <2>4 DEF SplitInv
<1> QED BY <1>6, <1>7

LEMMA EndOfLineStep ==
    ASSUME SplitInv, EndOfLine
    PROVE  SplitInv'
<1>1. /\ InLine /\ at = lineEnd /\ ~done /\ ~IsEmpty(buf)
      /\ text' = text /\ at' = at /\ lineEnd' = 0 /\ done' = done /\ out' = out
      /\ cur' = buf /\ curUnits' = bufUnits /\ buf' = buf /\ bufUnits' = bufUnits
  BY DEF SplitInv, EndOfLine, TypeOK, InLine
<1>2. TypeOK'
  <2>1. OutOK' /\ IsPiece(cur)' /\ IsPiece(buf)'
    BY TypeFacts, <1>1 DEF OutOK, IsPiece
  <2> QED BY TypeFacts, <1>1, <2>1 DEF TypeOK
<1>3. AtLineEnd'
  BY <1>1 DEF AtLineEnd, InLine, Reached, Units, IsEmpty
<1>4. SegmentsAreTheText' /\ SegmentsAreSendable' /\ NoNeedlessBreak'
  BY <1>1 DEF SplitInv, SegmentsAreTheText, SegmentsAreSendable, NoNeedlessBreak,
     NextBreak, Units, IsEmpty
<1> QED BY <1>1, <1>2, <1>3, <1>4 DEF SplitInv

LEMMA FinishStep ==
    ASSUME SplitInv, Finish
    PROVE  SplitInv'
<1>1. /\ IsText(text) /\ AtLineEnd /\ IsPiece(cur) /\ at = text.length /\ ~done /\ text.length \in Nat
      /\ curUnits \in 0 .. Limit
      /\ text' = text /\ at' = at /\ lineEnd' = lineEnd /\ done' = TRUE /\ lineEnd = 0
      /\ cur' = cur /\ curUnits' = curUnits /\ buf' = buf /\ bufUnits' = bufUnits
  BY DEF SplitInv, Finish, BetweenLines, TypeOK, IsText
<1>2. cur.to = text.length /\ cur.from = Reached + 1 /\ (IsEmpty(cur) => text.length = 0)
  BY <1>1 DEF AtLineEnd
<1>3. CASE IsEmpty(cur) /\ out # <<>>
  <2>1. out' = out
    BY <1>3 DEF Finish
  <2>2. out[Len(out)].to = text.length
    <3>1. Reached = text.length
      <4>1. Len(out) \in DOMAIN out /\ Reached = out[Len(out)].to /\ Reached \in 0 .. text.length
        <5>1. out \in Seq([from : Nat, to : Nat]) /\ out # <<>>
          BY <1>3, TypeFacts DEF OutOK
        <5>2. Len(out) \in DOMAIN out
          BY <5>1
        <5>3. IsPiece(out[Len(out)])
          BY <5>2, TypeFacts DEF OutOK
        <5> QED BY <5>1, <5>2, <5>3 DEF Reached, IsPiece
      <4> QED BY <1>1, <1>2, <1>3, <4>1 DEF IsEmpty, IsPiece, Piece
    <3> QED BY <1>3, <3>1 DEF Reached
  <2>3. SegmentsAreTheText' /\ SegmentsAreSendable' /\ NoNeedlessBreak'
    BY <1>1, <2>1, <2>2 DEF SplitInv, SegmentsAreTheText, SegmentsAreSendable, NoNeedlessBreak,
       NextBreak, Units, IsEmpty
  <2>4. TypeOK'
    BY <1>1, <2>1 DEF SplitInv, TypeOK, OutOK, IsPiece
  <2> QED BY <1>1, <2>3, <2>4 DEF SplitInv
<1>4. CASE ~(IsEmpty(cur) /\ out # <<>>)
  <2>1. out' = Append(out, cur)
    BY <1>4 DEF Finish
  <2>2. Ready(cur)
    BY <1>1, <1>2 DEF Ready, AtLineEnd
  <2>3. /\ OutOK'
        /\ SegmentsAreTheText' /\ SegmentsAreSendable' /\ NoNeedlessBreak'
    BY <1>1, <1>2, <2>1, <2>2, Emitting
  <2>4. TypeOK'
    BY <1>1, <2>3 DEF SplitInv, TypeOK, OutOK, IsPiece
  <2> QED BY <1>1, <2>3, <2>4 DEF SplitInv
<1> QED BY <1>3, <1>4

(* The invariant of the splitting loop, for every text and limit.           *)
THEOREM SplitInvariant == Spec => []SplitInv
<1>1. SplitInv /\ UNCHANGED vars => SplitInv'
  BY DEF vars, SplitInv, TypeOK, OutOK, IsPiece, InLine, AtLineEnd, Reached, Units, IsEmpty,
         SegmentsAreTheText, SegmentsAreSendable, NoNeedlessBreak, NextBreak
<1>2. SplitInv /\ [Next]_vars => SplitInv'
  BY <1>1, LongLineStep, NextLineStep, CharacterStep, EndOfLineStep, FinishStep DEF Next, TakeLine
<1> QED BY InitInv, <1>2, PTL DEF Spec

(* split_text loses, repeats and reorders no character of any text.         *)
THEOREM NothingIsLost == Spec => []SegmentsAreTheText
<1>1. SplitInv => SegmentsAreTheText
  BY DEF SplitInv
<1> QED BY <1>1, SplitInvariant, PTL

(* Every segment split_text returns can be sent: it fits the limit, and only *)
(* an empty text gives an empty one.                                        *)
THEOREM SegmentsFit == Spec => []SegmentsAreSendable
<1>1. SplitInv => SegmentsAreSendable
  BY DEF SplitInv
<1> QED BY <1>1, SplitInvariant, PTL

(* split_text prefers newlines, and breaks only where it must.              *)
THEOREM BreaksAreForced == Spec => []NoNeedlessBreak
<1>1. SplitInv => NoNeedlessBreak
  BY DEF SplitInv
<1> QED BY <1>1, SplitInvariant, PTL
=============================================================================
