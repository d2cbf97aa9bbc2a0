---------------------------- MODULE MCSplitText ----------------------------
(* An instance of SplitText for TLC: every text up to a length, of narrow   *)
(* characters, wide ones (two units) and newlines.                          *)
EXTENDS SplitText, FiniteSets

CONSTANT Longest

TextOf(length, wide, newlines) ==
    [length   |-> length,
     ends     |-> [i \in 0 .. length |-> i + Cardinality(wide \cap 1 .. i)],
     newlines |-> newlines]

TextsUpToLongest ==
    UNION {{TextOf(n, {i \in 1 .. n : kind[i] = "wide"}, {i \in 1 .. n : kind[i] = "newline"})
              : kind \in [1 .. n -> {"narrow", "wide", "newline"}]} : n \in 0 .. Longest}
=============================================================================
