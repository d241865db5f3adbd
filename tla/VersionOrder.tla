---------------------------- MODULE VersionOrder ----------------------------
(***************************************************************************)
(* versionLess and lastVersion: which of several paths is that of the      *)
(* latest version.  A path is a sequence of characters, a character its    *)
(* place in the order: digits are 0..9, what comes before them (-, ., /)   *)
(* is negative, letters are above.                                         *)
(***************************************************************************)
EXTENDS Integers, Sequences, FiniteSetsExt

Digit(c) == c \in 0..9

\* The end of the digits that begin at i, and what they are worth.  (A number of 64
\* bits: longer ones are out of the model.)
RunEnd(s, i) ==
    LET stops == {j \in i..Len(s) : ~Digit(s[j])}
    IN IF stops = {} THEN Len(s) + 1 ELSE Min(stops)

Value(s, i) ==
    LET after[j \in i..RunEnd(s, i)] == IF j = i THEN 0 ELSE 10 * after[j - 1] + s[j - 1]
    IN after[RunEnd(s, i)]

\* The loop, from the places i and j of the two paths on.
VersionLess(a, b) ==
    LET less[p \in (1..Len(a) + 1) \X (1..Len(b) + 1)] ==
          LET i == p[1]
              j == p[2]
          IN IF i > Len(a) \/ j > Len(b) THEN Len(a) - i < Len(b) - j
             ELSE IF Digit(a[i]) /\ Digit(b[j])
                  THEN IF Value(a, i) # Value(b, j) THEN Value(a, i) < Value(b, j)
                       ELSE less[<<RunEnd(a, i), RunEnd(b, j)>>]
             ELSE IF a[i] # b[j] THEN a[i] < b[j]
             ELSE less[<<i + 1, j + 1>>]
    IN less[<<1, 1>>]

\* sort.Slice puts it last; of two that are worth the same it may be either.
LastVersion(paths) ==
    CHOOSE p \in paths : \A q \in paths : ~VersionLess(p, q)

-----------------------------------------------------------------------------
(* What it should be, sort -V (runners.go:216): numbers and characters in  *)
(* the order of the words of a dictionary.                                 *)

Numbered(s) == {i \in DOMAIN s : Digit(s[i]) /\ (i > 1 => ~Digit(s[i - 1]))}
Starts(s) == Numbered(s) \cup {i \in DOMAIN s : ~Digit(s[i])}

\* A word: a number counts as a digit against a character.
Word(s, i) == IF i \in Numbered(s) THEN <<0, Value(s, i)>> ELSE <<s[i], 0>>
WordsAt(s) == {<<Cardinality({j \in Starts(s) : j < i}), Word(s, i)>> : i \in Starts(s)}

Before(v, w) == IF v[1] = w[1] THEN v[2] < w[2] ELSE v[1] < w[1]

\* They agree up to the word n, where a has none or a lesser one.
Earlier(a, b) ==
    \E n \in 0..Len(b) :
        /\ {w \in WordsAt(a) : w[1] < n} = {w \in WordsAt(b) : w[1] < n}
        /\ \E w \in WordsAt(b) : /\ w[1] = n
                               /\ \A v \in WordsAt(a) : v[1] = n => Before(v[2], w[2])

\* A strict weak order: sort.Slice answers nothing sensible otherwise.
StrictWeakOrder(S) ==
    LET Less == [p \in S \X S |-> VersionLess(p[1], p[2])]
        Alike(a, b) == ~Less[<<a, b>>] /\ ~Less[<<b, a>>]
    IN \A a, b, c \in S :
          /\ Less[<<a, b>>] => ~Less[<<b, a>>]
          /\ Less[<<a, b>>] /\ Less[<<b, c>>] => Less[<<a, c>>]
          /\ Alike(a, b) /\ Alike(b, c) => Alike(a, c)
=============================================================================
