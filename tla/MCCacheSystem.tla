--------------------------- MODULE MCCacheSystem ---------------------------
(* CacheSystem on a small cache: values for TLC.                           *)
EXTENDS CacheSystem

CONSTANTS t1, t2, t3, t4, lo, hi, b0, b1

A(c, t, i, o) == [cached |-> c, tag |-> t, index |-> i, offset |-> o]
W(b) == [l \in Lanes |-> b]

MCInitMem == [a \in Addr |-> ZeroWord]
AllWords == {W(b0), W(b1)}
OneWord == {W(b1)}

\* One set: three lines compete for its two ways.
OneSet == {A(TRUE, t1, 0, 0), A(TRUE, t2, 0, 1), A(TRUE, t3, 0, 0)}

\* Two sets: the three lines compete in the second one, an uncached word is
\* in the first.
TwoSets ==
  {A(TRUE, t1, 1, 0), A(TRUE, t2, 1, 1), A(TRUE, t3, 1, 0), A(FALSE, t4, 0, 1)}

\* An uncached word whose low 31 address bits are those of a cached word.
Alias == {A(TRUE, t1, 0, 0), A(TRUE, t2, 0, 0), A(FALSE, t1, 0, 0)}
=============================================================================
