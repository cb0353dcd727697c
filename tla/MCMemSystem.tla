---------------------------- MODULE MCMemSystem ----------------------------
(* MemSystem on small caches: values for TLC.                              *)
EXTENDS MemSystem

CONSTANTS d1, d2, c1, c2, u1, lo, b0, b1, b2

A(c, t, o) == [cached |-> c, tag |-> t, index |-> 0, offset |-> o]
W(b) == [l \in Lanes |-> b]

\* What is fetched from the two code lines is not the same, nor that beside it.
MCInitMem ==
  [a \in Addr |->
     CASE a.tag = c1 /\ a.offset # 0 -> W(b1)
       [] a.tag = c2 /\ a.offset = 0 -> W(b2)
       [] OTHER -> W(b0)]

\* Two data lines and two code lines compete for the one line of each cache.
Data == {A(TRUE, d1, 0), A(TRUE, d2, 1)}
DataAndDevice == {A(TRUE, d1, 0), A(FALSE, u1, 0)}
FetchOf(a) == [valid |-> TRUE, addr |-> a, high |-> FALSE]
Code == {FetchOf(A(TRUE, c1, 1)), FetchOf(A(TRUE, c2, 0))}
Stored == {W(b1)}
Low == {lo}
=============================================================================
