---------------------------- MODULE MCHarnessBus ----------------------------
(***************************************************************************)
(* Two words of memory in one line of the reference model, every byte of    *)
(* which is different; accesses of all widths that overlap, one misaligned. *)
(* A store with a strobe has all strobes of half a word, as the tests   *)
(* give it, one of four with holes in both halves, or the upper half.        *)
(***************************************************************************)
EXTENDS HarnessBus

A(addr, width) == [addr |-> addr, width |-> width]
MCAccesses == {A(0, 8), A(4, 4), A(6, 2), A(9, 1), A(2, 4)}
Raw(addr, lanes) == [addr |-> addr, strobe |-> lanes]
MCRawStores ==
  {Raw(0, lanes) : lanes \in SUBSET (0..3)}
    \cup {Raw(0, {4, 6}), Raw(0, {1, 3, 5}), Raw(0, {0, 2, 5, 7}), Raw(0, {2, 7})}
    \cup {Raw(12, 0..3)}
MCMem == [i \in 0..1 |-> [k \in Lane |-> 64 + 8 * i + k]]
MCDirt == [k \in Lane |-> 96 + k]
=============================================================================
