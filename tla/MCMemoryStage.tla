--------------------------- MODULE MCMemoryStage ---------------------------
(***************************************************************************)
(* Two words of eight bytes.  Bytes of memory are positive at the start,    *)
(* those stored are negative, and all of them differ.                       *)
(***************************************************************************)
EXTENDS MemoryStage

MCStoreData == {[l \in Lane |-> 200 + l]}
MCInitMem == [w \in 0..(WORDS - 1) |-> [l \in Lane |-> 16 * w + l + 1]]
=============================================================================
