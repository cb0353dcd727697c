------------------------------- MODULE LoadOp -------------------------------
(***************************************************************************)
(* class LoadOp of verilate/include/bus.h: where the bytes of an access of  *)
(* 1, 2, 4 or 8 bytes lie on the 64-bit data bus.  A word is a function     *)
(* from byte lanes to bytes, lane 0 the lowest; an enumerator SIZEn_SHTm is *)
(* the record of n and of the shift m in bytes.                             *)
(***************************************************************************)
EXTENDS Integers

Lane == 0..7
Width == {1, 2, 4, 8}
Zero == [k \in Lane |-> 0]

DISCARD == [size |-> 0, shift |-> 0]
SIZE8_SHT0 == [size |-> 8, shift |-> 0]

\* The operation of an access is read off the low three bits of its address.
parse(width, addr) == [size |-> width, shift |-> (addr % 8) - (addr % width)]

strobe(op) == op.shift .. (op.shift + op.size - 1)

\* Mutants of mask and apply: the low lanes; data left where it is.
LowMask(op) == 0 .. (op.size - 1)
ApplyInPlace(op, data) == data

\* The mask of a response, as the set of the lanes whose bits are ones.
mask(op) == op.shift .. (op.shift + op.size - 1)

place(op, data) == [k \in Lane |-> IF k < op.shift THEN 0 ELSE data[k - op.shift]]

apply(op, data) ==
  [k \in Lane |-> IF op = DISCARD \/ k + op.shift > 7 THEN 0 ELSE data[k + op.shift]]

\* Only as many bytes of *dest are written as the access has.
apply_to(op, data, dest) == [k \in Lane |-> IF k < op.size THEN apply(op, data)[k] ELSE dest[k]]

\* A value of a type of that width, converted to a word.
Truncate(width, data) == [k \in Lane |-> IF k < width THEN data[k] ELSE 0]
=============================================================================
