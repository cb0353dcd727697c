----------------------------- MODULE Registers -----------------------------
(***************************************************************************)
(* Machine words of vsrc/include/common.sv as numbers.  The code's u64, u32 *)
(* and 16-bit parts keep their proportions: a register is W = 4*Q bits, its *)
(* low half H = 2*Q bits, and Q is 16 in the code.                          *)
(***************************************************************************)
EXTENDS Integers

CONSTANT Q

ASSUME WidthAssumption == Q \in Nat \ {0}

H == 2 * Q
W == 4 * Q

Word(w) == 0 .. 2^w - 1

\* Bits i .. i+w-1 of x, and bit i.
Bits(x, i, w) == (x \div 2^i) % 2^w
Bit(x, i) == Bits(x, i, 1) = 1

\* Unary minus of a w-bit word, its value as a signed number, and the
\* sign-extension of a half register.
Negate(x, w) == (2^w - x) % 2^w
Signed(x, w) == IF Bit(x, w - 1) THEN x - 2^w ELSE x
Sext(x) == Signed(x, H) % 2^W
=============================================================================
