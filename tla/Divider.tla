------------------------------ MODULE Divider ------------------------------
(***************************************************************************)
(* vsrc/pipeline/execute/divider.sv: restoring division, one quotient bit a *)
(* cycle, of a register (p) and of its low half (p32) at the same time.     *)
(* Both operands are read live in every cycle; only the dividend is copied, *)
(* at the start.  The one-hot register count is modelled by the number of   *)
(* shifts that empty it, so DIV_DELAY is W + 1.                             *)
(***************************************************************************)
EXTENDS Registers

VARIABLES dstate,  \* "INIT" or "DOING"
          count,
          p, p32   \* [hi, lo]: remainder, and dividend turning into quotient

dividerVars == <<dstate, count, p, p32>>

DIV_DELAY == W + 1

\* Mutant: a remainder equal to the divisor is not reduced.
ShiftSubtractStrict(x, b, w) ==
  LET hi == (2 * x.hi + x.lo \div 2^(w - 1)) % 2^w
      lo == (2 * x.lo) % 2^w
  IN  IF hi > b THEN [hi |-> hi - b, lo |-> lo + 1] ELSE [hi |-> hi, lo |-> lo]

\* One step on a pair of w-bit words, of which the shift drops the top bit.
ShiftSubtract(x, b, w) ==
  LET hi == (2 * x.hi + x.lo \div 2^(w - 1)) % 2^w
      lo == (2 * x.lo) % 2^w
  IN  IF hi >= b THEN [hi |-> hi - b, lo |-> lo + 1] ELSE [hi |-> hi, lo |-> lo]

\* Mutant: the count runs to zero before the end is seen.
EndsLate(wordEn) == dstate = "DOING" /\ count = 0

\* The cycle in which a division ends: no step is made in it.
Ends(wordEn) == dstate = "DOING" /\ (count = 1 \/ (wordEn /\ count <= H + 1))

done_divide(valid, wordEn) == Ends(wordEn) \/ (dstate = "INIT" /\ ~valid)

\* {a % b, a / b}
cd_tmp(wordEn) == IF wordEn THEN [hi |-> Sext(p32.hi), lo |-> Sext(p32.lo)] ELSE p

DividerInit ==
  /\ dstate = "INIT" /\ count = 0
  /\ p = [hi |-> 0, lo |-> 0] /\ p32 = [hi |-> 0, lo |-> 0]

\* Mutant: the remainder of the last division stays.
StartDivideDirty(valid, a) ==
  /\ dstate = "INIT" /\ valid
  /\ dstate' = "DOING" /\ count' = DIV_DELAY
  /\ p' = [p EXCEPT !.lo = a]
  /\ p32' = [p32 EXCEPT !.lo = a % 2^H]

StartDivide(valid, a) ==
  /\ dstate = "INIT" /\ valid
  /\ dstate' = "DOING" /\ count' = DIV_DELAY
  /\ p' = [hi |-> 0, lo |-> a]
  /\ p32' = [hi |-> 0, lo |-> a % 2^H]

StepDivide(wordEn, b) ==
  /\ dstate = "DOING" /\ ~Ends(wordEn)
  /\ count' = count - 1
  /\ p' = ShiftSubtract(p, b, W)
  /\ p32' = ShiftSubtract(p32, b % 2^H, H)
  /\ UNCHANGED dstate

EndDivide(wordEn) ==
  /\ Ends(wordEn)
  /\ dstate' = "INIT" /\ count' = count - 1
  /\ UNCHANGED <<p, p32>>

NoDivision(valid) ==
  /\ dstate = "INIT" /\ ~valid
  /\ UNCHANGED dividerVars

DividerEdge(valid, wordEn, a, b) ==
  \/ StartDivide(valid, a)
  \/ StepDivide(wordEn, b)
  \/ EndDivide(wordEn)
  \/ NoDivision(valid)

DividerTypeOK ==
  /\ dstate \in {"INIT", "DOING"}
  /\ count \in 0 .. DIV_DELAY
  /\ dstate = "DOING" => count > 0
  /\ p \in [hi : Word(W), lo : Word(W)]
  /\ p32 \in [hi : Word(H), lo : Word(H)]
=============================================================================
