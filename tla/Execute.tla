------------------------------ MODULE Execute ------------------------------
(***************************************************************************)
(* The execute stage of vsrc/pipeline: the instruction in register D, the    *)
(* multiplier and the divider it uses, and the stalls and flushes of         *)
(* hazard/hazard.sv that hold or clear the register meanwhile.  The rest of   *)
(* the pipeline is open: any instruction may come, the data cache may stall   *)
(* in any cycle, and a CSR access or an interrupt may flush.                 *)
(***************************************************************************)
EXTENDS Multiplier, Divider, Alu

CONSTANTS Factors,        \* values of rs1 and rs2 for the multiplier
          Dividends, Divisors,
          FLUSH_DIVISION  \* a flush may come while a division is in progress

ASSUME ExecuteAssumption ==
  /\ Factors \cup Dividends \cup Divisors \subseteq Word(W)
  /\ FLUSH_DIVISION \in BOOLEAN

VARIABLES dataD  \* the instruction in E, its operands, and the bit stalled

vars == <<multiplierVars, dividerVars, dataD>>

\* multiplyEn and divideEn of the decoder; "other" is every other instruction.
Ctl == [unit : {"multiply", "divide"}, word : BOOLEAN, rem : BOOLEAN, unsigned : BOOLEAN]
Other == [unit |-> "other", word |-> FALSE, rem |-> FALSE, unsigned |-> FALSE]
Instr(c, x, y) == [ctl |-> c, a |-> x, b |-> y, stalled |-> FALSE]
Instructions ==
  {Instr(c, x, y) : c \in {d \in Ctl : d.unit = "divide"}, x \in Dividends, y \in Divisors}
  \cup
  {Instr(c, x, y) : c \in {d \in Ctl : d.unit = "multiply" /\ ~d.rem /\ ~d.unsigned},
                    x \in Factors, y \in Factors}

Bubble == Instr(Other, 0, 0)

ctl == dataD.ctl
isMultiply == ctl.unit = "multiply"
isDivide == ctl.unit = "divide"
width == IF ctl.word THEN H ELSE W

\* The magnitudes the divider works on.
Negative(x) == ~ctl.unsigned /\ Bit(x, width - 1)
Magnitude(x) ==
  LET low == x % 2^width IN IF Negative(x) THEN Negate(low, width) ELSE low
ca == Magnitude(dataD.a)
cb == Magnitude(dataD.b)

\* Signs are put back, and division by zero is answered without the divider.
Resign(x, negative) ==
  LET low == x % 2^width
      val == IF negative THEN Negate(low, width) ELSE low
  IN  IF ctl.word THEN Sext(val) ELSE val
cd ==
  IF cb = 0
  THEN [hi |-> IF ctl.word THEN Sext(dataD.a % 2^H) ELSE dataD.a, lo |-> 2^W - 1]
  ELSE LET c == cd_tmp(ctl.word)
       IN  [hi |-> Resign(c.hi, Negative(dataD.a)),
            lo |-> Resign(c.lo, Negative(dataD.a) # Negative(dataD.b))]

ans_m == IF ctl.word THEN Sext(cm % 2^H) ELSE cm
ans_d == IF ctl.rem THEN cd.hi ELSE cd.lo

\* Mutants: the units do not look at stalled and start again when held.
multiply_again == isMultiply
divide_again == isDivide /\ cb # 0

multiply_valid == isMultiply /\ ~dataD.stalled
divide_valid == isDivide /\ ~dataD.stalled /\ cb # 0

done_m == done_multiply(multiply_valid)
done_d == done_divide(divide_valid, ctl.word)

mul_ok == isMultiply /\ done_m
div_ok == isDivide /\ done_d
exe_wait == (isMultiply /\ ~done_m) \/ (isDivide /\ ~done_d)

\* dataE_nxt.alu of an instruction of the two units.
result == IF mul_ok THEN ans_m ELSE ans_d

-----------------------------------------------------------------------------
Init == MultiplierInit /\ DividerInit /\ dataD = Bubble

\* The registers of the two units, which no stall and no flush stops.
Units ==
  /\ MultiplierEdge(multiply_valid, dataD.a, dataD.b)
  /\ DividerEdge(divide_valid, ctl.word, ca, cb)

\* DWrite = 11: the instruction stays, marked as started.
Keep(dmem_wait) ==
  /\ dmem_wait \/ exe_wait
  /\ dataD' = [dataD EXCEPT !.stalled = TRUE]

\* The instruction leaves E; the next one comes, or a bubble.
Leave(dmem_wait) ==
  /\ ~(dmem_wait \/ exe_wait)
  /\ dataD' \in Instructions \cup {Bubble}

Edge(dmem_wait) == Units /\ (Keep(dmem_wait) \/ Leave(dmem_wait))

\* csr_flush clears the register whatever the units are doing.
Flush ==
  /\ FLUSH_DIVISION \/ done_d
  /\ dataD' = Bubble
  /\ Units

Next == (\E dmem_wait \in BOOLEAN : Edge(dmem_wait)) \/ Flush

Spec == Init /\ [][Next]_vars

\* The data cache lets a cycle go by again and again.
FairSpec == Spec /\ WF_vars(Edge(FALSE))

-----------------------------------------------------------------------------
TypeOK ==
  /\ MultiplierTypeOK /\ DividerTypeOK
  /\ dataD \in [ctl : Ctl \cup {Other}, a : Word(W), b : Word(W),
                stalled : BOOLEAN]

\* The M extension of RISC-V: quotients are rounded toward zero, division by
\* zero gives -1 and the dividend, and results are cut to the width.
Abs(x) == IF x < 0 THEN -x ELSE x
Value(x) == LET low == x % 2^width IN IF ctl.unsigned THEN low ELSE Signed(low, width)
Quotient(x, y) ==
  IF y = 0 THEN -1
  ELSE IF (x < 0) = (y < 0) THEN Abs(x) \div Abs(y) ELSE -(Abs(x) \div Abs(y))
Remainder(x, y) == IF y = 0 THEN x ELSE x - y * Quotient(x, y)
Expected ==
  LET x == Value(dataD.a)
      y == Value(dataD.b)
      r == (CASE isMultiply -> x * y
              [] isDivide /\ ctl.rem -> Remainder(x, y)
              [] OTHER -> Quotient(x, y)) % 2^width
  IN  IF ctl.word THEN Sext(r) ELSE r

\* In every cycle in which the instruction may leave E, also when it has been
\* held there by the data cache, the result of its unit is what the architecture
\* says.
UnitsRight == mul_ok \/ div_ok => result = Expected

\* The operands of the other instructions are no state, so that all are looked at.
AluRight == dataD.ctl = Other => ComputesRight

\* The remainder is small enough for the shift that drops its top bit.
NoBitLost ==
  dstate = "DOING" /\ isDivide /\ ~Ends(ctl.word) =>
    /\ ctl.word => ~Bit(p32.hi, H - 1)
    /\ ~ctl.word => ~Bit(p.hi, W - 1)

\* A unit that has finished does not start again for an instruction that the
\* data cache holds in E.
DoneStays ==
  [][~exe_wait /\ dataD'.stalled => ~exe_wait']_vars

\* An instruction does not stay in E for ever, however often the cache stalls.
LeavesExecute == dataD.stalled ~> ~dataD.stalled

\* The divider's own contract, divider.sv:15, "c = {a % b, a / b}", of the operands it is given.
DividerContract ==
  isDivide /\ cb # 0 /\ done_d =>
    LET c == [hi |-> ca % cb, lo |-> ca \div cb]
    IN  cd_tmp(ctl.word) = IF ctl.word THEN [hi |-> Sext(c.hi), lo |-> Sext(c.lo)] ELSE c
=============================================================================
