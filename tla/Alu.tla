-------------------------------- MODULE Alu --------------------------------
(***************************************************************************)
(* The instructions that vsrc/pipeline/execute/alu.sv computes in one       *)
(* cycle, with the operation and the operands decoder.sv and execute.sv     *)
(* choose for them, and the comparison of branchcomp.sv.  Shift amounts are *)
(* the low bits of b, so that Q is a power of two.                          *)
(***************************************************************************)
EXTENDS Registers

CONSTANT Operands  \* the values of registers, immediates, pc and CSRs

ASSUME OperandsAssumption == Operands \subseteq Word(W)

\* The word with the bits of f.
Bitwise(f) == CHOOSE x \in Word(W) : \A i \in 0..(W - 1) : Bit(x, i) <=> f[i]

Left(a, s) == (a * 2^s) % 2^W
Right(a, s) == a \div 2^s
\* Mutant: the bits that come in are zeros whatever the sign.
RightZeros(a, s) == Right(a, s)

RightSext(a, s) == Right(a, s) + (IF Bit(a, W - 1) THEN 2^W - 2^(W - s) ELSE 0)
Low(d) == Sext(d % 2^H)

alu(alufunc, a, b) ==
  CASE alufunc = "ADD"          -> (a + b) % 2^W
    [] alufunc = "ADD32"        -> Low(a + b)
    [] alufunc = "SUB"          -> (a - b) % 2^W
    [] alufunc = "SUB32"        -> Low(a - b)
    [] alufunc = "XOR"          -> Bitwise([i \in 0..(W - 1) |-> Bit(a, i) # Bit(b, i)])
    [] alufunc = "OR"           -> Bitwise([i \in 0..(W - 1) |-> Bit(a, i) \/ Bit(b, i)])
    [] alufunc = "AND"          -> Bitwise([i \in 0..(W - 1) |-> Bit(a, i) /\ Bit(b, i)])
    [] alufunc = "AND_REV"      -> Bitwise([i \in 0..(W - 1) |-> Bit(a, i) /\ ~Bit(b, i)])
    [] alufunc = "REV_AND"      -> Bitwise([i \in 0..(W - 1) |-> ~Bit(a, i) /\ Bit(b, i)])
    [] alufunc = "A"            -> a
    [] alufunc = "B"            -> b
    [] alufunc = "LEFT6"        -> Left(a, b % W)
    [] alufunc = "LEFT32"       -> Low(Left(a, b % H))
    [] alufunc = "RIGHT6"       -> Right(a, b % W)
    [] alufunc = "RIGHT6_SEXT"  -> RightSext(a, b % W)
    [] alufunc = "RIGHT32"      -> Low(Right(a % 2^H, b % H))
    [] alufunc = "RIGHT32_SEXT" -> Low(RightSext(Low(a), b % H))
    [] alufunc = "NEXT_PC"      -> (a + 4) % 2^W

\* The decoder's choice; the forms with an immediate have the same operation.
ALUSel ==
  [add  |-> "ADD",   sub  |-> "SUB",    sll  |-> "LEFT6",   srl  |-> "RIGHT6",
   addw |-> "ADD32", subw |-> "SUB32",  sllw |-> "LEFT32",  srlw |-> "RIGHT32",
   sra  |-> "RIGHT6_SEXT",              sraw |-> "RIGHT32_SEXT",
   xor  |-> "XOR",   or   |-> "OR",     and  |-> "AND",     slt  |-> "B",  sltu |-> "B",
   lui  |-> "B",     auipc |-> "ADD",   jal  |-> "NEXT_PC", jalr |-> "NEXT_PC",
   csrrw |-> "A",    csrrs |-> "OR",    csrrc |-> "REV_AND",
   csrrwi |-> "B",   csrrsi |-> "OR",   csrrci |-> "AND_REV"]

SltEn == {"slt", "sltu"}
ASel == {"auipc", "jal", "jalr"}
csra == {"csrrwi", "csrrsi", "csrrci"}
csrb == {"csrrw", "csrrs", "csrrc"}

\* An instruction and whether it has an immediate (BSel).
Immediate == {"add", "sll", "srl", "sra", "addw", "sllw", "srlw", "sraw", "xor", "or",
              "and", "slt", "sltu", "lui", "auipc"} \cup csra
Register == DOMAIN ALUSel \ ({"lui", "auipc"} \cup csra)

BrLT(BrUn, x, y) == IF BrUn THEN x < y ELSE Signed(x, W) < Signed(y, W)

\* The value of an instruction in E; o gives its operands.
alu_result(op, BSel, o) ==
  LET second == IF BSel THEN o.imm ELSE o.rs2
      a == IF op \in csra THEN o.csrs ELSE IF op \in ASel THEN o.pc ELSE o.rs1
      b == IF op \in csrb THEN o.csrs
           ELSE IF op \in SltEn THEN IF BrLT(op = "sltu", o.rs1, second) THEN 1 ELSE 0
           ELSE second
  IN  alu(ALUSel[op], a, b)

\* A branch as EqEn (otherwise LTEn), BrUn and the result it wants.
Branches ==
  [beq |-> <<TRUE, FALSE, TRUE>>,  bne  |-> <<TRUE, FALSE, FALSE>>,
   blt |-> <<FALSE, FALSE, TRUE>>, bge  |-> <<FALSE, FALSE, FALSE>>,
   bltu |-> <<FALSE, TRUE, TRUE>>, bgeu |-> <<FALSE, TRUE, FALSE>>]
Branch(op, x, y) ==
  LET EqEn == Branches[op][1]
      BrUn == Branches[op][2]
      Sel == Branches[op][3]
  IN  (IF EqEn THEN x = y ELSE BrLT(BrUn, x, y)) = Sel

-----------------------------------------------------------------------------
\* The same as the RISC-V manual has it: numbers, and sets of bits.
Ones(x) == {i \in 0..(W - 1) : Bit(x, i)}
Number(x, w) == Signed(x % 2^w, w)

Meaning(op, BSel, o) ==
  LET x == o.rs1
      y == IF BSel THEN o.imm ELSE o.rs2
  IN  CASE op = "add"  -> (Number(x, W) + Number(y, W)) % 2^W
        [] op = "sub"  -> (Number(x, W) - Number(y, W)) % 2^W
        [] op = "addw" -> Sext((Number(x, H) + Number(y, H)) % 2^H)
        [] op = "subw" -> Sext((Number(x, H) - Number(y, H)) % 2^H)
        [] op = "sll"  -> (x * 2^(y % W)) % 2^W
        [] op = "srl"  -> x \div 2^(y % W)
        [] op = "sra"  -> (Number(x, W) \div 2^(y % W)) % 2^W
        [] op = "sllw" -> Sext(((x % 2^H) * 2^(y % H)) % 2^H)
        [] op = "srlw" -> Sext((x % 2^H) \div 2^(y % H))
        [] op = "sraw" -> (Number(x, H) \div 2^(y % H)) % 2^W
        [] op = "slt"  -> IF Number(x, W) < Number(y, W) THEN 1 ELSE 0
        [] op = "sltu" -> IF x < y THEN 1 ELSE 0
        [] op \in {"lui", "csrrwi"} -> y
        [] op = "auipc" -> (o.pc + y) % 2^W
        [] op \in {"jal", "jalr"} -> (o.pc + 4) % 2^W
        [] op = "csrrw" -> x

MeaningBits(op, BSel, o) ==
  LET x == Ones(IF op \in csra \cup csrb THEN o.csrs ELSE o.rs1)
      y == Ones(IF op \in csrb THEN o.rs1 ELSE IF BSel THEN o.imm ELSE o.rs2)
  IN  CASE op = "xor" -> (x \cup y) \ (x \cap y)
        [] op \in {"or", "csrrs", "csrrsi"} -> x \cup y
        [] op = "and" -> x \cap y
        [] op \in {"csrrc", "csrrci"} -> x \ y

Agrees(op, BSel, o) ==
  IF op \in {"xor", "or", "and", "csrrs", "csrrsi", "csrrc", "csrrci"}
  THEN Ones(alu_result(op, BSel, o)) = MeaningBits(op, BSel, o)
  ELSE alu_result(op, BSel, o) = Meaning(op, BSel, o)

\* Every computation gives, of any operands, what the instruction means.
ComputesRight ==
  \A o \in [{"rs1", "rs2", "imm", "pc", "csrs"} -> Operands] :
    /\ \A op \in Register : Agrees(op, FALSE, o)
    /\ \A op \in Immediate : Agrees(op, TRUE, o)
    /\ LET x == o.rs1
           y == o.rs2
       IN  /\ Branch("beq", x, y) = (x = y) /\ Branch("bne", x, y) = (x # y)
           /\ Branch("blt", x, y) = (Number(x, W) < Number(y, W))
           /\ Branch("bge", x, y) = (Number(x, W) >= Number(y, W))
           /\ Branch("bltu", x, y) = (x < y) /\ Branch("bgeu", x, y) = (x >= y)
=============================================================================
