---------------------------- MODULE Instructions ----------------------------
(***************************************************************************)
(* What one instruction is and computes: vsrc/pipeline/decode/decoder.sv    *)
(* and the operands and results of decode, execute and memory.  One         *)
(* instruction stands for each class the pipeline treats differently; the   *)
(* target of a branch or jump is given as an address, not as an offset.     *)
(***************************************************************************)
EXTENDS Csr

CONSTANT Regs   \* the registers in use, with register 0

ASSUME RegsAssumption == Regs \subseteq Nat /\ 0 \in Regs

CsrOps == {"csrrw", "csrrs"}
Ops == {"nop", "alu", "long", "load", "store", "branch", "jal", "jalr", "ecall",
        "mret", "illegal"} \cup CsrOps

\* The decoder sets no destination for a store, a branch, ecall and mret.
Instr ==
  {ins \in [op : Ops, rd : Regs, rs1 : Regs, rs2 : Regs, imm : Word, csr : Csrs] :
     ins.op \in {"store", "branch", "ecall", "mret"} => ins.rd = 0}

\* What an all-zero register of the pipeline holds.
Nop == [op |-> "nop", rd |-> 0, rs1 |-> 0, rs2 |-> 0, imm |-> 0, csr |-> "none"]

Accesses(ins) == ins.op \in {"load", "store"}

\* What decoding can find wrong; garbage fetched at an odd pc may be found
\* illegal first.
DecodeCause(ins, instr_misalign) ==
  IF ins.op = "illegal" THEN "illegal_instr"
  ELSE IF instr_misalign THEN "instr_misalign"
  ELSE IF ins.op = "ecall" THEN "is_ecall"
  ELSE "none"

AccessCause(ins, addr) ==
  CASE ins.op = "load" /\ ~Aligned(addr)  -> "load_misalign"
    [] ins.op = "store" /\ ~Aligned(addr) -> "store_misalign"
    [] OTHER                              -> "none"

\* The bits of w or of v.
Or(w, v) == LET Bits(i) == IF Bit(w, i) \/ Bit(v, i) THEN 2^i ELSE 0
            IN  (Bits(0) + Bits(1) + Bits(2)) % Words

\* Mutant: a sum that is not cut to a word.
PlusWide(w, v) == w + v

Plus(w, v) == (w + v) % Words

\* What the execute stage computes; of a load or store, the address.
alu(ins, pc, rs1, rs2, csrs) ==
  CASE ins.op = "alu"                    -> Plus(Plus(rs1, rs2), ins.imm)
    [] ins.op = "long"                   -> (rs1 * rs2) % Words
    [] ins.op \in {"load", "store"}      -> Plus(rs1, ins.imm)
    [] ins.op \in {"jal", "jalr"}        -> NextPC(pc)
    [] ins.op = "csrrw"                  -> rs1
    [] ins.op = "csrrs"                  -> Or(rs1, csrs)
    [] OTHER                             -> 0

\* Where a branch or an indirect jump goes on.
pc_address(ins, pc, rs1, rs2) ==
  IF ins.op = "jalr" THEN Plus(rs1, ins.imm)
  ELSE IF rs1 = rs2 THEN ins.imm ELSE NextPC(pc)
=============================================================================
