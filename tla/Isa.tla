-------------------------------- MODULE Isa --------------------------------
(***************************************************************************)
(* The machine the pipeline stands for: one instruction after the other,    *)
(* each whole before the next.  It is what a commit reported through the    *)
(* Difftest ports of vsrc/pipeline/core.sv is compared with.                *)
(***************************************************************************)
EXTENDS Instructions

VARIABLES prog,     \* the code, never written
          pc, regs, mem, csr,
          instret   \* the number of commits reported, modulo 2

isaVars == <<prog, pc, regs, mem, csr, instret>>

ins == prog[pc]
result == alu(ins, pc, regs[ins.rs1], regs[ins.rs2], csr_rd(csr, ins.csr))

SetReg(r, w) == regs' = IF r = 0 THEN regs ELSE [regs EXCEPT ![r] = w]

Reported == instret' = 1 - instret

\* A trap: nothing but the CSRs and the pc changes.
Exception(cause) ==
  /\ csr' = Trap(csr, pc, cause)
  /\ pc' = csr.mtvec
  /\ UNCHANGED <<regs, mem>>

\* An instruction at an odd address is not fetched, and not reported.
Misfetch ==
  /\ ~Aligned(pc)
  /\ \E cause \in {"illegal_instr", "instr_misalign"} : Exception(cause)
  /\ UNCHANGED instret

Fault ==
  /\ Aligned(pc)
  /\ LET decode == DecodeCause(ins, FALSE)
         access == AccessCause(ins, result)
     IN  \/ decode # "none" /\ Exception(decode)
         \/ decode = "none" /\ access # "none" /\ Exception(access)
  /\ Reported

Legal == Aligned(pc) /\ DecodeCause(ins, FALSE) = "none" /\ AccessCause(ins, result) = "none"

Compute ==
  /\ Legal /\ ins.op \in {"nop", "alu", "long"}
  /\ SetReg(ins.rd, result)
  /\ pc' = NextPC(pc)
  /\ UNCHANGED <<mem, csr>> /\ Reported

Load ==
  /\ Legal /\ ins.op = "load"
  /\ SetReg(ins.rd, mem[result])
  /\ pc' = NextPC(pc)
  /\ UNCHANGED <<mem, csr>> /\ Reported

Store ==
  /\ Legal /\ ins.op = "store"
  /\ mem' = [mem EXCEPT ![result] = regs[ins.rs2]]
  /\ pc' = NextPC(pc)
  /\ UNCHANGED <<regs, csr>> /\ Reported

Jump ==
  /\ Legal /\ ins.op \in {"branch", "jal", "jalr"}
  /\ SetReg(ins.rd, result)
  /\ pc' = IF ins.op = "jal" THEN ins.imm
           ELSE pc_address(ins, pc, regs[ins.rs1], regs[ins.rs2])
  /\ UNCHANGED <<mem, csr>> /\ Reported

AccessCsr ==
  /\ Legal /\ ins.op \in CsrOps
  /\ SetReg(ins.rd, csr_rd(csr, ins.csr))
  /\ csr' = CsrWrite(csr, ins.csr, result)
  /\ pc' = NextPC(pc)
  /\ UNCHANGED mem /\ Reported

ReturnFromTrap ==
  /\ Legal /\ ins.op = "mret"
  /\ csr' = Mret(csr)
  /\ pc' = csr.mepc
  /\ UNCHANGED <<regs, mem>> /\ Reported

\* Between two instructions; the one at pc has not begun.
TakeInterrupt ==
  /\ \E lines \in SUBSET IntLines :
       is_int(csr, lines) /\ csr' = Interrupt(csr, pc, lines)
  /\ pc' = csr.mtvec
  /\ UNCHANGED <<regs, mem, instret>>

Next ==
  /\ \/ Misfetch \/ Fault \/ Compute \/ Load \/ Store \/ Jump
     \/ AccessCsr \/ ReturnFromTrap \/ TakeInterrupt
  /\ UNCHANGED prog

Spec == [][Next]_isaVars
=============================================================================
