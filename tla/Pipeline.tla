------------------------------ MODULE Pipeline ------------------------------
(***************************************************************************)
(* vsrc/pipeline/core.sv: fetch, decode, execute, memory and write-back     *)
(* with the pipeline registers dataF, dataD, dataE and dataM, the branch    *)
(* prediction, the forwarding, the hazard unit and the CSR file.  One step  *)
(* is a clock cycle.  Whether the instruction bus, the data bus and the     *)
(* multi-cycle unit answer in a cycle is left open.                         *)
(***************************************************************************)
EXTENDS Instructions

CONSTANTS Programs,   \* the programs: functions from aligned addresses to Instr
          InitRegs, InitMem, InitCsr,  \* what start-up code has left
          Garbage     \* what the instruction bus may show when nothing is asked

ASSUME PipelineAssumption ==
  /\ Programs \subseteq [0..(Slots - 1) -> Instr]
  /\ InitRegs \in [Regs -> Word] /\ InitRegs[0] = 0
  /\ InitMem \in [0..(Slots - 1) -> Word]
  /\ InitCsr \in CsrRegs
  /\ Garbage \subseteq Instr

VARIABLES prog, regs, mem, csr,
          lines,    \* the interrupt lines trint, swint and exint that are high
          pc, dataF, dataD, dataE, dataM,
          valid,    \* memory.sv: a data request was out in the last cycle
          arch,     \* history: registers and memory as of the last commit
          instret   \* history: the commits reported to Difftest, modulo 2

vars == <<prog, regs, mem, csr, lines, pc, dataF, dataD, dataE, dataM, valid, arch, instret>>

\* pc 0 marks a bubble; the addresses of code are not 0.
NoPC == -1

NoF == [ins |-> Nop, pc |-> NoPC, valid |-> FALSE, instr_misalign |-> FALSE]
NoD == [ins |-> Nop, pc |-> NoPC, valid |-> FALSE, cause |-> "none", csrs |-> 0,
        rs1 |-> 0, rs2 |-> 0]
NoE == [ins |-> Nop, pc |-> NoPC, valid |-> FALSE, cause |-> "none", csrs |-> 0,
        alu |-> 0, rs2 |-> 0]
NoM == [ins |-> Nop, pc |-> NoPC, valid |-> FALSE, cause |-> "none", csrs |-> 0,
        result |-> 0]

-----------------------------------------------------------------------------
\* writeback.sv.
is_csr == dataM.cause # "none" \/ dataM.ins.op \in CsrOps \cup {"mret"}
csr_valid == dataM.cause = "none" /\ dataM.ins.op \in CsrOps
interrupted == is_int(csr, lines)
csr_flush == is_csr \/ interrupted

wa == IF csr_valid \/ (~is_csr /\ ~interrupted) THEN dataM.ins.rd ELSE 0
wd == IF csr_valid THEN dataM.csrs ELSE dataM.result

\* core.sv: the oldest instruction in the machine.
real_pc ==
  IF dataM.pc # NoPC THEN dataM.pc
  ELSE IF dataE.pc # NoPC THEN dataE.pc
  ELSE IF dataD.pc # NoPC THEN dataD.pc
  ELSE IF dataF.pc # NoPC THEN dataF.pc
  ELSE pc

\* csr.sv.
csr_nxt ==
  IF dataM.cause # "none" THEN Trap(csr, real_pc, dataM.cause)
  ELSE IF interrupted THEN Interrupt(csr, real_pc, lines)
  ELSE IF csr_valid THEN CsrWrite(csr, dataM.ins.csr, dataM.result)
  ELSE IF dataM.ins.op = "mret" THEN Mret(csr)
  ELSE csr

pc_csr ==
  IF dataM.cause # "none" \/ interrupted THEN csr.mtvec
  ELSE IF csr_valid THEN NextPC(real_pc)
  ELSE csr.mepc

-----------------------------------------------------------------------------
\* Mutants of flush and dreq_valid: the old request is cut and a new one is
\* made; no request is cut.
FlushInverted == csr_flush /\ valid
RequestAlways == Accesses(dataE.ins) /\ Aligned(dataE.alu)

\* memory.sv: a new request is not made while the pipeline is flushed; one
\* that is out is kept.
flush == csr_flush /\ ~valid
dreq_valid == Accesses(dataE.ins) /\ Aligned(dataE.alu) /\ ~flush
dmem_wait(d) == dreq_valid /\ ~d

dataM_nxt ==
  LET access == AccessCause(dataE.ins, dataE.alu)
  IN  [ins |-> dataE.ins, pc |-> dataE.pc, valid |-> dataE.valid, csrs |-> dataE.csrs,
       cause |-> IF dataE.cause # "none" THEN dataE.cause ELSE access,
       result |-> IF dataE.ins.op = "load"
                  THEN IF Aligned(dataE.alu) THEN mem[dataE.alu] ELSE 0
                  ELSE dataE.alu]

\* execute.sv.
exe_wait(x) == dataD.ins.op = "long" /\ ~x
dataE_nxt ==
  [ins |-> dataD.ins, pc |-> dataD.pc, valid |-> dataD.valid, csrs |-> dataD.csrs,
   cause |-> dataD.cause, rs2 |-> dataD.rs2,
   alu |-> alu(dataD.ins, dataD.pc, dataD.rs1, dataD.rs2, dataD.csrs)]

\* Mutants of Blocked and Forward: register 0 is waited for; the older result
\* is taken.
BlockedByZero(r) == r = dataD.ins.rd \/ (r = dataE.ins.rd /\ dataE.ins.op = "load")
ForwardOldest(r) ==
  IF r = 0 \/ r = dataD.ins.rd \/ (r = dataE.ins.rd /\ dataE.ins.op = "load") THEN 0
  ELSE IF r = wa THEN wd
  ELSE IF r = dataE.ins.rd THEN dataE.alu
  ELSE regs[r]

\* forward.sv: a register comes from the memory stage, from write-back or from
\* the register file; decode waits for the execute stage and for loads.
Blocked(r) ==
  /\ r # 0
  /\ r = dataD.ins.rd \/ (r = dataE.ins.rd /\ dataE.ins.op = "load")
decode_wait == Blocked(dataF.ins.rs1) \/ Blocked(dataF.ins.rs2)

Forward(r) ==
  IF r = 0 \/ Blocked(r) THEN 0
  ELSE IF r = dataE.ins.rd THEN dataE.alu
  ELSE IF r = wa THEN wd
  ELSE regs[r]

rs1 == Forward(dataF.ins.rs1)
rs2 == Forward(dataF.ins.rs2)

dataD_nxt ==
  [ins |-> dataF.ins, pc |-> dataF.pc, valid |-> dataF.valid,
   cause |-> DecodeCause(dataF.ins, dataF.instr_misalign),
   csrs |-> csr_rd(csr, dataF.ins.csr), rs1 |-> rs1, rs2 |-> rs2]

\* jump.sv: a branch is right if what is being fetched is where it goes.
target == pc_address(dataF.ins, dataF.pc, rs1, rs2)
PCSel == \/ dataF.ins.op = "branch" /\ target # pc
         \/ dataF.ins.op = "jalr"

\* fetch.sv and predictpc.sv: a branch is taken if it goes back, and after an
\* indirect jump the jump itself is fetched again.
imem_wait(i) == Aligned(pc) /\ ~i
dataF_nxt(i, ins) ==
  [ins |-> ins, pc |-> pc, valid |-> Aligned(pc) /\ i, instr_misalign |-> ~Aligned(pc)]

Least(p, q) == IF p < q THEN p ELSE q
predPC(ins) ==
  CASE ins.op = "branch" -> Least(ins.imm, NextPC(pc))
    [] ins.op = "jal"    -> ins.imm
    [] ins.op = "jalr"   -> Least(pc, NextPC(pc))
    [] OTHER             -> NextPC(pc)

-----------------------------------------------------------------------------
\* hazard.sv: what each register does in this cycle.
Writes(p, f, dd, e, m) == [PC |-> p, F |-> f, D |-> dd, E |-> e, M |-> m]

hazard(i, d, x) ==
  IF csr_flush
  THEN IF dmem_wait(d)      THEN Writes("keep", "flush", "flush", "keep", "keep")
       ELSE IF imem_wait(i) THEN Writes("keep", "flush", "flush", "flush", "keep")
       ELSE Writes("stream", "flush", "flush", "flush", "flush")
  ELSE IF dmem_wait(d) THEN Writes("keep", "keep", "keep", "keep", "flush")
  ELSE IF exe_wait(x)  THEN Writes("keep", "keep", "keep", "flush", "stream")
  ELSE IF decode_wait  THEN Writes("keep", "keep", "flush", "stream", "stream")
  ELSE IF imem_wait(i)
       THEN IF PCSel   THEN Writes("keep", "keep", "flush", "stream", "stream")
                       ELSE Writes("keep", "flush", "stream", "stream", "stream")
  ELSE Writes("stream", IF PCSel THEN "flush" ELSE "stream", "stream", "stream", "stream")

is_stall(i, d) == csr_flush /\ (dmem_wait(d) \/ imem_wait(i))

\* A pipeline register: freg.sv, dreg.sv, ereg.sv, mreg.sv.
Register(write, old, nxt, none) ==
  CASE write = "stream" -> nxt
    [] write = "flush"  -> none
    [] write = "keep"   -> old

Retires(i, d) == dataM.pc # NoPC /\ ~is_stall(i, d) /\ ~(interrupted /\ dataM.cause = "none")

-----------------------------------------------------------------------------
Init ==
  /\ prog \in Programs
  /\ regs = InitRegs /\ mem = InitMem /\ csr = InitCsr
  /\ lines = {}
  /\ pc = PCINIT
  /\ dataF = NoF /\ dataD = NoD /\ dataE = NoE /\ dataM = NoM
  /\ valid = FALSE
  /\ arch = [regs |-> InitRegs, mem |-> InitMem]
  /\ instret = 0

\* A clock edge at which the buses and the multi-cycle unit answer as i, d, x.
\* An interrupt line that is high stays so until interrupts have been disabled.
Cycle(i, d, x) ==
  LET write == hazard(i, d, x)
  IN  /\ \E ins \in IF Aligned(pc) THEN {prog[pc]} ELSE Garbage :
           /\ dataF' = Register(write.F, dataF, dataF_nxt(i, ins), NoF)
           /\ pc' = IF write.PC = "keep" THEN pc
                    ELSE IF csr_flush THEN pc_csr
                    ELSE IF PCSel THEN target
                    ELSE predPC(ins)
      /\ dataD' = Register(write.D, dataD, dataD_nxt, NoD)
      /\ dataE' = Register(write.E, dataE, dataE_nxt, NoE)
      /\ dataM' = Register(write.M, dataM, dataM_nxt, NoM)
      /\ valid' = dreq_valid
      /\ mem' = IF dreq_valid /\ d /\ dataE.ins.op = "store"
                THEN [mem EXCEPT ![dataE.alu] = dataE.rs2] ELSE mem
      /\ regs' = IF wa = 0 THEN regs ELSE [regs EXCEPT ![wa] = wd]
      /\ csr' = IF is_stall(i, d) THEN csr ELSE csr_nxt
      /\ lines' \in {up \in SUBSET IntLines : csr.mstatus.mie => lines \subseteq up}
      /\ arch' = IF Retires(i, d) THEN [regs |-> regs', mem |-> mem] ELSE arch
      /\ instret' = IF dataM.valid /\ ~is_stall(i, d) THEN 1 - instret ELSE instret
      /\ UNCHANGED prog

Next == \E i, d, x \in BOOLEAN : Cycle(i, d, x)

Spec == Init /\ [][Next]_vars

\* The buses answer (MemSystem) and the multi-cycle unit ends (Execute).
Fairness ==
  /\ WF_vars(\E d, x \in BOOLEAN : Cycle(TRUE, d, x))
  /\ WF_vars(\E i, x \in BOOLEAN : Cycle(i, TRUE, x))
  /\ WF_vars(\E i, d \in BOOLEAN : Cycle(i, d, TRUE))

FairSpec == Spec /\ Fairness

-----------------------------------------------------------------------------
TypeOK ==
  /\ prog \in Programs
  /\ regs \in [Regs -> Word] /\ regs[0] = 0
  /\ mem \in [0..(Slots - 1) -> Word]
  /\ csr \in CsrRegs
  /\ lines \subseteq IntLines
  /\ pc \in Word
  /\ dataF.ins \in Instr /\ dataF.pc \in Word \cup {NoPC}
  /\ dataD.ins \in Instr /\ dataD.pc \in Word \cup {NoPC}
  /\ {dataD.csrs, dataD.rs1, dataD.rs2} \subseteq Word
  /\ dataE.ins \in Instr /\ dataE.pc \in Word \cup {NoPC}
  /\ {dataE.csrs, dataE.alu, dataE.rs2} \subseteq Word
  /\ dataM.ins \in Instr /\ dataM.pc \in Word \cup {NoPC}
  /\ {dataM.csrs, dataM.result} \subseteq Word
  /\ {dataD.cause, dataE.cause, dataM.cause} \subseteq Cause \cup {"none"}
  /\ valid \in BOOLEAN /\ instret \in {0, 1}
  /\ arch.regs \in [Regs -> Word] /\ arch.mem \in [0..(Slots - 1) -> Word]

\* What has been committed is what executing one instruction after the other
\* gives, and each of them is reported once: core.sv, DifftestInstrCommit.
Sequentially == INSTANCE Isa WITH
  pc <- real_pc, regs <- arch.regs, mem <- arch.mem

Sequential == Sequentially!Spec

\* Memory is ahead of the committed instructions by at most the store that is
\* in dataM.
MemoryPrecise == dataM.ins.op # "store" \/ dataM.cause # "none" => mem = arch.mem

\* No request is on the data bus for an instruction that is being flushed.
NoSpeculativeAccess == csr_flush => ~dreq_valid

\* The oldest instruction leaves the pipeline by being executed; an interrupt
\* saves where to go on in mepc ("Machine exception program counter").
NothingLost ==
  [][real_pc' # real_pc =>
       (\E i, d \in BOOLEAN : Retires(i, d)) \/ csr'.mepc = real_pc]_vars

\* Whatever the waits, instructions go on being committed, unless the trap
\* handler itself cannot be fetched.
Progress == \A b \in {0, 1} : []<>(instret = b \/ ~Aligned(csr.mtvec))
=============================================================================
