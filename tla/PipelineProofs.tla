--------------------------- MODULE PipelineProofs ---------------------------
(***************************************************************************)
(* Proofs about Pipeline, for every program, every set of registers, every  *)
(* number of words and slots, and whatever the buses and the multi-cycle    *)
(* unit do in each cycle.                                                   *)
(***************************************************************************)
EXTENDS Pipeline, TLAPS

\* The interrupt lines stay low.
NoInterrupts == IntLines = {}

\* What the bus shows at an odd pc is not taken for a load or a store.
NoGarbageAccess == \A ins \in Garbage : ~Accesses(ins)

PcType == Word \cup {NoPC}
CauseType == Cause \cup {"none"}

TypeInv ==
  /\ prog \in [0..(Slots - 1) -> Instr]
  /\ regs \in [Regs -> Word] /\ regs[0] = 0
  /\ mem \in [0..(Slots - 1) -> Word]
  /\ csr \in CsrRegs
  /\ lines \subseteq IntLines
  /\ pc \in Word
  /\ dataF \in [ins : Instr, pc : PcType, valid : BOOLEAN, instr_misalign : BOOLEAN]
  /\ dataD \in [ins : Instr, pc : PcType, valid : BOOLEAN, cause : CauseType,
                csrs : Word, rs1 : Word, rs2 : Word]
  /\ dataE \in [ins : Instr, pc : PcType, valid : BOOLEAN, cause : CauseType,
                csrs : Word, alu : Word, rs2 : Word]
  /\ dataM \in [ins : Instr, pc : PcType, valid : BOOLEAN, cause : CauseType,
                csrs : Word, result : Word]
  /\ valid \in BOOLEAN /\ instret \in {0, 1}
  /\ arch \in [regs : [Regs -> Word], mem : [0..(Slots - 1) -> Word]]
  /\ arch.regs[0] = 0

-----------------------------------------------------------------------------
(* What the pipeline holds is a part of the sequential execution that       *)
(* begins at the registers and the memory of arch.                          *)

\* The registers after an instruction that writes w to rd.
Update(r, rd, w) == IF rd = 0 THEN r ELSE [r EXCEPT ![rd] = w]

\* After the instruction in M; after the one in E.
RegsM == Update(arch.regs, dataM.ins.rd, dataM.result)
RegsE == Update(RegsM, dataE.ins.rd, dataM_nxt.result)

\* What an instruction computes from the registers r, and where it goes on.
Computed(ins, p, r) == alu(ins, p, r[ins.rs1], r[ins.rs2], csr_rd(csr, ins.csr))
NextOf(ins, p, r) ==
  IF ins.op = "jal" THEN ins.imm
  ELSE IF ins.op \in {"branch", "jalr"} THEN pc_address(ins, p, r[ins.rs1], r[ins.rs2])
  ELSE NextPC(p)

\* The instruction in E, or in D, will flush what is behind it.
Flushing(ins, cause) == cause # "none" \/ ins.op \in CsrOps \cup {"mret"}
FlushesE == Flushing(dataE.ins, dataM_nxt.cause)
FlushesD ==
  \/ Flushing(dataD.ins, dataD.cause)
  \/ AccessCause(dataD.ins, dataE_nxt.alu) # "none"

\* The oldest address from F, D and E on.
OldF == IF dataF.pc # NoPC THEN dataF.pc ELSE pc
OldD == IF dataD.pc # NoPC THEN dataD.pc ELSE OldF
OldE == IF dataE.pc # NoPC THEN dataE.pc ELSE OldD

\* A pipeline register holds what is at its pc, or nothing.
Holds(x) ==
  IF x.pc = NoPC THEN x.ins = Nop /\ ~x.valid
  ELSE /\ x.ins \in IF Aligned(x.pc) THEN {prog[x.pc]} ELSE Garbage
       /\ x.valid = Aligned(x.pc)
Decoded(x) == x.cause = IF x.pc = NoPC THEN "none" ELSE DecodeCause(x.ins, ~Aligned(x.pc))

FInv ==
  /\ Holds(dataF)
  /\ dataF.pc = NoPC => ~dataF.instr_misalign
  /\ dataF.pc # NoPC =>
       /\ dataF.instr_misalign = ~Aligned(dataF.pc)
       /\ dataF.ins.op \notin {"branch", "jalr"} =>
            pc = NextOf(dataF.ins, dataF.pc, arch.regs)

DInv ==
  /\ Holds(dataD) /\ Decoded(dataD)
  /\ dataD.pc # NoPC /\ ~is_csr /\ ~FlushesE =>
       /\ dataD.csrs = csr_rd(csr, dataD.ins.csr)
       /\ dataD.rs1 = RegsE[dataD.ins.rs1] /\ dataD.rs2 = RegsE[dataD.ins.rs2]
       /\ ~FlushesD => OldF = NextOf(dataD.ins, dataD.pc, RegsE)

EInv ==
  /\ Holds(dataE) /\ Decoded(dataE)
  /\ dataE.pc # NoPC /\ ~is_csr =>
       /\ dataE.csrs = csr_rd(csr, dataE.ins.csr)
       /\ dataE.alu = Computed(dataE.ins, dataE.pc, RegsM)
       /\ dataE.rs2 = RegsM[dataE.ins.rs2]
       /\ ~FlushesE => OldD = NextOf(dataE.ins, dataE.pc, RegsM)

MInv ==
  /\ Holds(dataM)
  /\ dataM.pc = NoPC => dataM.cause = "none"
  /\ dataM.pc # NoPC =>
       LET v == Computed(dataM.ins, dataM.pc, arch.regs)
           decode == DecodeCause(dataM.ins, ~Aligned(dataM.pc))
       IN  /\ dataM.csrs = csr_rd(csr, dataM.ins.csr)
           /\ dataM.cause = IF decode # "none" THEN decode ELSE AccessCause(dataM.ins, v)
           /\ dataM.result = IF dataM.ins.op # "load" THEN v
                             ELSE IF Aligned(v) THEN arch.mem[v] ELSE 0
           /\ mem = IF dataM.ins.op = "store" /\ dataM.cause = "none"
                    THEN [arch.mem EXCEPT ![v] = arch.regs[dataM.ins.rs2]] ELSE arch.mem
           /\ ~is_csr => OldE = NextOf(dataM.ins, dataM.pc, arch.regs)
  /\ dataM.pc = NoPC => mem = arch.mem

\* A CSR instruction that waits for a fetch writes its register in each cycle.
RegsInv ==
  \/ regs = arch.regs
  \/ csr_valid /\ regs = Update(arch.regs, dataM.ins.rd, dataM.csrs)

\* After a request, M holds the access or a bubble, never what flushes.
ValidInv == valid => ~is_csr

IInv == TypeInv /\ FInv /\ DInv /\ EInv /\ MInv /\ RegsInv /\ ValidInv

-----------------------------------------------------------------------------
(* Types.                                                                  *)

\* Addresses, sums and unions of bits are words again.
LEMMA WordOps ==
  /\ \A w \in PcType : NextPC(w) \in Word
  /\ \A w, v \in Word : Plus(w, v) \in Word /\ (w * v) % Words \in Word /\ Or(w, v) \in Word
  /\ 0 \in Word /\ PCINIT \in Word
  /\ \A w \in Word : Aligned(w) => w \in 0..(Slots - 1)
<1>1. Words \in Nat /\ Words >= 8 /\ Slots \in Nat \ {0} /\ Slots <= Words
      /\ PCINIT \in 0..(Slots - 1)
  BY CsrAssumption
<1>2. \A n \in Nat : n % Words \in Word
  BY <1>1 DEF Word
<1>3. \A w \in PcType : NextPC(w) \in Word
  BY <1>1 DEF PcType, NoPC, Word, NextPC, Aligned
<1>4. ASSUME NEW w \in Word, NEW v \in Word
      PROVE  Plus(w, v) \in Word /\ (w * v) % Words \in Word /\ Or(w, v) \in Word
  <2>1. w \in Nat /\ v \in Nat /\ w + v \in Nat /\ w * v \in Nat
    BY <1>1 DEF Word
  <2>2. Or(w, v) \in Word
    <3>. DEFINE Bits(i) == IF Bit(w, i) \/ Bit(v, i) THEN 2^i ELSE 0
    <3>1. Bits(0) \in Nat /\ Bits(1) \in Nat /\ Bits(2) \in Nat
      BY DEF Bits
    <3>2. Bits(0) + Bits(1) + Bits(2) \in Nat
      BY <3>1
    <3>. HIDE DEF Bits
    <3>3. (Bits(0) + Bits(1) + Bits(2)) % Words \in Word
      BY <3>2, <1>2
    <3>. QED  BY <3>3 DEF Or, Bits
  <2>. QED  BY <2>1, <2>2, <1>2 DEF Plus
<1>5. 0 \in Word /\ PCINIT \in Word /\ \A w \in Word : Aligned(w) => w \in 0..(Slots - 1)
  BY <1>1 DEF Word, Aligned
<1>. QED  BY <1>3, <1>4, <1>5

\* What is read of a CSR is a word, and every change of the CSRs keeps them
\* CSRs (csr.sv:65-133).
LEMMA CsrTypes ==
  ASSUME NEW c \in CsrRegs
  PROVE  /\ \A name \in Csrs : csr_rd(c, name) \in Word
         /\ \A name \in Csrs, w \in Word : CsrWrite(c, name, w) \in CsrRegs
         /\ \A p \in Word, cause \in Cause : Trap(c, p, cause) \in CsrRegs
         /\ \A p \in Word, up \in SUBSET IntLines : Interrupt(c, p, up) \in CsrRegs
         /\ Mret(c) \in CsrRegs
         /\ c.mtvec \in Word /\ c.mepc \in Word
<1>1. \A name \in Csrs : csr_rd(c, name) \in Word
  BY CsrAssumption DEF csr_rd, CsrRegs, Csrs, Word, Value
<1>2. ASSUME NEW name \in Csrs, NEW w \in Word PROVE CsrWrite(c, name, w) \in CsrRegs
  BY DEF CsrWrite, CsrRegs, Csrs, Mstatus, Mode, Bit
<1>3. ASSUME NEW p \in Word, NEW n \in 0..11, NEW b \in BOOLEAN
      PROVE  EnterTrap(c, p, [int |-> b, code |-> n]) \in CsrRegs
  BY DEF EnterTrap, CsrRegs, Mstatus, Mode
<1>4. ASSUME NEW p \in Word, NEW cause \in Cause PROVE Trap(c, p, cause) \in CsrRegs
  <2>1. mcause(c, cause) \in 0..11
    BY DEF mcause, CsrRegs, Mode, Cause
  <2>. QED  BY <2>1, <1>3 DEF Trap
<1>5. ASSUME NEW p \in Word, NEW up PROVE Interrupt(c, p, up) \in CsrRegs
  <2>. DEFINE code == IF 0 \in Taken(c, up) THEN 7 ELSE IF 1 \in Taken(c, up) THEN 3 ELSE 11
  <2>1. code \in 0..11
    OBVIOUS
  <2>2. Interrupt(c, p, up) = EnterTrap(c, p, [int |-> TRUE, code |-> code])
    BY DEF Interrupt
  <2>. HIDE DEF code
  <2>. QED  BY <2>1, <2>2, <1>3
<1>6. Mret(c) \in CsrRegs /\ c.mtvec \in Word /\ c.mepc \in Word
  BY DEF Mret, CsrRegs, Mstatus, Mode
<1>. QED  BY <1>1, <1>2, <1>4, <1>5, <1>6

\* The results and targets of execute and decode are words.
LEMMA AluType ==
  ASSUME NEW ins \in Instr, NEW p \in PcType, NEW a \in Word, NEW b \in Word, NEW c \in Word
  PROVE  alu(ins, p, a, b, c) \in Word /\ pc_address(ins, p, a, b) \in Word
<1>1. ins.imm \in Word
  BY DEF Instr
<1>. QED  BY <1>1, WordOps DEF alu, pc_address

\* Every signal between the stages has its type.
LEMMA SignalTypes ==
  ASSUME TypeInv
  PROVE  /\ wa \in Regs /\ wd \in Word
         /\ real_pc \in Word /\ pc_csr \in Word /\ csr_nxt \in CsrRegs
         /\ rs1 \in Word /\ rs2 \in Word /\ target \in Word
         /\ dataM_nxt \in [ins : Instr, pc : PcType, valid : BOOLEAN, cause : CauseType,
                            csrs : Word, result : Word]
         /\ dataE_nxt \in [ins : Instr, pc : PcType, valid : BOOLEAN, cause : CauseType,
                            csrs : Word, alu : Word, rs2 : Word]
         /\ dataD_nxt \in [ins : Instr, pc : PcType, valid : BOOLEAN, cause : CauseType,
                            csrs : Word, rs1 : Word, rs2 : Word]
<1>. USE DEF TypeInv
<1>1. wa \in Regs /\ wd \in Word
  BY RegsAssumption DEF wa, wd, Instr
<1>2. real_pc \in Word
  BY DEF real_pc, PcType
<1>3. csr_nxt \in CsrRegs /\ pc_csr \in Word
  <2>1. dataM.cause # "none" => dataM.cause \in Cause
    BY DEF CauseType
  <2>2. dataM.ins.csr \in Csrs /\ dataM.result \in Word /\ real_pc \in PcType
    BY <1>2 DEF Instr, PcType
  <2>. QED  BY <1>2, <2>1, <2>2, CsrTypes, WordOps DEF csr_nxt, pc_csr
<1>4. \A r \in Regs : Forward(r) \in Word
  BY <1>1, WordOps DEF Forward
<1>5. rs1 \in Word /\ rs2 \in Word
  BY <1>4 DEF rs1, rs2, Instr
<1>6. target \in Word
  BY <1>5, AluType, WordOps DEF target
<1>7. dataM_nxt.result \in Word /\ dataM_nxt.cause \in CauseType
  <2>1. Aligned(dataE.alu) => mem[dataE.alu] \in Word
    BY WordOps
  <2>2. AccessCause(dataE.ins, dataE.alu) \in CauseType
    BY DEF AccessCause, CauseType, Cause
  <2>. QED  BY <2>1, <2>2, WordOps DEF dataM_nxt
<1>8. dataE_nxt.alu \in Word
  BY AluType DEF dataE_nxt
<1>9. dataD_nxt.cause \in CauseType /\ dataD_nxt.csrs \in Word
  <2>1. DecodeCause(dataF.ins, dataF.instr_misalign) \in CauseType
    BY DEF DecodeCause, CauseType, Cause
  <2>2. dataF.ins.csr \in Csrs
    BY DEF Instr
  <2>. QED  BY <2>1, <2>2, CsrTypes DEF dataD_nxt
<1>10. dataM_nxt \in [ins : Instr, pc : PcType, valid : BOOLEAN, cause : CauseType,
                      csrs : Word, result : Word]
  BY <1>7 DEF dataM_nxt
<1>11. dataE_nxt \in [ins : Instr, pc : PcType, valid : BOOLEAN, cause : CauseType,
                      csrs : Word, alu : Word, rs2 : Word]
  BY <1>8 DEF dataE_nxt
<1>12. dataD_nxt \in [ins : Instr, pc : PcType, valid : BOOLEAN, cause : CauseType,
                      csrs : Word, rs1 : Word, rs2 : Word]
  BY <1>5, <1>9 DEF dataD_nxt
<1>. QED  BY <1>1, <1>2, <1>3, <1>5, <1>6, <1>10, <1>11, <1>12

\* So has what comes from the instruction bus.
LEMMA FetchTypes ==
  ASSUME TypeInv, NEW i \in BOOLEAN,
         NEW ins \in IF Aligned(pc) THEN {prog[pc]} ELSE Garbage
  PROVE  /\ ins \in Instr
         /\ predPC(ins) \in Word
         /\ dataF_nxt(i, ins) \in [ins : Instr, pc : PcType, valid : BOOLEAN, instr_misalign : BOOLEAN]
<1>1. ins \in Instr
  BY WordOps, PipelineAssumption DEF TypeInv
<1>2. ins.imm \in Word /\ NextPC(pc) \in Word /\ pc \in Word
  BY <1>1, WordOps DEF Instr, TypeInv, PcType
<1>3. \A p, q \in Word : Least(p, q) \in Word
  BY DEF Least
<1>4. predPC(ins) \in Word
  BY <1>2, <1>3 DEF predPC
<1>5. dataF_nxt(i, ins) \in [ins : Instr, pc : PcType, valid : BOOLEAN, instr_misalign : BOOLEAN]
  BY <1>1, <1>2 DEF dataF_nxt, PcType, Aligned
<1>. QED  BY <1>1, <1>4, <1>5

\* The empty registers.
LEMMA NoneTypes ==
  /\ Nop \in Instr
  /\ NoF \in [ins : Instr, pc : PcType, valid : BOOLEAN, instr_misalign : BOOLEAN]
  /\ NoD \in [ins : Instr, pc : PcType, valid : BOOLEAN, cause : CauseType,
               csrs : Word, rs1 : Word, rs2 : Word]
  /\ NoE \in [ins : Instr, pc : PcType, valid : BOOLEAN, cause : CauseType,
               csrs : Word, alu : Word, rs2 : Word]
  /\ NoM \in [ins : Instr, pc : PcType, valid : BOOLEAN, cause : CauseType,
               csrs : Word, result : Word]
<1>1. Nop \in Instr
  BY WordOps, RegsAssumption DEF Nop, Instr, Ops, Csrs
<1>. QED  BY <1>1, WordOps DEF NoF, NoD, NoE, NoM, PcType, CauseType

\* The machine that comes out of reset is of its types.
LEMMA TypeInit == Init => TypeInv
<1>. SUFFICES ASSUME Init PROVE TypeInv
  OBVIOUS
<1>1. /\ prog \in [0..(Slots - 1) -> Instr]
      /\ regs \in [Regs -> Word] /\ regs[0] = 0
      /\ mem \in [0..(Slots - 1) -> Word]
      /\ csr \in CsrRegs
  BY PipelineAssumption DEF Init
<1>2. /\ lines \subseteq IntLines /\ pc \in Word
      /\ valid \in BOOLEAN /\ instret \in {0, 1}
  BY WordOps DEF Init
<1>3. arch \in [regs : [Regs -> Word], mem : [0..(Slots - 1) -> Word]] /\ arch.regs[0] = 0
  BY PipelineAssumption DEF Init
<1>4. dataF = NoF /\ dataD = NoD /\ dataE = NoE /\ dataM = NoM
  BY DEF Init
<1>. QED  BY <1>1, <1>2, <1>3, <1>4, NoneTypes DEF TypeInv

\* A clock cycle keeps the types, whatever it does.
LEMMA TypeStep == TypeInv /\ [Next]_vars => TypeInv'
<1>. SUFFICES ASSUME TypeInv, [Next]_vars PROVE TypeInv'
  OBVIOUS
<1>1. CASE UNCHANGED vars
  BY <1>1 DEF TypeInv, vars
<1>2. ASSUME NEW i \in BOOLEAN, NEW d \in BOOLEAN, NEW x \in BOOLEAN, Cycle(i, d, x)
      PROVE  TypeInv'
  <2>. DEFINE write == hazard(i, d, x)
  <2>1. PICK ins \in IF Aligned(pc) THEN {prog[pc]} ELSE Garbage :
          /\ dataF' = Register(write.F, dataF, dataF_nxt(i, ins), NoF)
          /\ pc' = IF write.PC = "keep" THEN pc
                   ELSE IF csr_flush THEN pc_csr
                   ELSE IF PCSel THEN target
                   ELSE predPC(ins)
    BY <1>2 DEF Cycle
  <2>2. /\ dataD' = Register(write.D, dataD, dataD_nxt, NoD)
        /\ dataE' = Register(write.E, dataE, dataE_nxt, NoE)
        /\ dataM' = Register(write.M, dataM, dataM_nxt, NoM)
        /\ valid' = dreq_valid
        /\ mem' = IF dreq_valid /\ d /\ dataE.ins.op = "store"
                  THEN [mem EXCEPT ![dataE.alu] = dataE.rs2] ELSE mem
        /\ regs' = IF wa = 0 THEN regs ELSE [regs EXCEPT ![wa] = wd]
        /\ csr' = IF is_stall(i, d) THEN csr ELSE csr_nxt
        /\ lines' \subseteq IntLines
        /\ arch' = IF Retires(i, d) THEN [regs |-> regs', mem |-> mem] ELSE arch
        /\ instret' = IF dataM.valid /\ ~is_stall(i, d) THEN 1 - instret ELSE instret
        /\ prog' = prog
    BY <1>2 DEF Cycle
  <2>3. /\ {write.PC, write.F, write.D, write.E, write.M} \subseteq {"keep", "flush", "stream"}
    BY DEF hazard, Writes
  <2>4. \A w \in {"keep", "flush", "stream"} : \A old, nxt, none :
          Register(w, old, nxt, none) \in {old, nxt, none}
    BY DEF Register
  <2>. HIDE DEF write
  <2>5. dataF' \in {dataF, dataF_nxt(i, ins), NoF} /\ pc' \in {pc, pc_csr, target, predPC(ins)}
    BY <2>1, <2>3, <2>4
  <2>6. /\ dataD' \in {dataD, dataD_nxt, NoD}
        /\ dataE' \in {dataE, dataE_nxt, NoE}
        /\ dataM' \in {dataM, dataM_nxt, NoM}
    BY <2>2, <2>3, <2>4
  <2>. USE DEF TypeInv
  <2>7. pc' \in Word /\ dataF' \in [ins : Instr, pc : PcType, valid : BOOLEAN, instr_misalign : BOOLEAN]
    BY <2>5, FetchTypes, SignalTypes, NoneTypes
  <2>8. /\ dataD' \in [ins : Instr, pc : PcType, valid : BOOLEAN, cause : CauseType,
                        csrs : Word, rs1 : Word, rs2 : Word]
        /\ dataE' \in [ins : Instr, pc : PcType, valid : BOOLEAN, cause : CauseType,
                        csrs : Word, alu : Word, rs2 : Word]
        /\ dataM' \in [ins : Instr, pc : PcType, valid : BOOLEAN, cause : CauseType,
                        csrs : Word, result : Word]
    BY <2>6, SignalTypes, NoneTypes
  <2>9. regs' \in [Regs -> Word] /\ regs'[0] = 0
    BY <2>2, SignalTypes, RegsAssumption
  <2>10. mem' \in [0..(Slots - 1) -> Word]
    BY <2>2, WordOps DEF dreq_valid
  <2>11. arch' \in [regs : [Regs -> Word], mem : [0..(Slots - 1) -> Word]] /\ arch'.regs[0] = 0
    BY <2>2, <2>9
  <2>12. csr' \in CsrRegs
    BY <2>2, SignalTypes
  <2>13. valid' \in BOOLEAN /\ instret' \in {0, 1}
    BY <2>2 DEF dreq_valid, Accesses
  <2>. QED  BY <2>2, <2>7, <2>8, <2>9, <2>10, <2>11, <2>12, <2>13
<1>. QED  BY <1>1, <1>2 DEF Next

-----------------------------------------------------------------------------
(* The cases of a clock cycle (hazard.sv).                                  *)

\* While the lines are low, only what is in M can flush.
LEMMA NotInterrupted ==
  ASSUME TypeInv, NoInterrupts
  PROVE  ~interrupted /\ (csr_flush <=> is_csr)
<1>1. lines = {}
  BY DEF TypeInv, NoInterrupts
<1>2. Taken(csr, lines) = {}
  BY <1>1 DEF Taken
<1>. QED  BY <1>2 DEF interrupted, is_int, csr_flush

\* A flush finds no request of its own cycle on the data bus (memory.sv:59).
LEMMA NoRequestInFlush ==
  ASSUME TypeInv, NoInterrupts, ValidInv
  PROVE  is_csr => ~dreq_valid
BY NotInterrupted DEF ValidInv, dreq_valid, flush

\* What flushes is an instruction, and a bubble is not.
LEMMA FlushIsInstr == MInv /\ is_csr => dataM.pc # NoPC
BY DEF MInv, Holds, is_csr, Nop, CsrOps

\* While M flushes, everything behind it is cleared; M itself stays until a
\* fetch in progress ends.
FlushCycle ==
  /\ is_csr
  /\ dataE' = NoE /\ dataD' = NoD /\ dataF' = NoF
  /\ mem' = mem /\ ~valid'
  /\ regs' = Update(regs, wa, wd)
  /\ \/ /\ dataM' = dataM /\ pc' = pc
        /\ csr' = csr /\ arch' = arch /\ instret' = instret
     \/ /\ dataM' = NoM /\ pc' = pc_csr
        /\ csr' = csr_nxt
        /\ arch' = [regs |-> regs', mem |-> mem]
        /\ instret' = IF dataM.valid THEN 1 - instret ELSE instret

\* Otherwise the instruction in M is done.
CommitCycle ==
  /\ ~is_csr
  /\ csr' = csr
  /\ regs' = Update(regs, wa, wd)
  /\ arch' = IF dataM.pc # NoPC THEN [regs |-> regs', mem |-> mem] ELSE arch
  /\ instret' = IF dataM.valid THEN 1 - instret ELSE instret
  /\ valid' = dreq_valid

\* The one in E waits for the data bus, and so does all behind it ...
WaitCycle ==
  /\ CommitCycle
  /\ mem' = mem /\ dataM' = NoM
  /\ UNCHANGED <<dataE, dataD, dataF, pc>>

\* ... or it comes to M.  D stays behind it, or F does, or F moves too; then
\* the fetch waits, or goes to the target of F, or brings what is next.
HoldD == dataE' = NoE /\ UNCHANGED <<dataD, dataF, pc>>
HoldF == dataE' = dataE_nxt /\ dataD' = NoD /\ UNCHANGED <<dataF, pc>>
DecodeMoves ==
  /\ ~decode_wait
  /\ dataE' = dataE_nxt /\ dataD' = dataD_nxt
  /\ \/ dataF' = NoF /\ ~PCSel /\ pc' = pc
     \/ dataF' = NoF /\ PCSel /\ pc' = target
     \/ /\ ~PCSel
        /\ \E i \in BOOLEAN, ins \in IF Aligned(pc) THEN {prog[pc]} ELSE Garbage :
             /\ Aligned(pc) => i
             /\ dataF' = dataF_nxt(i, ins) /\ pc' = predPC(ins)

MoveCycle ==
  /\ CommitCycle
  /\ dataM' = dataM_nxt
  /\ mem' = IF dreq_valid /\ dataE.ins.op = "store"
            THEN [mem EXCEPT ![dataE.alu] = dataE.rs2] ELSE mem
  /\ HoldD \/ HoldF \/ DecodeMoves

\* A clock edge that flushes nothing is one or the other; a flush has no
\* request on the data bus to wait for.
LEMMA CycleCases ==
  ASSUME TypeInv, NoInterrupts, ValidInv, MInv,
         NEW i \in BOOLEAN, NEW d \in BOOLEAN, NEW x \in BOOLEAN, Cycle(i, d, x)
  PROVE  prog' = prog /\ (FlushCycle \/ WaitCycle \/ MoveCycle)
<1>. DEFINE write == hazard(i, d, x)
<1>1. PICK ins \in IF Aligned(pc) THEN {prog[pc]} ELSE Garbage :
        /\ dataF' = Register(write.F, dataF, dataF_nxt(i, ins), NoF)
        /\ pc' = IF write.PC = "keep" THEN pc
                 ELSE IF csr_flush THEN pc_csr
                 ELSE IF PCSel THEN target
                 ELSE predPC(ins)
  BY DEF Cycle
<1>2. /\ dataD' = Register(write.D, dataD, dataD_nxt, NoD)
      /\ dataE' = Register(write.E, dataE, dataE_nxt, NoE)
      /\ dataM' = Register(write.M, dataM, dataM_nxt, NoM)
      /\ valid' = dreq_valid
      /\ mem' = IF dreq_valid /\ d /\ dataE.ins.op = "store"
                THEN [mem EXCEPT ![dataE.alu] = dataE.rs2] ELSE mem
      /\ regs' = Update(regs, wa, wd)
      /\ csr' = IF is_stall(i, d) THEN csr ELSE csr_nxt
      /\ arch' = IF Retires(i, d) THEN [regs |-> regs', mem |-> mem] ELSE arch
      /\ instret' = IF dataM.valid /\ ~is_stall(i, d) THEN 1 - instret ELSE instret
      /\ prog' = prog
  BY DEF Cycle, Update
<1>3. /\ \A old, nxt, none : Register("keep", old, nxt, none) = old
      /\ \A old, nxt, none : Register("flush", old, nxt, none) = none
      /\ \A old, nxt, none : Register("stream", old, nxt, none) = nxt
  BY DEF Register
<1>4. CASE is_csr
  <2>1. csr_flush /\ ~interrupted /\ ~dreq_valid /\ ~dmem_wait(d) /\ dataM.pc # NoPC
    BY <1>4, NotInterrupted, NoRequestInFlush, FlushIsInstr DEF dmem_wait
  <2>2. CASE imem_wait(i)
    <3>1. write = Writes("keep", "flush", "flush", "flush", "keep") /\ is_stall(i, d)
      BY <2>1, <2>2 DEF hazard, is_stall
    <3>2. ~Retires(i, d)
      BY <3>1 DEF Retires
    <3>. HIDE DEF write
    <3>. QED  BY <1>1, <1>2, <1>3, <1>4, <2>1, <3>1, <3>2 DEF FlushCycle, Writes
  <2>3. CASE ~imem_wait(i)
    <3>1. write = Writes("stream", "flush", "flush", "flush", "flush") /\ ~is_stall(i, d)
      BY <2>1, <2>3 DEF hazard, is_stall
    <3>2. Retires(i, d)
      BY <2>1, <3>1 DEF Retires
    <3>. HIDE DEF write
    <3>. QED  BY <1>1, <1>2, <1>3, <1>4, <2>1, <3>1, <3>2 DEF FlushCycle, Writes
  <2>. QED  BY <2>2, <2>3
<1>5. CASE ~is_csr
  <2>1. ~csr_flush /\ ~interrupted
    BY <1>5, NotInterrupted
  <2>2. csr_nxt = csr
    BY <1>5, <2>1 DEF csr_nxt, is_csr, csr_valid
  <2>3. ~is_stall(i, d) /\ (Retires(i, d) <=> dataM.pc # NoPC)
    BY <2>1 DEF is_stall, Retires
  <2>4. CommitCycle
    BY <1>2, <1>5, <2>2, <2>3 DEF CommitCycle
  <2>5. CASE dmem_wait(d)
    <3>1. write = Writes("keep", "keep", "keep", "keep", "flush")
      BY <2>1, <2>5 DEF hazard
    <3>. HIDE DEF write
    <3>. QED  BY <1>1, <1>2, <1>3, <2>4, <2>5, <3>1 DEF WaitCycle, Writes, dmem_wait
  <2>6. CASE ~dmem_wait(d)
    <3>1. /\ dreq_valid => d
          /\ mem' = IF dreq_valid /\ dataE.ins.op = "store"
                    THEN [mem EXCEPT ![dataE.alu] = dataE.rs2] ELSE mem
      BY <1>2, <2>6 DEF dmem_wait
    <3>2. CASE exe_wait(x)
      <4>1. write = Writes("keep", "keep", "keep", "flush", "stream")
        BY <2>1, <2>6, <3>2 DEF hazard
      <4>. HIDE DEF write
      <4>. QED  BY <1>1, <1>2, <1>3, <2>4, <3>1, <4>1 DEF MoveCycle, HoldD, HoldF, Writes
    <3>3. CASE /\ ~exe_wait(x)
               /\ decode_wait \/ (imem_wait(i) /\ PCSel)
      <4>1. write = Writes("keep", "keep", "flush", "stream", "stream")
        BY <2>1, <2>6, <3>3 DEF hazard
      <4>. HIDE DEF write
      <4>. QED  BY <1>1, <1>2, <1>3, <2>4, <3>1, <4>1 DEF MoveCycle, HoldD, HoldF, Writes
    <3>4. CASE ~exe_wait(x) /\ ~decode_wait /\ imem_wait(i) /\ ~PCSel
      <4>1. write = Writes("keep", "flush", "stream", "stream", "stream")
        BY <2>1, <2>6, <3>4 DEF hazard
      <4>. HIDE DEF write
      <4>. QED  BY <1>1, <1>2, <1>3, <2>4, <3>1, <3>4, <4>1 DEF MoveCycle, DecodeMoves, Writes
    <3>5. CASE ~exe_wait(x) /\ ~decode_wait /\ ~imem_wait(i) /\ PCSel
      <4>1. write = Writes("stream", "flush", "stream", "stream", "stream")
        BY <2>1, <2>6, <3>5 DEF hazard
      <4>. HIDE DEF write
      <4>. QED  BY <1>1, <1>2, <1>3, <2>1, <2>4, <3>1, <3>5, <4>1 DEF MoveCycle, DecodeMoves, Writes
    <3>6. CASE ~exe_wait(x) /\ ~decode_wait /\ ~imem_wait(i) /\ ~PCSel
      <4>1. write = Writes("stream", "stream", "stream", "stream", "stream")
        BY <2>1, <2>6, <3>6 DEF hazard
      <4>2. Aligned(pc) => i
        BY <3>6 DEF imem_wait
      <4>. HIDE DEF write
      <4>. QED
        BY <1>1, <1>2, <1>3, <2>1, <2>4, <3>1, <3>6, <4>1, <4>2 DEF MoveCycle, DecodeMoves, Writes
    <3>. QED  BY <3>2, <3>3, <3>4, <3>5, <3>6
  <2>. QED  BY <2>5, <2>6
<1>. QED  BY <1>2, <1>4, <1>5

-----------------------------------------------------------------------------
(* The invariant is kept.                                                   *)

SafeInv == FInv /\ DInv /\ EInv /\ MInv /\ RegsInv /\ ValidInv

\* Writing nothing, writing twice, and what a write leaves alone.
LEMMA Updates ==
  ASSUME NEW r \in [Regs -> Word], NEW rd \in Regs, NEW w \in Word
  PROVE  /\ Update(r, 0, w) = r
         /\ Update(Update(r, rd, w), rd, w) = Update(r, rd, w)
         /\ Update(r, rd, w) \in [Regs -> Word]
         /\ rd # 0 => Update(r, rd, w)[rd] = w
         /\ \A q \in Regs : q # rd \/ q = 0 => Update(r, rd, w)[q] = r[q]
BY DEF Update

\* The registers along the pipeline are registers, and register 0 is 0.
LEMMA RegTypes ==
  ASSUME TypeInv
  PROVE  /\ RegsM \in [Regs -> Word] /\ RegsM[0] = 0
         /\ RegsE \in [Regs -> Word] /\ RegsE[0] = 0
<1>1. /\ arch.regs \in [Regs -> Word] /\ arch.regs[0] = 0 /\ 0 \in Regs
      /\ dataM.ins.rd \in Regs /\ dataM.result \in Word
      /\ dataE.ins.rd \in Regs /\ dataM_nxt.result \in Word
  BY SignalTypes, RegsAssumption DEF TypeInv, Instr
<1>2. ASSUME NEW r \in [Regs -> Word], r[0] = 0, NEW rd \in Regs, NEW w \in Word
      PROVE  Update(r, rd, w) \in [Regs -> Word] /\ Update(r, rd, w)[0] = 0
  BY <1>1, <1>2 DEF Update
<1>3. RegsM \in [Regs -> Word] /\ RegsM[0] = 0
  BY <1>1, <1>2 DEF RegsM
<1>. QED  BY <1>1, <1>2, <1>3 DEF RegsE

\* An empty register holds nothing and asks for nothing.
LEMMA Bubbles ==
  /\ NoF.pc = NoPC /\ NoF.ins = Nop /\ ~NoF.valid /\ ~NoF.instr_misalign
  /\ NoD.pc = NoPC /\ NoD.ins = Nop /\ ~NoD.valid /\ NoD.cause = "none"
  /\ NoE.pc = NoPC /\ NoE.ins = Nop /\ ~NoE.valid /\ NoE.cause = "none"
  /\ NoM.pc = NoPC /\ NoM.ins = Nop /\ ~NoM.valid /\ NoM.cause = "none" /\ NoM.result = 0
  /\ Nop.rd = 0 /\ ~Accesses(Nop) /\ Nop.op \notin CsrOps \cup {"mret", "branch", "jalr"}
  /\ \A a : AccessCause(Nop, a) = "none"
  /\ DecodeCause(Nop, FALSE) = "none"
BY DEF NoF, NoD, NoE, NoM, Nop, Accesses, CsrOps, AccessCause, DecodeCause

\* A flush leaves nothing behind M, and M as it is or empty.
LEMMA FlushKeeps ==
  ASSUME TypeInv, SafeInv, prog' = prog, FlushCycle
  PROVE  SafeInv'
<1>. USE DEF SafeInv, FlushCycle
<1>1. FInv' /\ DInv' /\ EInv'
  BY Bubbles DEF FInv, DInv, EInv, Holds, Decoded
<1>2. ValidInv'
  BY DEF ValidInv
<1>3. dataM.ins.rd \in Regs /\ arch.regs \in [Regs -> Word] /\ dataM.csrs \in Word
      /\ regs \in [Regs -> Word]
  BY DEF TypeInv, Instr
<1>4. CASE dataM' = dataM /\ arch' = arch /\ csr' = csr
  <2>1. is_csr' /\ (csr_valid' <=> csr_valid)
    BY <1>4 DEF is_csr, csr_valid
  <2>2. MInv'
    BY <1>4, <2>1 DEF MInv, Holds, Computed
  <2>3. CASE csr_valid
    <3>1. wa = dataM.ins.rd /\ wd = dataM.csrs
      BY <2>3 DEF wa, wd
    <3>2. regs' = Update(arch.regs, dataM.ins.rd, dataM.csrs)
      BY <3>1, <1>3 DEF RegsInv, Update
    <3>. QED  BY <1>1, <1>2, <1>4, <2>1, <2>2, <2>3, <3>2 DEF RegsInv
  <2>4. CASE ~csr_valid
    <3>1. wa = 0 /\ regs = arch.regs
      BY <2>4 DEF wa, RegsInv
    <3>2. regs' = arch.regs
      BY <3>1 DEF Update
    <3>. QED  BY <1>1, <1>2, <1>4, <2>2, <3>2 DEF RegsInv
  <2>. QED  BY <2>3, <2>4
<1>5. CASE dataM' = NoM /\ arch' = [regs |-> regs', mem |-> mem]
  <2>1. MInv'
    BY <1>5, Bubbles DEF MInv, Holds
  <2>2. RegsInv'
    BY <1>5 DEF RegsInv
  <2>. QED  BY <1>1, <1>2, <2>1, <2>2
<1>. QED  BY <1>4, <1>5

\* When nothing flushes, the next state is the one after the instruction in M.
LEMMA Commits ==
  ASSUME TypeInv, SafeInv, NoInterrupts, CommitCycle
  PROVE  /\ regs = arch.regs
         /\ dataM.ins.rd # 0 => wa = dataM.ins.rd /\ wd = dataM.result
         /\ dataM.ins.rd = 0 => wa = 0
         /\ regs' = RegsM /\ arch'.regs = RegsM /\ arch'.mem = mem
<1>1. ~is_csr /\ ~csr_valid /\ ~interrupted
  BY NotInterrupted DEF CommitCycle, is_csr, csr_valid
<1>2. regs = arch.regs
  BY <1>1 DEF SafeInv, RegsInv
<1>3. wa = dataM.ins.rd /\ wd = dataM.result
  BY <1>1 DEF wa, wd
<1>4. regs' = RegsM
  BY <1>2, <1>3 DEF CommitCycle, RegsM
<1>5. CASE dataM.pc # NoPC
  BY <1>2, <1>3, <1>4, <1>5 DEF CommitCycle
<1>6. CASE dataM.pc = NoPC
  <2>1. arch' = arch /\ mem = arch.mem /\ dataM.ins.rd = 0
    BY <1>6, Bubbles DEF CommitCycle, SafeInv, MInv, Holds
  <2>2. RegsM = arch.regs
    BY <2>1 DEF RegsM, Update
  <2>. QED  BY <1>2, <1>3, <1>4, <2>1, <2>2
<1>. QED  BY <1>5, <1>6

\* A bubble in M has no result, keeps the registers and flushes nothing.
LEMMA BubbleInM ==
  ASSUME TypeInv, dataM' = NoM
  PROVE  RegsM' = arch'.regs /\ ~is_csr' /\ ~csr_valid'
<1>1. RegsM' = Update(arch'.regs, NoM.ins.rd, NoM.result)
  BY DEF RegsM
<1>. QED  BY <1>1, Bubbles DEF Update, is_csr, csr_valid

\* While E waits for the data bus, M is emptied and the rest stands.
LEMMA WaitKeeps ==
  ASSUME TypeInv, SafeInv, NoInterrupts, prog' = prog, WaitCycle
  PROVE  SafeInv'
<1>. USE DEF WaitCycle
<1>1. /\ dataM' = NoM /\ mem' = mem /\ csr' = csr /\ ~is_csr
      /\ dataE' = dataE /\ dataD' = dataD /\ dataF' = dataF /\ pc' = pc
  BY DEF CommitCycle
<1>2. regs' = RegsM /\ arch'.regs = RegsM /\ arch'.mem = mem
  BY Commits
<1>3. RegsM' = RegsM /\ ~is_csr'
  BY <1>1, <1>2, BubbleInM
<1>4. dataM_nxt' = dataM_nxt
  BY <1>1 DEF dataM_nxt
<1>5. RegsE' = RegsE /\ (FlushesE' <=> FlushesE)
  BY <1>1, <1>3, <1>4 DEF RegsE, FlushesE
<1>6. (FlushesD' <=> FlushesD) /\ OldF' = OldF /\ OldD' = OldD
  <2>1. dataE_nxt' = dataE_nxt
    BY <1>1 DEF dataE_nxt
  <2>2. OldF' = OldF
    BY <1>1 DEF OldF
  <2>. QED  BY <1>1, <2>1, <2>2 DEF FlushesD, OldD
<1>7. FInv'
  BY <1>1 DEF SafeInv, FInv, Holds, NextOf
<1>8. DInv'
  BY <1>1, <1>3, <1>5, <1>6 DEF SafeInv, DInv, Holds, Decoded, NextOf
<1>9. EInv'
  BY <1>1, <1>3, <1>5, <1>6 DEF SafeInv, EInv, Holds, Decoded, NextOf, Computed
<1>10. MInv'
  BY <1>1, <1>2, Bubbles DEF MInv, Holds
<1>11. RegsInv' /\ ValidInv'
  BY <1>2, <1>3 DEF RegsInv, ValidInv
<1>. QED  BY <1>7, <1>8, <1>9, <1>10, <1>11 DEF SafeInv

\* Without a flush, a load or store at an aligned address is requested; it is
\* in no trouble, and only the word of such a store changes.
LEMMA Requests ==
  ASSUME TypeInv, EInv, NoInterrupts, NoGarbageAccess, ~is_csr
  PROVE  /\ dreq_valid <=> Accesses(dataE.ins) /\ Aligned(dataE.alu)
         /\ dreq_valid => dataM_nxt.cause = "none"
         /\ dataE.ins.op = "store" => (dreq_valid <=> dataM_nxt.cause = "none")
         /\ dataE.pc = NoPC => ~dreq_valid /\ dataM_nxt.cause = "none"
<1>1. dreq_valid <=> Accesses(dataE.ins) /\ Aligned(dataE.alu)
  BY NotInterrupted DEF dreq_valid, flush
<1>2. dataE.pc = NoPC => dataE.ins = Nop /\ dataE.cause = "none"
  BY DEF EInv, Holds, Decoded
<1>3. Accesses(dataE.ins) => dataE.cause = "none"
  <2>1. CASE dataE.pc # NoPC /\ Aligned(dataE.pc)
    BY <2>1 DEF EInv, Decoded, DecodeCause, Accesses
  <2>2. CASE dataE.pc # NoPC /\ ~Aligned(dataE.pc)
    BY <2>2 DEF EInv, Holds, NoGarbageAccess
  <2>. QED  BY <1>2, <2>1, <2>2
<1>4. Accesses(dataE.ins) =>
        (AccessCause(dataE.ins, dataE.alu) = "none" <=> Aligned(dataE.alu))
  BY DEF AccessCause, Accesses
<1>5. dataM_nxt.cause = IF dataE.cause # "none" THEN dataE.cause
                        ELSE AccessCause(dataE.ins, dataE.alu)
  BY DEF dataM_nxt
<1>6. dataE.ins.op = "store" => Accesses(dataE.ins)
  BY DEF Accesses
<1>. QED  BY <1>1, <1>2, <1>3, <1>4, <1>5, <1>6, Bubbles

\* What the decode stage reads, when it need not wait, is what the
\* instructions before it write (forward.sv).
LEMMA Forwards ==
  ASSUME TypeInv, SafeInv, NoInterrupts, CommitCycle, NEW r \in Regs, ~Blocked(r)
  PROVE  Forward(r) = RegsE[r] /\ (r = 0 \/ r # dataD.ins.rd)
<1>1. r = 0 \/ (r # dataD.ins.rd /\ ~(r = dataE.ins.rd /\ dataE.ins.op = "load"))
  BY DEF Blocked
<1>2. regs = arch.regs /\ (dataM.ins.rd # 0 => wa = dataM.ins.rd /\ wd = dataM.result)
      /\ (dataM.ins.rd = 0 => wa = 0)
  BY Commits
<1>3. /\ arch.regs \in [Regs -> Word] /\ RegsM \in [Regs -> Word]
      /\ RegsE[0] = 0
  BY RegTypes DEF TypeInv
<1>4. CASE r = 0
  BY <1>3, <1>4 DEF Forward
<1>5. CASE r # 0 /\ r = dataE.ins.rd
  <2>1. dataM_nxt.result = dataE.alu
    BY <1>1, <1>5 DEF dataM_nxt
  <2>. QED  BY <1>1, <1>3, <1>5, <2>1 DEF Forward, RegsE, Update
<1>6. CASE r # 0 /\ r # dataE.ins.rd
  <2>1. RegsE[r] = RegsM[r]
    BY <1>3, <1>6 DEF RegsE, Update
  <2>2. RegsM[r] = IF r = dataM.ins.rd THEN dataM.result ELSE arch.regs[r]
    BY <1>3, <1>6 DEF RegsM, Update
  <2>. QED  BY <1>1, <1>2, <1>6, <2>1, <2>2 DEF Forward
<1>. QED  BY <1>1, <1>4, <1>5, <1>6

\* When the pipeline moves, the instruction of E is the one of M, and what was
\* next after it is next.
LEMMA MoveToM ==
  ASSUME TypeInv, SafeInv, NoInterrupts, MoveCycle
  PROVE  /\ RegsM' = RegsE /\ (is_csr' <=> FlushesE)
         /\ regs' = arch'.regs /\ arch'.regs = RegsM /\ arch'.mem = mem
         /\ csr' = csr /\ ~is_csr /\ dataM' = dataM_nxt
<1>1. arch'.regs = RegsM /\ regs' = RegsM /\ arch'.mem = mem
  BY Commits DEF MoveCycle
<1>2. csr' = csr /\ ~is_csr /\ dataM' = dataM_nxt /\ dataM_nxt.ins = dataE.ins
  BY DEF MoveCycle, CommitCycle, dataM_nxt
<1>3. RegsM' = RegsE
  BY <1>1, <1>2 DEF RegsM, RegsE
<1>4. is_csr' <=> FlushesE
  BY <1>2 DEF is_csr, FlushesE, Flushing
<1>. QED  BY <1>1, <1>2, <1>3, <1>4

\* What was next after E comes next after M; the same for D and F, but
\* that F may turn the fetch to its target.
LEMMA MoveOld ==
  ASSUME TypeInv, SafeInv, MoveCycle
  PROVE  /\ OldE' = OldD
         /\ HoldD => OldF' = OldF
         /\ HoldF => OldD' = OldF
         /\ DecodeMoves => OldD' = OldF /\ OldF' = IF PCSel THEN target ELSE pc
<1>1. PCSel => dataF.pc # NoPC
  BY Bubbles DEF PCSel, SafeInv, FInv, Holds
<1>2. pc # NoPC
  BY DEF TypeInv, Word, NoPC
<1>3. dataE_nxt.pc = dataD.pc /\ dataD_nxt.pc = dataF.pc
      /\ \A i, ins : dataF_nxt(i, ins).pc = pc
  BY DEF dataE_nxt, dataD_nxt, dataF_nxt
<1>4. HoldD => OldF' = OldF /\ OldD' = OldD /\ OldE' = OldD
  BY Bubbles DEF HoldD, OldE, OldD, OldF
<1>5. HoldF => OldF' = OldF /\ OldD' = OldF /\ OldE' = OldD
  BY <1>3, Bubbles DEF HoldF, OldE, OldD, OldF
<1>6. ASSUME DecodeMoves
      PROVE  OldF' = (IF PCSel THEN target ELSE pc) /\ OldD' = OldF /\ OldE' = OldD
  <2>1. OldF' = IF PCSel THEN target ELSE pc
    BY <1>2, <1>3, <1>6, Bubbles DEF DecodeMoves, OldF
  <2>2. OldD' = IF dataF.pc # NoPC THEN dataF.pc ELSE OldF'
    BY <1>3, <1>6 DEF DecodeMoves, OldD
  <2>3. OldD' = OldF
    BY <1>1, <2>1, <2>2 DEF OldF
  <2>4. OldE' = IF dataD.pc # NoPC THEN dataD.pc ELSE OldD'
    BY <1>3, <1>6 DEF DecodeMoves, OldE
  <2>. QED  BY <2>1, <2>3, <2>4 DEF OldD
<1>. QED  BY <1>4, <1>5, <1>6 DEF MoveCycle

\* M keeps its part of the invariant.
LEMMA MoveMInv ==
  ASSUME TypeInv, SafeInv, NoInterrupts, NoGarbageAccess, prog' = prog, MoveCycle
  PROVE  MInv' /\ RegsInv' /\ ValidInv'
<1>1. /\ RegsM' = RegsE /\ (is_csr' <=> FlushesE)
      /\ regs' = arch'.regs /\ arch'.regs = RegsM /\ arch'.mem = mem
      /\ csr' = csr /\ ~is_csr /\ dataM' = dataM_nxt
  BY MoveToM
<1>2. /\ dreq_valid <=> Accesses(dataE.ins) /\ Aligned(dataE.alu)
      /\ dreq_valid => dataM_nxt.cause = "none"
      /\ dataE.ins.op = "store" => (dreq_valid <=> dataM_nxt.cause = "none")
      /\ dataE.pc = NoPC => ~dreq_valid /\ dataM_nxt.cause = "none"
  BY <1>1, Requests DEF SafeInv
<1>3. /\ dataM_nxt.ins = dataE.ins /\ dataM_nxt.pc = dataE.pc
      /\ dataM_nxt.valid = dataE.valid /\ dataM_nxt.csrs = dataE.csrs
  BY DEF dataM_nxt
<1>4. OldE' = OldD
  BY MoveOld
<1>5. valid' = dreq_valid
  BY DEF MoveCycle, CommitCycle
<1>6. ValidInv'
  <2>1. valid' => dataM_nxt.cause = "none" /\ Accesses(dataM_nxt.ins)
    BY <1>2, <1>3, <1>5
  <2>. QED  BY <1>1, <2>1 DEF ValidInv, is_csr, Accesses, CsrOps
<1>7. RegsInv'
  BY <1>1 DEF RegsInv
<1>8. Holds(dataM)'
  BY <1>1, <1>3 DEF Holds, SafeInv, EInv
<1>9. ASSUME dataE.pc = NoPC
      PROVE  dataM'.cause = "none" /\ mem' = arch'.mem
  BY <1>1, <1>2, <1>9 DEF MoveCycle
<1>10. ASSUME dataE.pc # NoPC
       PROVE
       LET v == Computed(dataM.ins, dataM.pc, arch.regs)'
           decode == DecodeCause(dataM'.ins, ~Aligned(dataM'.pc))
       IN  /\ dataM'.csrs = csr_rd(csr', dataM'.ins.csr)
           /\ dataM'.cause = IF decode # "none" THEN decode ELSE AccessCause(dataM'.ins, v)
           /\ dataM'.result = IF dataM'.ins.op # "load" THEN v
                              ELSE IF Aligned(v) THEN arch'.mem[v] ELSE 0
           /\ mem' = IF dataM'.ins.op = "store" /\ dataM'.cause = "none"
                     THEN [arch'.mem EXCEPT ![v] = arch'.regs[dataM'.ins.rs2]] ELSE arch'.mem
           /\ ~is_csr' => OldE' = NextOf(dataM'.ins, dataM'.pc, arch'.regs)
  <2>1. /\ dataE.csrs = csr_rd(csr, dataE.ins.csr)
        /\ dataE.alu = Computed(dataE.ins, dataE.pc, RegsM)
        /\ dataE.rs2 = RegsM[dataE.ins.rs2]
        /\ ~FlushesE => OldD = NextOf(dataE.ins, dataE.pc, RegsM)
        /\ dataE.cause = DecodeCause(dataE.ins, ~Aligned(dataE.pc))
    BY <1>1, <1>10 DEF SafeInv, EInv, Decoded
  <2>2. Computed(dataM.ins, dataM.pc, arch.regs)' = dataE.alu
    BY <1>1, <1>3, <2>1 DEF Computed
  <2>3. dataM'.cause = IF dataE.cause # "none" THEN dataE.cause
                       ELSE AccessCause(dataE.ins, dataE.alu)
    BY <1>1 DEF dataM_nxt
  <2>4. dataM'.result = IF dataE.ins.op # "load" THEN dataE.alu
                        ELSE IF Aligned(dataE.alu) THEN mem[dataE.alu] ELSE 0
    BY <1>1 DEF dataM_nxt
  <2>5. mem' = IF dataE.ins.op = "store" /\ dataM'.cause = "none"
               THEN [mem EXCEPT ![dataE.alu] = RegsM[dataE.ins.rs2]] ELSE mem
    BY <1>1, <1>2, <2>1 DEF MoveCycle
  <2>. QED  BY <1>1, <1>3, <1>4, <2>1, <2>2, <2>3, <2>4, <2>5
<1>11. MInv'
  BY <1>1, <1>3, <1>8, <1>9, <1>10 DEF MInv
<1>. QED  BY <1>6, <1>7, <1>11

\* E gets what D held, decoded with the registers RegsE.
LEMMA MoveEInv ==
  ASSUME TypeInv, SafeInv, NoInterrupts, prog' = prog, MoveCycle
  PROVE  EInv'
<1>1. RegsM' = RegsE /\ (is_csr' <=> FlushesE) /\ csr' = csr /\ ~is_csr
  BY MoveToM
<1>2. CASE dataE' = NoE
  BY <1>2, Bubbles DEF EInv, Holds, Decoded
<1>3. CASE dataE' = dataE_nxt /\ (HoldF \/ DecodeMoves)
  <2>1. /\ dataE_nxt.ins = dataD.ins /\ dataE_nxt.pc = dataD.pc
        /\ dataE_nxt.valid = dataD.valid /\ dataE_nxt.csrs = dataD.csrs
        /\ dataE_nxt.cause = dataD.cause /\ dataE_nxt.rs2 = dataD.rs2
        /\ dataE_nxt.alu = alu(dataD.ins, dataD.pc, dataD.rs1, dataD.rs2, dataD.csrs)
    BY DEF dataE_nxt
  <2>2. Holds(dataE)' /\ Decoded(dataE)'
    BY <1>3, <2>1 DEF Holds, Decoded, SafeInv, DInv
  <2>3. FlushesE' <=> FlushesD
    <3>1. dataM_nxt'.cause = IF dataD.cause # "none" THEN dataD.cause
                             ELSE AccessCause(dataD.ins, dataE_nxt.alu)
      BY <1>3, <2>1 DEF dataM_nxt
    <3>2. dataE'.ins = dataD.ins
      BY <1>3, <2>1
    <3>. QED  BY <3>1, <3>2 DEF FlushesE, FlushesD, Flushing
  <2>4. OldD' = OldF
    BY <1>3, MoveOld
  <2>5. ASSUME dataD.pc # NoPC, ~FlushesE
        PROVE  /\ dataE_nxt.csrs = csr_rd(csr, dataD.ins.csr)
               /\ dataE_nxt.alu = Computed(dataD.ins, dataD.pc, RegsE)
               /\ dataE_nxt.rs2 = RegsE[dataD.ins.rs2]
               /\ ~FlushesD => OldF = NextOf(dataD.ins, dataD.pc, RegsE)
    BY <1>1, <2>1, <2>5 DEF SafeInv, DInv, Computed
  <2>6. ASSUME dataD.pc # NoPC, ~FlushesE
        PROVE  /\ dataE'.csrs = csr_rd(csr', dataE'.ins.csr)
               /\ dataE'.alu = Computed(dataE.ins, dataE.pc, RegsM)'
               /\ dataE'.rs2 = RegsM'[dataE'.ins.rs2]
               /\ ~FlushesE' => OldD' = NextOf(dataE.ins, dataE.pc, RegsM)'
    BY <1>1, <1>3, <2>1, <2>3, <2>4, <2>5, <2>6 DEF Computed, NextOf
  <2>. QED  BY <1>1, <1>3, <2>1, <2>2, <2>6 DEF EInv
<1>. QED  BY <1>2, <1>3 DEF MoveCycle, HoldD, HoldF, DecodeMoves

\* D gets what F held, with the operands of the instructions before it.
LEMMA MoveDInv ==
  ASSUME TypeInv, SafeInv, NoInterrupts, prog' = prog, MoveCycle
  PROVE  DInv'
<1>1. RegsM' = RegsE /\ (is_csr' <=> FlushesE) /\ csr' = csr /\ ~is_csr
  BY MoveToM
<1>2. CASE HoldD
  <2>1. RegsE' = RegsE
    <3>1. RegsE' = Update(RegsM', NoE.ins.rd, dataM_nxt'.result)
      BY <1>2 DEF RegsE, HoldD
    <3>. QED  BY <1>1, <3>1, Bubbles DEF Update
  <2>2. dataD' = dataD /\ OldF' = OldF /\ dataE_nxt' = dataE_nxt
    BY <1>2, MoveOld DEF HoldD, dataE_nxt
  <2>3. FlushesD' <=> FlushesD
    BY <2>2 DEF FlushesD
  <2>. QED  BY <1>1, <2>1, <2>2, <2>3 DEF SafeInv, DInv, Holds, Decoded, NextOf
<1>3. CASE dataD' = NoD
  BY <1>3, Bubbles DEF DInv, Holds, Decoded
<1>4. CASE DecodeMoves
  <2>1. /\ dataD'.ins = dataF.ins /\ dataD'.pc = dataF.pc /\ dataD'.valid = dataF.valid
        /\ dataD'.cause = DecodeCause(dataF.ins, dataF.instr_misalign)
        /\ dataD'.csrs = csr_rd(csr, dataF.ins.csr)
        /\ dataD'.rs1 = rs1 /\ dataD'.rs2 = rs2
    BY <1>4 DEF DecodeMoves, dataD_nxt
  <2>2. Holds(dataD)'
    BY <2>1 DEF Holds, SafeInv, FInv
  <2>3. Decoded(dataD)'
    <3>1. dataF.pc = NoPC => dataF.ins.op = "nop" /\ ~dataF.instr_misalign
      BY DEF SafeInv, FInv, Holds, Nop
    <3>2. dataF.pc # NoPC => (dataF.instr_misalign <=> ~Aligned(dataF.pc))
      BY DEF SafeInv, FInv
    <3>. QED  BY <2>1, <3>1, <3>2 DEF Decoded, DecodeCause
  <2>4. /\ rs1 = RegsE[dataF.ins.rs1] /\ (dataF.ins.rs1 = 0 \/ dataF.ins.rs1 # dataD.ins.rd)
        /\ rs2 = RegsE[dataF.ins.rs2] /\ (dataF.ins.rs2 = 0 \/ dataF.ins.rs2 # dataD.ins.rd)
    <3>1. dataF.ins.rs1 \in Regs /\ dataF.ins.rs2 \in Regs
      BY DEF TypeInv, Instr
    <3>2. ~Blocked(dataF.ins.rs1) /\ ~Blocked(dataF.ins.rs2)
      BY <1>4 DEF DecodeMoves, decode_wait
    <3>3. CommitCycle
      BY DEF MoveCycle
    <3>. QED  BY <3>1, <3>2, <3>3, Forwards DEF rs1, rs2
  <2>5. RegsE' = Update(RegsE, dataD.ins.rd, dataM_nxt'.result)
    BY <1>1, <1>4 DEF DecodeMoves, RegsE, dataE_nxt
  <2>6. RegsE'[dataF.ins.rs1] = rs1 /\ RegsE'[dataF.ins.rs2] = rs2
    <3>1. RegsE \in [Regs -> Word] /\ dataF.ins.rs1 \in Regs /\ dataF.ins.rs2 \in Regs
      BY RegTypes DEF TypeInv, Instr
    <3>2. \A r \in Regs : \A w : r = 0 \/ r # dataD.ins.rd =>
            Update(RegsE, dataD.ins.rd, w)[r] = RegsE[r]
      BY <3>1 DEF Update
    <3>. QED  BY <2>4, <2>5, <3>1, <3>2
  <2>7. OldF' = IF PCSel THEN target ELSE pc
    BY <1>4, MoveOld
  <2>8. ASSUME dataF.pc # NoPC PROVE OldF' = NextOf(dataF.ins, dataF.pc, RegsE')
    <3>1. CASE dataF.ins.op \in {"branch", "jalr"}
      <4>1. target = NextOf(dataF.ins, dataF.pc, RegsE')
        BY <2>6, <3>1 DEF target, NextOf
      <4>. QED  BY <2>7, <3>1, <4>1 DEF PCSel
    <3>2. CASE dataF.ins.op \notin {"branch", "jalr"}
      <4>1. pc = NextOf(dataF.ins, dataF.pc, arch.regs)
        BY <2>8, <3>2 DEF SafeInv, FInv
      <4>. QED  BY <2>7, <3>2, <4>1 DEF PCSel, NextOf
    <3>. QED  BY <3>1, <3>2
  <2>9. ASSUME dataF.pc # NoPC
        PROVE  /\ dataD'.csrs = csr_rd(csr', dataD'.ins.csr)
               /\ dataD'.rs1 = RegsE'[dataD'.ins.rs1] /\ dataD'.rs2 = RegsE'[dataD'.ins.rs2]
               /\ OldF' = NextOf(dataD.ins, dataD.pc, RegsE)'
    BY <1>1, <2>1, <2>6, <2>8, <2>9 DEF NextOf
  <2>. QED  BY <2>1, <2>2, <2>3, <2>9 DEF DInv
<1>. QED  BY <1>2, <1>3, <1>4 DEF MoveCycle, HoldF

\* F gets what is at pc, and the pc is predicted.
LEMMA MoveFInv ==
  ASSUME TypeInv, SafeInv, prog' = prog, MoveCycle
  PROVE  FInv'
<1>1. CASE HoldD \/ HoldF
  BY <1>1 DEF HoldD, HoldF, SafeInv, FInv, Holds, NextOf
<1>2. CASE dataF' = NoF
  BY <1>2, Bubbles DEF FInv, Holds
<1>3. ASSUME NEW i \in BOOLEAN, NEW ins \in IF Aligned(pc) THEN {prog[pc]} ELSE Garbage,
             Aligned(pc) => i, dataF' = dataF_nxt(i, ins), pc' = predPC(ins)
      PROVE  FInv'
  <2>1. /\ dataF'.ins = ins /\ dataF'.pc = pc /\ dataF'.valid = (Aligned(pc) /\ i)
        /\ dataF'.instr_misalign = ~Aligned(pc)
    BY <1>3 DEF dataF_nxt
  <2>2. pc # NoPC
    BY DEF TypeInv, Word, NoPC
  <2>3. Aligned(pc) \in BOOLEAN
    BY DEF Aligned, TypeInv, Word
  <2>4. Holds(dataF)'
    BY <1>3, <2>1, <2>2, <2>3 DEF Holds
  <2>5. ins.op \notin {"branch", "jalr"} => pc' = NextOf(ins, pc, arch'.regs)
    BY <1>3 DEF predPC, NextOf
  <2>. QED  BY <2>1, <2>2, <2>4, <2>5 DEF FInv, NextOf
<1>. QED  BY <1>1, <1>2, <1>3 DEF MoveCycle, DecodeMoves

-----------------------------------------------------------------------------
(* The theorems.                                                           *)

\* The empty pipeline is at the beginning of the program.
LEMMA InitInv == Init => IInv
<1>. SUFFICES ASSUME Init PROVE IInv
  OBVIOUS
<1>1. TypeInv
  BY TypeInit
<1>2. /\ dataF = NoF /\ dataD = NoD /\ dataE = NoE /\ dataM = NoM /\ ~valid
      /\ arch.regs = regs /\ arch.mem = mem
  BY DEF Init
<1>3. FInv /\ DInv /\ EInv /\ MInv /\ RegsInv /\ ValidInv
  BY <1>2, Bubbles DEF FInv, DInv, EInv, MInv, Holds, Decoded, RegsInv, ValidInv
<1>. QED  BY <1>1, <1>3 DEF IInv

\* Each cycle keeps it, in each of its cases.
LEMMA StepInv ==
  ASSUME NoInterrupts, NoGarbageAccess, IInv, [Next]_vars
  PROVE  IInv'
<1>1. TypeInv /\ SafeInv
  BY DEF IInv, SafeInv
<1>2. TypeInv'
  BY <1>1, TypeStep
<1>3. CASE UNCHANGED vars
  <2>1. dataM_nxt' = dataM_nxt /\ dataE_nxt' = dataE_nxt /\ is_csr' = is_csr
    BY <1>3 DEF vars, dataM_nxt, dataE_nxt, is_csr
  <2>2. RegsM' = RegsM /\ RegsE' = RegsE /\ FlushesE' = FlushesE /\ FlushesD' = FlushesD
    BY <1>3, <2>1 DEF vars, RegsM, RegsE, FlushesE, FlushesD
  <2>3. OldF' = OldF /\ OldD' = OldD /\ OldE' = OldE
    BY <1>3 DEF vars, OldF, OldD, OldE
  <2>4. FInv' /\ DInv' /\ EInv'
    BY <1>1, <1>3, <2>1, <2>2, <2>3
       DEF vars, SafeInv, FInv, DInv, EInv, Holds, Decoded, NextOf, Computed
  <2>5. MInv' /\ RegsInv' /\ ValidInv'
    BY <1>1, <1>3, <2>1, <2>3
       DEF vars, SafeInv, MInv, RegsInv, ValidInv, Holds, NextOf, Computed, csr_valid
  <2>. QED  BY <1>2, <2>4, <2>5 DEF IInv
<1>4. ASSUME NEW i \in BOOLEAN, NEW d \in BOOLEAN, NEW x \in BOOLEAN, Cycle(i, d, x)
      PROVE  SafeInv'
  <2>1. prog' = prog /\ (FlushCycle \/ WaitCycle \/ MoveCycle)
    BY <1>1, <1>4, CycleCases DEF SafeInv
  <2>2. CASE FlushCycle
    BY <1>1, <2>1, <2>2, FlushKeeps
  <2>3. CASE WaitCycle
    BY <1>1, <2>1, <2>3, WaitKeeps
  <2>4. CASE MoveCycle
    BY <1>1, <2>1, <2>4, MoveMInv, MoveEInv, MoveDInv, MoveFInv DEF SafeInv
  <2>. QED  BY <2>1, <2>2, <2>3, <2>4
<1>. QED  BY <1>2, <1>3, <1>4 DEF Next, IInv, SafeInv

\* The registers of the pipeline, the CSRs and the memory hold values of their
\* types, and register 0 is 0, with interrupts or without.
THEOREM TypeCorrect == Spec => []TypeOK
<1>1. Init => TypeInv /\ prog \in Programs
  BY TypeInit DEF Init
<1>2. TypeInv /\ prog \in Programs /\ [Next]_vars => (TypeInv /\ prog \in Programs)'
  <2>1. [Next]_vars => prog' = prog
    BY DEF Next, Cycle, vars
  <2>. QED  BY <2>1, TypeStep
<1>3. TypeInv /\ prog \in Programs => TypeOK
  BY DEF TypeInv, TypeOK, PcType, CauseType
<1>. QED  BY <1>1, <1>2, <1>3, PTL DEF Spec

\* The inductive invariant holds in every cycle.
THEOREM Invariance == ASSUME NoInterrupts, NoGarbageAccess PROVE Spec => []IInv
<1>1. Init => IInv
  BY InitInv
<1>2. IInv /\ [Next]_vars => IInv'
  BY StepInv
<1>. QED  BY <1>1, <1>2, PTL DEF Spec

\* No load or store is on the data bus in a cycle that flushes it (memory.sv).
THEOREM NoSpeculation ==
  ASSUME NoInterrupts, NoGarbageAccess PROVE Spec => []NoSpeculativeAccess
<1>1. IInv => NoSpeculativeAccess
  BY NotInterrupted, NoRequestInFlush DEF IInv, NoSpeculativeAccess
<1>. QED  BY <1>1, Invariance, PTL

\* But for the store that is about to commit, memory is what the committed
\* instructions have made of it.
THEOREM PreciseMemory ==
  ASSUME NoInterrupts, NoGarbageAccess PROVE Spec => []MemoryPrecise
<1>1. IInv => MemoryPrecise
  BY DEF IInv, MInv, MemoryPrecise
<1>. QED  BY <1>1, Invariance, PTL

-----------------------------------------------------------------------------
(* The pipeline executes one instruction after the other: Pipeline          *)
(* implements Isa.                                                          *)

\* Isa and Pipeline speak of the same instructions.
LEMMA SameInstructions ==
  /\ \A w : Sequentially!Aligned(w) <=> Aligned(w)
  /\ \A w : Sequentially!NextPC(w) = NextPC(w)
  /\ \A i, a, b, c, p : Sequentially!alu(i, p, a, b, c) = alu(i, p, a, b, c)
  /\ \A i, a, b, p : Sequentially!pc_address(i, p, a, b) = pc_address(i, p, a, b)
  /\ \A i, b : Sequentially!DecodeCause(i, b) = DecodeCause(i, b)
  /\ \A i, a : Sequentially!AccessCause(i, a) = AccessCause(i, a)
  /\ \A c, n : Sequentially!csr_rd(c, n) = csr_rd(c, n)
  /\ \A c, n, w : Sequentially!CsrWrite(c, n, w) = CsrWrite(c, n, w)
  /\ \A c, p, s : Sequentially!Trap(c, p, s) = Trap(c, p, s)
  /\ \A c : Sequentially!Mret(c) = Mret(c)
  /\ Sequentially!CsrOps = CsrOps
<1>1. /\ \A w : Sequentially!Aligned(w) <=> Aligned(w)
      /\ Sequentially!CsrOps = CsrOps
      /\ \A c : Sequentially!Mret(c) = Mret(c)
  BY DEF Sequentially!Aligned, Aligned, Sequentially!CsrOps, CsrOps, Sequentially!Mret, Mret
<1>2. \A w : Sequentially!NextPC(w) = NextPC(w)
  BY <1>1 DEF Sequentially!NextPC, NextPC
<1>3. /\ \A a, b : Sequentially!Plus(a, b) = Plus(a, b)
      /\ \A a, b : Sequentially!Or(a, b) = Or(a, b)
  BY DEF Sequentially!Plus, Plus, Sequentially!Or, Or, Sequentially!Bit, Bit
<1>4. \A i, a, b, c, p : Sequentially!alu(i, p, a, b, c) = alu(i, p, a, b, c)
  BY <1>2, <1>3 DEF Sequentially!alu, alu
<1>5. \A i, a, b, p : Sequentially!pc_address(i, p, a, b) = pc_address(i, p, a, b)
  BY <1>2, <1>3 DEF Sequentially!pc_address, pc_address
<1>6. \A i, b : Sequentially!DecodeCause(i, b) = DecodeCause(i, b)
  BY DEF Sequentially!DecodeCause, DecodeCause
<1>7. \A i, a : Sequentially!AccessCause(i, a) = AccessCause(i, a)
  BY <1>1 DEF Sequentially!AccessCause, AccessCause
<1>8. \A c, n : Sequentially!csr_rd(c, n) = csr_rd(c, n)
  BY DEF Sequentially!csr_rd, csr_rd, Sequentially!Value, Value
<1>9. \A c, n, w : Sequentially!CsrWrite(c, n, w) = CsrWrite(c, n, w)
  BY DEF Sequentially!CsrWrite, CsrWrite, Sequentially!Bit, Bit
<1>10. \A c, p, s : Sequentially!Trap(c, p, s) = Trap(c, p, s)
  BY DEF Sequentially!Trap, Trap, Sequentially!EnterTrap, EnterTrap, Sequentially!mcause, mcause
<1>. QED  BY <1>1, <1>2, <1>4, <1>5, <1>6, <1>7, <1>8, <1>9, <1>10

\* The instruction in M is the one the sequential machine is at.
ResultM == Computed(dataM.ins, dataM.pc, arch.regs)

\* It is at the same pc, has the same result and is found illegal or
\* misaligned in the same way.
LEMMA AtM ==
  ASSUME TypeInv, SafeInv, dataM.pc # NoPC
  PROVE  /\ real_pc = dataM.pc /\ dataM.valid = Aligned(real_pc)
         /\ Aligned(real_pc) =>
              /\ Sequentially!ins = dataM.ins /\ Sequentially!result = ResultM
              /\ dataM.cause = IF DecodeCause(dataM.ins, FALSE) # "none"
                               THEN DecodeCause(dataM.ins, FALSE)
                               ELSE AccessCause(dataM.ins, ResultM)
         /\ ~Aligned(real_pc) => dataM.cause \in {"illegal_instr", "instr_misalign"}
         /\ dataM.cause = "none" => Sequentially!Legal
<1>1. real_pc = dataM.pc
  BY DEF real_pc
<1>2. /\ dataM.ins \in IF Aligned(real_pc) THEN {prog[real_pc]} ELSE Garbage
      /\ dataM.valid = Aligned(real_pc)
      /\ dataM.cause = IF DecodeCause(dataM.ins, ~Aligned(real_pc)) # "none"
                       THEN DecodeCause(dataM.ins, ~Aligned(real_pc))
                       ELSE AccessCause(dataM.ins, ResultM)
  BY <1>1 DEF SafeInv, MInv, Holds, ResultM
<1>3. ASSUME Aligned(real_pc)
      PROVE  /\ Sequentially!ins = dataM.ins
             /\ Sequentially!result = ResultM
             /\ dataM.cause = IF DecodeCause(dataM.ins, FALSE) # "none"
                              THEN DecodeCause(dataM.ins, FALSE)
                              ELSE AccessCause(dataM.ins, ResultM)
  <2>1. Sequentially!ins = dataM.ins
    BY <1>2, <1>3 DEF Sequentially!ins
  <2>2. Sequentially!result = ResultM
    BY <1>1, <2>1, SameInstructions DEF Sequentially!result, ResultM, Computed
  <2>3. DecodeCause(dataM.ins, ~Aligned(real_pc)) = DecodeCause(dataM.ins, FALSE)
    BY <1>3 DEF DecodeCause
  <2>. QED  BY <1>2, <2>1, <2>2, <2>3
<1>4. ~Aligned(real_pc) => dataM.cause \in {"illegal_instr", "instr_misalign"}
  BY <1>2 DEF DecodeCause
<1>5. dataM.cause = "none" => Sequentially!Legal
  BY <1>3, <1>4, SameInstructions DEF Sequentially!Legal
<1>. QED  BY <1>1, <1>2, <1>3, <1>4, <1>5

\* An instruction that flushes nothing commits: it is computed from the
\* committed registers, and what follows it is where it goes on.
LEMMA CommitStep ==
  ASSUME TypeInv, SafeInv, NoInterrupts, prog' = prog, CommitCycle,
         real_pc' = OldE, dataM.pc # NoPC
  PROVE  Sequentially!Next
<1>1. /\ dataM.cause = "none" /\ ~is_csr /\ csr' = csr
      /\ dataM.ins.op \notin CsrOps \cup {"mret"}
  BY DEF CommitCycle, is_csr
<1>2. /\ real_pc = dataM.pc /\ dataM.valid = Aligned(real_pc)
      /\ Sequentially!Legal /\ Aligned(real_pc)
      /\ Sequentially!ins = dataM.ins /\ Sequentially!result = ResultM
      /\ DecodeCause(dataM.ins, FALSE) = "none"
      /\ AccessCause(dataM.ins, ResultM) = "none"
  BY <1>1, AtM
<1>3. /\ arch'.regs = RegsM /\ arch'.mem = mem
      /\ instret' = 1 - instret
  BY <1>2, Commits DEF CommitCycle
<1>4. real_pc' = NextOf(dataM.ins, real_pc, arch.regs)
  BY <1>1, <1>2 DEF SafeInv, MInv
<1>5. /\ dataM.result = IF dataM.ins.op # "load" THEN ResultM
                        ELSE IF Aligned(ResultM) THEN arch.mem[ResultM] ELSE 0
      /\ mem = IF dataM.ins.op = "store"
               THEN [arch.mem EXCEPT ![ResultM] = arch.regs[dataM.ins.rs2]] ELSE arch.mem
  BY <1>1 DEF SafeInv, MInv, ResultM
<1>6. arch'.regs = IF dataM.ins.rd = 0 THEN arch.regs
                   ELSE [arch.regs EXCEPT ![dataM.ins.rd] = dataM.result]
  BY <1>3 DEF RegsM, Update
<1>7. CASE dataM.ins.op \in {"nop", "alu", "long"}
  BY <1>1, <1>2, <1>3, <1>4, <1>5, <1>6, <1>7, SameInstructions
     DEF Sequentially!Next, Sequentially!Compute, Sequentially!SetReg, Sequentially!Reported,
         NextOf
<1>8. CASE dataM.ins.op = "load"
  <2>1. Aligned(ResultM)
    BY <1>2, <1>8 DEF AccessCause
  <2>. QED
    BY <1>1, <1>2, <1>3, <1>4, <1>5, <1>6, <1>8, <2>1, SameInstructions
       DEF Sequentially!Next, Sequentially!Load, Sequentially!SetReg, Sequentially!Reported,
           NextOf
<1>9. CASE dataM.ins.op = "store"
  <2>1. dataM.ins.rd = 0
    BY <1>9 DEF TypeInv, Instr
  <2>. QED
    BY <1>1, <1>2, <1>3, <1>4, <1>5, <1>6, <1>9, <2>1, SameInstructions
       DEF Sequentially!Next, Sequentially!Store, Sequentially!Reported, NextOf
<1>10. CASE dataM.ins.op \in {"branch", "jal", "jalr"}
  BY <1>1, <1>2, <1>3, <1>4, <1>5, <1>6, <1>10, SameInstructions
     DEF Sequentially!Next, Sequentially!Jump, Sequentially!SetReg, Sequentially!Reported,
         NextOf
<1>11. dataM.ins.op \notin {"ecall", "illegal"}
  BY <1>2 DEF DecodeCause
<1>12. dataM.ins.op \in Ops
  BY DEF TypeInv, Instr
<1>. QED  BY <1>1, <1>7, <1>8, <1>9, <1>10, <1>11, <1>12 DEF Ops

\* A trap, a CSR instruction or mret takes effect in the cycle that clears M;
\* while a fetch is waited for, nothing has happened.
LEMMA FlushStep ==
  ASSUME TypeInv, SafeInv, NoInterrupts, prog' = prog, FlushCycle
  PROVE  Sequentially!Next \/ UNCHANGED Sequentially!isaVars
<1>1. is_csr /\ dataM.pc # NoPC
  BY FlushIsInstr DEF FlushCycle, SafeInv
<1>2. /\ real_pc = dataM.pc /\ dataM.valid = Aligned(real_pc)
      /\ Aligned(real_pc) =>
           /\ Sequentially!ins = dataM.ins /\ Sequentially!result = ResultM
           /\ dataM.cause = IF DecodeCause(dataM.ins, FALSE) # "none"
                            THEN DecodeCause(dataM.ins, FALSE)
                            ELSE AccessCause(dataM.ins, ResultM)
      /\ ~Aligned(real_pc) => dataM.cause \in {"illegal_instr", "instr_misalign"}
      /\ dataM.cause = "none" => Sequentially!Legal
  BY <1>1, AtM
<1>3. ~interrupted
  BY NotInterrupted
<1>4. CASE dataM' = dataM /\ csr' = csr /\ arch' = arch /\ instret' = instret
  <2>1. real_pc' = real_pc
    BY <1>1, <1>4 DEF real_pc
  <2>. QED  BY <1>4, <2>1 DEF Sequentially!isaVars
<1>5. CASE /\ dataM' = NoM /\ pc' = pc_csr
           /\ csr' = csr_nxt
           /\ arch' = [regs |-> regs', mem |-> mem]
           /\ instret' = IF dataM.valid THEN 1 - instret ELSE instret
  <2>1. real_pc' = pc_csr
    BY <1>5, Bubbles DEF FlushCycle, real_pc
  <2>2. regs' = Update(regs, wa, wd) /\ arch'.regs = regs' /\ arch'.mem = mem
    BY <1>5 DEF FlushCycle
  <2>3. dataM.ins.op # "store" \/ dataM.cause # "none" => mem = arch.mem
    BY <1>1 DEF SafeInv, MInv
  <2>4. CASE dataM.cause # "none"
    <3>1. ~csr_valid /\ wa = 0
      BY <1>1, <2>4 DEF csr_valid, wa
    <3>2. arch'.regs = arch.regs /\ arch'.mem = arch.mem
      BY <2>2, <2>3, <2>4, <3>1 DEF SafeInv, RegsInv, Update
    <3>3. csr' = Trap(csr, real_pc, dataM.cause) /\ real_pc' = csr.mtvec
      BY <1>5, <2>1, <2>4 DEF csr_nxt, pc_csr
    <3>4. Sequentially!Exception(dataM.cause)
      BY <3>2, <3>3, SameInstructions DEF Sequentially!Exception
    <3>5. CASE Aligned(real_pc)
      <4>1. instret' = 1 - instret
        BY <1>2, <1>5, <3>5
      <4>2. Sequentially!Fault
        BY <1>2, <2>4, <3>4, <3>5, <4>1, SameInstructions
           DEF Sequentially!Fault, Sequentially!Reported
      <4>. QED  BY <4>2 DEF Sequentially!Next
    <3>6. CASE ~Aligned(real_pc)
      <4>1. instret' = instret
        BY <1>2, <1>5, <3>6
      <4>2. Sequentially!Misfetch
        BY <1>2, <3>4, <3>6, <4>1, SameInstructions DEF Sequentially!Misfetch
      <4>. QED  BY <4>2 DEF Sequentially!Next
    <3>. QED  BY <3>5, <3>6
  <2>5. CASE dataM.cause = "none"
    <3>1. /\ Aligned(real_pc) /\ Sequentially!Legal
          /\ Sequentially!ins = dataM.ins /\ Sequentially!result = ResultM
          /\ instret' = 1 - instret
      BY <1>2, <1>5, <2>5
    <3>2. dataM.ins.op \in CsrOps \cup {"mret"}
      BY <1>1, <2>5 DEF is_csr
    <3>3. arch'.mem = arch.mem
      BY <2>2, <2>3, <3>2 DEF CsrOps
    <3>4. CASE dataM.ins.op \in CsrOps
      <4>1. csr_valid
        BY <2>5, <3>4 DEF csr_valid
      <4>2. /\ csr' = CsrWrite(csr, dataM.ins.csr, dataM.result)
            /\ real_pc' = NextPC(real_pc)
        BY <1>3, <1>5, <2>1, <2>5, <4>1 DEF csr_nxt, pc_csr
      <4>3. dataM.result = ResultM /\ dataM.csrs = csr_rd(csr, dataM.ins.csr)
        BY <1>1, <3>4 DEF SafeInv, MInv, ResultM, CsrOps
      <4>4. wa = dataM.ins.rd /\ wd = dataM.csrs
        BY <4>1 DEF wa, wd
      <4>5. regs' = Update(arch.regs, dataM.ins.rd, dataM.csrs)
        BY <2>2, <4>4 DEF SafeInv, RegsInv, Update, TypeInv
      <4>6. Sequentially!AccessCsr
        BY <2>2, <3>1, <3>3, <3>4, <4>2, <4>3, <4>5, SameInstructions
           DEF Sequentially!AccessCsr, Sequentially!SetReg, Sequentially!Reported, Update
      <4>. QED  BY <4>6 DEF Sequentially!Next
    <3>5. CASE dataM.ins.op = "mret"
      <4>1. ~csr_valid /\ wa = 0
        BY <1>1, <3>5 DEF csr_valid, CsrOps, wa
      <4>2. arch'.regs = arch.regs
        BY <2>2, <4>1 DEF SafeInv, RegsInv, Update
      <4>3. csr' = Mret(csr) /\ real_pc' = csr.mepc
        BY <1>3, <1>5, <2>1, <2>5, <3>5, <4>1 DEF csr_nxt, pc_csr
      <4>4. Sequentially!ReturnFromTrap
        BY <3>1, <3>3, <3>5, <4>2, <4>3, SameInstructions
           DEF Sequentially!ReturnFromTrap, Sequentially!Reported
      <4>. QED  BY <4>4 DEF Sequentially!Next
    <3>. QED  BY <3>2, <3>4, <3>5
  <2>. QED  BY <2>4, <2>5
<1>. QED  BY <1>4, <1>5 DEF FlushCycle

\* A step of the pipeline is a step of the sequential machine or none.
LEMMA IsaStep ==
  ASSUME NoInterrupts, NoGarbageAccess, IInv, [Next]_vars
  PROVE  [Sequentially!Next]_(Sequentially!isaVars)
<1>1. TypeInv /\ SafeInv
  BY DEF IInv, SafeInv
<1>2. CASE UNCHANGED vars
  BY <1>2 DEF vars, Sequentially!isaVars, real_pc
<1>3. ASSUME NEW i \in BOOLEAN, NEW d \in BOOLEAN, NEW x \in BOOLEAN, Cycle(i, d, x)
      PROVE  Sequentially!Next \/ UNCHANGED Sequentially!isaVars
  <2>1. prog' = prog /\ (FlushCycle \/ WaitCycle \/ MoveCycle)
    BY <1>1, <1>3, CycleCases DEF SafeInv
  <2>2. CASE FlushCycle
    BY <1>1, <2>1, <2>2, FlushStep
  <2>3. CASE WaitCycle \/ MoveCycle
    <3>1. CommitCycle
      BY <2>3 DEF WaitCycle, MoveCycle
    <3>2. ASSUME WaitCycle PROVE real_pc' = OldE
      BY <3>2, Bubbles DEF WaitCycle, real_pc, OldE, OldD, OldF
    <3>3. ASSUME MoveCycle PROVE real_pc' = OldE
      <4>1. OldE' = OldD
        BY <1>1, <3>3, MoveOld
      <4>2. dataM'.pc = dataE.pc
        BY <3>3 DEF MoveCycle, dataM_nxt
      <4>3. real_pc' = IF dataM'.pc # NoPC THEN dataM'.pc ELSE OldE'
        BY DEF real_pc, OldE, OldD, OldF
      <4>4. OldE = IF dataE.pc # NoPC THEN dataE.pc ELSE OldD
        BY DEF OldE
      <4>. QED  BY <4>1, <4>2, <4>3, <4>4
    <3>4. real_pc' = OldE
      BY <2>3, <3>2, <3>3
    <3>5. CASE dataM.pc # NoPC
      BY <1>1, <2>1, <3>1, <3>4, <3>5, CommitStep
    <3>6. CASE dataM.pc = NoPC
      <4>1. real_pc = OldE /\ ~dataM.valid
        BY <1>1, <3>6 DEF real_pc, OldE, OldD, OldF, SafeInv, MInv, Holds
      <4>2. arch' = arch /\ csr' = csr /\ instret' = instret
        BY <3>1, <3>6, <4>1 DEF CommitCycle
      <4>. QED  BY <2>1, <3>4, <4>1, <4>2 DEF Sequentially!isaVars
    <3>. QED  BY <3>5, <3>6
  <2>. QED  BY <2>1, <2>2, <2>3
<1>. QED  BY <1>2, <1>3 DEF Next

\* What has been committed is what executing one instruction after the other
\* gives: forwarding, stalls, the branch prediction and the flush of traps are
\* not seen in the registers, the memory, the CSRs, the pc or the number of
\* instructions reported (core.sv, DifftestInstrCommit).
THEOREM PipelineIsSequential ==
  ASSUME NoInterrupts, NoGarbageAccess PROVE Spec => Sequential
<1>1. IInv /\ [Next]_vars => [Sequentially!Next]_(Sequentially!isaVars)
  BY IsaStep
<1>. QED  BY <1>1, Invariance, PTL DEF Spec, Sequential, Sequentially!Spec
=============================================================================
