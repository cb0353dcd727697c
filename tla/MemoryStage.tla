---------------------------- MODULE MemoryStage ----------------------------
(***************************************************************************)
(* The memory stage of the pipeline, vsrc/pipeline/memory: misalignment,    *)
(* the request on the data bus and its abort, the lanes of a load and of a  *)
(* store (readdata.sv, writedata.sv), between the registers E and M as      *)
(* hazard.sv moves them.  The data bus is what CacheSystem shows it to be,  *)
(* a memory of words that answers in some cycle.                            *)
(*                                                                          *)
(* A register is a function from its LANES bytes (eight in the code) to     *)
(* numbers; an address is a number.  Of other instructions only what        *)
(* concerns the stage is kept: whether they flush when they are in M.       *)
(***************************************************************************)
EXTENDS Integers

CONSTANTS LANES,     \* bytes of a word: 8 in the code
          WORDS,     \* words of memory
          Addrs,     \* the addresses used
          StoreData, \* the registers stored
          InitMem    \* memory at the start

Byte == 0..255
Lane == 0..(LANES - 1)
Word == [Lane -> Byte]
Sizes == {s \in {1, 2, 4, 8} : s <= LANES}

ASSUME MemoryStageAssumption ==
  /\ LANES \in {4, 8}
  /\ WORDS \in Nat
  /\ Addrs \subseteq 0..(WORDS * LANES - 1)
  /\ StoreData \subseteq Word
  /\ InitMem \in [0..(WORDS - 1) -> Word]

VARIABLES mem,   \* the memory behind the data bus, by word
          valid, \* memory.sv: a request was on the bus in the last cycle
          dataE, \* register E: an instruction, with alu as addr
          dataM  \* register M: is_csr of the instruction, and its result

vars == <<mem, valid, dataE, dataM>>

Zero == [l \in Lane |-> 0]
Other(op) == [op |-> op, addr |-> 0, size |-> 1, mem_unsigned |-> FALSE, rs2 |-> Zero]
Bubble == Other("none")
Nothing == [csr |-> FALSE, result |-> Zero]

\* decoder.sv: lb, lh, lw, ld, lbu, lhu, lwu; sb, sh, sw, sd; an instruction
\* that is_csr.  What else there is passes the stage like a bubble.
Loads ==
  {e \in [op : {"load"}, addr : Addrs, size : Sizes, mem_unsigned : BOOLEAN, rs2 : {Zero}] :
     e.mem_unsigned => e.size < LANES}
Stores == [op : {"store"}, addr : Addrs, size : Sizes, mem_unsigned : {FALSE}, rs2 : StoreData]
Instrs == Loads \cup Stores \cup {Other("csr")}

Accesses(e) == e.op \in {"load", "store"}
memory_misalign(e) == e.addr % e.size # 0

\* The word of the bus an address is in, and its first lane: addr[2:0],
\* addr[2:1] or addr[2], in units of the size.
word(e) == e.addr \div LANES
lane(e) == ((e.addr % LANES) \div e.size) * e.size

\* writedata.sv.
strobe(e) == lane(e)..(lane(e) + e.size - 1)
wd(e) == [l \in Lane |-> IF l \in strobe(e) THEN e.rs2[l - lane(e)] ELSE 0]

\* readdata.sv.
sign_bit(e, _rd) == ~e.mem_unsigned /\ _rd[lane(e) + e.size - 1] >= 128
rd(e, _rd) ==
  [k \in Lane |-> IF k < e.size THEN _rd[lane(e) + k] ELSE IF sign_bit(e, _rd) THEN 255 ELSE 0]

\* writeback.sv: without interrupts only the instruction in M flushes.
csr_flush == dataM.csr

\* Mutants: a request is not stopped by a flush.
NoFlush == FALSE

\* memory.sv: a new request is not made in a flush; one that is out is kept.
flush == csr_flush /\ ~valid
dreq_valid == Accesses(dataE) /\ ~flush /\ ~memory_misalign(dataE)
dmem_wait(d) == dreq_valid /\ ~d

\* What goes to M.  The result of a misaligned access is never read, that of
\* another instruction is not the stage's.
dataM_nxt ==
  [csr    |-> dataE.op = "csr" \/ (Accesses(dataE) /\ memory_misalign(dataE)),
   result |-> IF dataE.op = "load" /\ ~memory_misalign(dataE)
              THEN rd(dataE, mem[word(dataE)]) ELSE Zero]

\* The bus, when it answers: the strobed lanes of the word are written.
Answered(d) ==
  mem' = IF dreq_valid /\ d /\ dataE.op = "store"
         THEN [mem EXCEPT ![word(dataE)] =
                 [l \in Lane |-> IF l \in strobe(dataE) THEN wd(dataE)[l] ELSE @[l]]]
         ELSE mem

Init ==
  /\ mem = InitMem
  /\ valid = FALSE
  /\ dataE = Bubble
  /\ dataM = Nothing

\* hazard.sv, for the registers E and M; d is data_ok.  The other waits show
\* as a bubble that comes to E.
Move(d) ==
  /\ ~csr_flush /\ ~dmem_wait(d)
  /\ dataM' = dataM_nxt
  /\ dataE' \in Instrs \cup {Bubble}

Hold(d) ==
  /\ ~csr_flush /\ dmem_wait(d)
  /\ dataM' = Nothing
  /\ UNCHANGED dataE

\* While a fetch is waited for (imem_wait) M goes on flushing.
Flush(d, imem_wait) ==
  /\ csr_flush
  /\ dataE' = IF dmem_wait(d) THEN dataE ELSE Bubble
  /\ dataM' = IF dmem_wait(d) \/ imem_wait THEN dataM ELSE Nothing

Cycle(d) ==
  /\ Move(d) \/ Hold(d) \/ (\E imem_wait \in BOOLEAN : Flush(d, imem_wait))
  /\ Answered(d)
  /\ valid' = dreq_valid

Next == \E d \in BOOLEAN : Cycle(d)

Spec == Init /\ [][Next]_vars

-----------------------------------------------------------------------------
(* Properties.                                                              *)

TypeOK ==
  /\ mem \in [0..(WORDS - 1) -> Word]
  /\ valid \in BOOLEAN
  /\ dataE \in Instrs \cup {Bubble}
  /\ dataM \in [csr : BOOLEAN, result : Word]

\* The bytes of memory, in the order of their addresses.
Bytes(m) == [a \in 0..(WORDS * LANES - 1) |-> m[a \div LANES][a % LANES]]

Port == INSTANCE ByteMemory
          WITH InitBytes <- Bytes(InitMem), bytes <- Bytes(mem), todo <- dataE, done <- dataM

\* Loads and stores of every size are those of a memory of bytes: each one is
\* performed whole and once, when it leaves E, on its own bytes and no others,
\* with the right sign; none that is misaligned or flushed is performed
\* (memory.sv, readdata.sv, writedata.sv).
ByteAddressed == Port!Spec
=============================================================================
