----------------------------- MODULE MemSystem -----------------------------
(***************************************************************************)
(* vsrc/VTop.sv: the data cache and the instruction cache, the arbiter that *)
(* joins their cache buses, and one memory.  The unprefixed variables of    *)
(* DCache are the data cache's; those of the instruction cache begin with   *)
(* an i.  The core is reduced to what decides its requests: the pc, the     *)
(* register F, csr_flush and what vsrc/pipeline/hazard/hazard.sv does with  *)
(* them.  Which data requests the instructions make, where they branch and  *)
(* what else they wait for is left open: the core does all a program can.   *)
(***************************************************************************)
EXTENDS CBusArbiter

CONSTANTS ReqAddrs, ReqWords,  \* what the data side asks for and stores
          Fetches,   \* the fetch requests; high is bit 2 of the address
          LowLanes,  \* bits 31:0 of a word
          RESET_CYCLES, MAX_HITS

ASSUME MemAssumption ==
  /\ NUM_INPUTS = 2
  /\ ReqAddrs \subseteq Addr
  /\ Fetches \subseteq [valid : {TRUE}, addr : Addr, high : BOOLEAN]
  /\ ReqWords \subseteq Word /\ LowLanes \subseteq Lanes
  /\ RESET_CYCLES \in Nat /\ RESET_CYCLES > SET_NUM /\ MAX_HITS \in Nat

VARIABLES istate, icounter, imeta, iram, iage, ilru_cnt, ireset_cnt,
          ireq,    \* the fetch request: the pc
          held,    \* cycles for which reset has been asserted
          answer, ianswer,  \* what the data and the fetch port got at the last edge
          dataF,   \* register F: an instruction word and its pc
          csr_flush  \* write-back has a trap, a CSR instruction or an interrupt

icacheVars == <<istate, icounter, imeta, iram, iage, ilru_cnt, ireset_cnt>>
coreVars == <<dreq, ireq, answer, ianswer, dataF, csr_flush>>
vars == <<reset, held, cacheVars, icacheVars, arbiterVars, deviceVars, coreVars>>

CodeAddrs == {r.addr : r \in Fetches}

\* The macros IREQ_TO_DREQ and DRESP_TO_IRESP.
IREQ_TO_DREQ(r) == [valid |-> r.valid, addr |-> r.addr, strobe |-> {}, data |-> ZeroWord]
Half(word, r) ==
  [l \in IF r.high THEN Lanes \ LowLanes ELSE LowLanes |-> word[l]]

I == INSTANCE DCache WITH
       dreq <- IREQ_TO_DREQ(ireq), state <- istate, counter <- icounter,
       meta <- imeta, ram <- iram, age <- iage, lru_cnt <- ilru_cnt,
       reset_cnt <- ireset_cnt

\* The bus of the data cache: the arbiter's grant hides the other side.
dtx == IF busy /\ index = 0 THEN tx ELSE NoTransaction

DataSide == INSTANCE CacheSystem WITH tx <- dtx

\* The bus of the instruction cache, of the memory the part code is in.
itx == IF busy /\ index = 1 THEN tx ELSE NoTransaction
CodeLine(a) == \E c \in CodeAddrs : c.cached = a.cached /\ c.tag = a.tag /\ c.index = a.index
imem == [a \in Addr |-> IF CodeLine(a) THEN mem[a] ELSE InitMem[a]]

FetchSide == INSTANCE CacheSystem WITH
  tx <- itx, mem <- imem, ReqAddrs <- CodeAddrs, answer <- ianswer,
  dreq <- IF reset THEN DataSide!NoReq ELSE IREQ_TO_DREQ(ireq),
  state <- istate, counter <- icounter, meta <- imeta, ram <- iram,
  age <- iage, lru_cnt <- ilru_cnt, reset_cnt <- ireset_cnt

\* VTop.sv wires the data cache to input 0.
InstructionFirst == [i \in Input |-> IF i = 0 THEN I!creq ELSE creq]
ireqs == [i \in Input |-> IF i = 0 THEN creq ELSE I!creq]

-----------------------------------------------------------------------------
NoAnswer == [ok |-> FALSE, data |-> ZeroWord]
NoInstr == [valid |-> FALSE, pc |-> [valid |-> FALSE], raw_instr |-> <<>>]

Init ==
  /\ CacheInit /\ I!CacheInit
  /\ ArbiterInit
  /\ DeviceInit
  /\ reset = TRUE /\ held = 0
  /\ dreq = DataSide!NoReq
  /\ ireq \in Fetches
  /\ answer = NoAnswer /\ ianswer = NoAnswer
  /\ dataF = NoInstr
  /\ csr_flush = FALSE

dmem_wait(dcresp) == dreq.valid /\ ~dbus_ok(dcresp)
imem_wait(icresp) == ~I!dbus_ok(icresp)

is_stall(dcresp, icresp) == csr_flush /\ (dmem_wait(dcresp) \/ imem_wait(icresp))

\* The next instruction comes to the memory stage, which makes no new request in
\* a cycle of csr_flush.
NextInE == /\ DataSide!NewRequest
           /\ csr_flush' /\ ~dreq.valid => dreq' = DataSide!NoReq

TakesFetch(icresp) ==
  dataF' = [valid |-> TRUE, pc |-> ireq, raw_instr |-> Half(I!dresp(icresp).data, ireq)]

\* Every stage keeps its instruction; a fetch answered now is made again.
Stall(dcresp) ==
  /\ ~csr_flush /\ dmem_wait(dcresp)
  /\ UNCHANGED <<dreq, ireq, dataF>>

\* exe_wait or decode_wait, or a branch in F that goes elsewhere (PCSel) while
\* the fetch goes on: F and the pc stay, and a fetch answered is made again.
Wait(dcresp) ==
  /\ ~csr_flush /\ ~dmem_wait(dcresp)
  /\ NextInE
  /\ UNCHANGED <<ireq, dataF>>

\* Nothing but the fetch waits: F gets a bubble.
Bubble(dcresp, icresp) ==
  /\ ~csr_flush /\ ~dmem_wait(dcresp) /\ imem_wait(icresp)
  /\ NextInE
  /\ dataF' = NoInstr
  /\ UNCHANGED ireq

\* Nothing waits: F takes what was fetched, unless PCSel drops it, and the pc
\* goes on.
Advance(dcresp, icresp) ==
  /\ ~csr_flush /\ ~dmem_wait(dcresp) /\ ~imem_wait(icresp)
  /\ NextInE
  /\ dataF' = NoInstr \/ TakesFetch(icresp)
  /\ ireq' \in Fetches

\* csr_flush: F is cleared, and E with it unless it waits for its data; the pc
\* goes on when neither bus waits.
Flush(dcresp, icresp) ==
  /\ csr_flush
  /\ dreq' = IF dmem_wait(dcresp) THEN dreq ELSE DataSide!NoReq
  /\ dataF' = NoInstr
  /\ IF is_stall(dcresp, icresp) THEN UNCHANGED ireq ELSE ireq' \in Fetches

Core(dcresp, icresp) ==
  /\ csr_flush' \in BOOLEAN /\ (is_stall(dcresp, icresp) => csr_flush')
  /\ \/ Stall(dcresp)
     \/ Wait(dcresp)
     \/ Bubble(dcresp, icresp)
     \/ Advance(dcresp, icresp)
     \/ Flush(dcresp, icresp)

Answers(dcresp, icresp) ==
  /\ answer' = IF dbus_ok(dcresp)
               THEN [ok |-> TRUE, data |-> IF dreq.strobe = {} THEN dresp(dcresp).data
                                                              ELSE ZeroWord]
               ELSE NoAnswer
  /\ ianswer' = IF I!dbus_ok(icresp) THEN [ok |-> TRUE, data |-> I!dresp(icresp).data]
                ELSE NoAnswer

Cycle(enable) ==
  LET oresp  == Resp(enable)
      dcresp == iresp(0, oresp)
      icresp == iresp(1, oresp)
  IN  /\ ~reset
      /\ CacheEdge(dcresp)
      /\ I!CacheEdge(icresp)
      /\ ArbiterEdge(ireqs, oresp)
      /\ DeviceEdge(enable, oreq(ireqs))
      /\ Core(dcresp, icresp)
      /\ Answers(dcresp, icresp)
      /\ UNCHANGED reset /\ held' = 0

\* The machine starts in reset and is not reset again.
ResetCycle ==
  /\ reset
  /\ CacheEdge(NoResp) /\ I!CacheEdge(NoResp)
  /\ ArbiterEdge(ireqs, NoResp)
  /\ DeviceReset
  /\ held' = held + 1
  /\ reset' = (held + 1 < RESET_CYCLES)
  /\ UNCHANGED coreVars

Next == (\E enable \in BOOLEAN : Cycle(enable)) \/ ResetCycle

Spec == Init /\ [][Next]_vars

Fairness == WF_vars(Cycle(TRUE)) /\ WF_vars(ResetCycle)

FairSpec == Spec /\ Fairness

-----------------------------------------------------------------------------
TypeOK ==
  /\ CacheTypeOK /\ I!CacheTypeOK
  /\ DeviceTypeOK
  /\ ArbiterTypeOK
  /\ ireq \in Fetches
  /\ csr_flush \in BOOLEAN

\* The memory's assertions hold of the request that comes through the arbiter:
\* a master in a transaction neither withdraws nor changes its request, and
\* the grant does not move.
BusHeld == ~reset => RequestHeld(oreq(ireqs))

\* Each cache behaves behind the arbiter as one that has the memory for itself
\* (CacheSystem), however the other side's transactions are interleaved.  By
\* the theorems of CacheProofs, each port is then a plain memory.
DataSideAlone == DataSide!Spec
FetchSideAlone == FetchSide!Spec

\* What reaches register F is the half of the code word at its pc.
FetchedIsCode ==
  dataF.valid => dataF.raw_instr = Half(InitMem[dataF.pc.addr], dataF.pc)

\* The arbiter always prefers the data side, yet every fetch that is asked for
\* is answered, with the word at its address, whatever the data side asks for
\* and however the core waits or flushes: a cache leaves the bus between its
\* requests, and no redirection withdraws a fetch.
FetchAnswered ==
  \A r \in Fetches :
    (~reset /\ ireq = r) ~> (ianswer.ok /\ ianswer.data = InitMem[r.addr])

DataAnswered == dreq.valid ~> answer.ok
=============================================================================
