--------------------------- MODULE MemSystemProofs ---------------------------
(***************************************************************************)
(* Proofs about MemSystem, for every size of the caches, every memory map   *)
(* and every request.  Each cache behind the arbiter is shown to be the one *)
(* of CacheSystem, whose theorems (CacheProofs) then hold of it: they are   *)
(* used here through two instances of that module.                         *)
(***************************************************************************)
EXTENDS MemSystem, TLAPS

DP == INSTANCE CacheProofs WITH tx <- dtx

FP == INSTANCE CacheProofs WITH
  tx <- itx, mem <- imem, ReqAddrs <- CodeAddrs, answer <- ianswer,
  dreq <- IF reset THEN DataSide!NoReq ELSE IREQ_TO_DREQ(ireq),
  state <- istate, counter <- icounter, meta <- imeta, ram <- iram,
  age <- iage, lru_cnt <- ilru_cnt, reset_cnt <- ireset_cnt

\* What the instances assume of the constants.
LEMMA Assumed ==
  /\ WORDS_PER_LINE \in Nat \ {0} /\ ASSOCIATIVITY \in Nat \ {0} /\ SET_NUM \in Nat \ {0}
  /\ LRU_MAX \in Nat /\ Zero \in Byte /\ ZeroTag \in Tags
  /\ InitMem \in [Addr -> Word]
  /\ ReqAddrs \subseteq Addr /\ CodeAddrs \subseteq Addr /\ ReqWords \subseteq Word
  /\ Fetches \subseteq [valid : {TRUE}, addr : CodeAddrs, high : BOOLEAN]
  /\ RESET_CYCLES \in Nat /\ RESET_CYCLES > SET_NUM /\ MAX_HITS \in Nat
BY ParamAssumption, InitMemAssumption, MemAssumption DEF CodeAddrs

-----------------------------------------------------------------------------
(* The names of the instances.                                              *)

LEMMA SameSets ==
  /\ DP!Word = Word /\ DP!Addr = Addr /\ DP!Way = Way /\ DP!Index = Index
  /\ DP!ZeroWord = ZeroWord /\ DP!NoReq = DataSide!NoReq /\ DP!CResp = CResp
  /\ FP!Word = Word /\ FP!Addr = Addr /\ FP!Way = Way /\ FP!Index = Index
  /\ FP!ZeroWord = ZeroWord /\ FP!NoReq = DataSide!NoReq /\ FP!CResp = CResp
BY DEF DP!Word, Word, DP!Addr, Addr, DP!Way, Way, DP!Index, Index, DP!Offset, Offset,
       DP!ZeroWord, ZeroWord, DP!NoReq, DataSide!NoReq, DP!CResp, CResp,
       DataSide!ZeroWord, FP!Word, FP!Addr, FP!Way, FP!Index, FP!Offset,
       FP!ZeroWord, FP!NoReq, FP!CResp

\* The data cache is that of its instance.
LEMMA SameCache ==
  /\ DP!creq = creq /\ DP!position = position
  /\ \A r : DP!dbus_ok(r) <=> dbus_ok(r)
  /\ \A r : DP!dresp(r) = dresp(r)
  /\ \A r : DP!CacheEdge(r) <=> CacheEdge(r)
  /\ DP!CacheTypeOK <=> CacheTypeOK
  /\ DP!CacheTypeOK' <=> CacheTypeOK'
BY DEF DP!CacheEdge, CacheEdge, DP!creq, creq, DP!dbus_ok, dbus_ok, DP!dresp, dresp,
       DP!Merge, Merge, DP!Addr, Addr, DP!Index, Index, DP!Offset, Offset, DP!Word, Word,
       DP!ZeroWord, ZeroWord, DP!LineAddr, LineAddr, DP!ram_rdata, ram_rdata, DP!ram_addr,
       ram_addr, DP!cur, cur, DP!position, position, DP!Matching, Matching, DP!Invalid,
       Invalid, DP!First, First, DP!replaced_position, replaced_position, DP!hit_data_ok,
       hit_data_ok, DP!meta_ram_rmeta, meta_ram_rmeta, DP!Way, Way, DP!cached_ok, cached_ok,
       DP!uncached_ok, uncached_ok, DP!InitIdle, InitIdle, DP!Hit, Hit, DP!Miss, Miss,
       DP!StartUncached, StartUncached, DP!Fetch, Fetch, DP!Writeback, Writeback,
       DP!Uncached, Uncached, DP!Reset, Reset, DP!WriteHit, WriteHit, DP!NoHitWrite,
       NoHitWrite, DP!HitMeta, HitMeta, DP!FetchedMeta, FetchedMeta, DP!MustWriteBack,
       MustWriteBack, DP!Inc, Inc, DP!IncSigned, IncSigned, DP!NextSet, NextSet, DP!NoLine,
       NoLine, DP!cacheVars, cacheVars, DP!CacheTypeOK, CacheTypeOK, DP!DReq, DReq, DP!Meta,
       Meta, DP!Age, Age

\* The systems that MemSystem names are those of the instances.
LEMMA SameData ==
  (DataSide!Init <=> DP!Init) /\ (DataSide!Next <=> DP!Next) /\ DataSide!vars = DP!vars
BY DEF DataSide!Next, DP!Next, DataSide!Cycle, DP!Cycle, DataSide!ResetCycle, DP!ResetCycle,
       DataSide!DeviceEdge, DP!DeviceEdge, DataSide!Port, DP!Port, DataSide!AssertReset,
       DP!AssertReset, DataSide!Resp, DP!Resp, DataSide!NewRequest, DP!NewRequest,
       DataSide!Requests, DP!Requests, DataSide!Loads, DP!Loads, DataSide!Stores, DP!Stores,
       DataSide!NoReq, DP!NoReq, DataSide!NoAnswer, DP!NoAnswer, DataSide!DeviceReset,
       DP!DeviceReset, DataSide!StartTx, DP!StartTx, DataSide!Beat, DP!Beat,
       DataSide!NoRequest, DP!NoRequest, DataSide!BeatAddr, DP!BeatAddr, DataSide!Last,
       DP!Last, DataSide!NoResp, DP!NoResp, DataSide!NoTransaction, DP!NoTransaction,
       DataSide!deviceVars, DP!deviceVars, DataSide!vars, DP!vars, DataSide!Init, DP!Init,
       DataSide!CacheInit, DP!CacheInit, DataSide!DeviceInit, DP!DeviceInit,
       DataSide!CacheEdge, DP!CacheEdge, DataSide!creq, DP!creq, DataSide!dbus_ok,
       DP!dbus_ok, DataSide!dresp, DP!dresp, DataSide!Merge, DP!Merge, DataSide!Addr,
       DP!Addr, DataSide!Index, DP!Index, DataSide!Offset, DP!Offset, DataSide!Word,
       DP!Word, DataSide!ZeroWord, DP!ZeroWord, DataSide!LineAddr, DP!LineAddr,
       DataSide!ram_rdata, DP!ram_rdata, DataSide!ram_addr, DP!ram_addr, DataSide!cur,
       DP!cur, DataSide!position, DP!position, DataSide!Matching, DP!Matching,
       DataSide!Invalid, DP!Invalid, DataSide!First, DP!First, DataSide!replaced_position,
       DP!replaced_position, DataSide!hit_data_ok, DP!hit_data_ok, DataSide!meta_ram_rmeta,
       DP!meta_ram_rmeta, DataSide!Way, DP!Way, DataSide!cached_ok, DP!cached_ok,
       DataSide!uncached_ok, DP!uncached_ok, DataSide!InitIdle, DP!InitIdle, DataSide!Hit,
       DP!Hit, DataSide!Miss, DP!Miss, DataSide!StartUncached, DP!StartUncached,
       DataSide!Fetch, DP!Fetch, DataSide!Writeback, DP!Writeback, DataSide!Uncached,
       DP!Uncached, DataSide!Reset, DP!Reset, DataSide!WriteHit, DP!WriteHit,
       DataSide!NoHitWrite, DP!NoHitWrite, DataSide!HitMeta, DP!HitMeta,
       DataSide!FetchedMeta, DP!FetchedMeta, DataSide!MustWriteBack, DP!MustWriteBack,
       DataSide!Inc, DP!Inc, DataSide!IncSigned, DP!IncSigned, DataSide!NextSet, DP!NextSet,
       DataSide!NoLine, DP!NoLine, DataSide!cacheVars, DP!cacheVars

LEMMA SameCode ==
  (FetchSide!Init <=> FP!Init) /\ (FetchSide!Next <=> FP!Next) /\ FetchSide!vars = FP!vars
BY DEF FetchSide!Next, FP!Next, FetchSide!Cycle, FP!Cycle, FetchSide!ResetCycle,
       FP!ResetCycle, FetchSide!DeviceEdge, FP!DeviceEdge, FetchSide!Port, FP!Port,
       FetchSide!AssertReset, FP!AssertReset, FetchSide!Resp, FP!Resp, FetchSide!NewRequest,
       FP!NewRequest, FetchSide!Requests, FP!Requests, FetchSide!Loads, FP!Loads,
       FetchSide!Stores, FP!Stores, FetchSide!NoReq, FP!NoReq, FetchSide!NoAnswer,
       FP!NoAnswer, FetchSide!DeviceReset, FP!DeviceReset, FetchSide!StartTx, FP!StartTx,
       FetchSide!Beat, FP!Beat, FetchSide!NoRequest, FP!NoRequest, FetchSide!BeatAddr,
       FP!BeatAddr, FetchSide!Last, FP!Last, FetchSide!NoResp, FP!NoResp,
       FetchSide!NoTransaction, FP!NoTransaction, FetchSide!deviceVars, FP!deviceVars,
       FetchSide!vars, FP!vars, FetchSide!Init, FP!Init, FetchSide!CacheInit, FP!CacheInit,
       FetchSide!DeviceInit, FP!DeviceInit, FetchSide!CacheEdge, FP!CacheEdge,
       FetchSide!creq, FP!creq, FetchSide!dbus_ok, FP!dbus_ok, FetchSide!dresp, FP!dresp,
       FetchSide!Merge, FP!Merge, FetchSide!Addr, FP!Addr, FetchSide!Index, FP!Index,
       FetchSide!Offset, FP!Offset, FetchSide!Word, FP!Word, FetchSide!ZeroWord,
       FP!ZeroWord, FetchSide!LineAddr, FP!LineAddr, FetchSide!ram_rdata, FP!ram_rdata,
       FetchSide!ram_addr, FP!ram_addr, FetchSide!cur, FP!cur, FetchSide!position,
       FP!position, FetchSide!Matching, FP!Matching, FetchSide!Invalid, FP!Invalid,
       FetchSide!First, FP!First, FetchSide!replaced_position, FP!replaced_position,
       FetchSide!hit_data_ok, FP!hit_data_ok, FetchSide!meta_ram_rmeta, FP!meta_ram_rmeta,
       FetchSide!Way, FP!Way, FetchSide!cached_ok, FP!cached_ok, FetchSide!uncached_ok,
       FP!uncached_ok, FetchSide!InitIdle, FP!InitIdle, FetchSide!Hit, FP!Hit,
       FetchSide!Miss, FP!Miss, FetchSide!StartUncached, FP!StartUncached, FetchSide!Fetch,
       FP!Fetch, FetchSide!Writeback, FP!Writeback, FetchSide!Uncached, FP!Uncached,
       FetchSide!Reset, FP!Reset, FetchSide!WriteHit, FP!WriteHit, FetchSide!NoHitWrite,
       FP!NoHitWrite, FetchSide!HitMeta, FP!HitMeta, FetchSide!FetchedMeta, FP!FetchedMeta,
       FetchSide!MustWriteBack, FP!MustWriteBack, FetchSide!Inc, FP!Inc,
       FetchSide!IncSigned, FP!IncSigned, FetchSide!NextSet, FP!NextSet, FetchSide!NoLine,
       FP!NoLine, FetchSide!cacheVars, FP!cacheVars

\* Outside reset, the instruction cache is that of its instance.
LEMMA SameFetch ==
  ASSUME ~reset
  PROVE  /\ FP!creq = I!creq /\ FP!position = I!position
         /\ \A r : FP!dbus_ok(r) <=> I!dbus_ok(r)
         /\ \A r : FP!dresp(r) = I!dresp(r)
         /\ \A r : FP!CacheEdge(r) <=> I!CacheEdge(r)
         /\ FP!CacheTypeOK <=> I!CacheTypeOK
<1>. DEFINE d == IF reset THEN DataSide!NoReq ELSE IREQ_TO_DREQ(ireq)
            e == IREQ_TO_DREQ(ireq)
            Victim(x) == CHOOSE w \in Way : \A v \in Way :
                           \/ iage[x.addr.index][w] < iage[x.addr.index][v]
                           \/ iage[x.addr.index][w] = iage[x.addr.index][v] /\ w <= v
<1>0. d = e
  OBVIOUS
<1>1. /\ FP!meta_ram_rmeta = I!meta_ram_rmeta /\ \A S : FP!First(S) = I!First(S)
      /\ FP!ZeroWord = I!ZeroWord /\ FP!Way = Way /\ I!Way = Way
  BY SameSets DEF FP!meta_ram_rmeta, I!meta_ram_rmeta, FP!First, I!First, FP!ZeroWord, I!ZeroWord,
                  Way, I!Way
<1>2. FP!Matching = I!Matching /\ FP!Invalid = I!Invalid
  BY <1>1 DEF FP!Matching, I!Matching, FP!Invalid, I!Invalid
<1>3. FP!replaced_position = I!replaced_position
  <2>1. FP!replaced_position = Victim(d)
    BY DEF FP!replaced_position, FP!Way, Way
  <2>2. I!replaced_position = Victim(e)
    BY DEF I!replaced_position, I!Way, Way
  <2>. HIDE DEF Victim, d, e
  <2>. QED  BY <1>0, <2>1, <2>2
<1>4. (FP!hit_data_ok <=> I!hit_data_ok) /\ FP!position = I!position
  BY <1>1, <1>2, <1>3 DEF FP!hit_data_ok, I!hit_data_ok, FP!position, I!position
<1>5. FP!cur = I!cur /\ FP!ram_addr = I!ram_addr /\ FP!ram_rdata = I!ram_rdata
  BY <1>4 DEF FP!cur, I!cur, FP!ram_addr, I!ram_addr, FP!ram_rdata, I!ram_rdata
<1>6. \A r : FP!dbus_ok(r) <=> I!dbus_ok(r)
  BY <1>4 DEF FP!dbus_ok, I!dbus_ok, FP!cached_ok, I!cached_ok, FP!uncached_ok, I!uncached_ok
<1>7. \A r : FP!dresp(r) = I!dresp(r)
  BY <1>1, <1>5, <1>6 DEF FP!dresp, I!dresp
<1>8. FP!creq = I!creq
  <2>1. \A t : FP!LineAddr(t) = I!LineAddr(t)
    BY DEF FP!LineAddr, I!LineAddr
  <2>. QED  BY <1>1, <1>4, <1>5, <2>1 DEF FP!creq, I!creq
<1>9. ASSUME NEW r PROVE FP!CacheEdge(r) <=> I!CacheEdge(r)
  <2>1. (FP!WriteHit <=> I!WriteHit) /\ (FP!NoHitWrite <=> I!NoHitWrite)
    BY <1>1, <1>4, <1>5 DEF FP!WriteHit, I!WriteHit, FP!NoHitWrite, I!NoHitWrite, FP!HitMeta,
                            I!HitMeta, FP!Merge, I!Merge, FP!IncSigned, I!IncSigned
  <2>2. (FP!InitIdle <=> I!InitIdle) /\ (FP!Hit <=> I!Hit)
    BY <1>4, <2>1 DEF FP!InitIdle, I!InitIdle, FP!Hit, I!Hit, FP!cacheVars, I!cacheVars,
                      FP!cached_ok, I!cached_ok, FP!IncSigned, I!IncSigned
  <2>3. (FP!Miss <=> I!Miss) /\ (FP!StartUncached <=> I!StartUncached)
    BY <1>1, <1>2, <1>4, <2>1 DEF FP!Miss, I!Miss, FP!StartUncached, I!StartUncached,
                                  FP!MustWriteBack, I!MustWriteBack
  <2>4. FP!Fetch(r) <=> I!Fetch(r)
    BY <1>4, <1>5 DEF FP!Fetch, I!Fetch, FP!FetchedMeta, I!FetchedMeta, FP!Inc, I!Inc
  <2>5. (FP!Writeback(r) <=> I!Writeback(r)) /\ (FP!Uncached(r) <=> I!Uncached(r))
    BY DEF FP!Writeback, I!Writeback, FP!Uncached, I!Uncached, FP!Inc, I!Inc
  <2>6. ~FP!Reset(r) /\ ~I!Reset(r)
    BY DEF FP!Reset, I!Reset
  <2>. QED  BY <2>2, <2>3, <2>4, <2>5, <2>6 DEF FP!CacheEdge, I!CacheEdge
<1>10. FP!CacheTypeOK <=> I!CacheTypeOK
  BY <1>0 DEF FP!CacheTypeOK, I!CacheTypeOK, FP!DReq, I!DReq, FP!Word, I!Word, FP!Addr, I!Addr,
              FP!Index, I!Index, FP!Offset, I!Offset, FP!Way, I!Way, FP!Meta, I!Meta,
              FP!Age, I!Age
<1>. QED  BY <1>4, <1>6, <1>7, <1>8, <1>9, <1>10


-----------------------------------------------------------------------------
(* The arbiter and the types of the registers.                              *)

\* The instruction cache only reads; the bus is free between grants; and in
\* reset nothing is asked for.
ReadOnly ==
  /\ istate # "WRITEBACK"
  /\ \A i \in Index, w \in Way : ~imeta[i][w].dirty
  /\ busy /\ index = 1 /\ tx.busy => ~tx.is_write
ResetQuiet ==
  reset =>
    /\ ~busy /\ dreq = DataSide!NoReq /\ answer = NoAnswer /\ ianswer = NoAnswer
    /\ istate = "INIT" /\ \A i \in Index, w \in Way : ~imeta[i][w].valid
FreeInv == ~busy => tx = NoTransaction

BusInv == TypeOK /\ ReadOnly /\ ResetQuiet /\ FreeInv

LEMMA Shapes ==
  /\ Input = {0, 1} /\ NullReq \in CReq /\ NoResp \in CResp /\ NoTransaction \in Tx
  /\ DataSide!NoReq \in DReq /\ DataSide!Requests \subseteq DReq
  /\ \A r \in Fetches : IREQ_TO_DREQ(r) \in DReq
  /\ ~NoTransaction.busy /\ ~NoTransaction.is_write /\ ~NullReq.valid
  /\ ~NoResp.last /\ ~NoResp.ready
<1>1. Input = {0, 1}
  BY MemAssumption DEF Input
<1>2. /\ ZeroWord \in Word /\ 0 \in Index /\ 0 \in Offset
      /\ [cached |-> FALSE, tag |-> ZeroTag, index |-> 0, offset |-> 0] \in Addr
  BY Assumed DEF ZeroWord, Word, Index, Offset, Addr
<1>3. NullReq \in CReq /\ NoResp \in CResp /\ NoTransaction \in Tx
  BY <1>2, Assumed DEF NullReq, CReq, NoResp, CResp, NoTransaction, Tx
<1>4. DataSide!NoReq \in DReq /\ DataSide!Requests \subseteq DReq
  BY <1>2, Assumed DEF DataSide!NoReq, DataSide!ZeroWord, ZeroWord, DReq, DataSide!Requests,
                       DataSide!Loads, DataSide!Stores
<1>5. \A r \in Fetches : IREQ_TO_DREQ(r) \in DReq
  BY <1>2, Assumed DEF IREQ_TO_DREQ, DReq
<1>6. ~NoTransaction.busy /\ ~NoTransaction.is_write /\ ~NullReq.valid /\ ~NoResp.last /\ ~NoResp.ready
  BY DEF NoTransaction, NullReq, NoResp
<1>. QED  BY <1>1, <1>3, <1>4, <1>5, <1>6

\* What the caches ask for, and what is forwarded.
LEMMA Forwarded ==
  ASSUME BusInv, ~reset
  PROVE  /\ creq \in CReq /\ I!creq \in CReq /\ oreq(ireqs) \in CReq /\ ~I!creq.is_write
         /\ oreq(ireqs) = IF ~busy THEN NullReq ELSE IF index = 0 THEN creq ELSE I!creq
<1>1. DP!creq \in DP!CReq
  BY Assumed, SameSets, SameCache, DP!CReqType DEF BusInv, TypeOK
<1>2. FP!creq \in FP!CReq
  BY Assumed, SameSets, SameFetch, FP!CReqType DEF BusInv, TypeOK
<1>3. creq \in CReq /\ I!creq \in CReq
  BY <1>1, <1>2, SameCache, SameFetch
  DEF CReq, DP!CReq, FP!CReq, Addr, DP!Addr, FP!Addr, Index, DP!Index, FP!Index,
      Offset, DP!Offset, FP!Offset, Word, DP!Word, FP!Word
<1>4. oreq(ireqs) = IF ~busy THEN NullReq ELSE IF index = 0 THEN creq ELSE I!creq
  BY Shapes DEF oreq, ireqs, BusInv, TypeOK, ArbiterTypeOK
<1>5. ~I!creq.is_write
  BY DEF I!creq, IREQ_TO_DREQ, BusInv, ReadOnly
<1>. QED  BY <1>3, <1>4, <1>5, Shapes

\* The response of the memory, and who sees it.
LEMMA Answered ==
  ASSUME BusInv, NEW enable \in BOOLEAN
  PROVE  /\ Resp(enable) \in CResp
         /\ \A i \in {0, 1} : iresp(i, Resp(enable)) \in CResp
         /\ Resp(enable).last => enable /\ tx.busy /\ Last
<1>1. ASSUME tx.busy PROVE BeatAddr \in Addr
  BY <1>1, Assumed DEF BusInv, TypeOK, DeviceTypeOK, Tx, BeatAddr, Addr, Offset
<1>2. ZeroWord \in Word
  BY Assumed DEF ZeroWord, Word
<1>3. Resp(enable) \in CResp /\ (Resp(enable).last => enable /\ tx.busy /\ Last)
  BY <1>1, <1>2, Shapes DEF BusInv, TypeOK, DeviceTypeOK, Tx, Resp, CResp, Last
<1>. QED  BY <1>3, Shapes DEF iresp

\* A clock edge of the arbiter and the memory.
LEMMA BusEdge ==
  ASSUME BusInv, ~reset, NEW enable \in BOOLEAN,
         ArbiterEdge(ireqs, Resp(enable)), DeviceEdge(enable, oreq(ireqs))
  PROVE  /\ DeviceTypeOK' /\ ArbiterTypeOK' /\ FreeInv'
         /\ ~busy => UNCHANGED deviceVars
         /\ busy => index' = index
         /\ busy' /\ index' = 1 /\ tx'.busy => ~tx'.is_write
         /\ busy /\ index = 1 => mem' = mem
<1>. DEFINE req == oreq(ireqs)
<1>1. /\ req \in CReq /\ (~busy => ~req.valid) /\ (busy /\ index = 1 => ~req.is_write)
      /\ mem \in [Addr -> Word] /\ tx \in Tx /\ (tx.busy => tx.N \in 1 .. tx.len)
      /\ busy \in BOOLEAN /\ index \in {0, 1} /\ (~busy => tx = NoTransaction)
      /\ busy /\ index = 1 /\ tx.busy => ~tx.is_write
  BY Forwarded, Shapes
  DEF BusInv, TypeOK, DeviceTypeOK, ArbiterTypeOK, FreeInv, ReadOnly
<1>2. DeviceEdge(enable, req)
  OBVIOUS
<1>. HIDE DEF req
<1>3. DeviceTypeOK'
  <2>1. CASE UNCHANGED deviceVars
    BY <1>1, <2>1 DEF deviceVars, DeviceTypeOK
  <2>2. CASE StartTx(req)
    BY <1>1, <2>2, Assumed DEF StartTx, CReq, Tx, DeviceTypeOK
  <2>3. CASE Beat(req)
    <3>1. BeatAddr \in Addr
      BY <1>1, <2>3, Assumed DEF Beat, Tx, BeatAddr, Addr, Offset
    <3>2. mem' \in [Addr -> Word]
      <4>1. Merge(mem[BeatAddr], req.strobe, req.data) \in Word
        BY <1>1, <3>1 DEF Merge, Word, CReq
      <4>. QED  BY <1>1, <2>3, <3>1, <4>1 DEF Beat
    <3>3. tx' \in Tx /\ (tx'.busy => tx'.N \in 1 .. tx'.len)
      <4>1. CASE Last
        BY <2>3, <4>1, Shapes DEF Beat
      <4>2. CASE ~Last
        BY <1>1, <2>3, <4>2, Assumed DEF Beat, Tx, Last
      <4>. QED  BY <4>1, <4>2
    <3>. QED  BY <3>2, <3>3 DEF DeviceTypeOK
  <2>. QED  BY <1>2, <2>1, <2>2, <2>3 DEF DeviceEdge, NoRequest
<1>4. ~busy => UNCHANGED deviceVars
  BY <1>1, <1>2, Shapes DEF DeviceEdge, StartTx, Beat, NoRequest
<1>5. /\ ArbiterTypeOK'
      /\ busy => index' = index
      /\ ~busy' => ~busy \/ Resp(enable).last
  <2>1. CASE Grant(ireqs)
    <3>1. select(ireqs) \in {0, 1} /\ ireqs[select(ireqs)].valid \in BOOLEAN
      <4>1. ireqs[0] = creq /\ ireqs[1] = I!creq /\ creq.valid \in BOOLEAN /\ I!creq.valid \in BOOLEAN
        BY Shapes, Forwarded DEF ireqs, CReq
      <4>2. \E i \in {0, 1} : IF \E j \in {0, 1} : ireqs[j].valid
                              THEN ireqs[i].valid /\ \A j \in {0, 1} : ireqs[j].valid => i <= j
                              ELSE i = 0
        BY <4>1
      <4>3. select(ireqs) \in {0, 1}
        BY <4>2, Shapes DEF select
      <4>. QED  BY <4>1, <4>3
    <3>. QED  BY <2>1, <3>1, Shapes DEF Grant, ArbiterTypeOK
  <2>2. CASE Hold(Resp(enable)) \/ Release(Resp(enable))
    BY <1>1, <2>2, Shapes DEF Hold, Release, arbiterVars, ArbiterTypeOK
  <2>. QED  BY <2>1, <2>2 DEF ArbiterEdge, ArbiterReset, Grant
<1>6. FreeInv'
  <2>1. ASSUME Resp(enable).last PROVE tx' = NoTransaction
    BY <1>2, <2>1, Answered DEF DeviceEdge, StartTx, Beat, NoRequest
  <2>. QED  BY <1>1, <1>4, <1>5, <2>1 DEF FreeInv, deviceVars
<1>7. busy /\ index = 1 => mem' = mem /\ (tx'.busy => ~tx'.is_write)
  BY <1>1, <1>2, Shapes DEF DeviceEdge, StartTx, Beat, NoRequest, deviceVars, Tx
<1>8. busy' /\ index' = 1 /\ tx'.busy => ~tx'.is_write
  BY <1>1, <1>4, <1>5, <1>7, Shapes DEF deviceVars
<1>. QED  BY <1>3, <1>4, <1>5, <1>6, <1>7, <1>8

\* The fetch port of an instance, in reset and after it.
LEMMA FetchTypes ==
  /\ ireq \in Fetches => (FP!CacheTypeOK <=> I!CacheTypeOK)
  /\ ireq' \in Fetches => (FP!CacheTypeOK' <=> I!CacheTypeOK')
<1>1. \A r \in Fetches : IREQ_TO_DREQ(r) \in DReq
  BY Shapes
<1>2. DataSide!NoReq \in DReq
  BY Shapes
<1>3. FP!DReq = DReq /\ I!DReq = DReq
  BY DEF FP!DReq, I!DReq, DReq, FP!Addr, I!Addr, Addr, FP!Index, I!Index, Index,
         FP!Offset, I!Offset, Offset, FP!Word, I!Word, Word
<1>. DEFINE Rest == /\ istate \in {"INIT", "FETCH", "WRITEBACK", "UNCACHED"}
                    /\ icounter \in FP!Offset /\ imeta \in [FP!Index -> [FP!Way -> FP!Meta]]
                    /\ iram \in [FP!Way \X FP!Index \X FP!Offset -> FP!Word]
                    /\ iage \in [FP!Index -> [FP!Way -> FP!Age]]
                    /\ ilru_cnt \in FP!Age /\ ireset_cnt \in FP!Index
<1>4. /\ FP!CacheTypeOK <=> reset \in BOOLEAN
                            /\ (IF reset THEN DataSide!NoReq ELSE IREQ_TO_DREQ(ireq)) \in DReq
                            /\ Rest
      /\ FP!CacheTypeOK' <=> reset' \in BOOLEAN
                             /\ (IF reset' THEN DataSide!NoReq ELSE IREQ_TO_DREQ(ireq')) \in DReq
                             /\ Rest'
  BY <1>3 DEF FP!CacheTypeOK, IREQ_TO_DREQ
<1>5. /\ I!CacheTypeOK <=> reset \in BOOLEAN /\ IREQ_TO_DREQ(ireq) \in DReq /\ Rest
      /\ I!CacheTypeOK' <=> reset' \in BOOLEAN /\ IREQ_TO_DREQ(ireq') \in DReq /\ Rest'
  BY <1>3 DEF I!CacheTypeOK, FP!Offset, I!Offset, FP!Index, I!Index, FP!Way, I!Way, FP!Meta,
              I!Meta, FP!Word, I!Word, FP!Age, I!Age, IREQ_TO_DREQ
<1>. HIDE DEF Rest
<1>. QED  BY <1>1, <1>2, <1>4, <1>5

\* What the core does to its requests and to register F in a cycle.
LEMMA CoreEdge ==
  ASSUME NEW d, NEW i, Core(d, i)
  PROVE  /\ IF dmem_wait(d) THEN UNCHANGED dreq ELSE DataSide!NewRequest
         /\ ireq' = ireq \/ (~imem_wait(i) /\ ireq' \in Fetches)
         /\ dataF' = dataF \/ dataF' = NoInstr \/ (~imem_wait(i) /\ TakesFetch(i))
         /\ csr_flush' \in BOOLEAN
<1>1. CASE Stall(d) \/ Wait(d) \/ Bubble(d, i) \/ Advance(d, i)
  BY <1>1 DEF Core, Stall, Wait, Bubble, Advance, NextInE
<1>2. CASE Flush(d, i)
  BY <1>2 DEF Core, Flush, is_stall, DataSide!NewRequest
<1>. QED  BY <1>1, <1>2 DEF Core

\* The requests of the next cycle.
LEMMA NextRequests ==
  ASSUME BusInv, NEW enable \in BOOLEAN, Cycle(enable) \/ ResetCycle
  PROVE  dreq' \in DReq /\ ireq' \in Fetches /\ reset' \in BOOLEAN /\ csr_flush' \in BOOLEAN
<1>1. dreq \in DReq /\ ireq \in Fetches /\ reset \in BOOLEAN /\ csr_flush \in BOOLEAN
  BY DEF BusInv, TypeOK, CacheTypeOK
<1>2. CASE Cycle(enable)
  BY <1>1, <1>2, CoreEdge, Shapes DEF Cycle, DataSide!NewRequest
<1>3. CASE ResetCycle
  BY <1>1, <1>3 DEF ResetCycle, coreVars
<1>. QED  BY <1>2, <1>3

\* In reset the instruction cache has nothing to clear.
LEMMA FetchReset ==
  ASSUME BusInv, reset, I!CacheEdge(NoResp)
  PROVE  /\ FP!CacheEdge(NoResp)
         /\ istate' = "INIT" /\ \A i \in Index, w \in Way : ~imeta'[i][w].valid /\ ~imeta'[i][w].dirty
<1>1. /\ istate = "INIT" /\ ~NoResp.last /\ imeta \in [Index -> [Way -> Meta]]
      /\ ireset_cnt \in Index
      /\ \A i \in Index, w \in Way : ~imeta[i][w].valid /\ ~imeta[i][w].dirty
  BY Shapes
  DEF BusInv, ResetQuiet, ReadOnly, TypeOK, I!CacheTypeOK, I!Index, Index, I!Way, Way, I!Meta, Meta
<1>2. I!Reset(NoResp)
  BY DEF I!CacheEdge, I!InitIdle, I!Hit, I!Miss, I!StartUncached, I!Fetch, I!Writeback, I!Uncached
<1>3. ~I!hit_data_ok /\ ~FP!hit_data_ok
  <2>1. I!Matching = {}
    BY <1>1 DEF I!Matching, I!meta_ram_rmeta, I!Way, Way
  <2>2. ~DataSide!NoReq.valid
    BY DEF DataSide!NoReq
  <2>. QED  BY <2>1, <2>2 DEF I!hit_data_ok, FP!hit_data_ok
<1>4. /\ istate' = "INIT" /\ icounter' = 0 /\ ilru_cnt' = 0
      /\ iage' = [i \in Index |-> [w \in Way |-> 0]]
      /\ ireset_cnt' = I!NextSet /\ iram' = iram
      /\ imeta' = [imeta EXCEPT ![ireset_cnt] = [w \in Way |-> NoLine]]
  BY <1>1, <1>2, <1>3 DEF I!Reset, I!Index, Index, I!Way, Way, I!NoLine, NoLine
<1>5. FP!Reset(NoResp)
  BY <1>1, <1>3, <1>4 DEF FP!Reset, FP!Index, Index, FP!Way, Way, FP!NoLine, NoLine,
                          FP!NextSet, I!NextSet, FP!Inc, I!Inc
<1>6. \A i \in Index, w \in Way : ~imeta'[i][w].valid /\ ~imeta'[i][w].dirty
  <2>1. \A w \in Way : [v \in Way |-> NoLine][w] = NoLine
    OBVIOUS
  <2>2. ~NoLine.valid /\ ~NoLine.dirty
    BY DEF NoLine
  <2>. QED  BY <1>1, <1>4, <2>1, <2>2
<1>. QED  BY <1>4, <1>5, <1>6 DEF FP!CacheEdge

\* It marks no line dirty and so writes none back.
LEMMA FetchClean ==
  ASSUME BusInv, ~reset, NEW r, I!CacheEdge(r)
  PROVE  /\ istate' # "WRITEBACK"
         /\ \A i \in Index, w \in Way : ~imeta'[i][w].dirty
<1>. DEFINE d == IREQ_TO_DREQ(ireq)
            x == d.addr.index
            p == I!position
<1>1. /\ imeta \in [Index -> [Way -> Meta]] /\ istate # "WRITEBACK" /\ x \in Index
      /\ \A i \in Index, w \in Way : ~imeta[i][w].dirty
      /\ d.strobe = {}
  BY DEF BusInv, ReadOnly, TypeOK, I!CacheTypeOK, I!Index, Index, I!Way, Way, I!Meta, Meta,
         I!DReq, I!Addr, IREQ_TO_DREQ
<1>2. p \in Way
  <2>1. FP!CacheTypeOK
    BY FetchTypes DEF BusInv, TypeOK
  <2>2. FP!position \in FP!Way
    BY <2>1, Assumed, SameSets, FP!PositionWay
  <2>. QED  BY <2>2, SameSets, SameFetch
<1>3. I!meta_ram_rmeta = imeta[x]
  BY DEF I!meta_ram_rmeta
<1>. HIDE DEF d, x, p
<1>4. ASSUME NEW y, ~y.dirty, imeta' = [imeta EXCEPT ![x][p] = y]
      PROVE  \A i \in Index, w \in Way : ~imeta'[i][w].dirty
  BY <1>1, <1>2, <1>4
<1>5. CASE I!InitIdle \/ I!Writeback(r) \/ I!Uncached(r)
  BY <1>1, <1>5 DEF I!InitIdle, I!Writeback, I!Uncached, I!cacheVars
<1>6. CASE I!Hit \/ I!StartUncached
  <2>1. I!WriteHit => imeta' = [imeta EXCEPT ![x][p] = I!HitMeta]
    BY DEF I!WriteHit, x, p, d
  <2>2. ~I!HitMeta.dirty
    BY <1>1, <1>2, <1>3 DEF I!HitMeta, p, d
  <2>3. (I!WriteHit \/ imeta' = imeta) /\ istate' \in {istate, "UNCACHED"}
    BY <1>6 DEF I!Hit, I!StartUncached, I!NoHitWrite
  <2>. QED  BY <1>1, <1>4, <2>1, <2>2, <2>3
<1>7. CASE I!Miss
  <2>1. ~I!MustWriteBack
    BY <1>1, <1>2, <1>3 DEF I!MustWriteBack, p
  <2>. QED  BY <1>1, <1>7, <2>1 DEF I!Miss, I!NoHitWrite
<1>8. CASE I!Fetch(r)
  <2>1. imeta' = imeta \/ imeta' = [imeta EXCEPT ![x][p] = I!FetchedMeta]
    BY <1>8 DEF I!Fetch, x, p, d
  <2>2. ~I!FetchedMeta.dirty /\ istate' # "WRITEBACK"
    BY <1>1, <1>8 DEF I!FetchedMeta, I!Fetch
  <2>. QED  BY <1>1, <1>4, <2>1, <2>2
<1>. QED  BY <1>5, <1>6, <1>7, <1>8 DEF I!CacheEdge, I!Reset

LEMMA BusInit == Init => BusInv
<1>. SUFFICES ASSUME Init PROVE BusInv
  OBVIOUS
<1>1. /\ reset = TRUE /\ dreq = DataSide!NoReq /\ dreq \in DReq /\ ireq \in Fetches
      /\ tx = NoTransaction /\ mem = InitMem /\ busy = FALSE /\ index = 0
      /\ answer = NoAnswer /\ ianswer = NoAnswer /\ csr_flush \in BOOLEAN
  BY Shapes DEF Init, DeviceInit, ArbiterInit
<1>2. CacheTypeOK
  <2>1. DP!ZeroWord \in DP!Word /\ DP!NoLine \in DP!Meta
        /\ 0 \in DP!Index /\ 0 \in DP!Offset /\ 0 \in DP!Age
    BY Assumed, SameSets, DP!ConstantTypes
  <2>2. ZeroWord \in Word /\ NoLine \in Meta /\ 0 \in Index /\ 0 \in Offset /\ 0 \in Age
    BY <2>1 DEF DP!ZeroWord, ZeroWord, DP!Word, Word, DP!NoLine, NoLine, DP!Meta, Meta,
                DP!Index, Index, DP!Offset, Offset, DP!Age, Age
  <2>. QED  BY <1>1, <2>2 DEF Init, CacheInit, CacheTypeOK
<1>3. I!CacheTypeOK /\ \A i \in Index, w \in Way : ~imeta[i][w].dirty /\ ~imeta[i][w].valid
  <2>1. FP!ZeroWord \in FP!Word /\ FP!NoLine \in FP!Meta
        /\ 0 \in FP!Index /\ 0 \in FP!Offset /\ 0 \in FP!Age
    BY Assumed, SameSets, FP!ConstantTypes
  <2>2. I!ZeroWord \in I!Word /\ I!NoLine \in I!Meta /\ 0 \in I!Index /\ 0 \in I!Offset /\ 0 \in I!Age
    BY <2>1 DEF FP!ZeroWord, I!ZeroWord, FP!Word, I!Word, FP!NoLine, I!NoLine, FP!Meta, I!Meta,
                FP!Index, I!Index, FP!Offset, I!Offset, FP!Age, I!Age
  <2>3. IREQ_TO_DREQ(ireq) \in I!DReq
    BY <1>1, Shapes DEF I!DReq, DReq, I!Addr, Addr, I!Index, Index, I!Offset, Offset, I!Word, Word
  <2>4. I!CacheTypeOK
    BY <1>1, <2>2, <2>3 DEF Init, I!CacheInit, I!CacheTypeOK
  <2>5. \A i \in Index, w \in Way : imeta[i][w] = I!NoLine
    BY DEF Init, I!CacheInit, I!Index, Index, I!Way, Way
  <2>. QED  BY <2>4, <2>5 DEF I!NoLine
<1>4. DeviceTypeOK /\ ArbiterTypeOK
  BY <1>1, Shapes, Assumed DEF DeviceTypeOK, ArbiterTypeOK
<1>5. istate = "INIT"
  BY DEF Init, I!CacheInit
<1>. QED  BY <1>1, <1>2, <1>3, <1>4, <1>5 DEF BusInv, TypeOK, ReadOnly, ResetQuiet, FreeInv

LEMMA BusStep == BusInv /\ [Next]_vars => BusInv'
<1>. SUFFICES ASSUME BusInv, [Next]_vars PROVE BusInv'
  OBVIOUS
<1>0. /\ CacheTypeOK /\ I!CacheTypeOK /\ DeviceTypeOK /\ ArbiterTypeOK /\ ireq \in Fetches
      /\ DP!CacheTypeOK /\ FP!CacheTypeOK /\ csr_flush \in BOOLEAN
  BY SameCache, FetchTypes DEF BusInv, TypeOK
\* The caches take a clock edge each, with what they are answered.
<1>1. ASSUME NEW r \in CResp, NEW q \in CResp, CacheEdge(r), FP!CacheEdge(q),
             dreq' \in DReq, ireq' \in Fetches, reset' \in BOOLEAN
      PROVE  CacheTypeOK' /\ I!CacheTypeOK'
  <2>1. DP!DReq = DReq /\ FP!DReq = DReq
    BY DEF DReq, DP!DReq, FP!DReq, Addr, DP!Addr, FP!Addr, Index, DP!Index, FP!Index,
           Offset, DP!Offset, FP!Offset, Word, DP!Word, FP!Word
  <2>2. DP!CacheTypeOK'
    BY <1>0, <1>1, <2>1, Assumed, SameSets, SameCache, DP!CacheEdgeType
  <2>. DEFINE d == IF reset THEN DataSide!NoReq ELSE IREQ_TO_DREQ(ireq)
  <2>3. d' \in DReq
    <3>1. d' = IF reset' THEN DataSide!NoReq ELSE IREQ_TO_DREQ(ireq')
      BY DEF IREQ_TO_DREQ, DataSide!NoReq, DataSide!ZeroWord
    <3>. QED  BY <1>1, <3>1, Shapes
  <2>4. FP!CacheTypeOK'
    BY <1>0, <1>1, <2>1, <2>3, Assumed, SameSets, FP!CacheEdgeType
  <2>. QED  BY <1>1, <2>2, <2>4, SameCache, FetchTypes
<1>2. ASSUME NEW enable \in BOOLEAN, Cycle(enable) PROVE BusInv'
  <2>1. /\ ~reset /\ reset' = reset
        /\ CacheEdge(iresp(0, Resp(enable))) /\ I!CacheEdge(iresp(1, Resp(enable)))
        /\ ArbiterEdge(ireqs, Resp(enable)) /\ DeviceEdge(enable, oreq(ireqs))
    BY <1>2 DEF Cycle
  <2>2. dreq' \in DReq /\ ireq' \in Fetches /\ reset' \in BOOLEAN /\ csr_flush' \in BOOLEAN
    BY <1>2, NextRequests
  <2>3. CacheTypeOK' /\ I!CacheTypeOK'
    BY <1>1, <2>1, <2>2, Answered, SameFetch
  <2>4. istate' # "WRITEBACK" /\ \A i \in Index, w \in Way : ~imeta'[i][w].dirty
    BY <2>1, FetchClean
  <2>5. DeviceTypeOK' /\ ArbiterTypeOK' /\ FreeInv' /\ (busy' /\ index' = 1 /\ tx'.busy => ~tx'.is_write)
    BY <2>1, BusEdge
  <2>. QED
    BY <2>1, <2>2, <2>3, <2>4, <2>5 DEF BusInv, TypeOK, ReadOnly, ResetQuiet
<1>3. CASE ResetCycle
  <2>1. /\ reset /\ CacheEdge(NoResp) /\ I!CacheEdge(NoResp) /\ UNCHANGED coreVars
        /\ busy' = FALSE /\ index' = 0 /\ mem' = InitMem /\ tx' = NoTransaction
    BY <1>3 DEF ResetCycle, ArbiterEdge, Grant, Hold, Release, ArbiterReset, DeviceReset
  <2>2. dreq' \in DReq /\ ireq' \in Fetches /\ reset' \in BOOLEAN /\ csr_flush' \in BOOLEAN
    <3>1. TRUE \in BOOLEAN
      OBVIOUS
    <3>. QED  BY <1>3, <3>1, NextRequests
  <2>3. /\ istate' = "INIT" /\ FP!CacheEdge(NoResp)
        /\ \A i \in Index, w \in Way : ~imeta'[i][w].valid /\ ~imeta'[i][w].dirty
    BY <2>1, FetchReset
  <2>4. CacheTypeOK' /\ I!CacheTypeOK'
    BY <1>1, <2>1, <2>2, <2>3, Shapes
  <2>5. DeviceTypeOK' /\ ArbiterTypeOK'
    BY <2>1, Shapes, Assumed DEF DeviceTypeOK, ArbiterTypeOK
  <2>6. dreq = DataSide!NoReq /\ answer = NoAnswer /\ ianswer = NoAnswer
    BY <2>1 DEF BusInv, ResetQuiet
  <2>7. /\ dreq' = DataSide!NoReq /\ answer' = NoAnswer /\ ianswer' = NoAnswer
    BY <2>1, <2>6 DEF coreVars
  <2>. QED
    BY <2>1, <2>2, <2>3, <2>4, <2>5, <2>7
    DEF BusInv, TypeOK, ReadOnly, ResetQuiet, FreeInv, DataSide!NoReq, DataSide!ZeroWord, NoAnswer,
        ZeroWord
<1>4. CASE UNCHANGED vars
  <2>1. CacheTypeOK' /\ I!CacheTypeOK'
    BY <1>0, <1>4 DEF vars, cacheVars, icacheVars, coreVars, CacheTypeOK, I!CacheTypeOK, IREQ_TO_DREQ
  <2>2. DeviceTypeOK' /\ ArbiterTypeOK' /\ ireq' \in Fetches /\ csr_flush' \in BOOLEAN
    BY <1>0, <1>4 DEF vars, deviceVars, arbiterVars, coreVars, DeviceTypeOK, ArbiterTypeOK
  <2>3. ReadOnly' /\ ResetQuiet' /\ FreeInv'
    BY <1>4 DEF vars, deviceVars, arbiterVars, coreVars, icacheVars, BusInv, ReadOnly, ResetQuiet, FreeInv
  <2>. QED  BY <2>1, <2>2, <2>3 DEF BusInv, TypeOK
<1>. QED  BY <1>2, <1>3, <1>4 DEF Next

\* The registers of both caches, the arbiter and the memory keep their widths.
THEOREM TypeCorrect == Spec => []TypeOK
<1>1. BusInv => TypeOK
  BY DEF BusInv
<1>. QED  BY <1>1, BusInit, BusStep, PTL DEF Spec

-----------------------------------------------------------------------------
(* The data side.                                                           *)

\* A clock edge of the arbiter and the memory, as the data cache sees it: the
\* memory is disabled for it while the bus is free or granted to the fetches.
LEMMA DataEdge ==
  ASSUME BusInv, BusInv', ~reset, NEW enable \in BOOLEAN,
         ArbiterEdge(ireqs, Resp(enable)), DeviceEdge(enable, oreq(ireqs))
  PROVE  \E e \in BOOLEAN : /\ DP!Resp(e) = iresp(0, Resp(enable))
                            /\ DP!DeviceEdge(e, DP!creq)
<1>1. /\ index \in {0, 1} /\ (~busy => tx = NoTransaction) /\ (~busy' => tx' = NoTransaction)
      /\ ~busy => UNCHANGED <<mem, tx>>
      /\ busy => index' = index
      /\ busy /\ index = 1 => mem' = mem
  BY BusEdge, Shapes DEF BusInv, TypeOK, ArbiterTypeOK, FreeInv, deviceVars
<1>2. DP!NoTransaction = NoTransaction /\ DP!NoResp = NoResp /\ ~NoTransaction.busy
  BY SameSets DEF DP!NoTransaction, NoTransaction, DP!NoResp, NoResp
<1>3. CASE busy /\ index = 0
  <2>1. dtx = tx
    BY <1>3 DEF dtx
  <2>2. dtx' = tx'
    BY <1>1, <1>3 DEF dtx
  <2>3. DP!BeatAddr = BeatAddr /\ (DP!Last <=> Last)
    BY <2>1 DEF DP!BeatAddr, BeatAddr, DP!Last, Last
  <2>4. DP!Resp(enable) = iresp(0, Resp(enable))
    BY <1>2, <1>3, <2>1, <2>3, SameSets DEF DP!Resp, Resp, iresp
  <2>5. DeviceEdge(enable, DP!creq)
    BY <1>3, Forwarded, SameCache
  <2>. DEFINE r == DP!creq
  <2>6. DeviceEdge(enable, r)
    BY <2>5
  <2>. HIDE DEF r
  <2>7. DP!DeviceEdge(enable, r)
    BY <1>2, <2>1, <2>2, <2>3, <2>6
    DEF DeviceEdge, DP!DeviceEdge, StartTx, DP!StartTx, Beat, DP!Beat, NoRequest, DP!NoRequest,
        deviceVars, DP!deviceVars, Merge, DP!Merge
  <2>. QED  BY <2>4, <2>7 DEF r
<1>4. CASE ~(busy /\ index = 0)
  <2>1. dtx = NoTransaction
    BY <1>4 DEF dtx
  <2>2. dtx' = NoTransaction /\ mem' = mem
    BY <1>1, <1>4 DEF dtx
  <2>3. DP!Resp(FALSE) = iresp(0, Resp(enable))
    BY <1>2, <1>4 DEF DP!Resp, iresp
  <2>4. DP!DeviceEdge(FALSE, DP!creq)
    BY <2>1, <2>2 DEF DP!DeviceEdge, DP!deviceVars
  <2>. QED  BY <2>3, <2>4
<1>. QED  BY <1>3, <1>4

\* Every step is one of the data cache with the memory for itself, or none.
LEMMA DataStep ==
  ASSUME BusInv, BusInv', [Next]_vars
  PROVE  [DP!Next]_DP!vars
<1>1. ASSUME NEW enable \in BOOLEAN, Cycle(enable) PROVE DP!Next
  <2>. DEFINE q == iresp(0, Resp(enable))
  <2>1. /\ ~reset /\ reset' = reset /\ held' = 0 /\ reset \in BOOLEAN
        /\ CacheEdge(q) /\ ArbiterEdge(ireqs, Resp(enable)) /\ DeviceEdge(enable, oreq(ireqs))
        /\ Core(q, iresp(1, Resp(enable)))
        /\ Answers(q, iresp(1, Resp(enable)))
    BY <1>1 DEF Cycle, BusInv, TypeOK, CacheTypeOK
  <2>2. PICK e \in BOOLEAN : DP!Resp(e) = q /\ DP!DeviceEdge(e, DP!creq)
    BY <2>1, DataEdge
  <2>3. DP!CacheEdge(q)
    BY <2>1, SameCache
  <2>4. DP!Port(q)
    <3>1. /\ DP!dbus_ok(q) <=> dbus_ok(q)
          /\ DP!dresp(q) = dresp(q)
      BY SameCache
    <3>. HIDE DEF q
    <3>2. DataSide!NewRequest <=> DP!NewRequest
      BY SameSets DEF DataSide!NewRequest, DP!NewRequest, DataSide!Requests, DP!Requests,
             DataSide!Loads, DP!Loads, DataSide!Stores, DP!Stores, DataSide!Word, DP!Word,
             DataSide!ZeroWord, DP!ZeroWord, DataSide!NoReq, DP!NoReq
    <3>3. DP!NoAnswer = NoAnswer
      BY SameSets DEF DP!NoAnswer, NoAnswer
    <3>. QED
      BY <2>1, <3>1, <3>2, <3>3, CoreEdge, SameSets DEF DP!Port, Answers, dmem_wait
  <2>. HIDE DEF q
  <2>5. DP!Cycle(e)
    BY <2>1, <2>2, <2>3, <2>4 DEF DP!Cycle, DP!AssertReset
  <2>. QED  BY <2>5 DEF DP!Next
<1>2. CASE ResetCycle
  <2>1. /\ reset /\ CacheEdge(NoResp) /\ UNCHANGED <<dreq, answer>>
        /\ mem' = InitMem /\ tx' = NoTransaction
        /\ held' = held + 1 /\ reset' = (held + 1 < RESET_CYCLES)
    BY <1>2 DEF ResetCycle, DeviceReset, coreVars
  <2>2. dreq' = DP!NoReq /\ answer' = NoAnswer
    BY <2>1, SameSets DEF BusInv, ResetQuiet
  <2>3. /\ DP!NoTransaction = NoTransaction /\ DP!NoResp = NoResp /\ DP!NoAnswer = NoAnswer
        /\ ~NoTransaction.busy
    BY SameSets
    DEF DP!NoTransaction, NoTransaction, DP!NoResp, NoResp, DP!NoAnswer, NoAnswer
  <2>4. DP!Resp(FALSE) = NoResp
    BY <2>3 DEF DP!Resp
  <2>5. dtx' = NoTransaction
    BY <2>1 DEF dtx, NoTransaction
  <2>6. DP!CacheEdge(DP!Resp(FALSE)) /\ DP!DeviceReset
    BY <2>1, <2>3, <2>4, <2>5, SameCache DEF DP!DeviceReset
  <2>7. DP!ResetCycle(FALSE)
    BY <2>1, <2>2, <2>3, <2>6 DEF DP!ResetCycle
  <2>. QED  BY <2>7 DEF DP!Next
<1>3. CASE UNCHANGED vars
  BY <1>3 DEF vars, cacheVars, arbiterVars, deviceVars, coreVars, dtx, DP!vars, DP!cacheVars,
              DP!deviceVars
<1>. QED  BY <1>1, <1>2, <1>3 DEF Next

LEMMA DataInit == Init => DP!Init
BY SameSets
DEF Init, DP!Init, CacheInit, DP!CacheInit, DeviceInit, DP!DeviceInit, ArbiterInit, dtx,
    DP!NoTransaction, NoTransaction, DP!NoAnswer, NoAnswer, DP!NoLine, NoLine,
    DP!Offset, Offset

\* What the data cache and its port do behind the arbiter, whatever the fetches
\* are, they may do alone with the memory: no grant, no interleaving and no
\* wait for the bus shows.  No hypothesis is needed.
THEOREM DataIsAlone == Spec => DataSideAlone
<1>1. Init => DataSide!Init
  BY DataInit, SameData
<1>2. BusInv /\ BusInv' /\ [Next]_vars => [DataSide!Next]_DataSide!vars
  <2>1. DP!vars' = DP!vars => DataSide!vars' = DataSide!vars
    BY DEF DP!vars, DP!cacheVars, DP!deviceVars, DataSide!vars, DataSide!cacheVars,
           DataSide!deviceVars
  <2>. QED  BY <2>1, DataStep, SameData
<1>. QED
  BY <1>1, <1>2, BusInit, BusStep, PTL DEF Spec, DataSideAlone, DataSide!Spec

\* The data port behind the arbiter is a plain memory: every load returns the
\* last word stored, through refills, write-backs and uncached accesses.
THEOREM DataIsMemory == ASSUME DP!NoAlias PROVE Spec => DP!AtomicMemory
<1>1. Init => DP!Init
  BY DataInit
<1>2. BusInv /\ BusInv' /\ [Next]_vars => [DP!Next]_DP!vars
  BY DataStep
<1>3. DP!Spec => DP!AtomicMemory
  BY Assumed, SameSets, DP!CacheIsMemory
<1>. QED
  BY <1>1, <1>2, <1>3, BusInit, BusStep, PTL DEF Spec, DP!Spec

-----------------------------------------------------------------------------
(* The fetch side.                                                          *)

\* No data request is for a line that holds instructions.
Apart ==
  \A a \in ReqAddrs, c \in CodeAddrs :
    <<a.cached, a.tag, a.index>> # <<c.cached, c.tag, c.index>>

\* The code is as it was loaded, and the fetches ask for nothing else.
CodeInv ==
  /\ \A a \in Addr : CodeLine(a) => mem[a] = InitMem[a]
  /\ busy /\ index = 1 /\ tx.busy => CodeLine(tx.addr)

\* Everything together, for memory maps in which no address is cached and not.
MapInv == BusInv /\ DP!IInv /\ FP!IInv /\ CodeInv /\ FetchedIsCode

\* A data write goes to a line the data side has asked for.
LEMMA DataWrites ==
  ASSUME BusInv, DP!IInv, ~reset, busy, index = 0, tx.busy, tx.is_write
  PROVE  \E a \in ReqAddrs : /\ a.cached = tx.addr.cached
                             /\ a.tag = tx.addr.tag /\ a.index = tx.addr.index
<1>1. DP!PortInv /\ DP!TagInv /\ DP!TxInv
  BY DEF DP!IInv, DP!RunInv
<1>2. dtx = tx
  BY DEF dtx
<1>3. /\ DP!creq.is_write /\ tx.addr = DP!creq.addr /\ state # "INIT"
      /\ dreq \in DP!Requests \cup {DP!NoReq} /\ dreq.valid
  BY <1>1, <1>2 DEF DP!TxInv, DP!PortInv
<1>4. dreq.addr \in ReqAddrs
  <2>1. ~DP!NoReq.valid
    BY DEF DP!NoReq
  <2>2. dreq \in DP!Loads \/ dreq \in DP!Stores
    BY <1>3, <2>1 DEF DP!Requests
  <2>. QED  BY <2>2 DEF DP!Loads, DP!Stores
<1>5. CASE state = "WRITEBACK"
  <2>1. tx.addr = DP!LineAddr(DP!meta_ram_rmeta[DP!position].tag)
    BY <1>3, <1>5 DEF DP!creq
  <2>2. /\ DP!Invalid = {} /\ dreq.addr.cached /\ DP!meta_ram_rmeta = meta[dreq.addr.index]
    BY <1>1, <1>5 DEF DP!PortInv, DP!Refilling, DP!meta_ram_rmeta
  <2>3. DP!position \in DP!Way /\ dreq.addr.index \in DP!Index
    BY Assumed, SameSets, DP!PositionWay
    DEF DP!IInv, DP!TypeOK, DP!CacheTypeOK, DP!DReq, DP!Addr
  <2>4. meta[dreq.addr.index][DP!position].valid
    BY <2>2, <2>3 DEF DP!Invalid
  <2>5. \E a \in ReqAddrs : /\ a.cached /\ a.index = dreq.addr.index
                            /\ a.tag = meta[dreq.addr.index][DP!position].tag
    BY <1>1, <2>3, <2>4 DEF DP!TagInv
  <2>6. /\ tx.addr.cached = dreq.addr.cached /\ tx.addr.index = dreq.addr.index
        /\ tx.addr.tag = meta[dreq.addr.index][DP!position].tag
    BY <2>1, <2>2 DEF DP!LineAddr
  <2>. QED  BY <2>2, <2>5, <2>6
<1>6. CASE state = "UNCACHED"
  BY <1>3, <1>4, <1>6 DEF DP!creq
<1>. QED  BY <1>3, <1>5, <1>6 DEF DP!creq

\* The beats of a transaction stay in its line.
LEMMA BeatLine ==
  ASSUME BusInv, tx.busy
  PROVE  /\ BeatAddr \in Addr
         /\ BeatAddr.cached = tx.addr.cached /\ BeatAddr.tag = tx.addr.tag
         /\ BeatAddr.index = tx.addr.index
         /\ CodeLine(BeatAddr) <=> CodeLine(tx.addr)
<1>1. tx.addr \in Addr /\ tx.N \in 1 .. WORDS_PER_LINE
  BY Assumed DEF BusInv, TypeOK, DeviceTypeOK, Tx
<1>2. /\ BeatAddr \in Addr
      /\ BeatAddr.cached = tx.addr.cached /\ BeatAddr.tag = tx.addr.tag
      /\ BeatAddr.index = tx.addr.index
  BY <1>1, Assumed DEF BeatAddr, Addr, Offset
<1>. QED  BY <1>2 DEF CodeLine

\* The fetches ask for lines of code.
LEMMA FetchLine ==
  ASSUME BusInv
  PROVE  CodeLine(I!creq.addr) /\ ireq.addr \in Addr /\ CodeLine(ireq.addr)
<1>1. ireq.addr \in CodeAddrs /\ ireq.addr \in Addr
  BY Assumed DEF BusInv, TypeOK
<1>2. IREQ_TO_DREQ(ireq).addr = ireq.addr
  BY DEF IREQ_TO_DREQ
<1>3. I!creq.addr = ireq.addr \/ I!creq.addr = I!LineAddr(ireq.addr.tag)
  BY <1>2 DEF I!creq, BusInv, ReadOnly
<1>4. /\ I!LineAddr(ireq.addr.tag).cached = ireq.addr.cached
      /\ I!LineAddr(ireq.addr.tag).tag = ireq.addr.tag
      /\ I!LineAddr(ireq.addr.tag).index = ireq.addr.index
  BY <1>2 DEF I!LineAddr
<1>. QED  BY <1>1, <1>3, <1>4 DEF CodeLine

\* The code stays as it was loaded.
LEMMA CodeStep ==
  ASSUME Apart, BusInv, DP!IInv, CodeInv, [Next]_vars
  PROVE  CodeInv'
<1>1. ASSUME NEW enable \in BOOLEAN, Cycle(enable) PROVE CodeInv'
  <2>. DEFINE req == oreq(ireqs)
  <2>1. /\ ~reset /\ ArbiterEdge(ireqs, Resp(enable)) /\ DeviceEdge(enable, oreq(ireqs))
    BY <1>1 DEF Cycle
  <2>2. /\ index \in {0, 1} /\ (~busy => tx = NoTransaction) /\ (~busy' => tx' = NoTransaction)
        /\ ~busy => UNCHANGED <<mem, tx>>
        /\ busy => index' = index
        /\ busy /\ index = 1 => mem' = mem
        /\ ~NoTransaction.busy
    BY <2>1, BusEdge, Shapes DEF BusInv, TypeOK, ArbiterTypeOK, FreeInv, deviceVars
  <2>3. \A a \in Addr : CodeLine(a) => mem'[a] = InitMem[a]
    <3>1. SUFFICES ASSUME NEW a \in Addr, CodeLine(a), mem' # mem PROVE mem'[a] = InitMem[a]
      BY DEF CodeInv
    <3>2. busy /\ index = 0
      BY <2>2, <3>1
    <3>3. tx.busy /\ tx.is_write /\ \E v : mem' = [mem EXCEPT ![BeatAddr] = v]
      BY <2>1, <3>1 DEF DeviceEdge, StartTx, Beat, NoRequest, deviceVars
    <3>4. ~CodeLine(BeatAddr)
      <4>1. PICK b \in ReqAddrs : /\ b.cached = tx.addr.cached
                                  /\ b.tag = tx.addr.tag /\ b.index = tx.addr.index
        BY <2>1, <3>2, <3>3, DataWrites
      <4>2. ~CodeLine(tx.addr)
        BY <4>1 DEF CodeLine, Apart
      <4>. QED  BY <3>3, <4>2, BeatLine
    <3>5. mem \in [Addr -> Word] /\ mem[a] = InitMem[a]
      BY <3>1 DEF BusInv, TypeOK, DeviceTypeOK, CodeInv
    <3>. QED  BY <3>1, <3>3, <3>4, <3>5
  <2>4. ASSUME busy', index' = 1, tx'.busy PROVE CodeLine(tx'.addr)
    <3>1. busy /\ index = 1
      BY <2>2, <2>4
    <3>2. req = I!creq
      BY <2>1, <3>1, Forwarded
    <3>. HIDE DEF req
    <3>3. DeviceEdge(enable, req)
      BY <2>1 DEF req
    <3>4. CASE StartTx(req)
      BY <3>2, <3>4, FetchLine DEF StartTx
    <3>5. CASE Beat(req) \/ UNCHANGED tx
      BY <2>2, <2>4, <3>1, <3>5 DEF Beat, CodeInv, BusInv, TypeOK, DeviceTypeOK, Tx
    <3>. QED  BY <3>3, <3>4, <3>5 DEF DeviceEdge, NoRequest, deviceVars
  <2>. QED  BY <2>3, <2>4 DEF CodeInv, CodeLine
<1>2. CASE ResetCycle
  BY <1>2 DEF ResetCycle, DeviceReset, CodeInv, CodeLine, NoTransaction
<1>3. CASE UNCHANGED vars
  BY <1>3 DEF vars, arbiterVars, deviceVars, CodeInv, CodeLine
<1>. QED  BY <1>1, <1>2, <1>3 DEF Next

\* A clock edge of the arbiter and the memory, as the instruction cache sees it.
LEMMA FetchEdge ==
  ASSUME BusInv, BusInv', CodeInv, CodeInv', ~reset, NEW enable \in BOOLEAN,
         ArbiterEdge(ireqs, Resp(enable)), DeviceEdge(enable, oreq(ireqs))
  PROVE  \E e \in BOOLEAN : /\ FP!Resp(e) = iresp(1, Resp(enable))
                            /\ FP!DeviceEdge(e, FP!creq)
<1>1. /\ index \in {0, 1} /\ (~busy => tx = NoTransaction) /\ (~busy' => tx' = NoTransaction)
      /\ ~busy => UNCHANGED <<mem, tx>>
      /\ busy => index' = index
  BY BusEdge, Shapes DEF BusInv, TypeOK, ArbiterTypeOK, FreeInv, deviceVars
<1>2. FP!NoTransaction = NoTransaction /\ FP!NoResp = NoResp /\ ~NoTransaction.busy
  BY SameSets DEF FP!NoTransaction, NoTransaction, FP!NoResp, NoResp
<1>3. imem' = imem
  <2>1. \A a \in Addr : imem[a] = InitMem[a]
    BY DEF imem, CodeInv
  <2>2. \A a \in Addr : imem'[a] = InitMem[a]
    BY DEF imem, CodeInv, CodeLine
  <2>. QED  BY <2>1, <2>2 DEF imem
<1>4. CASE busy /\ index = 1
  <2>1. itx = tx
    BY <1>4 DEF itx
  <2>2. itx' = tx'
    BY <1>1, <1>4 DEF itx
  <2>3. FP!BeatAddr = BeatAddr /\ (FP!Last <=> Last)
    BY <2>1 DEF FP!BeatAddr, BeatAddr, FP!Last, Last
  <2>4. FP!Resp(enable) = iresp(1, Resp(enable))
    <3>1. ASSUME tx.busy PROVE imem[BeatAddr] = mem[BeatAddr]
      BY <1>4, <3>1, BeatLine DEF imem, CodeInv
    <3>. QED  BY <1>2, <1>4, <2>1, <2>3, <3>1, SameSets DEF FP!Resp, Resp, iresp
  <2>. DEFINE r == FP!creq
  <2>5. DeviceEdge(enable, r)
    BY <1>4, Forwarded, SameFetch
  <2>6. tx.busy => ~tx.is_write
    BY <1>4 DEF BusInv, ReadOnly
  <2>. HIDE DEF r
  <2>7. FP!DeviceEdge(enable, r)
    BY <1>2, <1>3, <2>1, <2>2, <2>3, <2>5, <2>6
    DEF DeviceEdge, FP!DeviceEdge, StartTx, FP!StartTx, Beat, FP!Beat, NoRequest, FP!NoRequest,
        deviceVars, FP!deviceVars
  <2>. QED  BY <2>4, <2>7 DEF r
<1>5. CASE ~(busy /\ index = 1)
  <2>1. itx = NoTransaction
    BY <1>5 DEF itx
  <2>2. itx' = NoTransaction
    BY <1>1, <1>5 DEF itx
  <2>3. FP!Resp(FALSE) = iresp(1, Resp(enable))
    BY <1>2, <1>5 DEF FP!Resp, iresp
  <2>4. FP!DeviceEdge(FALSE, FP!creq)
    BY <1>3, <2>1, <2>2 DEF FP!DeviceEdge, FP!deviceVars
  <2>. QED  BY <2>3, <2>4
<1>. QED  BY <1>4, <1>5

\* Every fetch is a request of the instance.
LEMMA FetchRequests ==
  \A r \in Fetches : IREQ_TO_DREQ(r) \in FP!Requests
BY SameSets, Assumed DEF IREQ_TO_DREQ, FP!Requests, FP!Loads

\* Every step is one of the instruction cache with its memory, or none.  The
\* bound on the hits must be beyond what lru_cnt can reach: the core goes on
\* fetching.
LEMMA FetchStep ==
  ASSUME LRU_MAX < MAX_HITS, BusInv, BusInv', CodeInv, CodeInv', [Next]_vars
  PROVE  [FP!Next]_FP!vars
<1>. DEFINE d == IF reset THEN DataSide!NoReq ELSE IREQ_TO_DREQ(ireq)
<1>0. d' = IF reset' THEN DataSide!NoReq ELSE IREQ_TO_DREQ(ireq')
  BY DEF IREQ_TO_DREQ, DataSide!NoReq, DataSide!ZeroWord
<1>1. ASSUME NEW enable \in BOOLEAN, Cycle(enable) PROVE FP!Next
  <2>. DEFINE q == iresp(1, Resp(enable))
  <2>1. /\ ~reset /\ reset' = reset /\ held' = 0 /\ reset \in BOOLEAN
        /\ I!CacheEdge(q) /\ ArbiterEdge(ireqs, Resp(enable)) /\ DeviceEdge(enable, oreq(ireqs))
        /\ Core(iresp(0, Resp(enable)), q)
        /\ Answers(iresp(0, Resp(enable)), q)
    BY <1>1 DEF Cycle, BusInv, TypeOK, CacheTypeOK
  <2>2. PICK e \in BOOLEAN : FP!Resp(e) = q /\ FP!DeviceEdge(e, FP!creq)
    BY <2>1, FetchEdge
  <2>3. FP!CacheEdge(q)
    BY <2>1, SameFetch
  <2>4. FP!Port(q)
    <3>1. /\ FP!dbus_ok(q) <=> I!dbus_ok(q)
          /\ FP!dresp(q) = I!dresp(q)
      BY <2>1, SameFetch
    <3>. HIDE DEF q
    <3>2. ilru_cnt' < MAX_HITS
      BY Assumed DEF BusInv, TypeOK, I!CacheTypeOK, I!Age
    <3>3. d = IREQ_TO_DREQ(ireq) /\ d' = IREQ_TO_DREQ(ireq')
      BY <1>0, <2>1
    <3>4. ireq' \in Fetches /\ (~I!dbus_ok(q) => ireq' = ireq)
      BY <2>1, CoreEdge DEF imem_wait, BusInv, TypeOK
    <3>5. ianswer' = IF I!dbus_ok(q) THEN [ok |-> TRUE, data |-> I!dresp(q).data] ELSE NoAnswer
      BY <2>1 DEF Answers
    <3>6. d.valid /\ d.strobe = {}
      <4>1. ireq.valid
        BY Assumed DEF BusInv, TypeOK
      <4>. QED  BY <3>3, <4>1 DEF IREQ_TO_DREQ
    <3>7. FP!NoAnswer = NoAnswer
      BY SameSets DEF FP!NoAnswer, NoAnswer
    <3>8. d' \in FP!Requests
      BY <3>3, <3>4, FetchRequests
    <3>9. d' = d \/ I!dbus_ok(q)
      BY <3>3, <3>4
    <3>. HIDE DEF d
    <3>10. FP!NewRequest
      BY <3>2, <3>8 DEF FP!NewRequest, d
    <3>. QED
      BY <3>1, <3>5, <3>6, <3>7, <3>9, <3>10 DEF FP!Port, d
  <2>. HIDE DEF q
  <2>5. FP!Cycle(e)
    BY <2>1, <2>2, <2>3, <2>4 DEF FP!Cycle, FP!AssertReset
  <2>. QED  BY <2>5 DEF FP!Next
<1>2. CASE ResetCycle
  <2>1. /\ reset /\ I!CacheEdge(NoResp) /\ ireq' = ireq /\ ianswer' = ianswer
        /\ mem' = InitMem /\ tx' = NoTransaction
        /\ held' = held + 1 /\ reset' = (held + 1 < RESET_CYCLES)
    BY <1>2 DEF ResetCycle, DeviceReset, coreVars
  <2>2. ianswer' = NoAnswer /\ ireq' \in Fetches
    BY <2>1 DEF BusInv, ResetQuiet, TypeOK
  <2>3. /\ FP!NoTransaction = NoTransaction /\ FP!NoResp = NoResp /\ FP!NoAnswer = NoAnswer
        /\ ~NoTransaction.busy
    BY SameSets
    DEF FP!NoTransaction, NoTransaction, FP!NoResp, NoResp, FP!NoAnswer, NoAnswer
  <2>4. FP!Resp(FALSE) = NoResp
    BY <2>3 DEF FP!Resp
  <2>5. itx' = NoTransaction
    BY <2>1 DEF itx, NoTransaction
  <2>6. imem' = InitMem
    <3>1. \A a \in Addr : imem'[a] = InitMem[a]
      BY <2>1 DEF imem, CodeLine
    <3>. QED  BY <3>1, Assumed DEF imem
  <2>7. FP!CacheEdge(FP!Resp(FALSE)) /\ FP!DeviceReset
    BY <2>1, <2>3, <2>4, <2>5, <2>6, FetchReset DEF FP!DeviceReset
  <2>8. d' \in IF reset' THEN {FP!NoReq} ELSE FP!Requests \cup {FP!NoReq}
    BY <1>0, <2>2, FetchRequests, SameSets
  <2>9. FP!ResetCycle(FALSE)
    BY <2>1, <2>2, <2>3, <2>7, <2>8 DEF FP!ResetCycle
  <2>. QED  BY <2>9 DEF FP!Next
<1>3. CASE UNCHANGED vars
  <2>1. UNCHANGED <<reset, ireq, busy, index, mem, tx, held, ianswer, icacheVars>>
    BY <1>3 DEF vars, arbiterVars, deviceVars, coreVars
  <2>2. d' = d /\ itx' = itx /\ imem' = imem
    BY <1>0, <2>1 DEF itx, imem, CodeLine
  <2>. QED  BY <2>1, <2>2 DEF icacheVars, FP!vars, FP!cacheVars, FP!deviceVars
<1>. QED  BY <1>1, <1>2, <1>3 DEF Next

LEMMA FetchInit == Init => FP!Init
<1>. SUFFICES ASSUME Init PROVE FP!Init
  OBVIOUS
<1>1. reset = TRUE /\ held = 0 /\ ianswer = NoAnswer /\ mem = InitMem /\ busy = FALSE
  BY DEF Init, DeviceInit, ArbiterInit
<1>2. imem = InitMem
  <2>1. \A a \in Addr : imem[a] = InitMem[a]
    BY <1>1 DEF imem
  <2>. QED  BY <2>1, Assumed DEF imem
<1>3. itx = FP!NoTransaction
  BY <1>1 DEF itx, NoTransaction, FP!NoTransaction
<1>4. FP!CacheInit
  BY SameSets
  DEF Init, I!CacheInit, FP!CacheInit, I!NoLine, FP!NoLine, I!Index, FP!Index, I!Way, FP!Way,
      I!Offset, FP!Offset, I!ZeroWord, FP!ZeroWord
<1>5. FP!NoAnswer = NoAnswer
  BY SameSets DEF FP!NoAnswer, NoAnswer
<1>. QED  BY <1>1, <1>2, <1>3, <1>4, <1>5, SameSets DEF FP!Init, FP!DeviceInit

\* The code is intact as long as the data cache is the one of its invariant.
CodeSafe == BusInv /\ DP!IInv /\ CodeInv

LEMMA CodeSafeInit == Init => CodeSafe
<1>1. Init => DP!IInv
  BY DataInit, Assumed, SameSets, DP!InitInv
<1>2. Init => CodeInv
  BY DEF Init, DeviceInit, ArbiterInit, CodeInv
<1>. QED  BY <1>1, <1>2, BusInit DEF CodeSafe

LEMMA CodeSafeStep ==
  ASSUME DP!NoAlias, Apart, CodeSafe, [Next]_vars
  PROVE  CodeSafe'
<1>1. BusInv'
  BY BusStep DEF CodeSafe
<1>2. DP!IInv'
  <2>1. [DP!Next]_DP!vars
    BY <1>1, DataStep DEF CodeSafe
  <2>. QED  BY <2>1, Assumed, SameSets, DP!StepInv DEF CodeSafe
<1>3. CodeInv'
  BY CodeStep DEF CodeSafe
<1>. QED  BY <1>1, <1>2, <1>3 DEF CodeSafe

\* The instruction cache, too, behaves as one that has the memory for itself,
\* and that memory never changes: stores of the data side do not show in it.
THEOREM FetchIsAlone ==
  ASSUME DP!NoAlias, Apart, LRU_MAX < MAX_HITS
  PROVE  Spec => FetchSideAlone
<1>1. Init => FetchSide!Init
  BY FetchInit, SameCode
<1>2. CodeSafe /\ CodeSafe' /\ [Next]_vars => [FetchSide!Next]_FetchSide!vars
  <2>1. FP!vars' = FP!vars => FetchSide!vars' = FetchSide!vars
    BY DEF FP!vars, FP!cacheVars, FP!deviceVars, FetchSide!vars, FetchSide!cacheVars,
           FetchSide!deviceVars
  <2>. QED  BY <2>1, FetchStep, SameCode DEF CodeSafe
<1>3. CodeSafe /\ [Next]_vars => CodeSafe'
  BY CodeSafeStep
<1>. QED
  BY <1>1, <1>2, <1>3, CodeSafeInit, PTL DEF Spec, FetchSideAlone, FetchSide!Spec

\* The fetch port is a plain memory.
THEOREM FetchIsMemory ==
  ASSUME DP!NoAlias, FP!NoAlias, Apart, LRU_MAX < MAX_HITS
  PROVE  Spec => FP!AtomicMemory
<1>1. Init => FP!Init
  BY FetchInit
<1>2. CodeSafe /\ CodeSafe' /\ [Next]_vars => [FP!Next]_FP!vars
  BY FetchStep DEF CodeSafe
<1>3. CodeSafe /\ [Next]_vars => CodeSafe'
  BY CodeSafeStep
<1>4. FP!Spec => FP!AtomicMemory
  BY Assumed, SameSets, FP!CacheIsMemory
<1>. QED
  BY <1>1, <1>2, <1>3, <1>4, CodeSafeInit, PTL DEF Spec, FP!Spec

-----------------------------------------------------------------------------
(* The bus and register F.                                                  *)

\* A fetch that is answered gets the word of the code at its address.
LEMMA FetchedWord ==
  ASSUME BusInv, CodeInv, FP!IInv, ~reset, NEW enable \in BOOLEAN,
         I!CacheEdge(iresp(1, Resp(enable))), I!dbus_ok(iresp(1, Resp(enable)))
  PROVE  I!dresp(iresp(1, Resp(enable))).data = InitMem[ireq.addr]
<1>. DEFINE q == iresp(1, Resp(enable))
            d == IF reset THEN DataSide!NoReq ELSE IREQ_TO_DREQ(ireq)
<1>1. d.addr = ireq.addr /\ d.strobe = {} /\ ireq.addr \in Addr /\ CodeLine(ireq.addr)
  BY FetchLine DEF IREQ_TO_DREQ
<1>2. imem[ireq.addr] = InitMem[ireq.addr]
  BY <1>1 DEF imem, CodeInv
<1>3. FP!CacheEdge(q) /\ FP!dbus_ok(q) /\ I!dresp(q) = FP!dresp(q)
  BY SameFetch
<1>4. /\ FP!PortInv /\ FP!TagInv /\ FP!TxInv /\ FP!CleanLineIsMemory /\ FP!TypeOK
      /\ FP!position \in FP!Way
  BY Assumed, SameSets, FP!PositionWay DEF FP!IInv, FP!RunInv, FP!TypeOK
<1>5. CASE FP!cached_ok
  <2>1. FP!Hit
    BY <1>3, <1>5 DEF FP!CacheEdge, FP!InitIdle, FP!Miss, FP!StartUncached, FP!Fetch,
                      FP!Writeback, FP!Uncached, FP!Reset, FP!cached_ok, FP!hit_data_ok
  <2>2. FP!Holds(FP!position, d.addr) /\ FP!ram_addr = <<FP!position, d.addr.index, d.addr.offset>>
    BY <1>4, <2>1, Assumed, SameSets, FP!HitHolds
  <2>3. ~imeta[ireq.addr.index][FP!position].dirty
    BY <1>1, <1>4, SameSets DEF BusInv, ReadOnly, Addr
  <2>4. FP!ram_rdata = imem[ireq.addr]
    BY <1>1, <1>4, <2>2, <2>3, SameSets DEF FP!CleanLineIsMemory, FP!ram_rdata
  <2>. QED  BY <1>2, <1>3, <1>5, <2>4 DEF FP!dresp, FP!cached_ok
<1>6. CASE FP!uncached_ok(q)
  <2>1. istate = "UNCACHED" /\ q.last
    BY <1>6 DEF FP!uncached_ok
  <2>2. busy /\ index = 1 /\ tx.busy /\ Last /\ enable /\ q = Resp(enable)
    BY <2>1, Answered, Shapes DEF iresp, BusInv, TypeOK, ArbiterTypeOK
  <2>3. itx = tx
    BY <2>2 DEF itx
  <2>4. tx.addr = FP!creq.addr /\ tx.N = 1
    BY <1>4, <2>1, <2>2, <2>3 DEF FP!TxInv, FP!Refilling
  <2>5. tx.addr = ireq.addr
    BY <1>1, <2>1, <2>4 DEF FP!creq
  <2>6. BeatAddr = ireq.addr
    BY <1>1, <2>4, <2>5, Assumed DEF BeatAddr, Addr, Offset
  <2>7. q.data = mem[ireq.addr]
    BY <2>2, <2>6 DEF Resp, BusInv, ReadOnly
  <2>. QED
    BY <1>1, <1>2, <1>3, <1>6, <2>1, <2>7 DEF FP!dresp, CodeInv
<1>. QED  BY <1>3, <1>5, <1>6 DEF FP!dbus_ok

LEMMA MapInit == Init => MapInv
<1>1. Init => FP!IInv
  BY FetchInit, Assumed, SameSets, FP!InitInv
<1>2. Init => FetchedIsCode
  BY DEF Init, NoInstr, FetchedIsCode
<1>. QED  BY <1>1, <1>2, CodeSafeInit DEF MapInv, CodeSafe

LEMMA MapStep ==
  ASSUME DP!NoAlias, FP!NoAlias, Apart, LRU_MAX < MAX_HITS, MapInv, [Next]_vars
  PROVE  MapInv'
<1>1. CodeSafe /\ CodeSafe'
  BY CodeSafeStep DEF MapInv, CodeSafe
<1>2. FP!IInv'
  <2>1. [FP!Next]_FP!vars
    BY <1>1, FetchStep DEF CodeSafe
  <2>. QED  BY <2>1, Assumed, SameSets, FP!StepInv DEF MapInv
<1>3. FetchedIsCode'
  <2>1. ASSUME NEW enable \in BOOLEAN, Cycle(enable), dataF'.valid, dataF' # dataF
        PROVE  dataF'.raw_instr = Half(InitMem[dataF'.pc.addr], dataF'.pc)
    <3>. DEFINE q == iresp(1, Resp(enable))
    <3>1. /\ ~reset /\ I!CacheEdge(q) /\ I!dbus_ok(q)
          /\ dataF' = [valid |-> TRUE, pc |-> ireq, raw_instr |-> Half(I!dresp(q).data, ireq)]
      BY <2>1, CoreEdge DEF Cycle, imem_wait, NoInstr, TakesFetch
    <3>2. I!dresp(q).data = InitMem[ireq.addr]
      BY <3>1, FetchedWord DEF MapInv
    <3>. HIDE DEF q
    <3>. QED  BY <3>1, <3>2
  <2>2. ASSUME dataF' = dataF PROVE FetchedIsCode'
    BY <2>2 DEF MapInv, FetchedIsCode, Half
  <2>3. ASSUME NEW enable \in BOOLEAN, Cycle(enable) PROVE FetchedIsCode'
    BY <2>1, <2>2, <2>3 DEF FetchedIsCode, Half
  <2>4. ResetCycle \/ UNCHANGED vars => dataF' = dataF
    BY DEF ResetCycle, vars, coreVars
  <2>. QED  BY <2>2, <2>3, <2>4 DEF Next
<1>. QED  BY <1>1, <1>2, <1>3 DEF MapInv, CodeSafe

\* Everything these proofs know of the two caches, the bus and register F.
THEOREM Invariance ==
  ASSUME DP!NoAlias, FP!NoAlias, Apart, LRU_MAX < MAX_HITS
  PROVE  Spec => []MapInv
<1>1. MapInv /\ [Next]_vars => MapInv'
  BY MapStep
<1>. QED  BY <1>1, MapInit, PTL DEF Spec

\* Register F never holds anything but the instruction its pc points to.
THEOREM FetchesCode ==
  ASSUME DP!NoAlias, FP!NoAlias, Apart, LRU_MAX < MAX_HITS
  PROVE  Spec => []FetchedIsCode
<1>1. MapInv => FetchedIsCode
  BY DEF MapInv
<1>. QED  BY <1>1, Invariance, PTL

\* The memory's assertions on a request in progress hold through the arbiter.
THEOREM RequestsHeld ==
  ASSUME DP!NoAlias, FP!NoAlias, Apart, LRU_MAX < MAX_HITS
  PROVE  Spec => []BusHeld
<1>1. MapInv => BusHeld
  <2>1. SUFFICES ASSUME MapInv, ~reset, tx.busy PROVE RequestHeld(oreq(ireqs))
    BY DEF BusHeld, RequestHeld
  <2>2. BusInv /\ busy /\ index \in {0, 1}
    BY <2>1, Shapes DEF MapInv, BusInv, TypeOK, ArbiterTypeOK, FreeInv
  <2>3. CASE index = 0
    <3>1. dtx = tx /\ oreq(ireqs) = DP!creq
      BY <2>1, <2>2, <2>3, Forwarded, SameCache DEF dtx
    <3>2. DP!TxInv /\ DP!PortInv
      BY <2>1 DEF MapInv, DP!IInv, DP!RunInv
    <3>3. state # "INIT" /\ dreq.valid
      BY <2>1, <3>1, <3>2 DEF DP!TxInv, DP!PortInv
    <3>4. DP!creq.valid
      BY <2>1, <3>3 DEF DP!creq
    <3>5. DP!creq.is_write = tx.is_write /\ DP!creq.addr = tx.addr /\ DP!creq.len = tx.len
      BY <2>1, <3>1, <3>2 DEF DP!TxInv
    <3>. QED  BY <3>1, <3>4, <3>5 DEF RequestHeld
  <2>4. CASE index = 1
    <3>1. itx = tx /\ oreq(ireqs) = FP!creq
      BY <2>1, <2>2, <2>4, Forwarded, SameFetch DEF itx
    <3>2. FP!TxInv
      BY <2>1 DEF MapInv, FP!IInv, FP!RunInv
    <3>3. istate # "INIT" /\ IREQ_TO_DREQ(ireq).valid
      <4>1. ireq.valid
        BY <2>2, Assumed DEF BusInv, TypeOK
      <4>. QED  BY <2>1, <3>1, <3>2, <4>1 DEF FP!TxInv, IREQ_TO_DREQ
    <3>4. FP!creq.valid
      BY <2>1, <3>3 DEF FP!creq
    <3>5. FP!creq.is_write = tx.is_write /\ FP!creq.addr = tx.addr /\ FP!creq.len = tx.len
      BY <2>1, <3>1, <3>2 DEF FP!TxInv
    <3>. QED  BY <3>1, <3>4, <3>5 DEF RequestHeld
  <2>. QED  BY <2>2, <2>3, <2>4
<1>. QED  BY <1>1, Invariance, PTL
=============================================================================
