---------------------------- MODULE CacheProofs ----------------------------
(***************************************************************************)
(* Proofs about CacheSystem, for every number of sets, ways, words per      *)
(* line, byte lanes, tags and words, and for any set of requests in which   *)
(* no uncached address shares tag and index with a cached one.             *)
(***************************************************************************)
EXTENDS CacheSystem, WellFoundedInduction, TLAPS

\* The SoC's memory map: device registers and RAM differ below bit 31.
NoAlias ==
  \A a, b \in ReqAddrs : a.cached /\ ~b.cached => <<a.tag, a.index>> # <<b.tag, b.index>>

Refilling == state \in {"FETCH", "WRITEBACK"}

\* What the port may hold, and what the FSM has established about it.
PortInv ==
  /\ dreq \in Requests \cup {NoReq}
  /\ state # "INIT" => dreq.valid
  /\ Refilling => dreq.addr.cached /\ Matching = {}
  /\ state = "UNCACHED" => ~dreq.addr.cached
  /\ state = "WRITEBACK" => Invalid = {}

\* Valid lines were asked for as cached lines, and are in one way only.
TagInv ==
  /\ UniqueTag
  /\ \A i \in Index, w \in Way : meta[i][w].valid =>
       \E a \in ReqAddrs : a.cached /\ a.index = i /\ a.tag = meta[i][w].tag

\* The device's transaction is the one the cache is asking for, at its beat.
TxInv ==
  /\ ~tx.busy => tx = NoTransaction
  /\ tx.busy =>
       /\ state # "INIT"
       /\ tx.is_write = creq.is_write /\ tx.addr = creq.addr /\ tx.len = creq.len
       /\ tx.N = IF Refilling THEN counter + 1 ELSE 1
  /\ Refilling /\ ~tx.busy => counter = 0

\* The part of the line already transferred agrees with memory.
CopyInv ==
  Refilling => \A o \in Offset : o < counter =>
    ram[<<position, dreq.addr.index, o>>] = mem[[creq.addr EXCEPT !.offset = o]]

RunInv == ~reset => PortInv /\ TagInv /\ TxInv /\ CopyInv /\ CleanLineIsMemory

\* Reset cycles since set i was cleared, when set n is next.
Lag(i, n) == IF i < n THEN n - 1 - i ELSE n - 1 - i + SET_NUM
Since(i) == Lag(i, reset_cnt)

ResetInv ==
  reset =>
    /\ held > 0 => /\ state = "INIT" /\ dreq = NoReq
                   /\ tx = NoTransaction /\ mem = InitMem
    /\ \A i \in Index : Since(i) < held - 1 => \A w \in Way : ~meta[i][w].valid

IInv == TypeOK /\ RunInv /\ ResetInv

-----------------------------------------------------------------------------
(* The replacement logic.                                                  *)

\* A set of naturals that is not empty has a least element.
LEMMA LeastNat ==
  ASSUME NEW S, S \subseteq Nat, S # {}
  PROVE  \E m \in S : \A n \in S : m <= n
<1>1. \E m \in S : \A n \in S : <<n, m>> \notin OpToRel(<, Nat)
  BY NatLessThanWellFounded, WFMin, Zenon
<1>2. \A n, m \in Nat : <<n, m>> \notin OpToRel(<, Nat) => m <= n
  BY DEF OpToRel
<1>. QED  BY <1>1, <1>2

\* The scan over the ways ends at a way of the set it looks for.
LEMMA FirstWay ==
  ASSUME NEW S, S \subseteq Way, S # {}
  PROVE  First(S) \in S /\ \A v \in S : First(S) <= v
<1>1. S \subseteq Nat
  BY DEF Way
<1>. QED  BY <1>1, LeastNat DEF First

\* Ages of any sign have a least one, so a victim always exists.
LEMMA VictimWay ==
  ASSUME NEW i \in Index, age \in [Index -> [Way -> Age]], dreq.addr.index = i
  PROVE  replaced_position \in Way
<1>. DEFINE Rank(w) == age[i][w] + LRU_MAX + 1
            Ranks == {Rank(w) : w \in Way}
<1>1. Ranks \subseteq Nat
  BY ParamAssumption DEF Age
<1>2. Ranks # {}
  <2>1. 0 \in Way
    BY ParamAssumption DEF Way
  <2>. QED  BY <2>1
<1>3. PICK m \in Ranks : \A n \in Ranks : m <= n
  BY <1>1, <1>2, LeastNat
<1>. DEFINE Oldest == {w \in Way : Rank(w) = m}
<1>4. First(Oldest) \in Oldest /\ \A v \in Oldest : First(Oldest) <= v
  <2>1. Oldest \subseteq Way /\ Oldest # {}
    BY <1>3
  <2>. QED  BY <2>1, FirstWay
<1>5. ASSUME NEW v \in Way
      PROVE  \/ age[i][First(Oldest)] < age[i][v]
             \/ age[i][First(Oldest)] = age[i][v] /\ First(Oldest) <= v
  <2>1. age[i][v] \in Int /\ age[i][First(Oldest)] \in Int
    BY <1>4, ParamAssumption DEF Age
  <2>2. Rank(First(Oldest)) = m /\ m <= Rank(v)
    BY <1>3, <1>4
  <2>3. Rank(v) = m => First(Oldest) <= v
    BY <1>4
  <2>. QED  BY <2>1, <2>2, <2>3, ParamAssumption
<1>6. First(Oldest) \in Way
  BY <1>4
<1>. HIDE DEF Oldest
<1>. QED  BY <1>5, <1>6 DEF replaced_position

\* Whatever the port asks, position (DCache.sv:177-186) is a way of the cache.
LEMMA PositionWay ==
  ASSUME CacheTypeOK
  PROVE  position \in Way
<1>1. Matching \subseteq Way /\ Invalid \subseteq Way
  BY DEF Matching, Invalid
<1>2. replaced_position \in Way
  BY VictimWay DEF CacheTypeOK, DReq, Addr
<1>. QED  BY <1>1, <1>2, FirstWay DEF position, hit_data_ok

-----------------------------------------------------------------------------
(* Types.                                                                  *)

\* The constant words, lines and transactions have their types.
LEMMA ConstantTypes ==
  /\ ZeroWord \in Word
  /\ NoReq \in DReq
  /\ Requests \subseteq DReq
  /\ NoTransaction \in Tx
  /\ NoLine \in Meta
  /\ 0 \in Index /\ 0 \in Offset /\ 0 \in Age
<1>1. ZeroWord \in Word /\ 0 \in Index /\ 0 \in Offset /\ 0 \in Age /\ NoLine \in Meta
  BY ParamAssumption DEF ZeroWord, Word, Index, Offset, Age, NoLine, Meta
<1>2. [cached |-> FALSE, tag |-> ZeroTag, index |-> 0, offset |-> 0] \in Addr
  BY <1>1, ParamAssumption DEF Addr
<1>3. NoReq \in DReq /\ NoTransaction \in Tx
  BY <1>1, <1>2, ParamAssumption DEF NoReq, DReq, NoTransaction, Tx
<1>4. Requests \subseteq DReq
  BY <1>1, EnvAssumption DEF Requests, Loads, Stores, DReq
<1>. QED  BY <1>1, <1>3, <1>4

\* A masked write of a word gives a word.
LEMMA MergeType ==
  ASSUME NEW old \in Word, NEW new \in Word, NEW strobe \in SUBSET Lanes
  PROVE  Merge(old, strobe, new) \in Word
BY DEF Merge, Word

\* The wrapping counters stay in their ranges (DCache.sv:276-288, 328, 335).
LEMMA IncType ==
  /\ \A x \in Offset : Inc(x, WORDS_PER_LINE) \in Offset
  /\ \A x \in Index : Inc(x, SET_NUM) \in Index
  /\ \A x \in Age : IncSigned(x) \in Age
BY ParamAssumption DEF Inc, IncSigned, Offset, Index, Age

\* The device answers with a bus response (cbus_device.cpp:13-30).
LEMMA RespType ==
  ASSUME DeviceTypeOK, NEW enable \in BOOLEAN
  PROVE  Resp(enable) \in CResp
<1>1. ASSUME tx.busy PROVE BeatAddr \in Addr
  BY <1>1, ParamAssumption DEF DeviceTypeOK, Tx, BeatAddr, Addr, Offset
<1>. QED
  BY <1>1, ConstantTypes DEF DeviceTypeOK, Tx, Resp, NoResp, CResp, Last

\* The cache asks for what the bus can carry (DCache.sv:313-321).
LEMMA CReqType ==
  ASSUME CacheTypeOK
  PROVE  creq \in CReq
<1>1. position \in Way
  BY PositionWay
<1>2. meta_ram_rmeta[position].tag \in Tags
  BY <1>1 DEF CacheTypeOK, meta_ram_rmeta, Meta, DReq, Addr
<1>3. \A t \in Tags : LineAddr(t) \in Addr
  BY ConstantTypes DEF CacheTypeOK, LineAddr, DReq, Addr
<1>4. ram_rdata \in Word
  BY <1>1 DEF CacheTypeOK, ram_rdata, ram_addr, cur, DReq, Addr
<1>5. /\ dreq.data \in Word /\ dreq.addr \in Addr /\ dreq.addr.tag \in Tags
      /\ dreq.strobe \subseteq Lanes /\ dreq.valid \in BOOLEAN /\ reset \in BOOLEAN
  BY DEF CacheTypeOK, DReq, Addr
<1>6. creq.addr \in Addr /\ creq.strobe \subseteq Lanes /\ creq.data \in Word
  BY <1>2, <1>3, <1>4, <1>5 DEF creq
<1>7. creq.len \in 1 .. WORDS_PER_LINE
  BY ParamAssumption DEF creq
<1>. QED
  BY <1>5, <1>6, <1>7 DEF creq, CReq

\* Every clock edge keeps the cache's registers in their types.
LEMMA CacheEdgeType ==
  ASSUME CacheTypeOK, NEW cresp \in CResp, CacheEdge(cresp),
         reset' \in BOOLEAN, dreq' \in DReq
  PROVE  CacheTypeOK'
<1>. USE DEF CacheTypeOK
<1>1. position \in Way
  BY PositionWay
<1>2. /\ dreq.addr.index \in Index /\ dreq.addr.offset \in Offset /\ dreq.addr.tag \in Tags
      /\ dreq.strobe \subseteq Lanes /\ dreq.data \in Word
  BY DEF DReq, Addr
<1>3. ram_addr \in Way \X Index \X Offset /\ ram_rdata \in Word
  BY <1>1, <1>2 DEF ram_addr, ram_rdata, cur
<1>4. meta_ram_rmeta[position] \in Meta
  BY <1>1, <1>2 DEF meta_ram_rmeta
<1>5. cresp.data \in Word
  BY DEF CResp
<1>6. ASSUME WriteHit
      PROVE  /\ meta' \in [Index -> [Way -> Meta]]
             /\ ram' \in [Way \X Index \X Offset -> Word]
             /\ age' \in [Index -> [Way -> Age]]
  <2>1. Merge(ram_rdata, dreq.strobe, dreq.data) \in Word
    BY <1>2, <1>3, MergeType
  <2>2. IncSigned(lru_cnt) \in Age
    BY IncType
  <2>3. [valid |-> TRUE, dirty |-> dreq.strobe # {} \/ meta_ram_rmeta[position].dirty,
         tag |-> dreq.addr.tag] \in Meta
    BY <1>2, <1>4 DEF Meta
  <2>. QED  BY <1>1, <1>2, <1>3, <1>6, <2>1, <2>2, <2>3 DEF WriteHit, HitMeta
<1>7. CASE InitIdle
  BY <1>7 DEF InitIdle, cacheVars
<1>8. CASE Hit
  BY <1>6, <1>8, IncType, ConstantTypes DEF Hit
<1>9. CASE Miss
  BY <1>9, ConstantTypes DEF Miss, NoHitWrite
<1>10. CASE StartUncached
  BY <1>6, <1>10 DEF StartUncached, NoHitWrite
<1>11. CASE Fetch(cresp)
  <2>1. [valid |-> TRUE, dirty |-> FALSE, tag |-> dreq.addr.tag] \in Meta
    BY <1>2 DEF Meta
  <2>2. meta' \in [Index -> [Way -> Meta]]
    <3>1. CASE cresp.last
      <4>1. meta' = [meta EXCEPT ![dreq.addr.index][position] =
                       [valid |-> TRUE, dirty |-> FALSE, tag |-> dreq.addr.tag]]
        BY <1>11, <3>1 DEF Fetch, FetchedMeta
      <4>. QED  BY <1>1, <1>2, <2>1, <4>1
    <3>2. CASE ~cresp.last
      BY <1>11, <3>2 DEF Fetch
    <3>. QED  BY <3>1, <3>2
  <2>3. ram' \in [Way \X Index \X Offset -> Word]
    BY <1>3, <1>5, <1>11 DEF Fetch
  <2>. QED  BY <1>11, <2>2, <2>3, IncType DEF Fetch
<1>12. CASE Writeback(cresp)
  BY <1>12, IncType DEF Writeback
<1>13. CASE Uncached(cresp)
  BY <1>13 DEF Uncached
<1>14. CASE Reset(cresp)
  <2>1. /\ Merge(ram_rdata, dreq.strobe, dreq.data) \in Word
        /\ [valid |-> TRUE, dirty |-> FALSE, tag |-> dreq.addr.tag] \in Meta
        /\ NoLine \in Meta
    BY <1>2, <1>3, MergeType, ConstantTypes DEF Meta
  <2>2. meta' \in [Index -> [Way -> Meta]]
    BY <1>14, <2>1 DEF Reset, FetchedMeta
  <2>3. ram' \in [Way \X Index \X Offset -> Word]
    BY <1>3, <1>5, <1>14, <2>1 DEF Reset
  <2>4. age' \in [Index -> [Way -> Age]] /\ lru_cnt' \in Age /\ reset_cnt' \in Index
        /\ counter' \in Offset
    BY <1>14, ConstantTypes, IncType DEF Reset, NextSet
  <2>. QED  BY <1>14, <2>2, <2>3, <2>4 DEF Reset, NextSet
<1>. QED
  BY <1>7, <1>8, <1>9, <1>10, <1>11, <1>12, <1>13, <1>14 DEF CacheEdge

\* Every clock edge keeps the device's memory and transaction in their types.
LEMMA DeviceEdgeType ==
  ASSUME DeviceTypeOK, NEW enable \in BOOLEAN, NEW req \in CReq, DeviceEdge(enable, req)
  PROVE  DeviceTypeOK'
<1>. USE DEF DeviceTypeOK
<1>1. CASE StartTx(req)
  BY <1>1, ParamAssumption DEF StartTx, CReq, Tx
<1>2. CASE Beat(req)
  <2>1. BeatAddr \in Addr
    BY <1>2, ParamAssumption DEF Beat, Tx, BeatAddr, Addr, Offset
  <2>2. mem' \in [Addr -> Word]
    <3>1. Merge(mem[BeatAddr], req.strobe, req.data) \in Word
      BY <2>1, MergeType DEF CReq
    <3>. QED  BY <1>2, <2>1, <3>1 DEF Beat
  <2>3. CASE Last
    BY <1>2, <2>2, <2>3, ConstantTypes DEF Beat, NoTransaction
  <2>4. CASE ~Last
    BY <1>2, <2>2, <2>4, ParamAssumption DEF Beat, Tx, Last
  <2>. QED  BY <2>3, <2>4
<1>3. CASE UNCHANGED deviceVars
  BY <1>3 DEF deviceVars
<1>. QED  BY <1>1, <1>2, <1>3 DEF DeviceEdge, NoRequest

\* Every cycle of the whole system keeps the types.
LEMMA TypeStep ==
  ASSUME TypeOK, [Next]_vars
  PROVE  TypeOK'
<1>. USE DEF TypeOK
<1>1. \A e \in BOOLEAN : Resp(e) \in CResp
  BY RespType
<1>2. creq \in CReq
  BY CReqType
<1>3. \A e \in BOOLEAN : dresp(Resp(e)).data \in Word
  <2>1. ram_rdata \in Word
    BY PositionWay DEF CacheTypeOK, ram_rdata, ram_addr, cur, DReq, Addr
  <2>. QED  BY <1>1, <2>1, ConstantTypes DEF dresp, CResp
<1>4. ASSUME NEW e \in BOOLEAN, Cycle(e)
      PROVE  TypeOK'
  <2>1. reset' \in BOOLEAN /\ held' \in 0 .. RESET_CYCLES /\ (reset' => held' < RESET_CYCLES)
    BY <1>4, EnvAssumption, ParamAssumption DEF Cycle, AssertReset
  <2>2. dreq' \in DReq
    BY <1>4, ConstantTypes DEF Cycle, Port, NewRequest, CacheTypeOK
  <2>3. answer' \in [ok : BOOLEAN, data : Word]
    BY <1>3, <1>4, ConstantTypes DEF Cycle, Port, NoAnswer
  <2>4. CacheTypeOK'
    BY <1>1, <1>4, <2>1, <2>2, CacheEdgeType DEF Cycle
  <2>5. DeviceTypeOK'
    BY <1>2, <1>4, DeviceEdgeType DEF Cycle
  <2>. QED  BY <2>1, <2>3, <2>4, <2>5
<1>5. ASSUME NEW e \in BOOLEAN, ResetCycle(e)
      PROVE  TypeOK'
  <2>1. reset' \in BOOLEAN /\ dreq' \in DReq /\ answer' \in [ok : BOOLEAN, data : Word]
    <3>1. dreq' \in Requests \cup {NoReq}
      BY <1>5 DEF ResetCycle
    <3>2. reset' \in BOOLEAN
      BY <1>5 DEF ResetCycle
    <3>. QED  BY <1>5, <3>1, <3>2, ConstantTypes DEF ResetCycle, NoAnswer
  <2>2. held' \in 0 .. RESET_CYCLES /\ (reset' => held' < RESET_CYCLES)
    <3>1. held' = held + 1 /\ held < RESET_CYCLES
      BY <1>5 DEF ResetCycle
    <3>2. reset' => held + 1 < RESET_CYCLES
      BY <1>5, Zenon DEF ResetCycle
    <3>. QED  BY <3>1, <3>2, EnvAssumption
  <2>3. CacheTypeOK'
    BY <1>1, <1>5, <2>1, CacheEdgeType DEF ResetCycle
  <2>4. DeviceTypeOK'
    BY <1>5, InitMemAssumption, ConstantTypes DEF ResetCycle, DeviceReset, DeviceTypeOK, NoTransaction
  <2>. QED  BY <2>1, <2>2, <2>3, <2>4
<1>6. CASE UNCHANGED vars
  BY <1>6 DEF vars, cacheVars, deviceVars, CacheTypeOK, DeviceTypeOK
<1>. QED  BY <1>4, <1>5, <1>6 DEF Next

-----------------------------------------------------------------------------
(* One cycle out of reset, by what the device does in it.                  *)

\* A request with no cached copy stays one while nothing is written.
LEMMA SameVictim ==
  ASSUME ~reset, ~reset', UNCHANGED <<dreq, meta, age>>, ~hit_data_ok, ~hit_data_ok'
  PROVE  /\ UNCHANGED <<Matching, Invalid, position, meta_ram_rmeta>>
BY DEF Matching, Invalid, position, meta_ram_rmeta, replaced_position

\* By NoAlias an uncached request matches no line.
LEMMA UncachedNoMatch ==
  ASSUME NoAlias, TypeOK, ~reset, PortInv, TagInv, dreq.valid, ~dreq.addr.cached
  PROVE  Matching = {}
<1>1. dreq.addr \in ReqAddrs
  <2>1. dreq # NoReq
    BY DEF NoReq
  <2>. QED  BY <2>1 DEF PortInv, Requests, Loads, Stores
<1>2. dreq.addr.index \in Index
  BY DEF TypeOK, CacheTypeOK, DReq, Addr
<1>3. ASSUME NEW w \in Way, meta[dreq.addr.index][w].valid,
             meta[dreq.addr.index][w].tag = dreq.addr.tag
      PROVE  FALSE
  <2>1. PICK a \in ReqAddrs : a.cached /\ a.index = dreq.addr.index /\ a.tag = dreq.addr.tag
    BY <1>2, <1>3 DEF TagInv
  <2>. QED  BY <1>1, <2>1 DEF NoAlias
<1>. QED  BY <1>3 DEF Matching, meta_ram_rmeta

\* The device does not answer: nothing but the refilled word changes.
NoBeat ==
  /\ state # "INIT"
  /\ UNCHANGED <<state, counter, meta, age, dreq, mem>>
  /\ answer' = NoAnswer
  /\ \/ UNCHANGED tx
     \/ ~tx.busy /\ tx' = [busy |-> TRUE, is_write |-> creq.is_write, N |-> 1,
                           addr |-> creq.addr, len |-> creq.len]
  /\ ram' = IF state = "FETCH" THEN [ram EXCEPT ![ram_addr] = ZeroWord] ELSE ram

\* A beat of a line transfer that is not the last.
MidBeat ==
  /\ Refilling /\ tx.busy
  /\ tx.N # WORDS_PER_LINE
  /\ counter' = counter + 1
  /\ tx' = [tx EXCEPT !.N = @ + 1]
  /\ UNCHANGED <<state, meta, age, dreq>>
  /\ answer' = NoAnswer
  /\ ram' = IF state = "FETCH" THEN [ram EXCEPT ![ram_addr] = mem[BeatAddr]] ELSE ram
  /\ mem' = IF state = "FETCH" THEN mem ELSE [mem EXCEPT ![BeatAddr] = ram_rdata]

\* The last beat of writing back the victim.
LastWriteback ==
  /\ state = "WRITEBACK" /\ tx.busy /\ counter = WORDS_PER_LINE - 1
  /\ state' = "FETCH" /\ counter' = 0 /\ tx' = NoTransaction
  /\ UNCHANGED <<meta, age, dreq, ram>>
  /\ answer' = NoAnswer
  /\ mem' = [mem EXCEPT ![BeatAddr] = ram_rdata]

\* The last beat of fetching the line.
LastFetch ==
  /\ state = "FETCH" /\ tx.busy /\ counter = WORDS_PER_LINE - 1
  /\ state' = "INIT" /\ tx' = NoTransaction
  /\ UNCHANGED <<age, dreq, mem>>
  /\ answer' = NoAnswer
  /\ ram' = [ram EXCEPT ![ram_addr] = mem[BeatAddr]]
  /\ meta' = [meta EXCEPT ![dreq.addr.index][position] =
                [valid |-> TRUE, dirty |-> FALSE, tag |-> dreq.addr.tag]]

\* The only beat of an uncached access.
UncachedBeat ==
  /\ state = "UNCACHED" /\ tx.busy
  /\ state' = "INIT" /\ tx' = NoTransaction
  /\ UNCHANGED <<meta, age, ram>>
  /\ mem' = [mem EXCEPT ![dreq.addr] = Merge(@, dreq.strobe, dreq.data)]
  /\ answer' = [ok |-> TRUE, data |-> IF dreq.strobe = {} THEN mem[dreq.addr] ELSE ZeroWord]
  /\ dreq' \in Requests \cup {NoReq}

\* A cycle that starts in INIT: the bus is idle.
InitCycle ==
  /\ state = "INIT" /\ ~tx.busy
  /\ UNCHANGED deviceVars
  /\ \/ InitIdle /\ dreq' \in Requests \cup {NoReq} /\ answer' = NoAnswer
     \/ /\ Hit /\ dreq' \in Requests \cup {NoReq}
        /\ answer' = [ok |-> TRUE, data |-> IF dreq.strobe = {} THEN ram_rdata ELSE ZeroWord]
     \/ Miss /\ UNCHANGED dreq /\ answer' = NoAnswer
     \/ StartUncached /\ Matching = {} /\ UNCHANGED <<dreq, meta, ram, age>> /\ answer' = NoAnswer

\* One cycle outside reset, as the cache and the device see it together.
LEMMA ClockEdge ==
  ASSUME NoAlias, TypeOK, ~reset, PortInv, TagInv, TxInv, NEW e \in BOOLEAN, Cycle(e)
  PROVE  InitCycle \/ NoBeat \/ MidBeat \/ LastWriteback \/ LastFetch \/ UncachedBeat
<1>0. /\ dreq.addr \in Addr /\ dreq.addr.index \in Index /\ position \in Way
      /\ dreq.data \in Word /\ dreq.strobe \subseteq Lanes /\ ram_rdata \in Word
  BY PositionWay DEF TypeOK, CacheTypeOK, DReq, Addr, ram_rdata, ram_addr, cur
<1>1. CASE state = "INIT"
  <2>1. ~tx.busy /\ ~creq.valid
    BY <1>1 DEF TxInv, creq
  <2>2. UNCHANGED deviceVars
    BY <2>1 DEF Cycle, DeviceEdge, StartTx, Beat, NoRequest
  <2>3. InitIdle \/ Hit \/ Miss \/ StartUncached
    BY <1>1 DEF Cycle, CacheEdge, Fetch, Writeback, Uncached, Reset
  <2>4. ~uncached_ok(Resp(e))
    BY <1>1 DEF uncached_ok
  <2>5. CASE InitIdle
    BY <1>1, <2>1, <2>2, <2>4, <2>5
    DEF InitCycle, Cycle, Port, NewRequest, InitIdle, dbus_ok, cached_ok, hit_data_ok
  <2>6. CASE Hit
    <3>1. dbus_ok(Resp(e)) /\ dresp(Resp(e)).data = ram_rdata
      BY <1>1, <2>6 DEF Hit, dbus_ok, dresp
    <3>. QED  BY <1>1, <2>1, <2>2, <2>6, <3>1 DEF InitCycle, Cycle, Port, NewRequest
  <2>7. CASE Miss
    BY <1>1, <2>1, <2>2, <2>4, <2>7 DEF InitCycle, Cycle, Port, Miss, dbus_ok, cached_ok
  <2>8. CASE StartUncached
    <3>1. Matching = {}
      BY <2>8, UncachedNoMatch DEF StartUncached
    <3>. QED
      BY <1>1, <2>1, <2>2, <2>4, <2>8, <3>1
      DEF InitCycle, Cycle, Port, StartUncached, NoHitWrite, dbus_ok, cached_ok, hit_data_ok
  <2>. QED  BY <2>3, <2>5, <2>6, <2>7, <2>8
<1>2. CASE state # "INIT" /\ ~(e /\ tx.busy)
  <2>1. Resp(e) = NoResp /\ ~NoResp.ready /\ ~NoResp.last /\ NoResp.data = ZeroWord
    BY <1>2 DEF Resp, NoResp
  <2>2. ~dbus_ok(Resp(e)) /\ dreq.valid
    BY <1>2, <2>1 DEF dbus_ok, cached_ok, uncached_ok, PortInv
  <2>3. UNCHANGED dreq /\ answer' = NoAnswer
    BY <2>2 DEF Cycle, Port
  <2>4. \/ UNCHANGED deviceVars
        \/ StartTx(creq)
    BY <1>2 DEF Cycle, DeviceEdge, Beat, NoRequest
  <2>5. Fetch(NoResp) \/ Writeback(NoResp) \/ Uncached(NoResp)
    BY <1>2, <2>1 DEF Cycle, CacheEdge, InitIdle, Hit, Miss, StartUncached, Reset, cached_ok
  <2>6. UNCHANGED <<state, counter, meta, age>>
    BY <2>1, <2>5 DEF Fetch, Writeback, Uncached
  <2>7. ram' = IF state = "FETCH" THEN [ram EXCEPT ![ram_addr] = ZeroWord] ELSE ram
    BY <2>1, <2>5 DEF Fetch, Writeback, Uncached
  <2>. QED  BY <1>2, <2>3, <2>4, <2>6, <2>7 DEF NoBeat, deviceVars, StartTx
<1>3. CASE state # "INIT" /\ e /\ tx.busy
  <2>1. /\ Resp(e).ready = TRUE
        /\ Resp(e).last = (tx.N = tx.len)
        /\ Resp(e).data = IF tx.is_write THEN ZeroWord ELSE mem[BeatAddr]
    BY <1>3 DEF Resp, Last
  <2>2. Beat(creq)
    BY <1>3 DEF Cycle, DeviceEdge, StartTx, NoRequest, deviceVars
  <2>3. dreq.valid /\ ~cached_ok
    BY <1>3 DEF PortInv, cached_ok
  <2>4. CASE state = "UNCACHED"
    <3>1. tx.N = 1 /\ tx.len = 1 /\ tx.addr = dreq.addr /\ tx.is_write = (dreq.strobe # {})
      BY <1>3, <2>4 DEF TxInv, creq, Refilling
    <3>2. BeatAddr = dreq.addr
      BY <1>0, <3>1, ParamAssumption DEF BeatAddr, Addr, Offset
    <3>3. Uncached(Resp(e))
      BY <1>3, <2>4 DEF Cycle, CacheEdge, InitIdle, Hit, Miss, StartUncached, Reset, cached_ok,
                        Fetch, Writeback
    <3>4. dbus_ok(Resp(e)) /\ dresp(Resp(e)).data = Resp(e).data
      BY <2>1, <2>4, <3>1 DEF dbus_ok, uncached_ok, dresp
    <3>5. state' = "INIT" /\ UNCHANGED <<meta, age, ram>>
      BY <2>1, <3>1, <3>3 DEF Uncached
    <3>6. tx' = NoTransaction
      BY <2>2, <3>1 DEF Beat, Last
    <3>7. mem' = [mem EXCEPT ![dreq.addr] = Merge(@, dreq.strobe, dreq.data)]
      <4>1. creq.strobe = dreq.strobe /\ creq.data = dreq.data
        BY <2>4 DEF creq
      <4>2. CASE dreq.strobe # {}
        BY <2>2, <3>1, <3>2, <4>1, <4>2 DEF Beat
      <4>3. CASE dreq.strobe = {}
        <5>1. Merge(mem[dreq.addr], dreq.strobe, dreq.data) = mem[dreq.addr]
          BY <1>0, <4>3 DEF Merge, TypeOK, DeviceTypeOK, Word
        <5>2. mem' = mem
          BY <2>2, <3>1, <4>3 DEF Beat
        <5>. QED  BY <1>0, <5>1, <5>2 DEF TypeOK, DeviceTypeOK
      <4>. QED  BY <4>2, <4>3
    <3>8. /\ answer' = [ok |-> TRUE, data |-> IF dreq.strobe = {} THEN mem[dreq.addr] ELSE ZeroWord]
          /\ dreq' \in Requests \cup {NoReq}
      BY <2>1, <3>1, <3>2, <3>4 DEF Cycle, Port, NewRequest
    <3>. QED  BY <1>3, <2>4, <3>5, <3>6, <3>7, <3>8 DEF UncachedBeat
  <2>5. CASE Refilling
    <3>1. /\ tx.N = counter + 1 /\ tx.len = WORDS_PER_LINE
          /\ tx.is_write = (state = "WRITEBACK")
      BY <1>3, <2>5 DEF TxInv, creq, Refilling
    <3>2. UNCHANGED dreq /\ answer' = NoAnswer
      BY <2>3, <2>5 DEF Cycle, Port, dbus_ok, uncached_ok, Refilling
    <3>3. counter \in 0 .. WORDS_PER_LINE - 1
      BY DEF TypeOK, CacheTypeOK, Offset
    <3>4. CASE state = "FETCH"
      <4>1. Fetch(Resp(e))
        BY <3>4 DEF Cycle, CacheEdge, InitIdle, Hit, Miss, StartUncached, Reset, cached_ok,
                    Uncached, Writeback
      <4>2. mem' = mem /\ Resp(e).data = mem[BeatAddr]
        BY <2>1, <2>2, <3>1, <3>4 DEF Beat
      <4>3. CASE tx.N = WORDS_PER_LINE
        <5>1. counter = WORDS_PER_LINE - 1
          BY <3>1, <3>3, <4>3
        <5>2. tx' = NoTransaction
          BY <2>2, <3>1, <4>3 DEF Beat, Last
        <5>. QED  BY <1>3, <2>1, <3>1, <3>2, <3>4, <4>1, <4>2, <4>3, <5>1, <5>2 DEF LastFetch, Fetch, FetchedMeta
      <4>4. CASE tx.N # WORDS_PER_LINE
        <5>1. counter' = counter + 1
          BY <2>1, <3>1, <3>3, <4>1, <4>4, ParamAssumption DEF Fetch, Inc
        <5>2. tx' = [tx EXCEPT !.N = @ + 1]
          BY <2>2, <3>1, <4>4 DEF Beat, Last
        <5>. QED  BY <1>3, <2>1, <2>5, <3>1, <3>2, <3>4, <4>1, <4>2, <4>4, <5>1, <5>2 DEF MidBeat, Fetch
      <4>. QED  BY <4>3, <4>4
    <3>5. CASE state = "WRITEBACK"
      <4>1. Writeback(Resp(e))
        BY <3>5 DEF Cycle, CacheEdge, InitIdle, Hit, Miss, StartUncached, Reset, cached_ok,
                    Uncached, Fetch
      <4>2. mem' = [mem EXCEPT ![BeatAddr] = ram_rdata]
        <5>1. Merge(mem[BeatAddr], Lanes, ram_rdata) = ram_rdata
          BY <1>0 DEF Merge, Word
        <5>2. creq.strobe = Lanes /\ creq.data = ram_rdata
          BY <3>5 DEF creq
        <5>. QED  BY <2>2, <3>1, <3>5, <5>1, <5>2 DEF Beat
      <4>3. CASE tx.N = WORDS_PER_LINE
        <5>1. counter = WORDS_PER_LINE - 1
          BY <3>1, <3>3, <4>3
        <5>2. tx' = NoTransaction
          BY <2>2, <3>1, <4>3 DEF Beat, Last
        <5>3. counter' = 0
          BY <2>1, <4>1, <5>1 DEF Writeback, Inc
        <5>. QED  BY <1>3, <2>1, <3>1, <3>2, <3>5, <4>1, <4>2, <4>3, <5>1, <5>2, <5>3 DEF LastWriteback, Writeback
      <4>4. CASE tx.N # WORDS_PER_LINE
        <5>1. counter' = counter + 1
          BY <2>1, <3>1, <3>3, <4>1, <4>4, ParamAssumption DEF Writeback, Inc
        <5>2. tx' = [tx EXCEPT !.N = @ + 1]
          BY <2>2, <3>1, <4>4 DEF Beat, Last
        <5>. QED  BY <1>3, <2>1, <2>5, <3>1, <3>2, <3>5, <4>1, <4>2, <4>4, <5>1, <5>2 DEF MidBeat, Writeback
      <4>. QED  BY <4>3, <4>4
    <3>. QED  BY <2>5, <3>4, <3>5 DEF Refilling
  <2>. QED  BY <1>3, <2>4, <2>5 DEF Refilling, TypeOK, CacheTypeOK
<1>. QED  BY <1>1, <1>2, <1>3

-----------------------------------------------------------------------------
(* Each part of the invariant is kept by a cycle that reset does not end.   *)

Edge == InitCycle \/ NoBeat \/ MidBeat \/ LastWriteback \/ LastFetch \/ UncachedBeat

RunParts == PortInv /\ TagInv /\ TxInv /\ CopyInv /\ CleanLineIsMemory

\* The types of what the port asks and of what the cache reads for it.
LEMMA ReqFacts ==
  ASSUME TypeOK
  PROVE  /\ dreq.addr \in Addr /\ dreq.addr.index \in Index /\ dreq.addr.offset \in Offset
         /\ dreq.addr.tag \in Tags /\ dreq.addr.cached \in BOOLEAN
         /\ dreq.data \in Word /\ dreq.strobe \subseteq Lanes /\ dreq.valid \in BOOLEAN
         /\ position \in Way /\ ram_rdata \in Word
         /\ meta_ram_rmeta = meta[IF reset THEN reset_cnt ELSE dreq.addr.index]
BY PositionWay
DEF TypeOK, CacheTypeOK, DReq, Addr, ram_rdata, ram_addr, cur, meta_ram_rmeta

\* While a line is on the bus the victim and the request stand still.
LEMMA Stands ==
  ASSUME ~reset, ~reset', state # "INIT", state' # "INIT", UNCHANGED <<dreq, meta, age>>
  PROVE  UNCHANGED <<Matching, Invalid, position, meta_ram_rmeta>>
BY SameVictim DEF hit_data_ok

\* A miss chooses the victim that the transfer after it uses (DCache.sv:69, 145).
LEMMA MissStands ==
  ASSUME TypeOK, ~reset, ~reset', Miss, UNCHANGED dreq
  PROVE  /\ UNCHANGED <<Matching, Invalid, position, meta_ram_rmeta>>
         /\ Matching = {} /\ Refilling'
         /\ state' = "WRITEBACK" => Invalid = {}
<1>1. Matching = {}
  BY DEF Miss, hit_data_ok
<1>2. state' \in {"FETCH", "WRITEBACK"} /\ UNCHANGED <<meta, age>>
  BY DEF Miss, NoHitWrite
<1>3. UNCHANGED <<Matching, Invalid, position, meta_ram_rmeta>>
  BY <1>2, SameVictim DEF Miss, hit_data_ok
<1>. QED  BY <1>1, <1>2, <1>3 DEF Miss, MustWriteBack, Refilling

\* In a line transfer the device is at the word the cache's counter names.
LEMMA AtCounter ==
  ASSUME TypeOK, TxInv, Refilling, tx.busy
  PROVE  /\ BeatAddr = [creq.addr EXCEPT !.offset = counter]
         /\ ram_addr = <<position, dreq.addr.index, counter>>
<1>1. tx.addr = creq.addr /\ tx.N = counter + 1
  BY DEF TxInv
<1>2. creq.addr.offset = 0
  BY DEF creq, Refilling, LineAddr
<1>3. counter \in 0 .. WORDS_PER_LINE - 1
  BY DEF TypeOK, CacheTypeOK, Offset
<1>4. tx.addr.offset + tx.N - 1 = counter /\ counter < WORDS_PER_LINE
  BY <1>1, <1>2, <1>3, ParamAssumption
<1>. QED
  BY <1>1, <1>4 DEF BeatAddr, ram_addr, cur, hit_data_ok, Refilling

\* A cycle outside reset keeps the port and the FSM in agreement.
LEMMA PortStep ==
  ASSUME TypeOK, ~reset, ~reset', RunParts, Edge
  PROVE  PortInv'
<1>. USE DEF RunParts, PortInv
<1>1. CASE InitCycle
  <2>1. CASE Miss /\ UNCHANGED dreq
    BY <2>1, MissStands DEF Miss, Refilling
  <2>2. CASE InitIdle \/ Hit
    BY <1>1, <2>2 DEF InitCycle, InitIdle, Hit, cacheVars, Refilling, Miss, StartUncached, cached_ok, hit_data_ok
  <2>3. CASE StartUncached /\ UNCHANGED dreq
    BY <2>3 DEF StartUncached, Refilling
  <2>. QED  BY <1>1, <2>1, <2>2, <2>3 DEF InitCycle
<1>2. CASE NoBeat \/ MidBeat
  <2>1. state # "INIT" /\ UNCHANGED <<state, dreq, meta, age>>
    BY <1>2 DEF NoBeat, MidBeat, Refilling
  <2>. QED  BY <2>1, Stands DEF Refilling
<1>3. CASE LastWriteback
  <2>1. state = "WRITEBACK" /\ state' = "FETCH" /\ UNCHANGED <<dreq, meta, age>>
    BY <1>3 DEF LastWriteback
  <2>. QED  BY <2>1, Stands DEF Refilling
<1>4. CASE LastFetch \/ UncachedBeat
  BY <1>4 DEF LastFetch, UncachedBeat, Refilling
<1>. QED  BY <1>1, <1>2, <1>3, <1>4 DEF Edge

\* A cycle outside reset puts no tag in two ways.
LEMMA TagStep ==
  ASSUME TypeOK, ~reset, ~reset', RunParts, Edge
  PROVE  TagInv'
<1>. USE DEF RunParts
<1>0. /\ dreq.addr.index \in Index /\ dreq.addr.tag \in Tags /\ position \in Way
      /\ meta \in [Index -> [Way -> Meta]] /\ meta_ram_rmeta = meta[dreq.addr.index]
  BY ReqFacts DEF TypeOK, CacheTypeOK
<1>1. CASE UNCHANGED meta
  BY <1>1 DEF TagInv, UniqueTag
\* Both a hit and a refill leave the request's line in one way.
<1>2. ASSUME NEW d \in BOOLEAN, dreq.valid, dreq.addr.cached,
             meta' = [meta EXCEPT ![dreq.addr.index][position] =
                        [valid |-> TRUE, dirty |-> d, tag |-> dreq.addr.tag]],
             \A w \in Matching : w = position
      PROVE  TagInv'
  <2>1. dreq.addr \in ReqAddrs
    <3>1. dreq # NoReq
      BY <1>2 DEF NoReq
    <3>. QED  BY <3>1 DEF PortInv, Requests, Loads, Stores
  <2>2. \A i \in Index, w \in Way :
          meta'[i][w] = IF i = dreq.addr.index /\ w = position
                        THEN [valid |-> TRUE, dirty |-> d, tag |-> dreq.addr.tag]
                        ELSE meta[i][w]
    BY <1>0, <1>2
  <2>3. \A w \in Way :
          meta[dreq.addr.index][w].valid /\ meta[dreq.addr.index][w].tag = dreq.addr.tag
            => w = position
    BY <1>0, <1>2 DEF Matching
  <2>4. UniqueTag'
    <3>1. SUFFICES ASSUME NEW i \in Index, NEW v \in Way, NEW w \in Way,
                          meta'[i][v].valid, meta'[i][w].valid,
                          meta'[i][v].tag = meta'[i][w].tag
                   PROVE  v = w
      BY DEF UniqueTag
    <3>2. CASE i # dreq.addr.index
      BY <2>2, <3>1, <3>2 DEF TagInv, UniqueTag
    <3>3. CASE i = dreq.addr.index
      BY <2>2, <2>3, <3>1, <3>3 DEF TagInv, UniqueTag
    <3>. QED  BY <3>2, <3>3
  <2>5. ASSUME NEW i \in Index, NEW w \in Way, meta'[i][w].valid
        PROVE  \E a \in ReqAddrs : a.cached /\ a.index = i /\ a.tag = meta'[i][w].tag
    <3>1. CASE i = dreq.addr.index /\ w = position
      BY <1>2, <2>1, <2>2, <3>1
    <3>2. CASE ~(i = dreq.addr.index /\ w = position)
      BY <2>2, <2>5, <3>2 DEF TagInv
    <3>. QED  BY <3>1, <3>2
  <2>. QED  BY <2>4, <2>5 DEF TagInv
<1>3. CASE Hit
  <2>1. position \in Matching
    <3>1. Matching \subseteq Way /\ hit_data_ok
      BY <1>3 DEF Hit, cached_ok, Matching
    <3>. QED  BY <3>1, FirstWay DEF position, hit_data_ok
  <2>1a. dreq.valid /\ dreq.addr.cached
    BY <1>3 DEF Hit, cached_ok, hit_data_ok
  <2>2. \A w \in Matching : w = position
    BY <1>0, <1>3, <2>1 DEF Matching, TagInv, UniqueTag
  <2>3. meta' = [meta EXCEPT ![dreq.addr.index][position] =
                   [valid |-> TRUE,
                    dirty |-> dreq.strobe # {} \/ meta_ram_rmeta[position].dirty,
                    tag |-> dreq.addr.tag]]
    BY <1>3 DEF Hit, WriteHit, HitMeta
  <2>4. (dreq.strobe # {} \/ meta_ram_rmeta[position].dirty) \in BOOLEAN
    BY <1>0 DEF Meta
  <2>. QED  BY <1>2, <2>1a, <2>2, <2>3, <2>4
<1>4. CASE LastFetch
  <2>1. dreq.valid /\ dreq.addr.cached /\ Matching = {}
    BY <1>4 DEF LastFetch, PortInv, Refilling
  <2>. QED  BY <1>2, <1>4, <2>1 DEF LastFetch
<1>. QED
  BY <1>1, <1>3, <1>4
  DEF Edge, InitCycle, NoBeat, MidBeat, LastWriteback, UncachedBeat, InitIdle, Miss,
      NoHitWrite, cacheVars

\* The request on the bus is the same after a cycle inside a transaction.
LEMMA RequestStands ==
  ASSUME ~reset, ~reset', state # "INIT", UNCHANGED <<state, dreq, meta, age>>
  PROVE  creq'.is_write = creq.is_write /\ creq'.addr = creq.addr /\ creq'.len = creq.len
<1>1. UNCHANGED <<position, meta_ram_rmeta>>
  BY Stands
<1>. QED  BY <1>1 DEF creq, LineAddr

\* A cycle outside reset keeps the device's transaction the cache's.
LEMMA TxStep ==
  ASSUME TypeOK, ~reset, ~reset', RunParts, Edge
  PROVE  TxInv'
<1>. USE DEF RunParts
<1>0. ~NoTransaction.busy
  BY DEF NoTransaction
<1>1. CASE InitCycle
  <2>1. tx' = tx /\ tx = NoTransaction
    BY <1>1 DEF InitCycle, deviceVars, TxInv
  <2>2. Refilling' => counter' = 0
    BY <1>1 DEF InitCycle, InitIdle, Hit, Miss, StartUncached, Refilling, cacheVars
  <2>. QED  BY <1>0, <2>1, <2>2 DEF TxInv
<1>2. CASE NoBeat
  <2>1. state # "INIT" /\ UNCHANGED <<state, counter, dreq, meta, age>>
    BY <1>2 DEF NoBeat
  <2>2. creq'.is_write = creq.is_write /\ creq'.addr = creq.addr /\ creq'.len = creq.len
    BY <2>1, RequestStands
  <2>3. CASE UNCHANGED tx
    BY <2>1, <2>2, <2>3 DEF TxInv, Refilling
  <2>4. CASE /\ ~tx.busy
             /\ tx' = [busy |-> TRUE, is_write |-> creq.is_write, N |-> 1,
                       addr |-> creq.addr, len |-> creq.len]
    BY <2>1, <2>2, <2>4 DEF TxInv, Refilling
  <2>. QED  BY <1>2, <2>3, <2>4 DEF NoBeat
<1>3. CASE MidBeat
  <2>1. Refilling /\ tx.busy /\ UNCHANGED <<state, dreq, meta, age>>
    BY <1>3 DEF MidBeat
  <2>2. creq'.is_write = creq.is_write /\ creq'.addr = creq.addr /\ creq'.len = creq.len
    BY <2>1, RequestStands DEF Refilling
  <2>3. tx' = [tx EXCEPT !.N = @ + 1] /\ counter' = counter + 1 /\ tx.N = counter + 1
    BY <1>3 DEF MidBeat, TxInv
  <2>4. tx' = [busy |-> TRUE, is_write |-> tx.is_write, N |-> tx.N + 1,
               addr |-> tx.addr, len |-> tx.len]
    BY <2>1, <2>3 DEF TypeOK, DeviceTypeOK, Tx
  <2>. QED  BY <2>1, <2>2, <2>3, <2>4 DEF TxInv, Refilling
<1>4. CASE LastWriteback \/ LastFetch \/ UncachedBeat
  BY <1>0, <1>4 DEF LastWriteback, LastFetch, UncachedBeat, TxInv, Refilling
<1>. QED  BY <1>1, <1>2, <1>3, <1>4 DEF Edge

\* Addresses are records: two with the same fields are the same word.
LEMMA SameWord ==
  ASSUME NEW a \in Addr, NEW b \in Addr
  PROVE  /\ \A o \in Offset : [b EXCEPT !.offset = o] \in Addr
         /\ \A o \in Offset :
              a = [b EXCEPT !.offset = o] <=> /\ a.cached = b.cached /\ a.tag = b.tag
                                              /\ a.index = b.index /\ a.offset = o
BY DEF Addr

\* A cycle outside reset keeps the transferred part of a line equal to memory.
LEMMA CopyStep ==
  ASSUME TypeOK, ~reset, ~reset', RunParts, Edge
  PROVE  CopyInv'
<1>. USE DEF RunParts
<1>0. /\ counter \in Offset /\ position \in Way /\ dreq.addr.index \in Index
      /\ ram \in [Way \X Index \X Offset -> Word] /\ mem \in [Addr -> Word]
      /\ creq.addr \in Addr
  BY ReqFacts, CReqType DEF TypeOK, CacheTypeOK, DeviceTypeOK, CReq
<1>1. CASE InitCycle
  <2>1. Refilling' => counter' = 0
    BY <1>1 DEF InitCycle, InitIdle, Hit, Miss, StartUncached, Refilling, cacheVars
  <2>. QED  BY <2>1 DEF CopyInv, Offset
<1>2. CASE NoBeat
  <2>1. state # "INIT" /\ UNCHANGED <<state, counter, dreq, meta, age, mem>>
    BY <1>2 DEF NoBeat
  <2>2. UNCHANGED position /\ creq'.addr = creq.addr
    BY <2>1, Stands, RequestStands
  <2>3. ASSUME NEW o \in Offset, o < counter, Refilling
        PROVE  ram'[<<position, dreq.addr.index, o>>] = ram[<<position, dreq.addr.index, o>>]
    <3>1. ram_addr = <<position, dreq.addr.index, counter>> /\ o # counter
      BY <1>0, <2>3 DEF ram_addr, cur, hit_data_ok, Refilling, Offset
    <3>. QED  BY <1>0, <1>2, <3>1 DEF NoBeat
  <2>. QED  BY <2>1, <2>2, <2>3 DEF CopyInv, Refilling
<1>3. CASE MidBeat
  <2>1. Refilling /\ tx.busy /\ UNCHANGED <<state, dreq, meta, age>>
    BY <1>3 DEF MidBeat
  <2>2. UNCHANGED position /\ creq'.addr = creq.addr
    BY <2>1, Stands, RequestStands DEF Refilling
  <2>3. counter' = counter + 1
    BY <1>3 DEF MidBeat
  <2>4. /\ BeatAddr = [creq.addr EXCEPT !.offset = counter]
        /\ ram_addr = <<position, dreq.addr.index, counter>>
    BY <2>1, AtCounter
  <2>5. ASSUME NEW o \in Offset, o < counter + 1
        PROVE  ram'[<<position, dreq.addr.index, o>>] = mem'[[creq.addr EXCEPT !.offset = o]]
    <3>1. /\ <<position, dreq.addr.index, o>> \in Way \X Index \X Offset
          /\ [creq.addr EXCEPT !.offset = o] \in Addr /\ BeatAddr \in Addr
      BY <1>0, <2>4, SameWord
    <3>2. o = counter \/ o < counter
      BY <1>0, <2>5 DEF Offset
    <3>3. o < counter => /\ ram_addr # <<position, dreq.addr.index, o>>
                         /\ BeatAddr # [creq.addr EXCEPT !.offset = o]
      BY <1>0, <2>4, <3>1, SameWord DEF Offset, Addr
    <3>4. o < counter => ram[<<position, dreq.addr.index, o>>]
                           = mem[[creq.addr EXCEPT !.offset = o]]
      BY <2>1 DEF CopyInv
    <3>5. CASE state = "FETCH"
      BY <1>0, <1>3, <2>4, <3>1, <3>2, <3>3, <3>4, <3>5 DEF MidBeat
    <3>6. CASE state # "FETCH"
      BY <1>0, <1>3, <2>4, <3>1, <3>2, <3>3, <3>4, <3>6 DEF MidBeat, ram_rdata
    <3>. QED  BY <3>5, <3>6
  <2>. QED  BY <2>1, <2>2, <2>3, <2>5 DEF CopyInv
<1>4. CASE LastWriteback
  BY <1>4 DEF LastWriteback, CopyInv, Offset
<1>5. CASE LastFetch \/ UncachedBeat
  BY <1>5 DEF LastFetch, UncachedBeat, CopyInv, Refilling
<1>. QED  BY <1>1, <1>2, <1>3, <1>4, <1>5 DEF Edge

-----------------------------------------------------------------------------
(* What each kind of cycle does to the lines held and to memory.           *)

\* A write with no lane enabled writes nothing.
LEMMA EmptyMerge ==
  ASSUME NEW old \in Word, NEW new
  PROVE  Merge(old, {}, new) = old
BY DEF Merge, Word

\* A hit is on the one way that holds the requested word.
LEMMA HitHolds ==
  ASSUME TypeOK, ~reset, Hit
  PROVE  Holds(position, dreq.addr) /\ ram_addr = <<position, dreq.addr.index, dreq.addr.offset>>
<1>1. hit_data_ok /\ Matching # {} /\ state = "INIT" /\ dreq.addr.cached
  BY DEF Hit, cached_ok, hit_data_ok
<1>2. position \in Matching
  <2>1. Matching \subseteq Way
    BY DEF Matching
  <2>. QED  BY <1>1, <2>1, FirstWay DEF position
<1>. QED  BY <1>1, <1>2, ReqFacts DEF Holds, Matching, ram_addr, cur

\* A hit changes which lines are held in nothing, and dirties its own at most.
LEMMA HitKeeps ==
  ASSUME TypeOK, ~reset, ~reset', Hit,
         NEW a \in Addr, NEW w \in Way
  PROVE  /\ Holds(w, a)' <=> Holds(w, a)
         /\ meta'[a.index][w].dirty <=> \/ meta[a.index][w].dirty
                                        \/ a.index = dreq.addr.index /\ w = position
                                           /\ dreq.strobe # {}
<1>1. Holds(position, dreq.addr) /\ state = "INIT" /\ state' = "INIT"
  BY HitHolds DEF Hit, cached_ok
<1>2. meta' = [meta EXCEPT ![dreq.addr.index][position] =
                 [valid |-> TRUE,
                  dirty |-> dreq.strobe # {} \/ meta_ram_rmeta[position].dirty,
                  tag   |-> dreq.addr.tag]]
  BY DEF Hit, WriteHit, HitMeta
<1>3. /\ a.index \in Index /\ position \in Way /\ dreq.addr.index \in Index
      /\ meta \in [Index -> [Way -> Meta]]
      /\ meta_ram_rmeta = meta[dreq.addr.index]
  BY ReqFacts DEF Addr, TypeOK, CacheTypeOK
<1>4. CASE a.index = dreq.addr.index /\ w = position
  <2>1. meta'[a.index][w] = [valid |-> TRUE,
                  dirty |-> dreq.strobe # {} \/ meta_ram_rmeta[position].dirty,
                  tag   |-> dreq.addr.tag]
    BY <1>2, <1>3, <1>4
  <2>2. /\ meta'[a.index][w].valid = TRUE /\ meta'[a.index][w].tag = dreq.addr.tag
        /\ meta'[a.index][w].dirty = (dreq.strobe # {} \/ meta_ram_rmeta[position].dirty)
    BY <2>1
  <2>. QED  BY <1>1, <1>3, <1>4, <2>2 DEF Holds
<1>5. CASE ~(a.index = dreq.addr.index /\ w = position)
  <2>1. meta'[a.index][w] = meta[a.index][w]
    BY <1>2, <1>3, <1>5
  <2>. QED  BY <1>1, <1>5, <2>1 DEF Holds
<1>. QED  BY <1>4, <1>5

\* A hit writes the merged word at the requested place and nothing else.
LEMMA HitWrites ==
  ASSUME TypeOK, ~reset, Hit, NEW a \in Addr, NEW w \in Way
  PROVE  ram'[<<w, a.index, a.offset>>] =
           IF w = position /\ a.index = dreq.addr.index /\ a.offset = dreq.addr.offset
           THEN Merge(ram_rdata, dreq.strobe, dreq.data)
           ELSE ram[<<w, a.index, a.offset>>]
<1>1. ram_addr = <<position, dreq.addr.index, dreq.addr.offset>>
  BY HitHolds
<1>2. /\ ram \in [Way \X Index \X Offset -> Word]
      /\ position \in Way /\ dreq.addr.index \in Index /\ dreq.addr.offset \in Offset
      /\ <<w, a.index, a.offset>> \in Way \X Index \X Offset
  BY ReqFacts DEF TypeOK, CacheTypeOK, Addr
<1>. QED  BY <1>1, <1>2 DEF Hit, WriteHit, HitMeta

\* A line transfer writes the data RAM only at the way being refilled.
LEMMA FetchWrites ==
  ASSUME TypeOK, ~reset, state = "FETCH", NEW a \in Addr, NEW w \in Way, NEW x,
         ram' = [ram EXCEPT ![ram_addr] = x]
  PROVE  ram'[<<w, a.index, a.offset>>] =
           IF w = position /\ a.index = dreq.addr.index /\ a.offset = counter
           THEN x ELSE ram[<<w, a.index, a.offset>>]
<1>1. ram_addr = <<position, dreq.addr.index, counter>>
  BY DEF ram_addr, cur, hit_data_ok
<1>2. /\ ram \in [Way \X Index \X Offset -> Word]
      /\ position \in Way /\ dreq.addr.index \in Index /\ counter \in Offset
      /\ <<w, a.index, a.offset>> \in Way \X Index \X Offset
  BY ReqFacts DEF TypeOK, CacheTypeOK, Addr
<1>. QED  BY <1>1, <1>2

\* A write-back beat writes to memory the word the cache holds.
LEMMA FlushBeat ==
  ASSUME TypeOK, ~reset, RunParts, state = "WRITEBACK", tx.busy,
         mem' = [mem EXCEPT ![BeatAddr] = ram_rdata], NEW a \in Addr
  PROVE  /\ a # BeatAddr => mem'[a] = mem[a]
         /\ a = BeatAddr => /\ Holds(position, a)
                            /\ mem'[a] = ram[<<position, a.index, a.offset>>]
<1>. USE DEF RunParts
<1>1. /\ BeatAddr = [creq.addr EXCEPT !.offset = counter]
      /\ ram_addr = <<position, dreq.addr.index, counter>>
  BY AtCounter DEF Refilling
<1>2. creq.addr = LineAddr(meta_ram_rmeta[position].tag)
  BY DEF creq
<1>3. dreq.addr.cached /\ Invalid = {} /\ meta_ram_rmeta = meta[dreq.addr.index]
      /\ position \in Way /\ counter \in Offset
  BY ReqFacts DEF PortInv, Refilling, TypeOK, CacheTypeOK
<1>4. meta[dreq.addr.index][position].valid
  BY <1>3 DEF Invalid
<1>5. /\ BeatAddr.cached /\ BeatAddr.tag = meta[dreq.addr.index][position].tag
      /\ BeatAddr.index = dreq.addr.index /\ BeatAddr.offset = counter
  <2>1. creq.addr = [cached |-> dreq.addr.cached, tag |-> meta[dreq.addr.index][position].tag,
                     index |-> dreq.addr.index, offset |-> 0]
    BY <1>2, <1>3 DEF LineAddr
  <2>. QED  BY <1>1, <1>3, <2>1
<1>6. Holds(position, BeatAddr)
  BY <1>4, <1>5 DEF Holds
<1>7. ram_rdata = ram[<<position, BeatAddr.index, BeatAddr.offset>>]
  BY <1>1, <1>5 DEF ram_rdata
<1>. QED  BY <1>6, <1>7 DEF TypeOK, DeviceTypeOK

\* The last beat of a fetch completes the line.
LEMMA FetchedLine ==
  ASSUME TypeOK, ~reset, ~reset', RunParts, LastFetch, NEW a \in Addr, NEW w \in Way
  PROVE  /\ Holds(w, a)' <=> \/ Holds(w, a)
                             \/ /\ w = position /\ a.cached
                                /\ a.index = dreq.addr.index /\ a.tag = dreq.addr.tag
         /\ Holds(w, a) => /\ ram'[<<w, a.index, a.offset>>] = ram[<<w, a.index, a.offset>>]
                           /\ meta'[a.index][w] = meta[a.index][w]
         /\ Holds(w, a)' /\ ~Holds(w, a) => ram'[<<w, a.index, a.offset>>] = mem[a]
         /\ a.index = dreq.addr.index /\ a.tag = dreq.addr.tag => ~Holds(w, a)
<1>. USE DEF RunParts
<1>1. /\ state = "FETCH" /\ state' = "INIT" /\ tx.busy /\ counter = WORDS_PER_LINE - 1
      /\ ram' = [ram EXCEPT ![ram_addr] = mem[BeatAddr]]
      /\ meta' = [meta EXCEPT ![dreq.addr.index][position] =
                   [valid |-> TRUE, dirty |-> FALSE, tag |-> dreq.addr.tag]]
  BY DEF LastFetch
<1>2. /\ position \in Way /\ dreq.addr.index \in Index /\ dreq.addr.cached
      /\ meta \in [Index -> [Way -> Meta]] /\ meta_ram_rmeta = meta[dreq.addr.index]
      /\ a.index \in Index /\ a.offset \in Offset /\ Matching = {}
  BY <1>1, ReqFacts DEF TypeOK, CacheTypeOK, Addr, PortInv, Refilling
<1>3. a.index = dreq.addr.index /\ a.tag = dreq.addr.tag => ~Holds(w, a)
  BY <1>2 DEF Holds, Matching
<1>4. meta'[a.index][w] = IF a.index = dreq.addr.index /\ w = position
                          THEN [valid |-> TRUE, dirty |-> FALSE, tag |-> dreq.addr.tag]
                          ELSE meta[a.index][w]
  BY <1>1, <1>2
<1>5. Holds(w, a) => ~(a.index = dreq.addr.index /\ w = position)
  BY <1>1 DEF Holds
<1>6. Holds(w, a)' <=> a.cached /\ meta'[a.index][w].valid /\ meta'[a.index][w].tag = a.tag
  BY <1>1 DEF Holds
<1>7. Holds(w, a)' <=> \/ Holds(w, a)
                       \/ /\ w = position /\ a.cached
                          /\ a.index = dreq.addr.index /\ a.tag = dreq.addr.tag
  <2>1. CASE a.index = dreq.addr.index /\ w = position
    BY <1>4, <1>5, <1>6, <2>1
  <2>2. CASE ~(a.index = dreq.addr.index /\ w = position)
    BY <1>4, <1>6, <2>2 DEF Holds
  <2>. QED  BY <2>1, <2>2
<1>8. ram'[<<w, a.index, a.offset>>] =
        IF w = position /\ a.index = dreq.addr.index /\ a.offset = counter
        THEN mem[BeatAddr] ELSE ram[<<w, a.index, a.offset>>]
  BY <1>1, FetchWrites
<1>9. ASSUME w = position, a.cached, a.index = dreq.addr.index, a.tag = dreq.addr.tag
      PROVE  ram'[<<w, a.index, a.offset>>] = mem[a]
  <2>1. creq.addr = [cached |-> TRUE, tag |-> a.tag, index |-> a.index, offset |-> 0]
    BY <1>1, <1>2, <1>9 DEF creq, LineAddr
  <2>2. a = [creq.addr EXCEPT !.offset = a.offset]
    <3>2. creq.addr \in Addr
      BY CReqType DEF TypeOK, CReq
    <3>3. creq.addr.tag = a.tag /\ creq.addr.index = a.index /\ creq.addr.cached
      BY <2>1
    <3>4. creq.addr.cached = a.cached
      BY <1>9, <3>2, <3>3 DEF Addr
    <3>. QED  BY <1>2, <3>2, <3>3, <3>4, SameWord
  <2>3. CASE a.offset = counter
    BY <1>1, <1>8, <1>9, <2>2, <2>3, AtCounter DEF Refilling
  <2>4. CASE a.offset # counter
    <3>1. a.offset < counter
      BY <1>1, <1>2, <2>4, ParamAssumption DEF Offset
    <3>. QED  BY <1>1, <1>2, <1>8, <1>9, <2>2, <2>4, <3>1 DEF CopyInv, Refilling
  <2>. QED  BY <2>3, <2>4
<1>. QED  BY <1>3, <1>4, <1>5, <1>7, <1>8, <1>9

\* At most one way holds an address.
LEMMA OneHolder ==
  ASSUME TagInv, ~reset, NEW a \in Addr, NEW v \in Way, NEW w \in Way,
         Holds(v, a), Holds(w, a)
  PROVE  v = w
BY DEF TagInv, UniqueTag, Holds, Addr

\* Between the beats of a transfer the lines held do not change.
LEMMA HoldsStands ==
  ASSUME TypeOK, ~reset, ~reset', state # "INIT", UNCHANGED <<state, dreq, meta, age>>,
         NEW a \in Addr, NEW w \in Way
  PROVE  Holds(w, a)' <=> Holds(w, a)
<1>1. UNCHANGED position
  BY Stands
<1>. QED  BY <1>1 DEF Holds

\* A fetch beat writes nothing that is held.
LEMMA FetchBeat ==
  ASSUME TypeOK, ~reset, state = "FETCH", NEW a \in Addr, NEW w \in Way, NEW x,
         ram' = [ram EXCEPT ![ram_addr] = x], Holds(w, a)
  PROVE  ram'[<<w, a.index, a.offset>>] = ram[<<w, a.index, a.offset>>]
<1>1. ~(w = position /\ a.index = dreq.addr.index)
  BY DEF Holds
<1>. QED  BY <1>1, FetchWrites

\* A miss drops a line at most, and a clean line needs no write-back.
LEMMA MissHolds ==
  ASSUME TypeOK, ~reset, ~reset', PortInv, Miss, UNCHANGED dreq, NEW a \in Addr, NEW w \in Way
  PROVE  /\ Holds(w, a)' => Holds(w, a)
         /\ Holds(w, a) /\ ~Holds(w, a)' =>
              /\ w = position /\ a.index = dreq.addr.index
              /\ ~meta[a.index][w].dirty
<1>1. UNCHANGED <<position, meta>> /\ state = "INIT"
  BY MissStands DEF Miss, NoHitWrite
<1>2. Holds(w, a) /\ ~Holds(w, a)' => state' = "FETCH" /\ dreq.addr.index = a.index /\ position = w
  BY <1>1 DEF Holds
<1>3. state' = "FETCH" => Invalid # {} \/ ~meta_ram_rmeta[position].dirty
  BY DEF Miss, MustWriteBack
<1>4. Invalid # {} => ~meta[dreq.addr.index][position].valid
  <2>1. Invalid \subseteq Way
    BY DEF Invalid
  <2>2. Invalid # {} => position \in Invalid
    BY <2>1, FirstWay DEF position, Miss
  <2>. QED  BY <2>2, ReqFacts DEF Invalid
<1>. QED  BY <1>1, <1>2, <1>3, <1>4, ReqFacts DEF Holds

\* A cycle outside reset keeps every clean line equal to memory.
LEMMA CleanStep ==
  ASSUME TypeOK, ~reset, ~reset', RunParts, Edge
  PROVE  CleanLineIsMemory'
<1>. USE DEF RunParts
<1>. SUFFICES ASSUME NEW a \in Addr, NEW w \in Way, Holds(w, a)', ~meta'[a.index][w].dirty
              PROVE  ram'[<<w, a.index, a.offset>>] = mem'[a]
  BY DEF CleanLineIsMemory
<1>0. Holds(w, a) /\ ~meta[a.index][w].dirty => ram[<<w, a.index, a.offset>>] = mem[a]
  BY DEF CleanLineIsMemory
<1>1. CASE InitCycle
  <2>1. mem' = mem
    BY <1>1 DEF InitCycle, deviceVars
  <2>2. CASE InitIdle
    BY <1>0, <1>1, <2>1, <2>2 DEF InitIdle, cacheVars, Holds, InitCycle
  <2>3. CASE StartUncached /\ UNCHANGED <<meta, ram>>
    BY <1>0, <2>1, <2>3 DEF StartUncached, Holds
  <2>4. CASE Miss /\ UNCHANGED dreq
    <3>1. UNCHANGED <<meta, ram>>
      BY <2>4 DEF Miss, NoHitWrite
    <3>. QED  BY <1>0, <2>1, <2>4, <3>1, MissHolds
  <2>5. CASE Hit
    <3>1. /\ Holds(w, a) /\ ~meta[a.index][w].dirty
          /\ a.index = dreq.addr.index /\ w = position => dreq.strobe = {}
      BY <2>5, HitKeeps
    <3>2. ram'[<<w, a.index, a.offset>>] = ram[<<w, a.index, a.offset>>]
      <4>1. CASE w = position /\ a.index = dreq.addr.index /\ a.offset = dreq.addr.offset
        <5>1. ram_rdata = ram[<<w, a.index, a.offset>>]
          BY <2>5, <4>1, HitHolds DEF ram_rdata
        <5>2. Merge(ram_rdata, dreq.strobe, dreq.data) = ram_rdata
          BY <3>1, <4>1, EmptyMerge, ReqFacts
        <5>. QED  BY <2>5, <4>1, <5>1, <5>2, HitWrites
      <4>2. CASE ~(w = position /\ a.index = dreq.addr.index /\ a.offset = dreq.addr.offset)
        BY <2>5, <4>2, HitWrites
      <4>. QED  BY <4>1, <4>2
    <3>. QED  BY <1>0, <2>1, <3>1, <3>2
  <2>. QED  BY <1>1, <2>2, <2>3, <2>4, <2>5 DEF InitCycle
<1>2. CASE NoBeat \/ MidBeat
  <2>1. state # "INIT" /\ UNCHANGED <<state, dreq, meta, age>>
    BY <1>2 DEF NoBeat, MidBeat, Refilling
  <2>2. Holds(w, a) /\ ~meta[a.index][w].dirty
    BY <2>1, HoldsStands
  <2>3. CASE state = "FETCH"
    <3>1. mem' = mem
      BY <1>2, <2>3 DEF NoBeat, MidBeat
    <3>2. \E x : ram' = [ram EXCEPT ![ram_addr] = x]
      BY <1>2, <2>3 DEF NoBeat, MidBeat
    <3>. QED  BY <1>0, <2>2, <2>3, <3>1, <3>2, FetchBeat
  <2>4. CASE state # "FETCH" /\ UNCHANGED mem
    BY <1>0, <1>2, <2>2, <2>4 DEF NoBeat, MidBeat
  <2>5. CASE MidBeat /\ state = "WRITEBACK"
    <3>1. /\ tx.busy /\ ram' = ram /\ mem' = [mem EXCEPT ![BeatAddr] = ram_rdata]
      BY <2>5 DEF MidBeat
    <3>2. CASE a = BeatAddr
      BY <2>2, <2>5, <3>1, <3>2, FlushBeat, OneHolder, ReqFacts
    <3>3. CASE a # BeatAddr
      BY <1>0, <2>2, <2>5, <3>1, <3>3, FlushBeat
    <3>. QED  BY <3>2, <3>3
  <2>. QED  BY <1>2, <2>3, <2>4, <2>5 DEF NoBeat, MidBeat, Refilling
<1>3. CASE LastWriteback
  <2>1. /\ state = "WRITEBACK" /\ state' = "FETCH" /\ UNCHANGED <<dreq, meta, age, ram>>
        /\ tx.busy /\ mem' = [mem EXCEPT ![BeatAddr] = ram_rdata]
    BY <1>3 DEF LastWriteback
  <2>2. UNCHANGED position
    BY <2>1, Stands
  <2>3. Holds(w, a) /\ ~(w = position /\ a.index = dreq.addr.index)
    BY <2>1, <2>2 DEF Holds
  <2>4. a # BeatAddr
    <3>1. SUFFICES ASSUME a = BeatAddr PROVE FALSE
      OBVIOUS
    <3>2. Holds(position, a)
      BY <2>1, <3>1, FlushBeat
    <3>3. w = position /\ a.index = dreq.addr.index
      <4>1. w = position
        BY <2>3, <3>2, OneHolder, ReqFacts
      <4>2. BeatAddr.index = creq.addr.index
        BY <2>1, AtCounter, CReqType DEF Refilling, TypeOK, CReq, Addr
      <4>. QED  BY <2>1, <3>1, <4>1, <4>2 DEF creq, LineAddr
    <3>. QED  BY <2>3, <3>3
  <2>. QED  BY <1>0, <2>1, <2>3, <2>4, FlushBeat
<1>4. CASE LastFetch
  <2>1. mem' = mem
    BY <1>4 DEF LastFetch
  <2>2. CASE Holds(w, a)
    BY <1>0, <1>4, <2>1, <2>2, FetchedLine
  <2>3. CASE ~Holds(w, a)
    BY <1>4, <2>1, <2>3, FetchedLine
  <2>. QED  BY <2>2, <2>3
<1>5. CASE UncachedBeat
  <2>1. /\ state = "UNCACHED" /\ state' = "INIT" /\ UNCHANGED <<meta, ram>>
        /\ mem' = [mem EXCEPT ![dreq.addr] = Merge(@, dreq.strobe, dreq.data)]
    BY <1>5 DEF UncachedBeat
  <2>2. Holds(w, a) /\ a.cached /\ ~dreq.addr.cached
    BY <2>1 DEF Holds, PortInv
  <2>3. mem'[a] = mem[a]
    BY <2>1, <2>2 DEF TypeOK, DeviceTypeOK
  <2>. QED  BY <1>0, <2>1, <2>2, <2>3
<1>. QED  BY <1>1, <1>2, <1>3, <1>4, <1>5 DEF Edge

-----------------------------------------------------------------------------
(* Reset: sets are cleared in turn, once the first cycle has forced INIT.  *)

\* Clearing set n makes every other set one cycle older (DCache.sv:328).
LEMMA LagStep ==
  ASSUME NEW i \in Index, NEW n \in Index
  PROVE  /\ Lag(i, n) \in 0 .. SET_NUM - 1
         /\ i # n => Lag(i, Inc(n, SET_NUM)) = Lag(i, n) + 1
         /\ i = n => Lag(i, Inc(n, SET_NUM)) = 0
BY ParamAssumption DEF Lag, Inc, Index

\* The same, of the register reset_cnt.
LEMMA SinceStep ==
  ASSUME reset_cnt \in Index, reset_cnt' = Inc(reset_cnt, SET_NUM), NEW i \in Index
  PROVE  /\ Since(i) \in 0 .. SET_NUM - 1
         /\ Since(i)' \in 0 .. SET_NUM - 1
         /\ i # reset_cnt => Since(i)' = Since(i) + 1
         /\ i = reset_cnt => Since(i)' = 0
<1>1. reset_cnt' \in Index
  BY IncType
<1>. QED  BY <1>1, LagStep DEF Since

\* A cycle of reset leaves one more set cleared.
LEMMA ResetStep ==
  ASSUME TypeOK, ResetInv, reset, NEW e \in BOOLEAN, ResetCycle(e)
  PROVE  /\ state' = "INIT" /\ counter' = 0 /\ answer' = NoAnswer
         /\ dreq' \in Requests \cup {NoReq} /\ (reset' => dreq' = NoReq)
         /\ tx' = NoTransaction /\ mem' = InitMem
         /\ \A i \in Index : Since(i)' < held' - 1 => \A w \in Way : ~meta'[i][w].valid
         /\ ~reset' => \A i \in Index, w \in Way : ~meta'[i][w].valid
<1>1. Reset(Resp(e)) /\ held' = held + 1 /\ reset' = (held + 1 < RESET_CYCLES)
  BY DEF ResetCycle, CacheEdge, InitIdle, Hit, Miss, StartUncached, Fetch, Writeback, Uncached
<1>2. /\ state' = "INIT" /\ counter' = 0 /\ answer' = NoAnswer
      /\ dreq' \in Requests \cup {NoReq} /\ (reset' => dreq' = NoReq)
      /\ tx' = NoTransaction /\ mem' = InitMem /\ reset_cnt' = Inc(reset_cnt, SET_NUM)
  BY <1>1 DEF Reset, NextSet, ResetCycle, DeviceReset
<1>3. reset_cnt \in Index /\ held \in Nat /\ meta \in [Index -> [Way -> Meta]]
  BY EnvAssumption DEF TypeOK, CacheTypeOK
<1>4. ASSUME NEW i \in Index, Since(i)' < held' - 1, NEW w \in Way
      PROVE  ~meta'[i][w].valid
  <2>1. held > 0
    BY <1>1, <1>2, <1>3, <1>4, SinceStep
  <2>2. meta' = [meta EXCEPT ![reset_cnt] = [v \in Way |-> NoLine]]
    <3>1. state = "INIT"
      BY <2>1 DEF ResetInv
    <3>. QED  BY <1>1, <3>1 DEF Reset
  <2>3. CASE i = reset_cnt
    BY <1>3, <2>2, <2>3 DEF NoLine
  <2>4. CASE i # reset_cnt
    <3>1. Since(i) < held - 1
      BY <1>1, <1>2, <1>3, <1>4, <2>4, SinceStep, ParamAssumption
    <3>. QED  BY <1>3, <2>2, <2>4, <3>1 DEF ResetInv
  <2>. QED  BY <2>3, <2>4
<1>5. ASSUME ~reset', NEW i \in Index
      PROVE  Since(i)' < held' - 1
  <2>1. ~(held + 1 < RESET_CYCLES)
    BY <1>1, <1>5, Zenon
  <2>2. Since(i)' \in 0 .. SET_NUM - 1
    BY <1>2, <1>3, SinceStep
  <2>. QED  BY <1>1, <1>3, <2>1, <2>2, EnvAssumption, ParamAssumption
<1>. QED  BY <1>2, <1>4, <1>5

\* The state reset ends in satisfies every part of the invariant.
LEMMA FreshState ==
  ASSUME state' = "INIT", dreq' \in Requests \cup {NoReq}, tx' = NoTransaction,
         \A i \in Index, w \in Way : ~meta'[i][w].valid
  PROVE  PortInv' /\ TagInv' /\ TxInv' /\ CopyInv' /\ CleanLineIsMemory'
<1>1. ~NoTransaction.busy
  BY DEF NoTransaction
<1>2. PortInv'
  BY DEF PortInv, Refilling
<1>3. TagInv'
  BY DEF TagInv, UniqueTag
<1>4. TxInv' /\ CopyInv'
  BY <1>1 DEF TxInv, CopyInv, Refilling
<1>5. CleanLineIsMemory'
  BY DEF CleanLineIsMemory, Holds, Addr
<1>. QED  BY <1>2, <1>3, <1>4, <1>5

-----------------------------------------------------------------------------
(* The inductive invariant.                                                *)

\* The harness starts in reset, where the invariant asks little.
LEMMA InitInv == Init => IInv
<1>. SUFFICES ASSUME Init PROVE IInv
  OBVIOUS
<1>1. reset /\ held = 0 /\ dreq = NoReq /\ tx = NoTransaction /\ mem = InitMem
  BY DEF Init, DeviceInit
<1>2. CacheTypeOK
  BY <1>1, ConstantTypes DEF Init, CacheInit, CacheTypeOK
<1>3. DeviceTypeOK
  BY <1>1, ConstantTypes, InitMemAssumption DEF DeviceTypeOK, NoTransaction
<1>4. held \in 0 .. RESET_CYCLES /\ held < RESET_CYCLES
  BY <1>1, EnvAssumption, ParamAssumption
<1>5. answer \in [ok : BOOLEAN, data : Word]
  BY ConstantTypes DEF Init, NoAnswer
<1>6. \A i \in Index : ~(Since(i) < held - 1)
  <2>1. reset_cnt \in Index
    BY <1>2 DEF CacheTypeOK
  <2>2. ASSUME NEW i \in Index PROVE ~(Since(i) < held - 1)
    <3>1. Since(i) \in 0 .. SET_NUM - 1
      BY <2>1, LagStep DEF Since
    <3>. QED  BY <1>1, <3>1, ParamAssumption
  <2>. QED  BY <2>2
<1>. QED  BY <1>1, <1>2, <1>3, <1>4, <1>5, <1>6 DEF IInv, TypeOK, RunInv, ResetInv

\* Reset asserted by this cycle leaves nothing to show until the next one.
LEMMA ResetAsserted ==
  ASSUME TypeOK', NEW e \in BOOLEAN, Cycle(e), reset'
  PROVE  ResetInv'
<1>1. held' = 0
  BY DEF Cycle, AssertReset
<1>2. reset_cnt' \in Index
  BY DEF TypeOK, CacheTypeOK
<1>3. ASSUME NEW i \in Index PROVE ~(Since(i)' < held' - 1)
  <2>1. Since(i)' \in 0 .. SET_NUM - 1
    BY <1>2, LagStep DEF Since
  <2>. QED  BY <1>1, <2>1, ParamAssumption
<1>. QED  BY <1>1, <1>3 DEF ResetInv

\* Every step keeps the inductive invariant.
LEMMA StepInv ==
  ASSUME NoAlias, IInv, [Next]_vars
  PROVE  IInv'
<1>1. TypeOK /\ TypeOK'
  BY TypeStep DEF IInv
<1>2. ASSUME NEW e \in BOOLEAN, Cycle(e)
      PROVE  IInv'
  <2>1. ~reset /\ RunParts
    BY <1>2 DEF Cycle, IInv, RunInv, RunParts
  <2>2. Edge
    BY <1>1, <1>2, <2>1, ClockEdge DEF RunParts, Edge
  <2>3. CASE ~reset'
    <3>1. PortInv' /\ TagInv' /\ TxInv' /\ CopyInv' /\ CleanLineIsMemory'
      BY <1>1, <2>1, <2>2, <2>3, PortStep, TagStep, TxStep, CopyStep, CleanStep
    <3>. QED  BY <1>1, <2>3, <3>1 DEF IInv, RunInv, ResetInv
  <2>4. CASE reset'
    BY <1>1, <1>2, <2>4, ResetAsserted DEF IInv, RunInv
  <2>. QED  BY <2>3, <2>4
<1>3. ASSUME NEW e \in BOOLEAN, ResetCycle(e)
      PROVE  IInv'
  <2>1. reset /\ ResetInv
    BY <1>3 DEF ResetCycle, IInv
  <2>2. /\ state' = "INIT" /\ tx' = NoTransaction /\ mem' = InitMem
        /\ dreq' \in Requests \cup {NoReq} /\ (reset' => dreq' = NoReq)
        /\ \A i \in Index : Since(i)' < held' - 1 => \A w \in Way : ~meta'[i][w].valid
        /\ ~reset' => \A i \in Index, w \in Way : ~meta'[i][w].valid
    BY <1>1, <1>3, <2>1, ResetStep
  <2>3. CASE ~reset'
    <3>1. PortInv' /\ TagInv' /\ TxInv' /\ CopyInv' /\ CleanLineIsMemory'
      BY <2>2, <2>3, FreshState
    <3>. QED  BY <1>1, <2>3, <3>1 DEF IInv, RunInv, ResetInv
  <2>4. CASE reset'
    BY <1>1, <2>2, <2>4 DEF IInv, RunInv, ResetInv
  <2>. QED  BY <2>3, <2>4
<1>4. CASE UNCHANGED vars
  <2>1. UNCHANGED <<state, counter, meta, ram, age, reset_cnt, dreq, reset, held, mem, tx>>
    BY <1>4 DEF vars, cacheVars, deviceVars
  <2>2. UNCHANGED <<Matching, Invalid, position, meta_ram_rmeta, Refilling>>
    BY <2>1 DEF Matching, Invalid, position, meta_ram_rmeta, hit_data_ok, replaced_position,
                Refilling
  <2>3. UNCHANGED creq
    BY <2>1, <2>2 DEF creq, LineAddr, ram_rdata, ram_addr, cur, hit_data_ok
  <2>4. PortInv => PortInv'
    BY <2>1, <2>2 DEF PortInv
  <2>5. (TagInv => TagInv') /\ (TxInv => TxInv') /\ (CopyInv => CopyInv')
    BY <2>1, <2>2, <2>3 DEF TagInv, UniqueTag, TxInv, CopyInv
  <2>6. CleanLineIsMemory => CleanLineIsMemory'
    BY <2>1, <2>2 DEF CleanLineIsMemory, Holds
  <2>7. ResetInv => ResetInv'
    BY <2>1 DEF ResetInv, Since
  <2>. QED  BY <1>1, <2>1, <2>4, <2>5, <2>6, <2>7 DEF IInv, RunInv
<1>. QED  BY <1>2, <1>3, <1>4 DEF Next

-----------------------------------------------------------------------------
(* Safety of the cache, for every value of the constants.                  *)

\* Every register of the cache, the device and the port keeps its type, in
\* every cycle and through every reset; no memory map is assumed.
THEOREM TypeCorrect == Spec => []TypeOK
<1>1. Init => TypeOK
  BY InitInv DEF IInv
<1>2. TypeOK /\ [Next]_vars => TypeOK'
  BY TypeStep
<1>. QED  BY <1>1, <1>2, PTL DEF Spec

\* The inductive invariant: during a transfer the request and the FSM agree
\* on the line, the device is at the cache's beat, the words already copied
\* equal memory, and what is left of a reset is cleared in turn.
THEOREM Invariance == ASSUME NoAlias PROVE Spec => []IInv
<1>1. Init => IInv
  BY InitInv
<1>2. IInv /\ [Next]_vars => IInv'
  BY StepInv
<1>. QED  BY <1>1, <1>2, PTL DEF Spec

\* The first match of the hit loop (DCache.sv:118-129) is the only match.
THEOREM TagsUnique == ASSUME NoAlias PROVE Spec => []UniqueTag
<1>1. IInv => UniqueTag
  BY DEF IInv, RunInv, TagInv, UniqueTag
<1>. QED  BY <1>1, Invariance, PTL

\* A victim that is not dirty may be dropped without a write-back.
THEOREM CleanLines == ASSUME NoAlias PROVE Spec => []CleanLineIsMemory
<1>1. IInv => CleanLineIsMemory
  BY DEF IInv, RunInv, CleanLineIsMemory
<1>. QED  BY <1>1, Invariance, PTL

\* The device's asserts on a request in progress never fail.
THEOREM RequestsHeld == ASSUME NoAlias PROVE Spec => []TransactionHeld
<1>1. IInv => TransactionHeld
  <2>1. SUFFICES ASSUME IInv, ~reset, tx.busy
                 PROVE  RequestHeld(creq)
    BY DEF TransactionHeld, RequestHeld
  <2>2. state # "INIT" /\ dreq.valid
    BY <2>1 DEF IInv, RunInv, TxInv, PortInv
  <2>3. creq.valid
    BY <2>1, <2>2 DEF creq
  <2>. QED  BY <2>1, <2>3 DEF RequestHeld, IInv, RunInv, TxInv
<1>. QED  BY <1>1, Invariance, PTL

\* A reset longer than the number of sets leaves no valid line, although it
\* clears one set per cycle and may start in the middle of a transfer.
THEOREM ResetComplete == ASSUME NoAlias PROVE Spec => ResetClears
<1>1. IInv /\ [Next]_vars =>
        [reset /\ ~reset' => \A i \in Index : \A w \in Way : ~meta'[i][w].valid]_vars
  <2>1. SUFFICES ASSUME IInv, Next, reset, ~reset'
                 PROVE  \A i \in Index : \A w \in Way : ~meta'[i][w].valid
    OBVIOUS
  <2>2. PICK e \in BOOLEAN : ResetCycle(e)
    BY <2>1 DEF Next, Cycle
  <2>. QED  BY <2>1, <2>2, ResetStep DEF IInv
<1>. QED  BY <1>1, Invariance, PTL DEF Spec, ResetClears

\* While a line is written back or fetched the way being replaced and the
\* request do not change, so every beat goes to the same line.
THEOREM VictimsStand == ASSUME NoAlias PROVE Spec => VictimStable
<1>1. IInv /\ [Next]_vars =>
        [~reset' /\ {state, state'} \subseteq {"FETCH", "WRITEBACK"}
           => position' = position /\ dreq' = dreq]_vars
  <2>1. SUFFICES ASSUME IInv, Next, ~reset', Refilling, Refilling'
                 PROVE  position' = position /\ dreq' = dreq
    BY DEF Refilling
  <2>2. ASSUME NEW e \in BOOLEAN, ResetCycle(e) PROVE FALSE
    BY <2>1, <2>2, ResetStep DEF IInv, Refilling, ResetCycle
  <2>3. PICK e \in BOOLEAN : Cycle(e)
    BY <2>1, <2>2 DEF Next
  <2>4. ~reset /\ Edge /\ TypeOK
    <3>1. ~reset /\ TypeOK /\ PortInv /\ TagInv /\ TxInv
      BY <2>1, <2>3 DEF Cycle, IInv, RunInv
    <3>. QED  BY <2>3, <3>1, ClockEdge DEF Edge
  <2>5. UNCHANGED <<dreq, meta, age>>
    BY <2>1, <2>4 DEF Edge, InitCycle, NoBeat, MidBeat, LastWriteback, LastFetch, UncachedBeat,
                      Refilling
  <2>. QED  BY <2>1, <2>4, <2>5, Stands DEF Refilling
<1>. QED  BY <1>1, Invariance, PTL DEF Spec, VictimStable

-----------------------------------------------------------------------------
(* The order of use.                                                        *)

\* No more hits between two resets than lru_cnt can count.
NoWrap == LRU_MAX > 0 /\ MAX_HITS <= LRU_MAX

\* No way is older than the count of hits, and the count has not wrapped.
LruInv ==
  /\ lru_cnt >= 0
  /\ dreq.valid => lru_cnt < LRU_MAX
  /\ \A i \in Index, w \in Way : age[i][w] <= lru_cnt

\* A request that stays has not been answered, so that nothing was counted.
LEMMA CountedRequest ==
  ASSUME NoWrap, TypeOK, LruInv, NEW e \in BOOLEAN, Cycle(e), Hit \/ lru_cnt' = lru_cnt,
         lru_cnt' \in Int, dreq'.valid
  PROVE  lru_cnt' < LRU_MAX
<1>1. CASE dbus_ok(Resp(e)) \/ ~dreq.valid
  <2>1. dreq' \in {r \in Requests : lru_cnt' < MAX_HITS} \cup {NoReq}
    BY <1>1 DEF Cycle, Port, NewRequest
  <2>2. lru_cnt' < MAX_HITS
    BY <2>1 DEF NoReq
  <2>. QED  BY <2>2, ParamAssumption, EnvAssumption DEF NoWrap
<1>2. CASE ~(dbus_ok(Resp(e)) \/ ~dreq.valid)
  <2>1. ~Hit /\ dreq' = dreq
    BY <1>2 DEF Cycle, Port, Hit, dbus_ok
  <2>. QED  BY <2>1 DEF LruInv
<1>. QED  BY <1>1, <1>2

\* A hit gives its way the next count.
LEMMA HitAges ==
  ASSUME TypeOK, LruInv, Hit
  PROVE  /\ position \in Way /\ dreq.addr.index \in Index
         /\ lru_cnt' = lru_cnt + 1 /\ lru_cnt \in Int
         /\ \A i \in Index, w \in Way :
              age'[i][w] = IF i = dreq.addr.index /\ w = position THEN lru_cnt + 1
                           ELSE age[i][w]
<1>1. position \in Way /\ dreq.addr.index \in Index
  BY PositionWay DEF TypeOK, CacheTypeOK, DReq, Addr
<1>2. lru_cnt \in Int /\ dreq.valid /\ age \in [Index -> [Way -> Age]]
  BY ParamAssumption DEF TypeOK, CacheTypeOK, Age, Hit, cached_ok, hit_data_ok
<1>3. IncSigned(lru_cnt) = lru_cnt + 1
  BY <1>2, ParamAssumption DEF LruInv, IncSigned
<1>. QED  BY <1>1, <1>2, <1>3 DEF Hit, WriteHit

LEMMA LruStep ==
  ASSUME NoAlias, NoWrap, IInv, LruInv, Next
  PROVE  LruInv'
<1>0. TypeOK /\ \A i \in Index, w \in Way : age[i][w] \in Int
  BY ParamAssumption DEF IInv, TypeOK, CacheTypeOK, Age
<1>1. ASSUME NEW e \in BOOLEAN, Cycle(e) PROVE LruInv'
  <2>1. ~reset /\ PortInv /\ TagInv
    BY <1>1 DEF Cycle, IInv, RunInv
  <2>2. CASE Hit
    <3>1. lru_cnt' >= 0 /\ lru_cnt' \in Int
      BY <1>0, <2>2, HitAges DEF LruInv
    <3>2. \A i \in Index, w \in Way : age'[i][w] <= lru_cnt'
      BY <1>0, <2>2, HitAges DEF LruInv
    <3>3. dreq'.valid => lru_cnt' < LRU_MAX
      BY <1>0, <1>1, <2>2, <3>1, CountedRequest
    <3>. QED  BY <3>1, <3>2, <3>3 DEF LruInv
  <2>3. CASE ~Hit
    <3>1. StartUncached => ~hit_data_ok
      BY <1>0, <2>1, UncachedNoMatch DEF StartUncached, hit_data_ok
    <3>2. UNCHANGED <<lru_cnt, age>>
      BY <1>1, <2>1, <2>3, <3>1 DEF Cycle, CacheEdge, InitIdle, cacheVars, Miss, StartUncached,
         NoHitWrite, Fetch, Writeback, Uncached, Reset
    <3>3. lru_cnt' \in Int
      BY <1>0, <3>2, ParamAssumption DEF TypeOK, CacheTypeOK, Age
    <3>4. dreq'.valid => lru_cnt' < LRU_MAX
      BY <1>0, <1>1, <3>2, <3>3, CountedRequest
    <3>. QED  BY <3>2, <3>4 DEF LruInv
  <2>. QED  BY <2>2, <2>3
<1>2. ASSUME NEW e \in BOOLEAN, ResetCycle(e) PROVE LruInv'
  <2>1. lru_cnt' = 0 /\ age' = [i \in Index |-> [w \in Way |-> 0]]
    BY <1>2 DEF ResetCycle, CacheEdge, InitIdle, Hit, Miss, StartUncached, Fetch, Writeback,
                Uncached, Reset
  <2>. QED  BY <2>1 DEF LruInv, NoWrap
<1>. QED  BY <1>1, <1>2 DEF Next

\* The LRU order: a hit makes its way the youngest of its set, as long as no
\* more hits come between two resets than the counter of DCache.sv:334 can count.
THEOREM HitsAreYoungest == ASSUME NoAlias, NoWrap PROVE Spec => HitIsYoungest
<1>1. Init => LruInv
  BY DEF Init, CacheInit, NoReq, LruInv
<1>2. IInv /\ LruInv /\ [Next]_vars => LruInv'
  <2>1. IInv /\ LruInv /\ Next => LruInv'
    BY LruStep
  <2>2. LruInv /\ UNCHANGED vars => LruInv'
    BY DEF vars, cacheVars, LruInv
  <2>. QED  BY <2>1, <2>2
<1>3. IInv /\ LruInv =>
        (Hit => \A w \in Way : w # position =>
           age'[dreq.addr.index][w] < age'[dreq.addr.index][position])
  <2>. SUFFICES ASSUME IInv, LruInv, Hit, NEW w \in Way, w # position
                PROVE  age'[dreq.addr.index][w] < age'[dreq.addr.index][position]
    OBVIOUS
  <2>1. TypeOK /\ age[dreq.addr.index][w] \in Int
    <3>1. TypeOK /\ dreq.addr.index \in Index
      BY HitAges DEF IInv
    <3>. QED  BY <3>1, ParamAssumption DEF TypeOK, CacheTypeOK, Age
  <2>. QED  BY <2>1, HitAges DEF LruInv
<1>. QED  BY <1>1, <1>2, <1>3, Invariance, PTL DEF Spec, HitIsYoungest

-----------------------------------------------------------------------------
(* The cache implements MemoryPort: View is the memory the port sees.      *)

\* The same, of an address compared with the requested one.
LEMMA SameAddr ==
  ASSUME NEW a \in Addr, NEW b \in Addr, a.cached = b.cached, a.tag = b.tag,
         a.index = b.index, a.offset = b.offset
  PROVE  a = b
BY DEF Addr

\* The refinement mapping, one word at a time.
LEMMA ViewFunction ==
  /\ View = [a \in Addr |-> View[a]]
  /\ View' = [a \in Addr |-> View'[a]]
BY DEF View

\* During reset the port is promised the memory image.
LEMMA ViewInReset ==
  /\ reset => View = InitMem
  /\ reset' => View' = InitMem
<1>1. InitMem = [a \in Addr |-> InitMem[a]]
  BY InitMemAssumption
<1>2. ASSUME reset PROVE View = [a \in Addr |-> InitMem[a]]
  BY <1>2 DEF View
<1>3. ASSUME reset' PROVE View' = [a \in Addr |-> InitMem[a]]
  BY <1>3 DEF View
<1>. QED  BY <1>1, <1>2, <1>3

\* The choice of a holder in View is no choice: there is at most one.
LEMMA ViewNow ==
  ASSUME ~reset, TagInv, NEW a \in Addr
  PROVE  /\ (\A w \in Way : ~Holds(w, a)) => View[a] = mem[a]
         /\ \A w \in Way : Holds(w, a) => View[a] = ram[<<w, a.index, a.offset>>]
<1>1. (\A w \in Way : ~Holds(w, a)) => View[a] = mem[a]
  BY DEF View
<1>2. ASSUME NEW w \in Way, Holds(w, a)
      PROVE  View[a] = ram[<<w, a.index, a.offset>>]
  <2>1. \A v \in Way : Holds(v, a) => v = w
    BY <1>2, OneHolder
  <2>2. (CHOOSE v \in Way : Holds(v, a)) = w
    BY <1>2, <2>1
  <2>. QED  BY <1>2, <2>2 DEF View
<1>. QED  BY <1>1, <1>2

\* The same after a step.
LEMMA ViewNext ==
  ASSUME ~reset', TagInv', NEW a \in Addr
  PROVE  /\ (\A w \in Way : ~Holds(w, a)') => View'[a] = mem'[a]
         /\ \A w \in Way : Holds(w, a)' => View'[a] = ram'[<<w, a.index, a.offset>>]
<1>1. (\A w \in Way : ~Holds(w, a)') => View'[a] = mem'[a]
  BY DEF View
<1>2. ASSUME NEW w \in Way, Holds(w, a)'
      PROVE  View'[a] = ram'[<<w, a.index, a.offset>>]
  <2>1. ASSUME NEW v \in Way, Holds(v, a)'
        PROVE  v = w
    BY <1>2, <2>1 DEF TagInv, UniqueTag, Holds, Addr
  <2>2. (CHOOSE v \in Way : Holds(v, a)') = w
    BY <1>2, <2>1
  <2>. QED  BY <1>2, <2>2 DEF View
<1>. QED  BY <1>1, <1>2

\* A word keeps its value when its holder, or memory, keeps it.
LEMMA ViewKept ==
  ASSUME ~reset, ~reset', TagInv, TagInv', NEW a \in Addr,
         \A w \in Way : Holds(w, a)' <=> Holds(w, a),
         \A w \in Way : Holds(w, a) =>
           ram'[<<w, a.index, a.offset>>] = ram[<<w, a.index, a.offset>>],
         (\A w \in Way : ~Holds(w, a)) => mem'[a] = mem[a]
  PROVE  View'[a] = View[a]
<1>1. CASE \E w \in Way : Holds(w, a)
  BY <1>1, ViewNow, ViewNext
<1>2. CASE \A w \in Way : ~Holds(w, a)
  BY <1>2, ViewNow, ViewNext
<1>. QED  BY <1>1, <1>2

\* A hit changes the requested word and no other.
LEMMA ViewHit ==
  ASSUME TypeOK, ~reset, ~reset', RunParts, TagInv', Hit, UNCHANGED mem, NEW a \in Addr
  PROVE  View'[a] = IF a = dreq.addr THEN Merge(View[a], dreq.strobe, dreq.data) ELSE View[a]
<1>. USE DEF RunParts
<1>1. Holds(position, dreq.addr) /\ position \in Way /\ dreq.addr \in Addr
      /\ ram_rdata = ram[<<position, dreq.addr.index, dreq.addr.offset>>]
  BY HitHolds, ReqFacts DEF ram_rdata
<1>2. \A w \in Way : Holds(w, a)' <=> Holds(w, a)
  BY HitKeeps
<1>3. CASE a = dreq.addr
  <2>1. View'[a] = ram'[<<position, a.index, a.offset>>]
    BY <1>1, <1>2, <1>3, ViewNext
  <2>2. View[a] = ram_rdata
    BY <1>1, <1>3, ViewNow
  <2>. QED  BY <1>1, <1>3, <2>1, <2>2, HitWrites
<1>4. CASE a # dreq.addr
  <2>1. ASSUME NEW w \in Way, Holds(w, a)
        PROVE  ram'[<<w, a.index, a.offset>>] = ram[<<w, a.index, a.offset>>]
    <3>1. ~(w = position /\ a.index = dreq.addr.index /\ a.offset = dreq.addr.offset)
      <4>1. SUFFICES ASSUME w = position, a.index = dreq.addr.index, a.offset = dreq.addr.offset
                     PROVE  a = dreq.addr
        BY <1>4
      <4>2. a.tag = dreq.addr.tag /\ a.cached /\ dreq.addr.cached
        BY <1>1, <2>1, <4>1 DEF Holds
      <4>3. a.cached = dreq.addr.cached
        BY <1>1, <4>2 DEF Addr
      <4>. QED  BY <1>1, <4>1, <4>2, <4>3, SameAddr
    <3>. QED  BY <3>1, HitWrites
  <2>. QED  BY <1>2, <1>4, <2>1, ViewKept
<1>. QED  BY <1>3, <1>4

\* So does an uncached access; its word is in no line.
LEMMA ViewUncached ==
  ASSUME TypeOK, ~reset, ~reset', RunParts, TagInv', UncachedBeat, NEW a \in Addr
  PROVE  View'[a] = IF a = dreq.addr THEN Merge(View[a], dreq.strobe, dreq.data) ELSE View[a]
<1>. USE DEF RunParts
<1>1. /\ state = "UNCACHED" /\ state' = "INIT" /\ UNCHANGED <<meta, ram>>
      /\ mem' = [mem EXCEPT ![dreq.addr] = Merge(@, dreq.strobe, dreq.data)]
      /\ ~dreq.addr.cached
  BY DEF UncachedBeat, PortInv
<1>2. \A w \in Way : Holds(w, a)' <=> Holds(w, a)
  BY <1>1 DEF Holds
<1>3. CASE a = dreq.addr
  <2>1. \A w \in Way : ~Holds(w, a)
    BY <1>1, <1>3 DEF Holds
  <2>2. View'[a] = mem'[a] /\ View[a] = mem[a]
    BY <1>2, <2>1, ViewNow, ViewNext
  <2>. QED  BY <1>1, <1>3, <2>2 DEF TypeOK, DeviceTypeOK
<1>4. CASE a # dreq.addr
  <2>1. mem'[a] = mem[a]
    BY <1>1, <1>4 DEF TypeOK, DeviceTypeOK
  <2>. QED  BY <1>1, <1>2, <1>4, <2>1, ViewKept
<1>. QED  BY <1>3, <1>4

\* The last beat of a write-back gives up a line that memory now equals.
LEMMA ViewWriteback ==
  ASSUME TypeOK, ~reset, ~reset', RunParts, TagInv', LastWriteback, NEW a \in Addr
  PROVE  View'[a] = View[a]
<1>. USE DEF RunParts
<1>1. /\ state = "WRITEBACK" /\ state' = "FETCH" /\ UNCHANGED <<dreq, meta, age, ram>>
      /\ tx.busy /\ mem' = [mem EXCEPT ![BeatAddr] = ram_rdata]
      /\ counter = WORDS_PER_LINE - 1
  BY DEF LastWriteback
<1>2. UNCHANGED position /\ position \in Way
  BY <1>1, Stands, ReqFacts
<1>3. \A w \in Way :
        Holds(w, a)' <=> Holds(w, a) /\ ~(w = position /\ a.index = dreq.addr.index)
  BY <1>1, <1>2 DEF Holds
<1>4. CASE Holds(position, a) /\ a.index = dreq.addr.index
  <2>1. View[a] = ram[<<position, a.index, a.offset>>]
    BY <1>2, <1>4, ViewNow
  <2>2. View'[a] = mem'[a]
    <3>1. \A w \in Way : ~Holds(w, a)'
      BY <1>2, <1>3, <1>4, OneHolder
    <3>. QED  BY <3>1, ViewNext
  <2>3. CASE a = BeatAddr
    BY <1>1, <2>1, <2>2, <2>3, FlushBeat
  <2>4. CASE a # BeatAddr
    <3>1. mem'[a] = mem[a]
      BY <1>1, <2>4, FlushBeat
    <3>2. a = [creq.addr EXCEPT !.offset = a.offset]
      <4>1. creq.addr \in Addr /\ a.offset \in Offset
        BY CReqType DEF TypeOK, CReq, Addr
      <4>2. /\ creq.addr.tag = a.tag /\ creq.addr.index = a.index /\ creq.addr.cached
        <5>1. creq.addr = LineAddr(meta_ram_rmeta[position].tag)
          BY <1>1 DEF creq
        <5>2. meta_ram_rmeta[position].tag = a.tag /\ dreq.addr.cached
          BY <1>1, <1>4, ReqFacts DEF Holds, PortInv, Refilling
        <5>. QED  BY <1>4, <5>1, <5>2 DEF LineAddr
      <4>3. creq.addr.cached = a.cached
        BY <1>4, <4>1, <4>2 DEF Addr, Holds
      <4>. QED  BY <4>1, <4>2, <4>3, SameWord
    <3>3. a.offset \in Offset /\ a.offset < counter
      <4>1. a.offset # counter
        BY <1>1, <2>4, <3>2, AtCounter DEF Refilling
      <4>. QED  BY <1>1, <4>1, ParamAssumption DEF Addr, Offset
    <3>4. ram[<<position, a.index, a.offset>>] = mem[a]
      BY <1>1, <1>4, <3>2, <3>3 DEF CopyInv, Refilling
    <3>. QED  BY <2>1, <2>2, <3>1, <3>4
  <2>. QED  BY <2>3, <2>4
<1>5. CASE ~(Holds(position, a) /\ a.index = dreq.addr.index)
  <2>1. \A w \in Way : Holds(w, a)' <=> Holds(w, a)
    BY <1>3, <1>5
  <2>2. (\A w \in Way : ~Holds(w, a)) => mem'[a] = mem[a]
    BY <1>1, <1>2, FlushBeat
  <2>. QED  BY <1>1, <2>1, <2>2, ViewKept
<1>. QED  BY <1>4, <1>5

\* Every other cycle leaves the memory the port sees as it is.
LEMMA ViewWait ==
  ASSUME TypeOK, ~reset, ~reset', RunParts, TagInv', Edge, ~Hit, ~UncachedBeat, NEW a \in Addr
  PROVE  View'[a] = View[a]
<1>. USE DEF RunParts
<1>1. CASE InitCycle
  <2>1. mem' = mem
    BY <1>1 DEF InitCycle, deviceVars
  <2>2. CASE InitIdle \/ (StartUncached /\ UNCHANGED <<dreq, meta, ram, age>>)
    <3>1. UNCHANGED <<meta, ram>> /\ state # "FETCH" /\ state' # "FETCH"
      BY <1>1, <2>2 DEF InitCycle, InitIdle, StartUncached, cacheVars
    <3>2. \A w \in Way : Holds(w, a)' <=> Holds(w, a)
      BY <3>1 DEF Holds
    <3>. QED  BY <2>1, <3>1, <3>2, ViewKept
  <2>3. CASE Miss /\ UNCHANGED dreq
    <3>1. UNCHANGED <<meta, ram>>
      BY <2>3 DEF Miss, NoHitWrite
    <3>2. CASE \E w \in Way : Holds(w, a) /\ ~Holds(w, a)'
      <4>1. PICK w \in Way : Holds(w, a) /\ ~Holds(w, a)'
        BY <3>2
      <4>2. \A v \in Way : ~Holds(v, a)'
        BY <2>3, <4>1, MissHolds, OneHolder
      <4>3. View[a] = mem[a]
        <5>1. ~meta[a.index][w].dirty
          BY <2>3, <4>1, MissHolds
        <5>. QED  BY <4>1, <5>1, ViewNow DEF CleanLineIsMemory
      <4>. QED  BY <2>1, <4>2, <4>3, ViewNext
    <3>3. CASE \A w \in Way : Holds(w, a) => Holds(w, a)'
      <4>1. \A w \in Way : Holds(w, a)' <=> Holds(w, a)
        BY <2>3, <3>3, MissHolds
      <4>. QED  BY <2>1, <3>1, <4>1, ViewKept
    <3>. QED  BY <3>2, <3>3
  <2>4. \/ InitIdle
        \/ Miss /\ UNCHANGED dreq
        \/ StartUncached /\ UNCHANGED <<dreq, meta, ram, age>>
    BY <1>1, Zenon DEF InitCycle
  <2>. QED  BY <2>2, <2>3, <2>4, Zenon
<1>2. CASE NoBeat \/ MidBeat
  <2>1. state # "INIT" /\ UNCHANGED <<state, dreq, meta, age>>
    BY <1>2 DEF NoBeat, MidBeat, Refilling
  <2>2. \A w \in Way : Holds(w, a)' <=> Holds(w, a)
    BY <2>1, HoldsStands
  <2>3. ASSUME NEW w \in Way, Holds(w, a)
        PROVE  ram'[<<w, a.index, a.offset>>] = ram[<<w, a.index, a.offset>>]
    <3>1. CASE state = "FETCH"
      <4>1. \E x : ram' = [ram EXCEPT ![ram_addr] = x]
        BY <1>2, <3>1 DEF NoBeat, MidBeat
      <4>. QED  BY <2>3, <3>1, <4>1, FetchBeat
    <3>2. CASE state # "FETCH"
      BY <1>2, <3>2 DEF NoBeat, MidBeat
    <3>. QED  BY <3>1, <3>2
  <2>4. (\A w \in Way : ~Holds(w, a)) => mem'[a] = mem[a]
    <3>1. CASE MidBeat /\ state = "WRITEBACK"
      <4>1. tx.busy /\ mem' = [mem EXCEPT ![BeatAddr] = ram_rdata] /\ position \in Way
        BY <3>1, ReqFacts DEF MidBeat
      <4>. QED  BY <3>1, <4>1, FlushBeat
    <3>2. CASE ~(MidBeat /\ state = "WRITEBACK")
      BY <1>2, <3>2 DEF NoBeat, MidBeat, Refilling
    <3>. QED  BY <3>1, <3>2
  <2>. QED  BY <2>2, <2>3, <2>4, ViewKept
<1>3. CASE LastWriteback
  BY <1>3, ViewWriteback
<1>4. CASE LastFetch
  <2>1. mem' = mem
    BY <1>4 DEF LastFetch
  <2>2. CASE \E w \in Way : Holds(w, a)
    <3>1. PICK w \in Way : Holds(w, a)
      BY <2>2
    <3>2. Holds(w, a)' /\ ram'[<<w, a.index, a.offset>>] = ram[<<w, a.index, a.offset>>]
      BY <1>4, <3>1, FetchedLine
    <3>. QED  BY <3>1, <3>2, ViewNow, ViewNext
  <2>3. CASE \A w \in Way : ~Holds(w, a)
    <3>1. View[a] = mem[a]
      BY <2>3, ViewNow
    <3>2. \A w \in Way : Holds(w, a)' => ram'[<<w, a.index, a.offset>>] = mem[a]
      BY <1>4, <2>3, FetchedLine
    <3>. QED  BY <2>1, <3>1, <3>2, ViewNext
  <2>. QED  BY <2>2, <2>3
<1>. QED  BY <1>1, <1>2, <1>3, <1>4 DEF Edge, InitCycle

\* The abstract Store of MemoryPort, in the words of DCache.
LEMMA AbstractStore ==
  ASSUME NEW m \in [Addr -> Word], NEW r \in DReq, NEW n \in [Addr -> Word],
         \A a \in Addr : n[a] = IF a = r.addr THEN Merge(m[a], r.strobe, r.data) ELSE m[a]
  PROVE  n = Atomic!Store(m, r)
<1>1. Atomic!Store(m, r) = [m EXCEPT ![r.addr] = Merge(m[r.addr], r.strobe, r.data)]
  BY DEF Atomic!Store, Merge
<1>2. r.addr \in Addr
  BY DEF DReq
<1>. QED  BY <1>1, <1>2

\* The memory the port sees is a memory.
LEMMA ViewType ==
  ASSUME TypeOK
  PROVE  View \in [Addr -> Word]
<1>1. ASSUME NEW a \in Addr
      PROVE  View[a] \in Word
  <2>1. CASE reset
    BY <2>1, ViewInReset, InitMemAssumption
  <2>2. CASE ~reset /\ \E w \in Way : Holds(w, a)
    <3>1. (CHOOSE w \in Way : Holds(w, a)) \in Way
      BY <2>2
    <3>. QED  BY <2>2, <3>1 DEF View, TypeOK, CacheTypeOK, Addr
  <2>3. CASE ~reset /\ ~\E w \in Way : Holds(w, a)
    BY <2>3 DEF View, TypeOK, DeviceTypeOK
  <2>. QED  BY <2>1, <2>2, <2>3
<1>. QED  BY <1>1, ViewFunction

\* The same after a step.
LEMMA ViewTypeNext ==
  ASSUME TypeOK'
  PROVE  View' \in [Addr -> Word]
<1>1. ASSUME NEW a \in Addr
      PROVE  View'[a] \in Word
  <2>1. CASE reset'
    BY <2>1, ViewInReset, InitMemAssumption
  <2>2. CASE ~reset' /\ \E w \in Way : Holds(w, a)'
    <3>1. (CHOOSE w \in Way : Holds(w, a)') \in Way
      BY <2>2
    <3>. QED  BY <2>2, <3>1 DEF View, TypeOK, CacheTypeOK, Addr
  <2>3. CASE ~reset' /\ ~\E w \in Way : Holds(w, a)'
    BY <2>3 DEF View, TypeOK, DeviceTypeOK
  <2>. QED  BY <2>1, <2>2, <2>3
<1>. QED  BY <1>1, ViewFunction

\* A hit leaves the memory behind the cache alone: the bus is idle.
LEMMA HitMemory ==
  ASSUME ~reset, TxInv, Hit, NEW e \in BOOLEAN, Cycle(e)
  PROVE  UNCHANGED mem
<1>1. ~tx.busy
  BY DEF TxInv, Hit, cached_ok
<1>. QED  BY <1>1 DEF Cycle, DeviceEdge, StartTx, Beat, NoRequest, deviceVars

\* An answered request is followed by a new one or by none.
LEMMA EdgePort ==
  ASSUME ~reset, Hit \/ UncachedBeat, NEW e \in BOOLEAN, Cycle(e)
  PROVE  dreq' \in Requests \cup {NoReq}
<1>1. CASE Hit
  BY <1>1 DEF Cycle, Port, NewRequest, Hit, dbus_ok
<1>2. CASE UncachedBeat
  BY <1>2 DEF UncachedBeat
<1>. QED  BY <1>1, <1>2

\* A load is answered with the word of the memory the port sees.
LEMMA EdgeAnswer ==
  ASSUME TypeOK, ~reset, RunParts, Edge, Hit \/ UncachedBeat
  PROVE  answer' = [ok   |-> TRUE,
                    data |-> IF dreq.strobe = {} THEN View[dreq.addr] ELSE ZeroWord]
<1>. USE DEF RunParts
<1>1. dreq.addr \in Addr /\ position \in Way
  BY ReqFacts
<1>2. CASE Hit
  <2>1. View[dreq.addr] = ram_rdata
    BY <1>1, <1>2, HitHolds, ViewNow DEF ram_rdata
  <2>2. state = "INIT" /\ state' = "INIT" /\ cached_ok
    BY <1>2 DEF Hit, cached_ok
  <2>3. InitCycle
    BY <2>2 DEF Edge, NoBeat, MidBeat, LastWriteback, LastFetch, UncachedBeat, Refilling
  <2>4. answer' = [ok |-> TRUE, data |-> IF dreq.strobe = {} THEN ram_rdata ELSE ZeroWord]
    BY <2>2, <2>3 DEF InitCycle, InitIdle, Miss, StartUncached, cached_ok, hit_data_ok
  <2>. QED  BY <2>1, <2>4
<1>3. CASE UncachedBeat
  <2>1. ~dreq.addr.cached
    BY <1>3 DEF UncachedBeat, PortInv
  <2>2. \A w \in Way : ~Holds(w, dreq.addr)
    BY <2>1 DEF Holds
  <2>3. View[dreq.addr] = mem[dreq.addr]
    BY <1>1, <2>2, ViewNow
  <2>. QED  BY <1>3, <2>3 DEF UncachedBeat
<1>. QED  BY <1>2, <1>3

\* The initial states are initial states of the plain memory.
LEMMA AtomicInit == Init => Atomic!Init
BY ViewInReset DEF Init, Atomic!Init, NoAnswer, Atomic!NoAnswer

\* The answer to a request is given at the edge at which memory, as the port
\* sees it, changes; every other edge leaves memory alone.
LEMMA AtomicStep ==
  ASSUME NoAlias, IInv, [Next]_vars
  PROVE  [Atomic!Next]_(Atomic!portVars)
<1>1. TypeOK /\ TypeOK' /\ IInv'
  BY StepInv DEF IInv
<1>2. dreq \in DReq /\ reset \in BOOLEAN /\ reset' \in BOOLEAN /\ NoAnswer = Atomic!NoAnswer
  BY <1>1 DEF TypeOK, CacheTypeOK, NoAnswer, Atomic!NoAnswer
<1>3. ASSUME NEW e \in BOOLEAN, Cycle(e)
      PROVE  Atomic!Next
  <2>1. ~reset /\ RunParts
    BY <1>3 DEF Cycle, IInv, RunInv, RunParts
  <2>2. Edge
    BY <1>1, <1>3, <2>1, ClockEdge DEF RunParts, Edge
  <2>3. ~reset' => TagInv'
    BY <1>1 DEF IInv, RunInv
  <2>4. NoReq.valid = FALSE
    BY DEF NoReq
  <2>5. CASE Hit \/ UncachedBeat
    <3>1. dreq # NoReq
      BY <2>1, <2>4, <2>5 DEF Hit, cached_ok, hit_data_ok, UncachedBeat, RunParts, PortInv
    <3>2. dreq' \in Requests \cup {NoReq}
      BY <1>3, <2>1, <2>2, <2>5, EdgePort
    <3>3. answer' = [ok   |-> TRUE,
                     data |-> IF dreq.strobe = {} THEN View[dreq.addr] ELSE ZeroWord]
      BY <1>1, <2>1, <2>2, <2>5, EdgeAnswer
    <3>4. Atomic!Becomes(Atomic!Store(View, dreq))
      <4>1. CASE reset'
        BY <1>2, <4>1, ViewInReset DEF Atomic!Becomes
      <4>2. CASE ~reset'
        <5>1. \A a \in Addr :
                View'[a] = IF a = dreq.addr THEN Merge(View[a], dreq.strobe, dreq.data) ELSE View[a]
          <6>1. CASE Hit
            <7>1. UNCHANGED mem
              BY <1>3, <2>1, <6>1, HitMemory DEF RunParts
            <7>. QED  BY <1>1, <2>1, <2>3, <4>2, <6>1, <7>1, ViewHit
          <6>2. CASE UncachedBeat
            BY <1>1, <2>1, <2>3, <4>2, <6>2, ViewUncached
          <6>. QED  BY <2>5, <6>1, <6>2
        <5>2. View \in [Addr -> Word] /\ View' \in [Addr -> Word]
          BY <1>1, ViewType, ViewTypeNext
        <5>3. View' = Atomic!Store(View, dreq)
          BY <1>2, <5>1, <5>2, AbstractStore
        <5>. QED  BY <1>2, <4>2, <5>3 DEF Atomic!Becomes
      <4>. QED  BY <4>1, <4>2
    <3>. QED  BY <2>1, <3>1, <3>2, <3>3, <3>4 DEF Atomic!Next, Atomic!Perform
  <2>6. CASE ~Hit /\ ~UncachedBeat
    <3>1. /\ answer' = NoAnswer
          /\ IF dreq = NoReq THEN dreq' \in Requests \cup {NoReq} ELSE dreq' = dreq
      BY <2>1, <2>2, <2>4, <2>6
      DEF Edge, InitCycle, NoBeat, MidBeat, LastWriteback, LastFetch, InitIdle, RunParts, PortInv,
          Refilling, Requests, Loads, Stores
    <3>2. Atomic!Becomes(View)
      <4>1. CASE reset'
        BY <1>2, <4>1, ViewInReset DEF Atomic!Becomes
      <4>2. CASE ~reset'
        <5>1. \A a \in Addr : View'[a] = View[a]
          BY <1>1, <2>1, <2>2, <2>3, <2>6, <4>2, ViewWait
        <5>2. View' = View
          BY <5>1, ViewFunction
        <5>. QED  BY <1>2, <4>2, <5>2 DEF Atomic!Becomes
      <4>. QED  BY <4>1, <4>2
    <3>. QED  BY <1>2, <2>1, <3>1, <3>2 DEF Atomic!Next, Atomic!Wait
  <2>. QED  BY <2>5, <2>6
<1>4. ASSUME NEW e \in BOOLEAN, ResetCycle(e)
      PROVE  Atomic!Next
  <2>1. reset /\ ResetInv
    BY <1>4 DEF ResetCycle, IInv
  <2>2. /\ answer' = NoAnswer /\ mem' = InitMem
        /\ dreq' \in Requests \cup {NoReq} /\ (reset' => dreq' = NoReq)
        /\ ~reset' => \A i \in Index, w \in Way : ~meta'[i][w].valid
    BY <1>1, <1>4, <2>1, ResetStep
  <2>3. View = InitMem
    BY <2>1, ViewInReset
  <2>4. View' = InitMem
    <3>1. CASE reset'
      BY <3>1, ViewInReset
    <3>2. CASE ~reset'
      <4>1. TagInv'
        BY <1>1, <3>2 DEF IInv, RunInv
      <4>2. ASSUME NEW a \in Addr
            PROVE  View'[a] = InitMem[a]
        <5>1. \A w \in Way : ~Holds(w, a)'
          BY <2>2, <3>2 DEF Holds, Addr
        <5>. QED  BY <2>2, <3>2, <4>1, <5>1, ViewNext
      <4>. QED  BY <4>2, ViewFunction, InitMemAssumption
    <3>. QED  BY <3>1, <3>2
  <2>. QED
    BY <1>2, <2>1, <2>2, <2>3, <2>4 DEF Atomic!Next, Atomic!Down, Atomic!Becomes
<1>5. CASE UNCHANGED vars
  <2>1. UNCHANGED <<reset, dreq, answer, View>>
    <3>1. UNCHANGED <<state, meta, ram, age, reset_cnt, dreq, reset, mem, answer>>
      BY <1>5 DEF vars, cacheVars, deviceVars
    <3>2. UNCHANGED position
      BY <3>1 DEF position, hit_data_ok, replaced_position, Matching, Invalid, meta_ram_rmeta
    <3>. QED  BY <3>1, <3>2 DEF View, Holds
  <2>. QED  BY <2>1 DEF Atomic!portVars
<1>. QED  BY <1>3, <1>4, <1>5 DEF Next

\* The cache, its FSM, replacement, write-backs and resets included, is
\* indistinguishable at its port from a plain memory.
THEOREM CacheIsMemory == ASSUME NoAlias PROVE Spec => AtomicMemory
<1>1. Init => Atomic!Init
  BY AtomicInit
<1>2. IInv /\ [Next]_vars => [Atomic!Next]_(Atomic!portVars)
  BY AtomicStep
<1>. QED  BY <1>1, <1>2, Invariance, PTL DEF Spec, AtomicMemory, Atomic!Spec
=============================================================================
