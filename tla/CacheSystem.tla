---------------------------- MODULE CacheSystem ----------------------------
(***************************************************************************)
(* vsrc/VCacheTop.sv under its harness (verilate/vsrc/VCacheTop/mycache.h): *)
(* one DCache between a dbus port and a CBusDevice.  Everything is clocked  *)
(* together: a step is one cycle of all three.                             *)
(***************************************************************************)
EXTENDS CBusDevice

CONSTANTS ReqAddrs,   \* the addresses the port asks for
          ReqWords,   \* the words it stores
          RESET_CYCLES, \* how long reset is held
          MAX_HITS    \* bound: no new request once lru_cnt reaches it

ASSUME EnvAssumption ==
  /\ ReqAddrs \subseteq Addr
  /\ ReqWords \subseteq Word
  /\ RESET_CYCLES \in Nat /\ RESET_CYCLES > SET_NUM
  /\ MAX_HITS \in Nat

VARIABLES held,   \* cycles for which reset has been asserted
          answer  \* the response the core latched at the last clock edge

vars == <<reset, dreq, cacheVars, deviceVars, held, answer>>

NoReq == [valid |-> FALSE, addr |-> [cached |-> FALSE, tag |-> ZeroTag,
                                     index |-> 0, offset |-> 0],
          strobe |-> {}, data |-> ZeroWord]
NoAnswer == [ok |-> FALSE, data |-> ZeroWord]

Loads == [valid : {TRUE}, addr : ReqAddrs, strobe : {{}}, data : {ZeroWord}]
Stores == [valid : {TRUE}, addr : ReqAddrs, strobe : (SUBSET Lanes) \ {{}}, data : ReqWords]
Requests == Loads \cup Stores

-----------------------------------------------------------------------------
Init ==
  /\ CacheInit
  /\ DeviceInit
  /\ dreq = NoReq
  /\ reset = TRUE /\ held = 0
  /\ answer = NoAnswer

NewRequest == dreq' \in {r \in Requests : lru_cnt' < MAX_HITS} \cup {NoReq}

\* The requester: it holds its request until data_ok.
Port(cresp) ==
  /\ IF dbus_ok(cresp) \/ ~dreq.valid THEN NewRequest ELSE UNCHANGED dreq
  /\ answer' = IF dbus_ok(cresp)
               THEN [ok |-> TRUE, data |-> IF dreq.strobe = {} THEN dresp(cresp).data
                                                              ELSE ZeroWord]
               ELSE NoAnswer

\* Reset may be asserted in any cycle.
AssertReset == reset' \in BOOLEAN /\ held' = 0

Cycle(enable) ==
  /\ ~reset
  /\ CacheEdge(Resp(enable))
  /\ DeviceEdge(enable, creq)
  /\ Port(Resp(enable))
  /\ AssertReset

ResetCycle(enable) ==
  /\ reset
  /\ CacheEdge(Resp(enable))
  /\ DeviceReset
  /\ answer' = NoAnswer
  /\ held' = held + 1
  /\ reset' = (held + 1 < RESET_CYCLES)
  /\ dreq' \in IF reset' THEN {NoReq} ELSE Requests \cup {NoReq}

Next == \E enable \in BOOLEAN : Cycle(enable) \/ ResetCycle(enable)

Spec == Init /\ [][Next]_vars

\* The device is disabled with a probability below 1, so it is enabled again
\* and again; the clock does not stop during reset.
Fairness == WF_vars(Cycle(TRUE)) /\ WF_vars(\E e \in BOOLEAN : ResetCycle(e))

FairSpec == Spec /\ Fairness

-----------------------------------------------------------------------------
\* The registers keep their widths and no burst runs past its length.
TypeOK ==
  /\ CacheTypeOK
  /\ DeviceTypeOK
  /\ held \in 0 .. RESET_CYCLES
  /\ reset => held < RESET_CYCLES
  /\ answer \in [ok : BOOLEAN, data : Word]

\* Way w holds the word of address a; the way being refilled holds nothing.
Holds(w, a) ==
  /\ a.cached
  /\ meta[a.index][w].valid
  /\ meta[a.index][w].tag = a.tag
  /\ ~(state = "FETCH" /\ dreq.addr.index = a.index /\ position = w)

\* The memory the port sees: the cached copy when there is one.
View ==
  [a \in Addr |->
     IF reset THEN InitMem[a]
     ELSE IF \E w \in Way : Holds(w, a)
          THEN ram[<<CHOOSE w \in Way : Holds(w, a), a.index, a.offset>>]
          ELSE mem[a]]

Atomic == INSTANCE MemoryPort WITH amem <- View, port <- dreq, down <- reset

\* The port behaves as a plain memory: every load returns the last word stored.
AtomicMemory == Atomic!Spec

\* No tag is in two ways of a set: the hit loop's first match is the only one.
UniqueTag ==
  ~reset => \A i \in Index : \A v, w \in Way :
    meta[i][v].valid /\ meta[i][w].valid /\ meta[i][v].tag = meta[i][w].tag => v = w

\* A clean line can be dropped: it equals memory.
CleanLineIsMemory ==
  ~reset => \A a \in Addr, w \in Way :
    Holds(w, a) /\ ~meta[a.index][w].dirty => ram[<<w, a.index, a.offset>>] = mem[a]

\* The device's own asserts: a request is held unchanged during its transaction.
TransactionHeld == ~reset => RequestHeld(creq)

\* After reset no line is valid in any set, whatever reset interrupted.
ResetClears ==
  [][reset /\ ~reset' => \A i \in Index : \A w \in Way : ~meta'[i][w].valid]_vars

\* The comment "the replaced position of this algorithm won't change if not
\* hit" and "These info won't change in a transaction".
VictimStable ==
  [][~reset' /\ {state, state'} \subseteq {"FETCH", "WRITEBACK"}
       => position' = position /\ dreq' = dreq]_vars

\* A hit makes its way the youngest of all: the order of age is the order of use.
HitIsYoungest ==
  [][Hit => \A w \in Way : w # position =>
       age'[dreq.addr.index][w] < age'[dreq.addr.index][position]]_vars

\* Every request is answered unless reset intervenes.
EventuallyAnswered == dreq.valid ~> (answer.ok \/ reset)

\* common.sv: a request bypasses the cache when its region is uncached.
UncachedBypasses ==
  [][~reset /\ dreq.valid /\ ~dreq.addr.cached => UNCHANGED <<meta, ram>>]_vars
=============================================================================
