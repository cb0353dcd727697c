------------------------------- MODULE DCache -------------------------------
(***************************************************************************)
(* vsrc/cache/DCache.sv: the set-associative write-back cache that sits     *)
(* between a dbus port and a cbus.  Every action is one rising clock edge;  *)
(* the combinational signals of the module are operators over its          *)
(* registers, its input port dreq and the response cresp of that cycle.     *)
(*                                                                         *)
(* A 64-bit word is a function from byte lanes to bytes, a strobe is the    *)
(* set of enabled lanes.  An address keeps what the cache distinguishes:    *)
(* bit 31 (cached), the tag, the index and the offset.  Bits 63:32 are not  *)
(* part of the tag and are left out, as is the size field: both are only    *)
(* passed on to the bus.                                                   *)
(***************************************************************************)
EXTENDS Integers

CONSTANTS WORDS_PER_LINE, ASSOCIATIVITY, SET_NUM,  \* module parameters
          LRU_MAX,     \* largest value of lru_cnt and age (int: 2^31 - 1)
          Tags, ZeroTag,  \* values of the tag field, and the value 0
          Lanes, Byte, \* byte lanes of a word, values of a byte
          Zero         \* the byte 0

ASSUME ParamAssumption ==
  /\ WORDS_PER_LINE \in Nat \ {0}
  /\ ASSOCIATIVITY \in Nat \ {0}
  /\ SET_NUM \in Nat \ {0}
  /\ LRU_MAX \in Nat
  /\ Zero \in Byte
  /\ ZeroTag \in Tags

VARIABLES
  reset,      \* input: is reset asserted in this cycle?
  dreq,       \* input: the request on the dbus port
  state, counter,     \* the FSM registers
  meta,       \* ram_meta: [index][way] -> valid, dirty, tag
  ram,        \* ram_data: <<way, index, offset>> -> word
  age, lru_cnt,       \* the LRU registers
  reset_cnt   \* the set cleared by the next cycle of reset

cacheVars == <<state, counter, meta, ram, age, lru_cnt, reset_cnt>>

-----------------------------------------------------------------------------
Index == 0 .. SET_NUM - 1
Way == 0 .. ASSOCIATIVITY - 1
Offset == 0 .. WORDS_PER_LINE - 1

Word == [Lanes -> Byte]
ZeroWord == [l \in Lanes |-> Zero]

Addr == [cached : BOOLEAN, tag : Tags, index : Index, offset : Offset]

DReq == [valid : BOOLEAN, addr : Addr, strobe : SUBSET Lanes, data : Word]
CResp == [ready : BOOLEAN, last : BOOLEAN, data : Word]
Meta == [valid : BOOLEAN, dirty : BOOLEAN, tag : Tags]
NoLine == [valid |-> FALSE, dirty |-> FALSE, tag |-> ZeroTag]

\* Mutants of Inc, IncSigned and Merge.
IncNoWrap(x, n) == x + 1
NoInc(x) == x
WholeWord(old, strobe, new) == IF strobe = {} THEN old ELSE new

\* A register of n values wraps to 0 after n - 1.
Inc(x, n) == IF x = n - 1 THEN 0 ELSE x + 1

\* lru_cnt + 1 in two's complement.
IncSigned(x) == IF x = LRU_MAX THEN -LRU_MAX - 1 ELSE x + 1
Age == -LRU_MAX - 1 .. LRU_MAX

\* A RAM write through a lane mask.
Merge(old, strobe, new) == [l \in Lanes |-> IF l \in strobe THEN new[l] ELSE old[l]]

-----------------------------------------------------------------------------
(* Combinational signals.                                                  *)

\* ram_meta has one address: the set being cleared during reset.
meta_ram_rmeta == meta[IF reset THEN reset_cnt ELSE dreq.addr.index]

\* Mutant: the hit loop starts at the second way.
MatchingFromOne == {w \in Way \ {0} : /\ meta_ram_rmeta[w].valid
                                      /\ meta_ram_rmeta[w].tag = dreq.addr.tag}

Matching == {w \in Way : /\ meta_ram_rmeta[w].valid
                         /\ meta_ram_rmeta[w].tag = dreq.addr.tag}
Invalid == {w \in Way : ~meta_ram_rmeta[w].valid}

\* The loops over the ways break at the first one found.
First(S) == CHOOSE w \in S : \A v \in S : w <= v

\* Bit 31 of the address plays no part in a hit.
hit_data_ok == dreq.valid /\ state = "INIT" /\ Matching # {}

\* The first way of least age.
replaced_position ==
  LET ages == age[dreq.addr.index]
  IN  CHOOSE w \in Way : \A v \in Way :
        ages[w] < ages[v] \/ (ages[w] = ages[v] /\ w <= v)

position == IF hit_data_ok THEN First(Matching)
            ELSE IF Invalid # {} THEN First(Invalid)
            ELSE replaced_position

cur == IF hit_data_ok THEN dreq.addr.offset ELSE counter
ram_addr == <<position, dreq.addr.index, cur>>
ram_rdata == ram[ram_addr]

cached_ok == state = "INIT" /\ dreq.addr.cached /\ hit_data_ok
uncached_ok(cresp) == state = "UNCACHED" /\ cresp.last
dbus_ok(cresp) == cached_ok \/ uncached_ok(cresp)

dresp(cresp) ==
  [data_ok |-> dbus_ok(cresp),
   data    |-> IF ~dbus_ok(cresp) THEN ZeroWord
               ELSE IF state = "INIT" THEN ram_rdata ELSE cresp.data]

LineAddr(tag) == [cached |-> dreq.addr.cached, tag |-> tag,
                  index |-> dreq.addr.index, offset |-> 0]

creq ==
  [valid    |-> state # "INIT" /\ dreq.valid /\ ~reset,
   is_write |-> state = "WRITEBACK" \/ (state = "UNCACHED" /\ dreq.strobe # {}),
   addr     |-> CASE state = "WRITEBACK" -> LineAddr(meta_ram_rmeta[position].tag)
                  [] state = "UNCACHED"  -> dreq.addr
                  [] OTHER               -> LineAddr(dreq.addr.tag),
   strobe   |-> CASE state = "WRITEBACK" -> Lanes
                  [] state = "UNCACHED"  -> dreq.strobe
                  [] OTHER               -> {},
   data     |-> IF state = "UNCACHED" THEN dreq.data ELSE ram_rdata,
   len      |-> IF state = "UNCACHED" THEN 1 ELSE WORDS_PER_LINE]

-----------------------------------------------------------------------------
CacheInit ==
  /\ state = "INIT"
  /\ counter = 0
  /\ meta = [i \in Index |-> [w \in Way |-> NoLine]]
  /\ ram = [p \in Way \X Index \X Offset |-> ZeroWord]
  /\ age = [i \in Index |-> [w \in Way |-> 0]]
  /\ lru_cnt = 0
  /\ reset_cnt = 0

\* Mutant: a store does not mark its line.
HitMetaClean == [valid |-> TRUE, dirty |-> meta_ram_rmeta[position].dirty,
                 tag |-> dreq.addr.tag]

HitMeta == [valid |-> TRUE, dirty |-> dreq.strobe # {} \/ meta_ram_rmeta[position].dirty,
            tag |-> dreq.addr.tag]

\* What a hit writes: the meta entry, the strobed lanes and the age of the way.
WriteHit ==
  /\ meta' = [meta EXCEPT ![dreq.addr.index][position] = HitMeta]
  /\ ram' = [ram EXCEPT ![ram_addr] = Merge(ram_rdata, dreq.strobe, dreq.data)]
  /\ age' = [age EXCEPT ![dreq.addr.index][position] = IncSigned(lru_cnt)]

NoHitWrite == UNCHANGED <<meta, ram, age>>

InitIdle ==
  /\ ~reset /\ state = "INIT" /\ ~dreq.valid
  /\ UNCHANGED cacheVars

Hit ==
  /\ ~reset /\ cached_ok
  /\ WriteHit
  /\ counter' = 0
  /\ lru_cnt' = IncSigned(lru_cnt)
  /\ UNCHANGED <<state, reset_cnt>>

NeverWriteBack == FALSE  \* mutant

MustWriteBack == Invalid = {} /\ meta_ram_rmeta[position].dirty

Miss ==
  /\ ~reset /\ state = "INIT" /\ dreq.valid /\ dreq.addr.cached /\ ~hit_data_ok
  /\ state' = IF MustWriteBack THEN "WRITEBACK" ELSE "FETCH"
  /\ counter' = 0
  /\ NoHitWrite
  /\ UNCHANGED <<lru_cnt, reset_cnt>>

\* The hit writes happen here too when the low 31 bits match a valid line.
StartUncached ==
  /\ ~reset /\ state = "INIT" /\ dreq.valid /\ ~dreq.addr.cached
  /\ state' = "UNCACHED"
  /\ IF hit_data_ok THEN WriteHit ELSE NoHitWrite
  /\ UNCHANGED <<counter, lru_cnt, reset_cnt>>

FetchedMeta == [valid |-> TRUE, dirty |-> FALSE, tag |-> dreq.addr.tag]

\* Mutant: the line is marked valid at the first beat.
FetchEarly(cresp) ==
  /\ ~reset /\ state = "FETCH"
  /\ ram' = [ram EXCEPT ![ram_addr] = cresp.data]
  /\ counter' = IF cresp.ready THEN Inc(counter, WORDS_PER_LINE) ELSE counter
  /\ meta' = IF cresp.ready THEN [meta EXCEPT ![dreq.addr.index][position] = FetchedMeta]
             ELSE meta
  /\ state' = IF cresp.last THEN "INIT" ELSE state
  /\ UNCHANGED <<age, lru_cnt, reset_cnt>>

\* The data RAM is written in every cycle of FETCH, ready or not.
Fetch(cresp) ==
  /\ ~reset /\ state = "FETCH"
  /\ ram' = [ram EXCEPT ![ram_addr] = cresp.data]
  /\ counter' = IF cresp.ready THEN Inc(counter, WORDS_PER_LINE) ELSE counter
  /\ IF cresp.last
     THEN /\ state' = "INIT"
          /\ meta' = [meta EXCEPT ![dreq.addr.index][position] = FetchedMeta]
     ELSE UNCHANGED <<state, meta>>
  /\ UNCHANGED <<age, lru_cnt, reset_cnt>>

\* Mutants: the end of a write-back, where it goes and when.
WritebackToInit(cresp) ==
  /\ ~reset /\ state = "WRITEBACK"
  /\ counter' = IF cresp.ready THEN Inc(counter, WORDS_PER_LINE) ELSE counter
  /\ state' = IF cresp.last THEN "INIT" ELSE state
  /\ UNCHANGED <<meta, ram, age, lru_cnt, reset_cnt>>

WritebackOneBeat(cresp) ==
  /\ ~reset /\ state = "WRITEBACK"
  /\ counter' = IF cresp.ready THEN Inc(counter, WORDS_PER_LINE) ELSE counter
  /\ state' = IF cresp.ready THEN "FETCH" ELSE state
  /\ UNCHANGED <<meta, ram, age, lru_cnt, reset_cnt>>

Writeback(cresp) ==
  /\ ~reset /\ state = "WRITEBACK"
  /\ counter' = IF cresp.ready THEN Inc(counter, WORDS_PER_LINE) ELSE counter
  /\ state' = IF cresp.last THEN "FETCH" ELSE state
  /\ UNCHANGED <<meta, ram, age, lru_cnt, reset_cnt>>

Uncached(cresp) ==
  /\ ~reset /\ state = "UNCACHED"
  /\ state' = IF cresp.last THEN "INIT" ELSE state
  /\ UNCHANGED <<counter, meta, ram, age, lru_cnt, reset_cnt>>

SameSet == reset_cnt   \* mutant
NextSet == Inc(reset_cnt, SET_NUM)

\* One cycle of reset clears one set, and only when it starts in INIT; the
\* writes of the data RAM and the end of a FETCH are not gated by reset.
Reset(cresp) ==
  /\ reset
  /\ state' = "INIT"
  /\ counter' = 0
  /\ lru_cnt' = 0
  /\ age' = [i \in Index |-> [w \in Way |-> 0]]
  /\ reset_cnt' = NextSet
  /\ meta' = [meta EXCEPT ![reset_cnt] = [w \in Way |->
                CASE state = "INIT" -> NoLine
                  [] state = "FETCH" /\ cresp.last /\ w = position -> FetchedMeta
                  [] OTHER -> @[w]]]
  /\ ram' = CASE state = "FETCH" -> [ram EXCEPT ![ram_addr] = cresp.data]
              [] state = "INIT" /\ hit_data_ok ->
                   [ram EXCEPT ![ram_addr] = Merge(ram_rdata, dreq.strobe, dreq.data)]
              [] OTHER -> ram

CacheEdge(cresp) ==
  \/ InitIdle
  \/ Hit
  \/ Miss
  \/ StartUncached
  \/ Fetch(cresp)
  \/ Writeback(cresp)
  \/ Uncached(cresp)
  \/ Reset(cresp)

-----------------------------------------------------------------------------
CacheTypeOK ==
  /\ reset \in BOOLEAN
  /\ dreq \in DReq
  /\ state \in {"INIT", "FETCH", "WRITEBACK", "UNCACHED"}
  /\ counter \in Offset
  /\ meta \in [Index -> [Way -> Meta]]
  /\ ram \in [Way \X Index \X Offset -> Word]
  /\ age \in [Index -> [Way -> Age]]
  /\ lru_cnt \in Age
  /\ reset_cnt \in Index
=============================================================================
