----------------------------- MODULE HarnessBus -----------------------------
(***************************************************************************)
(* How the tests drive the data bus: the synchronous loads and stores of    *)
(* DBusGen compared with the reference model (verilate/include/bus.h,       *)
(* testbench.h, vsrc/VCacheTop/cache_ref.cpp), the queue of DBusPipelineGen *)
(* and the memory cells built on it (cell.h).  The cache is what            *)
(* CacheSystem shows it to be: a memory that answers one request in some    *)
(* cycle.  A step is a call of the test, or a tick.                         *)
(***************************************************************************)
EXTENDS LoadOp, Sequences, FiniteSets

CONSTANTS WORDS,     \* words of memory
          LINE,      \* words the reference model loads at a time: 16
          Accesses,  \* what the tests access: records of an address and a width
          RawStores, \* the stores made with a strobe: an address and its lanes
          CellWidths, \* the widths of memory cells
          Limits,    \* the bounds on ticks the tests give to fence
          MAX_OPS,   \* bound: operations in one test
          MEM, DIRT  \* what memory holds at first, and a host variable

Byte == 0..255
Word == [Lane -> Byte]

ASSUME BusAssumption ==
  /\ WORDS \in Nat \ {0} /\ LINE \in Nat \ {0} /\ WORDS % LINE = 0
  /\ Accesses \subseteq [addr : 0..(8 * WORDS - 1), width : Width]
  /\ RawStores \subseteq [addr : 0..(8 * WORDS - 1), strobe : SUBSET Lane]
  /\ CellWidths \subseteq {1, 2, 4} /\ Limits \subseteq Nat
  /\ MAX_OPS \in Nat
  /\ MEM \in [0..(WORDS - 1) -> Word]
  /\ DIRT \in Word

VARIABLES mem,      \* the memory behind the cache
          port,     \* the request on the bus
          answer,   \* what the last clock edge brought
          mode,     \* the kind of test that is running
          ongoing,  \* the queue of the pipeline
          caller,   \* the call the test waits in, and its argument
          ref,      \* the memory of the reference model
          dest,     \* the variables of the test that are loaded into
          got,      \* the value the last load or get returned
          failed,   \* the assertion that has ended the program, or "none"
          n,        \* the operations begun in this test
          model,    \* history: memory after the operations begun so far
          want      \* history: of each operation what it should see

busVars == <<mem, port, answer>>
vars == <<mem, port, answer, mode, ongoing, caller, ref, dest, got, failed, n, model, want>>

OpNo == 1..MAX_OPS
Index(addr) == addr \div 8

NoReq == [valid |-> FALSE, addr |-> 0, strobe |-> {}, data |-> Zero]
NoAnswer == [ok |-> FALSE, data |-> Zero]

\* Mutant: the address of a byte is taken for that of a word.
LoadByteAddress(addr) == [valid |-> TRUE, addr |-> addr, strobe |-> {}, data |-> Zero]

\* dbus_issue_load and dbus_issue_store.
LoadRequest(addr) == [valid |-> TRUE, addr |-> Index(addr), strobe |-> {}, data |-> Zero]
StoreRequest(addr, lanes, data) ==
  [valid |-> TRUE, addr |-> Index(addr), strobe |-> lanes, data |-> data]

\* What the cache promises of the bus, whatever the harness makes of its masks.
PortMemory == INSTANCE MemoryPort WITH
  Addr <- 0..(WORDS - 1), Lanes <- Lane, ZeroWord <- Zero, InitMem <- MEM,
  Requests <- [valid : {TRUE}, addr : 0..(WORDS - 1), strobe : SUBSET Lane, data : Word],
  amem <- IF mode = "none" THEN MEM ELSE mem,
  down <- mode = "none"

\* A clock edge of the bus: the cache answers, or it does not.
rdata == mem[port.addr]
Edge(data_ok) ==
  /\ data_ok => port.valid
  /\ mem' = IF data_ok THEN PortMemory!Store(mem, port) ELSE mem
  /\ answer' = IF data_ok THEN [ok |-> TRUE, data |-> IF port.strobe = {} THEN rdata ELSE Zero]
                          ELSE NoAnswer

Running(m) == mode = m /\ caller.at = "test" /\ failed = "none"
In(call) == caller.at = call /\ failed = "none"
Test == [at |-> "test", arg |-> -1, then |-> "test"]

\* asserts: the program is aborted.
Abort(reason) ==
  /\ failed' = reason
  /\ UNCHANGED <<busVars, mode, ongoing, caller, ref, dest, got, n, model, want>>

\* The n-th operation of a test begins; w is what it should see in program order.
Begin(w) == n' = n + 1 /\ want' = [want EXCEPT ![n + 1] = w]
First(a) == a.addr - (a.addr % a.width)
Seen(a) ==
  [k \in Lane |-> IF k < a.width THEN model[Index(a.addr)][(First(a) + k) % 8] ELSE 0]
Fresh == [k \in Lane |-> (8 * (n + 1) + k) % 256]
NoOp == [kind |-> "none", width |-> 0, data |-> Zero]
Storing(a, data) ==
  LET at(k) == 8 * Index(a.addr) + k - First(a)
  IN  model' = [model EXCEPT ![Index(a.addr)] =
                 [k \in Lane |-> IF at(k) \in 0..(a.width - 1) THEN data[at(k)] ELSE @[k]]]

-----------------------------------------------------------------------------
\* Before every test the cache and the device are reset; CMP_TO resets the
\* reference model, which no other test looks at.
StartTest(m) ==
  /\ mode = "none" /\ failed = "none"
  /\ mode' = m
  /\ mem' = MEM /\ model' = MEM
  /\ port' = NoReq /\ answer' = NoAnswer
  /\ ref' = MEM
  /\ n' = 0 /\ want' = [i \in OpNo |-> NoOp]
  /\ dest' = [i \in OpNo |-> DIRT] /\ got' = Zero
  /\ UNCHANGED <<ongoing, caller, failed>>

-----------------------------------------------------------------------------
\* DBusPipelineGen: a task of the queue; dest is the number of its variable,
\* or 0 for NULL, and id is history.
Task(addr, lanes, data, d, op) ==
  [addr |-> addr, strobe |-> lanes, data |-> data, dest |-> d, load_op |-> op, id |-> n + 1]
is_load(t) == t.strobe = {}

Issued(t) == IF is_load(t) THEN LoadRequest(t.addr) ELSE StoreRequest(t.addr, t.strobe, t.data)

\* Mutant: every submitted task is issued at once.
SubmitIssue(t) == ongoing' = Append(ongoing, t) /\ port' = Issued(t) /\ answer' = NoAnswer

submit(t) ==
  /\ ongoing' = Append(ongoing, t)
  /\ IF port.valid THEN UNCHANGED <<port, answer>>
                   ELSE port' = Issued(t) /\ answer' = NoAnswer

Aligned(a) == a.addr % a.width = 0

\* loadd, loadw, loadh, loadb.
Load(a) ==
  /\ Running("pipeline") /\ n < MAX_OPS
  /\ IF ~Aligned(a) THEN Abort("alignment")
     ELSE /\ submit(Task(a.addr, {}, Zero, n + 1, parse(a.width, a.addr)))
          /\ Begin([kind |-> "load", width |-> a.width, data |-> Seen(a)])
          /\ UNCHANGED <<mem, mode, caller, ref, dest, got, failed, model>>

\* stored, storew, storeh, storeb; and a cell that is set to what was got.
Store(a, data) ==
  /\ Running("pipeline") /\ n < MAX_OPS
  /\ IF ~Aligned(a) THEN Abort("alignment")
     ELSE LET op == parse(a.width, a.addr) IN
          /\ submit(Task(a.addr, strobe(op), place(op, data), 0, SIZE8_SHT0))
          /\ Begin([kind |-> "store", width |-> a.width, data |-> data])
          /\ Storing(a, data)
          /\ UNCHANGED <<mem, mode, caller, ref, dest, got, failed>>

\* expectd, expectw, expecth, expectb.
Expect(a, data) ==
  /\ Running("pipeline") /\ n < MAX_OPS
  /\ IF ~Aligned(a) THEN Abort("alignment")
     ELSE LET op == parse(a.width, a.addr)
              right == Truncate(a.width, data) = Truncate(a.width, Seen(a))
          IN
          /\ submit(Task(a.addr, {}, place(op, data), 0, op))
          /\ Begin([kind |-> IF right THEN "right" ELSE "wrong", width |-> a.width, data |-> data])
          /\ UNCHANGED <<mem, mode, caller, ref, dest, got, failed, model>>

\* tick: the answer goes to the head of the queue, the next task to the bus.
Deliver(u) ==
  /\ dest' = IF u.dest # 0
             THEN [dest EXCEPT ![u.dest] = apply_to(u.load_op, rdata, @)] ELSE dest
  /\ failed' = IF /\ u.dest = 0 /\ is_load(u)
                  /\ \E k \in mask(u.load_op) : u.data[k] # rdata[k]
               THEN "expect" ELSE failed

tick(data_ok) ==
  /\ Edge(data_ok)
  /\ IF ~data_ok THEN UNCHANGED <<ongoing, dest, failed>>
     ELSE IF ongoing = <<>>
     THEN failed' = "internal" /\ UNCHANGED <<ongoing, dest>>
     ELSE Deliver(Head(ongoing)) /\ ongoing' = Tail(ongoing)
  /\ port' = IF ongoing' = <<>> THEN NoReq ELSE Issued(Head(ongoing'))
  /\ UNCHANGED <<mode, ref, got, n, model, want>>

Tick(data_ok) == Running("pipeline") /\ tick(data_ok) /\ UNCHANGED caller

\* fence, by the test, by a memory cell (without a limit: -1), or when the
\* pipeline is destructed.
Fence(limit) ==
  /\ Running("pipeline")
  /\ caller' = [at |-> "fence", arg |-> limit, then |-> "test"]
  /\ UNCHANGED <<busVars, mode, ongoing, ref, dest, got, failed, n, model, want>>

EndPipeline ==
  /\ Running("pipeline")
  /\ caller' = [at |-> "fence", arg |-> -1, then |-> "end"]
  /\ UNCHANGED <<busVars, mode, ongoing, ref, dest, got, failed, n, model, want>>

\* Mutant: a fence ticks only while it has a limit.
FenceTickLimited(data_ok) ==
  /\ In("fence") /\ ongoing # <<>> /\ caller.arg > 0
  /\ tick(data_ok)
  /\ caller' = [caller EXCEPT !.arg = @ - 1]

FenceTick(data_ok) ==
  /\ In("fence") /\ ongoing # <<>> /\ caller.arg # 0
  /\ tick(data_ok)
  /\ caller' = [caller EXCEPT !.arg = IF @ > 0 THEN @ - 1 ELSE @]

FenceTimeout == In("fence") /\ ongoing # <<>> /\ caller.arg = 0 /\ Abort("fence")

FenceDone ==
  /\ In("fence") /\ ongoing = <<>>
  /\ got' = IF caller.then = "get" THEN Truncate(want[n].width, dest[n]) ELSE got
  /\ mode' = IF caller.then = "end" THEN "none" ELSE mode
  /\ caller' = Test
  /\ answer' = NoAnswer
  /\ UNCHANGED <<mem, port, ongoing, ref, dest, failed, n, model, want>>

\* MemoryCellGen::get: a load into a local variable and a fence.
Get(a) ==
  /\ Running("pipeline") /\ n < MAX_OPS /\ Aligned(a) /\ a.width \in CellWidths
  /\ submit(Task(a.addr, {}, Zero, n + 1, parse(a.width, a.addr)))
  /\ Begin([kind |-> "load", width |-> a.width, data |-> Seen(a)])
  /\ caller' = [at |-> "fence", arg |-> -1, then |-> "get"]
  /\ UNCHANGED <<mem, mode, ref, dest, got, failed, model>>

\* MemoryCellGen::set, with the value of another cell converted to its type.
Assign(a) == a.width \in CellWidths /\ Aligned(a) /\ Store(a, Truncate(a.width, got))

-----------------------------------------------------------------------------
\* The wrapper of CMP_TO: DBusGen::load or store, then the reference model.
Line(m, addr) ==
  LET start == Index(addr) - (Index(addr) % LINE) IN [i \in 0..(LINE - 1) |-> m[start + i]]

CompareLoad(a) ==
  /\ Running("compare") /\ n < MAX_OPS
  /\ port' = LoadRequest(a.addr) /\ answer' = NoAnswer
  /\ Begin([kind |-> "load", width |-> a.width, data |-> Seen(a)])
  /\ caller' = [at |-> "load", arg |-> a.addr, then |-> "test"]
  /\ UNCHANGED <<mem, mode, ongoing, ref, dest, got, failed, model>>

\* store: the strobe is the caller's.  One without lanes is a load to the bus.
SyncStore(addr, lanes, data, width) ==
  /\ Running("compare") /\ n < MAX_OPS
  /\ port' = StoreRequest(addr, lanes, data) /\ answer' = NoAnswer
  /\ caller' = [at |-> "store", arg |-> addr, then |-> "test"]
  /\ Begin([kind |-> "store", width |-> width, data |-> Fresh])
  /\ UNCHANGED <<mem, mode, ongoing, ref, dest, got, failed>>

\* stored, storew, storeh, storeb.
CompareStore(a) ==
  LET op == parse(a.width, a.addr)
  IN  SyncStore(a.addr, strobe(op), place(op, Fresh), a.width) /\ Storing(a, Fresh)

\* store called by the test with a strobe of its own.
RawStore(r) ==
  /\ SyncStore(r.addr, r.strobe, Fresh, 8)
  /\ model' = PortMemory!Store(model, StoreRequest(r.addr, r.strobe, Fresh))

\* await: a tick; the request is cleared when it has been answered.
Awaits(data_ok) ==
  /\ Edge(data_ok)
  /\ port' = IF data_ok THEN NoReq ELSE port
  /\ caller' = IF data_ok THEN Test ELSE caller
  /\ UNCHANGED <<mode, ongoing, n, model, want>>

\* loadd, loadw, loadh, loadb: what the reference loads is a whole word.
AwaitLoad(data_ok) ==
  /\ In("load") /\ Awaits(data_ok)
  /\ LET addr == caller.arg
         op == parse(want[n].width, addr)
     IN  IF data_ok
         THEN /\ failed' = IF rdata = Line(ref, addr)[Index(addr) % LINE] THEN failed ELSE "compare"
              /\ got' = Truncate(op.size, apply(op, rdata))
              /\ dest' = [dest EXCEPT ![n] = apply_to(op, rdata, @)]
         ELSE UNCHANGED <<failed, got, dest>>
  /\ UNCHANGED ref

\* The masks of half a strobe, each as the set of its bytes that are ones, from
\* 0b0000 on; and a mutant in which that of 0b0101 is wrong.
HalfMasksTypo ==
  <<{}, {0}, {1}, {0, 1}, {2}, {0, 3}, {1, 2}, {0, 1, 2},
    {3}, {0, 3}, {1, 3}, {0, 1, 3}, {2, 3}, {0, 2, 3}, {1, 2, 3}, {0, 1, 2, 3}>>
STROBE_TO_MASK ==
  <<{}, {0}, {1}, {0, 1}, {2}, {0, 2}, {1, 2}, {0, 1, 2},
    {3}, {0, 3}, {1, 3}, {0, 1, 3}, {2, 3}, {0, 2, 3}, {1, 2, 3}, {0, 1, 2, 3}>>

\* (strobe >> shift) & 0xf, of a strobe given by its lanes.
Nibble(lanes, shift) ==
  LET bit(k) == IF shift + k \in lanes THEN 1 ELSE 0
  IN  bit(0) + 2 * bit(1) + 4 * bit(2) + 8 * bit(3)

\* The bytes of (mask2 << 32) | mask1.
StrobeMask(lanes) ==
  STROBE_TO_MASK[Nibble(lanes, 0) + 1]
    \cup {k + 4 : k \in STROBE_TO_MASK[Nibble(lanes, 4) + 1]}

\* BlockMemory::store: (value & ~mask) | (data & mask).
Masked(m, i, bytes, data) ==
  [m EXCEPT ![i] = [k \in Lane |-> IF k \in bytes THEN data[k] ELSE @[k]]]

AwaitStore(data_ok) ==
  /\ In("store") /\ Awaits(data_ok)
  /\ ref' = IF data_ok
            THEN Masked(ref, Index(caller.arg), StrobeMask(port.strobe), port.data)
            ELSE ref
  /\ UNCHANGED <<dest, got, failed>>

EndCompare ==
  /\ Running("compare")
  /\ mode' = "none" /\ answer' = NoAnswer
  /\ UNCHANGED <<mem, port, ongoing, caller, ref, dest, got, failed, n, model, want>>

-----------------------------------------------------------------------------
Init ==
  /\ mem = MEM /\ model = MEM /\ ref = MEM
  /\ port = NoReq /\ answer = NoAnswer
  /\ mode = "none" /\ caller = Test /\ failed = "none"
  /\ ongoing = <<>>
  /\ dest = [i \in OpNo |-> DIRT] /\ got = Zero
  /\ n = 0 /\ want = [i \in OpNo |-> NoOp]

Operation(a) ==
  \/ Load(a) \/ Store(a, Fresh) \/ Expect(a, Fresh) \/ Expect(a, Seen(a))
  \/ Get(a) \/ Assign(a) \/ CompareLoad(a) \/ CompareStore(a)

Next ==
  \/ \E m \in {"pipeline", "compare"} : StartTest(m)
  \/ \E a \in Accesses : Operation(a)
  \/ \E r \in RawStores : RawStore(r)
  \/ \E limit \in Limits \cup {-1} : Fence(limit)
  \/ EndPipeline \/ FenceTimeout \/ FenceDone \/ EndCompare
  \/ \E ok \in BOOLEAN : Tick(ok) \/ FenceTick(ok) \/ AwaitLoad(ok) \/ AwaitStore(ok)

Spec == Init /\ [][Next]_vars

\* The cache answers a request that is held (EventuallyAnswered), and a call
\* that can return does.
Fairness ==
  /\ WF_vars(FenceTick(TRUE)) /\ WF_vars(FenceDone) /\ WF_vars(FenceTimeout)
  /\ WF_vars(AwaitLoad(TRUE)) /\ WF_vars(AwaitStore(TRUE))

FairSpec == Spec /\ Fairness

-----------------------------------------------------------------------------
TypeOK ==
  /\ mem \in [0..(WORDS - 1) -> Word] /\ ref \in [0..(WORDS - 1) -> Word]
  /\ port.addr \in 0..(WORDS - 1) /\ port.strobe \subseteq Lane /\ port.data \in Word
  /\ dest \in [OpNo -> Word] /\ got \in Word
  /\ Len(ongoing) <= n /\ n <= MAX_OPS

\* The harness is a requester the cache is verified for: it holds a request
\* until it is answered, and takes every answer once (MemoryPort).
PortIsMemory == PortMemory!Spec

Waits(i) == \E t \in 1..Len(ongoing) : ongoing[t].id = i
Returned(i) == i <= n /\ ~Waits(i) /\ ~(i = n /\ In("load"))

\* Every variable holds what its load should see in the order of the calls,
\* and not a byte beside it has changed.
LoadsRight ==
  \A i \in OpNo : want[i].kind = "load" /\ Returned(i) =>
    dest[i] = [k \in Lane |-> IF k < want[i].width THEN want[i].data[k] ELSE DIRT[k]]

\* An expectation ends the test exactly if it is wrong in the order of the calls.
ExpectExact ==
  (failed = "expect") <=> (\E i \in OpNo : want[i].kind = "wrong" /\ Returned(i))

\* The reference model, with its masks, never disagrees with the cache, with its
\* lanes, whatever strobes the tests store with; nor the queue with the bus.
NeverDiverges ==
  /\ failed \notin {"compare", "internal"}
  /\ mode = "compare" /\ caller.at = "test" => ref = mem

\* Every fence and every synchronous access returns.
CallsReturn == caller.at # "test" ~> (caller.at = "test" \/ failed # "none")
=============================================================================
