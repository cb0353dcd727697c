# A TLA+ project for the Arch-2022Spring-FDU processor

The repository holds a 64-bit RISC-V processor in SystemVerilog (`vsrc/`): a five-stage
in-order pipeline with CSRs, traps and interrupts, an instruction and a data cache, an arbiter
that shares one cache bus, the Verilator harness that drives and checks it (`verilate/`), and a
small FPGA system (`vivado/`).  The TLA+ modules here model its concurrent and stateful parts
at the level of clock edges, TLC checks them on small instances, and TLAPS proves the central
results for every instance.

## 1. Inventory

| Component | State it keeps | Operations | Talks to |
|---|---|---|---|
| `cache/DCache.sv` | FSM state, beat counter, meta RAM, data RAM, ages, reset counter | hit, miss, write-back, fetch, uncached access, reset | dbus port above, cache bus below |
| `cache/ICache.sv` | a DCache | translates ibus to dbus | fetch stage, arbiter |
| `ram/RAM_SinglePort.sv` | the array | combinational read, masked write | DCache |
| `util/CBusArbiter.sv` | busy, index | grant, hold, release | both caches, memory |
| `verilate/vsrc/cbus_device.cpp`, `axi.h`, `memory.cpp` | memory, the transaction | start, beat, reset | cache bus |
| `verilate/include/bus.h`, `cell.h`, `VCacheTop/mycache.*` | the request on the port, the queue of submitted tasks | load, store, expect, fence, cells, tick, reset | VCacheTop |
| `verilate/include/testbench.h`, `VCacheTop/cache_ref.cpp` | the reference memory | compared loads and stores | `bus.h` |
| `pipeline/core.sv`, `hazard`, `regfile/*reg.sv`, `forward` | pc and the registers F, D, E, M | advance, keep, bubble, forward | all stages |
| `pipeline/fetch`, `decode` | none | fetch, predict, decode, resolve branches | instruction cache |
| `pipeline/execute` | multiplier and divider FSMs | one- and many-cycle operations | hazard unit |
| `pipeline/memory` | the `valid` bit of an issued request | load, store, misalignment | data cache |
| `pipeline/csr`, `writeback` | the CSRs, the privilege mode | CSR access, trap, interrupt, mret | hazard unit, pc |
| `util/CBusToAXI.sv`, `SimpleArbiter.sv`, `CBusMultiplexer.sv` | issue flags, grant | bus adapters no top instantiates | - |
| `vivado/src/**` | BRAM delay counter, UART FSM | block RAM handshake, transmitter, crossbar | the core's bus |
| `verilate/vsrc/testbench.cpp`, `common.cpp` | the tests, their hooks, worker processes, status threads | run serially or in parallel, abort | pipes, signals |
| `verilate/vsrc/{model,confreg}.cpp` | text, trace, a device | simulation driver | the tops |

What is hard here.  Everything runs in the same clock, so the hard behaviour is in what may
hold in the *same cycle* and in values that are recomputed rather than stored: the cache
recomputes its victim and its bus request in every beat; the arbiter forwards a request it does
not latch; five stall and flush causes meet in the hazard unit; the divider iterates on
registers that a flush may clear; an interrupt is taken when a store has been performed.  The
harness adds what software adds: answers that arrive after the call that asked for them, worker
processes that may abort at any time, and threads that outlive their owner.  `PROJECT.json` lists
each of these hazards at its line with the properties that cover it, or why none does.

What makes each part correct:

* a cache is indistinguishable, at its port, from a plain memory, and every request is answered;
* the bus carries one transaction at a time, its request does not change, and both masters
  make progress;
* the pipeline commits the instructions of the sequential machine, in order, each once, with
  the same results, whatever stalls and flushes do;
* the divider returns quotient and remainder of *its* instruction;
* every other instruction returns what its definition says;
* the CSR file takes one trap at a time and returns to the instruction that was interrupted;
* the drivers give each load its own answer, in the order of the calls, and reject exactly wrong data;
* the testbench runs each test once, notices every failure, and ends.

## 2. Plan

1. `DCache`, `CBusDevice`, `MemoryPort`, `CacheSystem`, `CacheProofs` - the data cache over the
   simulated memory, its refinement of a plain memory, and the proofs.  *Done.*
2. `CBusArbiter` and `MemSystem`: two instances of `DCache`, the arbiter and one memory:
   exclusive grants, held requests, answers to the owner, progress of both sides.  *Done.*
3. `Multiplier`, `Divider` and `Execute`, the units in the stall and flush environment of the
   execute stage: the result belongs to the instruction in E; what a flush leaves behind.
   *Done.*
4. `Csr`, `Instructions`, `Isa` and `Pipeline`: hazard unit, registers, forwarding, branch
   resolution, memory stage and CSR flushes, refining a sequential machine at commit.  *Done
   without interrupts; with them only `NothingLost`.*
5. `Alu`: the one-cycle instructions and branch conditions against reference definitions.  *Done.*
6. `LoadOp` and `HarnessBus`: the drivers of the cache tests; `ThreadWorker` and `Testbench`: how
   tests are run.  *Done.*
7. `MemSystemProofs`, `PipelineProofs`, `ExecuteProofs`, `AluProofs`, `HarnessBusProofs`,
   `TestbenchProofs`: every safety property and every refinement the runs check, for all values of
   the constants.  *Done.*
8. `ByteMemory`, `MemoryStage` and `MemoryStageProofs`: the sizes, signs and byte lanes of loads and
   stores refine a memory of bytes.  *Done.*
9. A precise statement of interrupts; the UART and the block RAM wrapper.  *Left.*

Theorems worth proving: the cache invariant and its refinement; that each side of `MemSystem` is a
cache with the memory to itself, hence a plain memory at each port; that `Pipeline` commits what
`Isa` does; the divider's loop invariant and the products; that `HarnessBus` is a requester of
`MemoryPort` and its loads see program order; `RunOnce`, `Verdict` and `FlagAlive` for any number of
tests and workers; every one-cycle instruction for any width; that loads and stores are those of a
memory of bytes.  *All done.*  What would be worth having next: `Pipeline` composed with `Execute`,
`MemoryStage` and `MemSystem`, whose results it assumes.

## 3. Modules and code

### DCache.tla - `vsrc/cache/DCache.sv`

A step is one rising edge.  Registers of the module are variables (`state`, `counter`, `meta` =
`ram_meta`, `ram` = `ram_data`, `age`, `lru_cnt`, `reset_cnt`); the port `dreq` and `reset` are
variables too, the bus response of the cycle is an argument.  Combinational signals
(`meta_ram_rmeta`, `hit_data_ok`, `replaced_position`, `position`, `cur`, `cached_ok`, `dresp`,
`creq`) are operators of the same names.  Each branch of the FSM is an action: `InitIdle`, `Hit`,
`Miss`, `StartUncached`, `Fetch`, `Writeback`, `Uncached`, `Reset`; an action makes every write of
its cycle, also those made in other `always` blocks (the meta RAM, the data RAM, the ages).

Kept on purpose: a hit does not look at bit 31 of the address, so `StartUncached` writes a matching
line; FETCH writes the data RAM in cycles in which the device is not ready; the meta RAM is
addressed by `reset_cnt` during reset, and the data RAM and the end of a fetch are not gated by
reset; `lru_cnt` wraps to a negative number (`IncSigned`).

Abstracted: a word is a function from byte lanes to bytes, a tag is a model value.  Address bits
63:32 and the request's size are left out.  No branch of the cache depends on them: it passes the
size of an uncached request on to the bus (`DCache.sv:316`) and puts bits 63:31 of the request in
front of the address of every burst (`:317`), that of a written-back line included.

### CBusDevice.tla - `verilate/vsrc/cbus_device.cpp`, `include/axi.h`, `vsrc/memory.cpp`

`tx` is the `AXITransaction` (its beat number is `N`), `mem` the memory.  `StartTx`, `Beat` and
`NoRequest` are the cases of `eval_req` and `sync`; `Resp` is `eval_resp`.  In a cycle in which the
harness disables the device nothing moves and the response is empty.  `RequestHeld` is its
assertions, stated as a predicate that `CacheSystem` must keep true, never as a guard; the one on
the size of the request (`cbus_device.cpp:41`) is left out with that field.  A write changes the
strobed lanes; that the two table look-ups of `sync` (`:72-75`) mean just these lanes is `StrobeIsMask`
of `HarnessBusProofs`, as `cache_ref.cpp` makes the same ones.

### MemoryPort.tla - the abstract specification

One request at a time on a plain memory: `Perform` answers and changes memory at once, `Wait`
does nothing the port can see, `Down` is reset, which reloads the memory image.

### CacheSystem.tla - `vsrc/VCacheTop.sv` and its harness

Conjoins one edge of the cache, of the device and of the port (`Cycle(enable)`); `ResetCycle` is
an edge in reset, in which the harness clears the port and reloads the device.  Reset may be
asserted in any cycle and is held for `RESET_CYCLES`.  `answer` is what the requester latched.
`View` is the refinement mapping: at each address the cached copy, if a line that is not being
refilled holds one, and memory otherwise.

### CBusArbiter.tla - `vsrc/util/CBusArbiter.sv`

`busy` and `index` are the registers (`saved_req` is written and never used).  `oreq` forwards the
*live* request of the granted master and nothing while idle; `iresp` returns the response to that
master.  The branches of the `always_ff` are `Grant`, `Hold`, `Release` and `ArbiterReset`.

### MemSystem.tla - `vsrc/VTop.sv`, `vsrc/cache/ICache.sv`

The data cache is `DCache` itself (its unprefixed variables), the instruction cache is the
instance `I` whose variables begin with `i` and whose port is `IREQ_TO_DREQ(ireq)`.  One `Cycle`
is one edge of both caches, the arbiter, the memory and the core.  Of the core only what decides
its requests is kept: the pc (`ireq`), the request of the memory stage (`dreq`), the register F
(`dataF`), `csr_flush`, and what `hazard.sv` does with them:

* `Stall` (23-28): `dmem_wait`; everything stays, and a fetch answered in that cycle is made again;
* `Wait` (29-37 and 40-42): an earlier stage waits, or a branch in F goes elsewhere (`PCSel`) while
  the fetch goes on; F and the pc stay, a fetch answered is made again, E moves on;
* `Bubble` (38-39, 43-45): only the fetch waits; F gets a bubble;
* `Advance`: nothing waits; the pc goes on, and F takes the instruction or, with `PCSel` (46-47),
  drops it;
* `Flush` (49-71): `csr_flush` clears F and, unless it waits for its data, the request in E; the pc
  goes on unless `is_stall`.

So a fetch that is answered does not always reach F, and what is promised of it is stated at the
answer of the port (`FetchAnswered`); of F it is only promised that what it holds is code
(`FetchedIsCode`).  Which of these happens, which data requests are made, where branches go and when
a trap comes is left open, so the core does all that a program can make it do.  Left out: a
misaligned pc, for which `fetch.sv` makes no request.

`DataSide` and `FetchSide` are instances of `CacheSystem`: the same caches, seen as if each had
the memory alone.  The mapping hides a transaction of the other master (`dtx`, `itx`) and, for the
fetch side, the part of memory that holds no code (`imem`); cycles of the other master are the
cycles in which `CacheSystem`'s device is disabled.

### Registers.tla, Multiplier.tla, Divider.tla, Execute.tla - `vsrc/pipeline/execute`

Registers are numbers of `W = 4*Q` bits (`Q` is 16 in the code), so that halves (the `*W`
instructions) and quarters (the multiplier) keep their proportions.  `Divider` keeps `p` and `p32`
as pairs of words and the one-hot `count` as the number of shifts that empty it.  `Execute` holds
the instruction of register D with its operands and the bit `stalled`, computes magnitudes and
signs around the units (`ca`, `cb`, `cd`), and steps both units on every edge (`Units`) while the
register is kept (`Keep`), replaced (`Leave`) or cleared (`Flush`).  The units run on whatever D
holds, a bubble included, because the code does.

### Alu.tla - `execute/alu.sv`, `execute/execute.sv`, `decode/decoder.sv`, `decode/branchcomp.sv`

`alu` is the case statement of `alu.sv`, `ALUSel` the operation the decoder selects, `alu_result`
the operands `execute.sv` selects, `Branch` the comparison with the decoder's three bits.  `Meaning`
and `MeaningBits` say the same as numbers and as sets of bits.  There is no state: `AluRight` of
`Execute` quantifies over operands wherever such an instruction is in E.

### Csr.tla, Instructions.tla, Isa.tla, Pipeline.tla - `vsrc/pipeline`

`Csr` has the registers and what a trap, an interrupt, a CSR write and mret make of them.
`Instructions` is one instruction of each class the pipeline treats differently, what decode and
memory may find wrong with it, and what it computes.  `Isa` is the abstract machine: an action per
kind of instruction, each whole before the next.

In `Pipeline` the registers `pc`, `dataF`, `dataD`, `dataE`, `dataM`, the register file, the CSRs
and the bit `valid` of the memory stage are variables; `dataD_nxt`, `dataE_nxt`, `dataM_nxt`, `PCSel`,
`decode_wait`, `csr_flush`, `real_pc`, `wa`, `wd` are the signals of those names.  `hazard` is
`hazard.sv`: what each register does, given the waits.  A step is a clock cycle, `Cycle(i, d, x)`,
where `i`, `d` and `x` say whether the instruction bus, the data bus and the multi-cycle unit
answer in it.  `arch` and `instret` are history: registers and memory as of the last commit, and
the parity of the commits that `core.sv` reports to Difftest.  The refinement maps the pc of `Isa`
to `real_pc`, the oldest instruction in the machine.

Kept on purpose: after an indirect jump the jump itself is fetched again until it is resolved
(`predPC`); a branch is compared with what is being fetched, not with a prediction; a fetch at a
misaligned pc shows whatever the bus holds, which may be found illegal before it is found
misaligned; `wa` of a CSR instruction is written in each cycle of a stalled flush.

Abstracted: a word is a number below `Words`; the aligned addresses are `0 .. Slots - 1`, the words
above them are the misaligned ones; the offset of a branch is given as its target; the pc wraps at
the end of the slots. A garbage fetch is never a load or store. The result of a long instruction is
right (`Execute`; a flush during a division is the second finding). Code is not written by stores.
An instruction without a destination (store, branch, ecall, mret) has register 0 there. `Init` is
the machine after start-up code has set registers and `mtvec`, with an empty pipeline. An interrupt
line, once high, stays high until interrupts are disabled. mcause is written by traps but no CSR
instruction names it, although `csr.sv:55` and `:116` let one read and write it; mcycle, mip and
mtval are left out.

### ByteMemory.tla, MemoryStage.tla - `vsrc/pipeline/memory`

`ByteMemory` is the promise: an array of bytes, on which each load and store is performed whole when
its instruction leaves, or dropped behind one that flushes.  `MemoryStage` is `memory.sv` with
`readdata.sv` and `writedata.sv` between the registers E and M: `valid`, `flush`, `dreq_valid`,
`dmem_wait`, `memory_misalign`, `strobe`, `wd`, `sign_bit`, `rd` and `dataM_nxt` are the signals of
those names, and `lane` is what the cases over `addr[2:0]`, `addr[2:1]` and `addr[2]` have in common.
`Move`, `Hold` and `Flush` are what `hazard.sv` does to E and M; the bus below is a memory of words
that answers in some cycle, as `CacheSystem` is shown to be.

Abstracted: a size is its number of bytes; an instruction that is neither a load nor a store nor
flushes is a bubble here; what the stage passes on unchanged (`alu`, the pc) is left out.  A flush
comes from the instruction in M, as it does without interrupts; one that an interrupt makes while
an access is out lets the access end and drops its instruction, the hazard at `writeback.sv:44`.
Reset happens once, at the start.

### LoadOp.tla, HarnessBus.tla - `verilate/include/bus.h`, `cell.h`, `testbench.h`, `VCacheTop`

`LoadOp` is the class of that name, with `parse`, `strobe`, `mask`, `place` and `apply` over byte
lanes instead of tables.  `HarnessBus` has the bus (`mem`, `port`, `answer`), the queue `ongoing` of
`DBusPipelineGen`, the reference memory `ref`, and the host variables that are loaded into (`dest`,
`got`).  The calls of a test are actions: `Load`, `Store`, `Expect`, `Tick`, `Fence`, `Get` and
`Assign` (memory cells), `CompareLoad`, `CompareStore` and `RawStore` (the wrapper of `CMP_TO`;
`RawStore` is the `store` that takes a strobe, which the test "strobe" calls with all sixteen of half
a word, the empty one included); a call that
waits (`caller`) continues in `FenceTick`, `AwaitLoad` or `AwaitStore`, one tick a step.  `tick`
delivers the answer to the head of the queue and issues the next task, in that order.  An assertion
that fails sets `failed`, after which nothing moves: the program is aborted.  `model` and `want` are
history: memory as the calls so far leave it, and what each load should see.

Under the bus is `MemoryPort`'s promise, that a request held is answered in some cycle, which
`CacheSystem` is shown to keep; `PortIsMemory` shows the other half, that the harness is a
requester of that kind.  The two memories are written by different means: `mem` by
`PortMemory!Store`, the lanes of the strobe; `ref` by `Masked`, with the bytes that `StrobeMask` puts
together from the entries of `STROBE_TO_MASK` for the two `Nibble`s of the strobe, as
`cache_ref.cpp:79-84` does.  `NeverDiverges` compares them: a wrong entry, a wrong shift or the halves
the wrong way round violate it.

Abstracted: a mask is the set of its bytes that are `0xff` (the entries hold no others); bytes are
`0 .. 255`, and those of memory, of stored words and of the destinations are different as far as 256
values go (`Fresh`), which is further than a run goes, so a byte in a wrong place is seen; the
reference model's buffer of a line is not kept, because every call refills it; `check_internal` and
`check_memory` do nothing in this build; a synchronous access gives up after 128M ticks, which is
never modelled. Calls that leave the bus to the test are outside: `async_load` and `async_store`
without `await`, `clear` and bare ticks (`tests.inl:25-29`, `40-64`, `156-166`). Three of these
tests withdraw a request, two before a clock edge sees it and one (`"ad hoc"`) 2048 ticks after it
was issued, when it has been repeated many times; a port that withdraws requests is not the one of
`MemoryPort`, so `PortIsMemory` is not a statement about them.

### ThreadWorker.tla, Testbench.tla - `verilate/vsrc/common.cpp`, `testbench.cpp`

`ThreadWorker` is the detached thread that repeats a function until a flag on the heap is set, and
then deletes it; `misused` records a use after that.  `Testbench` is the process that runs the
tests one after the other (`RunSerial`, `Returns`, `Aborts`), or forks workers and serves them over
pipes (`Spawn`, `Select`, `Serve`, `Eof`, `Close`, `Reap`), and the workers (`Request`, `Receive`, `Run`,
`HangUp`, `Exit`).  A pipe is readable when it holds something or its writer has ended; a worker
sees the end of its own pipe only when the master and all workers forked later, which inherited
the other end, have closed it.  Which tests fail is chosen at the start.

Abstracted: `fork`, `pipe`, `read` and `write` do not fail, the hooks themselves do not either, and
looking whether a worker lives and killing it is one step.

### The proof modules and the MC modules

`CacheProofs`, `MemSystemProofs`, `PipelineProofs`, `ExecuteProofs`, `MemoryStageProofs`,
`HarnessBusProofs` and `TestbenchProofs` hold the theorems of section 5, each about the module it
extends; `AluProofs` goes on from `ExecuteProofs`.  `MCCacheSystem`, `MCMemSystem`, `MCPipeline`,
`MCMemoryStage` and `MCHarnessBus` give constants their values for TLC.

## 4. What TLC checks

| Run | Instance | Shows |
|---|---|---|
| `CacheTwoSets.cfg` | 2 sets, 2 ways, 2 words a line, 3 cached lines in one set and an uncached word of the other; `LRU_MAX = 0`, so `lru_cnt` wraps at once and keeps wrapping | types, unique tags, clean lines equal memory, held requests, stable victims, refinement of `MemoryPort`: conflict misses, dirty victims, bypassing, stalls at any beat, a reset in any cycle that clears every set |
| `CacheLru.cfg` | 1 set, 2 ways, 2 byte lanes, `LRU_MAX = 7`, no request after `lru_cnt` reaches 4; fairness | replacement follows the order of use until the counter wraps; stores to part of a word; every request is answered |
| `CacheAlias.cfg` | an uncached address that agrees with a cached line below bit 31 | the counterexample of the finding in `PROJECT.json` |
| `MemSystem.cfg` | caches of one line each, 2 words of one byte lane a line, two data lines, two code lines with a fetch of each; waits, redirections and flushes of the core in any cycle | the memory's assertions through the arbiter, F holds only code, and both sides implement `CacheSystem` |
| `MemProgress.cfg` | the same with a cached and an uncached data word; fairness | every fetch is answered with its word and every data request is answered, although the arbiter prefers data |
| `Execute.cfg` | `Q = 1` (4-bit registers, 2-bit halves), 4 dividends, 5 divisors, 2 factors; fairness | results are those of the M extension, also when the data cache holds the instruction; no bit of the remainder is lost; a finished unit does not start again; instructions leave E; the one-cycle instructions and branches on 4 values for each operand |
| `ExecuteFlush.cfg` | the same with a flush during a division | the counterexample of the second finding |
| `Pipeline.cfg` | 576 programs over 3 registers and 5 slots: 6 first, 12 second and 4 third instructions, a jump back and two trap handlers; fairness | commits are those of `Isa`, each reported once; memory is never ahead of them but for the store in M; no request is out for a flushed instruction; commits go on |
| `PipelineInt.cfg` | one program, the timer interrupt enabled | the counterexample of the third finding |
| `MemoryStage.cfg` | words of 8 bytes, 2 of them, addresses 0, 4, 6 and 11 with all sizes and signs; positive bytes at first, negative ones stored | refinement of `ByteMemory`: the right bytes, the right sign, each access once, none that is misaligned or flushed |
| `HarnessBus.cfg` | tests of 3 operations, 5 accesses of 1, 2, 4 and 8 bytes that overlap (one misaligned), 21 stores with a strobe: all 16 of a low half, 4 with holes in both halves, one of the upper half; fences with and without a limit; fairness | loads and expectations see the calls in order; the reference model agrees, every entry of its table is looked up; the harness holds its requests; waiting calls return |
| `Testbench.cfg` | 3 tests, any of which may fail, 1 to 3 workers; fairness | each test once; the verdict and the count are right; hooks run once; no deleted flag is used; everything ends |

Bounds of the caches.  Two ways and three lines that compete for them reach every transition of the
FSM, with clean and dirty victims; two words a line make first, last and middle beats differ; two
sets make the reset counter matter, because the lines are in the set it clears last.  `MAX_HITS`
bounds a counter that would otherwise make states differ for ever; where it wraps (`LRU_MAX = 0`)
it bounds nothing.  `RESET_CYCLES` is the least the proofs allow, `SET_NUM + 1`; the harness holds
reset for 100000 cycles.  In the two-cache runs the caches are as small as they can be, because
what they do alone is covered above and what matters is how their bursts meet: every miss of one
can meet every beat of the other.  One byte lane is enough there: the arbiter does not look at
strobes, stores to part of a word are in `CacheLru`, and the halves of a word that a fetch selects in
the theorems.  Data requests are any sequence of loads and stores, more than a
program can make.  Code and data lines are disjoint: the caches are not coherent, and a program
that writes code it then fetches is outside what they promise.  The machine is reset once, at the
start.

Bounds of execute.  The operands hold, in both widths, the most negative number, -1 as divisor,
zero divisors (also 4, of which only the low half is zero), and dividends with the top bit
set under unsigned division.  A division takes 6 cycles instead of 66.  Any instruction may
follow any other, or a flush, at once; in the code a flush takes a few cycles to refill the
pipeline, far fewer than a division.  In `Execute.cfg` a flush may come in
every cycle in which no division is going on (`FLUSH_DIVISION = FALSE`); the case left out is the
one `ExecuteFlush.cfg` refutes.

Bounds of the pipeline.  Three varying instructions followed by a jump fill the four registers
behind the pc, so that every pair and triple of classes meets in neighbouring stages, with every
combination of waits; since the programs loop, each also meets its own earlier round.  The programs
contain each hazard: a load used at once, a store or load behind a trap, a branch mispredicted
while the fetch waits, CSR writes that change the next trap, misaligned accesses and jumps.

Bounds of the memory stage.  The four addresses take every size, aligned and misaligned (an access of
eight bytes is aligned only at 0), in the low and high half of one word and at an odd byte of
another; all bytes differ.  A store of any instruction may follow one that flushes or waits.

Bounds of the harness.  Three operations are a task on the bus, one behind it and one submitted
while either is answered; a fence with a limit of 1 may time out or not.  With three workers one of
them can fail while another has a test and the third waits, and the chain of inherited pipe ends
has two links.  Both configurations say `CHECK_DEADLOCK FALSE`: these programs end.

Fairness.  `CacheLru` and `MemProgress` assume that a cycle with the device enabled happens again
and again (the harness disables it with a probability below one, and the clock does not stop) and
that a reset ends.  It is weak fairness of one action of the whole clock edge: nothing is assumed
about what the caches, the arbiter or the port do in that cycle.  `Execute` assumes that a cycle in
which the data cache does not hold the pipeline happens again and again, which `DataAnswered`
shows; nothing is assumed about when it happens relative to the end of a division.  `Pipeline`
assumes that each of the two buses and the multi-cycle unit answers again and again, which
`MemProgress` and `Execute` show, not that they answer together.  `HarnessBus` assumes that a request
held is answered (`EventuallyAnswered`) and that a call that can return does; nothing makes the test
call anything.  `Testbench` assumes that every process and thread is scheduled and that the body of
a test ends.

Each property of a passing run has a mutant in `PROJECT.json`: a change of one mapped definition
that a plausible bug would make, under which TLC finds the property violated.

## 5. What is proved

All theorems are for every value of the constants that satisfies the assumptions named with them;
the `ASSUME`s of the modules say only that sizes are positive, that sets of requests or programs
have members of the right type, and that reset is held longer than there are sets, and TLC
evaluates them in every run.

### CacheProofs - the data cache over its memory

For every number of sets, ways, words a line, byte lanes and tags, any memory image and any set of
stored words:

* `TypeCorrect` - `Spec => []TypeOK`, for any memory map;
* `Invariance` - `Spec => []IInv`, the inductive invariant;
* `TagsUnique`, `CleanLines`, `RequestsHeld` - the safety invariants the runs check;
* `ResetComplete`, `VictimsStand`, `HitsAreYoungest` - the action properties;
* `CacheIsMemory` - `Spec => AtomicMemory`, the refinement of `MemoryPort`.

All but `TypeCorrect` assume `NoAlias`: no uncached address shares tag and index with a cached one.
Without it the refinement is false, as `CacheAlias.cfg` shows.  `HitsAreYoungest` assumes `NoWrap`
as well: no more hits come between two resets than `lru_cnt` can count; beyond, the order is lost,
which is a hazard of the code.

Argument.  Unique tags and clean lines are not inductive: whether a beat of a fetch may complete
a line depends on the device being at the same beat, which depends on the request not having
moved.  `IInv` adds what ties the parts together.  `PortInv`: in a line transfer the
request is cached and matches nothing, and in a write-back no way is free.  `TxInv`: the device's
transaction is the one the cache is asking for, at beat `counter + 1`.  `CopyInv`: the part of the
line transferred so far agrees with memory.  `ResetInv`: a set cleared `n` cycles ago is empty,
which needs reset held one cycle longer than there are sets, because the first cycle may belong to
an unfinished transfer.  The victim stands still (`Stands`) because nothing it is computed from is
written between the miss and the last beat.  The refinement then goes case by case: a hit changes
one word of `View` (`ViewHit`), the last beat of an uncached access changes one word of memory that
no line holds (`ViewUncached`), the end of a write-back gives up a line that memory now equals
(`ViewWriteback`), and every other edge leaves `View` alone (`ViewWait`).  `LruInv`: no age exceeds
`lru_cnt`, which is what a hit then writes.

### MemSystemProofs - two caches, the arbiter, one memory

* `TypeCorrect` - no hypothesis; its parts are checked by TLC in the runs of the single cache;
* `DataIsAlone` - `Spec => DataSideAlone`: the data cache behind the arbiter implements the
  `CacheSystem` that has the memory to itself; no hypothesis;
* `FetchIsAlone` - the same for the instruction cache;
* `DataIsMemory`, `FetchIsMemory` - hence each port is a plain memory (`CacheIsMemory` applied to
  the instance);
* `FetchesCode`, `RequestsHeld` - `FetchedIsCode` and `BusHeld`.

Hypotheses: `DP!NoAlias` and `FP!NoAlias`, the cache's own, for each side; `Apart`, that no data
request shares a line with code, since the caches are not coherent; and `LRU_MAX < MAX_HITS`, which
takes the bound `MAX_HITS` of the model out of the way: the theorem is about unbounded runs.

Argument. `DP` and `FP` are `CacheProofs`, instantiated once for each side with the refinement
mapping of `MemSystem`. `BusInv` says what arbitration keeps: outside a grant there is no
transaction, the instruction cache never holds a dirty line or asks for a write, and in reset
nothing is asked for. From it each cycle is, for each side, a cycle of `CacheSystem`, in which the
device is disabled while the other side has the bus. The fetch side sees only the code part of
memory; that data writes stay out of it (`CodeInv`) needs the data cache's own invariant `DP!IInv`,
because a write-back writes the line a tag names and not the one a request does. What the core does
in a cycle is one fact (`CoreEdge`): a request that is not answered stays, and F is empty,
unchanged, or takes the answer. `MapInv` adds register F and the pc.

### PipelineProofs - the pipeline and the sequential machine

* `TypeCorrect` - no hypothesis, with interrupts or without;
* `Invariance`, `NoSpeculation`, `PreciseMemory` - `NoSpeculativeAccess` and `MemoryPrecise`;
* `PipelineIsSequential` - `Spec => Sequential`, the refinement of `Isa`, for every program.

Hypotheses.  `NoInterrupts`, as the third finding refutes the refinement with them.
`NoGarbageAccess`: what the bus shows at a misaligned pc is not a load or store, because
`decoder.sv:527` marks such a fetch as misaligned and does not cancel its access (a hazard in
`PROJECT.json`).

Argument. `IInv` reads the pipeline backwards: `arch` is the state of the last commit; what M holds
is the result of the oldest instruction executed on it, what E holds that of the next one executed
on the state M will leave (`RegsM`), and so on to the pc (`NextOf`). Where an older instruction is
about to flush (`FlushesE`, `FlushesD`) nothing is claimed about the younger registers, except that
no access of theirs is under way (`ValidInv`). One lemma says that forwarding yields the registers
of the state in which the instruction will execute. A cycle is then one of three: a flush from
write-back (`FlushCycle`), a cycle in which E and what is before it stand (`WaitCycle`), and one in
which they move (`MoveCycle`), each with its cases for branches, jumps and the load-use bubble.

### ExecuteProofs - multiplier and divider

For registers of every width `4*Q` and all operands:

* `TypeCorrect`, `NoRemainderBitLost`, `HeldStaysDone` - no hypothesis, through every flush;
* `DivisionExact` - `Spec => []DividerContract`: the divider returns `{a % b, a / b}`;
* `ResultsRight` - `Spec => []UnitsRight`: every multiplication and division leaves E with the value
  of the M extension.

The last two assume `FLUSH_DIVISION = FALSE`: no flush comes while a division is going on.  The
case left out is the one `ExecuteFlush.cfg` refutes.

Argument.  `Small`: after `n` shifts the high half is below `2^n`, in both widths, so the bit the shift
drops is clear as long as `n < W`; it needs no knowledge of the operands and therefore survives a
flush.  `DivisionInv`: after `n` of `w` shifts the register holds the remainder of the upper `n` digits of
the dividend, the rest of its digits, and the quotient's digits so far (`Digits`); a last step gives
quotient and remainder, which are unique (`DivModIs`).  `ProductInv`: the partial products are
those of the four quarters of each operand; ten of the sixteen are added with their weights and
the other six reach only bits that are dropped.  Signs: the magnitude the units work on is the
absolute value of the operand's signed or unsigned value.  Powers of two are the number of
subsets (`PowerAdd`), which replaces an induction.

### AluProofs - the one-cycle instructions

* `OneCycleRight` - `Spec => []AluRight`, for registers of every width, without hypotheses.

It rests on `AllRight`, which is about the operators alone: for all operands `alu_result` is
`Meaning` or `MeaningBits` of the instruction, and `Branch` the comparison as numbers.

Argument.  A word with given bits exists (`WordOfBits`), one bit after the other from the lowest; this
is an induction, and since the library's induction theorems take an operator, `Induction` derives
one for sets of numbers from the sizes of finite sets.  Sums, differences and left shifts are right
because addition and multiplication respect remainders (`Congruent`, `SumMod`, `TimesMod`); an
arithmetic shift to the right is division rounded down (`RoundedDown`); the 32-bit operations
compute in the full width and cut, which keeps the low half (`LowOfNumber`) for each of them but
the shift to the right, whose operand is cut first.

### MemoryStageProofs - loads and stores

For words of four or eight bytes, memories of any size, any addresses and data, without hypotheses:

* `TypeCorrect`;
* `StageIsByteMemory` - `Spec => ByteAddressed`, the refinement of `ByteMemory`.

Argument.  An aligned access of `s` bytes begins at a multiple of `s` in its word as well, and ends in
that word (`Rounded`), so its bytes are the lanes that `lane` and `size` name and no others
(`AlignedLanes`, `StrobedBytes`); from this a load reads (`LoadRight`) and a store writes
(`StoreRight`) its bytes.  The invariant is that there is no flush in the cycle after a request
(`ValidInv`): either the request is still out and M is empty, or M holds an access that did not trap.
Hence the test of `valid` in `flush` decides nothing without interrupts, and each cycle is an
instruction that ends, a wait, or what a flush drops.

### HarnessBusProofs - the drivers of the cache tests

For tests of any length, any accesses, any strobes and any limits on fences, without hypotheses:

* `TypeCorrect`, `Invariance`;
* `LoadsSeeProgramOrder`, `ExpectationsExact`, `ReferenceAgrees` - `LoadsRight`, `ExpectExact`,
  `NeverDiverges`;
* `HarnessIsRequester` - `Spec => PortIsMemory`: a request is held until it is answered, each answer
  is taken once.

Argument.  `Holds` says what the task at place `p` of the queue will find at a byte: what the last
store before it in the queue puts there, or else memory.  The invariant says that this is what the
operation wanted when it was called, and that the whole queue over memory makes `model`.  A
submitted task appends to the queue (`HoldsNext`), an answer removes its head and changes memory
by just that task (`HoldsShift`).  Tasks have increasing numbers, so an answer is delivered to the
variable of its own call.  In the compared mode the queue is empty between calls and `ref = mem`.
A store keeps that because the mask looked up for a strobe is its set of lanes (`StrobeIsMask`): each
of the sixteen entries holds the bytes of its index (`HalfMask`), and the two halves, the second
shifted by four bytes, are all eight lanes.

### TestbenchProofs - how tests are run

For any number of tests and workers, any set of failing tests, without hypotheses:

* `TypeCorrect`, `Invariance`;
* `RunsOnce`, `RightVerdict`, `HooksRunOnce`, `FlagsAlive` - `RunOnce`, `Verdict`, `HooksOnce`,
  `FlagAlive`.

Argument.  The invariant says in each phase of master and worker which pipe may hold what, so that
a test that was handed out and is not done is with exactly one worker, or on the way to it
(`PendingInv`).  The tests counted as passed and the workers that ended without being counted are
finite sets whose cardinalities add up to the counters of the program.  A flag is deleted by
its thread, after the owner has set it and let go of it, in that order.

### Only model-checked

* Liveness (`EventuallyAnswered`, `FetchAnswered`, `DataAnswered`, `LeavesExecute`, `Progress`,
  `CallsReturn`, `Ends`): it rests on fairness, which this prover does not handle.
* The three runs that expect a violation: counterexamples, for which TLC is the means.

## 6. Not modelled

* The vendored headers `verilate/include/thirdparty` (CLI11, nameof), nine thousand lines and most of
  what is C++ here, are somebody else's programs.
* Tracing, logging, statistics, comparison of text output and the command line: text and files.
* The confreg device and the SoC parts of `model.cpp`: the build of this repository never installs
  them.
* The bus adapters no top instantiates, and the unused reference cache at the end of `DCache.sv`.
* The FPGA system: its block RAM is a vendor macro without source (so is the one behind
  `RAM_SinglePort.sv`, of which the behavioural branch is modelled); the UART and the crossbar are
  left to the plan.
* In the core: the bit layout of immediates, mcycle, mip and mtval, mcause as the operand of a CSR
  instruction, and loads and stores with an
  illegal funct3, of which the decoder does not cancel the access.
* Interrupts beyond `NothingLost`.  The actions are there (`Csr`, `Pipeline`, `Isa!TakeInterrupt`), but
  a run that compares them with `Isa` stops at the third finding, and behind it are the store and the
  CSR instruction that are executed twice (`PROJECT.json`, hazards).
