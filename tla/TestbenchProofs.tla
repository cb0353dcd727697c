-------------------------- MODULE TestbenchProofs --------------------------
(***************************************************************************)
(* Proofs about Testbench, for every number of tests and of workers and     *)
(* every set of tests that fail.                                            *)
(***************************************************************************)
EXTENDS Testbench, FiniteSetTheorems, TLAPS

States == {"none", "request", "wait", "run", "exit", "dead", "reaped"}
Phases == {"serial", "testing", "spawn", "select", "scan", "reap", "done", "aborted"}
Commands == {<<>>} \cup {<<c>> : c \in Tests \cup {-1}}

TypeInv ==
  /\ n_workers \in 1..MAX_WORKERS /\ failing \subseteq Tests
  /\ pc \in Phases /\ i \in Nat
  /\ dispatched \in 0..total /\ exited \in Nat /\ passed \in Nat
  /\ failed \in BOOLEAN /\ master \in BOOLEAN
  /\ first \subseteq Workers /\ worker \subseteq Workers /\ ready \subseteq Workers
  /\ state \in [Workers -> States] /\ task \in [Workers -> Tests \cup {-1}]
  /\ requests \in [Workers -> {0, 1}] /\ commands \in [Workers -> Commands]
  /\ killed \subseteq Workers
  /\ runs \in [Tests -> {0, 1}] /\ hooks \in [Tests -> {0, 1}]

-----------------------------------------------------------------------------
\* A status thread and its owner agree on who may still use the flag.
FlagInv ==
  /\ ~misused
  /\ thread \in [Tests -> {"none", "check", "fn", "sleep", "final", "gone"}]
  /\ flag \in [Tests -> {"none", "false", "true", "freed"}]
  /\ stopped \in [Tests -> BOOLEAN]
  /\ \A t \in Tests :
       /\ flag[t] = "false" <=> ~stopped[t]
       /\ thread[t] \in {"check", "fn", "sleep"} => flag[t] \in {"false", "true"}
       /\ thread[t] = "final" => flag[t] = "true"

\* One process: the tests before i have passed, test i may be going on.
SerialInv ==
  n_workers = 1 =>
    /\ pc \in {"serial", "testing", "aborted", "done"}
    /\ worker = {} /\ ~failed /\ killed = {} /\ dispatched = 0 /\ exited = 0
    /\ i <= total /\ (pc = "done" => i = total)
    /\ pc \in {"testing", "aborted"} => i < total
    /\ \A j \in Workers :
         state[j] = "none" /\ task[j] = -1 /\ requests[j] = 0 /\ commands[j] = <<>>
    /\ \A t \in Tests :
         /\ runs[t] = IF t < i \/ (t = i /\ pc \in {"testing", "aborted"}) THEN 1 ELSE 0
         /\ hooks[t] = IF t < i \/ (t = i /\ pc = "aborted") THEN 1 ELSE 0
         /\ t < i => t \notin failing

\* Several: how far the master is, and what it knows.
MasterInv ==
  n_workers > 1 =>
    /\ pc \in {"spawn", "select", "scan", "reap", "done"}
    /\ pc = "spawn" => i < n_workers /\ worker = 1..i /\ first = 1..i /\ exited = 0
    /\ pc \in {"scan", "reap"} => i \in Workers
    /\ pc \in {"select", "scan"} => master
    /\ pc \in {"spawn", "scan"} => ~failed
    /\ pc \in {"reap", "done"} => ~master
    /\ pc \in {"reap", "done"} /\ ~failed => exited = n_workers
    /\ failed => failing # {}
    /\ exited > 0 => dispatched = total

\* Each worker has been let go or its pipe is open.
ExitInv == n_workers > 1 /\ pc # "spawn" => exited + Cardinality(worker) = n_workers

\* Workers are forked and reaped in order, and work while the pipes are open.
StateInv ==
  n_workers > 1 => \A j \in Workers :
    /\ state[j] = "none" <=> pc = "spawn" /\ j > i
    /\ state[j] = "reaped" <=> pc = "done" \/ (pc = "reap" /\ j < i)
    /\ state[j] # "none" => master \/ pc \in {"reap", "done"}

\* What select has found readable is so until it is read.
ReadyInv ==
  n_workers > 1 /\ pc = "scan" => \A j \in ready :
    j >= i => j \in worker /\ (requests[j] = 1 \/ state[j] = "dead")

\* What is on the way between the master and worker j.
WorkerOK(j) ==
  /\ requests[j] = 1 =>
       /\ commands[j] = <<>>
       /\ state[j] = "wait" \/ (~master /\ state[j] \in {"exit", "dead", "reaped"})
  /\ commands[j] # <<>> => state[j] \in {"wait", "reaped"}
  /\ state[j] = "run" => task[j] # -1
  /\ task[j] # -1 => state[j] = "run" \/ (state[j] = "reaped" /\ j \in killed)
  /\ commands[j] = <<-1>> => j \notin worker
  /\ state[j] \in {"exit", "dead"} => j \notin worker \/ ~master \/ failing # {}
  /\ state[j] = "exit" => j \notin worker \/ ~master
WorkerInv == \A j \in Workers : WorkerOK(j)

\* A test is not sent, on the way, running, or over; no two workers have it.
RanInv ==
  \A t \in Tests :
    /\ hooks[t] <= runs[t]
    /\ n_workers > 1 /\ runs[t] = 1 => t < dispatched
    /\ n_workers > 1 /\ hooks[t] # runs[t] => \E j \in Workers : task[j] = t
SentInv ==
  \A j \in Workers : \A t \in Tests :
    /\ commands[j] = <<t>> => t < dispatched /\ runs[t] = 0 /\ j \in worker \ first
    /\ task[j] = t => runs[t] = 1 /\ hooks[t] = 0 /\ j \in worker \ first
UniqueInv ==
  \A j, k \in Workers : \A t \in Tests :
    /\ commands[j] = <<t>> /\ commands[k] = <<t>> => j = k
    /\ task[j] = t /\ task[k] = t => j = k

\* A test that was sent has passed, or the worker it was sent to is not yet
\* let go.
Lost(j) == state[j] \in {"dead", "reaped"} /\ requests[j] = 0 /\ commands[j] = <<>>
PendingInv ==
  \A t \in Tests : t < dispatched =>
    \/ hooks[t] = 1 /\ t \notin failing
    \/ \E j \in worker : commands[j] = <<t>> \/ task[j] = t \/ Lost(j)

\* The tests that have passed are counted, or about to be.
Passed == {t \in Tests : hooks[t] = 1} \ failing
Uncounted == {j \in worker \ first : state[j] = "request" \/ requests[j] = 1}
CountInv ==
  /\ passed + Cardinality(Uncounted) <= Cardinality(Passed)
  /\ ~failed => passed + Cardinality(Uncounted) = Cardinality(Passed)

IInv ==
  /\ TypeInv /\ FlagInv /\ SerialInv
  /\ MasterInv /\ ExitInv /\ StateInv /\ ReadyInv
  /\ WorkerInv /\ RanInv /\ SentInv /\ UniqueInv /\ PendingInv /\ CountInv

-----------------------------------------------------------------------------
(* Lemmas the steps share.                                                  *)

\* The ranges of workers and tests.
LEMMA Sizes ==
  ASSUME TypeInv
  PROVE  /\ total \in Nat /\ n_workers \in Nat /\ n_workers >= 1
         /\ Workers = 1..n_workers
         /\ \A t : t \in Tests <=> t \in Nat /\ t < total
BY TestbenchAssumption DEF TypeInv, Workers, Tests

\* What is counted is finite.
LEMMA Finite ==
  ASSUME TypeInv
  PROVE  /\ IsFiniteSet(worker) /\ Cardinality(worker) \in Nat
         /\ IsFiniteSet(Uncounted) /\ Cardinality(Uncounted) \in Nat
         /\ IsFiniteSet(Passed) /\ Cardinality(Passed) \in Nat
         /\ IsFiniteSet(Tests) /\ Cardinality(Tests) = total
<1>1. IsFiniteSet(1..n_workers) /\ IsFiniteSet(Tests) /\ Cardinality(Tests) = total
  <2>1. n_workers \in Int /\ total - 1 \in Int /\ total \in Nat
    BY Sizes
  <2>2. IsFiniteSet(1..n_workers)
    BY <2>1, FS_Interval
  <2>3. IsFiniteSet(Tests) /\ Cardinality(Tests) = IF 0 > total - 1 THEN 0 ELSE total - 1 - 0 + 1
    BY <2>1, FS_Interval DEF Tests
  <2>. QED  BY <2>1, <2>2, <2>3
<1>2. worker \in SUBSET (1..n_workers) /\ Passed \in SUBSET Tests
  BY Sizes DEF TypeInv, Passed
<1>3. IsFiniteSet(worker) /\ IsFiniteSet(Passed)
  BY <1>1, <1>2, FS_Subset
<1>4. Uncounted \in SUBSET worker
  BY DEF Uncounted
<1>5. IsFiniteSet(Uncounted)
  BY <1>3, <1>4, FS_Subset
<1>. QED  BY <1>1, <1>3, <1>5, FS_CardinalityType

\* A part of the invariant is kept by a step that changes nothing it is about.
LEMMA Frames ==
  ASSUME n_workers' = n_workers, failing' = failing
  PROVE  /\ FlagInv /\ UNCHANGED threadVars => FlagInv'
         /\ ExitInv /\ UNCHANGED <<pc, exited, worker>> => ExitInv'
         /\ WorkerInv /\ UNCHANGED <<requests, commands, state, task, master, killed, worker>>
              => WorkerInv'
         /\ RanInv /\ UNCHANGED <<hooks, runs, dispatched, task>> => RanInv'
         /\ SentInv /\ UNCHANGED <<hooks, runs, dispatched, task, commands, worker, first>>
              => SentInv'
         /\ UniqueInv /\ UNCHANGED <<task, commands>> => UniqueInv'
         /\ PendingInv /\ UNCHANGED <<dispatched, hooks, worker, commands, task, state, requests>>
              => PendingInv'
         /\ CountInv /\ UNCHANGED <<passed, failed, worker, first, state, requests, hooks>>
              => CountInv'
<1>1. Workers' = Workers
  BY DEF Workers
<1>2. FlagInv /\ UNCHANGED threadVars => FlagInv'
  BY DEF FlagInv, threadVars
<1>3. ExitInv /\ UNCHANGED <<pc, exited, worker>> => ExitInv'
  BY DEF ExitInv
<1>4. WorkerInv /\ UNCHANGED <<requests, commands, state, task, master, killed, worker>> => WorkerInv'
  BY <1>1 DEF WorkerInv, WorkerOK
<1>5. RanInv /\ UNCHANGED <<hooks, runs, dispatched, task>> => RanInv'
  BY <1>1 DEF RanInv
<1>6. SentInv /\ UNCHANGED <<hooks, runs, dispatched, task, commands, worker, first>> => SentInv'
  BY <1>1 DEF SentInv
<1>7. UniqueInv /\ UNCHANGED <<task, commands>> => UniqueInv'
  BY <1>1 DEF UniqueInv
<1>8. PendingInv /\ UNCHANGED <<dispatched, hooks, worker, commands, task, state, requests>>
        => PendingInv'
  BY <1>1 DEF PendingInv, Lost
<1>9. CountInv /\ UNCHANGED <<passed, failed, worker, first, state, requests, hooks>> => CountInv'
  BY <1>1 DEF CountInv, Passed, Uncounted
<1>. QED  BY <1>2, <1>3, <1>4, <1>5, <1>6, <1>7, <1>8, <1>9

\* What is known when the tests run in this process.
LEMMA OneProcess ==
  ASSUME IInv, n_workers = 1 \/ pc \in {"serial", "testing"}
  PROVE  /\ n_workers = 1 /\ Uncounted = {} /\ passed = Cardinality(Passed)
         /\ i \in Nat /\ i <= total /\ (pc = "testing" => i \in Tests)
<1>1. n_workers = 1
  BY Sizes DEF IInv, MasterInv
<1>2. i \in Nat /\ i <= total /\ (pc = "testing" => i \in Tests)
  BY <1>1, Sizes DEF IInv, SerialInv, TypeInv
<1>3. worker = {} /\ ~failed
  BY <1>1 DEF IInv, SerialInv
<1>4. Uncounted = {}
  BY <1>3 DEF Uncounted
<1>5. passed = Cardinality(Passed)
  <2>1. passed + Cardinality(Uncounted) = Cardinality(Passed) /\ passed \in Nat
    BY <1>3 DEF IInv, CountInv, TypeInv
  <2>. QED  BY <1>4, <2>1, FS_EmptySet
<1>. QED  BY <1>1, <1>2, <1>4, <1>5

\* In one process, only types, tests, flags and the count can go wrong.
LEMMA SerialKeeps ==
  ASSUME IInv, n_workers = 1, UNCHANGED <<n_workers, failing, workerVars, worker, dispatched>>,
         SerialInv', TypeInv'
  PROVE  /\ MasterInv' /\ ExitInv' /\ StateInv' /\ ReadyInv'
         /\ WorkerInv' /\ RanInv' /\ SentInv' /\ UniqueInv' /\ PendingInv'
<1>1. n_workers' = 1 /\ ~(n_workers' > 1) /\ Workers' = Workers /\ dispatched' = 0
  BY DEF IInv, SerialInv, Workers
<1>2. \A j \in Workers' : /\ state'[j] = "none" /\ task'[j] = -1
                          /\ requests'[j] = 0 /\ commands'[j] = <<>>
  BY <1>1 DEF SerialInv
<1>3. MasterInv' /\ ExitInv' /\ StateInv' /\ ReadyInv'
  BY <1>1 DEF MasterInv, ExitInv, StateInv, ReadyInv
<1>4. WorkerInv' /\ SentInv' /\ UniqueInv'
  <2>1. \A t \in Tests : t # -1
    BY Sizes DEF IInv
  <2>2. \A c : <<c>> # <<>>
    OBVIOUS
  <2>3. WorkerInv'
    BY <1>2, <2>2 DEF WorkerInv, WorkerOK
  <2>4. SentInv' /\ UniqueInv'
    BY <1>1, <1>2, <2>1, <2>2 DEF SentInv, UniqueInv
  <2>. QED  BY <2>3, <2>4
<1>5. RanInv'
  BY <1>1 DEF RanInv, SerialInv
<1>6. PendingInv'
  <2>1. \A t \in Tests : ~(t < 0)
    BY Sizes DEF IInv
  <2>. QED  BY <1>1, <2>1 DEF PendingInv
<1>. QED  BY <1>3, <1>4, <1>5, <1>6

-----------------------------------------------------------------------------
(* Tests in this process.                                                   *)

\* A test that begins gets a new thread and runs for the first time.
LEMMA StepRunSerial ==
  ASSUME IInv, RunSerial
  PROVE  IInv'
<1>1. /\ pc = "serial" /\ i < total /\ pc' = "testing"
      /\ runs' = [runs EXCEPT ![i] = @ + 1]
      /\ thread' = [thread EXCEPT ![i] = "check"]
      /\ flag' = [flag EXCEPT ![i] = "false"]
      /\ stopped' = [stopped EXCEPT ![i] = FALSE]
      /\ misused' = misused
      /\ UNCHANGED <<n_workers, failing, i, dispatched, exited, passed, failed, first, worker,
                     master, ready, workerVars, hooks>>
  BY DEF RunSerial, Start, TW!at_interval
<1>2. n_workers = 1 /\ i \in Tests /\ i \in Nat /\ total \in Nat
  BY <1>1, OneProcess, Sizes DEF IInv
<1>3. runs[i] = 0
  BY <1>1, <1>2 DEF IInv, SerialInv
<1>4. TypeInv'
  BY <1>1, <1>2, <1>3 DEF IInv, TypeInv, workerVars, Workers, Phases
<1>5. SerialInv'
  BY <1>1, <1>2, <1>3, Sizes DEF IInv, SerialInv, TypeInv, workerVars, Workers
<1>6. FlagInv'
  BY <1>1, <1>2 DEF IInv, FlagInv
<1>7. CountInv'
  BY <1>1, Frames DEF IInv, workerVars
<1>. QED  BY <1>1, <1>2, <1>4, <1>5, <1>6, <1>7, SerialKeeps DEF IInv

\* A test that returns stops its thread and is counted.
LEMMA StepReturns ==
  ASSUME IInv, Returns
  PROVE  IInv'
<1>1. /\ pc = "testing" /\ i \notin failing /\ pc' = "serial" /\ i' = i + 1
      /\ hooks' = [hooks EXCEPT ![i] = @ + 1]
      /\ passed' = passed + 1
      /\ TW!stop(i)
      /\ UNCHANGED <<n_workers, failing, dispatched, exited, failed, first, worker, master, ready,
                     workerVars, runs>>
  BY DEF Returns, run_defers
<1>2. n_workers = 1 /\ i \in Tests /\ i \in Nat /\ total \in Nat /\ i < total
  BY <1>1, OneProcess, Sizes DEF IInv
<1>3. hooks[i] = 0
  BY <1>1, <1>2 DEF IInv, SerialInv
<1>4. TypeInv'
  BY <1>1, <1>2, <1>3 DEF IInv, TypeInv, workerVars, Workers, Phases
<1>5. SerialInv'
  BY <1>1, <1>2, <1>3, Sizes DEF IInv, SerialInv, TypeInv, workerVars, Workers
<1>6. FlagInv'
  <2>1. CASE stopped[i]
    BY <1>1, <2>1 DEF TW!stop, TW!threadVars, IInv, FlagInv
  <2>2. CASE ~stopped[i]
    BY <1>1, <1>2, <2>2 DEF TW!stop, IInv, FlagInv
  <2>. QED  BY <2>1, <2>2
<1>7. CountInv'
  <2>1. Uncounted = {} /\ passed = Cardinality(Passed) /\ IsFiniteSet(Passed)
    BY <1>1, OneProcess, Finite DEF IInv
  <2>2. Uncounted' = {}
    BY <1>1, <2>1 DEF Uncounted, workerVars
  <2>3. Passed' = Passed \cup {i} /\ i \notin Passed
    BY <1>1, <1>2, <1>3 DEF Passed, IInv, TypeInv
  <2>4. Cardinality(Passed') = Cardinality(Passed) + 1 /\ Cardinality(Passed) \in Nat
    BY <2>1, <2>3, FS_AddElement, FS_CardinalityType
  <2>. QED  BY <1>1, <2>1, <2>2, <2>4, FS_EmptySet DEF CountInv
<1>. QED  BY <1>1, <1>2, <1>4, <1>5, <1>6, <1>7, SerialKeeps DEF IInv

\* A test that aborts has run its hooks, and ends everything.
LEMMA StepAborts ==
  ASSUME IInv, Aborts
  PROVE  IInv'
<1>1. /\ pc = "testing" /\ i \in failing /\ pc' = "aborted"
      /\ hooks' = [hooks EXCEPT ![i] = @ + 1]
      /\ UNCHANGED <<n_workers, failing, i, dispatched, exited, passed, failed, first, worker,
                     master, ready, workerVars, threadVars, runs>>
  BY DEF Aborts, run_defers
<1>2. n_workers = 1 /\ i \in Tests /\ i \in Nat /\ total \in Nat /\ i < total
  BY <1>1, OneProcess, Sizes DEF IInv
<1>3. hooks[i] = 0
  BY <1>1, <1>2 DEF IInv, SerialInv
<1>4. TypeInv'
  BY <1>1, <1>2, <1>3 DEF IInv, TypeInv, workerVars, Workers, Phases
<1>5. SerialInv'
  BY <1>1, <1>2, <1>3, Sizes DEF IInv, SerialInv, TypeInv, workerVars, Workers
<1>6. FlagInv'
  BY <1>1, Frames DEF IInv
<1>7. CountInv'
  <2>1. Uncounted' = Uncounted
    BY <1>1 DEF Uncounted, workerVars
  <2>2. Passed' = Passed
    BY <1>1, <1>2 DEF Passed, IInv, TypeInv
  <2>. QED  BY <1>1, <2>1, <2>2 DEF IInv, CountInv
<1>. QED  BY <1>1, <1>2, <1>4, <1>5, <1>6, <1>7, SerialKeeps DEF IInv

\* After the last test nothing is left to do.
LEMMA StepSerialEnd ==
  ASSUME IInv, SerialEnd
  PROVE  IInv'
<1>1. /\ pc = "serial" /\ i = total /\ pc' = "done"
      /\ UNCHANGED <<n_workers, failing, i, dispatched, exited, passed, failed, first, worker,
                     master, ready, workerVars, threadVars, history>>
  BY DEF SerialEnd
<1>2. n_workers = 1
  BY <1>1, OneProcess
<1>3. TypeInv'
  BY <1>1 DEF IInv, TypeInv, workerVars, history, Workers, Phases
<1>4. SerialInv'
  BY <1>1, <1>2, Sizes DEF IInv, SerialInv, workerVars, history, Workers
<1>5. FlagInv' /\ CountInv'
  BY <1>1, Frames DEF IInv, workerVars, history
<1>. QED  BY <1>1, <1>2, <1>3, <1>4, <1>5, SerialKeeps DEF IInv

\* A thread goes on; it is no business of the other processes.
LEMMA StepStatus ==
  ASSUME IInv, NEW t \in Tests, Status(t)
  PROVE  IInv'
<1>1. TW!Step(t) /\ UNCHANGED <<n_workers, failing, masterVars, workerVars, history>>
  BY DEF Status
<1>2. FlagInv'
  <2>1. CASE TW!Check(t)
    BY <2>1 DEF IInv, FlagInv, TW!Check
  <2>2. CASE TW!Fn(t)
    BY <2>2 DEF IInv, FlagInv, TW!Fn
  <2>3. CASE TW!Wake(t)
    BY <2>3 DEF IInv, FlagInv, TW!Wake, TW!repeat
  <2>4. CASE TW!Final(t)
    BY <2>4 DEF IInv, FlagInv, TW!Final
  <2>. QED  BY <1>1, <2>1, <2>2, <2>3, <2>4 DEF TW!Step
<1>3. TypeInv'
  BY <1>1 DEF IInv, TypeInv, masterVars, workerVars, history, Workers
<1>4. SerialInv' /\ MasterInv'
  BY <1>1 DEF IInv, SerialInv, MasterInv, masterVars, workerVars, history, Workers
<1>5. StateInv' /\ ReadyInv'
  BY <1>1 DEF IInv, StateInv, ReadyInv, masterVars, workerVars, Workers
<1>6. /\ ExitInv' /\ WorkerInv' /\ RanInv' /\ SentInv' /\ UniqueInv'
      /\ PendingInv' /\ CountInv'
  BY <1>1, Frames DEF IInv, masterVars, workerVars, history
<1>. QED  BY <1>2, <1>3, <1>4, <1>5, <1>6 DEF IInv

-----------------------------------------------------------------------------
(* The master.                                                              *)

\* Who is in the parallel part, and commands of one number.
LEMMA ManyProcesses ==
  ASSUME IInv
  PROVE  /\ pc \in {"spawn", "select", "scan", "reap"} => n_workers > 1
         /\ \A j \in Workers : state[j] # "none" => n_workers > 1
BY Sizes DEF IInv, SerialInv

LEMMA Singles ==
  /\ \A c : <<c>> # <<>> /\ Len(<<c>>) = 1 /\ Head(<<c>>) = c /\ Tail(<<c>>) = <<>>
  /\ \A c : Append(<<>>, c) = <<c>>
  /\ \A c, b : <<c>> = <<b>> <=> c = b
OBVIOUS

\* The next worker is forked, with pipes that are empty.
LEMMA StepSpawn ==
  ASSUME IInv, Spawn
  PROVE  IInv'
<1>1. /\ pc = "spawn" /\ i < n_workers /\ i' = i + 1
      /\ state' = [state EXCEPT ![i + 1] = "request"]
      /\ first' = first \cup {i + 1} /\ worker' = worker \cup {i + 1}
      /\ master' = TRUE
      /\ pc' = IF i + 1 = n_workers THEN "select" ELSE "spawn"
      /\ UNCHANGED <<n_workers, failing, dispatched, exited, passed, failed, ready, task,
                     requests, commands, killed, threadVars, history>>
  BY DEF Spawn
<1>2. n_workers > 1 /\ Workers' = Workers /\ n_workers' = n_workers
  BY <1>1, ManyProcesses DEF Workers
<1>3. i \in Nat /\ n_workers \in Nat /\ Workers = 1..n_workers /\ i + 1 \in Workers
  BY <1>1, Sizes DEF IInv, TypeInv
<1>4. /\ worker = 1..i /\ first = 1..i /\ exited = 0 /\ ~failed /\ state[i + 1] = "none"
      /\ \A j \in Workers : j > i => state[j] = "none"
  BY <1>1, <1>2, <1>3 DEF IInv, MasterInv, StateInv
<1>5. requests[i + 1] = 0 /\ commands[i + 1] = <<>> /\ task[i + 1] = -1
  BY <1>3, <1>4 DEF IInv, WorkerInv, WorkerOK, TypeInv
<1>6. TypeInv'
  BY <1>1, <1>2, <1>3 DEF IInv, TypeInv, history, Phases, States
<1>7. SerialInv' /\ ReadyInv'
  BY <1>1, <1>2 DEF SerialInv, ReadyInv
<1>8. MasterInv'
  BY <1>1, <1>2, <1>3, <1>4 DEF IInv, MasterInv
<1>9. ExitInv'
  <2>1. ASSUME pc' # "spawn" PROVE worker' = 1..n_workers
    BY <1>1, <1>3, <1>4, <2>1
  <2>2. Cardinality(1..n_workers) = n_workers
    <3>1. 1 \in Int /\ n_workers \in Int /\ ~(1 > n_workers) /\ n_workers - 1 + 1 = n_workers
      BY <1>2, <1>3
    <3>2. Cardinality(1..n_workers) = n_workers - 1 + 1
      BY <3>1, FS_Interval
    <3>. QED  BY <3>1, <3>2
  <2>3. exited' = 0 /\ n_workers' = n_workers /\ 0 + n_workers = n_workers
    BY <1>1, <1>3, <1>4
  <2>4. CASE pc' = "spawn"
    BY <2>4 DEF ExitInv
  <2>5. CASE pc' # "spawn"
    <3>1. worker' = 1..n_workers
      BY <2>1, <2>5
    <3>2. exited' + Cardinality(worker') = n_workers'
      BY <2>2, <2>3, <3>1
    <3>. QED  BY <3>2 DEF ExitInv
  <2>. QED  BY <2>4, <2>5
<1>10. StateInv'
  BY <1>1, <1>2, <1>3 DEF IInv, StateInv, TypeInv
<1>11. WorkerInv'
  <2>1. \A j \in Workers \ {i + 1} :
          /\ state'[j] = state[j] /\ requests'[j] = requests[j] /\ commands'[j] = commands[j]
          /\ task'[j] = task[j] /\ (j \in worker' <=> j \in worker)
          /\ j <= i => j \in worker
          /\ j > i => state[j] = "none"
    BY <1>1, <1>3, <1>4 DEF IInv, TypeInv
  <2>2. /\ state'[i + 1] = "request" /\ requests'[i + 1] = 0 /\ commands'[i + 1] = <<>>
        /\ task'[i + 1] = -1 /\ <<>> # <<-1>>
    BY <1>1, <1>3, <1>5, Singles DEF IInv, TypeInv
  <2>3. ASSUME NEW j \in Workers, j # i + 1, ~master PROVE state[j] = "none"
    BY <1>2, <1>3, <1>4, <2>3 DEF IInv, StateInv, MasterInv
  <2>4. ASSUME NEW j \in Workers PROVE WorkerOK(j)'
    <3>1. CASE j = i + 1
      BY <2>2, <3>1 DEF WorkerOK
    <3>2. CASE j # i + 1
      <4>1. WorkerOK(j)
        BY DEF IInv, WorkerInv
      <4>. QED  BY <1>1, <2>1, <2>3, <3>2, <4>1 DEF WorkerOK
    <3>. QED  BY <3>1, <3>2
  <2>. QED  BY <1>2, <2>4 DEF WorkerInv
<1>12. FlagInv' /\ RanInv' /\ UniqueInv'
  BY <1>1, Frames DEF IInv, history
<1>13. SentInv'
  <2>1. worker \ first = {} /\ worker' \ first' = {}
    BY <1>1, <1>4
  <2>. QED  BY <1>1, <1>2, <2>1 DEF IInv, SentInv, history
<1>14. PendingInv'
  <2>1. \A j \in worker : j # i + 1 /\ j \in Workers
    BY <1>3, <1>4
  <2>2. \A j \in worker : Lost(j) => Lost(j)'
    BY <1>1, <2>1 DEF IInv, TypeInv, Lost
  <2>. QED  BY <1>1, <2>2 DEF IInv, PendingInv, history
<1>15. CountInv'
  <2>1. Uncounted = {} /\ Uncounted' = {}
    BY <1>1, <1>4 DEF Uncounted
  <2>. QED  BY <1>1, <2>1 DEF IInv, CountInv, Passed, history
<1>. QED
  BY <1>6, <1>7, <1>8, <1>9, <1>10, <1>11, <1>12, <1>13, <1>14, <1>15 DEF IInv

\* select returns what is readable.
LEMMA StepSelect ==
  ASSUME IInv, Select
  PROVE  IInv'
<1>1. /\ pc = "select" /\ ~failed
      /\ ready' = {j \in Workers : Readable(j)}
      /\ pc' = "scan" /\ i' = 1
      /\ UNCHANGED <<n_workers, failing, dispatched, exited, passed, failed, first, worker,
                     master, workerVars, threadVars, history>>
  BY DEF Select
<1>2. n_workers > 1 /\ Workers' = Workers /\ n_workers' = n_workers
  BY <1>1, ManyProcesses DEF Workers
<1>3. n_workers \in Nat /\ Workers = 1..n_workers
  BY Sizes DEF IInv
<1>4. TypeInv'
  BY <1>1, <1>2, <1>3 DEF IInv, TypeInv, workerVars, history, Phases
<1>5. SerialInv'
  BY <1>1, <1>2 DEF SerialInv
<1>6. MasterInv'
  BY <1>1, <1>2, <1>3 DEF IInv, MasterInv
<1>7. ExitInv' /\ StateInv'
  BY <1>1, <1>2 DEF IInv, ExitInv, StateInv, workerVars
<1>8. ReadyInv'
  BY <1>1, <1>2 DEF IInv, ReadyInv, Readable, TypeInv, workerVars
<1>9. /\ FlagInv' /\ WorkerInv' /\ RanInv' /\ SentInv' /\ UniqueInv'
      /\ PendingInv' /\ CountInv'
  BY <1>1, Frames DEF IInv, workerVars, history
<1>. QED  BY <1>4, <1>5, <1>6, <1>7, <1>8, <1>9 DEF IInv

\* A worker that is not ready is passed by.
LEMMA StepNotReady ==
  ASSUME IInv, NotReady
  PROVE  IInv'
<1>1. /\ pc = "scan" /\ i \notin ready
      /\ i' = i + 1 /\ pc' = IF i = n_workers THEN "select" ELSE "scan"
      /\ UNCHANGED <<n_workers, failing, dispatched, exited, passed, failed, first, worker,
                     master, ready, workerVars, threadVars, history>>
  BY DEF NotReady, NextWorker
<1>2. n_workers > 1 /\ Workers' = Workers /\ n_workers' = n_workers
  BY <1>1, ManyProcesses DEF Workers
<1>3. i \in Nat /\ n_workers \in Nat /\ Workers = 1..n_workers
  BY Sizes DEF IInv, TypeInv
<1>4. TypeInv'
  BY <1>1, <1>2, <1>3 DEF IInv, TypeInv, workerVars, history, Phases
<1>5. SerialInv'
  BY <1>1, <1>2 DEF SerialInv
<1>6. MasterInv'
  BY <1>1, <1>2, <1>3 DEF IInv, MasterInv
<1>7. ExitInv' /\ StateInv'
  BY <1>1, <1>2 DEF IInv, ExitInv, StateInv, workerVars
<1>8. ReadyInv'
  BY <1>1, <1>2, <1>3 DEF IInv, ReadyInv, TypeInv, workerVars
<1>9. /\ FlagInv' /\ WorkerInv' /\ RanInv' /\ SentInv' /\ UniqueInv'
      /\ PendingInv' /\ CountInv'
  BY <1>1, Frames DEF IInv, workerVars, history
<1>. QED  BY <1>4, <1>5, <1>6, <1>7, <1>8, <1>9 DEF IInv

\* A pipe that ends is that of a worker which ran a failing test.
LEMMA StepEof ==
  ASSUME IInv, Eof
  PROVE  IInv'
<1>1. /\ pc = "scan" /\ i \in ready /\ requests[i] = 0
      /\ failed' = TRUE /\ pc' = "select"
      /\ UNCHANGED <<n_workers, failing, i, dispatched, exited, passed, first, worker, master,
                     ready, workerVars, threadVars, history>>
  BY DEF Eof
<1>2. n_workers > 1 /\ Workers' = Workers /\ n_workers' = n_workers
  BY <1>1, ManyProcesses DEF Workers
<1>3. failing # {}
  <2>1. i \in Workers /\ i \in Nat /\ master
    BY <1>1, <1>2 DEF IInv, MasterInv, TypeInv
  <2>2. i \in worker /\ state[i] = "dead"
    BY <1>1, <1>2, <2>1 DEF IInv, ReadyInv
  <2>. QED  BY <2>1, <2>2 DEF IInv, WorkerInv, WorkerOK
<1>4. TypeInv'
  BY <1>1, <1>2 DEF IInv, TypeInv, workerVars, history, Phases
<1>5. SerialInv' /\ ReadyInv'
  BY <1>1, <1>2 DEF SerialInv, ReadyInv
<1>6. MasterInv'
  BY <1>1, <1>2, <1>3 DEF IInv, MasterInv
<1>7. ExitInv' /\ StateInv'
  BY <1>1, <1>2 DEF IInv, ExitInv, StateInv, workerVars
<1>8. /\ FlagInv' /\ WorkerInv' /\ RanInv' /\ SentInv' /\ UniqueInv'
      /\ PendingInv'
  BY <1>1, Frames DEF IInv, workerVars, history
<1>9. CountInv'
  <2>1. Uncounted' = Uncounted /\ Passed' = Passed
    BY <1>1 DEF Uncounted, Passed, workerVars, history
  <2>. QED  BY <1>1, <2>1 DEF IInv, CountInv
<1>. QED  BY <1>4, <1>5, <1>6, <1>7, <1>8, <1>9 DEF IInv

\* The master answers a request: with the next test, or by letting the worker
\* go.
LEMMA StepServe ==
  ASSUME IInv, Serve
  PROVE  IInv'
<1>. DEFINE c == IF dispatched < total THEN dispatched ELSE -1
<1>1. /\ pc = "scan" /\ i \in ready /\ requests[i] > 0
      /\ requests' = [requests EXCEPT ![i] = @ - 1]
      /\ passed' = IF i \in first THEN passed ELSE passed + 1
      /\ first' = first \ {i}
      /\ i' = i + 1 /\ pc' = IF i = n_workers THEN "select" ELSE "scan"
      /\ UNCHANGED <<n_workers, failing, failed, master, ready, state, task, killed, threadVars,
                     history>>
  BY DEF Serve, Count, NextWorker
<1>2. n_workers > 1 /\ Workers' = Workers /\ n_workers' = n_workers
  BY <1>1, ManyProcesses DEF Workers
<1>3. /\ i \in Nat /\ n_workers \in Nat /\ Workers = 1..n_workers /\ i \in Workers
      /\ total \in Nat /\ dispatched \in 0..total /\ master /\ ~failed
  BY <1>1, <1>2, Sizes DEF IInv, TypeInv, MasterInv
<1>4. requests[i] = 1 /\ i \in worker /\ state[i] = "wait" /\ commands[i] = <<>> /\ task[i] = -1
  <2>1. requests[i] = 1
    BY <1>1, <1>3 DEF IInv, TypeInv
  <2>2. i \in worker
    BY <1>1, <1>2, <1>3, <2>1 DEF IInv, ReadyInv, WorkerInv, WorkerOK
  <2>. QED  BY <1>3, <2>1, <2>2 DEF IInv, WorkerInv, WorkerOK
<1>5. /\ commands' = [commands EXCEPT ![i] = <<c>>]
      /\ dispatched < total => dispatched' = dispatched + 1 /\ UNCHANGED <<worker, exited>>
      /\ ~(dispatched < total) =>
           worker' = worker \ {i} /\ exited' = exited + 1 /\ UNCHANGED dispatched
  <2>1. CASE dispatched < total
    BY <1>4, <2>1, Singles DEF Serve, Reply, SendTest, Send
  <2>2. CASE ~(dispatched < total)
    BY <1>4, <2>2, Singles DEF Serve, Reply, SendExit, Send
  <2>. QED  BY <2>1, <2>2
<1>6. /\ c \in Tests \cup {-1} /\ <<c>> # <<>>
      /\ \A t \in Tests : <<c>> = <<t>> => dispatched < total /\ t = dispatched
      /\ <<c>> = <<-1>> => ~(dispatched < total)
  BY <1>3, Sizes, Singles DEF IInv
<1>. HIDE DEF c
<1>7. /\ requests'[i] = 0 /\ commands'[i] = <<c>>
      /\ \A j \in Workers \ {i} : requests'[j] = requests[j] /\ commands'[j] = commands[j]
      /\ \A j : j # i => (j \in first' <=> j \in first) /\ (j \in worker' <=> j \in worker)
  <2>1. requests'[i] = 0 /\ commands'[i] = <<c>>
    BY <1>1, <1>3, <1>4, <1>5 DEF IInv, TypeInv
  <2>2. \A j \in Workers \ {i} : requests'[j] = requests[j] /\ commands'[j] = commands[j]
    BY <1>1, <1>5 DEF IInv, TypeInv
  <2>. QED  BY <1>1, <1>5, <2>1, <2>2
<1>8. TypeInv'
  <2>1. requests' \in [Workers -> {0, 1}]
    BY <1>1, <1>4 DEF IInv, TypeInv
  <2>2. <<c>> \in Commands
    BY <1>6 DEF Commands
  <2>3. commands' \in [Workers -> Commands]
    BY <1>5, <2>2 DEF IInv, TypeInv
  <2>4. dispatched' \in 0..total /\ exited' \in Nat /\ worker' \subseteq Workers
    <3>1. exited \in Nat /\ worker \subseteq Workers
      BY DEF IInv, TypeInv
    <3>2. CASE dispatched < total
      <4>1. dispatched' = dispatched + 1 /\ exited' = exited /\ worker' = worker
        BY <1>5, <3>2
      <4>. QED  BY <1>3, <3>1, <3>2, <4>1
    <3>3. CASE ~(dispatched < total)
      <4>1. dispatched' = dispatched /\ exited' = exited + 1 /\ worker' = worker \ {i}
        BY <1>5, <3>3
      <4>. QED  BY <1>3, <3>1, <4>1
    <3>. QED  BY <3>2, <3>3
  <2>5. pc' \in Phases /\ i' \in Nat
    <3>1. i' = i + 1 /\ (pc' = "select" \/ pc' = "scan")
      BY <1>1
    <3>. QED  BY <1>3, <3>1 DEF Phases
  <2>6. passed' \in Nat
    BY <1>1 DEF IInv, TypeInv
  <2>7. first' \subseteq Workers
    BY <1>1 DEF IInv, TypeInv
  <2>. QED  BY <1>1, <1>2, <2>1, <2>3, <2>4, <2>5, <2>6, <2>7 DEF IInv, TypeInv, history
<1>9. SerialInv' /\ FlagInv'
  BY <1>1, <1>2, Frames DEF IInv, SerialInv
<1>10. MasterInv'
  BY <1>1, <1>2, <1>3, <1>5 DEF IInv, MasterInv, TypeInv
<1>11. ExitInv'
  <2>1. exited + Cardinality(worker) = n_workers /\ exited \in Nat
    BY <1>1, <1>2 DEF IInv, ExitInv, TypeInv
  <2>2. CASE dispatched < total
    BY <1>2, <1>5, <2>1, <2>2 DEF ExitInv
  <2>3. CASE ~(dispatched < total)
    <3>1. Cardinality(worker \ {i}) = Cardinality(worker) - 1 /\ Cardinality(worker) \in Nat
      BY <1>4, Finite, FS_RemoveElement DEF IInv
    <3>2. exited' = exited + 1 /\ worker' = worker \ {i}
      BY <1>5, <2>3
    <3>3. exited' + Cardinality(worker') = n_workers'
      BY <1>2, <2>1, <3>1, <3>2
    <3>. QED  BY <3>3 DEF ExitInv
  <2>. QED  BY <2>2, <2>3
<1>12. StateInv'
  BY <1>1, <1>2 DEF IInv, StateInv
<1>13. ReadyInv'
  <2>1. \A j \in ready : j >= i + 1 => j # i /\ j >= i /\ j \in Workers
    BY <1>3 DEF IInv, TypeInv
  <2>. QED  BY <1>1, <1>2, <1>7, <2>1 DEF IInv, ReadyInv
<1>14. WorkerInv'
  <2>1. ASSUME NEW j \in Workers PROVE WorkerOK(j)'
    <3>1. CASE j = i
      BY <1>1, <1>4, <1>5, <1>6, <1>7, <3>1 DEF WorkerOK
    <3>2. CASE j # i
      <4>1. WorkerOK(j)
        BY DEF IInv, WorkerInv
      <4>. QED  BY <1>1, <1>7, <3>2, <4>1 DEF WorkerOK
    <3>. QED  BY <3>1, <3>2
  <2>. QED  BY <1>2, <2>1 DEF WorkerInv
<1>15. RanInv'
  BY <1>1, <1>2, <1>3, <1>5, Sizes DEF IInv, RanInv, history
<1>16. SentInv'
  <2>1. ASSUME NEW j \in Workers, NEW t \in Tests, commands'[j] = <<t>>
        PROVE  t < dispatched' /\ runs'[t] = 0 /\ j \in worker' \ first'
    <3>1. CASE j = i
      <4>1. t = dispatched /\ dispatched < total
        BY <1>6, <1>7, <2>1, <3>1
      <4>2. runs[t] = 0
        BY <1>2, <1>3, <4>1 DEF IInv, TypeInv, RanInv
      <4>. QED  BY <1>1, <1>3, <1>4, <1>5, <3>1, <4>1, <4>2 DEF history
    <3>2. CASE j # i
      <4>1. t < dispatched /\ runs[t] = 0 /\ j \in worker \ first
        BY <1>7, <2>1, <3>2 DEF IInv, SentInv
      <4>. QED  BY <1>1, <1>3, <1>5, <1>7, <3>2, <4>1, Sizes DEF IInv, history
    <3>. QED  BY <3>1, <3>2
  <2>2. ASSUME NEW j \in Workers, NEW t \in Tests, task'[j] = t
        PROVE  runs'[t] = 1 /\ hooks'[t] = 0 /\ j \in worker' \ first'
    <3>1. task[j] = t /\ j # i
      BY <1>1, <1>4, <2>2, Sizes DEF IInv
    <3>. QED  BY <1>1, <1>7, <3>1 DEF IInv, SentInv, history
  <2>. QED  BY <1>1, <1>2, <2>1, <2>2 DEF SentInv, Tests
<1>17. UniqueInv'
  <2>1. ASSUME NEW j \in Workers, NEW k \in Workers, NEW t \in Tests,
               commands'[j] = <<t>>, commands'[k] = <<t>>
        PROVE  j = k
    <3>1. \A l \in Workers \ {i} : commands'[l] = <<t>> => t < dispatched /\ t # dispatched
      BY <1>3, <1>7, Sizes DEF IInv, SentInv
    <3>2. commands'[i] = <<t>> => t = dispatched
      BY <1>6, <1>7
    <3>3. CASE j # i /\ k # i
      BY <1>7, <2>1, <3>3 DEF IInv, UniqueInv
    <3>. QED  BY <2>1, <3>1, <3>2, <3>3
  <2>. QED  BY <1>1, <1>2, <2>1 DEF IInv, UniqueInv, Tests
<1>18. PendingInv'
  <2>1. ASSUME NEW t \in Tests, t < dispatched'
        PROVE  \/ hooks'[t] = 1 /\ t \notin failing'
               \/ \E j \in worker' : commands'[j] = <<t>> \/ task'[j] = t \/ Lost(j)'
    <3>1. CASE t < dispatched
      <4>1. CASE hooks[t] = 1 /\ t \notin failing
        BY <1>1, <4>1 DEF history
      <4>2. CASE \E j \in worker : commands[j] = <<t>> \/ task[j] = t \/ Lost(j)
        <5>1. PICK j \in worker : commands[j] = <<t>> \/ task[j] = t \/ Lost(j)
          BY <4>2
        <5>2. j # i /\ j \in Workers
          <6>1. t # -1 /\ <<t>> # <<>>
            BY Sizes, Singles DEF IInv
          <6>2. j # i
            BY <1>4, <5>1, <6>1 DEF Lost
          <6>. QED  BY <5>1, <6>2 DEF IInv, TypeInv
        <5>3. j \in worker' /\ (commands'[j] = <<t>> \/ task'[j] = t \/ Lost(j)')
          BY <1>1, <1>7, <5>1, <5>2 DEF Lost
        <5>. QED  BY <5>3
      <4>. QED  BY <3>1, <4>1, <4>2 DEF IInv, PendingInv
    <3>2. CASE ~(t < dispatched)
      <4>1. dispatched < total /\ t = dispatched
        BY <1>3, <1>5, <2>1, <3>2, Sizes DEF IInv
      <4>2. i \in worker' /\ commands'[i] = <<t>>
        BY <1>4, <1>5, <1>7, <4>1 DEF c
      <4>. QED  BY <4>2
    <3>. QED  BY <3>1, <3>2
  <2>. QED  BY <2>1 DEF PendingInv, Tests
<1>19. CountInv'
  <2>1. Passed' = Passed
    BY <1>1 DEF Passed, Tests, history
  <2>2. Uncounted' = Uncounted \ {i}
    <3>1. i \notin Uncounted'
      BY <1>1, <1>4, <1>7 DEF Uncounted
    <3>2. \A j : j # i => (j \in Uncounted' <=> j \in Uncounted)
      BY <1>1, <1>5, <1>7 DEF IInv, TypeInv, Uncounted
    <3>. QED  BY <3>1, <3>2
  <2>3. i \in Uncounted <=> i \notin first
    BY <1>4 DEF Uncounted
  <2>4. IsFiniteSet(Uncounted) /\ Cardinality(Uncounted) \in Nat /\ Cardinality(Passed) \in Nat
    BY Finite DEF IInv
  <2>5. passed \in Nat /\ passed + Cardinality(Uncounted) = Cardinality(Passed)
    BY <1>3 DEF IInv, TypeInv, CountInv
  <2>6. passed' + Cardinality(Uncounted') = Cardinality(Passed')
    <3>1. CASE i \in first
      <4>1. Uncounted' = Uncounted
        BY <2>2, <2>3, <3>1
      <4>. QED  BY <1>1, <2>1, <2>5, <3>1, <4>1
    <3>2. CASE i \notin first
      <4>1. Cardinality(Uncounted') = Cardinality(Uncounted) - 1
        BY <2>2, <2>3, <2>4, <3>2, FS_RemoveElement
      <4>. QED  BY <1>1, <2>1, <2>4, <2>5, <3>2, <4>1
    <3>. QED  BY <3>1, <3>2
  <2>7. Cardinality(Passed') \in Nat
    BY <2>1, <2>4
  <2>. QED  BY <2>6, <2>7 DEF CountInv
<1>. QED
  BY <1>8, <1>9, <1>10, <1>11, <1>12, <1>13, <1>14, <1>15, <1>16, <1>17, <1>18, <1>19 DEF IInv

\* The master closes its pipes, which changes what workers may find in them.
LEMMA StepClose ==
  ASSUME IInv, Close
  PROVE  IInv'
<1>1. /\ pc = "select" /\ (failed \/ exited = n_workers)
      /\ master' = FALSE /\ pc' = "reap" /\ i' = 1
      /\ UNCHANGED <<n_workers, failing, dispatched, exited, passed, failed, first, worker, ready,
                     workerVars, threadVars, history>>
  BY DEF Close
<1>2. n_workers > 1 /\ Workers' = Workers /\ n_workers' = n_workers
  BY <1>1, ManyProcesses DEF Workers
<1>3. n_workers \in Nat /\ Workers = 1..n_workers
  BY Sizes DEF IInv
<1>4. TypeInv'
  BY <1>1, <1>2, <1>3 DEF IInv, TypeInv, workerVars, history, Phases
<1>5. SerialInv' /\ ReadyInv'
  BY <1>1, <1>2 DEF SerialInv, ReadyInv
<1>6. MasterInv'
  BY <1>1, <1>2, <1>3 DEF IInv, MasterInv
<1>7. ExitInv'
  BY <1>1, <1>2 DEF IInv, ExitInv
<1>8. StateInv'
  BY <1>1, <1>2, <1>3 DEF IInv, StateInv, workerVars
<1>9. WorkerInv'
  BY <1>1, <1>2 DEF IInv, WorkerInv, WorkerOK, workerVars
<1>10. FlagInv' /\ RanInv' /\ SentInv' /\ UniqueInv' /\ PendingInv' /\ CountInv'
  BY <1>1, Frames DEF IInv, workerVars, history
<1>. QED  BY <1>4, <1>5, <1>6, <1>7, <1>8, <1>9, <1>10 DEF IInv

\* A worker is waited for, and killed first if it lives: what it had not
\* asked for yet is not counted.
LEMMA StepReap ==
  ASSUME IInv, Reap
  PROVE  IInv'
<1>1. /\ pc = "reap" /\ i <= n_workers
      /\ killed' = IF state[i] = "dead" THEN killed ELSE killed \cup {i}
      /\ state' = [state EXCEPT ![i] = "reaped"]
      /\ i' = i + 1
      /\ pc' = IF i = n_workers THEN "done" ELSE "reap"
      /\ UNCHANGED <<n_workers, failing, dispatched, exited, passed, failed, first, worker,
                     master, ready, task, requests, commands, threadVars, history>>
  BY DEF Reap
<1>2. n_workers > 1 /\ Workers' = Workers /\ n_workers' = n_workers
  BY <1>1, ManyProcesses DEF Workers
<1>3. /\ i \in Nat /\ n_workers \in Nat /\ Workers = 1..n_workers /\ i \in Workers
      /\ ~master /\ (~failed => exited = n_workers)
  BY <1>1, <1>2, Sizes DEF IInv, TypeInv, MasterInv
<1>4. state'[i] = "reaped" /\ \A j \in Workers \ {i} : state'[j] = state[j]
  BY <1>1, <1>3 DEF IInv, TypeInv
<1>5. TypeInv'
  <2>1. state' \in [Workers -> States] /\ killed' \subseteq Workers
    BY <1>1, <1>3 DEF IInv, TypeInv, States
  <2>2. pc' \in Phases /\ i' \in Nat
    BY <1>1, <1>3 DEF Phases
  <2>. QED  BY <1>1, <1>2, <2>1, <2>2 DEF IInv, TypeInv, history
<1>6. SerialInv' /\ ReadyInv'
  BY <1>1, <1>2 DEF SerialInv, ReadyInv
<1>7. MasterInv'
  BY <1>1, <1>2, <1>3 DEF IInv, MasterInv
<1>8. ExitInv'
  BY <1>1, <1>2 DEF IInv, ExitInv
<1>9. StateInv'
  <2>1. \A j \in Workers : j # i => (j < i <=> j < i + 1) /\ (i = n_workers => j < i)
    BY <1>3
  <2>. QED  BY <1>1, <1>2, <1>3, <1>4, <2>1 DEF IInv, StateInv
<1>10. WorkerInv'
  <2>1. ASSUME NEW j \in Workers PROVE WorkerOK(j)'
    <3>1. WorkerOK(j)
      BY DEF IInv, WorkerInv
    <3>2. CASE j = i
      BY <1>1, <1>3, <1>4, <3>1, <3>2 DEF WorkerOK
    <3>3. CASE j # i
      BY <1>1, <1>3, <1>4, <3>1, <3>3 DEF WorkerOK
    <3>. QED  BY <3>2, <3>3
  <2>. QED  BY <1>2, <2>1 DEF WorkerInv
<1>11. FlagInv' /\ RanInv' /\ SentInv' /\ UniqueInv'
  BY <1>1, Frames DEF IInv, history
<1>12. PendingInv'
  <2>1. \A j \in worker : Lost(j) => Lost(j)'
    BY <1>1, <1>4 DEF IInv, TypeInv, Lost
  <2>. QED  BY <1>1, <2>1 DEF IInv, PendingInv, Tests, history
<1>13. CountInv'
  <2>1. Passed' = Passed
    BY <1>1 DEF Passed, Tests, history
  <2>2. Uncounted' \subseteq Uncounted
    BY <1>1, <1>4 DEF IInv, TypeInv, Uncounted
  <2>3. /\ Cardinality(Uncounted') \in Nat /\ Cardinality(Uncounted) \in Nat
        /\ Cardinality(Uncounted') <= Cardinality(Uncounted)
    BY <2>2, Finite, FS_Subset, FS_CardinalityType DEF IInv
  <2>4. CASE failed
    BY <1>1, <2>1, <2>3, <2>4, Finite DEF IInv, CountInv, TypeInv
  <2>5. CASE ~failed
    <3>1. Cardinality(worker) = 0
      <4>1. exited + Cardinality(worker) = n_workers /\ exited = n_workers
        BY <1>1, <1>2, <1>3, <2>5 DEF IInv, ExitInv
      <4>. QED  BY <1>3, <4>1, Finite DEF IInv
    <3>2. worker = {}
      BY <3>1, Finite, FS_EmptySet DEF IInv
    <3>3. Uncounted = {} /\ Uncounted' = {}
      BY <2>2, <3>2 DEF Uncounted
    <3>. QED  BY <1>1, <2>1, <3>3 DEF IInv, CountInv
  <2>. QED  BY <2>4, <2>5
<1>. QED
  BY <1>5, <1>6, <1>7, <1>8, <1>9, <1>10, <1>11, <1>12, <1>13 DEF IInv

-----------------------------------------------------------------------------
(* The workers.                                                             *)

\* What a step of worker j, to state s, leaves alone.
LEMMA StepProcess ==
  ASSUME IInv, NEW j \in Workers, state[j] \in {"request", "wait", "run", "exit"},
         NEW s \in {"request", "wait", "run", "exit", "dead"},
         state' = [state EXCEPT ![j] = s],
         UNCHANGED <<n_workers, failing, masterVars, threadVars>>
  PROVE  /\ n_workers > 1 /\ Workers' = Workers /\ Tests' = Tests
         /\ state'[j] = s /\ state' \in [Workers -> States]
         /\ \A k \in Workers \ {j} : state'[k] = state[k]
         /\ SerialInv' /\ FlagInv' /\ MasterInv' /\ ExitInv' /\ StateInv'
<1>1. n_workers > 1 /\ Workers' = Workers /\ Tests' = Tests /\ n_workers' = n_workers
  BY ManyProcesses DEF Workers, Tests
<1>2. state'[j] = s /\ state' \in [Workers -> States]
  BY DEF IInv, TypeInv, States
<1>3. \A k \in Workers \ {j} : state'[k] = state[k]
  BY DEF IInv, TypeInv
<1>4. SerialInv' /\ MasterInv'
  BY <1>1 DEF IInv, SerialInv, MasterInv, masterVars
<1>5. ExitInv' /\ FlagInv'
  BY Frames DEF IInv, masterVars
<1>6. StateInv'
  BY <1>1, <1>2, <1>3 DEF IInv, StateInv, masterVars
<1>. QED  BY <1>1, <1>2, <1>3, <1>4, <1>5, <1>6

\* A worker asks for a test.
LEMMA StepRequest ==
  ASSUME IInv, NEW j \in Workers, Request(j)
  PROVE  IInv'
<1>1. /\ state[j] = "request"
      /\ requests' = [requests EXCEPT ![j] = @ + 1]
      /\ state' = [state EXCEPT ![j] = "wait"]
      /\ UNCHANGED <<n_workers, failing, masterVars, task, commands, killed, threadVars, history>>
  BY DEF Request
<1>2. /\ n_workers > 1 /\ Workers' = Workers /\ Tests' = Tests
      /\ state'[j] = "wait" /\ state' \in [Workers -> States]
      /\ \A k \in Workers \ {j} : state'[k] = state[k]
      /\ SerialInv' /\ FlagInv' /\ MasterInv' /\ ExitInv' /\ StateInv'
  BY <1>1, StepProcess
<1>3. requests[j] = 0 /\ commands[j] = <<>> /\ task[j] = -1
  BY <1>1 DEF IInv, TypeInv, WorkerInv, WorkerOK
<1>4. /\ requests' \in [Workers -> {0, 1}] /\ requests'[j] = 1
      /\ \A k \in Workers \ {j} : requests'[k] = requests[k]
  BY <1>1, <1>3 DEF IInv, TypeInv
<1>5. TypeInv'
  BY <1>1, <1>2, <1>4 DEF IInv, TypeInv, masterVars, history
<1>6. ReadyInv'
  BY <1>1, <1>2, <1>4 DEF IInv, ReadyInv, TypeInv, masterVars
<1>7. WorkerInv'
  <2>1. ASSUME NEW k \in Workers PROVE WorkerOK(k)'
    <3>1. WorkerOK(k)
      BY DEF IInv, WorkerInv
    <3>2. CASE k = j
      BY <1>1, <1>2, <1>3, <1>4, <3>1, <3>2, Singles DEF WorkerOK, masterVars
    <3>3. CASE k # j
      BY <1>1, <1>2, <1>4, <3>1, <3>3 DEF WorkerOK, masterVars
    <3>. QED  BY <3>2, <3>3
  <2>. QED  BY <1>2, <2>1 DEF WorkerInv
<1>8. RanInv' /\ SentInv' /\ UniqueInv'
  BY <1>1, Frames DEF IInv, masterVars, history
<1>9. PendingInv'
  <2>1. \A k \in worker : Lost(k) => Lost(k)'
    BY <1>1, <1>2, <1>4 DEF IInv, TypeInv, Lost
  <2>. QED  BY <1>1, <1>2, <2>1 DEF IInv, PendingInv, masterVars, history
<1>10. CountInv'
  <2>1. Uncounted' = Uncounted
    BY <1>1, <1>2, <1>4 DEF IInv, TypeInv, Uncounted, masterVars
  <2>2. Passed' = Passed
    BY <1>1, <1>2 DEF Passed, history
  <2>. QED  BY <1>1, <2>1, <2>2 DEF IInv, CountInv, masterVars
<1>. QED  BY <1>2, <1>5, <1>6, <1>7, <1>8, <1>9, <1>10 DEF IInv

\* Nothing comes any more: the worker ends.
LEMMA StepHangUp ==
  ASSUME IInv, NEW j \in Workers, HangUp(j)
  PROVE  IInv'
<1>1. /\ state[j] = "wait" /\ commands[j] = <<>> /\ ~master
      /\ state' = [state EXCEPT ![j] = "exit"]
      /\ UNCHANGED <<n_workers, failing, masterVars, task, requests, commands, killed,
                     threadVars, history>>
  BY DEF HangUp
<1>2. /\ n_workers > 1 /\ Workers' = Workers /\ Tests' = Tests
      /\ state'[j] = "exit" /\ state' \in [Workers -> States]
      /\ \A k \in Workers \ {j} : state'[k] = state[k]
      /\ SerialInv' /\ FlagInv' /\ MasterInv' /\ ExitInv' /\ StateInv'
  BY <1>1, StepProcess
<1>3. TypeInv'
  BY <1>1, <1>2 DEF IInv, TypeInv, masterVars, history
<1>4. ReadyInv'
  BY <1>1, <1>2 DEF IInv, ReadyInv, MasterInv, masterVars
<1>5. WorkerInv'
  <2>1. ASSUME NEW k \in Workers PROVE WorkerOK(k)'
    <3>1. WorkerOK(k)
      BY DEF IInv, WorkerInv
    <3>2. CASE k = j
      BY <1>1, <1>2, <3>1, <3>2, Singles DEF WorkerOK, masterVars
    <3>3. CASE k # j
      BY <1>1, <1>2, <3>1, <3>3 DEF WorkerOK, masterVars
    <3>. QED  BY <3>2, <3>3
  <2>. QED  BY <1>2, <2>1 DEF WorkerInv
<1>6. RanInv' /\ SentInv' /\ UniqueInv'
  BY <1>1, Frames DEF IInv, masterVars, history
<1>7. PendingInv'
  <2>1. \A k \in worker : Lost(k) => Lost(k)'
    BY <1>1, <1>2 DEF IInv, TypeInv, Lost
  <2>. QED  BY <1>1, <1>2, <2>1 DEF IInv, PendingInv, masterVars, history
<1>8. CountInv'
  <2>1. Uncounted' = Uncounted
    BY <1>1, <1>2 DEF IInv, TypeInv, Uncounted, masterVars
  <2>2. Passed' = Passed
    BY <1>1, <1>2 DEF Passed, history
  <2>. QED  BY <1>1, <2>1, <2>2 DEF IInv, CountInv, masterVars
<1>. QED  BY <1>2, <1>3, <1>4, <1>5, <1>6, <1>7, <1>8 DEF IInv

\* A worker that has been let go, or has found its pipe closed, is gone.
LEMMA StepExit ==
  ASSUME IInv, NEW j \in Workers, Exit(j)
  PROVE  IInv'
<1>1. /\ state[j] = "exit"
      /\ state' = [state EXCEPT ![j] = "dead"]
      /\ UNCHANGED <<n_workers, failing, masterVars, task, requests, commands, killed,
                     threadVars, history>>
  BY DEF Exit
<1>2. /\ n_workers > 1 /\ Workers' = Workers /\ Tests' = Tests
      /\ state'[j] = "dead" /\ state' \in [Workers -> States]
      /\ \A k \in Workers \ {j} : state'[k] = state[k]
      /\ SerialInv' /\ FlagInv' /\ MasterInv' /\ ExitInv' /\ StateInv'
  BY <1>1, StepProcess
<1>3. TypeInv'
  BY <1>1, <1>2 DEF IInv, TypeInv, masterVars, history
<1>4. ReadyInv'
  BY <1>1, <1>2 DEF IInv, ReadyInv, TypeInv, masterVars
<1>5. WorkerInv'
  <2>1. ASSUME NEW k \in Workers PROVE WorkerOK(k)'
    <3>1. WorkerOK(k)
      BY DEF IInv, WorkerInv
    <3>2. CASE k = j
      BY <1>1, <1>2, <3>1, <3>2 DEF WorkerOK, masterVars
    <3>3. CASE k # j
      BY <1>1, <1>2, <3>1, <3>3 DEF WorkerOK, masterVars
    <3>. QED  BY <3>2, <3>3
  <2>. QED  BY <1>2, <2>1 DEF WorkerInv
<1>6. RanInv' /\ SentInv' /\ UniqueInv'
  BY <1>1, Frames DEF IInv, masterVars, history
<1>7. PendingInv'
  <2>1. \A k \in worker : Lost(k) => Lost(k)'
    BY <1>1, <1>2 DEF IInv, TypeInv, Lost
  <2>. QED  BY <1>1, <1>2, <2>1 DEF IInv, PendingInv, masterVars, history
<1>8. CountInv'
  <2>1. Uncounted' = Uncounted
    BY <1>1, <1>2 DEF IInv, TypeInv, Uncounted, masterVars
  <2>2. Passed' = Passed
    BY <1>1, <1>2 DEF Passed, history
  <2>. QED  BY <1>1, <2>1, <2>2 DEF IInv, CountInv, masterVars
<1>. QED  BY <1>2, <1>3, <1>4, <1>5, <1>6, <1>7, <1>8 DEF IInv

\* A worker takes the command that was sent to it: to end, or a test that
\* nobody else has.
LEMMA StepReceive ==
  ASSUME IInv, NEW j \in Workers, Receive(j)
  PROVE  IInv'
<1>. DEFINE c == Head(commands[j])
<1>1. /\ state[j] = "wait" /\ commands[j] # <<>>
      /\ commands' = [commands EXCEPT ![j] = Tail(@)]
      /\ c < 0 => state' = [state EXCEPT ![j] = "exit"] /\ UNCHANGED <<task, runs>>
      /\ ~(c < 0) => /\ state' = [state EXCEPT ![j] = "run"]
                     /\ task' = [task EXCEPT ![j] = c]
                     /\ runs' = [runs EXCEPT ![c] = @ + 1]
      /\ UNCHANGED <<n_workers, failing, masterVars, requests, killed, threadVars, hooks>>
  BY DEF Receive, Start
<1>2. commands[j] = <<c>> /\ c \in Tests \cup {-1} /\ Tail(commands[j]) = <<>>
  <2>1. PICK b \in Tests \cup {-1} : commands[j] = <<b>>
    BY <1>1 DEF IInv, TypeInv, Commands
  <2>. QED  BY <2>1, Singles
<1>3. (c < 0 <=> c = -1) /\ (c \notin Tests <=> c = -1) /\ \A t \in Tests : t # -1
  BY <1>2, Sizes DEF IInv
<1>. HIDE DEF c
<1>4. requests[j] = 0 /\ task[j] = -1 /\ (c = -1 => j \notin worker)
  BY <1>1, <1>2 DEF IInv, TypeInv, WorkerInv, WorkerOK
<1>5. c \in Tests => /\ runs[c] = 0 /\ hooks[c] = 0 /\ c < dispatched /\ j \in worker \ first
  <2>1. c \in Tests => runs[c] = 0 /\ c < dispatched /\ j \in worker \ first
    BY <1>2 DEF IInv, SentInv
  <2>. QED  BY <2>1 DEF IInv, RanInv, TypeInv
<1>. DEFINE s == IF c = -1 THEN "exit" ELSE "run"
<1>6. /\ n_workers > 1 /\ Workers' = Workers /\ Tests' = Tests
      /\ state'[j] = s /\ state' \in [Workers -> States]
      /\ \A k \in Workers \ {j} : state'[k] = state[k]
      /\ SerialInv' /\ FlagInv' /\ MasterInv' /\ ExitInv' /\ StateInv'
  <2>1. state' = [state EXCEPT ![j] = s] /\ s \in {"request", "wait", "run", "exit", "dead"}
    BY <1>1, <1>3
  <2>. QED  BY <1>1, <2>1, StepProcess
<1>7. commands'[j] = <<>> /\ \A k \in Workers \ {j} : commands'[k] = commands[k]
  BY <1>1, <1>2 DEF IInv, TypeInv
<1>8. task'[j] = c /\ \A k \in Workers \ {j} : task'[k] = task[k]
  BY <1>1, <1>3, <1>4 DEF IInv, TypeInv
<1>9. /\ c \in Tests => runs'[c] = 1
      /\ \A t \in Tests \ {c} : runs'[t] = runs[t]
  BY <1>1, <1>3, <1>5 DEF IInv, TypeInv
<1>10. TypeInv'
  <2>1. commands' \in [Workers -> Commands]
    BY <1>1, <1>2 DEF IInv, TypeInv, Commands
  <2>2. task' \in [Workers -> Tests \cup {-1}]
    BY <1>1, <1>2, <1>3 DEF IInv, TypeInv
  <2>3. runs' \in [Tests -> {0, 1}]
    BY <1>1, <1>3, <1>5 DEF IInv, TypeInv
  <2>. QED  BY <1>1, <1>6, <2>1, <2>2, <2>3 DEF IInv, TypeInv, masterVars, Commands
<1>11. ReadyInv'
  BY <1>1, <1>4, <1>6 DEF IInv, ReadyInv, TypeInv, masterVars
<1>12. WorkerInv'
  <2>1. ASSUME NEW k \in Workers PROVE WorkerOK(k)'
    <3>1. WorkerOK(k)
      BY DEF IInv, WorkerInv
    <3>2. CASE k = j
      BY <1>1, <1>3, <1>4, <1>6, <1>7, <1>8, <3>2, Singles DEF WorkerOK, masterVars
    <3>3. CASE k # j
      BY <1>1, <1>6, <1>7, <1>8, <3>1, <3>3 DEF WorkerOK, masterVars
    <3>. QED  BY <3>2, <3>3
  <2>. QED  BY <1>6, <2>1 DEF WorkerInv
<1>13. RanInv'
  <2>1. ASSUME NEW t \in Tests
        PROVE  /\ hooks'[t] <= runs'[t]
               /\ runs'[t] = 1 => t < dispatched'
               /\ hooks'[t] # runs'[t] => \E k \in Workers : task'[k] = t
    <3>1. CASE t = c
      BY <1>1, <1>5, <1>8, <1>9, <3>1 DEF masterVars
    <3>2. CASE t # c
      <4>1. runs'[t] = runs[t] /\ hooks'[t] = hooks[t] /\ dispatched' = dispatched
        BY <1>1, <1>9, <3>2 DEF masterVars
      <4>2. \A k \in Workers : task[k] = t => task'[k] = t
        BY <1>3, <1>4, <1>8
      <4>. QED  BY <1>6, <4>1, <4>2 DEF IInv, RanInv
    <3>. QED  BY <3>1, <3>2
  <2>. QED  BY <1>6, <2>1 DEF RanInv
<1>14. SentInv'
  <2>1. ASSUME NEW k \in Workers, NEW t \in Tests, commands'[k] = <<t>>
        PROVE  t < dispatched' /\ runs'[t] = 0 /\ k \in worker' \ first'
    <3>1. k # j /\ commands[k] = <<t>>
      BY <1>7, <2>1, Singles
    <3>2. t # c
      BY <1>2, <3>1 DEF IInv, UniqueInv
    <3>. QED  BY <1>1, <1>9, <3>1, <3>2 DEF IInv, SentInv, masterVars
  <2>2. ASSUME NEW k \in Workers, NEW t \in Tests, task'[k] = t
        PROVE  runs'[t] = 1 /\ hooks'[t] = 0 /\ k \in worker' \ first'
    <3>1. CASE k = j
      BY <1>1, <1>5, <1>8, <1>9, <2>2, <3>1 DEF masterVars
    <3>2. CASE k # j
      <4>1. task[k] = t
        BY <1>8, <2>2, <3>2
      <4>2. runs[t] = 1 /\ hooks[t] = 0 /\ k \in worker \ first
        BY <4>1 DEF IInv, SentInv
      <4>. QED  BY <1>1, <1>5, <1>9, <4>2 DEF masterVars
    <3>. QED  BY <3>1, <3>2
  <2>. QED  BY <1>6, <2>1, <2>2 DEF SentInv
<1>15. UniqueInv'
  <2>1. \A k \in Workers : \A t \in Tests : commands'[k] = <<t>> => commands[k] = <<t>>
    BY <1>7, Singles
  <2>2. \A k \in Workers \ {j} : \A t \in Tests : task'[k] = t => task[k] = t /\ t # c
    BY <1>5, <1>8 DEF IInv, SentInv
  <2>. QED  BY <1>6, <1>8, <2>1, <2>2 DEF IInv, UniqueInv
<1>16. PendingInv'
  <2>1. ASSUME NEW t \in Tests, NEW k \in worker,
               commands[k] = <<t>> \/ task[k] = t \/ Lost(k)
        PROVE  commands'[k] = <<t>> \/ task'[k] = t \/ Lost(k)'
    <3>1. k \in Workers
      BY DEF IInv, TypeInv
    <3>2. CASE k = j
      BY <1>1, <1>2, <1>3, <1>4, <1>8, <2>1, <3>2, Singles DEF Lost
    <3>3. CASE k # j
      BY <1>1, <1>6, <1>7, <1>8, <2>1, <3>1, <3>3 DEF Lost
    <3>. QED  BY <3>2, <3>3
  <2>. QED  BY <1>1, <1>6, <2>1 DEF IInv, PendingInv, masterVars
<1>17. CountInv'
  <2>1. Uncounted' = Uncounted
    BY <1>1, <1>4, <1>6 DEF IInv, TypeInv, Uncounted, masterVars
  <2>2. Passed' = Passed
    BY <1>1, <1>6 DEF Passed
  <2>. QED  BY <1>1, <2>1, <2>2 DEF IInv, CountInv, masterVars
<1>. QED
  BY <1>6, <1>10, <1>11, <1>12, <1>13, <1>14, <1>15, <1>16, <1>17 DEF IInv

\* A test ends in a worker: it has passed and the worker will say so, or the
\* worker dies of it.
LEMMA StepRun ==
  ASSUME IInv, NEW j \in Workers, Run(j)
  PROVE  IInv'
<1>. DEFINE r == task[j]
            s == IF r \in failing THEN "dead" ELSE "request"
<1>1. /\ state[j] = "run"
      /\ hooks' = [hooks EXCEPT ![r] = @ + 1]
      /\ state' = [state EXCEPT ![j] = s]
      /\ task' = [task EXCEPT ![j] = -1]
      /\ UNCHANGED <<n_workers, failing, masterVars, requests, commands, killed, threadVars, runs>>
  BY DEF Run, run_defers
<1>2. requests[j] = 0 /\ commands[j] = <<>> /\ r \in Tests /\ \A t \in Tests : t # -1
  <2>1. WorkerOK(j) /\ requests[j] \in {0, 1} /\ task[j] \in Tests \cup {-1}
    BY DEF IInv, TypeInv, WorkerInv
  <2>2. requests[j] = 0 /\ commands[j] = <<>> /\ r \in Tests
    BY <1>1, <2>1 DEF WorkerOK
  <2>3. \A t \in Tests : t # -1
    BY Sizes DEF IInv
  <2>. QED  BY <2>2, <2>3
<1>3. runs[r] = 1 /\ hooks[r] = 0 /\ j \in worker \ first
  BY <1>2 DEF IInv, SentInv
<1>4. /\ n_workers > 1 /\ Workers' = Workers /\ Tests' = Tests
      /\ state'[j] = s /\ state' \in [Workers -> States]
      /\ \A k \in Workers \ {j} : state'[k] = state[k]
      /\ SerialInv' /\ FlagInv' /\ MasterInv' /\ ExitInv' /\ StateInv'
  <2>1. s \in {"request", "wait", "run", "exit", "dead"}
    OBVIOUS
  <2>. HIDE DEF s
  <2>. QED  BY <1>1, <2>1, StepProcess
<1>. HIDE DEF r
<1>5. task'[j] = -1 /\ \A k \in Workers \ {j} : task'[k] = task[k]
  BY <1>1 DEF IInv, TypeInv
<1>6. hooks'[r] = 1 /\ \A t \in Tests \ {r} : hooks'[t] = hooks[t]
  BY <1>1, <1>2, <1>3 DEF IInv, TypeInv
<1>7. \A k \in Workers \ {j} : task[k] # r
  BY <1>2 DEF IInv, UniqueInv, r
<1>8. TypeInv'
  <2>1. task' \in [Workers -> Tests \cup {-1}]
    BY <1>1 DEF IInv, TypeInv
  <2>2. hooks' \in [Tests -> {0, 1}]
    BY <1>1, <1>2, <1>3 DEF IInv, TypeInv
  <2>. QED  BY <1>1, <1>4, <2>1, <2>2 DEF IInv, TypeInv, masterVars
<1>9. ReadyInv'
  BY <1>1, <1>2, <1>4 DEF IInv, ReadyInv, TypeInv, masterVars
<1>10. WorkerInv'
  <2>1. ASSUME NEW k \in Workers PROVE WorkerOK(k)'
    <3>1. WorkerOK(k)
      BY DEF IInv, WorkerInv
    <3>2. CASE k = j
      <4>1. /\ requests'[j] = 0 /\ commands'[j] = <<>> /\ task'[j] = -1
            /\ <<>> # <<-1>> /\ failing' = failing
        BY <1>1, <1>2, <1>5, Singles
      <4>2. state'[j] = "request" \/ (state'[j] = "dead" /\ failing # {})
        BY <1>4
      <4>. QED  BY <3>2, <4>1, <4>2 DEF WorkerOK
    <3>3. CASE k # j
      BY <1>1, <1>4, <1>5, <3>1, <3>3 DEF WorkerOK, masterVars
    <3>. QED  BY <3>2, <3>3
  <2>. QED  BY <1>4, <2>1 DEF WorkerInv
<1>11. RanInv'
  <2>1. ASSUME NEW t \in Tests
        PROVE  /\ hooks'[t] <= runs'[t]
               /\ runs'[t] = 1 => t < dispatched'
               /\ hooks'[t] # runs'[t] => \E k \in Workers : task'[k] = t
    <3>1. CASE t = r
      BY <1>1, <1>2, <1>3, <1>4, <1>6, <3>1 DEF IInv, RanInv, masterVars
    <3>2. CASE t # r
      <4>1. runs'[t] = runs[t] /\ hooks'[t] = hooks[t] /\ dispatched' = dispatched
        BY <1>1, <1>6, <3>2 DEF masterVars
      <4>2. \A k \in Workers : task[k] = t => task'[k] = t
        BY <1>5, <3>2 DEF r
      <4>. QED  BY <1>4, <4>1, <4>2 DEF IInv, RanInv
    <3>. QED  BY <3>1, <3>2
  <2>. QED  BY <1>4, <2>1 DEF RanInv
<1>12. SentInv'
  <2>1. ASSUME NEW k \in Workers, NEW t \in Tests, commands[k] = <<t>>
        PROVE  t < dispatched' /\ runs'[t] = 0 /\ k \in worker' \ first'
    BY <1>1, <2>1 DEF IInv, SentInv, masterVars
  <2>2. ASSUME NEW k \in Workers, NEW t \in Tests, task'[k] = t
        PROVE  runs'[t] = 1 /\ hooks'[t] = 0 /\ k \in worker' \ first'
    <3>1. k # j /\ task[k] = t
      BY <1>2, <1>5, <2>2
    <3>2. t # r
      BY <1>7, <3>1
    <3>. QED  BY <1>1, <1>6, <3>1, <3>2 DEF IInv, SentInv, masterVars
  <2>. QED  BY <1>1, <1>4, <2>1, <2>2 DEF SentInv
<1>13. UniqueInv'
  BY <1>1, <1>2, <1>4, <1>5 DEF IInv, UniqueInv
<1>14. PendingInv'
  <2>1. ASSUME NEW t \in Tests, t < dispatched
        PROVE  \/ hooks'[t] = 1 /\ t \notin failing
               \/ \E k \in worker : commands[k] = <<t>> \/ task'[k] = t \/ Lost(k)'
    <3>1. CASE t = r /\ r \notin failing
      BY <1>6, <3>1
    <3>2. CASE t = r /\ r \in failing
      BY <1>1, <1>2, <1>3, <1>4, <3>2 DEF Lost
    <3>3. CASE t # r
      <4>1. CASE hooks[t] = 1 /\ t \notin failing
        BY <1>6, <3>3, <4>1
      <4>2. CASE \E k \in worker : commands[k] = <<t>> \/ task[k] = t \/ Lost(k)
        <5>1. PICK k \in worker : commands[k] = <<t>> \/ task[k] = t \/ Lost(k)
          BY <4>2
        <5>2. k # j /\ k \in Workers
          BY <1>1, <1>2, <3>3, <5>1, Singles DEF IInv, TypeInv, Lost, r
        <5>. QED  BY <1>1, <1>4, <1>5, <5>1, <5>2 DEF Lost
      <4>. QED  BY <2>1, <4>1, <4>2 DEF IInv, PendingInv
    <3>. QED  BY <3>1, <3>2, <3>3
  <2>. QED  BY <1>1, <1>4, <2>1 DEF PendingInv, masterVars
<1>15. CountInv'
  <2>1. /\ IsFiniteSet(Uncounted) /\ Cardinality(Uncounted) \in Nat
        /\ IsFiniteSet(Passed) /\ Cardinality(Passed) \in Nat /\ passed \in Nat
    BY Finite DEF IInv, TypeInv
  <2>2. j \notin Uncounted
    BY <1>1, <1>2 DEF Uncounted
  <2>3. passed' = passed /\ (failed' <=> failed)
    BY <1>1 DEF masterVars
  <2>4. CASE r \in failing
    <3>1. Uncounted' = Uncounted
      BY <1>1, <1>2, <1>4, <2>4 DEF IInv, TypeInv, Uncounted, masterVars
    <3>2. Passed' = Passed
      BY <1>1, <1>4, <1>6, <2>4 DEF Passed
    <3>. QED  BY <2>3, <3>1, <3>2 DEF IInv, CountInv
  <2>5. CASE r \notin failing
    <3>1. Uncounted' = Uncounted \cup {j}
      BY <1>1, <1>2, <1>3, <1>4, <2>5 DEF IInv, TypeInv, Uncounted, masterVars
    <3>2. Passed' = Passed \cup {r} /\ r \notin Passed
      BY <1>1, <1>2, <1>3, <1>4, <1>6, <2>5 DEF Passed
    <3>3. Cardinality(Uncounted') = Cardinality(Uncounted) + 1
      BY <2>1, <2>2, <3>1, FS_AddElement
    <3>4. Cardinality(Passed') = Cardinality(Passed) + 1
      BY <2>1, <3>2, FS_AddElement
    <3>. QED  BY <2>1, <2>3, <3>3, <3>4 DEF IInv, CountInv
  <2>. QED  BY <2>4, <2>5
<1>. QED
  BY <1>4, <1>8, <1>9, <1>10, <1>11, <1>12, <1>13, <1>14, <1>15 DEF IInv

-----------------------------------------------------------------------------
(* The theorems.                                                            *)

\* Nothing has begun.
LEMMA InitInv == Init => IInv
<1>. SUFFICES ASSUME Init PROVE IInv
  OBVIOUS
<1>1. /\ n_workers \in 1..MAX_WORKERS /\ n_workers \in Nat /\ n_workers >= 1 /\ total \in Nat
      /\ Workers = 1..n_workers /\ \A t \in Tests : t \in Nat /\ t # -1
  BY TestbenchAssumption DEF Init, Workers, Tests
<1>2. /\ state = [j \in Workers |-> "none"] /\ task = [j \in Workers |-> -1]
      /\ requests = [j \in Workers |-> 0] /\ commands = [j \in Workers |-> <<>>]
      /\ runs = [t \in Tests |-> 0] /\ hooks = [t \in Tests |-> 0]
      /\ i = 0 /\ dispatched = 0 /\ exited = 0 /\ passed = 0 /\ failed = FALSE
      /\ first = {} /\ worker = {} /\ master = FALSE /\ ready = {} /\ killed = {}
      /\ failing \subseteq Tests /\ pc = IF n_workers = 1 THEN "serial" ELSE "spawn"
  BY DEF Init
<1>3. TypeInv
  <2>1. state \in [Workers -> States] /\ task \in [Workers -> Tests \cup {-1}]
    BY <1>2 DEF States
  <2>2. requests \in [Workers -> {0, 1}] /\ commands \in [Workers -> Commands]
    BY <1>2 DEF Commands
  <2>3. runs \in [Tests -> {0, 1}] /\ hooks \in [Tests -> {0, 1}]
    BY <1>2
  <2>4. /\ pc \in Phases /\ i \in Nat /\ dispatched \in 0..total /\ exited \in Nat
        /\ passed \in Nat /\ failed \in BOOLEAN /\ master \in BOOLEAN
        /\ first \subseteq Workers /\ worker \subseteq Workers /\ ready \subseteq Workers
        /\ killed \subseteq Workers
    <3>1. pc = "serial" \/ pc = "spawn"
      BY <1>2
    <3>2. /\ i \in Nat /\ dispatched \in 0..total /\ exited \in Nat /\ passed \in Nat
          /\ failed \in BOOLEAN /\ master \in BOOLEAN
      <4>1. i = 0 /\ dispatched = 0 /\ exited = 0 /\ passed = 0
        BY <1>2
      <4>2. i \in Nat /\ dispatched \in 0..total /\ exited \in Nat /\ passed \in Nat
        BY <1>1, <4>1
      <4>3. failed \in BOOLEAN /\ master \in BOOLEAN
        BY DEF Init
      <4>. QED  BY <4>2, <4>3
    <3>. QED  BY <1>2, <3>1, <3>2 DEF Phases
  <2>5. n_workers \in 1..MAX_WORKERS /\ failing \subseteq Tests
    BY DEF Init
  <2>. QED  BY <2>1, <2>2, <2>3, <2>4, <2>5 DEF TypeInv
<1>4. FlagInv
  BY DEF Init, TW!ThreadInit, FlagInv
<1>5. SerialInv
  BY <1>1, <1>2 DEF SerialInv
<1>6. MasterInv /\ ExitInv /\ ReadyInv
  BY <1>1, <1>2 DEF MasterInv, ExitInv, ReadyInv
<1>7. StateInv
  BY <1>1, <1>2 DEF StateInv
<1>8. WorkerInv
  BY <1>2, Singles DEF WorkerInv, WorkerOK
<1>9. RanInv /\ PendingInv
  BY <1>1, <1>2 DEF RanInv, PendingInv
<1>10. SentInv /\ UniqueInv
  BY <1>1, <1>2, Singles DEF SentInv, UniqueInv
<1>11. CountInv
  <2>1. Passed = {} /\ Uncounted = {}
    BY <1>2 DEF Passed, Uncounted
  <2>. QED  BY <1>2, <2>1, FS_EmptySet DEF CountInv
<1>. QED
  BY <1>3, <1>4, <1>5, <1>6, <1>7, <1>8, <1>9, <1>10, <1>11 DEF IInv

\* Every step keeps the invariant.
LEMMA StepInv == IInv /\ [Next]_vars => IInv'
<1>. SUFFICES ASSUME IInv, [Next]_vars PROVE IInv'
  OBVIOUS
<1>1. CASE Serial
  BY <1>1, StepRunSerial, StepReturns, StepAborts, StepSerialEnd DEF Serial
<1>2. CASE Parallel
  BY <1>2, StepSpawn, StepSelect, StepNotReady, StepEof, StepServe, StepClose, StepReap
  DEF Parallel
<1>3. ASSUME NEW j \in Workers, Process(j) PROVE IInv'
  BY <1>3, StepRequest, StepReceive, StepHangUp, StepRun, StepExit DEF Process
<1>4. ASSUME NEW t \in Tests, Status(t) PROVE IInv'
  BY <1>4, StepStatus
<1>5. CASE UNCHANGED vars
  <2>1. /\ UNCHANGED <<n_workers, failing>> /\ UNCHANGED masterVars /\ UNCHANGED workerVars
        /\ UNCHANGED threadVars /\ UNCHANGED history
    BY <1>5 DEF vars
  <2>2. TypeInv'
    BY <2>1 DEF IInv, TypeInv, masterVars, workerVars, history, Workers
  <2>3. SerialInv' /\ MasterInv'
    BY <2>1 DEF IInv, SerialInv, MasterInv, masterVars, workerVars, history, Workers
  <2>4. StateInv' /\ ReadyInv'
    BY <2>1 DEF IInv, StateInv, ReadyInv, masterVars, workerVars, Workers
  <2>5. /\ FlagInv' /\ ExitInv' /\ WorkerInv' /\ RanInv' /\ SentInv' /\ UniqueInv'
        /\ PendingInv' /\ CountInv'
    BY <2>1, Frames DEF IInv, masterVars, workerVars, history
  <2>. QED  BY <2>2, <2>3, <2>4, <2>5 DEF IInv
<1>. QED  BY <1>1, <1>2, <1>3, <1>4, <1>5 DEF Next

\* The invariant is one of every behaviour.
THEOREM Invariance == Spec => []IInv
<1>1. Init => IInv
  BY InitInv
<1>2. IInv /\ [Next]_vars => IInv'
  BY StepInv
<1>. QED  BY <1>1, <1>2, PTL DEF Spec

\* When every worker has been let go, no pipe is open.
LEMMA AllGone ==
  ASSUME IInv, pc = "done", ~failed
  PROVE  worker = {}
<1>1. CASE n_workers = 1
  BY <1>1 DEF IInv, SerialInv
<1>2. CASE n_workers > 1
  <2>1. exited + Cardinality(worker) = n_workers /\ exited = n_workers
    BY <1>2 DEF IInv, ExitInv, MasterInv
  <2>2. Cardinality(worker) = 0
    BY <2>1, Sizes, Finite DEF IInv
  <2>. QED  BY <2>2, Finite, FS_EmptySet DEF IInv
<1>. QED  BY <1>1, <1>2, Sizes DEF IInv

\* A testbench that ends without a failure has seen every test pass.
LEMMA AllPassed ==
  ASSUME IInv, pc = "done", ~failed
  PROVE  /\ Passed = Tests /\ failing = {} /\ passed = total
         /\ \A t \in Tests : runs[t] = 1
<1>1. worker = {}
  BY AllGone
<1>2. \A t \in Tests : hooks[t] = 1 /\ t \notin failing
  <2>1. CASE n_workers = 1
    BY <2>1, Sizes DEF IInv, SerialInv
  <2>2. CASE n_workers > 1
    <3>1. exited = n_workers /\ (exited > 0 => dispatched = total)
      BY <2>2 DEF IInv, MasterInv
    <3>2. dispatched = total
      BY <2>2, <3>1, Sizes DEF IInv
    <3>. QED  BY <1>1, <3>2, Sizes DEF IInv, PendingInv
  <2>. QED  BY <2>1, <2>2, Sizes DEF IInv
<1>3. Passed = Tests /\ failing = {}
  BY <1>2 DEF Passed, IInv, TypeInv
<1>4. \A t \in Tests : runs[t] = 1
  BY <1>2 DEF IInv, RanInv, TypeInv
<1>5. passed = total
  <2>1. Uncounted = {}
    BY <1>1 DEF Uncounted
  <2>2. passed + 0 = Cardinality(Passed) /\ passed \in Nat
    BY <2>1, FS_EmptySet DEF IInv, CountInv, TypeInv
  <2>. QED  BY <1>3, <2>2, Finite DEF IInv
<1>. QED  BY <1>3, <1>4, <1>5

\* What run_serial and run_parallel count with stays in range, and every
\* worker is in one of the states of run_worker.
THEOREM TypeCorrect == Spec => []TypeOK
<1>1. IInv => TypeOK
  <2>. SUFFICES ASSUME IInv PROVE TypeOK
    OBVIOUS
  <2>1. passed \in 0..total
    <3>1. Passed \in SUBSET Tests
      BY DEF Passed
    <3>2. Cardinality(Passed) <= total
      BY <3>1, Finite, FS_Subset DEF IInv
    <3>3. passed + Cardinality(Uncounted) <= Cardinality(Passed) /\ passed \in Nat
      BY DEF IInv, CountInv, TypeInv
    <3>. QED  BY <3>2, <3>3, Finite, Sizes DEF IInv
  <2>2. exited \in 0..n_workers
    <3>1. CASE n_workers > 1 /\ pc # "spawn"
      BY <3>1, Finite, Sizes DEF IInv, ExitInv, TypeInv
    <3>2. CASE n_workers > 1 /\ pc = "spawn"
      BY <3>2, Sizes DEF IInv, MasterInv
    <3>3. CASE n_workers = 1
      BY <3>3, Sizes DEF IInv, SerialInv
    <3>. QED  BY <3>1, <3>2, <3>3, Sizes DEF IInv
  <2>. QED  BY <2>1, <2>2 DEF IInv, TypeInv, TypeOK, Phases, States
<1>. QED  BY <1>1, Invariance, PTL

\* testbench.cpp's master never hands a test out twice, and never sends to a
\* worker that has not asked (run_parallel, run_worker).
THEOREM RunsOnce == Spec => []RunOnce
<1>1. IInv => RunOnce
  <2>. SUFFICES ASSUME IInv PROVE RunOnce
    OBVIOUS
  <2>1. \A t \in Tests : runs[t] <= 1
    BY DEF IInv, TypeInv
  <2>2. ASSUME NEW j \in Workers
        PROVE  /\ requests[j] + Len(commands[j]) <= 1
               /\ commands[j] # <<>> => state[j] \in {"wait", "reaped"}
    <3>1. WorkerOK(j) /\ requests[j] \in {0, 1} /\ commands[j] \in Commands
      BY DEF IInv, WorkerInv, TypeInv
    <3>2. CASE commands[j] = <<>>
      BY <3>1, <3>2
    <3>3. CASE commands[j] # <<>>
      <4>1. Len(commands[j]) = 1
        BY <3>1, <3>3, Singles DEF Commands
      <4>2. requests[j] = 0
        BY <3>1, <3>3 DEF WorkerOK
      <4>. QED  BY <3>1, <4>1, <4>2 DEF WorkerOK
    <3>. QED  BY <3>2, <3>3
  <2>. QED  BY <2>1, <2>2 DEF RunOnce
<1>. QED  BY <1>1, Invariance, PTL

\* What run_testbench returns is right: a failure exactly if a test fails,
\* all tests counted without one, and no worker left behind.
THEOREM RightVerdict == Spec => []Verdict
<1>1. IInv => Verdict
  <2>. SUFFICES ASSUME IInv, pc = "done" PROVE Verdict
    BY DEF Verdict
  <2>1. failed => failing # {}
    BY Sizes DEF IInv, MasterInv, SerialInv
  <2>2. ~failed => failing = {} /\ passed = total /\ \A t \in Tests : runs[t] = 1
    BY AllPassed
  <2>3. passed <= Cardinality({t \in Tests : runs[t] = 1} \ failing)
    <3>. DEFINE S == {t \in Tests : runs[t] = 1} \ failing
    <3>1. S \in SUBSET Tests
      OBVIOUS
    <3>2. Passed \in SUBSET S
      BY DEF Passed, IInv, RanInv, TypeInv
    <3>. HIDE DEF S
    <3>3. IsFiniteSet(S)
      BY <3>1, Finite, FS_Subset DEF IInv
    <3>4. Cardinality(Passed) <= Cardinality(S) /\ Cardinality(S) \in Nat
      BY <3>2, <3>3, FS_Subset, FS_CardinalityType
    <3>5. passed + Cardinality(Uncounted) <= Cardinality(Passed) /\ passed \in Nat
      BY DEF IInv, CountInv, TypeInv
    <3>6. passed <= Cardinality(S)
      BY <3>4, <3>5, Finite DEF IInv
    <3>. QED  BY <3>6 DEF S
  <2>4. n_workers > 1 => \A j \in Workers : state[j] = "reaped"
    BY DEF IInv, StateInv
  <2>. QED  BY <2>1, <2>2, <2>3, <2>4 DEF Verdict
<1>. QED  BY <1>1, Invariance, PTL

\* run_defers is called exactly once for a test that was started, by the test
\* that returns and by abort_testbench, unless kill got there first.
THEOREM HooksRunOnce == Spec => []HooksOnce
<1>1. IInv => HooksOnce
  <2>. SUFFICES ASSUME IInv PROVE HooksOnce
    OBVIOUS
  <2>1. \A t \in Tests : hooks[t] <= runs[t]
    BY DEF IInv, RanInv
  <2>2. ASSUME pc \in {"done", "aborted"}, NEW t \in Tests, hooks[t] # runs[t]
        PROVE  \E j \in killed : task[j] = t
    <3>1. n_workers > 1
      <4>1. n_workers # 1
        BY <2>2, Sizes DEF IInv, SerialInv
      <4>. QED  BY <4>1, Sizes DEF IInv
    <3>2. pc = "done"
      BY <2>2, <3>1 DEF IInv, MasterInv
    <3>3. PICK j \in Workers : task[j] = t
      BY <2>2, <3>1 DEF IInv, RanInv
    <3>4. state[j] = "reaped"
      BY <3>1, <3>2 DEF IInv, StateInv
    <3>5. task[j] # -1
      BY <3>3, Sizes DEF IInv
    <3>. QED  BY <3>3, <3>4, <3>5 DEF IInv, WorkerInv, WorkerOK
  <2>. QED  BY <2>1, <2>2 DEF HooksOnce
<1>. QED  BY <1>1, Invariance, PTL

\* thread_worker.h: the flag a status thread polls outlives the thread's use
\* of it, and its owner's.
THEOREM FlagsAlive == Spec => []FlagAlive
<1>1. IInv => FlagAlive
  BY DEF IInv, FlagInv, FlagAlive
<1>. QED  BY <1>1, Invariance, PTL
=============================================================================
