------------------------------ MODULE Testbench ------------------------------
(***************************************************************************)
(* verilate/vsrc/testbench.cpp: the registered tests, run one after the     *)
(* other in this process, with a thread that reports on each, or handed to  *)
(* forked workers over pipes.  A failed assertion aborts the process it     *)
(* fails in, after the hooks of its test.                                   *)
(***************************************************************************)
EXTENDS Integers, Sequences, FiniteSets

CONSTANTS total,      \* the number of tests
          MAX_WORKERS \* bound: workers the command line asks for

ASSUME TestbenchAssumption == total \in Nat /\ MAX_WORKERS \in Nat \ {0}

Tests == 0..(total - 1)

VARIABLES n_workers, failing,  \* the command line, and the tests that fail
          pc, i,               \* where the main process is, and its loop variable
          dispatched, exited, passed, failed,
          first,               \* workers that have not asked yet
          worker,              \* the ends of worker pipes that are open in master
          master,              \* the master's ends of its pipes are open
          ready,               \* what select has returned
          state, task,         \* of each worker process
          requests, commands,  \* what is in the pipes
          thread, flag, stopped, misused,  \* ThreadWorker
          runs, hooks, killed  \* history

TW == INSTANCE ThreadWorker WITH Threads <- Tests

masterVars == <<pc, i, dispatched, exited, passed, failed, first, worker, master, ready>>
workerVars == <<state, task, requests, commands, killed>>
threadVars == <<thread, flag, stopped, misused>>
history == <<runs, hooks>>
vars == <<n_workers, failing, masterVars, workerVars, threadVars, history>>

Workers == 1..n_workers

Init ==
  /\ n_workers \in 1..MAX_WORKERS
  /\ failing \in SUBSET Tests
  /\ pc = IF n_workers = 1 THEN "serial" ELSE "spawn"
  /\ i = 0
  /\ dispatched = 0 /\ exited = 0 /\ passed = 0 /\ failed = FALSE
  /\ first = {} /\ worker = {} /\ master = FALSE /\ ready = {}
  /\ state = [j \in Workers |-> "none"] /\ task = [j \in Workers |-> -1]
  /\ requests = [j \in Workers |-> 0] /\ commands = [j \in Workers |-> <<>>]
  /\ TW!ThreadInit
  /\ runs = [t \in Tests |-> 0] /\ hooks = [t \in Tests |-> 0]
  /\ killed = {}

\* ITestbench::_run: whether the body returns, is skipped or aborts, the hooks
\* that were deferred run.
Start(t) == runs' = [runs EXCEPT ![t] = @ + 1]
run_defers(t) == hooks' = [hooks EXCEPT ![t] = @ + 1]

-----------------------------------------------------------------------------
\* run_serial.
RunSerial ==
  /\ pc = "serial" /\ i < total
  /\ TW!at_interval(i)
  /\ Start(i)
  /\ pc' = "testing"
  /\ UNCHANGED <<n_workers, failing, i, dispatched, exited, passed, failed, first, worker,
                 master, ready, workerVars, hooks>>

Returns ==
  /\ pc = "testing" /\ i \notin failing
  /\ run_defers(i)
  /\ TW!stop(i)
  /\ passed' = passed + 1
  /\ pc' = "serial" /\ i' = i + 1
  /\ UNCHANGED <<n_workers, failing, dispatched, exited, failed, first, worker, master, ready,
                 workerVars, runs>>

\* Mutant: a failed assertion aborts at once.
AbortsAtOnce ==
  /\ pc = "testing" /\ i \in failing
  /\ pc' = "aborted"
  /\ UNCHANGED <<n_workers, failing, i, dispatched, exited, passed, failed, first, worker,
                 master, ready, workerVars, threadVars, history>>

\* abort_testbench.
Aborts ==
  /\ pc = "testing" /\ i \in failing
  /\ run_defers(i)
  /\ pc' = "aborted"
  /\ UNCHANGED <<n_workers, failing, i, dispatched, exited, passed, failed, first, worker,
                 master, ready, workerVars, threadVars, runs>>

SerialEnd ==
  /\ pc = "serial" /\ i = total
  /\ pc' = "done"
  /\ UNCHANGED <<n_workers, failing, i, dispatched, exited, passed, failed, first, worker,
                 master, ready, workerVars, threadVars, history>>

\* The status threads run as long as the process does.
Status(t) ==
  /\ pc \notin {"done", "aborted"}
  /\ TW!Step(t)
  /\ UNCHANGED <<n_workers, failing, masterVars, workerVars, history>>

-----------------------------------------------------------------------------
\* run_parallel.
Spawn ==
  /\ pc = "spawn" /\ i < n_workers
  /\ i' = i + 1
  /\ state' = [state EXCEPT ![i + 1] = "request"]
  /\ first' = first \cup {i + 1} /\ worker' = worker \cup {i + 1}
  /\ master' = TRUE
  /\ pc' = IF i + 1 = n_workers THEN "select" ELSE "spawn"
  /\ UNCHANGED <<n_workers, failing, dispatched, exited, passed, failed, ready, task, requests,
                 commands, killed, threadVars, history>>

\* Mutant: the end of a worker is not seen.
ReadableData(j) == j \in worker /\ requests[j] > 0

\* A pipe is readable when something is in it, or when the only process that
\* could write to it has ended.
Readable(j) == j \in worker /\ (requests[j] > 0 \/ state[j] = "dead")

Select ==
  /\ pc = "select" /\ ~failed /\ exited < n_workers
  /\ ready' = {j \in Workers : Readable(j)} /\ ready' # {}
  /\ pc' = "scan" /\ i' = 1
  /\ UNCHANGED <<n_workers, failing, dispatched, exited, passed, failed, first, worker, master,
                 workerVars, threadVars, history>>

NextWorker == i' = i + 1 /\ pc' = IF i = n_workers THEN "select" ELSE "scan"

NotReady ==
  /\ pc = "scan" /\ i \notin ready
  /\ NextWorker
  /\ UNCHANGED <<n_workers, failing, dispatched, exited, passed, failed, first, worker, master,
                 ready, workerVars, threadVars, history>>

\* EOF: the worker has failed.
Eof ==
  /\ pc = "scan" /\ i \in ready /\ requests[i] = 0
  /\ failed' = TRUE /\ pc' = "select"
  /\ UNCHANGED <<n_workers, failing, i, dispatched, exited, passed, first, worker, master,
                 ready, workerVars, threadVars, history>>

\* Mutant of Count: the first request counts as well.
CountAll == passed' = passed + 1

\* A request, which but for the first means that a test has passed.
Count == passed' = IF i \in first THEN passed ELSE passed + 1

Send(c) == commands' = [commands EXCEPT ![i] = Append(@, c)]
\* Mutant of SendTest: the next worker gets the same test.
SendSame == Send(dispatched) /\ UNCHANGED <<worker, exited, dispatched>>

SendTest == Send(dispatched) /\ dispatched' = dispatched + 1 /\ UNCHANGED <<worker, exited>>
SendExit ==
  /\ Send(-1)
  /\ worker' = worker \ {i} /\ exited' = exited + 1
  /\ UNCHANGED dispatched
\* Mutant of Reply: one test too many.
ReplyOneMore == IF dispatched <= total THEN SendTest ELSE SendExit

Reply == IF dispatched < total THEN SendTest ELSE SendExit

Serve ==
  /\ pc = "scan" /\ i \in ready /\ requests[i] > 0
  /\ requests' = [requests EXCEPT ![i] = @ - 1]
  /\ Count /\ first' = first \ {i}
  /\ Reply
  /\ NextWorker
  /\ UNCHANGED <<n_workers, failing, failed, master, ready, state, task, killed, threadVars, history>>

Close ==
  /\ pc = "select" /\ (failed \/ exited = n_workers)
  /\ master' = FALSE
  /\ pc' = "reap" /\ i' = 1
  /\ UNCHANGED <<n_workers, failing, dispatched, exited, passed, failed, first, worker, ready,
                 workerVars, threadVars, history>>

\* A worker that still lives when another has failed is killed; every worker
\* is waited for.
Reap ==
  /\ pc = "reap" /\ i <= n_workers
  /\ failed \/ state[i] = "dead"
  /\ killed' = IF state[i] = "dead" THEN killed ELSE killed \cup {i}
  /\ state' = [state EXCEPT ![i] = "reaped"]
  /\ i' = i + 1
  /\ pc' = IF i = n_workers THEN "done" ELSE "reap"
  /\ UNCHANGED <<n_workers, failing, dispatched, exited, passed, failed, first, worker, master,
                 ready, task, requests, commands, threadVars, history>>

-----------------------------------------------------------------------------
\* run_worker.
Request(j) ==
  /\ state[j] = "request"
  /\ requests' = [requests EXCEPT ![j] = @ + 1]
  /\ state' = [state EXCEPT ![j] = "wait"]
  /\ UNCHANGED <<n_workers, failing, masterVars, task, commands, killed, threadVars, history>>

Receive(j) ==
  /\ state[j] = "wait" /\ commands[j] # <<>>
  /\ commands' = [commands EXCEPT ![j] = Tail(@)]
  /\ IF Head(commands[j]) < 0
     THEN state' = [state EXCEPT ![j] = "exit"] /\ UNCHANGED <<task, runs>>
     ELSE /\ state' = [state EXCEPT ![j] = "run"]
          /\ task' = [task EXCEPT ![j] = Head(commands[j])]
          /\ Start(Head(commands[j]))
  /\ UNCHANGED <<n_workers, failing, masterVars, requests, killed, threadVars, hooks>>

\* The workers forked after worker j have inherited the end master writes to.
HangUp(j) ==
  /\ state[j] = "wait" /\ commands[j] = <<>>
  /\ ~master /\ \A k \in Workers : k > j => state[k] \in {"dead", "reaped"}
  /\ state' = [state EXCEPT ![j] = "exit"]
  /\ UNCHANGED <<n_workers, failing, masterVars, task, requests, commands, killed, threadVars, history>>

Run(j) ==
  /\ state[j] = "run"
  /\ run_defers(task[j])
  /\ state' = [state EXCEPT ![j] = IF task[j] \in failing THEN "dead" ELSE "request"]
  /\ task' = [task EXCEPT ![j] = -1]
  /\ UNCHANGED <<n_workers, failing, masterVars, requests, commands, killed, threadVars, runs>>

Exit(j) ==
  /\ state[j] = "exit"
  /\ state' = [state EXCEPT ![j] = "dead"]
  /\ UNCHANGED <<n_workers, failing, masterVars, task, requests, commands, killed, threadVars, history>>

-----------------------------------------------------------------------------
Serial == RunSerial \/ Returns \/ Aborts \/ SerialEnd
Parallel == Spawn \/ Select \/ NotReady \/ Eof \/ Serve \/ Close \/ Reap
Process(j) == Request(j) \/ Receive(j) \/ HangUp(j) \/ Run(j) \/ Exit(j)

Next ==
  \/ Serial \/ Parallel
  \/ \E j \in Workers : Process(j)
  \/ \E t \in Tests : Status(t)

Spec == Init /\ [][Next]_vars

\* The processes and threads are scheduled, and a test ends.
Fairness ==
  /\ WF_vars(Serial) /\ WF_vars(Parallel)
  /\ \A j \in 1..MAX_WORKERS : WF_vars(j \in Workers /\ Process(j))
  /\ \A t \in Tests : WF_vars(Status(t))

FairSpec == Spec /\ Fairness

-----------------------------------------------------------------------------
TypeOK ==
  /\ pc \in {"serial", "testing", "spawn", "select", "scan", "reap", "done", "aborted"}
  /\ {dispatched, passed} \subseteq 0..total /\ exited \in 0..n_workers
  /\ first \subseteq Workers /\ worker \subseteq Workers /\ ready \subseteq Workers
  /\ state \in [Workers -> {"none", "request", "wait", "run", "exit", "dead", "reaped"}]
  /\ task \in [Workers -> Tests \cup {-1}]

\* A test is never run twice, and a worker has at most one command and no test
\* when one is sent to it.
RunOnce ==
  /\ \A t \in Tests : runs[t] <= 1
  /\ \A j \in Workers :
       /\ requests[j] + Len(commands[j]) <= 1
       /\ commands[j] # <<>> => state[j] \in {"wait", "reaped"}

\* When run_testbench returns, a failure has been noticed exactly if there is
\* one; without one every test has been run and is counted ("%d tests
\* passed"); and no worker is left.
Verdict ==
  pc = "done" =>
    /\ failed <=> failing # {}
    /\ ~failed => passed = total /\ \A t \in Tests : runs[t] = 1
    /\ passed <= Cardinality({t \in Tests : runs[t] = 1} \ failing)
    /\ n_workers > 1 => \A j \in Workers : state[j] = "reaped"

\* The hooks of a test that was started run exactly once, also when it aborts,
\* unless its worker is killed.
HooksOnce ==
  /\ \A t \in Tests : hooks[t] <= runs[t]
  /\ pc \in {"done", "aborted"} =>
       \A t \in Tests : hooks[t] = runs[t] \/ \E j \in killed : task[j] = t

\* No thread and no owner touches a flag that has been deleted.
FlagAlive == ~misused

\* The testbench ends, and in it every status thread whose test has ended.
Ends ==
  /\ <>(pc \in {"done", "aborted"})
  /\ \A t \in Tests : (thread[t] # "none" /\ stopped[t]) ~>
                        (thread[t] = "gone" \/ pc \in {"done", "aborted"})
=============================================================================
