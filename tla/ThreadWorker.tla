---------------------------- MODULE ThreadWorker ----------------------------
(***************************************************************************)
(* class ThreadWorker of verilate/vsrc/common.cpp: a detached thread that   *)
(* calls a function again and again until its owner sets a flag on the      *)
(* heap, which the thread then deletes.  The owner never joins it.          *)
(***************************************************************************)
CONSTANT Threads

VARIABLES thread,  \* where each thread is
          flag,    \* its flag: FALSE, TRUE, "none" or, once deleted, "freed"
          stopped, \* the field of its owner
          misused  \* history: a deleted flag has been read or written

threadVars == <<thread, flag, stopped, misused>>

ThreadInit ==
  /\ thread = [t \in Threads |-> "none"]
  /\ flag = [t \in Threads |-> "none"]
  /\ stopped = [t \in Threads |-> TRUE]
  /\ misused = FALSE

\* The constructor, and the move into the variable of the owner, which leaves
\* the temporary stopped.
at_interval(t) ==
  /\ thread' = [thread EXCEPT ![t] = "check"]
  /\ flag' = [flag EXCEPT ![t] = "false"]
  /\ stopped' = [stopped EXCEPT ![t] = FALSE]
  /\ UNCHANGED misused

\* Mutant: the thread calls its function once and deletes the flag.
once == FALSE

\* at_interval and loop make a thread that repeats.
repeat == TRUE

\* while (!(*ptr))
Check(t) ==
  /\ thread[t] = "check"
  /\ misused' = (misused \/ flag[t] = "freed")
  /\ thread' = [thread EXCEPT ![t] = IF flag[t] = "true" THEN "final" ELSE "fn"]
  /\ UNCHANGED <<flag, stopped>>

\* fn, which writes the status line of the test.
Fn(t) ==
  /\ thread[t] = "fn"
  /\ thread' = [thread EXCEPT ![t] = "sleep"]
  /\ UNCHANGED <<flag, stopped, misused>>

Wake(t) ==
  /\ thread[t] = "sleep"
  /\ thread' = [thread EXCEPT ![t] = IF repeat THEN "check" ELSE "final"]
  /\ UNCHANGED <<flag, stopped, misused>>

\* final_fn, delete ptr.
Final(t) ==
  /\ thread[t] = "final"
  /\ misused' = (misused \/ flag[t] = "freed")
  /\ flag' = [flag EXCEPT ![t] = "freed"]
  /\ thread' = [thread EXCEPT ![t] = "gone"]
  /\ UNCHANGED stopped

Step(t) == Check(t) \/ Fn(t) \/ Wake(t) \/ Final(t)

\* The destructor of the owner.
stop(t) ==
  IF stopped[t] THEN UNCHANGED threadVars
  ELSE /\ stopped' = [stopped EXCEPT ![t] = TRUE]
       /\ misused' = (misused \/ flag[t] = "freed")
       /\ flag' = [flag EXCEPT ![t] = "true"]
       /\ UNCHANGED thread
=============================================================================
