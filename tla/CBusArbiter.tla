---------------------------- MODULE CBusArbiter ----------------------------
(***************************************************************************)
(* vsrc/util/CBusArbiter.sv: several masters share one cache bus.  The      *)
(* arbiter picks a request while it is idle, forwards the live request of   *)
(* the picked master (not the one it saved) from the next cycle on, and is  *)
(* idle for a cycle after the last beat.                                   *)
(***************************************************************************)
EXTENDS CBusDevice

CONSTANTS NUM_INPUTS

ASSUME InputsAssumption == NUM_INPUTS \in Nat \ {0}

VARIABLES busy,  \* a request is granted
          index  \* the granted input

arbiterVars == <<busy, index>>

Input == 0 .. NUM_INPUTS - 1

NullReq ==
  [valid |-> FALSE, is_write |-> FALSE,
   addr |-> [cached |-> FALSE, tag |-> ZeroTag, index |-> 0, offset |-> 0],
   strobe |-> {}, data |-> ZeroWord, len |-> 1]

\* The first valid input, and input 0 when none is.
select(ireqs) ==
  CHOOSE i \in Input :
    IF \E j \in Input : ireqs[j].valid
    THEN ireqs[i].valid /\ \A j \in Input : ireqs[j].valid => i <= j
    ELSE i = 0

\* "prevent early issue": nothing is forwarded before the grant.
oreq(ireqs) == IF busy THEN ireqs[index] ELSE NullReq

\* Mutant: every master sees the response.
Broadcast(i, oresp) == IF busy THEN oresp ELSE NoResp

iresp(i, oresp) == IF busy /\ index = i THEN oresp ELSE NoResp

-----------------------------------------------------------------------------
ArbiterInit == busy = FALSE /\ index = 0

\* Mutant: the index is not latched.
GrantFirst(ireqs) ==
  /\ ~reset /\ ~busy
  /\ busy' = ireqs[select(ireqs)].valid
  /\ index' = 0

Grant(ireqs) ==
  /\ ~reset /\ ~busy
  /\ busy' = ireqs[select(ireqs)].valid
  /\ index' = select(ireqs)

Hold(oresp) ==
  /\ ~reset /\ busy /\ ~oresp.last
  /\ UNCHANGED arbiterVars

\* Mutants: the grant ends at the first beat, or never.
ReleaseOnReady(oresp) ==
  /\ ~reset /\ busy /\ oresp.ready
  /\ busy' = FALSE
  /\ UNCHANGED index

NeverRelease(oresp) ==
  /\ ~reset /\ busy /\ oresp.last
  /\ UNCHANGED arbiterVars

Release(oresp) ==
  /\ ~reset /\ busy /\ oresp.last
  /\ busy' = FALSE
  /\ UNCHANGED index

ArbiterReset ==
  /\ reset
  /\ busy' = FALSE /\ index' = 0

ArbiterEdge(ireqs, oresp) ==
  \/ Grant(ireqs)
  \/ Hold(oresp)
  \/ Release(oresp)
  \/ ArbiterReset

ArbiterTypeOK == busy \in BOOLEAN /\ index \in Input
=============================================================================
