----------------------------- MODULE MemoryPort -----------------------------
(***************************************************************************)
(* What a dbus port promises (the "NOTES ON BUSES" of                      *)
(* vsrc/include/common.sv and the load-after-store tests of                *)
(* verilate/vsrc/VCacheTop/tests.inl): one request at a time, each answered *)
(* once, as if it were performed on a plain memory at the cycle of its      *)
(* answer.  No cache appears here.                                         *)
(***************************************************************************)
EXTENDS Integers

CONSTANTS Addr, Lanes, Word, ZeroWord, InitMem,
          Requests,  \* the requests the port can issue
          NoReq      \* the idle port

VARIABLES amem,   \* the memory
          port,   \* the request on the port, or NoReq
          answer, \* what the last clock edge brought: an answer or none
          down    \* reset is asserted

portVars == <<amem, port, answer, down>>

NoAnswer == [ok |-> FALSE, data |-> ZeroWord]

Init == /\ amem = InitMem
        /\ port = NoReq
        /\ answer = NoAnswer
        /\ down = TRUE

Store(m, r) ==
  [m EXCEPT ![r.addr] = [l \in Lanes |-> IF l \in r.strobe THEN r.data[l] ELSE @[l]]]

\* Reset may be asserted at any clock edge; it reloads the memory.
Becomes(m) ==
  /\ down' \in BOOLEAN
  /\ amem' = IF down' THEN InitMem ELSE m

Perform ==
  /\ ~down /\ port # NoReq
  /\ Becomes(Store(amem, port))
  /\ answer' = [ok   |-> TRUE,
                data |-> IF port.strobe = {} THEN amem[port.addr] ELSE ZeroWord]
  /\ port' \in Requests \cup {NoReq}

Wait ==
  /\ ~down
  /\ Becomes(amem)
  /\ IF port = NoReq THEN port' \in Requests \cup {NoReq} ELSE port' = port
  /\ answer' = NoAnswer

\* The request in progress is forgotten; the first one may follow at once.
Down ==
  /\ down
  /\ Becomes(amem)
  /\ port' \in IF down' THEN {NoReq} ELSE Requests \cup {NoReq}
  /\ answer' = NoAnswer

Next == Perform \/ Wait \/ Down

Spec == Init /\ [][Next]_portVars
=============================================================================
