----------------------------- MODULE ByteMemory -----------------------------
(***************************************************************************)
(* What loads and stores promise the program: memory is an array of bytes,  *)
(* an access is performed whole, in order, when its instruction leaves; a   *)
(* misaligned one is never performed, nor is one behind an instruction that *)
(* traps.  No words, lanes, strobes or buses appear here.                   *)
(***************************************************************************)
EXTENDS Integers

CONSTANTS LANES,     \* bytes of a register
          InitBytes, \* memory at the start
          Instrs, Bubble, Zero

VARIABLES bytes, \* memory
          todo,  \* the instruction whose turn it is
          done   \* what the one before it came to

byteVars == <<bytes, todo, done>>

Nothing == [csr |-> FALSE, result |-> Zero]

Init == bytes = InitBytes /\ todo = Bubble /\ done = Nothing

Accesses(e) == e.op \in {"load", "store"}
Misaligned(e) == Accesses(e) /\ e.addr % e.size # 0

Loaded(e) ==
  LET negative == ~e.mem_unsigned /\ bytes[e.addr + e.size - 1] >= 128
  IN  [k \in 0..(LANES - 1) |->
         IF k < e.size THEN bytes[e.addr + k] ELSE IF negative THEN 255 ELSE 0]

Stored(e) ==
  [a \in DOMAIN bytes |->
     IF a \in e.addr..(e.addr + e.size - 1) THEN e.rs2[a - e.addr] ELSE bytes[a]]

\* An instruction runs to its end, and the next one is taken up.
Perform ==
  /\ ~done.csr
  /\ done' = [csr    |-> todo.op = "csr" \/ Misaligned(todo),
              result |-> IF todo.op = "load" /\ ~Misaligned(todo) THEN Loaded(todo) ELSE Zero]
  /\ bytes' = IF todo.op = "store" /\ ~Misaligned(todo) THEN Stored(todo) ELSE bytes
  /\ todo' \in Instrs \cup {Bubble}

\* An access may take time.
Wait ==
  /\ ~done.csr /\ Accesses(todo) /\ ~Misaligned(todo)
  /\ done' = Nothing
  /\ UNCHANGED <<bytes, todo>>

\* Behind an instruction that traps or writes a CSR everything is dropped.
Cancel ==
  /\ done.csr
  /\ todo' = Bubble
  /\ done' \in {done, Nothing}
  /\ UNCHANGED bytes

Next == Perform \/ Wait \/ Cancel

Spec == Init /\ [][Next]_byteVars
=============================================================================
