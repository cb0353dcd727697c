-------------------------------- MODULE Csr --------------------------------
(***************************************************************************)
(* The control and status registers of vsrc/pipeline/csr/csr.sv and what a  *)
(* trap, an interrupt, a CSR write and mret do to them.  A word is a small  *)
(* number; mstatus is read as a word of which bits 0 to 2 are mie, mpie and *)
(* mpp, and bit l of the register mie enables interrupt line l.  mcycle and *)
(* mip, which change with the clock and the lines, are left out: they are   *)
(* not a function of the program.                                           *)
(***************************************************************************)
EXTENDS Integers

CONSTANTS Words,    \* the number of words: arithmetic is modulo Words
          Slots,    \* the number of aligned addresses
          PCINIT,   \* the address the machine starts at
          IntLines  \* the interrupt lines that may be raised

ASSUME CsrAssumption ==
  /\ Words \in Nat /\ Words >= 8
  /\ Slots \in Nat \ {0} /\ Slots <= Words
  /\ PCINIT \in 0..(Slots - 1)
  /\ IntLines \subseteq 0..2

Word == 0..(Words - 1)

\* An address is a word; the ones from Slots on are not multiples of 4.
Aligned(w) == w < Slots
NextPC(p) == IF Aligned(p) THEN (p + 1) % Slots ELSE p

Bit(w, i) == (w \div 2^i) % 2 = 1
Value(b) == IF b THEN 1 ELSE 0

Cause == {"illegal_instr", "instr_misalign", "is_ecall", "load_misalign", "store_misalign"}
Csrs == {"mtvec", "mepc", "mscratch", "mstatus", "mie", "none"}
Mode == {0, 3}

Mstatus == [mie : BOOLEAN, mpie : BOOLEAN, mpp : Mode]
CsrRegs ==
  [mtvec : Word, mepc : Word, mscratch : Word, mie : Word, mstatus : Mstatus,
   mcause : [int : BOOLEAN, code : 0..11], mode : Mode]

ResetCsr ==
  [mtvec |-> 0, mepc |-> PCINIT, mscratch |-> 0, mie |-> 0,
   mstatus |-> [mie |-> FALSE, mpie |-> FALSE, mpp |-> 0],
   mcause |-> [int |-> FALSE, code |-> 2], mode |-> 3]

\* An address that is no register reads as 0, and a write to it is dropped.
csr_rd(c, name) ==
  CASE name = "none"    -> 0
    [] name = "mstatus" -> Value(c.mstatus.mie) + 2 * Value(c.mstatus.mpie)
                             + 4 * Value(c.mstatus.mpp = 3)
    [] OTHER            -> c[name]

CsrWrite(c, name, w) ==
  CASE name = "none"    -> c
    [] name = "mstatus" -> [c EXCEPT !.mstatus =
                             [mie |-> Bit(w, 0), mpie |-> Bit(w, 1),
                              mpp |-> IF Bit(w, 2) THEN 3 ELSE 0]]
    [] OTHER            -> [c EXCEPT ![name] = w]

EnterTrap(c, epc, mcause) ==
  [c EXCEPT !.mepc = epc, !.mcause = mcause, !.mode = 3,
            !.mstatus = [mie |-> FALSE, mpie |-> c.mstatus.mie, mpp |-> c.mode]]

mcause(c, cause) ==
  CASE cause = "illegal_instr"  -> 2
    [] cause = "instr_misalign" -> 0
    [] cause = "is_ecall"       -> c.mode + 8
    [] cause = "load_misalign"  -> 4
    [] OTHER                    -> 6

Trap(c, epc, cause) == EnterTrap(c, epc, [int |-> FALSE, code |-> mcause(c, cause)])

Taken(c, lines) == {l \in lines : Bit(c.mie, l)}
is_int(c, lines) == c.mstatus.mie /\ Taken(c, lines) # {}

\* The timer (line 0) before the software (1) and the external interrupt (2).
Interrupt(c, epc, lines) ==
  LET code == IF 0 \in Taken(c, lines) THEN 7
              ELSE IF 1 \in Taken(c, lines) THEN 3
              ELSE 11
  IN  EnterTrap(c, epc, [int |-> TRUE, code |-> code])

Mret(c) ==
  [c EXCEPT !.mode = c.mstatus.mpp,
            !.mstatus = [mie |-> c.mstatus.mpie, mpie |-> TRUE, mpp |-> 0]]
=============================================================================
