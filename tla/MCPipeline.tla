----------------------------- MODULE MCPipeline -----------------------------
(***************************************************************************)
(* A machine of five instruction slots and words of three bits: three slots *)
(* of a program, a jump that closes the loop, and a trap handler.           *)
(***************************************************************************)
EXTENDS Pipeline, TLC

I(op, rd, r1, r2, imm, c) ==
  [op |-> op, rd |-> rd, rs1 |-> r1, rs2 |-> r2, imm |-> imm, csr |-> c]

\* Registers 1 and 2 begin with 1 and 4, words 0 to 4 of memory with 5 to 1.
MCRegs == {0, 1, 2}
MCInitRegs == <<1, 4>> @@ (0 :> 0)
MCInitMem == [a \in 0..4 |-> 5 - a]
MCInitCsr == [ResetCsr EXCEPT !.mtvec = 4]

J(to) == I("jal", 0, 0, 0, to, "none")
Sys(op) == I(op, 0, 0, 0, 0, "none")

FirstInstr ==
  {I("alu", 1, 1, 2, 0, "none"), I("long", 2, 1, 1, 2, "none"),
   I("load", 1, 2, 0, 0, "none"), I("store", 0, 2, 1, 0, "none"),
   I("branch", 0, 1, 2, 2, "none"), I("csrrw", 2, 1, 0, 0, "mscratch")}

SecondInstr ==
  {I("load", 2, 1, 0, 0, "none"), I("store", 0, 1, 2, 0, "none"),
   I("branch", 0, 1, 2, 0, "none"), I("branch", 0, 1, 0, 3, "none"),
   I("jal", 2, 0, 0, 3, "none"), I("jalr", 1, 2, 0, 3, "none"),
   I("csrrs", 1, 2, 0, 0, "mscratch"), I("csrrw", 1, 1, 0, 0, "mtvec"),
   I("csrrs", 0, 1, 0, 0, "mstatus"), Sys("ecall"), Sys("mret"), Sys("illegal")}

ThirdInstr ==
  {I("alu", 2, 1, 0, 1, "none"), I("store", 0, 2, 1, 1, "none"),
   I("load", 1, 2, 0, 3, "none"), I("jal", 1, 0, 0, 0, "none")}

Handlers == {Sys("mret"), I("csrrw", 0, 2, 0, 0, "mepc")}

MCPrograms ==
  {<<b, c, J(0), h>> @@ (0 :> a) : a \in FirstInstr, b \in SecondInstr, c \in ThirdInstr, h \in Handlers}

\* What the bus shows of memory words at an odd pc, but for loads and stores.
MCGarbage ==
  {I("alu", 1, 1, 1, 1, "none"), I("branch", 0, 0, 0, 0, "none"), Sys("illegal")}

\* With the timer interrupt: enabled by start-up code.
MCIntCsr == [MCInitCsr EXCEPT !.mie = 1, !.mstatus.mie = TRUE]
MCIntPrograms == {<<I("alu", 2, 2, 0, 1, "none"), I("store", 0, 2, 1, 0, "none"), J(0), Sys("mret")>>
                    @@ (0 :> I("alu", 1, 1, 0, 1, "none"))}
=============================================================================
