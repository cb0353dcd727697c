----------------------------- MODULE CBusDevice -----------------------------
(***************************************************************************)
(* verilate/vsrc/cbus_device.cpp and verilate/include/axi.h: the memory at  *)
(* the far end of the cbus.  It starts a transaction one cycle after the    *)
(* request appears, then answers one beat in every cycle in which it is     *)
(* enabled (the harness disables it at random).                            *)
(*                                                                         *)
(* Addresses and words are those of DCache.tla; a burst is over words of    *)
(* one line, so a wrapping burst of a whole line stays inside the line.     *)
(***************************************************************************)
EXTENDS DCache

CONSTANTS InitMem   \* the image the memory is loaded with

ASSUME InitMemAssumption == InitMem \in [Addr -> Word]

VARIABLES mem,  \* the memory
          tx    \* the transaction in progress

deviceVars == <<mem, tx>>

CReq == [valid : BOOLEAN, is_write : BOOLEAN, addr : Addr,
         strobe : SUBSET Lanes, data : Word, len : 1 .. WORDS_PER_LINE]

\* N is the number of the current beat, counted from 1.
Tx == [busy : BOOLEAN, is_write : BOOLEAN, N : 0 .. WORDS_PER_LINE,
       addr : Addr, len : 0 .. WORDS_PER_LINE]

Last == tx.N = tx.len

\* The address of beat N of a burst that wraps at the end of its line.
BeatAddr ==
  LET o == tx.addr.offset + tx.N - 1
  IN  [tx.addr EXCEPT !.offset = IF o < WORDS_PER_LINE THEN o ELSE o - WORDS_PER_LINE]

NoResp == [ready |-> FALSE, last |-> FALSE, data |-> ZeroWord]

\* eval_resp: depends on the registers of the device only.
Resp(enable) ==
  IF enable /\ tx.busy
  THEN [ready |-> TRUE, last |-> Last,
        data |-> IF tx.is_write THEN ZeroWord ELSE mem[BeatAddr]]
  ELSE NoResp

-----------------------------------------------------------------------------
NoTransaction ==
  [busy |-> FALSE, is_write |-> FALSE, N |-> 0,
   addr |-> [cached |-> FALSE, tag |-> ZeroTag, index |-> 0, offset |-> 0],
   len |-> 0]

DeviceInit ==
  /\ mem = InitMem
  /\ tx = NoTransaction

\* eval_req and sync of an enabled device, for the request req.
StartTx(req) ==
  /\ ~tx.busy /\ req.valid
  /\ tx' = [busy |-> TRUE, is_write |-> req.is_write, N |-> 1,
            addr |-> req.addr, len |-> req.len]
  /\ UNCHANGED mem

Beat(req) ==
  /\ tx.busy
  /\ tx' = IF Last THEN NoTransaction ELSE [tx EXCEPT !.N = @ + 1]
  /\ mem' = IF tx.is_write
            THEN [mem EXCEPT ![BeatAddr] = Merge(@, req.strobe, req.data)]
            ELSE mem

NoRequest(req) ==
  /\ ~tx.busy /\ ~req.valid
  /\ UNCHANGED deviceVars

DeviceEdge(enable, req) ==
  \/ enable /\ StartTx(req)
  \/ enable /\ Beat(req)
  \/ enable /\ NoRequest(req)
  \/ ~enable /\ UNCHANGED deviceVars

\* CBusDevice::reset reloads the memory image.
DeviceReset ==
  /\ mem' = InitMem
  /\ tx' = NoTransaction

DeviceTypeOK ==
  /\ mem \in [Addr -> Word]
  /\ tx \in Tx
  /\ tx.busy => tx.N \in 1 .. tx.len

\* The asserts of eval_req: a request in progress is held.
RequestHeld(req) ==
  tx.busy => /\ req.valid
             /\ req.is_write = tx.is_write
             /\ req.addr = tx.addr
             /\ req.len = tx.len
=============================================================================
