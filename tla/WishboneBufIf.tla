--------------------------- MODULE WishboneBufIf ---------------------------
(***************************************************************************)
(* wishbone_buf_if: the state machine that turns one CPU access into one   *)
(* Wishbone transaction.  The CPU has two of them, one behind the PC and   *)
(* one behind the MEM stage.  buf.st is cuerrent_state; the strobe and the *)
(* cycle line are high exactly in BUSY, and the other fields are the       *)
(* registers driven on the bus and rd_buf, which nothing reads in IDLE and *)
(* is taken as zero there.                                                 *)
(*                                                                         *)
(* Clock describes one rising edge.  Its parameters are the input pins in  *)
(* the cycle before the edge: stalled says that some bit of stall_i is     *)
(* set, ack and data are the answer of the bus.                            *)
(***************************************************************************)
EXTENDS Naturals

CONSTANTS
  Adr,       (* addresses                                                *)
  DataOut,   (* words the CPU may write                                  *)
  DataIn,    (* words the bus may return                                 *)
  ZeroOut,   (* the all-zero word of each                                *)
  ZeroIn

VARIABLE buf

State == {"IDLE", "BUSY", "WAIT_FOR_STALL"}

BufType == [st : State, adr : Adr, dat : DataOut, we : BOOLEAN, rd : DataIn]

Quiet(st, rd) == [st |-> st, adr |-> 0, dat |-> ZeroOut, we |-> FALSE, rd |-> rd]

ResetState == Quiet("IDLE", ZeroIn)

Requests(ce, flush) == buf.st = "IDLE" /\ ce /\ ~flush

(* The strobe: a slave may only answer while it is high. *)
Strobe == buf.st = "BUSY"

(* Mutants: no stall in the cycle the request is made; a stall as long as  *)
(* the buffer has not been released.                                       *)
StallReq_NotAtStart(ce, flush, ack) == Strobe /\ ~ack
StallReq_WhileHolding(ce, flush, ack) ==
  Requests(ce, flush) \/ (Strobe /\ ~ack) \/ buf.st = "WAIT_FOR_STALL"
StallReq(ce, flush, ack) == Requests(ce, flush) \/ (Strobe /\ ~ack)

CpuData(ack, data) ==
  CASE Strobe /\ ack /\ ~buf.we      -> data
    [] buf.st = "WAIT_FOR_STALL"     -> buf.rd
    [] OTHER                         -> ZeroIn

(* Mutant: a request that survives the reset of the CPU.                   *)
Reset_KeepsRequest(rst) == rst /\ buf' = buf
Reset(rst) == rst /\ buf' = ResetState

Begin(rst, ce, flush, adr, dat, we) ==
  /\ ~rst
  /\ Requests(ce, flush)
  /\ buf' = [st |-> "BUSY", adr |-> adr, dat |-> dat, we |-> we, rd |-> ZeroIn]

(* Mutant: the answer is kept although the pipeline takes it.              *)
Answered_AlwaysWaits(rst, stalled, ack, data, we) ==
  /\ ~rst
  /\ Strobe
  /\ ack
  /\ buf' = Quiet("WAIT_FOR_STALL", IF we THEN buf.rd ELSE data)

(* The answer is kept when the pipeline cannot take it in this cycle. *)
Answered(rst, stalled, ack, data, we) ==
  /\ ~rst
  /\ Strobe
  /\ ack
  /\ buf' = IF stalled THEN Quiet("WAIT_FOR_STALL", IF we THEN buf.rd ELSE data)
                       ELSE ResetState

Abort(rst, flush, ack) ==
  /\ ~rst
  /\ Strobe
  /\ ~ack
  /\ flush
  /\ buf' = ResetState

Release(rst, stalled) ==
  /\ ~rst
  /\ buf.st = "WAIT_FOR_STALL"
  /\ ~stalled
  /\ buf' = ResetState

Hold(rst, ce, flush, stalled, ack) ==
  /\ ~rst
  /\ \/ buf.st = "IDLE" /\ ~Requests(ce, flush)
     \/ Strobe /\ ~ack /\ ~flush
     \/ buf.st = "WAIT_FOR_STALL" /\ stalled
  /\ buf' = buf

Clock(rst, ce, flush, stalled, ack, data, adr, dat, we) ==
  \/ Reset(rst)
  \/ Begin(rst, ce, flush, adr, dat, we)
  \/ Answered(rst, stalled, ack, data, we)
  \/ Abort(rst, flush, ack)
  \/ Release(rst, stalled)
  \/ Hold(rst, ce, flush, stalled, ack)
=============================================================================
