------------------------------ MODULE OpenMIPS ------------------------------
(***************************************************************************)
(* The five-stage pipeline of OpenMIPS.v: pc_reg, if_id, id, id_ex, ex,    *)
(* ex_mem, mem, mem_wb, regfile, hilo_reg, LLbit_reg, cp0_reg, hazard and  *)
(* the two bus buffers.  A step is one rising clock edge.  The input pins  *)
(* of the cycle before the edge are the record `in', chosen by the         *)
(* environment: reset, the answers of the two buses and the interrupt      *)
(* lines.  Combinational signals are operators of the registers and `in'.  *)
(*                                                                         *)
(* Address 0 marks a bubble, as in mem.v, which takes no exception for an  *)
(* instruction at address 0; Code never leads there.  Data memory is one   *)
(* word, written when the bus acknowledges a store.                        *)
(***************************************************************************)
EXTENDS MipsIsa

CONSTANTS
  DivStalls,   (* stall cycles of a division: 31                         *)
  WarmReset    (* whether the reset line may rise while the CPU runs     *)

ASSUME DivAssumption   == DivStalls \in Nat
ASSUME ResetAssumption == WarmReset \in BOOLEAN

VARIABLES
  ce, pc,      (* pc_reg                                                 *)
  ibuf,        (* wishbone_buf_if0, the instruction bus                  *)
  ifid,        (* if_id                                                  *)
  idex,        (* id_ex, all but ...                                     *)
  slotNext,    (* ... dlyslot_now: ID holds the delay slot of a branch   *)
  exmem,       (* ex_mem, all but ...                                    *)
  cnt,         (* ... the step of a multiplication or division in EX     *)
  memwb,       (* mem_wb                                                 *)
  dbuf,        (* wishbone_buf_if1, the data bus                         *)
  regs, hilo, LLbit,
  cp0,         (* cp0_reg: Status, EPC, Cause.BD and a pending interrupt *)
  dmem         (* the data memory behind the bus                         *)

frontVars == <<ce, pc, ibuf, ifid>>
pipeVars  == <<idex, slotNext, exmem, cnt, memwb, dbuf>>
archVars  == <<regs, hilo, LLbit, cp0, dmem>>
vars      == <<frontVars, pipeVars, archVars>>

IBuf == INSTANCE WishboneBufIf WITH
          buf <- ibuf, Adr <- Word, DataOut <- {0}, DataIn <- Instr,
          ZeroOut <- 0, ZeroIn <- Nop
DBuf == INSTANCE WishboneBufIf WITH
          buf <- dbuf, Adr <- {0}, DataOut <- Word, DataIn <- Word,
          ZeroOut <- 0, ZeroIn <- 0

(* Only a strobed slave answers; the instruction bus returns the code. *)
Fetches == {[ack |-> FALSE, inst |-> Nop]} \cup
           {[ack |-> TRUE, inst |-> i] : i \in IF IBuf!Strobe THEN Code[ibuf.adr] ELSE {}}

Inputs == [rst : {FALSE, WarmReset}, fetch : Fetches,
           dack : {FALSE, DBuf!Strobe}, int : BOOLEAN]

(***************************************************************************)
(* The bubbles the pipeline registers are loaded with.                     *)
(***************************************************************************)
IfIdBubble == [pc |-> 0, inst |-> Nop]
IdExBubble == [op |-> "nop", a |-> 0, b |-> 0, wd |-> 0, wreg |-> FALSE, link |-> 0,
               sel |-> 0, slot |-> FALSE, adr |-> 0, exc |-> "none"]
ExMemBubble == [op |-> "nop", wd |-> 0, wreg |-> FALSE, wdata |-> 0, whilo |-> FALSE,
                hilo |-> 0, reg2 |-> 0, cp0we |-> FALSE, cp0adr |-> 0, cp0data |-> 0,
                slot |-> FALSE, adr |-> 0, exc |-> "none"]
MemWbBubble == [wd |-> 0, wreg |-> FALSE, wdata |-> 0, whilo |-> FALSE, hilo |-> 0,
                LLwe |-> FALSE, LLvalue |-> FALSE,
                cp0we |-> FALSE, cp0adr |-> 0, cp0data |-> 0]

(***************************************************************************)
(* MEM: mem.v.                                                             *)
(***************************************************************************)
LLbitNow == IF memwb.LLwe THEN memwb.LLvalue ELSE LLbit

(* A store conditional without its link bit makes no access.               *)
StoreConditional == exmem.op = "sc" /\ LLbitNow
MemWrites == exmem.op = "sw" \/ StoreConditional
MemCe     == exmem.op \in MemoryReads \/ MemWrites

(* CP0 with the write of the WB stage forwarded. *)
StatusNow == IF memwb.cp0we /\ memwb.cp0adr = STATUS THEN memwb.cp0data ELSE cp0.status
EpcNow    == IF memwb.cp0we /\ memwb.cp0adr = EPC THEN memwb.cp0data ELSE cp0.epc

(* Mutant: interrupts wait for EXL to be set instead of clear.             *)
ExceptType_InvertedEXL ==
  CASE exmem.adr = 0                                     -> "none"
    [] exmem.adr # 0 /\ cp0.ip /\ EXL(StatusNow) /\ IE(StatusNow) -> "int"
    [] OTHER                                             -> exmem.exc
ExceptType ==
  CASE exmem.adr = 0                                     -> "none"
    [] exmem.adr # 0 /\ cp0.ip /\ ~EXL(StatusNow) /\ IE(StatusNow) -> "int"
    [] OTHER                                             -> exmem.exc
Flush == ExceptType # "none"

MemWe == MemWrites /\ ~Flush

DataWord(in) == DBuf!CpuData(in.dack, dmem)

MemWdata(in) ==
  CASE exmem.op \in MemoryReads -> DataWord(in)
    [] exmem.op = "sc"          -> IF LLbitNow THEN 1 ELSE 0
    [] exmem.op = "sw"          -> 0
    [] OTHER                    -> exmem.wdata

MemResult(in) ==
  [wd |-> exmem.wd, wreg |-> exmem.wreg, wdata |-> MemWdata(in),
   whilo |-> exmem.whilo, hilo |-> exmem.hilo,
   LLwe |-> exmem.op = "ll" \/ StoreConditional, LLvalue |-> exmem.op = "ll",
   cp0we |-> exmem.cp0we, cp0adr |-> exmem.cp0adr, cp0data |-> exmem.cp0data]

(***************************************************************************)
(* EX: ex.v.                                                               *)
(***************************************************************************)
HiLoNow ==
  CASE exmem.whilo                -> exmem.hilo
    [] ~exmem.whilo /\ memwb.whilo -> memwb.hilo
    [] OTHER                      -> hilo

Cp0Read(sel) ==
  CASE exmem.cp0we /\ exmem.cp0adr = sel -> exmem.cp0data
    [] ~(exmem.cp0we /\ exmem.cp0adr = sel) /\ memwb.cp0we /\ memwb.cp0adr = sel
                                         -> memwb.cp0data
    [] OTHER -> IF sel = STATUS THEN cp0.status ELSE cp0.epc

ExWdata ==
  CASE idex.op = "addiu" -> Plus(idex.a, idex.b)
    [] idex.op = "jal"   -> idex.link
    [] idex.op = "mfhi"  -> HiLoNow
    [] idex.op = "mfc0"  -> Cp0Read(idex.sel)
    [] OTHER             -> 0

(* A multiply-accumulate takes one more cycle, a division DivStalls more,  *)
(* a division by zero none.                                                *)
ExSteps ==
  CASE idex.op = "madd"                -> 1
    [] idex.op = "div" /\ idex.b # 0   -> DivStalls
    [] OTHER                           -> 0
StallReqEx == cnt < ExSteps

ExHiLo ==
  CASE idex.op = "madd" -> MulAdd(HiLoNow, idex.a, idex.b)
    [] idex.op = "div"  -> Quotient(idex.a, idex.b)
    [] OTHER            -> 0

ExResult ==
  [op |-> idex.op, wd |-> idex.wd, wreg |-> idex.wreg, wdata |-> ExWdata,
   whilo |-> idex.op \in {"madd", "div"}, hilo |-> ExHiLo, reg2 |-> idex.b,
   cp0we |-> idex.op = "mtc0", cp0adr |-> IF idex.op = "mtc0" THEN idex.sel ELSE 0,
   cp0data |-> IF idex.op = "mtc0" THEN idex.b ELSE 0,
   slot |-> idex.slot, adr |-> idex.adr,
   exc |-> IF idex.op = "teq" /\ idex.a = idex.b THEN "trap" ELSE idex.exc]

(***************************************************************************)
(* ID: id.v and the read ports of regfile.v.                               *)
(***************************************************************************)
RegRead(r) ==
  CASE r = 0                                       -> 0
    [] r # 0 /\ memwb.wreg /\ memwb.wd = r         -> memwb.wdata
    [] OTHER                                       -> regs[r]

(* Mutant: no forwarding from MEM.                                         *)
Forwarded_NotFromMem(in, r) ==
  IF idex.wreg /\ idex.wd = r THEN ExWdata ELSE RegRead(r)

(* The result still in EX wins over the one in MEM, that over regfile. *)
Forwarded(in, r) ==
  CASE idex.wreg /\ idex.wd = r                                 -> ExWdata
    [] ~(idex.wreg /\ idex.wd = r) /\ exmem.wreg /\ exmem.wd = r -> MemWdata(in)
    [] OTHER                                                    -> RegRead(r)

OperandA(in) == IF ReadsRs(ifid.inst) THEN Forwarded(in, ifid.inst.rs) ELSE ifid.inst.imm
OperandB(in) == IF ReadsRt(ifid.inst) THEN Forwarded(in, ifid.inst.rt) ELSE ifid.inst.imm

LoadDep == idex.op \in MemoryReads \cup {"sc"}
StallReqId ==
  LoadDep /\ \/ ReadsRs(ifid.inst) /\ idex.wd = ifid.inst.rs
             \/ ReadsRt(ifid.inst) /\ idex.wd = ifid.inst.rt

Branch(in) == Taken(ifid.inst, OperandA(in), OperandB(in))

Decoded(in) ==
  [op |-> ifid.inst.op, a |-> OperandA(in), b |-> OperandB(in),
   wd |-> IF WritesReg(ifid.inst) THEN ifid.inst.rd ELSE 0, wreg |-> WritesReg(ifid.inst),
   link |-> Link(ifid.inst, ifid.pc), sel |-> ifid.inst.imm, slot |-> slotNext,
   adr |-> ifid.pc, exc |-> DecodedException(ifid.inst)]

(***************************************************************************)
(* hazard.v: the number of stages held, counted from the PC.  A flush      *)
(* overrides every stall.                                                  *)
(***************************************************************************)
StallReqMem(in) == DBuf!StallReq(MemCe, Flush, in.dack)
StallReqIf(in)  == IBuf!StallReq(ce, Flush, in.fetch.ack)

(* Mutant: the stall for a fetch wins over the one of MEM.                 *)
Stall_FetchBeforeMem(in) ==
  CASE Flush                                            -> 0
    [] ~Flush /\ (StallReqId \/ StallReqIf(in))         -> 3
    [] ~Flush /\ ~StallReqId /\ ~StallReqIf(in) /\ StallReqMem(in) -> 5
    [] ~Flush /\ ~StallReqId /\ ~StallReqIf(in) /\ ~StallReqMem(in) /\ StallReqEx -> 4
    [] OTHER                                            -> 0

Stall(in) ==
  CASE Flush                                            -> 0
    [] ~Flush /\ StallReqMem(in)                        -> 5
    [] ~Flush /\ ~StallReqMem(in) /\ StallReqEx         -> 4
    [] ~Flush /\ ~StallReqMem(in) /\ ~StallReqEx /\ (StallReqId \/ StallReqIf(in)) -> 3
    [] OTHER                                            -> 0

NewPc == CASE ExceptType = "int"  -> IntVec
           [] ExceptType = "eret" -> EpcNow
           [] OTHER               -> ExcVec

(***************************************************************************)
(* What every edge does, whatever the pipeline registers load.             *)
(***************************************************************************)
(* Mutant: a taken branch redirects the PC although the fetch goes on.     *)
PcEdge_BranchOverStall(in) ==
  /\ ce' = ~in.rst
  /\ pc' = CASE ~ce                                  -> ResetPC
             [] ce /\ Flush                          -> NewPc
             [] ce /\ ~Flush /\ Stall(in) > 0 /\ ~Branch(in) -> pc
             [] OTHER -> IF Branch(in) THEN Target(ifid.inst, OperandA(in)) ELSE Plus(pc, 1)

PcEdge(in) ==
  /\ ce' = ~in.rst
  /\ pc' = CASE ~ce                                  -> ResetPC
             [] ce /\ Flush                          -> NewPc
             [] ce /\ ~Flush /\ Stall(in) > 0        -> pc
             [] OTHER -> IF Branch(in) THEN Target(ifid.inst, OperandA(in)) ELSE Plus(pc, 1)

BusEdge(in) ==
  /\ IBuf!Clock(in.rst, ce, Flush, Stall(in) > 0,
                in.fetch.ack, in.fetch.inst, pc, 0, FALSE)
  /\ DBuf!Clock(in.rst, MemCe, Flush, Stall(in) > 0,
                in.dack, dmem, 0, exmem.reg2, MemWe)
  /\ dmem' = IF in.dack /\ dbuf.we THEN dbuf.dat ELSE dmem

(* The register writes of the WB stage. *)
WriteBack ==
  /\ regs' = [r \in Reg |-> IF r # 0 /\ memwb.wreg /\ memwb.wd = r
                            THEN memwb.wdata ELSE regs[r]]
  /\ hilo' = IF memwb.whilo THEN memwb.hilo ELSE hilo
  /\ LLbit' = LLbitNow

(* cp0_reg: an exception is recorded over the write of the WB stage.  The  *)
(* return address and BD are kept when the CPU is in an exception already. *)
EntersException == Flush /\ ExceptType # "eret"
RecordsEpc      == EntersException /\ (ExceptType = "int" \/ ~EXL(cp0.status))

Cp0Edge(in) ==
  cp0' = [status |-> CASE EntersException     -> SetEXL(StatusNow)
                       [] ExceptType = "eret" -> ClearEXL(StatusNow)
                       [] OTHER               -> StatusNow,
          epc |-> CASE RecordsEpc /\ exmem.slot  -> Plus(exmem.adr, Words - 1)
                    [] RecordsEpc /\ ~exmem.slot -> exmem.adr
                    [] OTHER                     -> EpcNow,
          bd  |-> IF RecordsEpc THEN exmem.slot ELSE cp0.bd,
          ip  |-> in.int]

Edge(in) == PcEdge(in) /\ BusEdge(in)

(***************************************************************************)
(* One action for each control word of hazard.v, and reset.                *)
(***************************************************************************)
(* id_ex.v resets neither the instruction address nor the exception bits,  *)
(* regfile.v no register.                                                  *)
ResetCycle ==
  \E in \in Inputs :
    /\ in.rst
    /\ Edge(in)
    /\ ifid' = IfIdBubble
    /\ idex' = [IdExBubble EXCEPT !.adr = idex.adr, !.exc = idex.exc]
    /\ slotNext' = FALSE
    /\ exmem' = ExMemBubble
    /\ cnt' = 0
    /\ memwb' = MemWbBubble
    /\ hilo' = 0
    /\ LLbit' = FALSE
    /\ cp0' = [status |-> 0, epc |-> 0, bd |-> FALSE, ip |-> FALSE]
    /\ UNCHANGED regs

FlushCycle ==
  \E in \in Inputs :
    /\ ~in.rst
    /\ Flush
    /\ Edge(in)
    /\ ifid' = IfIdBubble
    /\ idex' = IdExBubble
    /\ slotNext' = FALSE
    /\ exmem' = ExMemBubble
    /\ cnt' = 0
    /\ memwb' = MemWbBubble
    /\ WriteBack
    /\ Cp0Edge(in)

(* MEM waits for the data bus: everything up to MEM is held. *)
MemStallCycle ==
  \E in \in Inputs :
    /\ ~in.rst
    /\ Stall(in) = 5
    /\ Edge(in)
    /\ memwb' = MemWbBubble
    /\ WriteBack
    /\ Cp0Edge(in)
    /\ UNCHANGED <<ifid, idex, slotNext, exmem, cnt>>

(* EX goes on with the multiplication or division it holds. *)
ExStallCycle ==
  \E in \in Inputs :
    /\ ~in.rst
    /\ Stall(in) = 4
    /\ Edge(in)
    /\ exmem' = ExMemBubble
    /\ cnt' = cnt + 1
    /\ memwb' = MemResult(in)
    /\ WriteBack
    /\ Cp0Edge(in)
    /\ UNCHANGED <<ifid, idex, slotNext>>

(* ID waits for a load or for the next instruction: EX gets a bubble. *)
IdStallCycle ==
  \E in \in Inputs :
    /\ ~in.rst
    /\ Stall(in) = 3
    /\ Edge(in)
    /\ idex' = IdExBubble
    /\ exmem' = ExResult
    /\ cnt' = 0
    /\ memwb' = MemResult(in)
    /\ WriteBack
    /\ Cp0Edge(in)
    /\ UNCHANGED <<ifid, slotNext>>

AdvanceCycle ==
  \E in \in Inputs :
    /\ ~in.rst
    /\ ~Flush
    /\ Stall(in) = 0
    /\ Edge(in)
    /\ ifid' = [pc |-> pc, inst |-> IBuf!CpuData(in.fetch.ack, in.fetch.inst)]
    /\ idex' = Decoded(in)
    /\ slotNext' = Branch(in)
    /\ exmem' = ExResult
    /\ cnt' = 0
    /\ memwb' = MemResult(in)
    /\ WriteBack
    /\ Cp0Edge(in)

Init ==
  /\ ce = FALSE
  /\ pc = ResetPC
  /\ ibuf = IBuf!ResetState
  /\ ifid = IfIdBubble
  /\ idex = IdExBubble
  /\ slotNext = FALSE
  /\ exmem = ExMemBubble
  /\ cnt = 0
  /\ memwb = MemWbBubble
  /\ dbuf = DBuf!ResetState
  /\ regs = [r \in Reg |-> 0]
  /\ hilo = 0
  /\ LLbit = FALSE
  /\ cp0 = [status |-> 0, epc |-> 0, bd |-> FALSE, ip |-> FALSE]
  /\ dmem = 0

Next == \/ ResetCycle
        \/ FlushCycle
        \/ MemStallCycle
        \/ ExStallCycle
        \/ IdStallCycle
        \/ AdvanceCycle

Spec == Init /\ [][Next]_vars

(* Every register holds a value of its width.                              *)
TypeOK ==
  /\ ce \in BOOLEAN
  /\ pc \in Word
  /\ ibuf \in IBuf!BufType
  /\ ifid \in [pc : Word, inst : Instr]
  /\ idex \in [op : Op \cup {"nop"}, a : Word, b : Word, wd : Reg, wreg : BOOLEAN,
               link : Word, sel : Word, slot : BOOLEAN, adr : Word, exc : ExcCode]
  /\ slotNext \in BOOLEAN
  /\ exmem \in [op : Op \cup {"nop"}, wd : Reg, wreg : BOOLEAN, wdata : Word,
                whilo : BOOLEAN, hilo : Word, reg2 : Word, cp0we : BOOLEAN,
                cp0adr : Word, cp0data : Word, slot : BOOLEAN, adr : Word, exc : ExcCode]
  /\ cnt \in Nat
  /\ memwb \in [wd : Reg, wreg : BOOLEAN, wdata : Word, whilo : BOOLEAN, hilo : Word,
                LLwe : BOOLEAN, LLvalue : BOOLEAN,
                cp0we : BOOLEAN, cp0adr : Word, cp0data : Word]
  /\ dbuf \in DBuf!BufType
  /\ regs \in [Reg -> Word]
  /\ hilo \in Word
  /\ LLbit \in BOOLEAN
  /\ cp0 \in [status : Word, epc : Word, bd : BOOLEAN, ip : BOOLEAN]
  /\ dmem \in Word

(* The data bus buffer answers from rd_buf, without a transaction, until   *)
(* the pipeline has moved: an access that reached MEM in the meantime      *)
(* would be given the data of the one before it.  None ever does.          *)
NoStaleData == dbuf.st = "WAIT_FOR_STALL" => ~MemCe

(* Why there is none: the instruction bus takes at least two cycles, so a  *)
(* memory instruction meets a bubble in EX when it is in MEM, and stays in *)
(* EX only for the cycle in which the next fetch begins.  The request on   *)
(* the data bus is that of the instruction in MEM.                         *)
Interlock ==
  /\ exmem.op \in MemoryOps => idex.op = "nop"
  /\ idex.op \in MemoryOps => ce /\ ibuf.st = "IDLE"
  /\ dbuf.st = "BUSY" => MemCe /\ dbuf.we = MemWrites /\ dbuf.dat = exmem.reg2
  /\ dbuf.st = "WAIT_FOR_STALL" => exmem.op \notin MemoryOps /\ idex.op = "nop"

(* A fetch outlives stalls, flushes and taken branches: the word on the    *)
(* bus or in rd_buf is always the one the PC points at, and ID decodes a   *)
(* word of the address it carries along for EPC and the branch targets.    *)
FetchBelongsToPc ==
  /\ ibuf.st = "BUSY" => ibuf.adr = pc
  /\ ibuf.st = "WAIT_FOR_STALL" => ibuf.rd \in Code[pc]
  /\ ifid.pc # 0 => ifid.inst \in Code[ifid.pc]

(* A memory instruction leaves MEM for WB only in the cycle in which a     *)
(* transaction of its own, with its direction and its data, is answered.   *)
LeavesMem == ce' /\ ~Flush /\ exmem' # exmem
EveryAccessServed ==
  [][MemCe /\ LeavesMem =>
       /\ dbuf.st = "BUSY" /\ dbuf'.st # "BUSY"
       /\ dbuf.we = MemWrites
       /\ dbuf.we => dbuf.dat = exmem.reg2]_vars

(* A reset in the middle of anything drops it: between the reset and the   *)
(* first fetch no register and no memory word is written.                  *)
ResetDropsInFlight == [][~ce => UNCHANGED <<regs, hilo, LLbit, dmem>>]_vars

(* mem.v cancels the write enable of a store that an exception stops.      *)
ExceptionCancelsStore == [][Flush => dmem' = dmem]_vars

(* mem.v takes no exception before the first instruction after a reset.    *)
NoExceptionBeforeFetch == [][~ce /\ ce' => ~Flush']_vars

(***************************************************************************)
(* The slaves answer every request that is kept up, and the clock runs.    *)
(***************************************************************************)
FetchAnswered == Next /\ IBuf!Strobe /\ ibuf'.st # "BUSY"
DataAnswered  == Next /\ DBuf!Strobe /\ dbuf'.st # "BUSY"

FairSpec ==
  Spec /\ WF_vars(Next) /\ WF_vars(FetchAnswered) /\ WF_vars(DataAnswered)

(* The stages, the two buffers and the load interlock never wait for each  *)
(* other for good: the pipeline moves as a whole again and again, also     *)
(* after a reset in the middle of anything, unless it is reset for ever.   *)
Progress == []<><<ResetCycle \/ AdvanceCycle \/ FlushCycle>>_vars

(* An interrupt that stays pending and enabled is taken, although only an  *)
(* instruction in MEM can take it and MEM holds bubbles most of the time.  *)
InterruptPending == cp0.ip /\ IE(StatusNow) /\ ~EXL(StatusNow)
InterruptTaken   == []<>~InterruptPending

(***************************************************************************)
(* What the pipeline promises: the machine of MipsArch.  The oldest        *)
(* instruction in flight is the next one to execute and the second oldest  *)
(* the one behind it; the write of the WB stage has happened already.      *)
(***************************************************************************)
InMem == exmem.adr # 0
InEx  == idex.adr # 0
InId  == ifid.pc # 0

BehindEx  == IF InId THEN ifid.pc ELSE pc
BehindMem == IF InEx THEN idex.adr ELSE BehindEx

NextPc ==
  CASE InMem           -> exmem.adr
    [] ~InMem /\ InEx  -> idex.adr
    [] ~InMem /\ ~InEx -> BehindEx

NextNpc ==
  CASE InMem                    -> BehindMem
    [] ~InMem /\ InEx           -> BehindEx
    [] ~InMem /\ ~InEx /\ InId  -> pc
    [] ~InMem /\ ~InEx /\ ~InId -> IF ce THEN Plus(pc, 1) ELSE pc

NextSlot ==
  CASE InMem           -> exmem.slot
    [] ~InMem /\ InEx  -> idex.slot
    [] ~InMem /\ ~InEx -> slotNext

Arch == INSTANCE MipsArch WITH
  pc <- NextPc, npc <- NextNpc, slot <- NextSlot,
  regs <- [r \in Reg |-> IF r # 0 /\ memwb.wreg /\ memwb.wd = r THEN memwb.wdata ELSE regs[r]],
  hilo <- IF memwb.whilo THEN memwb.hilo ELSE hilo,
  LLbit <- LLbitNow,
  status <- StatusNow, epc <- EpcNow, bd <- cp0.bd, dmem <- dmem

(* Under every timing of the two buses the pipeline executes the program   *)
(* as MipsArch does: forwarding and interlocks give each instruction the   *)
(* operands of the sequential order, a squashed one leaves no trace, and   *)
(* EPC and BD name the instruction to come back to.                        *)
ArchSpec == Arch!Spec
=============================================================================
