--------------------------- MODULE OpenMIPS_proofs ---------------------------
(***************************************************************************)
(* Proofs about the pipeline for every program, word size, register count  *)
(* and division latency, and with resets at any time.                      *)
(***************************************************************************)
EXTENDS OpenMIPS, TLAPS

USE WordsAssumption, RegAssumption

(***************************************************************************)
(* Word arithmetic stays inside the word.                                  *)
(***************************************************************************)
LEMMA PlusType == ASSUME NEW a \in Word, NEW b \in Word PROVE Plus(a, b) \in Word
  BY DEF Plus, Word

LEMMA SmallWords == 0 \in Word /\ 1 \in Word /\ 2 \in Word /\ Words - 1 \in Word
  BY DEF Word

LEMMA StatusType ==
  ASSUME NEW s \in Word PROVE SetEXL(s) \in Word /\ ClearEXL(s) \in Word
<1>1. SetEXL(s) \in Word
  BY PlusType, SmallWords DEF SetEXL
<1>2. CASE EXL(s)
  <2>1. s >= 2
    BY <1>2 DEF EXL, Word
  <2> QED
    BY <1>1, <1>2, <2>1 DEF ClearEXL, Word
<1>3. CASE ~EXL(s)
  BY <1>1, <1>3 DEF ClearEXL
<1> QED
  BY <1>2, <1>3

LEMMA UnitType ==
  ASSUME NEW h \in Word, NEW a \in Word, NEW b \in Word
  PROVE  MulAdd(h, a, b) \in Word /\ Quotient(a, b) \in Word
  BY PlusType, SmallWords DEF MulAdd, Quotient

LEMMA NopType == Nop \in Instr
  BY SmallWords DEF Nop, Instr, Op, Reg

LEMMA CodeType == ASSUME NEW a \in Word, NEW i \in Code[a] PROVE i \in Instr
  BY CodeAssumption

(***************************************************************************)
(* The environment only puts instructions on the fetch bus.                *)
(***************************************************************************)
LEMMA InputType ==
  ASSUME TypeOK, NEW in \in Inputs
  PROVE  /\ in.rst \in BOOLEAN
         /\ in.int \in BOOLEAN
         /\ in.dack \in BOOLEAN
         /\ in.fetch.ack \in BOOLEAN
         /\ in.fetch.inst \in Instr
<1>1. in.rst \in {FALSE, WarmReset} /\ in.fetch \in Fetches
      /\ in.dack \in {FALSE, DBuf!Strobe} /\ in.int \in BOOLEAN
  BY DEF Inputs
<1>2. DBuf!Strobe \in BOOLEAN
  BY DEF DBuf!Strobe
<1>3. in.fetch.ack \in BOOLEAN /\ in.fetch.inst \in Instr
  <2>1. ibuf.adr \in Word
    BY DEF TypeOK, IBuf!BufType
  <2>2. CASE in.fetch = [ack |-> FALSE, inst |-> Nop]
    BY <2>2, NopType
  <2>3. ASSUME NEW i \in Code[ibuf.adr], in.fetch = [ack |-> TRUE, inst |-> i]
        PROVE  in.fetch.ack \in BOOLEAN /\ in.fetch.inst \in Instr
    BY <2>1, <2>3, CodeType
  <2> QED
    BY <1>1, <2>2, <2>3 DEF Fetches
<1> QED
  BY <1>1, <1>2, <1>3, ResetAssumption

(***************************************************************************)
(* The shapes of the pipeline registers, named for the proofs.             *)
(***************************************************************************)
IfIdType == [pc : Word, inst : Instr]
IdExType == [op : Op \cup {"nop"}, a : Word, b : Word, wd : Reg, wreg : BOOLEAN,
             link : Word, sel : Word, slot : BOOLEAN, adr : Word, exc : ExcCode]
ExMemType == [op : Op \cup {"nop"}, wd : Reg, wreg : BOOLEAN, wdata : Word,
              whilo : BOOLEAN, hilo : Word, reg2 : Word, cp0we : BOOLEAN,
              cp0adr : Word, cp0data : Word, slot : BOOLEAN, adr : Word, exc : ExcCode]
MemWbType == [wd : Reg, wreg : BOOLEAN, wdata : Word, whilo : BOOLEAN, hilo : Word,
              LLwe : BOOLEAN, LLvalue : BOOLEAN,
              cp0we : BOOLEAN, cp0adr : Word, cp0data : Word]
Cp0Type == [status : Word, epc : Word, bd : BOOLEAN, ip : BOOLEAN]

LEMMA ShapesOfTypeOK ==
  TypeOK <=> /\ ce \in BOOLEAN
             /\ pc \in Word
             /\ ibuf \in IBuf!BufType
             /\ ifid \in IfIdType
             /\ idex \in IdExType
             /\ slotNext \in BOOLEAN
             /\ exmem \in ExMemType
             /\ cnt \in Nat
             /\ memwb \in MemWbType
             /\ dbuf \in DBuf!BufType
             /\ regs \in [Reg -> Word]
             /\ hilo \in Word
             /\ LLbit \in BOOLEAN
             /\ cp0 \in Cp0Type
             /\ dmem \in Word
  BY DEF TypeOK, IfIdType, IdExType, ExMemType, MemWbType, Cp0Type

LEMMA BubbleTypes ==
  /\ IfIdBubble \in IfIdType
  /\ IdExBubble \in IdExType
  /\ ExMemBubble \in ExMemType
  /\ MemWbBubble \in MemWbType
  /\ IBuf!ResetState \in IBuf!BufType
  /\ DBuf!ResetState \in DBuf!BufType
<1>1. 0 \in Reg /\ 0 \in Word /\ Nop \in Instr
  BY SmallWords, NopType DEF Reg
<1>2. IfIdBubble \in IfIdType
  BY <1>1 DEF IfIdBubble, IfIdType
<1>3. IdExBubble \in IdExType
  BY <1>1 DEF IdExBubble, IdExType, ExcCode
<1>4. ExMemBubble \in ExMemType
  BY <1>1 DEF ExMemBubble, ExMemType, ExcCode
<1>5. MemWbBubble \in MemWbType
  BY <1>1 DEF MemWbBubble, MemWbType
<1>6. IBuf!ResetState \in IBuf!BufType
  BY <1>1 DEF IBuf!ResetState, IBuf!Quiet, IBuf!BufType, IBuf!State
<1>7. DBuf!ResetState \in DBuf!BufType
  BY <1>1 DEF DBuf!ResetState, DBuf!Quiet, DBuf!BufType, DBuf!State
<1> QED
  BY <1>2, <1>3, <1>4, <1>5, <1>6, <1>7

(***************************************************************************)
(* The combinational outputs of each stage.                                *)
(***************************************************************************)
LEMMA Cp0NowType ==
  ASSUME TypeOK PROVE StatusNow \in Word /\ EpcNow \in Word
  BY ShapesOfTypeOK DEF StatusNow, EpcNow, MemWbType, Cp0Type

LEMMA LLbitNowType == ASSUME TypeOK PROVE LLbitNow \in BOOLEAN
<1>1. memwb.LLvalue \in BOOLEAN /\ LLbit \in BOOLEAN
  BY ShapesOfTypeOK DEF MemWbType
<1> QED
  BY <1>1 DEF LLbitNow

LEMMA ExceptionType == ASSUME TypeOK PROVE ExceptType \in ExcCode
<1>1. exmem.exc \in ExcCode
  BY ShapesOfTypeOK DEF ExMemType
<1> QED
  BY <1>1 DEF ExceptType, ExcCode

LEMMA NewPcType == ASSUME TypeOK PROVE NewPc \in Word
  BY Cp0NowType, VectorAssumption DEF NewPc

LEMMA MemWdataType ==
  ASSUME TypeOK, NEW in \in Inputs PROVE MemWdata(in) \in Word
<1>1. exmem.wdata \in Word /\ dbuf.rd \in Word /\ dmem \in Word
  BY ShapesOfTypeOK DEF ExMemType, DBuf!BufType
<1>2. DataWord(in) \in Word
  BY <1>1, SmallWords DEF DataWord, DBuf!CpuData
<1> QED
  BY <1>1, <1>2, SmallWords DEF MemWdata

LEMMA MemResultType ==
  ASSUME TypeOK, NEW in \in Inputs PROVE MemResult(in) \in MemWbType
<1>1. StoreConditional \in BOOLEAN
  BY LLbitNowType DEF StoreConditional
<1>2. exmem \in ExMemType
  BY ShapesOfTypeOK
<1> QED
  BY <1>1, <1>2, MemWdataType DEF MemResult, MemWbType, ExMemType

LEMMA ExTypes ==
  ASSUME TypeOK PROVE ExWdata \in Word /\ ExHiLo \in Word /\ HiLoNow \in Word
<1>1. /\ idex.a \in Word /\ idex.b \in Word /\ idex.link \in Word
      /\ exmem.hilo \in Word /\ memwb.hilo \in Word /\ hilo \in Word
      /\ exmem.cp0data \in Word /\ memwb.cp0data \in Word
      /\ cp0.status \in Word /\ cp0.epc \in Word
  BY ShapesOfTypeOK DEF IdExType, ExMemType, MemWbType, Cp0Type
<1>2. HiLoNow \in Word
  BY <1>1 DEF HiLoNow
<1>3. Cp0Read(idex.sel) \in Word
  BY <1>1 DEF Cp0Read
<1>4. ExWdata \in Word
  BY <1>1, <1>2, <1>3, PlusType, SmallWords DEF ExWdata
<1>5. ExHiLo \in Word
  BY <1>1, <1>2, UnitType, SmallWords DEF ExHiLo
<1> QED
  BY <1>2, <1>4, <1>5

LEMMA ExResultType == ASSUME TypeOK PROVE ExResult \in ExMemType
<1>1. idex \in IdExType
  BY ShapesOfTypeOK
<1> QED
  BY <1>1, ExTypes, SmallWords DEF ExResult, ExMemType, IdExType, ExcCode

LEMMA OperandTypes ==
  ASSUME TypeOK, NEW in \in Inputs
  PROVE  OperandA(in) \in Word /\ OperandB(in) \in Word
<1>1. ifid.inst \in Instr /\ memwb.wdata \in Word /\ regs \in [Reg -> Word]
  BY ShapesOfTypeOK DEF IfIdType, MemWbType
<1>2. ASSUME NEW r \in Reg PROVE Forwarded(in, r) \in Word
  <2>1. RegRead(r) \in Word
    BY <1>1, SmallWords DEF RegRead
  <2> QED
    BY <2>1, ExTypes, MemWdataType DEF Forwarded
<1> QED
  BY <1>1, <1>2 DEF OperandA, OperandB, Instr

LEMMA DecodedType ==
  ASSUME TypeOK, NEW in \in Inputs PROVE Decoded(in) \in IdExType
<1>1. ifid.inst \in Instr /\ ifid.pc \in Word /\ slotNext \in BOOLEAN
  BY ShapesOfTypeOK DEF IfIdType
<1>2. WritesReg(ifid.inst) \in BOOLEAN
  BY DEF WritesReg
<1>3. DecodedException(ifid.inst) \in ExcCode
  BY DEF DecodedException, ExcCode
<1>4. Link(ifid.inst, ifid.pc) \in Word
  BY <1>1, PlusType, SmallWords DEF Link
<1>5. 0 \in Reg
  BY DEF Reg
<1> QED
  BY <1>1, <1>2, <1>3, <1>4, <1>5, OperandTypes DEF Decoded, IdExType, Instr

(***************************************************************************)
(* Type correctness.  The registers every edge writes come first, then one *)
(* step for each action.                                                   *)
(***************************************************************************)
LEMMA IBufEdgeType ==
  ASSUME TypeOK, NEW in \in Inputs,
         IBuf!Clock(in.rst, ce, Flush, Stall(in) > 0, in.fetch.ack, in.fetch.inst, pc, 0, FALSE)
  PROVE  ibuf' \in IBuf!BufType
<1>1. pc \in Word /\ ibuf \in IBuf!BufType /\ in.fetch.inst \in Instr
  BY InputType, ShapesOfTypeOK
<1>2. CASE IBuf!Begin(in.rst, ce, Flush, pc, 0, FALSE)
  BY <1>1, <1>2, NopType DEF IBuf!Begin, IBuf!BufType, IBuf!State
<1>3. CASE IBuf!Answered(in.rst, Stall(in) > 0, in.fetch.ack, in.fetch.inst, FALSE)
  BY <1>1, <1>3, BubbleTypes, SmallWords
  DEF IBuf!Answered, IBuf!Quiet, IBuf!BufType, IBuf!State
<1> QED
  BY <1>1, <1>2, <1>3, BubbleTypes
  DEF IBuf!Clock, IBuf!Reset, IBuf!Abort, IBuf!Release, IBuf!Hold

LEMMA DBufEdgeType ==
  ASSUME TypeOK, NEW in \in Inputs,
         DBuf!Clock(in.rst, MemCe, Flush, Stall(in) > 0, in.dack, dmem, 0, exmem.reg2, MemWe)
  PROVE  dbuf' \in DBuf!BufType
<1>1. exmem.reg2 \in Word /\ dbuf \in DBuf!BufType /\ dmem \in Word /\ MemWe \in BOOLEAN
  BY ShapesOfTypeOK DEF ExMemType, MemWe
<1>2. CASE DBuf!Begin(in.rst, MemCe, Flush, 0, exmem.reg2, MemWe)
  BY <1>1, <1>2, SmallWords DEF DBuf!Begin, DBuf!BufType, DBuf!State
<1>3. CASE DBuf!Answered(in.rst, Stall(in) > 0, in.dack, dmem, MemWe)
  BY <1>1, <1>3, BubbleTypes, SmallWords
  DEF DBuf!Answered, DBuf!Quiet, DBuf!BufType, DBuf!State
<1> QED
  BY <1>1, <1>2, <1>3, BubbleTypes
  DEF DBuf!Clock, DBuf!Reset, DBuf!Abort, DBuf!Release, DBuf!Hold

LEMMA EdgeType ==
  ASSUME TypeOK, NEW in \in Inputs, Edge(in)
  PROVE  /\ ce' \in BOOLEAN
         /\ pc' \in Word
         /\ ibuf' \in IBuf!BufType
         /\ dbuf' \in DBuf!BufType
         /\ dmem' \in Word
<1>1. pc \in Word /\ dmem \in Word /\ dbuf.dat \in Word /\ ifid.inst.imm \in Word
  BY ShapesOfTypeOK DEF DBuf!BufType, IfIdType, Instr
<1>2. PcEdge(in) /\ BusEdge(in)
  BY DEF Edge
<1>3. ce' \in BOOLEAN
  BY <1>2, InputType DEF PcEdge
<1>4. Target(ifid.inst, OperandA(in)) \in Word /\ Plus(pc, 1) \in Word
  BY <1>1, OperandTypes, PlusType, SmallWords DEF Target
<1>5. pc' \in Word
  BY <1>1, <1>2, <1>4, NewPcType, VectorAssumption DEF PcEdge
<1>6. ibuf' \in IBuf!BufType /\ dbuf' \in DBuf!BufType
  BY <1>2, IBufEdgeType, DBufEdgeType DEF BusEdge
<1>7. dmem' \in Word
  BY <1>1, <1>2 DEF BusEdge
<1> QED
  BY <1>3, <1>5, <1>6, <1>7

LEMMA WriteBackType ==
  ASSUME TypeOK, WriteBack
  PROVE  regs' \in [Reg -> Word] /\ hilo' \in Word /\ LLbit' \in BOOLEAN
  BY ShapesOfTypeOK, LLbitNowType DEF WriteBack, MemWbType

LEMMA Cp0EdgeType ==
  ASSUME TypeOK, NEW in \in Inputs, Cp0Edge(in)
  PROVE  cp0' \in Cp0Type
<1>1. exmem.adr \in Word /\ exmem.slot \in BOOLEAN /\ cp0.bd \in BOOLEAN
  BY ShapesOfTypeOK DEF ExMemType, Cp0Type
<1>2. Plus(exmem.adr, Words - 1) \in Word
  BY <1>1, PlusType, SmallWords
<1>3. SetEXL(StatusNow) \in Word /\ ClearEXL(StatusNow) \in Word
  BY Cp0NowType, StatusType
<1> QED
  BY <1>1, <1>2, <1>3, Cp0NowType, InputType DEF Cp0Edge, Cp0Type

LEMMA TypeInit == Init => TypeOK
<1> SUFFICES ASSUME Init PROVE TypeOK
  OBVIOUS
<1>1. ResetPC \in Word /\ 0 \in Word
  BY VectorAssumption, SmallWords
<1>2. regs \in [Reg -> Word] /\ cp0 \in Cp0Type
  BY <1>1 DEF Init, Cp0Type
<1> QED
  BY <1>1, <1>2, BubbleTypes, ShapesOfTypeOK DEF Init

LEMMA TypeStep == TypeOK /\ [Next]_vars => TypeOK'
<1> SUFFICES ASSUME TypeOK, [Next]_vars PROVE TypeOK'
  OBVIOUS
<1> DEFINE PipeTypes == /\ ifid' \in IfIdType
                        /\ idex' \in IdExType
                        /\ slotNext' \in BOOLEAN
                        /\ exmem' \in ExMemType
                        /\ cnt' \in Nat
                        /\ memwb' \in MemWbType
           RegTypes  == /\ regs' \in [Reg -> Word]
                        /\ hilo' \in Word
                        /\ LLbit' \in BOOLEAN
                        /\ cp0' \in Cp0Type
<1>0. /\ ifid \in IfIdType /\ idex \in IdExType /\ slotNext \in BOOLEAN
      /\ exmem \in ExMemType /\ cnt \in Nat /\ regs \in [Reg -> Word]
  BY ShapesOfTypeOK
<1>a. ASSUME NEW in \in Inputs, Edge(in), PipeTypes, RegTypes PROVE TypeOK'
  BY <1>a, EdgeType DEF TypeOK, IfIdType, IdExType, ExMemType, MemWbType, Cp0Type
<1>1. CASE ResetCycle
  <2>1. PICK in \in Inputs :
          /\ Edge(in) /\ ifid' = IfIdBubble
          /\ idex' = [IdExBubble EXCEPT !.adr = idex.adr, !.exc = idex.exc]
          /\ slotNext' = FALSE /\ exmem' = ExMemBubble /\ cnt' = 0 /\ memwb' = MemWbBubble
          /\ hilo' = 0 /\ LLbit' = FALSE
          /\ cp0' = [status |-> 0, epc |-> 0, bd |-> FALSE, ip |-> FALSE]
          /\ UNCHANGED regs
    BY <1>1 DEF ResetCycle
  <2>2. idex' \in IdExType
    BY <2>1, <1>0, BubbleTypes DEF IdExType
  <2>3. PipeTypes
    BY <2>1, <2>2, BubbleTypes
  <2>4. RegTypes
    BY <2>1, <1>0, SmallWords DEF Cp0Type
  <2> QED
    BY <2>1, <2>3, <2>4, <1>a
<1>2. CASE FlushCycle
  <2>1. PICK in \in Inputs :
          /\ Edge(in) /\ WriteBack /\ Cp0Edge(in)
          /\ ifid' = IfIdBubble /\ idex' = IdExBubble /\ slotNext' = FALSE
          /\ exmem' = ExMemBubble /\ cnt' = 0 /\ memwb' = MemWbBubble
    BY <1>2 DEF FlushCycle
  <2>2. PipeTypes
    BY <2>1, BubbleTypes
  <2> QED
    BY <2>1, <2>2, WriteBackType, Cp0EdgeType, <1>a
<1>3. CASE MemStallCycle
  <2>1. PICK in \in Inputs :
          /\ Edge(in) /\ WriteBack /\ Cp0Edge(in)
          /\ memwb' = MemWbBubble
          /\ UNCHANGED <<ifid, idex, slotNext, exmem, cnt>>
    BY <1>3 DEF MemStallCycle
  <2>2. PipeTypes
    BY <2>1, <1>0, BubbleTypes
  <2> QED
    BY <2>1, <2>2, WriteBackType, Cp0EdgeType, <1>a
<1>4. CASE ExStallCycle
  <2>1. PICK in \in Inputs :
          /\ Edge(in) /\ WriteBack /\ Cp0Edge(in)
          /\ exmem' = ExMemBubble /\ cnt' = cnt + 1 /\ memwb' = MemResult(in)
          /\ UNCHANGED <<ifid, idex, slotNext>>
    BY <1>4 DEF ExStallCycle
  <2>2. PipeTypes
    BY <2>1, <1>0, BubbleTypes, MemResultType
  <2> QED
    BY <2>1, <2>2, WriteBackType, Cp0EdgeType, <1>a
<1>5. CASE IdStallCycle
  <2>1. PICK in \in Inputs :
          /\ Edge(in) /\ WriteBack /\ Cp0Edge(in)
          /\ idex' = IdExBubble /\ exmem' = ExResult /\ cnt' = 0
          /\ memwb' = MemResult(in)
          /\ UNCHANGED <<ifid, slotNext>>
    BY <1>5 DEF IdStallCycle
  <2>2. PipeTypes
    BY <2>1, <1>0, BubbleTypes, MemResultType, ExResultType
  <2> QED
    BY <2>1, <2>2, WriteBackType, Cp0EdgeType, <1>a
<1>6. CASE AdvanceCycle
  <2>1. PICK in \in Inputs :
          /\ Edge(in) /\ WriteBack /\ Cp0Edge(in)
          /\ ifid' = [pc |-> pc, inst |-> IBuf!CpuData(in.fetch.ack, in.fetch.inst)]
          /\ idex' = Decoded(in) /\ slotNext' = Branch(in)
          /\ exmem' = ExResult /\ cnt' = 0 /\ memwb' = MemResult(in)
    BY <1>6 DEF AdvanceCycle
  <2>2. IBuf!CpuData(in.fetch.ack, in.fetch.inst) \in Instr
    BY InputType, NopType, ShapesOfTypeOK DEF IBuf!CpuData, IBuf!BufType
  <2>3. ifid' \in IfIdType
    BY <2>1, <2>2, ShapesOfTypeOK DEF IfIdType
  <2>4. Branch(in) \in BOOLEAN
    BY DEF Branch, Taken
  <2>5. PipeTypes
    BY <2>1, <2>3, <2>4, DecodedType, ExResultType, MemResultType
  <2> QED
    BY <2>1, <2>5, WriteBackType, Cp0EdgeType, <1>a
<1>7. CASE UNCHANGED vars
  BY <1>7 DEF vars, frontVars, pipeVars, archVars, TypeOK,
     IBuf!BufType, IBuf!State, DBuf!BufType, DBuf!State
<1> QED
  BY <1>1, <1>2, <1>3, <1>4, <1>5, <1>6, <1>7 DEF Next

(* Whatever the program, the timing of the buses and the resets, every     *)
(* register of the pipeline keeps a value of its width.                    *)
THEOREM TypeCorrect == Spec => []TypeOK
  BY TypeInit, TypeStep, PTL DEF Spec

(***************************************************************************)
(* The interlock between the two buses.                                    *)
(***************************************************************************)
LEMMA AccessIsMemoryOp == MemCe => exmem.op \in MemoryOps
  BY DEF MemCe, MemWrites, StoreConditional, MemoryOps

LEMMA ExResultOp == ExResult.op = idex.op
  BY DEF ExResult

(* A memory instruction in EX sees neither bus stall nor EX stall.         *)
LEMMA NoLongStall ==
  ASSUME TypeOK, Interlock, idex.op \in MemoryOps, NEW in \in Inputs, ~Flush
  PROVE  Stall(in) = 3
<1>1. idex.op # "nop" /\ idex.op \notin {"madd", "div"}
  BY DEF MemoryOps, MemoryReads
<1>2. exmem.op \notin MemoryOps
  BY <1>1 DEF Interlock
<1>3. ~MemCe
  BY <1>2, AccessIsMemoryOp
<1>4. ~StallReqMem(in)
  BY <1>3 DEF Interlock, StallReqMem, DBuf!StallReq, DBuf!Requests, DBuf!Strobe
<1>5. ~StallReqEx
  BY <1>1, ShapesOfTypeOK DEF StallReqEx, ExSteps
<1>6. StallReqIf(in)
  BY DEF Interlock, StallReqIf, IBuf!StallReq, IBuf!Requests
<1> QED
  BY <1>4, <1>5, <1>6 DEF Stall

(* The answer of the data bus and the stage that waits for it.             *)
LEMMA DataBusStep ==
  ASSUME TypeOK, Interlock, NEW in \in Inputs, ~in.rst, BusEdge(in)
  PROVE  /\ dbuf'.st = "BUSY" =>
              Stall(in) = 5 /\ MemCe /\ dbuf'.we = MemWrites /\ dbuf'.dat = exmem.reg2
         /\ dbuf'.st = "WAIT_FOR_STALL" =>
              /\ Stall(in) \in {3, 4}
              /\ idex.op = "nop"
<1>0. DBuf!Clock(in.rst, MemCe, Flush, Stall(in) > 0, in.dack, dmem, 0, exmem.reg2, MemWe)
  BY DEF BusEdge
<1>s. Stall(in) \in {0, 3, 4, 5}
  BY DEF Stall
<1>1. CASE DBuf!Begin(in.rst, MemCe, Flush, 0, exmem.reg2, MemWe)
  <2>1. MemCe /\ ~Flush /\ StallReqMem(in)
    BY <1>1 DEF DBuf!Begin, DBuf!Requests, StallReqMem, DBuf!StallReq
  <2>2. Stall(in) = 5
    BY <2>1 DEF Stall
  <2> QED
    BY <1>1, <2>1, <2>2 DEF DBuf!Begin, MemWe, MemWrites, StoreConditional
<1>2. CASE DBuf!Answered(in.rst, Stall(in) > 0, in.dack, dmem, MemWe)
  <2>1. dbuf.st = "BUSY" /\ in.dack /\ dbuf'.st \in {"IDLE", "WAIT_FOR_STALL"}
        /\ (dbuf'.st = "WAIT_FOR_STALL" => Stall(in) > 0)
    BY <1>2 DEF DBuf!Answered, DBuf!Strobe, DBuf!Quiet, DBuf!ResetState
  <2>2. ~StallReqMem(in)
    BY <2>1 DEF StallReqMem, DBuf!StallReq, DBuf!Requests, DBuf!Strobe
  <2>3. Stall(in) # 5
    BY <2>2 DEF Stall
  <2>4. idex.op = "nop"
    BY <2>1, AccessIsMemoryOp DEF Interlock
  <2> QED
    BY <1>s, <2>1, <2>3, <2>4
<1>3. CASE DBuf!Abort(in.rst, Flush, in.dack) \/ DBuf!Release(in.rst, Stall(in) > 0)
  BY <1>3 DEF DBuf!Abort, DBuf!Release, DBuf!Quiet, DBuf!ResetState
<1>4. CASE DBuf!Hold(in.rst, MemCe, Flush, Stall(in) > 0, in.dack)
  <2>1. dbuf' = dbuf
    BY <1>4 DEF DBuf!Hold
  <2>2. CASE dbuf.st = "BUSY"
    <3>1. ~in.dack /\ ~Flush /\ StallReqMem(in)
      BY <1>4, <2>2 DEF DBuf!Hold, DBuf!Strobe, StallReqMem, DBuf!StallReq
    <3>2. Stall(in) = 5
      BY <3>1 DEF Stall
    <3> QED
      BY <2>1, <2>2, <3>2 DEF Interlock
  <2>3. CASE dbuf.st = "WAIT_FOR_STALL"
    <3>1. Stall(in) > 0 /\ idex.op = "nop" /\ ~MemCe
      BY <1>4, <2>3, AccessIsMemoryOp DEF DBuf!Hold, DBuf!Strobe, Interlock
    <3>2. Stall(in) # 5
      BY <2>3, <3>1 DEF Stall, StallReqMem, DBuf!StallReq, DBuf!Requests, DBuf!Strobe
    <3> QED
      BY <1>s, <2>1, <2>3, <3>1, <3>2
  <2> QED
    BY <2>1, <2>2, <2>3
<1> QED
  BY <1>0, <1>1, <1>2, <1>3, <1>4 DEF DBuf!Clock, DBuf!Reset

(* The pipeline moves only with a word fetched: the buffer is idle again.  *)
LEMMA FetchDone ==
  ASSUME NEW in \in Inputs, ~in.rst, ~Flush, Stall(in) = 0, BusEdge(in)
  PROVE  ibuf'.st = "IDLE"
<1>0. IBuf!Clock(in.rst, ce, Flush, Stall(in) > 0, in.fetch.ack, in.fetch.inst, pc, 0, FALSE)
  BY DEF BusEdge
<1>1. ~StallReqIf(in) /\ ~(Stall(in) > 0)
  BY DEF Stall
<1>2. ~IBuf!Requests(ce, Flush) /\ (IBuf!Strobe => in.fetch.ack)
  BY <1>1 DEF StallReqIf, IBuf!StallReq
<1> QED
  BY <1>0, <1>1, <1>2
     DEF IBuf!Clock, IBuf!Reset, IBuf!Begin, IBuf!Answered, IBuf!Abort, IBuf!Release,
         IBuf!Hold, IBuf!Quiet, IBuf!ResetState

LEMMA InterlockInit == Init => Interlock
  BY DEF Init, Interlock, ExMemBubble, IdExBubble, MemoryOps, MemoryReads,
         DBuf!ResetState, DBuf!Quiet

(* After a bubble in EX, a bubble in MEM and an idle data bus.             *)
LEMMA InterlockStep == TypeOK /\ Interlock /\ [Next]_vars => Interlock'
<1> SUFFICES ASSUME TypeOK, Interlock, [Next]_vars
             PROVE  Interlock'
  OBVIOUS
<1>n. "nop" \notin MemoryOps
  BY DEF MemoryOps, MemoryReads
<1>b. ExMemBubble.op = "nop" /\ IdExBubble.op = "nop"
  BY DEF ExMemBubble, IdExBubble
<1>1. CASE ResetCycle
  <2>1. PICK in \in Inputs :
          /\ in.rst /\ BusEdge(in) /\ exmem' = ExMemBubble
          /\ idex' = [IdExBubble EXCEPT !.adr = idex.adr, !.exc = idex.exc]
    BY <1>1 DEF ResetCycle, Edge
  <2>2. idex'.op = "nop"
    BY <2>1 DEF IdExBubble
  <2>3. dbuf'.st = "IDLE"
    BY <2>1 DEF BusEdge, DBuf!Clock, DBuf!Reset, DBuf!Begin, DBuf!Answered, DBuf!Abort,
       DBuf!Release, DBuf!Hold, DBuf!ResetState, DBuf!Quiet
  <2> QED
    BY <2>1, <2>2, <2>3, <1>n, <1>b DEF Interlock
<1>2. CASE FlushCycle
  <2>1. PICK in \in Inputs :
          ~in.rst /\ Flush /\ BusEdge(in) /\ idex' = IdExBubble /\ exmem' = ExMemBubble
    BY <1>2 DEF FlushCycle, Edge
  <2>2. Stall(in) = 0
    BY <2>1 DEF Stall
  <2>3. dbuf'.st # "BUSY" /\ dbuf'.st # "WAIT_FOR_STALL"
    BY <2>1, <2>2, DataBusStep
  <2> QED
    BY <2>1, <2>3, <1>n, <1>b DEF Interlock
<1>3. CASE MemStallCycle
  <2>1. PICK in \in Inputs :
          /\ ~in.rst /\ Stall(in) = 5 /\ BusEdge(in)
          /\ memwb' = MemWbBubble /\ LLbit' = LLbitNow
          /\ UNCHANGED <<idex, exmem>>
    BY <1>3 DEF MemStallCycle, Edge, WriteBack
  <2>2. ~Flush
    BY <2>1 DEF Stall
  <2>3. idex.op \notin MemoryOps
    BY <2>1, <2>2, NoLongStall
  <2>4. LLbitNow' = LLbitNow
    BY <2>1 DEF LLbitNow, MemWbBubble
  <2>5. (MemCe)' = MemCe /\ (MemWrites)' = MemWrites
    BY <2>1, <2>4 DEF MemCe, MemWrites, StoreConditional
  <2>6. dbuf'.st = "BUSY" => MemCe /\ dbuf'.we = MemWrites /\ dbuf'.dat = exmem.reg2
    BY <2>1, DataBusStep
  <2>7. dbuf'.st # "WAIT_FOR_STALL"
    BY <2>1, DataBusStep
  <2> QED
    BY <2>1, <2>3, <2>5, <2>6, <2>7 DEF Interlock
<1>4. CASE ExStallCycle
  <2>1. PICK in \in Inputs :
          ~in.rst /\ Stall(in) = 4 /\ BusEdge(in) /\ exmem' = ExMemBubble /\ idex' = idex
    BY <1>4 DEF ExStallCycle, Edge
  <2>2. idex.op \notin MemoryOps
    BY <2>1, NoLongStall DEF Stall
  <2>3. /\ dbuf'.st # "BUSY"
        /\ dbuf'.st = "WAIT_FOR_STALL" => idex.op = "nop"
    BY <2>1, DataBusStep
  <2> QED
    BY <2>1, <2>2, <2>3, <1>n, <1>b DEF Interlock
<1>5. CASE IdStallCycle
  <2>1. PICK in \in Inputs :
          ~in.rst /\ Stall(in) = 3 /\ BusEdge(in) /\ idex' = IdExBubble /\ exmem' = ExResult
    BY <1>5 DEF IdStallCycle, Edge
  <2>2. /\ dbuf'.st # "BUSY"
        /\ dbuf'.st = "WAIT_FOR_STALL" => idex.op = "nop"
    BY <2>1, DataBusStep
  <2> QED
    BY <2>1, <2>2, <1>n, <1>b, ExResultOp DEF Interlock
<1>6. CASE AdvanceCycle
  <2>1. PICK in \in Inputs :
          /\ ~in.rst /\ ~Flush /\ Stall(in) = 0 /\ Edge(in) /\ exmem' = ExResult
    BY <1>6 DEF AdvanceCycle
  <2>2. idex.op \notin MemoryOps
    BY <2>1, NoLongStall
  <2>3. ce' /\ ibuf'.st = "IDLE"
    BY <2>1, FetchDone DEF Edge, PcEdge
  <2>4. dbuf'.st # "BUSY" /\ dbuf'.st # "WAIT_FOR_STALL"
    BY <2>1, DataBusStep DEF Edge
  <2> QED
    BY <2>1, <2>2, <2>3, <2>4, ExResultOp DEF Interlock
<1>7. CASE UNCHANGED vars
  <2>1. UNCHANGED <<ce, ibuf, idex, exmem, memwb, dbuf, LLbit>>
    BY <1>7 DEF vars, frontVars, pipeVars, archVars
  <2> QED
    BY <2>1 DEF Interlock, MemCe, MemWrites, StoreConditional, LLbitNow
<1> QED
  BY <1>1, <1>2, <1>3, <1>4, <1>5, <1>6, <1>7 DEF Next

(* A memory instruction is followed by a bubble and gets to MEM in the     *)
(* cycle after it entered EX, and a running transaction on the data bus is *)
(* the one MEM asks for, for every program and every timing.               *)
THEOREM InterlockHolds == Spec => []Interlock
  BY TypeInit, TypeStep, InterlockInit, InterlockStep, PTL DEF Spec

(* The answer kept in rd_buf of the data bus is never given to an access   *)
(* other than the one it belongs to.                                       *)
THEOREM NoStaleDataHolds == Spec => []NoStaleData
<1>1. Interlock => NoStaleData
  BY AccessIsMemoryOp DEF Interlock, NoStaleData
<1> QED
  BY <1>1, InterlockHolds, PTL

(* No load or store leaves MEM without the answer of a transaction of its  *)
(* own, with its direction and its data.                                   *)
THEOREM EveryAccessServedHolds == Spec => EveryAccessServed
<1> DEFINE Served == MemCe /\ LeavesMem =>
                       /\ dbuf.st = "BUSY" /\ dbuf'.st # "BUSY"
                       /\ dbuf.we = MemWrites
                       /\ dbuf.we => dbuf.dat = exmem.reg2
<1>1. TypeOK /\ Interlock /\ [Next]_vars => Served
  <2> SUFFICES ASSUME TypeOK, Interlock, [Next]_vars, MemCe, LeavesMem
               PROVE  dbuf.st = "BUSY" /\ dbuf'.st # "BUSY"
    BY DEF Interlock
  <2>1. Next
    BY DEF LeavesMem, vars, pipeVars
  <2>2. PICK in \in Inputs : Edge(in) /\ ~Flush /\ ~in.rst /\ Stall(in) # 5
    <3>1. ~ResetCycle /\ ~FlushCycle /\ ~MemStallCycle
      BY DEF ResetCycle, FlushCycle, MemStallCycle, LeavesMem, Edge, PcEdge
    <3>2. ExStallCycle \/ IdStallCycle \/ AdvanceCycle
      BY <2>1, <3>1 DEF Next
    <3> QED
      BY <3>2 DEF ExStallCycle, IdStallCycle, AdvanceCycle, LeavesMem
  <2>3. ~StallReqMem(in)
    BY <2>2 DEF Stall
  <2>4. dbuf.st # "IDLE"
    BY <2>2, <2>3 DEF StallReqMem, DBuf!StallReq, DBuf!Requests
  <2>5. dbuf.st # "WAIT_FOR_STALL"
    BY AccessIsMemoryOp DEF Interlock
  <2>6. dbuf.st = "BUSY"
    BY <2>4, <2>5, ShapesOfTypeOK DEF DBuf!BufType, DBuf!State
  <2>7. dbuf'.st # "BUSY"
    BY <2>2, DataBusStep DEF Edge
  <2> QED
    BY <2>6, <2>7
<1>2. Spec => [][Served]_vars
  BY <1>1, TypeInit, TypeStep, InterlockInit, InterlockStep, PTL DEF Spec
<1> QED
  BY <1>2 DEF EveryAccessServed

(***************************************************************************)
(* What a reset leaves behind: until the first fetch nothing is on its way *)
(* to a register or to memory.                                             *)
(***************************************************************************)
Dropped == ~ce => /\ memwb = MemWbBubble /\ dbuf.st = "IDLE"
                  /\ hilo = 0 /\ LLbit = FALSE

LEMMA DroppedStep == Dropped /\ [Next]_vars => Dropped'
<1> SUFFICES ASSUME Dropped, [Next]_vars
             PROVE  Dropped'
  OBVIOUS
<1>1. CASE ResetCycle
  <2>1. PICK in \in Inputs :
          in.rst /\ BusEdge(in) /\ memwb' = MemWbBubble /\ hilo' = 0 /\ LLbit' = FALSE
    BY <1>1 DEF ResetCycle, Edge
  <2>2. dbuf'.st = "IDLE"
    BY <2>1 DEF BusEdge, DBuf!Clock, DBuf!Reset, DBuf!Begin, DBuf!Answered, DBuf!Abort,
       DBuf!Release, DBuf!Hold, DBuf!ResetState, DBuf!Quiet
  <2> QED
    BY <2>1, <2>2 DEF Dropped
<1>2. CASE FlushCycle \/ MemStallCycle \/ ExStallCycle \/ IdStallCycle \/ AdvanceCycle
  <2>1. ce'
    BY <1>2 DEF FlushCycle, MemStallCycle, ExStallCycle, IdStallCycle, AdvanceCycle,
       Edge, PcEdge
  <2> QED
    BY <2>1 DEF Dropped
<1>3. CASE UNCHANGED vars
  BY <1>3 DEF vars, frontVars, pipeVars, archVars, Dropped
<1> QED
  BY <1>1, <1>2, <1>3 DEF Next

(* Nothing of what was in flight when the CPU was reset is performed, in   *)
(* whatever cycle of a transaction or of a write-back the reset came.      *)
THEOREM ResetDropsInFlightHolds == Spec => ResetDropsInFlight
<1> DEFINE Silent == ~ce => UNCHANGED <<regs, hilo, LLbit, dmem>>
<1>1. Init => Dropped
  BY DEF Init, Dropped, DBuf!ResetState, DBuf!Quiet
<1>2. TypeOK /\ Dropped /\ [Next]_vars => Silent
  <2> SUFFICES ASSUME TypeOK, Dropped, [Next]_vars, ~ce
               PROVE  UNCHANGED <<regs, hilo, LLbit, dmem>>
    OBVIOUS
  <2>0. /\ memwb = MemWbBubble /\ dbuf.st = "IDLE" /\ hilo = 0 /\ LLbit = FALSE
        /\ regs \in [Reg -> Word]
    BY DEF Dropped, TypeOK
  <2>1. ASSUME NEW in \in Inputs, Edge(in)
        PROVE  dmem' = dmem
    BY <2>0, <2>1 DEF Edge, BusEdge, Inputs, DBuf!Strobe
  <2>2. WriteBack => UNCHANGED <<regs, hilo, LLbit>>
    BY <2>0 DEF WriteBack, MemWbBubble, LLbitNow
  <2>3. CASE ResetCycle
    BY <2>0, <2>1, <2>3 DEF ResetCycle
  <2>4. CASE FlushCycle \/ MemStallCycle \/ ExStallCycle \/ IdStallCycle \/ AdvanceCycle
    BY <2>1, <2>2, <2>4
       DEF FlushCycle, MemStallCycle, ExStallCycle, IdStallCycle, AdvanceCycle
  <2>5. CASE UNCHANGED vars
    BY <2>5 DEF vars, archVars
  <2> QED
    BY <2>3, <2>4, <2>5 DEF Next
<1>3. Spec => [][Silent]_vars
  BY <1>1, <1>2, TypeInit, TypeStep, DroppedStep, PTL DEF Spec
<1> QED
  BY <1>3 DEF ResetDropsInFlight

(***************************************************************************)
(* The words of the instruction bus.                                       *)
(***************************************************************************)
FetchInv == /\ FetchBelongsToPc
            /\ ~ce => pc = ResetPC /\ ibuf.st = "IDLE"
            /\ ~ibuf.we

(* An answer of the bus is stored code.                                    *)
LEMMA FetchedWord ==
  ASSUME NEW in \in Inputs, in.fetch.ack
  PROVE  IBuf!Strobe /\ in.fetch.inst \in Code[ibuf.adr]
BY DEF Inputs, Fetches

LEMMA FetchBusStep ==
  ASSUME FetchInv, NEW in \in Inputs, ~in.rst, Edge(in)
  PROVE  /\ ibuf'.st = "BUSY" => ibuf'.adr = pc'
         /\ ibuf'.st = "WAIT_FOR_STALL" => ibuf'.rd \in Code[pc']
<1>0. IBuf!Clock(in.rst, ce, Flush, Stall(in) > 0, in.fetch.ack, in.fetch.inst, pc, 0, FALSE)
  BY DEF Edge, BusEdge
<1>1. ce /\ ~Flush /\ Stall(in) > 0 => pc' = pc
  BY DEF Edge, PcEdge
<1>2. CASE IBuf!Begin(in.rst, ce, Flush, pc, 0, FALSE)
  <2>1. ce /\ ~Flush /\ StallReqIf(in)
    BY <1>2 DEF IBuf!Begin, IBuf!Requests, StallReqIf, IBuf!StallReq
  <2>2. Stall(in) > 0
    BY <2>1 DEF Stall
  <2> QED
    BY <1>1, <1>2, <2>1, <2>2 DEF IBuf!Begin
<1>3. CASE IBuf!Answered(in.rst, Stall(in) > 0, in.fetch.ack, in.fetch.inst, FALSE)
  <2>1. in.fetch.ack /\ ibuf.st = "BUSY" /\ ce
    BY <1>3 DEF IBuf!Answered, IBuf!Strobe, FetchInv
  <2>2. in.fetch.inst \in Code[pc]
    BY <2>1, FetchedWord DEF FetchInv, FetchBelongsToPc
  <2>3. CASE Stall(in) > 0
    <3>1. ~Flush
      BY <2>3 DEF Stall
    <3> QED
      BY <1>1, <1>3, <2>1, <2>2, <2>3, <3>1 DEF IBuf!Answered, IBuf!Quiet
  <2>4. CASE ~(Stall(in) > 0)
    BY <1>3, <2>4 DEF IBuf!Answered, IBuf!ResetState, IBuf!Quiet
  <2> QED
    BY <2>3, <2>4
<1>4. CASE IBuf!Abort(in.rst, Flush, in.fetch.ack) \/ IBuf!Release(in.rst, Stall(in) > 0)
  BY <1>4 DEF IBuf!Abort, IBuf!Release, IBuf!Quiet, IBuf!ResetState
<1>5. CASE IBuf!Hold(in.rst, ce, Flush, Stall(in) > 0, in.fetch.ack)
  <2>1. ibuf' = ibuf
    BY <1>5 DEF IBuf!Hold
  <2>2. CASE ibuf.st = "BUSY"
    <3>1. ~in.fetch.ack /\ ~Flush /\ StallReqIf(in) /\ ce
      BY <1>5, <2>2 DEF IBuf!Hold, IBuf!Strobe, StallReqIf, IBuf!StallReq, FetchInv
    <3>2. Stall(in) > 0
      BY <3>1 DEF Stall
    <3> QED
      BY <1>1, <2>1, <2>2, <3>1, <3>2 DEF FetchInv, FetchBelongsToPc
  <2>3. CASE ibuf.st = "WAIT_FOR_STALL"
    <3>1. Stall(in) > 0 /\ ce
      BY <1>5, <2>3 DEF IBuf!Hold, IBuf!Strobe, FetchInv
    <3>2. ~Flush
      BY <3>1 DEF Stall
    <3> QED
      BY <1>1, <2>1, <2>3, <3>1, <3>2 DEF FetchInv, FetchBelongsToPc
  <2> QED
    BY <2>1, <2>2, <2>3
<1> QED
  BY <1>0, <1>2, <1>3, <1>4, <1>5 DEF IBuf!Clock, IBuf!Reset

LEMMA FetchStep ==
  ASSUME WarmReset = FALSE, Nop \in Code[ResetPC]
  PROVE  TypeOK /\ FetchInv /\ [Next]_vars => FetchInv'
<1> SUFFICES ASSUME TypeOK, FetchInv, [Next]_vars
             PROVE  FetchInv'
  OBVIOUS
<1>1. CASE ResetCycle
  BY <1>1 DEF ResetCycle, Inputs
<1>2. ASSUME NEW in \in Inputs, ~in.rst, Edge(in),
             ifid'.pc # 0 => ifid'.inst \in Code[ifid'.pc]
      PROVE  FetchInv'
  <2>1. ce'
    BY <1>2 DEF Edge, PcEdge
  <2>2. ~ibuf'.we
    BY <1>2 DEF Edge, BusEdge, FetchInv, IBuf!Clock, IBuf!Reset, IBuf!Begin, IBuf!Answered,
       IBuf!Abort, IBuf!Release, IBuf!Hold, IBuf!Quiet, IBuf!ResetState
  <2> QED
    BY <1>2, <2>1, <2>2, FetchBusStep DEF FetchInv, FetchBelongsToPc
<1>3. CASE FlushCycle
  BY <1>2, <1>3 DEF FlushCycle, IfIdBubble
<1>4. CASE MemStallCycle \/ ExStallCycle \/ IdStallCycle
  BY <1>2, <1>4 DEF MemStallCycle, ExStallCycle, IdStallCycle, FetchInv, FetchBelongsToPc
<1>5. CASE AdvanceCycle
  <2>1. PICK in \in Inputs :
          /\ ~in.rst /\ ~Flush /\ Stall(in) = 0 /\ Edge(in)
          /\ ifid' = [pc |-> pc, inst |-> IBuf!CpuData(in.fetch.ack, in.fetch.inst)]
    BY <1>5 DEF AdvanceCycle
  <2>2. ~StallReqIf(in)
    BY <2>1 DEF Stall
  <2>3. IBuf!CpuData(in.fetch.ack, in.fetch.inst) \in Code[pc]
    <3>1. CASE ibuf.st = "BUSY"
      <4>1. in.fetch.ack /\ ibuf.adr = pc
        BY <2>2, <3>1 DEF StallReqIf, IBuf!StallReq, IBuf!Strobe, FetchInv, FetchBelongsToPc
      <4>2. in.fetch.inst \in Code[pc]
        BY <4>1, FetchedWord
      <4>3. ~ibuf.we
        BY DEF FetchInv
      <4> QED
        BY <3>1, <4>1, <4>2, <4>3 DEF IBuf!CpuData, IBuf!Strobe
    <3>2. CASE ibuf.st = "WAIT_FOR_STALL"
      BY <3>2 DEF IBuf!CpuData, IBuf!Strobe, FetchInv, FetchBelongsToPc
    <3>3. CASE ibuf.st = "IDLE"
      <4>1. ~ce
        BY <2>1, <2>2, <3>3 DEF StallReqIf, IBuf!StallReq, IBuf!Requests
      <4> QED
        BY <3>3, <4>1 DEF IBuf!CpuData, IBuf!Strobe, FetchInv
    <3> QED
      BY <3>1, <3>2, <3>3, ShapesOfTypeOK DEF IBuf!BufType, IBuf!State
  <2> QED
    BY <1>2, <2>1, <2>3
<1>6. CASE UNCHANGED vars
  BY <1>6 DEF vars, frontVars, FetchInv, FetchBelongsToPc
<1> QED
  BY <1>1, <1>3, <1>4, <1>5, <1>6 DEF Next

(* ID decodes what is stored at the address it records, whatever stalls,   *)
(* flushes and branches happened while the word was fetched, when the CPU  *)
(* is reset once and the first word of the boot code is a NOP.             *)
THEOREM FetchBelongsToPcHolds ==
  ASSUME WarmReset = FALSE, Nop \in Code[ResetPC]
  PROVE  Spec => []FetchBelongsToPc
<1>1. Init => FetchInv
  BY DEF Init, FetchInv, FetchBelongsToPc, IfIdBubble, IBuf!ResetState, IBuf!Quiet
<1>2. FetchInv => FetchBelongsToPc
  BY DEF FetchInv
<1> QED
  BY <1>1, <1>2, FetchStep, TypeInit, TypeStep, PTL DEF Spec
=============================================================================
