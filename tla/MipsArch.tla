------------------------------ MODULE MipsArch ------------------------------
(***************************************************************************)
(* What a programmer sees of OpenMIPS: instructions execute one at a time, *)
(* each in a single step, with one branch delay slot, and an exception or  *)
(* an interrupt happens between two of them.  pc is the address of the     *)
(* next instruction and npc that of the one behind it; slot says that the  *)
(* next one is the delay slot of a taken branch.                           *)
(***************************************************************************)
EXTENDS MipsIsa

VARIABLES pc, npc, slot, regs, hilo, LLbit, status, epc, bd, dmem

vars == <<pc, npc, slot, regs, hilo, LLbit, status, epc, bd, dmem>>

Val(r) == IF r = 0 THEN 0 ELSE regs[r]

Init ==
  /\ pc = ResetPC
  /\ npc = ResetPC          \* the NOP the idle fetch buffer delivers, see README
  /\ slot = FALSE
  /\ regs = [r \in Reg |-> 0]
  /\ hilo = 0
  /\ LLbit = FALSE
  /\ status = 0
  /\ epc = 0
  /\ bd = FALSE
  /\ dmem = 0

SetReg(r, v) == regs' = [regs EXCEPT ![r] = IF r = 0 THEN @ ELSE v]

StoreSucceeds(i) == i.op = "sw" \/ (i.op = "sc" /\ LLbit)

Result(i) ==
  CASE i.op = "addiu" -> Plus(Val(i.rs), i.imm)
    [] i.op = "jal"   -> Plus(pc, 2)
    [] i.op \in {"lw", "ll"} -> dmem
    [] i.op = "sc"    -> IF LLbit THEN 1 ELSE 0
    [] i.op = "mfhi"  -> hilo
    [] i.op = "mfc0"  -> IF i.imm = STATUS THEN status ELSE epc

Raises(i) == \/ i.op \in {"syscall", "ri"}
             \/ i.op = "teq" /\ Val(i.rs) = Val(i.rt)

(* An instruction that neither raises an exception nor returns from one. *)
Execute(i) ==
  /\ ~Raises(i)
  /\ i.op # "eret"
  /\ pc' = npc
  /\ slot' = Taken(i, Val(i.rs), Val(i.rt))
  /\ npc' = IF slot' THEN Target(i, Val(i.rs)) ELSE Plus(npc, 1)
  /\ IF WritesReg(i) THEN SetReg(i.rd, Result(i)) ELSE UNCHANGED regs
  /\ hilo' = CASE i.op = "madd" -> MulAdd(hilo, Val(i.rs), Val(i.rt))
               [] i.op = "div"  -> Quotient(Val(i.rs), Val(i.rt))
               [] OTHER         -> hilo
  /\ LLbit' = (i.op = "ll" \/ (LLbit /\ i.op # "sc"))
  /\ dmem' = IF StoreSucceeds(i) THEN Val(i.rt) ELSE dmem
  /\ status' = IF i.op = "mtc0" /\ i.imm = STATUS THEN Val(i.rt) ELSE status
  /\ epc' = IF i.op = "mtc0" /\ i.imm = EPC THEN Val(i.rt) ELSE epc
  /\ UNCHANGED bd

(* Go to a vector; the return address is that of the branch when the       *)
(* exception hits its delay slot.                                          *)
Enter(vector, saves) ==
  /\ pc' = vector
  /\ npc' = Plus(vector, 1)
  /\ slot' = FALSE
  /\ status' = SetEXL(status)
  /\ IF saves
       THEN /\ epc' = IF slot THEN Plus(pc, Words - 1) ELSE pc
            /\ bd' = slot
       ELSE UNCHANGED <<epc, bd>>
  /\ UNCHANGED <<regs, hilo, LLbit>>

Raise(i) ==
  /\ Raises(i)
  /\ Enter(ExcVec, ~EXL(status))
  /\ UNCHANGED dmem

Return(i) ==
  /\ i.op = "eret"
  /\ pc' = epc
  /\ npc' = Plus(epc, 1)
  /\ slot' = FALSE
  /\ status' = ClearEXL(status)
  /\ UNCHANGED <<regs, hilo, LLbit, epc, bd, dmem>>

(* An interrupt is taken instead of the instruction at pc, which runs      *)
(* after the return.  When it is a store, the bus may have performed it.   *)
Interrupt ==
  /\ IE(status) /\ ~EXL(status)
  /\ Enter(IntVec, TRUE)
  /\ \/ UNCHANGED dmem
     \/ \E i \in Code[pc] : StoreSucceeds(i) /\ dmem' = Val(i.rt)

Step(i) == Execute(i) \/ Raise(i) \/ Return(i)

Next == Interrupt \/ \E i \in Code[pc] : Step(i)

Spec == Init /\ [][Next]_vars
=============================================================================
