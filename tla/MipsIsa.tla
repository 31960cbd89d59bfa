------------------------------ MODULE MipsIsa ------------------------------
(***************************************************************************)
(* The instruction set of OpenMIPS as far as the pipeline tells its        *)
(* members apart.  Memory is addressed by word and a machine word has      *)
(* Words values, so that both PC + 4 and register arithmetic wrap as the   *)
(* 32-bit hardware does.  An instruction is decoded already: the fields    *)
(* rd, rs, rt and imm stand for the destination, the two register operands *)
(* and the immediate, branch target or CP0 register number of the          *)
(* encoding.  One operation stands for each group id.v and mem.v treat     *)
(* alike.                                                                  *)
(***************************************************************************)
EXTENDS Integers

CONSTANTS
  Words,     (* number of values of a machine word, addresses included   *)
  MaxReg,    (* highest general register                                 *)
  Code,      (* Code[a]: the instructions that may be stored at word a   *)
  ResetPC,   (* first fetch after reset, 0x30000000 in the flash         *)
  IntVec,    (* interrupt vector, 0x20                                   *)
  ExcVec     (* vector of every other exception, 0x40                    *)

Word == 0 .. Words - 1
Reg  == 0 .. MaxReg

(* Mutant: arithmetic that does not wrap.                                  *)
Plus_NoWrap(a, b) == a + b
Plus(a, b) == (a + b) % Words

MemoryReads == {"lw", "ll"}
MemoryOps   == MemoryReads \cup {"sw", "sc"}
Op == {"addiu", "j", "jal", "jr", "bne", "lw", "sw", "ll", "sc", "madd", "div",
       "mfhi", "mfc0", "mtc0", "teq", "syscall", "ri", "eret"}

Instr == [op : Op, rd : Reg, rs : Reg, rt : Reg, imm : Word]

(* The all-zero word decodes to SLL $0, $0, 0: it writes zero to $0. *)
Nop == [op |-> "addiu", rd |-> 0, rs |-> 0, rt |-> 0, imm |-> 0]

ASSUME WordsAssumption  == Words \in Nat /\ Words >= 4
ASSUME RegAssumption    == MaxReg \in Nat
ASSUME CodeAssumption   == Code \in [Word -> SUBSET Instr]
ASSUME VectorAssumption == {ResetPC, IntVec, ExcVec} \subseteq Word \ {0}

(***************************************************************************)
(* What the decoder derives from an instruction.                           *)
(***************************************************************************)
ReadsRs(i) == i.op \in {"addiu", "bne", "jr", "lw", "ll", "sw", "sc", "madd", "div", "teq"}
ReadsRt(i) == i.op \in {"bne", "sw", "sc", "madd", "div", "teq", "mtc0"}

WritesReg(i) == i.op \in {"addiu", "jal", "lw", "ll", "sc", "mfhi", "mfc0"}

DecodedException(i) ==
  CASE i.op = "syscall" -> "syscall"
    [] i.op = "ri"      -> "ri"
    [] i.op = "eret"    -> "eret"
    [] OTHER            -> "none"

Taken(i, a, b) == i.op \in {"j", "jal", "jr"} \/ (i.op = "bne" /\ a # b)
Target(i, a)   == IF i.op = "jr" THEN a ELSE i.imm
(* The link register gets the address behind the delay slot. *)
Link(i, adr)   == IF i.op = "jal" THEN Plus(adr, 2) ELSE 0

(* Stand-ins for the arithmetic of ex.v: the pipeline decides which        *)
(* operands reach a unit and when its result is taken, not what it is.     *)
MulAdd(hl, a, b) == Plus(hl, Plus(a, b))
Quotient(a, b)   == IF b = 0 THEN 0 ELSE a

(***************************************************************************)
(* The two CP0 registers software changes the control flow with.  Bit 0 of *)
(* Status is IE, bit 1 is EXL; the interrupt mask is taken as all ones, so *)
(* a masked line is one that never rises.                                  *)
(***************************************************************************)
STATUS == 0
EPC    == 1

IE(s)  == s % 2 = 1
EXL(s) == (s \div 2) % 2 = 1

SetEXL(s)   == IF EXL(s) THEN s ELSE Plus(s, 2)
ClearEXL(s) == IF EXL(s) THEN s - 2 ELSE s

ExcCode == {"none", "int", "syscall", "ri", "trap", "eret"}
=============================================================================
