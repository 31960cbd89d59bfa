------------------------------ MODULE Execute ------------------------------
(***************************************************************************)
(* The arithmetic of ex.v and the registers of ex_mem.v that carry a       *)
(* multiplication or a division from one cycle to the next.  Words have    *)
(* Width bits, 32 in the hardware, and are numbers; hilo is the pair HI,LO *)
(* the unit is given, which the forwarding of the pipeline keeps the same  *)
(* while an instruction is in EX.  Between two instructions EX holds a     *)
(* bubble: the stalls of the other stages do not matter here.              *)
(***************************************************************************)
EXTENDS Integers

CONSTANTS
  Width,       (* bits of a word                                         *)
  HiLoInputs   (* values of HI,LO an instruction may find                *)

ASSUME WidthAssumption == Width \in Nat /\ Width >= 2
ASSUME HiLoAssumption  == HiLoInputs \subseteq 0 .. 2^(2 * Width) - 1

VARIABLES
  op, a, b,    (* id_ex: the operation and its operands                  *)
  hilo,        (* HI and LO as forwarded to EX                           *)
  cnt,         (* cnt_div, cnt_mult                                      *)
  temp         (* div_temp, maddsub_temp                                 *)

vars == <<op, a, b, hilo, cnt, temp>>

Base   == 2^Width
Half   == 2^(Width - 1)
Word   == 0 .. Base - 1
Double == 0 .. Base * Base - 1

Sign(x)    == x >= Half
Negate(x)  == (Base - x) % Base
Negate2(x) == (Base * Base - x) % (Base * Base)

Adds       == {"add", "sub"}
Accumulate == {"madd", "maddu", "msub", "msubu"}
Products   == {"mult", "multu"} \cup Accumulate
Divisions  == {"div", "divu"}
Shifts     == {"sll", "srl", "sra"}
Compares   == {"slt", "sltu", "tlt", "tge", "tltu", "tgeu"}
ExOp       == Adds \cup Products \cup Divisions \cup Shifts \cup Compares

(***************************************************************************)
(* Sums, comparisons and shifts: one cycle.                                *)
(***************************************************************************)
Subtracts == op \in {"sub", "slt", "tlt", "tge"}

Reg2Mux   == IF Subtracts THEN Negate(b) ELSE b
ResultSum == (a + Reg2Mux) % Base

(* Two operands of one sign with a sum of the other. *)
OvSum == /\ Sign(a) = Sign(Reg2Mux)
         /\ Sign(ResultSum) # Sign(a)

(* Mutant: the sign of the difference decides, overflow or not.            *)
Reg1LtReg2_SumOnly == IF Subtracts THEN Sign(ResultSum) ELSE a < b
Reg1LtReg2 ==
  IF Subtracts
    THEN \/ Sign(a) /\ ~Sign(b)
         \/ Sign(a) = Sign(b) /\ Sign(ResultSum)
    ELSE a < b

ShiftRes ==
  CASE op = "sll" -> (b * 2^a) % Base
    [] op = "srl" -> b \div 2^a
    (* The sign is shifted in from the left, by nothing beyond Width. *)
    [] op = "sra" -> LET fill == IF Sign(b) /\ a <= Width
                                 THEN ((Base - 1) * 2^(Width - a)) % Base ELSE 0
                         low  == b \div 2^(a % Width)
                     IN  IF fill = Base - 1 THEN fill ELSE fill + low

(***************************************************************************)
(* Products: magnitudes are multiplied and the sign is put back.           *)
(***************************************************************************)
SignedProduct == op \in {"mult", "madd", "msub"}

Magnitude(signed, x) == IF signed /\ Sign(x) THEN Negate(x) ELSE x

MulTemp == Magnitude(SignedProduct, a) * Magnitude(SignedProduct, b)
MulRes  == IF SignedProduct /\ Sign(a) # Sign(b) THEN Negate2(MulTemp) ELSE MulTemp

(***************************************************************************)
(* Division: temp holds the remainder over the quotient, one bit of which  *)
(* a cycle shifts in.                                                      *)
(***************************************************************************)
Dividend == Magnitude(op = "div", a)
Divisor  == Magnitude(op = "div", b)

(* The bits 62 to 31 of temp: the remainder with the next bit appended. *)
Partial(t) == (t \div Half) % Base

Subtracted(t) == (Partial(t) - Divisor) * Base + (t % Half) * 2 + 1
Shifted(t)    == (t * 2) % (Base * Base)

DivTemp == IF cnt = 0 THEN Dividend ELSE temp

DivStep == IF Partial(DivTemp) >= Divisor THEN Subtracted(DivTemp) ELSE Shifted(DivTemp)

(* The step of the last cycle compares with > where the others have >=.    *)
DivLast == IF Partial(DivTemp) > Divisor THEN Subtracted(DivTemp) ELSE Shifted(DivTemp)

(* Mutant: one step too many.                                              *)
StallReqForDiv_Long == op \in Divisions /\ Divisor # 0 /\ cnt < Width
StallReqForDiv == op \in Divisions /\ Divisor # 0 /\ cnt < Width - 1

DivOut ==
  CASE Divisor = 0                     -> 0
    [] Divisor # 0 /\ cnt < Width - 1  -> DivStep
    [] OTHER                           -> DivLast

QTemp == DivOut % Base
RTemp == DivOut \div Base

(* Mutant: the remainder takes the sign of the quotient.                   *)
DivRes_RemainderSign ==
  LET negative == op = "div" /\ Sign(a) # Sign(b)
  IN  (IF negative THEN Negate(RTemp) ELSE RTemp) * Base
      + (IF negative THEN Negate(QTemp) ELSE QTemp)
DivRes ==
  (IF op = "div" /\ Sign(a) THEN Negate(RTemp) ELSE RTemp) * Base
  + (IF op = "div" /\ Sign(a) # Sign(b) THEN Negate(QTemp) ELSE QTemp)

(***************************************************************************)
(* What leaves EX.                                                         *)
(***************************************************************************)
StallReqForMadd == op \in Accumulate /\ cnt = 0
StallReq        == StallReqForMadd \/ StallReqForDiv

TempOut ==
  CASE StallReqForMadd -> IF op \in {"msub", "msubu"} THEN Negate2(MulRes) ELSE MulRes
    [] StallReqForDiv  -> DivOut
    [] OTHER           -> 0

HiLoOut ==
  CASE op \in {"mult", "multu"} -> MulRes
    [] op \in Accumulate        -> (temp + hilo) % (Base * Base)
    [] op \in Divisions         -> DivRes
    [] OTHER                    -> hilo

Wdata ==
  CASE op \in Shifts          -> ShiftRes
    [] op \in {"slt", "sltu"} -> IF Reg1LtReg2 THEN 1 ELSE 0
    [] op \in Adds            -> ResultSum
    [] OTHER                  -> 0

TrapAssert == \/ op \in {"tlt", "tltu"} /\ Reg1LtReg2
              \/ op \in {"tge", "tgeu"} /\ ~Reg1LtReg2
OvAssert   == op \in Adds /\ OvSum

(***************************************************************************)
(* The cycles of EX.                                                       *)
(***************************************************************************)
Bubble == op' = "nop" /\ a' = 0 /\ b' = 0 /\ hilo' = 0

(* Only an accumulation looks at the HI,LO it is given. *)
Issue ==
  /\ op = "nop"
  /\ op' \in ExOp
  /\ a' \in Word
  /\ b' \in Word
  /\ hilo' \in IF op' \in Accumulate THEN HiLoInputs ELSE {0}
  /\ UNCHANGED <<cnt, temp>>

Iterate ==
  /\ StallReq
  /\ cnt' = cnt + 1
  /\ temp' = TempOut
  /\ UNCHANGED <<op, a, b, hilo>>

Leave ==
  /\ op # "nop"
  /\ ~StallReq
  /\ Bubble
  /\ cnt' = 0
  /\ temp' = 0

(* Mutant: an exception leaves the step counter and the partial result.    *)
Flush_KeepsStep ==
  /\ op # "nop"
  /\ Bubble
  /\ UNCHANGED <<cnt, temp>>
Flush ==
  /\ op # "nop"
  /\ Bubble
  /\ cnt' = 0
  /\ temp' = 0

Init ==
  /\ op = "nop"
  /\ a = 0
  /\ b = 0
  /\ hilo = 0
  /\ cnt = 0
  /\ temp = 0

Next == Issue \/ Iterate \/ Leave \/ Flush

Spec == Init /\ [][Next]_vars

TypeOK ==
  /\ op \in ExOp \cup {"nop"}
  /\ a \in Word
  /\ b \in Word
  /\ hilo \in HiLoInputs \cup {0}
  /\ cnt \in 0 .. Width - 1
  /\ temp \in Double

(* After cnt steps of a division the low cnt bits of temp are the quotient *)
(* of the bits of the dividend consumed so far and its high bits their     *)
(* remainder; the bits in between are still to come.  A flush or a bubble  *)
(* between two divisions never lets the second start from the first.       *)
DivisionLoop ==
  op \in Divisions /\ cnt > 0 =>
    /\ temp \div Base < Divisor
    /\ Dividend = temp \div 2^cnt + (temp % 2^cnt) * Divisor * 2^(Width - cnt)

(***************************************************************************)
(* What the instruction set asks for, on integers.                         *)
(***************************************************************************)
Value(x)    == IF Sign(x) THEN x - Base ELSE x
Abs(n)      == IF n < 0 THEN -n ELSE n
InRange(n)  == -Half <= n /\ n < Half
Leaving     == op # "nop" /\ ~StallReq

SumWanted     == IF op = "add" THEN Value(a) + Value(b) ELSE Value(a) - Value(b)
ProductWanted == IF SignedProduct THEN Value(a) * Value(b) ELSE a * b
LessWanted    == IF Subtracts THEN Value(a) < Value(b) ELSE a < b

HiLoWanted ==
  CASE op \in {"mult", "multu"}  -> ProductWanted
    [] op \in {"madd", "maddu"}  -> hilo + ProductWanted
    [] op \in {"msub", "msubu"}  -> hilo - ProductWanted

(* x - y is computed as x + (-y), so the overflow test of SUB fails when   *)
(* y is the smallest integer; shift amounts are not reduced modulo Width.  *)
KnownDefect == \/ op = "sub" /\ b = Half
               \/ op \in Shifts /\ a >= Width

(* Products of both signs accumulate modulo the width of HI,LO; overflow,  *)
(* comparisons and traps hold for every pair of operands, the smallest     *)
(* integer included; shifts keep or drop the sign.                         *)
ArithmeticResult ==
  Leaving /\ ~KnownDefect =>
    /\ op \in Products => HiLoOut = HiLoWanted % (Base * Base)
    /\ op \in Adds => /\ OvAssert = ~InRange(SumWanted)
                      /\ Wdata = SumWanted % Base
    /\ op \in {"slt", "sltu"} => Wdata = IF LessWanted THEN 1 ELSE 0
    /\ op \in {"tlt", "tltu", "tge", "tgeu"} =>
         TrapAssert = (LessWanted = (op \in {"tlt", "tltu"}))
    /\ op = "sll" => Wdata = (b * 2^a) % Base
    /\ op = "srl" => Wdata = b \div 2^a
    /\ op = "sra" => Wdata = (Value(b) \div 2^a) % Base

(* A division leaves a quotient and a remainder that fit the operands and  *)
(* their signs, MIPS's rounding towards zero, and never a remainder above  *)
(* the divisor.  It is equal to the divisor, and the quotient one short,   *)
(* exactly when an odd quotient leaves nothing over.                       *)
DivisionResult ==
  Leaving /\ op \in Divisions /\ Divisor # 0 =>
    LET q == HiLoOut % Base
        r == HiLoOut \div Base
        m == Magnitude(op = "div", r)
    IN  /\ (q * b + r) % Base = a
        /\ m <= Divisor
        /\ op = "div" /\ r # 0 => Sign(r) = Sign(a)
        /\ m = Divisor <=> Dividend % Divisor = 0 /\ (Dividend \div Divisor) % 2 = 1
=============================================================================
