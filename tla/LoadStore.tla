----------------------------- MODULE LoadStore -----------------------------
(***************************************************************************)
(* The byte lanes of mem.v: which lanes of the 32-bit data bus a load or a *)
(* store selects, how a store places the bytes of its register on the bus  *)
(* and how a load takes the word apart.  A word is its four bytes, lane 1  *)
(* being bits 31 to 24.  The memory behind the bus is word-wide, ignores   *)
(* the two low address bits and writes the selected lanes.                 *)
(***************************************************************************)
EXTENDS Integers

CONSTANTS
  Byte,        (* byte values, closed under sign extension: 0 and 255    *)
  LastWord     (* the highest word address                               *)

ASSUME ByteAssumption == {0, 255} \subseteq Byte /\ Byte \subseteq 0 .. 255
ASSUME MemAssumption  == LastWord \in Nat

VARIABLES
  ram,         (* ram[w]: the word at word address w                     *)
  rt           (* the register loaded or stored, reg2 of mem.v           *)

vars == <<ram, rt>>

Lane    == 1 .. 4
WordVal == [Lane -> Byte]
Adr     == 0 .. 4 * LastWord + 3

LoadOp  == {"lb", "lbu", "lh", "lhu", "lw", "lwl", "lwr"}
StoreOp == {"sb", "sh", "sw", "swl", "swr"}

W(b1, b2, b3, b4) == <<b1, b2, b3, b4>>

(* mem_sel_o of a store. *)
Sel(op, low) ==
  CASE op = "sb"                         -> {low + 1}
    [] op = "sh" /\ low \in {0, 2}       -> {low + 1, low + 2}
    [] op = "sw" /\ low = 0              -> Lane
    [] op = "swl"                        -> low + 1 .. 4
    [] op = "swr"                        -> 1 .. low + 1
    [] OTHER                             -> {}

(* mem_data_o of SWL and SWR.  Lanes that are not selected carry zeros. *)
StoreLeft(low, r) ==
  CASE low = 0 -> r
    [] low = 1 -> W(0, r[1], r[2], r[3])
    [] low = 2 -> W(0, 0, r[1], r[2])
    [] low = 3 -> W(0, 0, 0, r[1])

(* Mutant: the bytes come from the high end of the register.               *)
StoreRight_HighEnd(low, r) ==
  CASE low = 0 -> W(r[1], 0, 0, 0)
    [] low = 1 -> W(r[1], r[2], 0, 0)
    [] low = 2 -> W(r[1], r[2], r[3], 0)
    [] low = 3 -> r
StoreRight(low, r) ==
  CASE low = 0 -> W(r[4], 0, 0, 0)
    [] low = 1 -> W(r[3], r[4], 0, 0)
    [] low = 2 -> W(r[2], r[3], r[4], 0)
    [] low = 3 -> r

StoreData(op, low, r) ==
  CASE op = "sb"  -> W(r[4], r[4], r[4], r[4])
    [] op = "sh"  -> W(r[3], r[4], r[3], r[4])
    [] op = "sw"  -> r
    [] op = "swl" -> StoreLeft(low, r)
    [] op = "swr" -> StoreRight(low, r)

(* wdata_o of LWL and LWR when the bus answers the word d. *)
LoadLeft(low, d, r) ==
  CASE low = 0 -> d
    [] low = 1 -> W(d[2], d[3], d[4], r[4])
    [] low = 2 -> W(d[3], d[4], r[3], r[4])
    [] low = 3 -> W(d[4], r[2], r[3], r[4])

(* Mutant: the bytes come from the low end of the word.                    *)
LoadRight_LowEnd(low, d, r) ==
  CASE low = 0 -> W(r[1], r[2], r[3], d[4])
    [] low = 1 -> W(r[1], r[2], d[3], d[4])
    [] low = 2 -> W(r[1], d[2], d[3], d[4])
    [] low = 3 -> d
LoadRight(low, d, r) ==
  CASE low = 0 -> W(r[1], r[2], r[3], d[1])
    [] low = 1 -> W(r[1], r[2], d[1], d[2])
    [] low = 2 -> W(r[1], d[1], d[2], d[3])
    [] low = 3 -> d

(* Mutant: the sign bit is not replicated.                                 *)
Fill_OneBit(signed, x) == IF signed /\ x >= 128 THEN 1 ELSE 0
Fill(signed, x)        == IF signed /\ x >= 128 THEN 255 ELSE 0

(* Mutant: LB extends like LBU.                                            *)
LoadByte_ZeroExtended(signed, x) == W(0, 0, 0, x)
LoadByte(signed, x)        == LET f == Fill(signed, x) IN W(f, f, f, x)
LoadHalfword(signed, x, y) == LET f == Fill(signed, x) IN W(f, f, x, y)

LoadData(op, low, d, r) ==
  CASE op \in {"lb", "lbu"}                      -> LoadByte(op = "lb", d[low + 1])
    [] op \in {"lh", "lhu"} /\ low \in {0, 2}    -> LoadHalfword(op = "lh", d[low + 1], d[low + 2])
    [] op = "lw" /\ low = 0                      -> d
    [] op = "lwl"                                -> LoadLeft(low, d, r)
    [] op = "lwr"                                -> LoadRight(low, d, r)
    [] OTHER                                     -> W(0, 0, 0, 0)

(* What a load leaves in the register and a store in the memory m.  The    *)
(* slave writes the selected lanes of one word.                            *)
Loaded(op, adr, m, r) == LoadData(op, adr % 4, m[adr \div 4], r)
Stored(op, adr, m, r) ==
  [m EXCEPT ![adr \div 4] = [l \in Lane |-> IF l \in Sel(op, adr % 4)
                                            THEN StoreData(op, adr % 4, r)[l] ELSE @[l]]]

LoadCycle == \E op \in LoadOp, adr \in Adr :
  rt' = Loaded(op, adr, ram, rt) /\ UNCHANGED ram

StoreCycle == \E op \in StoreOp, adr \in Adr :
  ram' = Stored(op, adr, ram, rt) /\ UNCHANGED rt

(* The memory as it is found, the register as any instruction left it.     *)
Init == ram \in [0 .. LastWord -> WordVal] /\ rt \in WordVal

Next == LoadCycle \/ StoreCycle

Spec == Init /\ [][Next]_vars

(* Loads and stores only move bytes.                                       *)
TypeOK == ram \in [0 .. LastWord -> WordVal] /\ rt \in WordVal

ByteAt(m, i) == m[i \div 4][(i % 4) + 1]

Bytes == INSTANCE ByteMemory WITH
           Top <- 4 * LastWord + 3,
           mem <- [i \in Adr |-> ByteAt(ram, i)],
           reg <- rt

(* Every select, shift and extension of mem.v: each load gives and each    *)
(* store moves the bytes of that very instruction, at every address, and   *)
(* leaves all others alone.                                                *)
EachAccess == \A adr \in Adr :
  /\ \A op \in LoadOp : Loaded(op, adr, ram, rt) = Bytes!AfterLoad(op, adr)
  /\ \A op \in StoreOp :
       LET m == Stored(op, adr, ram, rt)
       IN  [i \in Adr |-> ByteAt(m, i)] = Bytes!AfterStore(op, adr)

(* Sequences of loads and stores of mem.v are those of a memory of bytes.  *)
ByteSpec == Bytes!Spec

(* A word at any address is written by SWL and SWR and read by LWL and     *)
(* LWR: the second of the pair completes the first and spoils none of its  *)
(* bytes, across the word boundary and within one word.                    *)
UnalignedWord ==
  \A adr \in 0 .. 4 * LastWord :
    /\ LET m == Stored("swr", adr + 3, Stored("swl", adr, ram, rt), rt)
       IN  \A i \in 0 .. 3 : ByteAt(m, adr + i) = rt[i + 1]
    /\ Loaded("lwr", adr + 3, ram, Loaded("lwl", adr, ram, rt)) =
         [i \in Lane |-> ByteAt(ram, adr + i - 1)]
=============================================================================
