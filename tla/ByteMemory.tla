----------------------------- MODULE ByteMemory -----------------------------
(***************************************************************************)
(* What loads and stores promise: memory is a row of bytes, most           *)
(* significant byte first, and an instruction copies bytes between it and  *)
(* one register.  reg[1] is the register's most significant byte.  An      *)
(* access of LH, LW, SH or SW to an address of the wrong alignment moves   *)
(* nothing: OpenMIPS has no address exception and such a load gives zero.  *)
(***************************************************************************)
EXTENDS Integers

CONSTANTS Byte, Top        (* Top: the highest byte address               *)

VARIABLES mem, reg

vars == <<mem, reg>>

ByteAdr == 0 .. Top
Lane    == 1 .. 4

(* The byte that extends a loaded one to the left. *)
Extension(signed, x) == IF signed /\ x >= 128 THEN 255 ELSE 0

LoadOp  == {"lb", "lbu", "lh", "lhu", "lw", "lwl", "lwr"}
StoreOp == {"sb", "sh", "sw", "swl", "swr"}

SizeOf(op) ==
  CASE op \in {"lb", "lbu", "sb"} -> 1
    [] op \in {"lh", "lhu", "sh"} -> 2
    [] op \in {"lw", "sw"}        -> 4

(* The aligned word that contains an address. *)
WordOf(adr) == {i \in ByteAdr : i \div 4 = adr \div 4}

Load(adr, size, signed) ==
  [l \in Lane |-> IF adr % size # 0 THEN 0
                  ELSE IF l > 4 - size THEN mem[adr + l - (4 - size) - 1]
                  ELSE Extension(signed, mem[adr])]

(* The bytes of memory from adr to the end of its word, into the high end  *)
(* of the register; those from the start of the word up to adr, into the   *)
(* low end.                                                                *)
LoadLeft(adr) ==
  [l \in Lane |-> IF adr + l - 1 \in WordOf(adr) THEN mem[adr + l - 1] ELSE reg[l]]
LoadRight(adr) ==
  [l \in Lane |-> IF adr + l - 4 \in WordOf(adr) THEN mem[adr + l - 4] ELSE reg[l]]

Store(adr, size) ==
  [i \in ByteAdr |-> IF adr % size = 0 /\ i \in adr .. adr + size - 1
                     THEN reg[i - adr + 4 - size + 1] ELSE mem[i]]
StoreLeft(adr) ==
  [i \in ByteAdr |-> IF i >= adr /\ i \in WordOf(adr) THEN reg[i - adr + 1] ELSE mem[i]]
StoreRight(adr) ==
  [i \in ByteAdr |-> IF i <= adr /\ i \in WordOf(adr) THEN reg[i - adr + 4] ELSE mem[i]]

(* The register after a load and the memory after a store. *)
AfterLoad(op, adr) ==
  CASE op = "lwl"                                -> LoadLeft(adr)
    [] op = "lwr"                                -> LoadRight(adr)
    [] op \in {"lb", "lbu", "lh", "lhu", "lw"}   -> Load(adr, SizeOf(op), op \in {"lb", "lh"})

AfterStore(op, adr) ==
  CASE op = "swl"                 -> StoreLeft(adr)
    [] op = "swr"                 -> StoreRight(adr)
    [] op \in {"sb", "sh", "sw"}  -> Store(adr, SizeOf(op))

Init == mem \in [ByteAdr -> Byte] /\ reg \in [Lane -> Byte]

Next == \E adr \in ByteAdr :
  \/ \E op \in LoadOp : reg' = AfterLoad(op, adr) /\ UNCHANGED mem
  \/ \E op \in StoreOp : mem' = AfterStore(op, adr) /\ UNCHANGED reg

Spec == Init /\ [][Next]_vars
=============================================================================
