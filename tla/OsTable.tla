------------------------------ MODULE OsTable ------------------------------
(***************************************************************************)
(* The priority bit maps of uC/OS-II.  The ready list and the wait list of *)
(* an event are the same structure: one row of bits for every Width        *)
(* priorities (OSRdyTbl, OSEventTbl) and one group bit for every row       *)
(* (OSRdyGrp, OSEventGrp), from which the highest priority is found with   *)
(* two look-ups.  A row is the set of its columns, the group byte the set  *)
(* of its rows.  The code has Width = Rows = 8.                            *)
(***************************************************************************)
EXTENDS Integers

CONSTANTS Width, Rows

ASSUME WidthAssumption == Width \in Nat \ {0}
ASSUME RowsAssumption  == Rows \in Nat \ {0}

RowSet == 0 .. Rows - 1
BitSet == 0 .. Width - 1

(* Priorities count downwards in importance; the idle task has the last.   *)
OS_LOWEST_PRIO    == Rows * Width - 1
OS_TASK_IDLE_PRIO == OS_LOWEST_PRIO
Prios             == 0 .. OS_LOWEST_PRIO

(* OSTCBY and OSTCBX of a priority. *)
Y(prio) == prio \div Width
X(prio) == prio % Width

Table == [grp : SUBSET RowSet, tbl : [RowSet -> SUBSET BitSet]]

EmptyTable == [grp |-> {}, tbl |-> [y \in RowSet |-> {}]]

(* Every priority of S gets its row bit and its group bit. *)
Insert(T, S) ==
  [grp |-> T.grp \cup {Y(p) : p \in S},
   tbl |-> [y \in RowSet |-> T.tbl[y] \cup {X(p) : p \in {q \in S : Y(q) = y}}]]

(* Mutant: the group bit is left behind.                                   *)
Delete_GrpKept(T, S) ==
  [grp |-> T.grp,
   tbl |-> [y \in RowSet |-> T.tbl[y] \ {X(p) : p \in {q \in S : Y(q) = y}}]]
(* Every priority of S loses its row bit; the group bit goes with the last *)
(* one of a row.                                                           *)
Delete(T, S) ==
  LET row == [y \in RowSet |-> T.tbl[y] \ {X(p) : p \in {q \in S : Y(q) = y}}]
  IN  [grp |-> T.grp \ {Y(p) : p \in {q \in S : row[Y(q)] = {}}}, tbl |-> row]

(* OSUnMapTbl: the lowest bit that is set, 0 for an empty byte. *)
OSUnMapTbl(bits) ==
  IF bits = {} THEN 0 ELSE CHOOSE b \in bits : \A c \in bits : b <= c

Highest(T) ==
  LET y == OSUnMapTbl(T.grp) IN y * Width + OSUnMapTbl(T.tbl[y])

Has(T, prio)  == X(prio) \in T.tbl[Y(prio)]
Members(T)    == {p \in Prios : Has(T, p)}
IsEmptyTable(T) == T.grp = {}

(* A group bit is set exactly when its row has a member. *)
WellFormed(T) == \A y \in RowSet : y \in T.grp <=> T.tbl[y] # {}
=============================================================================
