------------------------------- MODULE OsMem -------------------------------
(***************************************************************************)
(* Memory partitions (os_mem.c): a free list of blocks of equal size.  The *)
(* blocks the application holds are kept in held, a history variable: the  *)
(* code does not know them and trusts OSMemPut.                            *)
(***************************************************************************)
EXTENDS OsCore

CONSTANT OSMemNBlks      (* the blocks of the application's partitions     *)
ASSUME BlocksAssumption == OSMemNBlks \in Nat

Blocks    == 1 .. OSMemNBlks
Partition == [free |-> [i \in Blocks |-> i], nFree |-> OSMemNBlks, held |-> {}]

(* The header comes off its free list, and outside of the critical section *)
(* the blocks are linked.                                                  *)
OSMemCreate ==
  /\ AtTask("OSMemCreate")
  /\ os.mem.headers > 0
  /\ Leave([os EXCEPT !.mem.headers = @ - 1], <<[op |-> "OSMemCreate"]>>)
  /\ io' = NoIO
OSMemCreate_Link ==
  /\ Step("OSMemCreate")
  /\ Leave([os EXCEPT !.mem.parts = Append(@, Partition)], <<>>)
  /\ io' = NoIO

OSMemGet(p) ==
  LET part == os.mem.parts[p]
  IN  /\ Anywhere("OSMemGet")
      /\ part.nFree > 0
      /\ Leave([os EXCEPT !.mem.parts[p] =
                  [free |-> Tail(part.free), nFree |-> part.nFree - 1,
                   held |-> part.held \cup {Head(part.free)}]], <<>>)
      /\ io' = NoIO

OSMemPut(p, b) ==
  LET part == os.mem.parts[p]
  IN  /\ Anywhere("OSMemPut")
      /\ b \in part.held
      /\ part.nFree < OSMemNBlks
      /\ Leave([os EXCEPT !.mem.parts[p] =
                  [free |-> <<b>> \o part.free, nFree |-> part.nFree + 1,
                   held |-> part.held \ {b}]], <<>>)
      /\ io' = NoIO

MemNext ==
  \/ OSMemCreate \/ OSMemCreate_Link
  \/ \E p \in DOMAIN os.mem.parts : OSMemGet(p) \/ \E b \in Blocks : OSMemPut(p, b)
=============================================================================
