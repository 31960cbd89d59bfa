------------------------------- MODULE OsRing -------------------------------
(***************************************************************************)
(* The circular buffer of a message queue (OS_Q): OSQIn is where the next  *)
(* message goes, OSQOut where the next one comes from, and both wrap at    *)
(* OSQEnd.  Slots that were read keep their old content.                   *)
(***************************************************************************)
EXTENDS Integers, Sequences

CONSTANT Slot         (* what a slot may hold: a message or null          *)

Rings(size) == [size : {size}, in : 0 .. size - 1, out : 0 .. size - 1,
                entries : 0 .. size, buf : [0 .. size - 1 -> Slot]]

NewRing(size, fill) ==
  [size |-> size, in |-> 0, out |-> 0, entries |-> 0, buf |-> [i \in 0 .. size - 1 |-> fill]]

Wrap(q, i)  == IF i >= q.size THEN i - q.size ELSE i
IsFull(q)   == q.entries >= q.size
(* The three places belong together. *)
RingOK(q)   == q.in = Wrap(q, q.out + q.entries)

(* Mutant: the slot behind OSQEnd is used before the pointer wraps.        *)
Enqueue_LateWrap(q, m) ==
  [q EXCEPT !.buf = [@ EXCEPT ![q.in] = m], !.entries = @ + 1,
            !.in = IF q.in = q.size - 1 THEN q.in ELSE q.in + 1]
Enqueue(q, m) ==
  [q EXCEPT !.buf = [@ EXCEPT ![q.in] = m], !.entries = @ + 1, !.in = Wrap(q, q.in + 1)]

EnqueueFront(q, m) ==
  LET out == IF q.out = 0 THEN q.size - 1 ELSE q.out - 1
  IN  [q EXCEPT !.buf = [@ EXCEPT ![out] = m], !.entries = @ + 1, !.out = out]

Next1(q)   == q.buf[q.out]
Dequeue(q) == [q EXCEPT !.entries = @ - 1, !.out = Wrap(q, q.out + 1)]
Flush(q)   == [q EXCEPT !.in = 0, !.out = 0, !.entries = 0]

(* The messages in the order in which they come out. *)
Contents(q) == [i \in 1 .. q.entries |-> q.buf[Wrap(q, q.out + i - 1)]]
=============================================================================
