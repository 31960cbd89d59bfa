------------------------------ MODULE Channel ------------------------------
(***************************************************************************)
(* What semaphores, mailboxes, queues and mutexes promise, whatever their  *)
(* implementation: a first-in first-out channel that loses and duplicates  *)
(* nothing.  What is put when the channel is empty may be handed to who    *)
(* waits, who gets it later.  A semaphore is a channel of empty messages,  *)
(* a mutex one with a single token.                                        *)
(*                                                                         *)
(* io[c] is what the last step did on channel c, as its caller was told.   *)
(***************************************************************************)
EXTENDS Integers, Sequences

CONSTANTS Channels, Messages

VARIABLES
  stored,   (* stored[c]: the messages in c, in order                      *)
  handed,   (* handed[c][m]: how many m are on their way to a task         *)
  io

HandedMore(c, m, n) ==
  /\ handed'[c] = [handed[c] EXCEPT ![m] = @ + n]
  /\ stored'[c] = stored[c]

(* To the channel, or to those who wait: only when nothing is stored, or   *)
(* the message would overtake. *)
Put(c, m, n) ==
  \/ n = 1 /\ stored'[c] = Append(stored[c], m) /\ handed'[c] = handed[c]
  \/ stored[c] = <<>> /\ HandedMore(c, m, n)

PutFront(c, m, n) ==
  \/ n = 1 /\ stored'[c] = <<m>> \o stored[c] /\ handed'[c] = handed[c]
  \/ stored[c] = <<>> /\ HandedMore(c, m, n)

Get(c, m) ==
  \/ /\ stored[c] # <<>> /\ m = Head(stored[c])
     /\ stored'[c] = Tail(stored[c])
     /\ handed'[c] = handed[c]
  \/ /\ handed[c][m] > 0
     /\ HandedMore(c, m, -1)

(* Created, deleted, flushed or set: who waited for a deleted channel gets *)
(* an answer without a message.                                            *)
Clear(c) == \A m \in Messages : handed'[c][m] >= handed[c][m]

(* A task that was to get something is deleted. *)
Gone(c) == stored'[c] = stored[c] /\ \A m \in Messages : handed'[c][m] <= handed[c][m]

Quiet(c) == stored'[c] = stored[c] /\ handed'[c] = handed[c]

Does(c, a) ==
  \/ a.act = "put"   /\ Put(c, a.msg, a.n)
  \/ a.act = "front" /\ PutFront(c, a.msg, a.n)
  \/ a.act = "got"   /\ Get(c, a.msg)
  \/ a.act = "clear" /\ Clear(c)
  \/ a.act = "gone"  /\ Gone(c)
  \/ a.act = "none"  /\ Quiet(c)

Init == handed = [c \in Channels |-> [m \in Messages |-> 0]]

Next == \A c \in Channels : Does(c, io'[c])

Spec == Init /\ [][Next]_<<stored, handed, io>>
=============================================================================
