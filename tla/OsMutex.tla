------------------------------ MODULE OsMutex ------------------------------
(***************************************************************************)
(* Mutual exclusion semaphores with priority inheritance (os_mutex.c).     *)
(* The owner of a mutex runs at the priority pip, which the mutex keeps    *)
(* reserved, while a task of higher priority waits.  OSEventPtr is the     *)
(* owner and the low byte of OSEventCnt the priority it had as it took the *)
(* mutex.                                                                  *)
(*                                                                         *)
(* By the notes of the code (os_mutex.c:408) the owner of a mutex waits    *)
(* for nothing else; only the owner deletes a mutex that is owned.         *)
(***************************************************************************)
EXTENDS OsCore

NewMutex(pip) ==
  [UnusedEvent EXCEPT !.type = "MUTEX", !.cnt = OS_MUTEX_AVAILABLE, !.pip = pip]
IsMutex(e)    == os.event[e].type = "MUTEX"
Owner(e)      == os.event[e].ptr
Owned(e)      == os.event[e].cnt # OS_MUTEX_AVAILABLE
Token(act)    == [act |-> act, msg |-> None, n |-> 1]
OwnsNothing   == \A e \in EventIds : IsMutex(e) => Owner(e) # os.cur
Mutex(e, deletes) == Event("MUTEX", e, deletes)

OSMutex_CheckType(e, deletes) ==
  /\ IsMutex(e)
  /\ CheckType(IF deletes THEN {"OSMutexDel"}
               ELSE {"OSMutexAccept", "OSMutexPend", "OSMutexPost"}, Mutex(e, deletes))

(* The priority of the running task or the owner changes, ready as it is.  *)
OSMutex_RdyAtPrio(k, t, prio) ==
  [k EXCEPT !.rdy = Insert(Delete(@, {k.tcb[t].prio}), {prio}),
            !.tcb[t].prio = prio, !.prioCur = prio, !.prioTbl[prio] = t]

OSMutexCreate(pip) ==
  /\ AtTask("OSMutexCreate")
  /\ os.prioTbl[pip] = None
  /\ os.freeEvents # <<>>
  /\ Leave([NewEvent(os, NewMutex(pip)) EXCEPT !.prioTbl[pip] = Reserved], <<>>)
  /\ io' = Told(Head(os.freeEvents), [act |-> "clear"])

OSMutexDel(e, always) ==
  LET mutex  == os.event[e]
      normal == IF always /\ Owner(e) # None /\ os.tcb[Owner(e)].prio = mutex.pip
                  THEN OSMutex_RdyAtPrio(os, Owner(e), mutex.cnt) ELSE os
      k      == OS_EventTaskRdy(normal, e, Waiters(os, e), None, "MUTEX", "OK")
  IN  /\ AtTask("OSMutexDel")
      /\ IsMutex(e)
      /\ Checked(Mutex(e, TRUE))
      /\ HasWaiter(os, e) => always
      /\ Owner(e) = None \/ (Owner(e) = os.cur /\ always)
      /\ Leave([FreeEvent(k, e) EXCEPT !.prioTbl[mutex.pip] = None],
               IF HasWaiter(os, e) THEN <<Sched>> ELSE <<>>)
      /\ io' = Told(e, [act |-> "clear"])

Acquire(k, e, t) == [k EXCEPT !.event[e].cnt = k.tcb[t].prio, !.event[e].ptr = t]

OSMutexAccept(e) ==
  /\ AtTask("OSMutexAccept")
  /\ IsMutex(e)
  /\ Checked(Mutex(e, FALSE))
  /\ ~Owned(e)
  /\ Leave(Acquire(os, e, os.cur), <<>>)
  /\ io' = Told(e, Token("got"))

(* Mutant: the owner keeps its priority.                                   *)
Inherit_No(k, e) == k
(* The owner inherits the priority pip if the running task has a higher    *)
(* one than the owner had: its entry in the ready list, or else in the     *)
(* wait list it is in, moves.  The old priority stays the owner's, too.    *)
Inherit(k, e) ==
  LET t     == k.event[e].ptr
      mutex == k.event[e]
      old   == k.tcb[t].prio
      at    == k.tcb[t].event
      moved == IF Has(k.rdy, old)
                 THEN [k EXCEPT !.rdy = Insert(Delete(@, {old}), {mutex.pip})]
               ELSE IF at # None
                 THEN [k EXCEPT !.event[at].wait = Insert(Delete(@, {old}), {mutex.pip})]
               ELSE k
  IN  IF old > mutex.pip /\ mutex.cnt > k.tcb[k.cur].prio
        THEN [moved EXCEPT !.tcb[t].prio = mutex.pip, !.prioTbl[mutex.pip] = t]
        ELSE k

OSMutexPend(e, timeout) ==
  /\ AtTask("OSMutexPend")
  /\ IsMutex(e)
  /\ Checked(Mutex(e, FALSE))
  /\ os.lock = 0
  /\ OwnsNothing
  /\ \/ /\ ~Owned(e)
        /\ Leave(Acquire(os, e, os.cur), <<>>)
        /\ io' = Told(e, Token("got"))
     \/ /\ Owned(e)
        /\ Leave(OS_EventTaskWait(StartPend(Inherit(os, e), {"MUTEX"}, timeout), e),
                 <<Sched, [op |-> "pend", event |-> e, type |-> "MUTEX"]>>)
        /\ io' = NoIO

OSMutexPend_Return ==
  /\ Step("pend") /\ Now.type = "MUTEX"
  /\ Proceed(EndPend(os, {Now.event}))
  /\ io' = IF Cur.pend = "OK" THEN Told(Now.event, Token("got")) ELSE NoIO

(* The owner goes back to its own priority, and the highest waiter owns    *)
(* the mutex.  If there is none the code does not reschedule.              *)
OSMutexPost(e) ==
  LET mutex  == os.event[e]
      normal == [(IF Cur.prio = mutex.pip THEN OSMutex_RdyAtPrio(os, os.cur, mutex.cnt) ELSE os)
                   EXCEPT !.prioTbl[mutex.pip] = Reserved]
      to     == Task(normal, Highest(mutex.wait))
  IN  /\ AtTask("OSMutexPost")
      /\ IsMutex(e)
      /\ Checked(Mutex(e, FALSE))
      /\ Owner(e) = os.cur
      /\ IF HasWaiter(os, e)
           THEN Leave(Acquire(OS_EventTaskRdy(normal, e, HighestWaiter(os, e), None, "MUTEX", "OK"),
                              e, to), <<Sched>>)
           ELSE Leave([normal EXCEPT !.event[e].cnt = OS_MUTEX_AVAILABLE, !.event[e].ptr = None],
                      <<>>)
      /\ io' = Told(e, Token("put"))

MutexNext ==
  \/ \E pip \in Prios : OSMutexCreate(pip)
  \/ \E e \in EventIds :
       \/ \E always \in BOOLEAN : OSMutexDel(e, always)
       \/ OSMutexAccept(e) \/ OSMutexPost(e)
       \/ \E timeout \in Timeouts : OSMutexPend(e, timeout)
  \/ OSMutexPend_Return
=============================================================================
