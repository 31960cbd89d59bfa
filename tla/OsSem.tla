------------------------------- MODULE OsSem -------------------------------
(***************************************************************************)
(* Semaphores (os_sem.c).  A signal is a message without content.          *)
(***************************************************************************)
EXTENDS OsCore

CONSTANT OS_SEM_MAX      (* the largest count, 65535 in the code           *)
ASSUME CountAssumption == OS_SEM_MAX \in Nat

NewSem(cnt) == [UnusedEvent EXCEPT !.type = "SEM", !.cnt = cnt]
IsSem(e)    == os.event[e].type = "SEM"
Signal      == None
Sem(e, deletes) == Event("SEM", e, deletes)

OSSem_CheckType(e, deletes) ==
  /\ IsSem(e)
  /\ CheckType(IF deletes THEN {"OSSemDel"}
               ELSE {"OSSemAccept", "OSSemPend", "OSSemPendAbort", "OSSemPost", "OSSemSet"},
               Sem(e, deletes))

OSSemCreate(cnt) ==
  /\ AtTask("OSSemCreate")
  /\ os.freeEvents # <<>>
  /\ Leave(NewEvent(os, NewSem(cnt)), <<>>)
  /\ io' = Told(Head(os.freeEvents), [act |-> "clear"])

(* Deletion refuses while tasks wait, unless all of them are to return.    *)
OSSemDel(e, always) ==
  /\ AtTask("OSSemDel")
  /\ IsSem(e)
  /\ Checked(Sem(e, TRUE))
  /\ HasWaiter(os, e) => always
  /\ Leave(FreeEvent(OS_EventTaskRdy(os, e, Waiters(os, e), None, "SEM", "OK"), e),
           IF HasWaiter(os, e) THEN <<Sched>> ELSE <<>>)
  /\ io' = Told(e, [act |-> "clear"])

OSSemAccept(e) ==
  /\ Anywhere("OSSemAccept")
  /\ IsSem(e)
  /\ Checked(Sem(e, FALSE))
  /\ os.event[e].cnt > 0
  /\ Leave([os EXCEPT !.event[e].cnt = @ - 1], <<>>)
  /\ io' = Told(e, [act |-> "got", msg |-> Signal])

OSSemPend(e, timeout) ==
  /\ AtTask("OSSemPend")
  /\ IsSem(e)
  /\ Checked(Sem(e, FALSE))
  /\ os.lock = 0
  /\ \/ /\ os.event[e].cnt > 0
        /\ Leave([os EXCEPT !.event[e].cnt = @ - 1], <<>>)
        /\ io' = Told(e, [act |-> "got", msg |-> Signal])
     \/ /\ os.event[e].cnt = 0
        /\ Leave(OS_EventTaskWait(StartPend(os, {"SEM"}, timeout), e),
                 <<Sched, [op |-> "pend", event |-> e, type |-> "SEM"]>>)
        /\ io' = NoIO

(* Mutant: a task that timed out leaves its entry in the wait list.        *)
OSSemPend_Return_StillListed ==
  /\ Step("pend") /\ Now.type = "SEM"
  /\ Proceed(EndPend(os, {}))
  /\ io' = IF Cur.pend = "OK" THEN Told(Now.event, [act |-> "got", msg |-> Signal]) ELSE NoIO
OSSemPend_Return ==
  /\ Step("pend") /\ Now.type = "SEM"
  /\ Proceed(EndPend(os, {Now.event}))
  /\ io' = IF Cur.pend = "OK" THEN Told(Now.event, [act |-> "got", msg |-> Signal]) ELSE NoIO

OSSemPendAbort(e, all) ==
  /\ Anywhere("OSSemPendAbort")
  /\ IsSem(e)
  /\ Checked(Sem(e, FALSE))
  /\ HasWaiter(os, e)
  /\ Leave(OS_EventTaskRdy(os, e, IF all THEN Waiters(os, e) ELSE HighestWaiter(os, e),
                           None, "SEM", "ABORT"), <<Sched>>)
  /\ io' = NoIO

(* Mutant: the largest count is counted beyond.                            *)
OSSemPost_Overflow(e) ==
  /\ Anywhere("OSSemPost")
  /\ IsSem(e)
  /\ Checked(Sem(e, FALSE))
  /\ \/ /\ HasWaiter(os, e)
        /\ Leave(OS_EventTaskRdy(os, e, HighestWaiter(os, e), None, "SEM", "OK"), <<Sched>>)
     \/ /\ ~HasWaiter(os, e)
        /\ os.event[e].cnt <= OS_SEM_MAX
        /\ Leave([os EXCEPT !.event[e].cnt = @ + 1], <<>>)
  /\ io' = Told(e, [act |-> "put", msg |-> Signal, n |-> 1])
OSSemPost(e) ==
  /\ Anywhere("OSSemPost")
  /\ IsSem(e)
  /\ Checked(Sem(e, FALSE))
  /\ \/ /\ HasWaiter(os, e)
        /\ Leave(OS_EventTaskRdy(os, e, HighestWaiter(os, e), None, "SEM", "OK"), <<Sched>>)
     \/ /\ ~HasWaiter(os, e)
        /\ os.event[e].cnt < OS_SEM_MAX
        /\ Leave([os EXCEPT !.event[e].cnt = @ + 1], <<>>)
  /\ io' = Told(e, [act |-> "put", msg |-> Signal, n |-> 1])

(* The count is set unless tasks wait for it. *)
OSSemSet(e, cnt) ==
  /\ Anywhere("OSSemSet")
  /\ IsSem(e)
  /\ Checked(Sem(e, FALSE))
  /\ os.event[e].cnt > 0 \/ ~HasWaiter(os, e)
  /\ Leave([os EXCEPT !.event[e].cnt = cnt], <<>>)
  /\ io' = Told(e, [act |-> "clear"])

SemNext ==
  \/ \E cnt \in 0 .. OS_SEM_MAX : OSSemCreate(cnt)
  \/ \E e \in EventIds :
       \/ \E always \in BOOLEAN : OSSemDel(e, always) \/ OSSemPendAbort(e, always)
       \/ OSSemAccept(e) \/ OSSemPost(e)
       \/ \E timeout \in Timeouts : OSSemPend(e, timeout)
       \/ \E cnt \in 0 .. OS_SEM_MAX : OSSemSet(e, cnt)
  \/ OSSemPend_Return
=============================================================================
