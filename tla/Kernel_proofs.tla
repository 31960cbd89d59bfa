---------------------------- MODULE Kernel_proofs -----------------------------
(***************************************************************************)
(* Proofs about the kernel for any number of tasks, priorities, objects    *)
(* and messages and for every application.  Every service is built from a  *)
(* few operators of OsCore; each of them keeps the bit maps consistent and *)
(* the running task the same, and only Switch and OSStart choose another.  *)
(* The second half ties the tasks to the ready list and the wait lists:    *)
(* what each operator does to them, then the services of events.           *)
(***************************************************************************)
EXTENDS Kernel, SequenceTheorems, FiniteSetTheorems, WellFoundedInduction, TLAPS

(* The data of the kernel (the globals of ucos_ii.h).                      *)
Fields == {"tcb", "prioTbl", "rdy", "list", "free", "event", "freeEvents", "freeQs", "flag",
           "freeFlags", "mem", "cur", "prioCur", "lock", "running"}

EventsOK(ev) ==
  /\ DOMAIN ev = EventIds
  /\ \A e \in EventIds : "wait" \in DOMAIN ev[e] /\ WellFormed(ev[e].wait)

(* f is an array over S. *)
IsMap(f, S) == f = [x \in S |-> f[x]]

(* Kernel data k with consistent tables and its two arrays. *)
Good(k) == /\ DOMAIN k = Fields /\ WellFormed(k.rdy) /\ EventsOK(k.event)
           /\ IsMap(k.tcb, TCBs) /\ IsMap(k.prioTbl, Prios)

(* l is k after a service: the tables are consistent and nobody else runs. *)
Keeps(k, l) == Good(l) /\ l.cur = k.cur /\ l.running = k.running

LEMMA InsertOK ==
  ASSUME NEW T, NEW S, WellFormed(T) PROVE WellFormed(Insert(T, S))
  BY DEF WellFormed, Insert

LEMMA DeleteOK ==
  ASSUME NEW T, NEW S, WellFormed(T) PROVE WellFormed(Delete(T, S))
  BY DEF WellFormed, Delete

LEMMA EmptyOK == WellFormed(EmptyTable)
  BY DEF WellFormed, EmptyTable

(***************************************************************************)
(* The operators of OsCore.                                                *)
(***************************************************************************)
LEMMA KeepsTrans ==
  ASSUME NEW k, NEW l, NEW m, Keeps(k, l), Keeps(l, m) PROVE Keeps(k, m)
  BY DEF Keeps

LEMMA MakeReadyKeeps ==
  ASSUME NEW k, Good(k), NEW S PROVE Keeps(k, MakeReady(k, S))
  BY InsertOK DEF Keeps, Good, EventsOK, IsMap, Fields, MakeReady

LEMMA MakeUnreadyKeeps ==
  ASSUME NEW k, Good(k), NEW S PROVE Keeps(k, MakeUnready(k, S))
  BY DeleteOK DEF Keeps, Good, EventsOK, IsMap, Fields, MakeUnready

LEMMA ExpireKeeps ==
  ASSUME NEW k, Good(k), NEW S PROVE Keeps(k, Expire(k, S))
  BY InsertOK DEF Keeps, Good, EventsOK, IsMap, Fields, Expire

LEMMA RemoveMultiKeeps ==
  ASSUME NEW k, Good(k), NEW E PROVE Keeps(k, OS_EventTaskRemoveMulti(k, E))
  BY DeleteOK DEF Keeps, Good, EventsOK, IsMap, Fields, OS_EventTaskRemoveMulti

LEMMA WaitKeeps ==
  ASSUME NEW k, Good(k), NEW e PROVE Keeps(k, OS_EventTaskWait(k, e))
  <1> DEFINE l == [k EXCEPT !.tcb[k.cur].event = e,
                            !.event[e].wait = Insert(@, {k.tcb[k.cur].prio})]
  <1>1. Keeps(k, l)
    BY InsertOK DEF Keeps, Good, EventsOK, IsMap, Fields
  <1>2. OS_EventTaskWait(k, e) = MakeUnready(l, {k.cur})
    BY DEF OS_EventTaskWait
  <1> HIDE DEF l
  <1> QED
    BY <1>1, <1>2, MakeUnreadyKeeps DEF Keeps

LEMMA WaitMultiKeeps ==
  ASSUME NEW k, Good(k), NEW E PROVE Keeps(k, OS_EventTaskWaitMulti(k, E))
  <1> DEFINE p == k.tcb[k.cur].prio
             l == [k EXCEPT !.tcb[k.cur].event = None, !.tcb[k.cur].multi = E,
                            !.event = [e \in EventIds |->
                                         IF e \in E
                                           THEN [k.event[e] EXCEPT !.wait = Insert(@, {p})]
                                           ELSE k.event[e]]]
  <1>1. Keeps(k, l)
    <2> HIDE DEF p
    <2> QED
      BY InsertOK DEF Keeps, Good, EventsOK, IsMap, Fields
  <1>2. OS_EventTaskWaitMulti(k, E) = MakeUnready(l, {k.cur})
    BY DEF OS_EventTaskWaitMulti
  <1> HIDE DEF l
  <1> QED
    BY <1>1, <1>2, MakeUnreadyKeeps DEF Keeps

LEMMA EventTaskRdyKeeps ==
  ASSUME NEW k, Good(k), NEW e, NEW P, NEW msg, NEW msk, NEW pend
  PROVE  Keeps(k, OS_EventTaskRdy(k, e, P, msg, msk, pend))
  <1> DEFINE S     == {Task(k, p) : p \in P}
             tcbs  == [t \in TCBs |->
                         IF t \notin S THEN k.tcb[t]
                         ELSE [k.tcb[t] EXCEPT !.dly = 0, !.msg = msg, !.stat = @ \ {msk},
                                 !.pend = pend, !.event = IF k.tcb[t].multi # {} THEN e ELSE @]]
             woken == [k EXCEPT !.tcb = tcbs]
             ready == MakeReady(woken, {t \in S : ~Suspended(k.tcb[t])})
             out   == [t \in S |-> {e} \cup k.tcb[t].multi]
  <1>1. OS_EventTaskRdy(k, e, P, msg, msk, pend) = OS_EventTaskRemoveMulti(ready, out)
    BY DEF OS_EventTaskRdy
  <1>2. Keeps(k, woken)
    <2>1. IsMap(tcbs, TCBs)
      BY DEF IsMap
    <2> HIDE DEF tcbs
    <2> QED
      BY <2>1 DEF Keeps, Good, EventsOK, Fields
  <1>3. Keeps(woken, ready)
    <2> HIDE DEF woken, S
    <2> QED
      BY <1>2, MakeReadyKeeps DEF Keeps
  <1> HIDE DEF woken, ready, out
  <1> QED
    BY <1>1, <1>2, <1>3, RemoveMultiKeeps, KeepsTrans DEF Keeps

LEMMA StartPendKeeps ==
  ASSUME NEW k, Good(k), NEW bits, NEW timeout PROVE Keeps(k, StartPend(k, bits, timeout))
  BY DEF Keeps, Good, EventsOK, IsMap, Fields, StartPend

LEMMA EndPendKeeps ==
  ASSUME NEW k, Good(k), NEW E PROVE Keeps(k, EndPend(k, E))
  <1> DEFINE l == IF k.tcb[k.cur].pend = "TO"
                    THEN OS_EventTaskRemoveMulti(k, [t \in {k.cur} |-> E]) ELSE k
  <1>1. Keeps(k, l)
    BY RemoveMultiKeeps DEF Keeps
  <1>2. EndPend(k, E) =
          [l EXCEPT !.tcb[k.cur].stat = {}, !.tcb[k.cur].pend = "OK", !.tcb[k.cur].event = None,
                    !.tcb[k.cur].multi = {}, !.tcb[k.cur].msg = None]
    BY DEF EndPend
  <1> HIDE DEF l
  <1>3. PICK m : m = EndPend(k, E)
    OBVIOUS
  <1>4. /\ DOMAIN m = Fields /\ m.rdy = l.rdy /\ m.event = l.event /\ m.prioTbl = l.prioTbl
        /\ m.cur = l.cur /\ m.running = l.running
    BY <1>1, <1>2, <1>3 DEF Keeps, Good, Fields
  <1>5. IsMap(m.tcb, TCBs)
    <2> DEFINE a == [l EXCEPT !.tcb[k.cur].stat = {}, !.tcb[k.cur].pend = "OK", !.tcb[k.cur].event = None]
    <2>1. m = [a EXCEPT !.tcb[k.cur].multi = {}, !.tcb[k.cur].msg = None]
      BY <1>2, <1>3
    <2>2. DOMAIN a = Fields /\ IsMap(a.tcb, TCBs)
      BY <1>1 DEF Keeps, Good, IsMap, Fields
    <2> HIDE DEF a
    <2> QED
      BY <2>1, <2>2 DEF IsMap, Fields
  <1> QED
    BY <1>1, <1>3, <1>4, <1>5 DEF Keeps, Good

LEMMA FlagUnlinkKeeps ==
  ASSUME NEW k, Good(k), NEW t PROVE Keeps(k, OS_FlagUnlink(k, t))
  BY DEF Keeps, Good, EventsOK, IsMap, Fields, OS_FlagUnlink

LEMMA NewEventKeeps ==
  ASSUME NEW k, Good(k), NEW ecb, "wait" \in DOMAIN ecb, WellFormed(ecb.wait)
  PROVE  Keeps(k, NewEvent(k, ecb))
  BY DEF Keeps, Good, EventsOK, IsMap, Fields, NewEvent

LEMMA FreeEventKeeps ==
  ASSUME NEW k, Good(k), NEW e PROVE Keeps(k, FreeEvent(k, e))
  BY DEF Keeps, Good, EventsOK, IsMap, Fields, FreeEvent

(* Event control blocks, the contents of one of them and data that is in   *)
(* no table.                                                               *)
LEMMA EventFieldKeeps ==
  ASSUME NEW k, Good(k), NEW e, NEW v, NEW w
  PROVE  /\ Keeps(k, [k EXCEPT !.event[e].cnt = v])
         /\ Keeps(k, [k EXCEPT !.event[e].ptr = v])
         /\ Keeps(k, [k EXCEPT !.event[e].cnt = v, !.event[e].ptr = w])
  BY DEF Keeps, Good, EventsOK, IsMap, Fields

(* The switch keeps the tables.                                            *)
LEMMA SwitchGood ==
  ASSUME NEW k, Good(k)
  PROVE  /\ Good(Switch(k)) /\ Switch(k).running = k.running /\ Switch(k).lock = k.lock
         /\ k.lock # 0 => Switch(k) = k
  BY DEF Good, EventsOK, IsMap, Fields, Switch

(***************************************************************************)
(* The services.                                                           *)
(***************************************************************************)
(* A section uses up what its task has checked, and other tasks keep it.   *)
SeenKept == /\ DOMAIN seen' = DOMAIN seen
            /\ \A t \in DOMAIN seen : seen'[t] = seen[t] \/ seen'[t] = NothingSeen
(* A critical section of a service, in a task or a handler.                *)
Serves == Keeps(os, os') /\ isr' = isr /\ (os.running \/ isr # "none") /\ SeenKept

LEMMA LeaveServes ==
  ASSUME NEW k, Keeps(os, k), NEW steps, Leave(k, steps), os.running \/ isr # "none"
  PROVE  Serves
  BY DEF Serves, SeenKept, Leave

LEMMA ProceedServes ==
  ASSUME NEW k, Keeps(os, k), Proceed(k), os.running \/ isr # "none"
  PROVE  Serves
  BY LeaveServes DEF Proceed

LEMMA Callers ==
  /\ \A c : AtTask(c) => os.running
  /\ \A c : Anywhere(c) => os.running \/ isr # "none"
  /\ \A o : Step(o) => os.running
  BY DEF AtTask, Anywhere, AtIsr, Step

LEMMA SelfKeeps == ASSUME Good(os) PROVE Keeps(os, os)
  BY DEF Keeps

(* Scheduler lock. *)
LEMMA LockServes ==
  ASSUME Good(os), OSSchedLock \/ OSSchedUnlock PROVE Serves
  <1>1. Keeps(os, [os EXCEPT !.lock = @ + 1]) /\ Keeps(os, [os EXCEPT !.lock = @ - 1])
    BY DEF Keeps, Good, EventsOK, IsMap, Fields
  <1>2. CASE OSSchedLock
    BY <1>1, <1>2, Callers, LeaveServes DEF OSSchedLock
  <1>3. CASE OSSchedUnlock
    BY <1>1, <1>3, Callers, LeaveServes DEF OSSchedUnlock
  <1> QED
    BY <1>2, <1>3

(* Tasks and time. *)
LEMMA ChangePrioKeeps ==
  ASSUME NEW k, Good(k), NEW t, NEW new PROVE Keeps(k, ChangePrio(k, t, new))
  <1> DEFINE old == k.tcb[t].prio
             E   == k.tcb[t].multi \cup ({k.tcb[t].event} \ {None})
             ev  == [e \in EventIds |->
                       IF e \in E THEN [k.event[e] EXCEPT !.wait = Moved(@, old, new)]
                       ELSE k.event[e]]
             rdy == IF Has(k.rdy, old) THEN Moved(k.rdy, old, new) ELSE k.rdy
  <1>1. \A T : WellFormed(T) => WellFormed(Moved(T, old, new))
    BY InsertOK, DeleteOK DEF Moved
  <1>2. WellFormed(rdy)
    BY <1>1 DEF Good
  <1>3. EventsOK(ev)
    <2> HIDE DEF E, old
    <2> QED
      BY <1>1 DEF Good, EventsOK
  <1>4. ChangePrio(k, t, new) =
          [k EXCEPT !.prioTbl = [@ EXCEPT ![old] = None, ![new] = t], !.rdy = rdy, !.event = ev,
                    !.tcb[t].prio = new]
    BY DEF ChangePrio
  <1> HIDE DEF old, E, ev, rdy
  <1> QED
    BY <1>2, <1>3, <1>4 DEF Keeps, Good, IsMap, Fields

LEMMA ChangePrioServes ==
  ASSUME Good(os), NEW old, NEW new, OSTaskChangePrio(old, new) PROVE Serves
  BY ChangePrioKeeps, Callers, LeaveServes DEF OSTaskChangePrio

LEMMA CreateServes ==
  ASSUME Good(os), NEW prio, OSTaskCreate(prio) \/ OSTaskCreateExt(prio) PROVE Serves
  <1>1. Keeps(os, [os EXCEPT !.prioTbl[prio] = Reserved])
    BY DEF Keeps, Good, EventsOK, IsMap, Fields
  <1>2. Create(prio) /\ os.running
    BY Callers DEF OSTaskCreate, OSTaskCreateExt
  <1> QED
    BY <1>1, <1>2, LeaveServes DEF Create

LEMMA TCBInitServes ==
  ASSUME Good(os), OS_TCBInit \/ OS_TCBInit_Link \/ OSTaskCreate_Failed PROVE Serves
  <1>1. CASE OS_TCBInit
    <2>1. CASE os.free = <<>>
      BY <1>1, <2>1, Callers, SelfKeeps, LeaveServes DEF OS_TCBInit
    <2>2. CASE os.free # <<>>
      <3> DEFINE t == Head(os.free)
                 k == [os EXCEPT !.free = Tail(@),
                          !.tcb[t] = [NewTCB(Now.prio) EXCEPT !.flagsRdy = os.tcb[t].flagsRdy]]
      <3>1. Keeps(os, k)
        BY DEF Keeps, Good, EventsOK, IsMap, Fields
      <3>2. Leave(k, <<[op |-> "link", tcb |-> t, prio |-> Now.prio]>>)
        BY <1>1, <2>2 DEF OS_TCBInit
      <3> HIDE DEF k
      <3> QED
        BY <1>1, <3>1, <3>2, Callers, LeaveServes DEF OS_TCBInit
    <2> QED
      BY <2>1, <2>2
  <1>2. CASE OS_TCBInit_Link
    <2> DEFINE t == Now.tcb
               k == [os EXCEPT !.prioTbl[Now.prio] = t, !.list = @ \cup {t}]
    <2>1. Keeps(os, k)
      BY DEF Keeps, Good, EventsOK, IsMap, Fields
    <2>2. os' = MakeReady(k, {t}) /\ isr' = isr /\ seen' = seen /\ os.running
      BY <1>2, Callers DEF OS_TCBInit_Link
    <2> HIDE DEF k
    <2>3. Keeps(k, MakeReady(k, {t}))
      BY <2>1, MakeReadyKeeps DEF Keeps
    <2> QED
      BY <2>1, <2>2, <2>3, KeepsTrans DEF Serves, SeenKept
  <1>3. CASE OSTaskCreate_Failed
    <2>1. Keeps(os, [os EXCEPT !.prioTbl[Now.prio] = None])
      BY DEF Keeps, Good, EventsOK, IsMap, Fields
    <2> QED
      BY <1>3, <2>1, Callers, LeaveServes DEF OSTaskCreate_Failed
  <1> QED
    BY <1>1, <1>2, <1>3

LEMMA DelServes ==
  ASSUME Good(os), NEW prio, OSTaskDel(prio) PROVE Serves
  <1> DEFINE t     == Task(os, prio)
             E     == os.tcb[t].multi \cup ({os.tcb[t].event} \ {None})
             off   == MakeUnready(os, {t})
             apart == OS_EventTaskRemoveMulti(off, [u \in {t} |-> E])
             loose == OS_FlagUnlink(apart, t)
             k     == [loose EXCEPT !.tcb[t].dly = 0, !.tcb[t].stat = {}, !.tcb[t].pend = "OK",
                                    !.lock = @ + 1]
  <1>1. Keeps(os, off)
    BY MakeUnreadyKeeps
  <1>2. Keeps(off, apart)
    <2> HIDE DEF off
    <2> QED
      BY <1>1, RemoveMultiKeeps DEF Keeps
  <1>3. Keeps(apart, loose)
    <2> HIDE DEF apart
    <2> QED
      BY <1>2, FlagUnlinkKeeps DEF Keeps
  <1>4. Keeps(loose, k)
    <2> HIDE DEF loose
    <2> QED
      BY <1>3 DEF Keeps, Good, EventsOK, IsMap, Fields
  <1>5. \E steps : Leave(k, steps)
    BY DEF OSTaskDel
  <1>6. Keeps(os, k)
    <2> HIDE DEF off, apart, loose, k
    <2> QED
      BY <1>1, <1>2, <1>3, <1>4, KeepsTrans
  <1> HIDE DEF k
  <1> QED
    BY <1>5, <1>6, Callers, LeaveServes DEF OSTaskDel

LEMMA DelFreeServes ==
  ASSUME Good(os), OSTaskDel_Free PROVE Serves
  <1>1. SeenKept
    BY DEF OSTaskDel_Free, SeenKept
  <1> QED
    BY <1>1, Callers DEF OSTaskDel_Free, Serves, Keeps, Good, EventsOK, IsMap, Fields

LEMMA DelReqServes ==
  ASSUME Good(os), NEW prio, OSTaskDelReq(prio) PROVE Serves
  <1>1. Keeps(os, [os EXCEPT !.tcb[os.prioTbl[prio]].delReq = TRUE])
    BY DEF Keeps, Good, EventsOK, IsMap, Fields
  <1> QED
    BY <1>1, Callers, LeaveServes DEF OSTaskDelReq

LEMMA SuspendServes ==
  ASSUME Good(os), NEW prio, OSTaskSuspend(prio) PROVE Serves
  <1> DEFINE t == Task(os, prio)
             k == [os EXCEPT !.tcb[t].stat = @ \cup {"SUSPEND"}]
             l == MakeUnready(k, {t})
  <1>1. Keeps(os, k)
    BY DEF Keeps, Good, EventsOK, IsMap, Fields
  <1>2. \E steps : Leave(l, steps)
    BY DEF OSTaskSuspend
  <1> HIDE DEF k
  <1>3. Keeps(os, l)
    BY <1>1, MakeUnreadyKeeps, KeepsTrans DEF Keeps
  <1> HIDE DEF l
  <1> QED
    BY <1>2, <1>3, Callers, LeaveServes DEF OSTaskSuspend

LEMMA ResumeServes ==
  ASSUME Good(os), NEW prio, OSTaskResume(prio) PROVE Serves
  <1> DEFINE t == Task(os, prio)
             k == [os EXCEPT !.tcb[t].stat = @ \ {"SUSPEND"}]
             l == MakeReady(k, {t})
  <1>1. Keeps(os, k)
    BY DEF Keeps, Good, EventsOK, IsMap, Fields
  <1>2. (\E steps : Leave(l, steps)) \/ \E steps : Leave(k, steps)
    BY DEF OSTaskResume
  <1> HIDE DEF k
  <1>3. Keeps(os, l)
    BY <1>1, MakeReadyKeeps, KeepsTrans DEF Keeps
  <1> HIDE DEF l
  <1> QED
    BY <1>1, <1>2, <1>3, Callers, LeaveServes DEF OSTaskResume

LEMMA DelayServes ==
  ASSUME Good(os), NEW ticks, Delay(ticks), os.running PROVE Serves
  <1> DEFINE k == [os EXCEPT !.tcb[os.cur].dly = ticks]
             l == MakeUnready(k, {os.cur})
  <1>1. Keeps(os, k)
    BY DEF Keeps, Good, EventsOK, IsMap, Fields
  <1>2. Leave(l, <<Sched>>)
    BY DEF Delay
  <1> HIDE DEF k
  <1>3. Keeps(os, l)
    BY <1>1, MakeUnreadyKeeps, KeepsTrans DEF Keeps
  <1> HIDE DEF l
  <1> QED
    BY <1>2, <1>3, LeaveServes

LEMMA DlyResumeServes ==
  ASSUME Good(os), NEW prio, OSTimeDlyResume(prio) PROVE Serves
  <1>1. Keeps(os, Expire(os, {Task(os, prio)}))
    BY ExpireKeeps
  <1> QED
    BY <1>1, Callers, LeaveServes DEF OSTimeDlyResume

LEMMA TaskServes ==
  ASSUME Good(os), TaskNext PROVE Serves
  <1>1. CASE \E old, new \in Prios : OSTaskChangePrio(old, new)
    BY <1>1, ChangePrioServes
  <1>2. CASE \E prio \in Prios \ {OS_TASK_IDLE_PRIO} :
          OSTaskCreate(prio) \/ OSTaskCreateExt(prio) \/ OSTaskDel(prio) \/ OSTaskDelReq(prio)
            \/ OSTaskSuspend(prio) \/ OSTaskResume(prio) \/ OSTimeDlyResume(prio)
    BY <1>2, CreateServes, DelServes, DelReqServes, SuspendServes, ResumeServes, DlyResumeServes
  <1>3. CASE OS_TCBInit \/ OS_TCBInit_Link \/ OSTaskCreate_Failed
    BY <1>3, TCBInitServes
  <1>4. CASE OSTaskDel_Free
    BY <1>4, DelFreeServes
  <1>5. CASE OS_TaskReturn
    BY <1>5, DelServes DEF OS_TaskReturn
  <1>6. CASE \E ticks \in Timeouts : OSTimeDly(ticks)
    BY <1>6, Callers, DelayServes DEF OSTimeDly
  <1>7. CASE \E c \in Clocks : OSTimeDlyHMSM(c)
    BY <1>7, Callers, DelayServes DEF OSTimeDlyHMSM
  <1> QED
    BY <1>1, <1>2, <1>3, <1>4, <1>5, <1>6, <1>7 DEF TaskNext

(* Semaphores. *)
LEMMA NewControlBlocks ==
  /\ \A cnt : "wait" \in DOMAIN NewSem(cnt) /\ WellFormed(NewSem(cnt).wait)
  /\ \A msg : "wait" \in DOMAIN NewMbox(msg) /\ WellFormed(NewMbox(msg).wait)
  /\ "wait" \in DOMAIN NewQ /\ WellFormed(NewQ.wait)
  /\ \A pip : "wait" \in DOMAIN NewMutex(pip) /\ WellFormed(NewMutex(pip).wait)
  BY EmptyOK DEF NewSem, NewMbox, NewQ, NewMutex, UnusedEvent

(* A deletion, an abort, the begin and the end of a pend.                  *)
LEMMA DeletionKeeps ==
  ASSUME NEW k, Good(k), NEW e, NEW P, NEW msk
  PROVE  Keeps(k, FreeEvent(OS_EventTaskRdy(k, e, P, None, msk, "OK"), e))
  <1> DEFINE l == OS_EventTaskRdy(k, e, P, None, msk, "OK")
  <1>1. Keeps(k, l)
    BY EventTaskRdyKeeps
  <1>2. Keeps(k, FreeEvent(l, e))
    <2> HIDE DEF l
    <2> QED
      BY <1>1, FreeEventKeeps, KeepsTrans DEF Keeps
  <1> QED
    BY <1>2

LEMMA BlockKeeps ==
  ASSUME NEW k, Good(k), NEW e, NEW bits, NEW timeout
  PROVE  Keeps(k, OS_EventTaskWait(StartPend(k, bits, timeout), e))
  <1> DEFINE l == StartPend(k, bits, timeout)
  <1>1. Keeps(k, l)
    BY StartPendKeeps
  <1>2. Keeps(k, OS_EventTaskWait(l, e))
    <2> HIDE DEF l
    <2> QED
      BY <1>1, WaitKeeps, KeepsTrans DEF Keeps
  <1> QED
    BY <1>2

LEMMA SemServes ==
  ASSUME Good(os), SemNext PROVE Serves
  <1>1. CASE \E cnt \in 0 .. OS_SEM_MAX : OSSemCreate(cnt)
    BY <1>1, NewControlBlocks, NewEventKeeps, Callers, LeaveServes DEF OSSemCreate
  <1>2. ASSUME NEW e \in EventIds, NEW always \in BOOLEAN, OSSemDel(e, always)
        PROVE  Serves
    BY <1>2, DeletionKeeps, Callers, LeaveServes DEF OSSemDel
  <1>3. ASSUME NEW e \in EventIds, NEW all \in BOOLEAN, OSSemPendAbort(e, all)
        PROVE  Serves
    BY <1>3, EventTaskRdyKeeps, Callers, LeaveServes DEF OSSemPendAbort
  <1>4. ASSUME NEW e \in EventIds, OSSemAccept(e)
        PROVE  Serves
    BY <1>4, EventFieldKeeps, Callers, LeaveServes DEF OSSemAccept
  <1>5. ASSUME NEW e \in EventIds, OSSemPost(e)
        PROVE  Serves
    BY <1>5, EventFieldKeeps, EventTaskRdyKeeps, Callers, LeaveServes DEF OSSemPost
  <1>6. ASSUME NEW e \in EventIds, NEW timeout \in Timeouts, OSSemPend(e, timeout)
        PROVE  Serves
    BY <1>6, EventFieldKeeps, BlockKeeps, Callers, LeaveServes DEF OSSemPend
  <1>7. ASSUME NEW e \in EventIds, NEW cnt \in 0 .. OS_SEM_MAX, OSSemSet(e, cnt)
        PROVE  Serves
    BY <1>7, EventFieldKeeps, Callers, LeaveServes DEF OSSemSet
  <1>8. CASE OSSemPend_Return
    BY <1>8, EndPendKeeps, Callers, ProceedServes DEF OSSemPend_Return
  <1> QED
    BY <1>1, <1>2, <1>3, <1>4, <1>5, <1>6, <1>7, <1>8 DEF SemNext

(* Mailboxes. *)
LEMMA MboxServes ==
  ASSUME Good(os), MboxNext PROVE Serves
  <1>1. CASE \E msg \in Msgs \cup {None} : OSMboxCreate(msg)
    BY <1>1, NewControlBlocks, NewEventKeeps, Callers, LeaveServes DEF OSMboxCreate
  <1>2. ASSUME NEW e \in EventIds, NEW all \in BOOLEAN, OSMboxDel(e, all)
        PROVE  Serves
    BY <1>2, DeletionKeeps, Callers, LeaveServes DEF OSMboxDel
  <1>3. ASSUME NEW e \in EventIds, NEW all \in BOOLEAN, OSMboxPendAbort(e, all)
        PROVE  Serves
    BY <1>3, EventTaskRdyKeeps, Callers, LeaveServes DEF OSMboxPendAbort
  <1>4. ASSUME NEW e \in EventIds, OSMboxAccept(e)
        PROVE  Serves
    BY <1>4, EventFieldKeeps, Callers, LeaveServes DEF OSMboxAccept
  <1>5. ASSUME NEW e \in EventIds, NEW msg \in Msgs, OSMboxPost(e, msg)
        PROVE  Serves
    BY <1>5, EventFieldKeeps, EventTaskRdyKeeps, Callers, LeaveServes DEF OSMboxPost
  <1>6. ASSUME NEW e \in EventIds, NEW msg \in Msgs, NEW broadcast \in BOOLEAN,
               NEW sched \in BOOLEAN, OSMboxPostOpt(e, msg, broadcast, sched)
        PROVE  Serves
    BY <1>6, EventFieldKeeps, EventTaskRdyKeeps, Callers, LeaveServes DEF OSMboxPostOpt
  <1>7. ASSUME NEW e \in EventIds, NEW timeout \in Timeouts, OSMboxPend(e, timeout)
        PROVE  Serves
    BY <1>7, EventFieldKeeps, BlockKeeps, Callers, LeaveServes DEF OSMboxPend
  <1>8. CASE OSMboxPend_Return
    BY <1>8, EndPendKeeps, Callers, ProceedServes DEF OSMboxPend_Return
  <1> QED
    BY <1>1, <1>2, <1>3, <1>4, <1>5, <1>6, <1>7, <1>8 DEF MboxNext

(* Message queues. *)
LEMMA WithQueueKeeps ==
  ASSUME Good(os), NEW e, NEW q PROVE Keeps(os, WithQueue(e, q))
  BY EventFieldKeeps DEF WithQueue

LEMMA QCreateServes ==
  ASSUME Good(os), OSQCreate \/ OSQCreate_Q PROVE Serves
  <1>1. Keeps(os, [os EXCEPT !.freeEvents = Tail(@)])
    BY DEF Keeps, Good, EventsOK, IsMap, Fields
  <1>2. Keeps(os, [os EXCEPT !.freeQs = @ - 1, !.event[Now.event] = NewQ])
    BY NewControlBlocks DEF Keeps, Good, EventsOK, IsMap, Fields
  <1>3. Keeps(os, [os EXCEPT !.freeEvents = <<Now.event>> \o @])
    BY DEF Keeps, Good, EventsOK, IsMap, Fields
  <1>4. CASE OSQCreate
    BY <1>1, <1>4, Callers, LeaveServes DEF OSQCreate
  <1>5. CASE OSQCreate_Q
    BY <1>2, <1>3, <1>5, Callers, LeaveServes DEF OSQCreate_Q
  <1> QED
    BY <1>4, <1>5

LEMMA QDelServes ==
  ASSUME Good(os), NEW e, NEW always, OSQDel(e, always) PROVE Serves
  <1> DEFINE k == FreeEvent(OS_EventTaskRdy(os, e, Waiters(os, e), None, "Q", "OK"), e)
             l == [k EXCEPT !.freeQs = @ + 1]
  <1>1. Keeps(os, k)
    BY DeletionKeeps
  <1>2. \E steps : Leave(l, steps)
    BY DEF OSQDel
  <1> HIDE DEF k
  <1>3. Keeps(os, l)
    BY <1>1 DEF Keeps, Good, EventsOK, IsMap, Fields
  <1> HIDE DEF l
  <1> QED
    BY <1>2, <1>3, Callers, LeaveServes DEF OSQDel

LEMMA QServes ==
  ASSUME Good(os), QNext PROVE Serves
  <1>1. CASE OSQCreate \/ OSQCreate_Q
    BY <1>1, QCreateServes
  <1>2. ASSUME NEW e \in EventIds, NEW all \in BOOLEAN, OSQPendAbort(e, all)
        PROVE  Serves
    BY <1>2, EventTaskRdyKeeps, Callers, LeaveServes DEF OSQPendAbort
  <1>3. ASSUME NEW e \in EventIds, OSQAccept(e) \/ OSQFlush(e)
        PROVE  Serves
    BY <1>3, WithQueueKeeps, Callers, LeaveServes DEF OSQAccept, OSQFlush
  <1>4. ASSUME NEW e \in EventIds, NEW msg \in Msgs, OSQPost(e, msg) \/ OSQPostFront(e, msg)
        PROVE  Serves
    BY <1>4, WithQueueKeeps, EventTaskRdyKeeps, Callers, LeaveServes DEF OSQPost, OSQPostFront
  <1>5. ASSUME NEW e \in EventIds, NEW msg \in Msgs, NEW broadcast \in BOOLEAN,
               NEW front \in BOOLEAN, NEW sched \in BOOLEAN,
               OSQPostOpt(e, msg, broadcast, front, sched)
        PROVE  Serves
    BY <1>5, WithQueueKeeps, EventTaskRdyKeeps, Callers, LeaveServes DEF OSQPostOpt
  <1>6. ASSUME NEW e \in EventIds, NEW timeout \in Timeouts, OSQPend(e, timeout)
        PROVE  Serves
    BY <1>6, WithQueueKeeps, BlockKeeps, Callers, LeaveServes DEF OSQPend
  <1>7. CASE OSQPend_Return
    BY <1>7, EndPendKeeps, Callers, ProceedServes DEF OSQPend_Return
  <1> QED
    BY <1>1, <1>2, <1>3, <1>4, <1>5, <1>6, <1>7, QDelServes DEF QNext

(* Several events at once. *)
LEMMA MultiServes ==
  ASSUME Good(os), MultiNext PROVE Serves
  <1>1. ASSUME NEW E \in SUBSET EventIds, AtTask("OSEventPendMulti"), OSEventPendMulti_Take(E)
        PROVE  Serves
    <2> DEFINE ready == {e \in E : Available(e)}
               ev    == [e \in EventIds |-> IF e \in ready THEN TakeOne(e) ELSE os.event[e]]
    <2>1. \A e \in ready : "wait" \in DOMAIN TakeOne(e) /\ WellFormed(TakeOne(e).wait)
      <3> TAKE e \in ready
      <3>1. "wait" \in DOMAIN os.event[e] /\ WellFormed(os.event[e].wait)
        BY DEF Good, EventsOK
      <3>2. CASE IsSem(e)
        BY <3>1, <3>2 DEF TakeOne, IsSem, IsMbox, IsQ
      <3>3. CASE IsMbox(e)
        BY <3>1, <3>3 DEF TakeOne, IsSem, IsMbox, IsQ
      <3>4. CASE IsQ(e)
        BY <3>1, <3>4 DEF TakeOne, IsSem, IsMbox, IsQ
      <3> QED
        BY <3>2, <3>3, <3>4 DEF Available
    <2>2. EventsOK(ev)
      <3> HIDE DEF ready
      <3> QED
        BY <2>1 DEF Good, EventsOK
    <2>3. Leave([os EXCEPT !.event = ev], <<>>)
      BY <1>1 DEF OSEventPendMulti_Take
    <2> HIDE DEF ev
    <2>4. Keeps(os, [os EXCEPT !.event = ev])
      BY <2>2 DEF Keeps, Good, Fields
    <2> QED
      BY <1>1, <2>3, <2>4, Callers, LeaveServes
  <1>2. ASSUME NEW E \in SUBSET EventIds, NEW timeout \in Timeouts,
               AtTask("OSEventPendMulti"), OSEventPendMulti_Wait(E, timeout)
        PROVE  Serves
    <2> DEFINE k == StartPend(os, {os.event[e].type : e \in E} \cup {"MULTI"}, timeout)
               l == OS_EventTaskWaitMulti(k, E)
    <2>1. Keeps(os, k)
      BY StartPendKeeps
    <2>2. \E steps : Leave(l, steps)
      BY <1>2 DEF OSEventPendMulti_Wait
    <2> HIDE DEF k
    <2>3. Keeps(os, l)
      BY <2>1, WaitMultiKeeps, KeepsTrans DEF Keeps
    <2> HIDE DEF l
    <2> QED
      BY <1>2, <2>2, <2>3, Callers, LeaveServes
  <1>3. CASE OSEventPendMulti_Return
    BY <1>3, EndPendKeeps, SelfKeeps, Callers, ProceedServes DEF OSEventPendMulti_Return
  <1> QED
    BY <1>1, <1>2, <1>3 DEF MultiNext, OSEventPendMulti, OSEventPendMulti_Check

(* Event flag groups. *)
LEMMA FlagTaskRdyKeeps ==
  ASSUME NEW k, Good(k), NEW S, NEW rdy PROVE Keeps(k, OS_FlagTaskRdy(k, S, rdy))
  <1> DEFINE tcbs  == [t \in TCBs |->
                         IF t \notin S THEN k.tcb[t]
                         ELSE [k.tcb[t] EXCEPT !.dly = 0, !.flagsRdy = rdy[t],
                                 !.stat = @ \ {"FLAG"}, !.pend = "OK", !.node = None]]
             flags == [g \in FlagIds |-> [k.flag[g] EXCEPT !.wait = @ \ S]]
             woken == [k EXCEPT !.tcb = tcbs, !.flag = flags]
             R     == {t \in S : woken.tcb[t].stat = {}}
  <1>1. Keeps(k, woken)
    <2>1. IsMap(tcbs, TCBs)
      BY DEF IsMap
    <2> HIDE DEF tcbs, flags
    <2> QED
      BY <2>1 DEF Keeps, Good, EventsOK, Fields
  <1>2. Keeps(k, MakeReady(woken, R))
    <2> HIDE DEF woken, R
    <2> QED
      BY <1>1, MakeReadyKeeps, KeepsTrans DEF Keeps
  <1> QED
    BY <1>2 DEF OS_FlagTaskRdy

LEMMA FlagDelServes ==
  ASSUME Good(os), NEW g, NEW always, OSFlagDel(g, always) PROVE Serves
  <1> DEFINE S    == os.flag[g].wait
             left == OS_FlagTaskRdy(os, S, [t \in S |-> {}])
             k    == [left EXCEPT !.flag[g] = UnusedFlag, !.freeFlags = <<g>> \o @]
  <1>1. Keeps(os, left)
    BY FlagTaskRdyKeeps
  <1>2. \E steps : Leave(k, steps)
    BY DEF OSFlagDel
  <1>3. Keeps(os, k)
    <2> HIDE DEF left
    <2> QED
      BY <1>1 DEF Keeps, Good, EventsOK, IsMap, Fields
  <1> HIDE DEF k
  <1> QED
    BY <1>2, <1>3, Callers, LeaveServes DEF OSFlagDel

LEMMA TakeKeeps ==
  ASSUME Good(os), NEW g, NEW c, NEW consume PROVE Keeps(os, Take(g, c, consume))
  <1>1. \A F : Keeps(os, [os EXCEPT !.flag[g].flags = F])
    BY DEF Keeps, Good, EventsOK, IsMap, Fields
  <1> QED
    BY <1>1, SelfKeeps DEF Take

LEMMA FlagPendServes ==
  ASSUME Good(os), NEW g, NEW c, NEW consume, NEW timeout, OSFlagPend(g, c, consume, timeout)
  PROVE  Serves
  <1> DEFINE k    == Take(g, c, consume)
             got  == [k EXCEPT !.tcb[os.cur].flagsRdy = FlagsRdy(os.flag[g].flags, c)]
             wait == StartPend(os, {"FLAG"}, timeout)
             list == [wait EXCEPT !.flag[g].wait = @ \cup {os.cur},
                                  !.tcb[os.cur].node = [grp |-> g, cond |-> c]]
             off  == MakeUnready(list, {os.cur})
  <1>1. Keeps(os, got)
    <2>1. Keeps(os, k)
      BY TakeKeeps
    <2> HIDE DEF k
    <2> QED
      BY <2>1 DEF Keeps, Good, EventsOK, IsMap, Fields
  <1>2. Keeps(os, list)
    <2>1. Keeps(os, wait)
      BY StartPendKeeps
    <2> HIDE DEF wait
    <2> QED
      BY <2>1 DEF Keeps, Good, EventsOK, IsMap, Fields
  <1>3. Keeps(os, off)
    <2> HIDE DEF list
    <2> QED
      BY <1>2, MakeUnreadyKeeps, KeepsTrans DEF Keeps
  <1>4. (\E steps : Leave(got, steps)) \/ \E steps : Leave(off, steps)
    BY DEF OSFlagPend, OS_FlagBlock
  <1> HIDE DEF got, off
  <1> QED
    BY <1>1, <1>3, <1>4, Callers, LeaveServes DEF OSFlagPend

LEMMA FlagPendReturnServes ==
  ASSUME Good(os), OSFlagPend_Return PROVE Serves
  <1> DEFINE off == OS_FlagUnlink(os, os.cur)
             k   == [off EXCEPT !.tcb[os.cur].pend = "OK", !.tcb[os.cur].stat = {}]
             l   == [os EXCEPT !.flag[Now.grp].flags = Consumed(@, Cur.flagsRdy, Now.cond)]
  <1>1. Keeps(os, k)
    <2>1. Keeps(os, off)
      BY FlagUnlinkKeeps
    <2> HIDE DEF off
    <2> QED
      BY <2>1 DEF Keeps, Good, EventsOK, IsMap, Fields
  <1>2. Keeps(os, l)
    BY DEF Keeps, Good, EventsOK, IsMap, Fields
  <1>3. Proceed(k) \/ Proceed(l) \/ Proceed(os)
    BY DEF OSFlagPend_Return
  <1> HIDE DEF k, l
  <1> QED
    BY <1>1, <1>2, <1>3, SelfKeeps, Callers, ProceedServes DEF OSFlagPend_Return

LEMMA FlagPostServes ==
  ASSUME Good(os), NEW g, NEW flags, NEW set, OSFlagPost(g, flags, set) PROVE Serves
  <1> DEFINE F == IF set THEN os.flag[g].flags \cup flags ELSE os.flag[g].flags \ flags
             S == {t \in os.flag[g].wait : Satisfied(F, os.tcb[t].node.cond)}
             k == [os EXCEPT !.flag[g].flags = F]
             l == OS_FlagTaskRdy(k, S, [t \in S |-> FlagsRdy(F, os.tcb[t].node.cond)])
  <1>1. Keeps(os, k)
    <2> HIDE DEF F
    <2> QED
      BY DEF Keeps, Good, EventsOK, IsMap, Fields
  <1>2. Keeps(os, l)
    <2> HIDE DEF k, S, F
    <2> QED
      BY <1>1, FlagTaskRdyKeeps, KeepsTrans DEF Keeps
  <1>3. \E steps : Leave(l, steps)
    BY DEF OSFlagPost
  <1> HIDE DEF l
  <1> QED
    BY <1>2, <1>3, Callers, LeaveServes DEF OSFlagPost

LEMMA FlagServes ==
  ASSUME Good(os), FlagNext PROVE Serves
  <1>1. ASSUME NEW flags \in SUBSET FlagBits, OSFlagCreate(flags)
        PROVE  Serves
    <2>1. Keeps(os, [os EXCEPT !.flag[Head(os.freeFlags)] = NewFlag(flags), !.freeFlags = Tail(@)])
      BY DEF Keeps, Good, EventsOK, IsMap, Fields
    <2> QED
      BY <1>1, <2>1, Callers, LeaveServes DEF OSFlagCreate
  <1>2. ASSUME NEW g \in FlagIds, NEW c, NEW consume, OSFlagAccept(g, c, consume)
        PROVE  Serves
    BY <1>2, TakeKeeps, Callers, LeaveServes DEF OSFlagAccept
  <1> QED
    BY <1>1, <1>2, FlagDelServes, FlagPendServes, FlagPendReturnServes, FlagPostServes DEF FlagNext

(* Mutexes. *)
LEMMA RdyAtPrioKeeps ==
  ASSUME NEW k, Good(k), NEW t, NEW prio PROVE Keeps(k, OSMutex_RdyAtPrio(k, t, prio))
  <1> DEFINE rdy == Insert(Delete(k.rdy, {k.tcb[t].prio}), {prio})
  <1>1. WellFormed(rdy)
    BY InsertOK, DeleteOK DEF Good
  <1>2. OSMutex_RdyAtPrio(k, t, prio) =
          [k EXCEPT !.rdy = rdy, !.tcb[t].prio = prio, !.prioCur = prio, !.prioTbl[prio] = t]
    BY DEF OSMutex_RdyAtPrio
  <1> HIDE DEF rdy
  <1> QED
    BY <1>1, <1>2 DEF Keeps, Good, EventsOK, IsMap, Fields

LEMMA PrioTblKeeps ==
  ASSUME NEW k, Good(k), NEW prio, NEW t PROVE Keeps(k, [k EXCEPT !.prioTbl[prio] = t])
  BY DEF Keeps, Good, EventsOK, IsMap, Fields

LEMMA AcquireKeeps ==
  ASSUME NEW k, Good(k), NEW e, NEW t PROVE Keeps(k, Acquire(k, e, t))
  BY EventFieldKeeps DEF Acquire

LEMMA InheritKeeps ==
  ASSUME NEW k, Good(k), NEW e PROVE Keeps(k, Inherit(k, e))
  <1> DEFINE t     == k.event[e].ptr
             mutex == k.event[e]
             old   == k.tcb[t].prio
             at    == k.tcb[t].event
             ready == [k EXCEPT !.rdy = Insert(Delete(@, {old}), {mutex.pip})]
             waits == [k EXCEPT !.event[at].wait = Insert(Delete(@, {old}), {mutex.pip})]
             moved == IF Has(k.rdy, old) THEN ready ELSE IF at # None THEN waits ELSE k
             raised == [moved EXCEPT !.tcb[t].prio = mutex.pip, !.prioTbl[mutex.pip] = t]
  <1>1. Keeps(k, ready) /\ Keeps(k, waits)
    <2> HIDE DEF t, mutex, old, at
    <2> QED
      BY InsertOK, DeleteOK DEF Keeps, Good, EventsOK, IsMap, Fields
  <1>2. Keeps(k, moved)
    <2> HIDE DEF ready, waits, old, at
    <2> QED
      BY <1>1 DEF Keeps
  <1>3. Keeps(k, raised)
    <2> HIDE DEF moved, mutex, t
    <2> QED
      BY <1>2 DEF Keeps, Good, EventsOK, IsMap, Fields
  <1>4. Inherit(k, e) = raised \/ Inherit(k, e) = k
    BY DEF Inherit
  <1> HIDE DEF raised
  <1> QED
    BY <1>3, <1>4 DEF Keeps

LEMMA MutexCreateServes ==
  ASSUME Good(os), NEW pip, OSMutexCreate(pip) PROVE Serves
  <1> DEFINE k == NewEvent(os, NewMutex(pip))
             l == [k EXCEPT !.prioTbl[pip] = Reserved]
  <1>1. Keeps(os, k)
    BY NewControlBlocks, NewEventKeeps
  <1>2. Keeps(os, l)
    <2> HIDE DEF k
    <2> QED
      BY <1>1, PrioTblKeeps, KeepsTrans DEF Keeps
  <1>3. Leave(l, <<>>)
    BY DEF OSMutexCreate
  <1> HIDE DEF l
  <1> QED
    BY <1>2, <1>3, Callers, LeaveServes DEF OSMutexCreate

LEMMA MutexDelServes ==
  ASSUME Good(os), NEW e, NEW always, OSMutexDel(e, always) PROVE Serves
  <1> DEFINE mutex  == os.event[e]
             back   == OSMutex_RdyAtPrio(os, Owner(e), mutex.cnt)
             normal == IF always /\ Owner(e) # None /\ os.tcb[Owner(e)].prio = mutex.pip
                         THEN back ELSE os
             k      == OS_EventTaskRdy(normal, e, Waiters(os, e), None, "MUTEX", "OK")
             l      == FreeEvent(k, e)
             m      == [l EXCEPT !.prioTbl[mutex.pip] = None]
  <1>1. Keeps(os, normal)
    BY RdyAtPrioKeeps, SelfKeeps
  <1>2. Keeps(os, l)
    <2> HIDE DEF normal
    <2> QED
      BY <1>1, DeletionKeeps, KeepsTrans DEF Keeps
  <1>3. Keeps(os, m)
    <2> HIDE DEF l, mutex
    <2> QED
      BY <1>2, PrioTblKeeps, KeepsTrans DEF Keeps
  <1>4. \E steps : Leave(m, steps)
    BY DEF OSMutexDel
  <1> HIDE DEF m
  <1> QED
    BY <1>3, <1>4, Callers, LeaveServes DEF OSMutexDel

LEMMA MutexPendServes ==
  ASSUME Good(os), NEW e, NEW timeout, OSMutexPend(e, timeout) PROVE Serves
  <1> DEFINE k    == Acquire(os, e, os.cur)
             heir == Inherit(os, e)
             wait == OS_EventTaskWait(StartPend(heir, {"MUTEX"}, timeout), e)
  <1>1. Keeps(os, k)
    BY AcquireKeeps
  <1>2. Keeps(os, wait)
    <2>1. Keeps(os, heir)
      BY InheritKeeps
    <2> HIDE DEF heir
    <2> QED
      BY <2>1, BlockKeeps, KeepsTrans DEF Keeps
  <1>3. (\E steps : Leave(k, steps)) \/ \E steps : Leave(wait, steps)
    BY DEF OSMutexPend
  <1> HIDE DEF k, wait
  <1> QED
    BY <1>1, <1>2, <1>3, Callers, LeaveServes DEF OSMutexPend

LEMMA MutexPostServes ==
  ASSUME Good(os), NEW e, OSMutexPost(e) PROVE Serves
  <1> DEFINE mutex  == os.event[e]
             own    == IF Cur.prio = mutex.pip THEN OSMutex_RdyAtPrio(os, os.cur, mutex.cnt)
                       ELSE os
             normal == [own EXCEPT !.prioTbl[mutex.pip] = Reserved]
             to     == Task(normal, Highest(mutex.wait))
             given  == OS_EventTaskRdy(normal, e, HighestWaiter(os, e), None, "MUTEX", "OK")
             next   == Acquire(given, e, to)
             free   == [normal EXCEPT !.event[e].cnt = OS_MUTEX_AVAILABLE, !.event[e].ptr = None]
  <1>1. Keeps(os, own)
    BY RdyAtPrioKeeps, SelfKeeps
  <1>2. Keeps(os, normal)
    <2> HIDE DEF own, mutex
    <2> QED
      BY <1>1, PrioTblKeeps, KeepsTrans DEF Keeps
  <1>3. Keeps(os, free)
    <2> HIDE DEF normal
    <2>1. Good(normal)
      BY <1>2 DEF Keeps
    <2>2. Keeps(normal, free)
      BY <2>1, EventFieldKeeps
    <2> QED
      BY <1>2, <2>1, <2>2, KeepsTrans
  <1>4. Keeps(os, given)
    <2> HIDE DEF normal
    <2> QED
      BY <1>2, EventTaskRdyKeeps, KeepsTrans DEF Keeps
  <1>5. Keeps(os, next)
    <2> HIDE DEF given, to
    <2> QED
      BY <1>4, AcquireKeeps, KeepsTrans DEF Keeps
  <1>6. (\E steps : Leave(next, steps)) \/ \E steps : Leave(free, steps)
    BY DEF OSMutexPost
  <1> HIDE DEF next, free
  <1> QED
    BY <1>3, <1>5, <1>6, Callers, LeaveServes DEF OSMutexPost

LEMMA MutexServes ==
  ASSUME Good(os), MutexNext PROVE Serves
  <1>1. ASSUME NEW e \in EventIds, OSMutexAccept(e)
        PROVE  Serves
    BY <1>1, AcquireKeeps, Callers, LeaveServes DEF OSMutexAccept
  <1>2. CASE OSMutexPend_Return
    BY <1>2, EndPendKeeps, Callers, ProceedServes DEF OSMutexPend_Return
  <1> QED
    BY <1>1, <1>2, MutexCreateServes, MutexDelServes, MutexPendServes, MutexPostServes
      DEF MutexNext

(* Memory partitions are in no table. *)
LEMMA MemServes ==
  ASSUME Good(os), MemNext PROVE Serves
  <1>1. \A mem : Keeps(os, [os EXCEPT !.mem = mem])
    BY DEF Keeps, Good, EventsOK, IsMap, Fields
  <1>2. /\ \A h : [os EXCEPT !.mem.headers = h] = [os EXCEPT !.mem = [os.mem EXCEPT !.headers = h]]
        /\ \A q : [os EXCEPT !.mem.parts = q] = [os EXCEPT !.mem = [os.mem EXCEPT !.parts = q]]
        /\ \A p, q : [os EXCEPT !.mem.parts[p] = q] =
                       [os EXCEPT !.mem = [os.mem EXCEPT !.parts[p] = q]]
    BY DEF Good, Fields
  <1>3. CASE OSMemCreate
    BY <1>1, <1>2, <1>3, Callers, LeaveServes DEF OSMemCreate
  <1>4. CASE OSMemCreate_Link
    BY <1>1, <1>2, <1>4, Callers, LeaveServes DEF OSMemCreate_Link
  <1>5. ASSUME NEW p, OSMemGet(p)
        PROVE  Serves
    BY <1>1, <1>2, <1>5, Callers, LeaveServes DEF OSMemGet
  <1>6. ASSUME NEW p, NEW b, OSMemPut(p, b)
        PROVE  Serves
    BY <1>1, <1>2, <1>6, Callers, LeaveServes DEF OSMemPut
  <1> QED
    BY <1>3, <1>4, <1>5, <1>6 DEF MemNext

(***************************************************************************)
(* The kernel.  Before OSStart no handler runs and nothing is locked.      *)
(***************************************************************************)
KInv == Good(os) /\ (~os.running => isr = "none" /\ os.lock = 0)

LEMMA InitGood == Init => KInv
  <1> SUFFICES ASSUME Init PROVE KInv
    OBVIOUS
  <1>1. app \in Profiles /\ os = InitOS /\ isr = "none"
    BY DEF Init
  <1>2. WellFormed(InitRdy)
    BY EmptyOK, InsertOK DEF InitRdy
  <1>3. EventsOK(InitEvents)
    BY <1>1, ProfilesAssumption, EmptyOK DEF EventsOK, InitEvents, UnusedEvent
  <1>4. DOMAIN InitOS = Fields /\ InitOS.rdy = InitRdy /\ InitOS.event = InitEvents
          /\ InitOS.running = FALSE /\ InitOS.lock = 0
          /\ InitOS.tcb = InitTCBs /\ InitOS.prioTbl = InitPrioTbl
    BY DEF InitOS, Fields
  <1>5. IsMap(InitTCBs, TCBs)
    <2> DEFINE T(t) == IF t = Idle THEN IdleTask
                       ELSE IF t \in AppTasks THEN NewTCB(app.tasks[t]) ELSE NewTCB(0)
    <2>1. InitTCBs = [t \in TCBs |-> T(t)]
      BY DEF InitTCBs
    <2> HIDE DEF T
    <2> QED
      BY <2>1 DEF IsMap
  <1>6. IsMap(InitPrioTbl, Prios)
    <2> DEFINE T(p) == IF p = OS_TASK_IDLE_PRIO THEN Idle
                       ELSE IF \E t \in AppTasks : app.tasks[t] = p
                         THEN CHOOSE t \in AppTasks : app.tasks[t] = p
                       ELSE IF \E e \in DOMAIN app.events : app.events[e].type = "MUTEX" /\ app.events[e].pip = p
                         THEN Reserved
                       ELSE None
    <2>1. InitPrioTbl = [p \in Prios |-> T(p)]
      BY DEF InitPrioTbl
    <2> HIDE DEF T
    <2> QED
      BY <2>1 DEF IsMap
  <1> QED
    BY <1>1, <1>2, <1>3, <1>4, <1>5, <1>6 DEF KInv, Good

(* What every step but OSStart does to the running task. *)
Runs == os.lock > 0 /\ os'.lock > 0 => os'.cur = os.cur

LEMMA ServesInv ==
  ASSUME KInv, Serves PROVE KInv' /\ Runs
  BY DEF KInv, Serves, Keeps, Runs

LEMMA SwitchInv ==
  ASSUME KInv, os' = Switch(os), os.running PROVE KInv' /\ Runs
  <1>1. Good(os') /\ os'.running
    BY SwitchGood DEF KInv
  <1>2. os'.lock = os.lock /\ (os.lock # 0 => os' = os)
    BY SwitchGood DEF KInv
  <1>3. Runs
    BY <1>2 DEF Runs
  <1> QED
    BY <1>1, <1>3 DEF KInv, Good

LEMMA SchedNextInv ==
  ASSUME KInv, OSStart \/ IntNext \/ OS_Sched PROVE KInv' /\ Runs
  <1>1. CASE OSStart
    <2>1. os.lock = 0
      BY <1>1 DEF OSStart, KInv
    <2>2. Good(os') /\ os'.running
      BY <1>1 DEF OSStart, KInv, Good, EventsOK, IsMap, Fields
    <2> QED
      BY <2>1, <2>2 DEF KInv, Runs
  <1>2. CASE \E kind \in {"tick", "device"} : OSIntEnter(kind)
    BY <1>2 DEF OSIntEnter, KInv, Runs
  <1>3. CASE OSTimeTick
    <2> DEFINE delayed == {t \in os.list \ {Idle} : os.tcb[t].dly # 0}
               tcbs    == [t \in TCBs |-> IF t \in delayed THEN [os.tcb[t] EXCEPT !.dly = @ - 1]
                                          ELSE os.tcb[t]]
               ticked  == [os EXCEPT !.tcb = tcbs]
               S       == {t \in delayed : ticked.tcb[t].dly = 0}
    <2>1. Keeps(os, ticked)
      <3>1. IsMap(tcbs, TCBs)
        BY DEF IsMap
      <3> HIDE DEF tcbs
      <3> QED
        BY <3>1 DEF KInv, Keeps, Good, EventsOK, Fields
    <2>2. Keeps(os, Expire(ticked, S))
      <3> HIDE DEF ticked, S
      <3> QED
        BY <2>1, ExpireKeeps, KeepsTrans DEF Keeps
    <2>3. os' = Expire(ticked, S) /\ isr = "tick"
      BY <1>3 DEF OSTimeTick
    <2> HIDE DEF ticked, S
    <2> QED
      BY <2>2, <2>3 DEF KInv, Keeps, Runs
  <1>4. CASE OSIntExit
    <2>1. os' = Switch(os) /\ os.running
      BY <1>4 DEF OSIntExit, KInv
    <2> QED
      BY <2>1, SwitchInv
  <1>5. CASE OS_Sched
    <2>1. os' = Switch(os) /\ os.running
      BY <1>5, Callers DEF OS_Sched, Proceed, Leave
    <2> QED
      BY <2>1, SwitchInv
  <1> QED
    BY <1>1, <1>2, <1>3, <1>4, <1>5 DEF IntNext

(* A check of a type changes nothing but what has been checked.            *)
LEMMA CheckStutters ==
  ASSUME CheckNext PROVE UNCHANGED <<os, isr, pc, app>> /\ io' = NoIO
  BY DEF CheckNext, CheckType, OSSem_CheckType, OSMbox_CheckType, OSQ_CheckType, OSMutex_CheckType,
         OSFlag_CheckType, OSEventPendMulti_CheckType

LEMMA NextInv ==
  ASSUME KInv, [Next]_vars PROVE KInv' /\ Runs
  <1>1. CASE OSStart \/ IntNext \/ OS_Sched
    BY <1>1, SchedNextInv
  <1>2. CASE OSSchedLock \/ OSSchedUnlock
    BY <1>2, LockServes, ServesInv DEF KInv
  <1>3. CASE TaskNext
    BY <1>3, TaskServes, ServesInv DEF KInv
  <1>4. CASE SemNext \/ MboxNext \/ QNext \/ MultiNext
    BY <1>4, SemServes, MboxServes, QServes, MultiServes, ServesInv DEF KInv
  <1>5. CASE FlagNext \/ MutexNext \/ MemNext
    BY <1>5, FlagServes, MutexServes, MemServes, ServesInv DEF KInv
  <1>6. CASE CheckNext \/ UNCHANGED vars
    <2>1. UNCHANGED <<os, isr, pc, app>>
      BY <1>6, CheckStutters DEF vars
    <2> QED
      BY <2>1 DEF KInv, Runs, Good, EventsOK
  <1> QED
    BY <1>1, <1>2, <1>3, <1>4, <1>5, <1>6 DEF Next

(***************************************************************************)
(* The group byte of the ready list and of every wait list always tells    *)
(* which rows are not empty, whichever services run (OS_EventTaskRdy,      *)
(* OSTimeTick, OSTaskChangePrio and the others that write the tables).     *)
(* This and every other theorem about the kernel is about applications     *)
(* that delete no object another task has checked and not used yet: such a *)
(* deletion writes to control blocks that are not in use any more.         *)
(***************************************************************************)
THEOREM TablesHold ==
  ASSUME ~DeletionRaces PROVE Spec => []TablesOK
  <1>1. Init => KInv
    BY InitGood
  <1>2. KInv /\ [Next]_vars => KInv'
    BY NextInv
  <1>3. KInv => TablesOK
    BY DEF KInv, Good, EventsOK, TablesOK
  <1> QED
    BY <1>1, <1>2, <1>3, PTL DEF Spec

(***************************************************************************)
(* No step of a task, a handler or the tick takes the CPU from a task that *)
(* has locked the scheduler (OS_Sched, OSIntExit, OSStart).                *)
(***************************************************************************)
THEOREM LockIsHeld ==
  ASSUME ~DeletionRaces PROVE Spec => LockHeld
  <1>1. Init => KInv
    BY InitGood
  <1>2. KInv /\ [Next]_vars => KInv'
    BY NextInv
  <1>3. KInv /\ [Next]_vars => [os.lock > 0 /\ os'.lock > 0 => os'.cur = os.cur]_vars
    BY NextInv DEF Runs
  <1> QED
    BY <1>1, <1>2, <1>3, PTL DEF Spec, LockHeld

(***************************************************************************)
(* The circular buffer of a queue behaves as a sequence, for buffers of    *)
(* every size: each operation keeps the three places consistent and does   *)
(* to the contents what its name says.                                     *)
(***************************************************************************)
(* What a slot holds: a message or null (OsQ).                             *)
Slot == Msgs \cup {None}

(* A queue of the given size, as it is between two services.               *)
Ring(q, size) == q \in Rings(size) /\ RingOK(q)

(* The arithmetic of a place that wraps once, apart from the records.      *)
Spot(size, x) == IF x >= size THEN x - size ELSE x

LEMMA WrapIsSpot ==
  ASSUME NEW size, NEW q, q.size = size, NEW x
  PROVE  Wrap(q, x) = Spot(size, x)
  BY DEF Wrap, Spot

LEMMA SpotBehind ==
  ASSUME NEW size \in Nat \ {0}, NEW out \in 0 .. size - 1, NEW n \in 0 .. size - 1
  PROVE  /\ Spot(size, out + n) \in 0 .. size - 1
         /\ Spot(size, Spot(size, out + n) + 1) = Spot(size, out + (n + 1))
         /\ Spot(size, Spot(size, out + n) + 1) \in 0 .. size - 1
         /\ \A i \in 1 .. n + 1 : /\ Spot(size, out + i - 1) \in 0 .. size - 1
                                  /\ Spot(size, out + i - 1) = Spot(size, out + n) <=> ~(i <= n)
  BY DEF Spot

LEMMA SpotOut ==
  ASSUME NEW size \in Nat \ {0}, NEW out \in 0 .. size - 1, NEW n \in 1 .. size
  PROVE  /\ Spot(size, out + 1) \in 0 .. size - 1
         /\ Spot(size, Spot(size, out + 1) + (n - 1)) = Spot(size, out + n)
         /\ Spot(size, out + 1 - 1) = out
         /\ \A i \in 1 .. n - 1 :
              Spot(size, Spot(size, out + 1) + i - 1) = Spot(size, out + (i + 1) - 1)
  BY DEF Spot

(* The parts of a queue.                                                   *)
LEMMA RingParts ==
  ASSUME NEW size \in Nat \ {0}, NEW q, Ring(q, size)
  PROVE  /\ q.size = size /\ q.in \in 0 .. size - 1 /\ q.out \in 0 .. size - 1
         /\ q.entries \in 0 .. size /\ q.buf \in [0 .. size - 1 -> Slot]
         /\ q.in = Spot(size, q.out + q.entries)
  BY WrapIsSpot DEF Slot, Ring, Rings, RingOK

(* A record stays in its set when its parts stay in theirs.                *)
LEMMA RingUpdate ==
  ASSUME NEW S, NEW I, NEW E, NEW B,
         NEW q \in [size : S, in : I, out : I, entries : E, buf : B],
         NEW i \in I, NEW o \in I, NEW e \in E, NEW b \in B
  PROVE  LET R == [size : S, in : I, out : I, entries : E, buf : B]
         IN  /\ [q EXCEPT !.buf = b, !.entries = e, !.in = i] \in R
             /\ [q EXCEPT !.buf = b, !.entries = e, !.out = o] \in R
             /\ [q EXCEPT !.entries = e, !.out = o] \in R
             /\ [q EXCEPT !.in = i, !.out = o, !.entries = e] \in R
  OBVIOUS

(* The contents are a sequence as long as the count of entries says.       *)
LEMMA ContentsSeq ==
  ASSUME NEW size \in Nat \ {0}, NEW q, Ring(q, size)
  PROVE  /\ Contents(q) \in Seq(Slot)
         /\ Len(Contents(q)) = q.entries
         /\ \A i \in 1 .. q.entries : Contents(q)[i] = q.buf[Wrap(q, q.out + i - 1)]
  <1> DEFINE n == q.entries
             c == Contents(q)
  <1>1. n \in Nat /\ \A i \in 1 .. n : Wrap(q, q.out + i - 1) \in 0 .. size - 1
    BY RingParts DEF Wrap
  <1>2. c \in [1 .. n -> Slot] /\ \A i \in 1 .. n : c[i] = q.buf[Wrap(q, q.out + i - 1)]
    BY <1>1, RingParts DEF Contents
  <1> HIDE DEF c, n
  <1>3. c \in Seq(Slot) /\ Len(c) = n
    BY <1>1, <1>2, SeqDef, LenProperties
  <1> QED
    BY <1>2, <1>3 DEF c, n

(* A new queue is empty (OSQCreate).                                       *)
THEOREM NewRingEmpty ==
  ASSUME NEW size \in Nat \ {0}, NEW fill \in Slot
  PROVE  Ring(NewRing(size, fill), size) /\ Contents(NewRing(size, fill)) = <<>>
  BY DEF Slot, Ring, Rings, RingOK, NewRing, Contents, Wrap

(* What is posted to a queue that is not full comes behind everything that *)
(* is in it (OSQPost).                                                     *)
THEOREM EnqueueAppends ==
  ASSUME NEW size \in Nat \ {0}, NEW q, Ring(q, size), ~IsFull(q), NEW m \in Slot
  PROVE  /\ Ring(Enqueue(q, m), size)
         /\ Contents(Enqueue(q, m)) = Append(Contents(q), m)
  <1> DEFINE r == Enqueue(q, m)
  <1>1. PICK out \in 0 .. size - 1, n \in 0 .. size - 1 : q.out = out /\ q.entries = n
    BY RingParts DEF IsFull
  <1>2. /\ q.size = size /\ q.in = Spot(size, out + n)
        /\ q.in \in 0 .. size - 1 /\ q.buf \in [0 .. size - 1 -> Slot]
    BY <1>1, RingParts
  <1>3. /\ Spot(size, Spot(size, out + n) + 1) = Spot(size, out + (n + 1))
        /\ Spot(size, Spot(size, out + n) + 1) \in 0 .. size - 1
        /\ \A i \in 1 .. n + 1 : /\ Spot(size, out + i - 1) \in 0 .. size - 1
                                 /\ Spot(size, out + i - 1) = Spot(size, out + n) <=> ~(i <= n)
    BY SpotBehind
  <1>4. Wrap(q, q.in + 1) = Spot(size, out + (n + 1))
    BY <1>2, <1>3, WrapIsSpot
  <1>5. /\ r.size = size /\ r.out = out /\ r.entries = n + 1
        /\ r.in = Spot(size, out + (n + 1))
    BY <1>1, <1>2, <1>4 DEF Enqueue, Ring, Rings
  <1>6. \A i \in 0 .. size - 1 : r.buf[i] = IF i = q.in THEN m ELSE q.buf[i]
    BY DEF Enqueue, Ring, Rings
  <1>7. Ring(r, size)
    <2>1. r \in Rings(size)
      <3>1. /\ [q.buf EXCEPT ![q.in] = m] \in [0 .. size - 1 -> Slot]
            /\ n + 1 \in 0 .. size
        BY <1>2
      <3>2. q.entries + 1 \in 0 .. size /\ Wrap(q, q.in + 1) \in 0 .. size - 1
        BY <1>1, <1>3, <1>4, <3>1
      <3> QED
        BY <3>1, <3>2, RingUpdate DEF Slot, Ring, Rings, Enqueue
    <2>2. RingOK(r)
      <3> HIDE DEF r
      <3>1. Wrap(r, r.out + r.entries) = Spot(size, out + (n + 1))
        BY <1>5, WrapIsSpot
      <3> QED
        BY <1>5, <3>1 DEF RingOK
    <2> QED
      BY <2>1, <2>2 DEF Ring
  <1> HIDE DEF r
  <1> DEFINE c == Contents(q)
             d == Contents(r)
  <1>8. /\ c \in Seq(Slot) /\ d \in Seq(Slot) /\ Len(c) = n /\ Len(d) = n + 1
        /\ \A i \in 1 .. n : c[i] = q.buf[Wrap(q, out + i - 1)]
        /\ \A i \in 1 .. n + 1 : d[i] = r.buf[Wrap(r, out + i - 1)]
    <2>1. /\ c \in Seq(Slot) /\ Len(c) = n
          /\ \A i \in 1 .. n : c[i] = q.buf[Wrap(q, out + i - 1)]
      BY <1>1, ContentsSeq
    <2>2. /\ d \in Seq(Slot) /\ Len(d) = r.entries
          /\ \A i \in 1 .. r.entries : d[i] = r.buf[Wrap(r, r.out + i - 1)]
      BY <1>7, ContentsSeq
    <2> HIDE DEF c, d
    <2> QED
      BY <1>5, <2>1, <2>2
  <1> HIDE DEF c, d
  <1>9. \A i \in 1 .. n + 1 : d[i] = IF i <= n THEN c[i] ELSE m
    <2> TAKE i \in 1 .. n + 1
    <2> DEFINE at == Spot(size, out + i - 1)
    <2>1. Wrap(r, out + i - 1) = at /\ Wrap(q, out + i - 1) = at
      BY <1>2, <1>5, WrapIsSpot
    <2>2. at \in 0 .. size - 1 /\ (at = q.in <=> ~(i <= n))
      BY <1>2, <1>3
    <2> HIDE DEF at
    <2>3. r.buf[at] = IF i <= n THEN q.buf[at] ELSE m
      BY <1>6, <2>2
    <2>4. i <= n => c[i] = q.buf[at]
      BY <1>8, <2>1
    <2>5. d[i] = r.buf[at]
      BY <1>8, <2>1
    <2> QED
      BY <2>3, <2>4, <2>5
  <1>10. /\ Append(c, m) \in Seq(Slot) /\ Len(Append(c, m)) = n + 1
         /\ \A i \in 1 .. n + 1 : Append(c, m)[i] = IF i <= n THEN c[i] ELSE m
    BY <1>8, AppendProperties
  <1>11. \A i \in 1 .. Len(d) : d[i] = Append(c, m)[i]
    BY <1>8, <1>9, <1>10
  <1>12. d = Append(c, m)
    BY <1>8, <1>10, <1>11, SeqEqual
  <1> QED
    BY <1>7, <1>12 DEF r, c, d

(* What is posted to the front comes before everything (OSQPostFront).     *)
THEOREM EnqueueFrontPrepends ==
  ASSUME NEW size \in Nat \ {0}, NEW q, Ring(q, size), ~IsFull(q), NEW m \in Slot
  PROVE  /\ Ring(EnqueueFront(q, m), size)
         /\ Contents(EnqueueFront(q, m)) = <<m>> \o Contents(q)
  <1> DEFINE r == EnqueueFront(q, m)
  <1>1. PICK out \in 0 .. size - 1, n \in 0 .. size - 1 : q.out = out /\ q.entries = n
    BY RingParts DEF IsFull
  <1> DEFINE o == IF out = 0 THEN size - 1 ELSE out - 1
  <1>2. /\ q.size = size /\ q.in = Spot(size, out + n)
        /\ q.in \in 0 .. size - 1 /\ q.buf \in [0 .. size - 1 -> Slot]
    BY <1>1, RingParts
  <1>3. /\ o \in 0 .. size - 1
        /\ Spot(size, o + (n + 1)) = Spot(size, out + n)
        /\ \A i \in 1 .. n + 1 : /\ Spot(size, o + i - 1) \in 0 .. size - 1
                                 /\ Spot(size, o + i - 1) = o <=> i = 1
                                 /\ i # 1 => Spot(size, o + i - 1) = Spot(size, out + (i - 1) - 1)
    BY DEF Spot
  <1>4. (IF q.out = 0 THEN q.size - 1 ELSE q.out - 1) = o
    BY <1>1, <1>2
  <1> HIDE DEF o
  <1>5. r = [q EXCEPT !.buf = [@ EXCEPT ![o] = m], !.entries = @ + 1, !.out = o]
    BY <1>4 DEF EnqueueFront
  <1>6. /\ r.size = size /\ r.out = o /\ r.entries = n + 1 /\ r.in = Spot(size, out + n)
        /\ \A i \in 0 .. size - 1 : r.buf[i] = IF i = o THEN m ELSE q.buf[i]
    BY <1>1, <1>2, <1>3, <1>5 DEF Ring, Rings
  <1>7. Ring(r, size)
    <2>1. r \in Rings(size)
      <3>1. /\ [q.buf EXCEPT ![o] = m] \in [0 .. size - 1 -> Slot]
            /\ n + 1 \in 0 .. size
        BY <1>2, <1>3
      <3>2. q.entries + 1 \in 0 .. size
        BY <1>1, <3>1
      <3>3. q \in Rings(size)
        BY DEF Ring
      <3> HIDE DEF r
      <3> QED
        BY <1>3, <1>5, <3>1, <3>2, <3>3, RingUpdate DEF Rings, Slot
    <2>2. RingOK(r)
      <3> HIDE DEF r
      <3>1. Wrap(r, r.out + r.entries) = Spot(size, out + n)
        BY <1>3, <1>6, WrapIsSpot
      <3> QED
        BY <1>6, <3>1 DEF RingOK
    <2> QED
      BY <2>1, <2>2 DEF Ring
  <1> HIDE DEF r
  <1> DEFINE c == Contents(q)
             d == Contents(r)
             e == <<m>> \o c
  <1>8. /\ c \in Seq(Slot) /\ d \in Seq(Slot) /\ Len(c) = n /\ Len(d) = n + 1
        /\ \A i \in 1 .. n : c[i] = q.buf[Wrap(q, out + i - 1)]
        /\ \A i \in 1 .. n + 1 : d[i] = r.buf[Wrap(r, o + i - 1)]
    <2>1. /\ c \in Seq(Slot) /\ Len(c) = n
          /\ \A i \in 1 .. n : c[i] = q.buf[Wrap(q, out + i - 1)]
      BY <1>1, ContentsSeq
    <2>2. /\ d \in Seq(Slot) /\ Len(d) = r.entries
          /\ \A i \in 1 .. r.entries : d[i] = r.buf[Wrap(r, r.out + i - 1)]
      BY <1>7, ContentsSeq
    <2> HIDE DEF c, d
    <2> QED
      BY <1>6, <2>1, <2>2
  <1>9. /\ e \in Seq(Slot) /\ Len(e) = n + 1
        /\ \A i \in 1 .. n + 1 : e[i] = IF i = 1 THEN m ELSE c[i - 1]
    <2> HIDE DEF c
    <2>1. <<m>> \in Seq(Slot) /\ Len(<<m>>) = 1 /\ <<m>>[1] = m
      OBVIOUS
    <2>2. /\ e \in Seq(Slot) /\ Len(e) = 1 + Len(c)
          /\ \A i \in 1 .. 1 + Len(c) : e[i] = IF i <= 1 THEN <<m>>[i] ELSE c[i - 1]
      BY <1>8, <2>1, ConcatProperties
    <2> HIDE DEF e
    <2>3. ASSUME NEW i \in 1 .. n + 1
          PROVE  e[i] = IF i = 1 THEN m ELSE c[i - 1]
      <3>1. e[i] = IF i <= 1 THEN <<m>>[i] ELSE c[i - 1]
        BY <1>8, <2>2
      <3>2. CASE i = 1
        BY <2>1, <3>1, <3>2
      <3>3. CASE i # 1
        BY <3>1, <3>3
      <3> QED
        BY <3>2, <3>3
    <2> QED
      BY <1>8, <2>2, <2>3
  <1> HIDE DEF c, d, e
  <1>10. ASSUME NEW i \in 1 .. n + 1
         PROVE  d[i] = e[i]
    <2> DEFINE at == Spot(size, o + i - 1)
    <2>1. Wrap(r, o + i - 1) = at
      BY <1>6, WrapIsSpot
    <2>2. at \in 0 .. size - 1 /\ (at = o <=> i = 1)
      BY <1>3
    <2>3. d[i] = r.buf[at]
      BY <1>8, <2>1
    <2>4. r.buf[at] = IF i = 1 THEN m ELSE q.buf[at]
      BY <1>6, <2>2
    <2>5. CASE i = 1
      BY <1>9, <2>3, <2>4, <2>5
    <2>6. CASE i # 1
      <3>1. i - 1 \in 1 .. n /\ at = Spot(size, out + (i - 1) - 1)
        BY <1>3, <2>6
      <3>2. Wrap(q, out + (i - 1) - 1) = Spot(size, out + (i - 1) - 1)
        BY <1>2, WrapIsSpot
      <3>3. c[i - 1] = q.buf[Wrap(q, out + (i - 1) - 1)]
        BY <1>8, <3>1
      <3>4. e[i] = c[i - 1]
        BY <1>9, <2>6
      <3> HIDE DEF at
      <3> QED
        BY <2>3, <2>4, <2>6, <3>1, <3>2, <3>3, <3>4
    <2> QED
      BY <2>5, <2>6
  <1>11. d = e
    BY <1>8, <1>9, <1>10, SeqEqual
  <1> QED
    BY <1>7, <1>11 DEF r, c, d, e

(* What is taken out is the oldest message, and the rest keeps its order   *)
(* (OSQPend, OSQAccept).                                                   *)
THEOREM DequeueTakesFirst ==
  ASSUME NEW size \in Nat \ {0}, NEW q, Ring(q, size), q.entries > 0
  PROVE  /\ Ring(Dequeue(q), size)
         /\ Next1(q) = Head(Contents(q))
         /\ Contents(Dequeue(q)) = Tail(Contents(q))
  <1> DEFINE r == Dequeue(q)
  <1>1. PICK out \in 0 .. size - 1, n \in 1 .. size : q.out = out /\ q.entries = n
    BY RingParts
  <1>2. /\ q.size = size /\ q.in = Spot(size, out + n)
        /\ q.in \in 0 .. size - 1 /\ q.buf \in [0 .. size - 1 -> Slot]
    BY <1>1, RingParts
  <1> DEFINE o == Spot(size, out + 1)
  <1>3. /\ o \in 0 .. size - 1
        /\ Spot(size, o + (n - 1)) = Spot(size, out + n)
        /\ Spot(size, out + 1 - 1) = out
        /\ \A i \in 1 .. n - 1 : Spot(size, o + i - 1) = Spot(size, out + (i + 1) - 1)
    BY SpotOut
  <1> HIDE DEF o
  <1>4. Wrap(q, q.out + 1) = o
    BY <1>1, <1>2, WrapIsSpot DEF o
  <1>5. r = [q EXCEPT !.entries = @ - 1, !.out = o]
    BY <1>4 DEF Dequeue
  <1>6. /\ r.size = size /\ r.out = o /\ r.entries = n - 1 /\ r.in = Spot(size, out + n)
        /\ r.buf = q.buf
    BY <1>1, <1>2, <1>5 DEF Ring, Rings
  <1>7. Ring(r, size)
    <2>1. r \in Rings(size)
      <3>1. n - 1 \in 0 .. size
        OBVIOUS
      <3>2. q.entries - 1 \in 0 .. size
        BY <1>1, <3>1
      <3>3. q \in Rings(size)
        BY DEF Ring
      <3> HIDE DEF r
      <3> QED
        BY <1>2, <1>3, <1>5, <3>2, <3>3, RingUpdate DEF Rings
    <2>2. RingOK(r)
      <3> HIDE DEF r
      <3>1. Wrap(r, r.out + r.entries) = Spot(size, out + n)
        BY <1>3, <1>6, WrapIsSpot
      <3> QED
        BY <1>6, <3>1 DEF RingOK
    <2> QED
      BY <2>1, <2>2 DEF Ring
  <1> HIDE DEF r
  <1> DEFINE c == Contents(q)
             d == Contents(r)
  <1>8. /\ c \in Seq(Slot) /\ d \in Seq(Slot) /\ Len(c) = n /\ Len(d) = n - 1
        /\ \A i \in 1 .. n : c[i] = q.buf[Wrap(q, out + i - 1)]
        /\ \A i \in 1 .. n - 1 : d[i] = q.buf[Wrap(r, o + i - 1)]
    <2>1. /\ c \in Seq(Slot) /\ Len(c) = n
          /\ \A i \in 1 .. n : c[i] = q.buf[Wrap(q, out + i - 1)]
      BY <1>1, ContentsSeq
    <2>2. /\ d \in Seq(Slot) /\ Len(d) = r.entries
          /\ \A i \in 1 .. r.entries : d[i] = r.buf[Wrap(r, r.out + i - 1)]
      BY <1>7, ContentsSeq
    <2> HIDE DEF c, d
    <2> QED
      BY <1>6, <2>1, <2>2
  <1> HIDE DEF c, d
  <1>9. Next1(q) = c[1]
    <2>1. Wrap(q, out + 1 - 1) = out
      BY <1>2, <1>3, WrapIsSpot
    <2>2. c[1] = q.buf[Wrap(q, out + 1 - 1)]
      BY <1>8
    <2> QED
      BY <1>1, <2>1, <2>2 DEF Next1
  <1>10. ASSUME NEW i \in 1 .. n - 1
         PROVE  d[i] = c[i + 1]
    <2>1. Wrap(r, o + i - 1) = Wrap(q, out + (i + 1) - 1)
      <3>1. /\ Wrap(r, o + i - 1) = Spot(size, o + i - 1)
            /\ Wrap(q, out + (i + 1) - 1) = Spot(size, out + (i + 1) - 1)
        BY <1>2, <1>6, WrapIsSpot
      <3> QED
        BY <1>3, <3>1
    <2>2. i + 1 \in 1 .. n
      OBVIOUS
    <2>3. c[i + 1] = q.buf[Wrap(q, out + (i + 1) - 1)]
      BY <1>8, <2>2
    <2> QED
      BY <1>8, <2>1, <2>3
  <1>11. c # <<>>
    BY <1>8
  <1>12. /\ Tail(c) \in Seq(Slot) /\ Len(Tail(c)) = n - 1
         /\ \A i \in 1 .. n - 1 : Tail(c)[i] = c[i + 1]
    BY <1>8, <1>11, HeadTailProperties
  <1>13. d = Tail(c)
    BY <1>8, <1>10, <1>12, SeqEqual
  <1>14. Next1(q) = Head(c)
    BY <1>8, <1>9, <1>11
  <1> QED
    BY <1>7, <1>13, <1>14 DEF c, d, r

(* A flushed queue is empty (OSQFlush).                                    *)
THEOREM FlushEmpties ==
  ASSUME NEW size \in Nat \ {0}, NEW q, Ring(q, size)
  PROVE  Ring(Flush(q), size) /\ Contents(Flush(q)) = <<>>
  <1>1. Flush(q).size = size /\ Flush(q).in = 0 /\ Flush(q).out = 0 /\ Flush(q).entries = 0
    BY DEF Flush, Ring, Rings
  <1>2. Flush(q) \in Rings(size)
    <2>1. 0 \in 0 .. size - 1 /\ 0 \in 0 .. size /\ q.buf \in [0 .. size - 1 -> Slot]
      BY RingParts
    <2> QED
      BY <2>1, RingUpdate DEF Flush, Ring, Rings
  <1>3. Contents(Flush(q)) = <<>>
    BY <1>1 DEF Contents
  <1> QED
    BY <1>1, <1>2, <1>3 DEF Ring, RingOK, Wrap

(***************************************************************************)
(* What ties the tasks to the ready list and to the wait lists, for any    *)
(* number of tasks, priorities and objects, and that each operator of the  *)
(* kernel that touches them keeps it.  The tables are seen as the sets of  *)
(* their members.                                                          *)
(***************************************************************************)

(***************************************************************************)
(* The bit maps.                                                           *)
(***************************************************************************)
LEMMA Least ==
  ASSUME NEW T, T \subseteq Nat, T # {} PROVE \E x \in T : \A y \in T : x <= y
  <1> DEFINE R == OpToRel(<, Nat)
  <1>1. IsWellFoundedOn(R, Nat)
    BY NatLessThanWellFounded
  <1>2. \A x, y \in Nat : y < x => <<y, x>> \in R
    BY Zenon DEF OpToRel
  <1> HIDE DEF R
  <1>3. PICK x \in T : \A y \in T : ~ (<<y, x>> \in R)
    BY <1>1, WFMin
  <1>4. \A y \in T : ~ (y < x)
    BY <1>2, <1>3, Zenon
  <1>5. x \in Nat /\ \A y \in T : y \in Nat
    OBVIOUS
  <1> QED
    BY <1>4, <1>5

LEMMA DivMod ==
  ASSUME NEW x \in Nat, NEW d \in Nat \ {0}
  PROVE  x \div d \in Nat /\ x % d \in 0 .. d - 1 /\ x = (x \div d) * d + (x % d)
  OBVIOUS

LEMMA DivUnique ==
  ASSUME NEW x \in Nat, NEW d \in Nat \ {0}, NEW q \in Nat, NEW r \in 0 .. d - 1, x = q * d + r
  PROVE  x \div d = q /\ x % d = r
  OBVIOUS

LEMMA Rooms ==
  ASSUME NEW d \in Nat \ {0}, NEW n \in Nat \ {0}, NEW q \in Nat, NEW r \in 0 .. d - 1
  PROVE  q * d + r \in 0 .. n * d - 1 <=> q \in 0 .. n - 1
  <1>1. q * d \in Nat /\ n * d \in Nat
    OBVIOUS
  <1>2. CASE q <= n - 1
    <2>1. (n - 1 - q) * d >= 0
      BY <1>2
    <2>2. (n - 1 - q) * d = n * d - d - q * d
      OBVIOUS
    <2> QED
      BY <1>1, <1>2, <2>1, <2>2
  <1>3. CASE q >= n
    <2>1. (q - n) * d >= 0
      BY <1>3
    <2>2. (q - n) * d = q * d - n * d
      OBVIOUS
    <2> QED
      BY <1>1, <1>3, <2>1, <2>2
  <1> QED
    BY <1>2, <1>3

(* A priority is a place in the table and the reverse.                     *)
LEMMA Places ==
  /\ Prios \subseteq Nat
  /\ \A p \in Prios : Y(p) \in RowSet /\ X(p) \in BitSet /\ p = Y(p) * Width + X(p)
  /\ \A y \in RowSet, x \in BitSet :
       y * Width + x \in Prios /\ Y(y * Width + x) = y /\ X(y * Width + x) = x
  <1>1. Width \in Nat \ {0} /\ Rows \in Nat \ {0}
    BY WidthAssumption, RowsAssumption
  <1>2. Prios \subseteq Nat
    BY DEF Prios
  <1>3. ASSUME NEW p \in Prios
        PROVE  Y(p) \in RowSet /\ X(p) \in BitSet /\ p = Y(p) * Width + X(p)
    <2>1. p \in Nat
      BY <1>2
    <2>2. Y(p) \in Nat /\ X(p) \in 0 .. Width - 1 /\ p = Y(p) * Width + X(p)
      BY <1>1, <2>1, DivMod DEF Y, X
    <2>3. Y(p) * Width + X(p) \in 0 .. Rows * Width - 1
      BY <2>2 DEF Prios, OS_LOWEST_PRIO
    <2>4. Y(p) \in 0 .. Rows - 1
      BY <1>1, <2>2, <2>3, Rooms
    <2> QED
      BY <2>2, <2>4 DEF RowSet, BitSet
  <1>4. ASSUME NEW y \in RowSet, NEW x \in BitSet
        PROVE  y * Width + x \in Prios /\ Y(y * Width + x) = y /\ X(y * Width + x) = x
    <2>1. y \in Nat /\ y \in 0 .. Rows - 1 /\ x \in 0 .. Width - 1
      BY <1>1 DEF RowSet, BitSet
    <2>2. y * Width + x \in 0 .. Rows * Width - 1
      BY <1>1, <2>1, Rooms
    <2>3. y * Width + x \in Nat
      BY <2>2
    <2>4. (y * Width + x) \div Width = y /\ (y * Width + x) % Width = x
      BY <1>1, <2>1, <2>3, DivUnique
    <2> QED
      BY <2>2, <2>4 DEF Prios, OS_LOWEST_PRIO, X, Y
  <1> QED
    BY <1>2, <1>3, <1>4

LEMMA SamePlace ==
  ASSUME NEW p \in Prios, NEW q \in Prios, X(p) = X(q), Y(p) = Y(q) PROVE p = q
  BY Places

LEMMA EmptyMembers == EmptyTable \in Table /\ Members(EmptyTable) = {}
  <1>1. EmptyTable \in Table
    BY DEF EmptyTable, Table
  <1>2. \A p \in Prios : ~Has(EmptyTable, p)
    BY Places DEF EmptyTable, Has
  <1> QED
    BY <1>1, <1>2 DEF Members

LEMMA InsertMembers ==
  ASSUME NEW T \in Table, NEW S \in SUBSET Prios
  PROVE  Insert(T, S) \in Table /\ Members(Insert(T, S)) = Members(T) \cup S
  <1>1. \A p \in S : Y(p) \in RowSet /\ X(p) \in BitSet
    BY Places
  <1>2. Insert(T, S) \in Table
    BY <1>1 DEF Insert, Table
  <1>3. ASSUME NEW p \in Prios
        PROVE  Has(Insert(T, S), p) <=> Has(T, p) \/ p \in S
    <2>1. Y(p) \in RowSet
      BY Places
    <2>2. Insert(T, S).tbl[Y(p)] = T.tbl[Y(p)] \cup {X(q) : q \in {r \in S : Y(r) = Y(p)}}
      BY <2>1 DEF Insert
    <2>3. X(p) \in {X(q) : q \in {r \in S : Y(r) = Y(p)}} <=> p \in S
      BY SamePlace
    <2> QED
      BY <2>2, <2>3 DEF Has
  <1> QED
    BY <1>2, <1>3 DEF Members

LEMMA DeleteMembers ==
  ASSUME NEW T \in Table, NEW S \in SUBSET Prios
  PROVE  Delete(T, S) \in Table /\ Members(Delete(T, S)) = Members(T) \ S
  <1>2. Delete(T, S) \in Table
    BY DEF Delete, Table
  <1>3. ASSUME NEW p \in Prios
        PROVE  Has(Delete(T, S), p) <=> Has(T, p) /\ p \notin S
    <2>1. Y(p) \in RowSet
      BY Places
    <2>2. Delete(T, S).tbl[Y(p)] = T.tbl[Y(p)] \ {X(q) : q \in {r \in S : Y(r) = Y(p)}}
      BY <2>1 DEF Delete
    <2>3. X(p) \in {X(q) : q \in {r \in S : Y(r) = Y(p)}} <=> p \in S
      BY SamePlace
    <2> QED
      BY <2>2, <2>3 DEF Has
  <1> QED
    BY <1>2, <1>3 DEF Members

LEMMA MembersPrios == ASSUME NEW T PROVE Members(T) \subseteq Prios
  BY DEF Members

LEMMA HasMember == ASSUME NEW T, NEW p \in Prios PROVE Has(T, p) <=> p \in Members(T)
  BY DEF Members

LEMMA LowestBit ==
  ASSUME NEW S, S \subseteq Nat, S # {}
  PROVE  OSUnMapTbl(S) \in S /\ \A x \in S : OSUnMapTbl(S) <= x
  <1>1. \E b \in S : \A c \in S : b <= c
    BY Least
  <1> QED
    BY <1>1 DEF OSUnMapTbl

(* The two look-ups find the first member. *)
LEMMA HighestFirst ==
  ASSUME NEW T \in Table, WellFormed(T), Members(T) # {}
  PROVE  Highest(T) \in Members(T) /\ \A p \in Members(T) : Highest(T) <= p
  <1> DEFINE y == OSUnMapTbl(T.grp)
             x == OSUnMapTbl(T.tbl[y])
  <1>1. Width \in Nat \ {0} /\ RowSet \subseteq Nat /\ BitSet \subseteq Nat
    BY WidthAssumption DEF RowSet, BitSet
  <1>2. T.grp \subseteq RowSet /\ \A r \in RowSet : T.tbl[r] \subseteq BitSet
    BY DEF Table
  <1>3. \A p \in Members(T) : p \in Prios /\ Y(p) \in T.grp /\ X(p) \in T.tbl[Y(p)]
    BY Places DEF Members, Has, WellFormed
  <1>4. T.grp # {} /\ T.grp \subseteq Nat
    BY <1>1, <1>2, <1>3
  <1>5. y \in T.grp /\ \A r \in T.grp : y <= r
    BY <1>4, LowestBit
  <1>6. y \in RowSet /\ T.tbl[y] # {} /\ T.tbl[y] \subseteq BitSet
    BY <1>2, <1>5 DEF WellFormed
  <1>7. x \in T.tbl[y] /\ \A b \in T.tbl[y] : x <= b
    BY <1>1, <1>6, LowestBit
  <1>8. Highest(T) = y * Width + x
    BY DEF Highest
  <1> HIDE DEF x, y
  <1>9. x \in BitSet
    BY <1>6, <1>7
  <1>10. Highest(T) \in Members(T)
    BY <1>6, <1>7, <1>8, <1>9, Places DEF Members, Has
  <1>11. ASSUME NEW p \in Members(T)
         PROVE  Highest(T) <= p
    <2>1. /\ Y(p) \in Nat /\ X(p) \in Nat /\ y \in Nat /\ x \in 0 .. Width - 1
          /\ p = Y(p) * Width + X(p) /\ y <= Y(p) /\ (y = Y(p) => x <= X(p))
      BY <1>1, <1>3, <1>5, <1>6, <1>7, <1>9, Places DEF BitSet, RowSet
    <2> DEFINE q == Y(p)
               r == X(p)
    <2> HIDE DEF q, r
    <2>2. q \in Nat /\ r \in Nat /\ p = q * Width + r /\ y <= q /\ (y = q => x <= r)
      BY <2>1 DEF q, r
    <2>3. CASE y = q
      BY <1>1, <1>8, <2>1, <2>2, <2>3
    <2>4. CASE y + 1 <= q
      <3>1. (q - y - 1) * Width >= 0
        BY <1>1, <2>1, <2>2, <2>4
      <3>2. (q - y - 1) * Width = q * Width - y * Width - Width
        BY <1>1, <2>1, <2>2
      <3>3. q * Width \in Nat /\ y * Width \in Nat
        BY <1>1, <2>1, <2>2
      <3> QED
        BY <1>1, <1>8, <2>1, <2>2, <3>1, <3>2, <3>3
    <2> QED
      BY <2>1, <2>2, <2>3, <2>4
  <1> QED
    BY <1>10, <1>11

LEMMA HighestUnique ==
  ASSUME NEW T \in Table, WellFormed(T), NEW p \in Members(T), \A q \in Members(T) : p <= q
  PROVE  Highest(T) = p
  <1>1. Highest(T) \in Members(T) /\ Highest(T) <= p /\ p <= Highest(T)
    BY HighestFirst
  <1>2. Highest(T) \in Nat /\ p \in Nat
    <2>1. Members(T) \subseteq Prios /\ Prios \subseteq Nat
      BY MembersPrios, Places
    <2> QED
      BY <1>1, <2>1
  <1> QED
    BY <1>1, <1>2

LEMMA EmptyIsNone ==
  ASSUME NEW T \in Table, WellFormed(T) PROVE IsEmptyTable(T) <=> Members(T) = {}
  <1>1. ASSUME NEW y \in T.grp
        PROVE  Members(T) # {}
    <2>1. y \in RowSet /\ T.tbl[y] # {} /\ T.tbl[y] \subseteq BitSet
      BY DEF WellFormed, Table
    <2>2. PICK x \in T.tbl[y] : x \in BitSet
      BY <2>1
    <2>3. y * Width + x \in Prios /\ Has(T, y * Width + x)
      BY <2>1, <2>2, Places DEF Has
    <2> QED
      BY <2>3 DEF Members
  <1>2. ASSUME NEW p \in Members(T)
        PROVE  T.grp # {}
    BY Places DEF Members, Has, WellFormed
  <1> QED
    BY <1>1, <1>2 DEF IsEmptyTable

(***************************************************************************)
(* The invariant.                                                          *)
(***************************************************************************)
TCBFields  == {"prio", "stat", "pend", "dly", "event", "multi", "msg", "node", "flagsRdy", "delReq"}
ECBFields  == {"type", "cnt", "pip", "ptr", "wait"}
FlagFields == {"type", "flags", "wait"}

(* The shape of kernel data k. *)
Data(k) ==
  /\ DOMAIN k = Fields
  /\ DOMAIN k.tcb = TCBs
  /\ \A t \in TCBs : DOMAIN k.tcb[t] = TCBFields /\ k.tcb[t].prio \in Prios
  /\ DOMAIN k.prioTbl = Prios
  /\ \A p \in Prios : k.prioTbl[p] \in TCBs \cup {None, Reserved}
  /\ k.rdy \in Table
  /\ DOMAIN k.event = EventIds
  /\ \A e \in EventIds : DOMAIN k.event[e] = ECBFields /\ k.event[e].wait \in Table
  /\ DOMAIN k.flag = FlagIds
  /\ \A g \in FlagIds : DOMAIN k.flag[g] = FlagFields
  /\ k.list \subseteq TCBs /\ k.cur \in TCBs /\ k.lock \in Nat

(* The steps a task may have left, and the wait it then comes back from:   *)
(* Sched stands for none.                                                  *)
PendStep  == [op : {"pend"}, event : EventIds, type : {"SEM", "MBOX", "Q", "MUTEX"}]
MultiStep == [op : {"multi"}, events : SUBSET EventIds]
FlagStep  == [op : {"flag"}, grp : FlagIds, cond : Conditions, consume : BOOLEAN]
WaitStep  == PendStep \cup MultiStep \cup FlagStep
OtherStep == [op : {"OS_TCBInit", "rollback"}, prio : Prios]
               \cup [op : {"link", "OS_Dummy"}, tcb : TCBs, prio : Prios]
               \cup [op : {"OSQCreate"}, event : EventIds] \cup [op : {"OSMemCreate"}]
Steps(s) == \/ s = <<>> \/ s = <<Sched>>
            \/ \E w \in WaitStep : s = <<w>> \/ s = <<Sched, w>>
            \/ \E w \in OtherStep : s = <<w>>

WaitOps   == {"pend", "multi", "flag"}
WaitOf(s) == IF s # <<>> /\ s[Len(s)].op \in WaitOps THEN s[Len(s)] ELSE Sched
Waiting   == [t \in TCBs |-> WaitOf(pc[t])]
At(t)     == IF pc[t] = <<>> THEN "none" ELSE Head(pc[t]).op

PendEvents(w) == IF w.op = "pend" THEN {w.event} ELSE IF w.op = "multi" THEN w.events ELSE {}

(* A control block x that waits; that is in the wait lists of what it      *)
(* waits, or waited, for; that may run.                                    *)
Waits(x)    == /\ x.stat \cap OS_STAT_PEND_ANY # {}
               /\ x.multi # {} => x.event = None
Listed(x)   == Waits(x) \/ x.pend = "TO"
Runnable(x) == ~Suspended(x) /\ x.dly = 0 /\ ~Waits(x)

(* The control block x of a task that comes back from w. *)
Local(x, w) ==
  /\ Waits(x) => x.pend = "OK"
  /\ w.op = "pend" =>
       /\ x.event = w.event /\ x.multi = {} /\ x.node = None
       /\ x.stat \subseteq {w.type, "SUSPEND"}
       /\ ~Waits(x) => x.dly = 0
  /\ w.op = "multi" =>
       /\ x.multi = w.events /\ w.events # {} /\ x.node = None
       /\ x.event \in w.events \cup {None}
       /\ x.stat \subseteq {"SEM", "MBOX", "Q", "MULTI"}
       /\ ~Waits(x) => x.dly = 0
       /\ x.event # None => x.pend # "TO"
       /\ x.event = None => Listed(x)
  /\ w.op = "flag" =>
       /\ x.event = None /\ x.multi = {}
       /\ x.stat \subseteq {"FLAG", "SUSPEND"}
       /\ ~Waits(x) => x.dly = 0
       /\ x.node = IF Listed(x) THEN [grp |-> w.grp, cond |-> w.cond] ELSE None
       /\ x.pend # "ABORT"
  /\ w.op \notin WaitOps =>
       /\ x.event = None /\ x.multi = {} /\ x.node = None
       /\ x.stat \subseteq {"SUSPEND"} /\ x.pend = "OK"

(* Task t with wait w: where k has it. *)
TaskOK(k, w, t) ==
  LET x == k.tcb[t]
  IN  /\ w \in WaitStep \cup {Sched}
      /\ k.prioTbl[x.prio] = t
      /\ Local(x, w)
      /\ x.prio \in Members(k.rdy) <=> Runnable(x)
      /\ \A e \in EventIds : x.prio \in Waiters(k, e) <=> e \in PendEvents(w) /\ Listed(x)
      /\ \A g \in FlagIds :
           t \in k.flag[g].wait <=> w.op = "flag" /\ w.grp = g /\ Listed(x)
      /\ w.op = "multi" => \A e \in w.events : k.event[e].type \in {"SEM", "MBOX", "Q"}
      /\ Listed(x) => /\ w.op = "pend" => k.event[w.event].type = w.type
                      /\ w.op = "flag" => k.flag[w.grp].type = "FLAG"

(* The priority p is that of a task of L. *)
Holder(k, L, p) == k.prioTbl[p] \in L /\ k.tcb[k.prioTbl[p]].prio = p

(* The tasks L and nobody else are in the tables of k, and where they      *)
(* belong.                                                                 *)
Core(k, L, w) ==
  /\ L \subseteq TCBs
  /\ \A t \in L : TaskOK(k, w[t], t)
  /\ \A p \in Members(k.rdy) : Holder(k, L, p)
  /\ \A e \in EventIds : \A p \in Waiters(k, e) : Holder(k, L, p)
  /\ \A g \in FlagIds : k.flag[g].wait \subseteq L

(* A control block nobody waits with. *)
Fresh(x) == x.event = None /\ x.multi = {} /\ x.node = None
Calm(x)  == x.stat = {} /\ x.dly = 0 /\ x.pend = "OK" /\ x.node = None

(* The tasks that exist, and the one that is being deleted. *)
Lists ==
  /\ Idle \in os.list /\ os.tcb[Idle].prio = OS_TASK_IDLE_PRIO /\ pc[Idle] = <<>>
  /\ \A t \in os.list : os.prioTbl[os.tcb[t].prio] = t
  /\ \A p \in Prios : os.prioTbl[p] \in TCBs =>
       os.prioTbl[p] \in os.list /\ (~UsesMutexes(app) => os.tcb[os.prioTbl[p]].prio = p)
  /\ \A t \in TCBs \ os.list : At(t) \in {"none", "OS_Sched"} /\ Waiting[t] = Sched
  /\ \A t \in TCBs : At(t) = "OS_Dummy" =>
       LET d == Head(pc[t])
       IN  /\ t = os.cur /\ os.lock > 0 /\ d.tcb \in os.list \ {Idle}
           /\ os.tcb[d.tcb].prio = d.prio /\ Calm(os.tcb[d.tcb])
           /\ d.tcb = t => os.lock = 1
           /\ d.tcb # t => At(d.tcb) \in {"none", "OS_Sched"} \cup WaitOps

(* The tasks that are being created, and the free control blocks. *)
CreationOps == {"OS_TCBInit", "link", "rollback"}
Creations ==
  /\ \A t \in TCBs : At(t) \in CreationOps => os.prioTbl[Head(pc[t]).prio] = Reserved
  /\ \A t, u \in TCBs : At(t) \in CreationOps /\ At(u) \in CreationOps /\ Head(pc[t]).prio = Head(pc[u]).prio
                          => t = u
  /\ \A t \in TCBs : At(t) = "link" =>
       LET c == Head(pc[t])
       IN  /\ c.tcb \in TCBs \ os.list /\ os.tcb[c.tcb].prio = c.prio
           /\ Calm(os.tcb[c.tcb]) /\ Fresh(os.tcb[c.tcb])
           /\ \A i \in DOMAIN os.free : os.free[i] # c.tcb
  /\ \A t, u \in TCBs : At(t) = "link" /\ At(u) = "link" /\ Head(pc[t]).tcb = Head(pc[u]).tcb => t = u
  /\ os.free \in Seq(TCBs \ os.list) /\ Distinct(os.free)

(* The event control blocks and flag groups that are free or are being     *)
(* filled.                                                                 *)
Pools ==
  /\ os.freeEvents \in Seq(EventIds) /\ Distinct(os.freeEvents)
  /\ \A i \in DOMAIN os.freeEvents : os.event[os.freeEvents[i]].type = "UNUSED"
  /\ \A t \in TCBs : At(t) = "OSQCreate" =>
       LET e == Head(pc[t]).event
       IN  os.event[e].type = "UNUSED" /\ \A i \in DOMAIN os.freeEvents : os.freeEvents[i] # e
  /\ \A t, u \in TCBs : At(t) = "OSQCreate" /\ At(u) = "OSQCreate"
                          /\ Head(pc[t]).event = Head(pc[u]).event => t = u
  /\ os.freeFlags \in Seq(FlagIds) /\ Distinct(os.freeFlags)
  /\ \A i \in DOMAIN os.freeFlags : os.flag[os.freeFlags[i]].type = "UNUSED"

(* The running task has stopped itself and is about to leave the CPU.      *)
Stopping == \/ At(os.cur) = "OS_Sched" /\ os.lock = 0
            \/ At(os.cur) = "OS_Dummy" /\ Head(pc[os.cur]).tcb = os.cur
Excepted == app.noSched \/ "OSMutexPost" \in app.calls

Running ==
  /\ OS_TASK_IDLE_PRIO \in Members(os.rdy)
  /\ ~os.running => isr = "none" /\ os.lock = 0 /\ os.cur = Idle /\ \A t \in TCBs : pc[t] = <<>>
  /\ os.running =>
       /\ ~Stopping => os.cur \in Live /\ Runnable(os.tcb[os.cur])
       /\ \/ os.cur \in os.list /\ os.tcb[os.cur].prio = os.prioCur
          \/ At(os.cur) = "OS_Sched" /\ os.lock = 0 /\ os.prioCur \in Prios
               /\ os.prioTbl[os.prioCur] = None
       /\ isr = "none" /\ os.lock = 0 /\ At(os.cur) # "OS_Sched" /\ ~Excepted
            => os.prioCur = Highest(os.rdy)

TInv ==
  /\ Data(os)
  /\ DOMAIN pc = TCBs /\ \A t \in TCBs : Steps(pc[t])
  /\ Core(os, Live, Waiting)
  /\ Lists /\ Creations /\ Pools /\ Running

(***************************************************************************)
(* Kernel data l that differs from k, but for what TInv does not read, at  *)
(* the tasks S only, in their waits.                                       *)
(***************************************************************************)
Alike(x, y) ==
  /\ x.prio = y.prio /\ x.stat = y.stat /\ x.pend = y.pend /\ x.dly = y.dly
  /\ x.event = y.event /\ x.multi = y.multi /\ x.node = y.node

Elsewhere(k, l, S) ==
  /\ l.prioTbl = k.prioTbl /\ l.list = k.list /\ l.free = k.free /\ l.cur = k.cur
  /\ l.lock = k.lock /\ l.prioCur = k.prioCur /\ l.running = k.running
  /\ \A t \in TCBs : l.tcb[t].prio = k.tcb[t].prio
  /\ \A t \in TCBs \ S : Alike(k.tcb[t], l.tcb[t])
  /\ \A p \in Prios : (\A t \in S : k.tcb[t].prio # p) =>
       /\ p \in Members(l.rdy) <=> p \in Members(k.rdy)
       /\ \A e \in EventIds : p \in Waiters(l, e) <=> p \in Waiters(k, e)
  /\ \A g \in FlagIds : l.flag[g].wait \ S = k.flag[g].wait \ S

SamePools(k, l) ==
  /\ l.freeEvents = k.freeEvents /\ l.freeFlags = k.freeFlags
  /\ \A e \in EventIds : l.event[e].type = k.event[e].type
  /\ \A g \in FlagIds : l.flag[g].type = k.flag[g].type

LEMMA WaitTypes ==
  ASSUME NEW w \in WaitStep \cup {Sched}
  PROVE  /\ w.op \in {"pend", "multi", "flag", "OS_Sched"}
         /\ w.op = "pend" => w.event \in EventIds /\ w.type \in {"SEM", "MBOX", "Q", "MUTEX"}
         /\ w.op = "multi" => w.events \subseteq EventIds
         /\ w.op = "flag" => w.grp \in FlagIds /\ w.cond \in Conditions
         /\ PendEvents(w) \subseteq EventIds
         /\ w \in WaitStep <=> w.op \in WaitOps
  BY DEF WaitStep, PendStep, MultiStep, FlagStep, Sched, PendEvents, WaitOps

LEMMA AlikeTask ==
  ASSUME NEW x, NEW y, Alike(x, y)
  PROVE  /\ Waits(x) <=> Waits(y)
         /\ Listed(x) <=> Listed(y)
         /\ Runnable(x) <=> Runnable(y)
         /\ \A w : Local(x, w) <=> Local(y, w)
         /\ Calm(x) <=> Calm(y)
         /\ Fresh(x) <=> Fresh(y)
  <1>1. Waits(x) <=> Waits(y)
    BY DEF Alike, Waits
  <1>2. Listed(x) <=> Listed(y)
    BY <1>1 DEF Alike, Listed
  <1>3. Runnable(x) <=> Runnable(y)
    BY <1>1 DEF Alike, Runnable, Suspended
  <1>4. ASSUME NEW w PROVE Local(x, w) <=> Local(y, w)
    BY <1>1, <1>2 DEF Alike, Local
  <1> QED
    BY <1>1, <1>2, <1>3, <1>4 DEF Alike, Calm, Fresh

LEMMA ElsewhereCore ==
  ASSUME NEW k, NEW l, NEW L, NEW w, NEW v, NEW S, S \subseteq L,
         Data(k), Core(k, L, w), Data(l), Elsewhere(k, l, S), SamePools(k, l),
         \A t \in L \ S : v[t] = w[t],
         \A t \in S : TaskOK(l, v[t], t),
         \A g \in FlagIds : l.flag[g].wait \subseteq L
  PROVE  Core(l, L, v)
  <1>1. L \subseteq TCBs
    BY DEF Core
  <1>2. ASSUME NEW p \in Prios, Holder(k, L, p) PROVE Holder(l, L, p)
    BY <1>1, <1>2 DEF Holder, Elsewhere
  <1>3. ASSUME NEW t \in S PROVE Holder(l, L, k.tcb[t].prio)
    BY <1>1, <1>3 DEF Holder, Elsewhere, Core, TaskOK
  <1>4. ASSUME NEW t \in L \ S PROVE TaskOK(l, v[t], t)
    <2> DEFINE x == k.tcb[t]
               y == l.tcb[t]
    <2>1. t \in TCBs /\ v[t] = w[t] /\ Alike(x, y) /\ TaskOK(k, w[t], t)
      BY <1>1 DEF Core, Elsewhere
    <2>2. x.prio \in Prios
      BY <2>1 DEF Data
    <2>3. \A u \in S : k.tcb[u].prio # x.prio
      BY <1>1, <2>1 DEF Core, TaskOK
    <2>4. l.prioTbl[y.prio] = t /\ y.prio = x.prio
      BY <2>1 DEF TaskOK, Elsewhere
    <2>5. /\ y.prio \in Members(l.rdy) <=> x.prio \in Members(k.rdy)
          /\ \A e \in EventIds : y.prio \in Waiters(l, e) <=> x.prio \in Waiters(k, e)
      BY <2>2, <2>3, <2>4 DEF Elsewhere
    <2>6. \A g \in FlagIds : t \in l.flag[g].wait <=> t \in k.flag[g].wait
      BY DEF Elsewhere
    <2>7. Listed(x) <=> Listed(y)
      BY <2>1, AlikeTask
    <2>8. /\ w[t].op = "multi" => \A e \in w[t].events : l.event[e].type \in {"SEM", "MBOX", "Q"}
          /\ Listed(y) => /\ w[t].op = "pend" => l.event[w[t].event].type = w[t].type
                          /\ w[t].op = "flag" => l.flag[w[t].grp].type = "FLAG"
      <3>1. w[t] \in WaitStep \cup {Sched}
        BY <2>1 DEF TaskOK
      <3> QED
        BY <2>1, <2>7, <3>1, WaitTypes DEF SamePools, TaskOK
    <2> QED
      BY <2>1, <2>4, <2>5, <2>6, <2>7, <2>8, AlikeTask DEF TaskOK
  <1>5. ASSUME NEW p \in Members(l.rdy) PROVE Holder(l, L, p)
    BY <1>2, <1>3, MembersPrios DEF Elsewhere, Core
  <1>6. ASSUME NEW e \in EventIds, NEW p \in Waiters(l, e) PROVE Holder(l, L, p)
    BY <1>2, <1>3, MembersPrios DEF Elsewhere, Core, Waiters
  <1> QED
    BY <1>1, <1>4, <1>5, <1>6 DEF Core

(***************************************************************************)
(* The shape of an operator that changes the waits of the tasks S.         *)
(***************************************************************************)
Rest(k, l) ==
  /\ DOMAIN l = Fields
  /\ l.prioTbl = k.prioTbl /\ l.list = k.list /\ l.free = k.free
  /\ l.freeEvents = k.freeEvents /\ l.freeFlags = k.freeFlags
  /\ l.cur = k.cur /\ l.prioCur = k.prioCur /\ l.lock = k.lock /\ l.running = k.running

Touches(k, l, S) ==
  /\ Rest(k, l)
  /\ DOMAIN l.tcb = TCBs
  /\ \A t \in TCBs : DOMAIN l.tcb[t] = TCBFields /\ l.tcb[t].prio = k.tcb[t].prio
  /\ \A t \in TCBs \ S : Alike(k.tcb[t], l.tcb[t])
  /\ l.rdy \in Table
  /\ \A p \in Prios : (\A t \in S : k.tcb[t].prio # p)
                        => (p \in Members(l.rdy) <=> p \in Members(k.rdy))
  /\ DOMAIN l.event = EventIds
  /\ \A e \in EventIds :
       /\ DOMAIN l.event[e] = ECBFields
       /\ l.event[e].type = k.event[e].type
       /\ l.event[e].wait \in Table
       /\ \A p \in Prios : (\A t \in S : k.tcb[t].prio # p)
                             => (p \in Waiters(l, e) <=> p \in Waiters(k, e))
  /\ DOMAIN l.flag = FlagIds
  /\ \A g \in FlagIds : /\ DOMAIN l.flag[g] = FlagFields
                        /\ l.flag[g].type = k.flag[g].type
                        /\ l.flag[g].wait \ S = k.flag[g].wait \ S

LEMMA RestTrans ==
  ASSUME NEW k, NEW l, NEW m, Rest(k, l), Rest(l, m) PROVE Rest(k, m)
  BY DEF Rest

LEMMA TouchesElsewhere ==
  ASSUME NEW k, NEW l, NEW S, S \subseteq TCBs, Data(k), Touches(k, l, S)
  PROVE  Data(l) /\ Elsewhere(k, l, S) /\ SamePools(k, l)
  <1>1. Data(l)
    BY DEF Touches, Data, Rest
  <1>2. Elsewhere(k, l, S)
    BY DEF Touches, Elsewhere, Rest
  <1>3. SamePools(k, l)
    BY DEF Touches, SamePools, Rest
  <1> QED
    BY <1>1, <1>2, <1>3

Only(t) == {t}
IsReady(k, t)   == k.tcb[t].prio \in Members(k.rdy)
SameECB(k, l, e) == l.event[e] = k.event[e]
IsIn(k, t, e)   == k.tcb[t].prio \in Waiters(k, e)
RunsIn(k, t) == t = k.cur

LEMMA TouchesTrans ==
  ASSUME NEW k, NEW l, NEW m, NEW S, S \subseteq TCBs, Touches(k, l, S), Touches(l, m, S)
  PROVE  Touches(k, m, S)
  <1>1. Rest(k, m)
    BY RestTrans DEF Touches
  <1>2. \A t \in TCBs \ S : Alike(k.tcb[t], m.tcb[t])
    BY DEF Touches, Alike
  <1>3. \A t \in TCBs : DOMAIN m.tcb[t] = TCBFields /\ m.tcb[t].prio = k.tcb[t].prio
    BY DEF Touches
  <1>4. \A p \in Prios : (\A t \in S : k.tcb[t].prio # p) => \A t \in S : l.tcb[t].prio # p
    BY DEF Touches
  <1> QED
    BY <1>1, <1>2, <1>3, <1>4 DEF Touches

LEMMA StartPendTouches ==
  ASSUME NEW k, Data(k), NEW bits, NEW timeout, NEW l, l = StartPend(k, bits, timeout),
         NEW c, RunsIn(k, c)
  PROVE  /\ Touches(k, l, Only(c)) /\ l.rdy = k.rdy /\ l.event = k.event /\ l.flag = k.flag
         /\ l.tcb[c].stat = k.tcb[c].stat \cup bits /\ l.tcb[c].pend = "OK"
         /\ l.tcb[c].dly = timeout /\ l.tcb[c].event = k.tcb[c].event
         /\ l.tcb[c].multi = k.tcb[c].multi /\ l.tcb[c].node = k.tcb[c].node
  <1> DEFINE x == k.tcb[c]
             y == [x EXCEPT !.stat = @ \cup bits, !.pend = "OK", !.dly = timeout]
  <1>1. DOMAIN k = Fields /\ c \in TCBs /\ DOMAIN k.tcb = TCBs /\ DOMAIN x = TCBFields
    BY DEF Data, RunsIn
  <1>2. l = [k EXCEPT !.tcb[c] = y]
    BY DEF StartPend, Data, RunsIn
  <1>3. /\ DOMAIN y = TCBFields
        /\ y.stat = x.stat \cup bits /\ y.pend = "OK" /\ y.dly = timeout
        /\ y.event = x.event /\ y.multi = x.multi /\ y.node = x.node /\ y.prio = x.prio
    BY <1>1 DEF TCBFields
  <1> HIDE DEF y
  <1>4. /\ Rest(k, l) /\ l.rdy = k.rdy /\ l.event = k.event /\ l.flag = k.flag
        /\ DOMAIN l.tcb = TCBs /\ l.tcb[c] = y /\ \A t \in TCBs : t # c => l.tcb[t] = k.tcb[t]
    BY <1>1, <1>2 DEF Fields, Rest
  <1>5. \A t \in TCBs \ Only(c) : Alike(k.tcb[t], l.tcb[t])
    BY <1>4 DEF Alike, Only
  <1>6. \A t \in TCBs : DOMAIN l.tcb[t] = TCBFields /\ l.tcb[t].prio = k.tcb[t].prio
    BY <1>3, <1>4 DEF Data
  <1>7. Touches(k, l, Only(c))
    BY <1>4, <1>5, <1>6 DEF Data, Touches, Waiters
  <1> QED
    BY <1>3, <1>4, <1>7

LEMMA WaitTouches ==
  ASSUME NEW k, Data(k), NEW e \in EventIds, NEW l, l = OS_EventTaskWait(k, e),
         NEW c, RunsIn(k, c)
  PROVE  /\ Touches(k, l, Only(c)) /\ l.flag = k.flag
         /\ l.tcb[c].stat = k.tcb[c].stat /\ l.tcb[c].pend = k.tcb[c].pend
         /\ l.tcb[c].dly = k.tcb[c].dly /\ l.tcb[c].event = e
         /\ l.tcb[c].multi = k.tcb[c].multi /\ l.tcb[c].node = k.tcb[c].node
         /\ ~IsReady(l, c) /\ IsIn(l, c, e)
         /\ \A f \in EventIds : f # e => SameECB(k, l, f)
  <1> DEFINE p == k.tcb[c].prio
             y == [k.tcb[c] EXCEPT !.event = e]
             z == [k.event[e] EXCEPT !.wait = Insert(@, {p})]
             m == [k EXCEPT !.tcb[c] = y]
             n == [m EXCEPT !.event[e] = z]
  <1>1. /\ DOMAIN k = Fields /\ c \in TCBs /\ DOMAIN k.tcb = TCBs /\ DOMAIN k.tcb[c] = TCBFields
        /\ DOMAIN k.event = EventIds /\ DOMAIN k.event[e] = ECBFields
        /\ p \in Prios /\ k.rdy \in Table /\ k.event[e].wait \in Table
    BY DEF Data, RunsIn
  <1>2. /\ DOMAIN y = TCBFields /\ y.event = e
        /\ y.stat = k.tcb[c].stat /\ y.pend = k.tcb[c].pend /\ y.dly = k.tcb[c].dly
        /\ y.multi = k.tcb[c].multi /\ y.node = k.tcb[c].node /\ y.prio = p
    BY <1>1 DEF TCBFields
  <1>3. /\ DOMAIN z = ECBFields /\ z.type = k.event[e].type
        /\ z.wait = Insert(k.event[e].wait, {p})
    BY <1>1 DEF ECBFields
  <1>4. l = MakeUnready(n, {c})
    <2>1. [k EXCEPT !.tcb[c].event = e, !.event[e].wait = Insert(@, {p})] = n
      BY <1>1 DEF Fields
    <2> QED
      BY <2>1 DEF OS_EventTaskWait, RunsIn
  <1> HIDE DEF y, z
  <1>5. /\ Rest(k, n) /\ n.rdy = k.rdy /\ n.flag = k.flag
        /\ DOMAIN n.tcb = TCBs /\ n.tcb[c] = y /\ \A t \in TCBs : t # c => n.tcb[t] = k.tcb[t]
        /\ DOMAIN n.event = EventIds /\ n.event[e] = z
        /\ \A f \in EventIds : f # e => n.event[f] = k.event[f]
    BY <1>1 DEF Fields, Rest
  <1> HIDE DEF n
  <1>6. /\ Rest(k, l) /\ l.tcb = n.tcb /\ l.event = n.event /\ l.flag = n.flag
        /\ l.rdy = Delete(k.rdy, {p})
    <2>1. /\ Rest(n, l) /\ l.tcb = n.tcb /\ l.event = n.event /\ l.flag = n.flag
          /\ l.rdy = Delete(n.rdy, {n.tcb[c].prio})
      BY <1>4, <1>5 DEF MakeUnready, Rest, Fields
    <2> QED
      BY <1>2, <1>5, <2>1, RestTrans
  <1>7. l.rdy \in Table /\ \A q \in Prios : q \in Members(l.rdy) <=> q \in Members(k.rdy) /\ q # p
    BY <1>1, <1>6, DeleteMembers
  <1>8. z.wait \in Table /\ \A q \in Prios : q \in Members(z.wait) <=> q \in Waiters(k, e) \/ q = p
    BY <1>1, <1>3, InsertMembers DEF Waiters
  <1>9. \A t \in TCBs \ Only(c) : Alike(k.tcb[t], l.tcb[t])
    BY <1>5, <1>6 DEF Alike, Only
  <1>10. \A t \in TCBs : DOMAIN l.tcb[t] = TCBFields /\ l.tcb[t].prio = k.tcb[t].prio
    BY <1>2, <1>5, <1>6 DEF Data
  <1>11. c \in Only(c)
    BY DEF Only
  <1>12. ASSUME NEW f \in EventIds
         PROVE  /\ DOMAIN l.event[f] = ECBFields /\ l.event[f].type = k.event[f].type
                /\ l.event[f].wait \in Table
                /\ \A q \in Prios : (\A t \in Only(c) : k.tcb[t].prio # q)
                                      => (q \in Waiters(l, f) <=> q \in Waiters(k, f))
    <2>1. CASE f = e
      BY <1>3, <1>5, <1>6, <1>8, <1>11, <2>1 DEF Waiters
    <2>2. CASE f # e
      BY <1>5, <1>6, <2>2 DEF Data, Waiters
    <2> QED
      BY <2>1, <2>2
  <1>13. Touches(k, l, Only(c))
    <2>1. \A q \in Prios : (\A t \in Only(c) : k.tcb[t].prio # q)
                            => (q \in Members(l.rdy) <=> q \in Members(k.rdy))
      BY <1>7, <1>11
    <2>2. DOMAIN l.tcb = TCBs /\ DOMAIN l.event = EventIds /\ l.flag = k.flag
      BY <1>5, <1>6
    <2> QED
      BY <1>6, <1>7, <1>9, <1>10, <1>12, <2>1, <2>2 DEF Data, Touches
  <1>14. /\ l.tcb[c] = y /\ l.flag = k.flag /\ p \notin Members(l.rdy) /\ p \in Waiters(l, e)
         /\ \A f \in EventIds : f # e => l.event[f] = k.event[f]
    BY <1>1, <1>5, <1>6, <1>7, <1>8 DEF Waiters
  <1>15. ~IsReady(l, c) /\ IsIn(l, c, e)
    BY <1>2, <1>14 DEF IsReady, IsIn
  <1> QED
    BY <1>2, <1>13, <1>14, <1>15 DEF SameECB

LEMMA OneCore ==
  ASSUME NEW k, NEW l, NEW L, NEW w, NEW v, NEW c \in L, Data(k), Core(k, L, w),
         Touches(k, l, Only(c)), \A t \in L : t # c => v[t] = w[t], TaskOK(l, v[c], c)
  PROVE  Data(l) /\ Elsewhere(k, l, Only(c)) /\ SamePools(k, l) /\ Core(l, L, v)
  <1>1. Only(c) \subseteq L /\ L \subseteq TCBs
    BY DEF Only, Core
  <1>2. Data(l) /\ Elsewhere(k, l, Only(c)) /\ SamePools(k, l)
    BY <1>1, TouchesElsewhere
  <1>3. \A t \in L \ Only(c) : v[t] = w[t]
    BY DEF Only
  <1>4. \A t \in Only(c) : TaskOK(l, v[t], t)
    BY DEF Only
  <1>5. \A g \in FlagIds : l.flag[g].wait \subseteq L
    BY <1>1 DEF Core, Touches
  <1> QED
    BY <1>1, <1>2, <1>3, <1>4, <1>5, ElsewhereCore

(***************************************************************************)
(* The running task starts to wait.                                        *)
(***************************************************************************)
(* What is known of a running task, from k on.                             *)
LEMMA RunningTask ==
  ASSUME NEW k, NEW L, NEW w, NEW c, Core(k, L, w), c \in L, w[c] = Sched, Runnable(k.tcb[c])
  PROVE  /\ k.tcb[c].stat = {} /\ k.tcb[c].dly = 0 /\ k.tcb[c].pend = "OK" /\ k.tcb[c].event = None
         /\ k.tcb[c].multi = {} /\ k.tcb[c].node = None
         /\ k.prioTbl[k.tcb[c].prio] = c
         /\ k.tcb[c].prio \in Members(k.rdy)
         /\ \A e \in EventIds : k.tcb[c].prio \notin Waiters(k, e)
         /\ \A g \in FlagIds : c \notin k.flag[g].wait
  <1>1. TaskOK(k, Sched, c) /\ Sched.op = "OS_Sched"
    BY DEF Core, Sched
  <1> QED
    BY <1>1 DEF TaskOK, Local, WaitOps, Runnable, Suspended, PendEvents

LEMMA BlockCore ==
  ASSUME NEW k, NEW L, NEW w, NEW v, NEW c, RunsIn(k, c), Data(k), Core(k, L, w),
         c \in L, w[c] = Sched, Runnable(k.tcb[c]),
         NEW e \in EventIds, NEW type \in {"SEM", "MBOX", "Q", "MUTEX"}, k.event[e].type = type,
         NEW timeout, NEW bits, bits = {type},
         \A t \in L : t # c => v[t] = w[t],
         v[c] \in PendStep, v[c].event = e, v[c].type = type,
         NEW m, m = StartPend(k, bits, timeout), NEW l, l = OS_EventTaskWait(m, e)
  PROVE  Data(l) /\ Elsewhere(k, l, Only(c)) /\ SamePools(k, l) /\ Core(l, L, v)
  <1> DEFINE x == k.tcb[c]
             y == l.tcb[c]
  <1>1. Touches(k, m, Only(c)) /\ m.event = k.event /\ m.flag = k.flag
        /\ m.tcb[c].stat = x.stat \cup bits /\ m.tcb[c].pend = "OK"
        /\ m.tcb[c].multi = x.multi /\ m.tcb[c].node = x.node
    BY StartPendTouches
  <1>2. c \in TCBs /\ L \subseteq TCBs /\ x.prio \in Prios /\ Only(c) \subseteq TCBs
    BY DEF Data, Core, Only
  <1>3. Data(m) /\ RunsIn(m, c) /\ m.tcb[c].prio = x.prio
    BY <1>1, <1>2, TouchesElsewhere DEF Elsewhere, RunsIn
  <1>4. /\ Touches(m, l, Only(c)) /\ l.flag = m.flag
        /\ y.stat = m.tcb[c].stat /\ y.pend = m.tcb[c].pend /\ y.event = e
        /\ y.multi = m.tcb[c].multi /\ y.node = m.tcb[c].node
    BY <1>3, WaitTouches
  <1>41. ~IsReady(l, c) /\ IsIn(l, c, e)
    BY <1>3, WaitTouches
  <1>42. \A f \in EventIds : f # e => SameECB(m, l, f)
    BY <1>3, WaitTouches
  <1>5. Touches(k, l, Only(c))
    BY <1>1, <1>2, <1>4, TouchesTrans
  <1>6. y.prio = x.prio /\ l.prioTbl = k.prioTbl /\ l.event[e].type = type
    BY <1>2, <1>5 DEF Touches, Rest
  <1>7. TaskOK(l, v[c], c)
    <2> HIDE DEF x, y
    <2>1. /\ x.stat = {} /\ x.multi = {} /\ x.node = None /\ k.prioTbl[x.prio] = c
          /\ \A f \in EventIds : x.prio \notin Waiters(k, f)
          /\ \A g \in FlagIds : c \notin k.flag[g].wait
      BY RunningTask DEF x
    <2>2. v[c] \in WaitStep /\ v[c].op = "pend" /\ PendEvents(v[c]) = {e}
      BY DEF WaitStep, PendStep, PendEvents
    <2>3. Waits(y) /\ Listed(y) /\ ~Runnable(y)
      BY <1>1, <1>4, <2>1 DEF Waits, Listed, Runnable, OS_STAT_PEND_ANY, x, y
    <2>0. y.stat = bits /\ y.pend = "OK" /\ y.event = e /\ y.multi = {} /\ y.node = None
      BY <1>1, <1>4, <2>1 DEF x, y
    <2>4. Local(y, v[c])
      BY <2>0, <2>2, <2>3 DEF Local, WaitOps
    <2>5. y.prio \notin Members(l.rdy)
      BY <1>41 DEF y, IsReady
    <2>6. \A f \in EventIds : y.prio \in Waiters(l, f) <=> f \in PendEvents(v[c])
      <3>1. x.prio \in Waiters(l, e)
        BY <1>6, <1>41 DEF x, y, IsIn
      <3>2. \A f \in EventIds : f # e => x.prio \notin Waiters(l, f)
        <4>1. \A f \in EventIds : f # e => l.event[f] = k.event[f]
          BY <1>1, <1>42 DEF SameECB
        <4>2. \A f \in EventIds : f # e => Waiters(l, f) = Waiters(k, f)
          BY <4>1 DEF Waiters
        <4> QED
          BY <2>1, <4>2
      <3> QED
        BY <1>6, <2>2, <3>1, <3>2 DEF x, y
    <2>7. \A g \in FlagIds : c \notin l.flag[g].wait
      BY <1>1, <1>4, <2>1
    <2> QED
      BY <1>6, <2>1, <2>2, <2>3, <2>4, <2>5, <2>6, <2>7 DEF TaskOK, x, y
  <1> QED
    BY <1>2, <1>5, <1>7, OneCore

LEMMA WaitMultiTouches ==
  ASSUME NEW k, Data(k), NEW E, NEW l, l = OS_EventTaskWaitMulti(k, E),
         NEW c, RunsIn(k, c)
  PROVE  /\ Touches(k, l, Only(c)) /\ l.flag = k.flag
         /\ l.tcb[c].stat = k.tcb[c].stat /\ l.tcb[c].pend = k.tcb[c].pend
         /\ l.tcb[c].dly = k.tcb[c].dly /\ l.tcb[c].event = None
         /\ l.tcb[c].multi = E /\ l.tcb[c].node = k.tcb[c].node
         /\ ~IsReady(l, c)
         /\ \A e \in EventIds : e \in E => IsIn(l, c, e)
         /\ \A e \in EventIds : e \notin E => SameECB(k, l, e)
  <1> DEFINE p == k.tcb[c].prio
             y == [k.tcb[c] EXCEPT !.event = None, !.multi = E]
             F == [e \in EventIds |-> IF e \in E THEN [k.event[e] EXCEPT !.wait = Insert(@, {p})]
                                      ELSE k.event[e]]
             n == [k EXCEPT !.tcb[c] = y, !.event = F]
  <1>1. /\ DOMAIN k = Fields /\ c \in TCBs /\ DOMAIN k.tcb = TCBs /\ DOMAIN k.tcb[c] = TCBFields
        /\ DOMAIN k.event = EventIds /\ p \in Prios /\ k.rdy \in Table
    BY DEF Data, RunsIn
  <1>2. /\ DOMAIN y = TCBFields /\ y.event = None
        /\ y.stat = k.tcb[c].stat /\ y.pend = k.tcb[c].pend /\ y.dly = k.tcb[c].dly
        /\ y.multi = E /\ y.node = k.tcb[c].node /\ y.prio = p
    BY <1>1 DEF TCBFields
  <1>4. l = MakeUnready(n, {c})
    <2>1. [k EXCEPT !.tcb[c].event = None, !.tcb[c].multi = E, !.event = F] = n
      <3> HIDE DEF F
      <3> QED
        BY <1>1 DEF Fields
    <2>2. OS_EventTaskWaitMulti(k, E) =
            MakeUnready([k EXCEPT !.tcb[c].event = None, !.tcb[c].multi = E, !.event = F], {c})
      BY DEF OS_EventTaskWaitMulti, RunsIn
    <2> HIDE DEF n
    <2> QED
      BY <2>1, <2>2
  <1>3. \A e \in EventIds :
          /\ e \in E => /\ DOMAIN F[e] = ECBFields /\ F[e].type = k.event[e].type
                        /\ F[e].wait = Insert(k.event[e].wait, {p})
          /\ e \notin E => F[e] = k.event[e]
    <2> HIDE DEF p
    <2> QED
      BY DEF ECBFields, Data
  <1>31. DOMAIN F = EventIds
    OBVIOUS
  <1> HIDE DEF y, F
  <1>5. /\ Rest(k, n) /\ n.rdy = k.rdy /\ n.flag = k.flag
        /\ DOMAIN n.tcb = TCBs /\ n.tcb[c] = y /\ \A t \in TCBs : t # c => n.tcb[t] = k.tcb[t]
        /\ n.event = F
    BY <1>1 DEF Fields, Rest
  <1> HIDE DEF n
  <1>6. /\ Rest(k, l) /\ l.tcb = n.tcb /\ l.event = F /\ l.flag = n.flag
        /\ l.rdy = Delete(k.rdy, {p})
    <2>1. /\ Rest(n, l) /\ l.tcb = n.tcb /\ l.event = n.event /\ l.flag = n.flag
          /\ l.rdy = Delete(n.rdy, {n.tcb[c].prio})
      BY <1>4, <1>5 DEF MakeUnready, Rest, Fields
    <2> QED
      BY <1>2, <1>5, <2>1, RestTrans
  <1>7. l.rdy \in Table /\ \A q \in Prios : q \in Members(l.rdy) <=> q \in Members(k.rdy) /\ q # p
    BY <1>1, <1>6, DeleteMembers
  <1>8. ASSUME NEW e \in EventIds, e \in E
        PROVE  /\ F[e].wait \in Table
               /\ \A q \in Prios : q \in Members(F[e].wait) <=> q \in Waiters(k, e) \/ q = p
    <2>1. F[e].wait = Insert(k.event[e].wait, {p}) /\ k.event[e].wait \in Table
      BY <1>3, <1>8 DEF Data
    <2> QED
      BY <1>1, <2>1, InsertMembers DEF Waiters
  <1>9. \A t \in TCBs \ Only(c) : Alike(k.tcb[t], l.tcb[t])
    BY <1>5, <1>6 DEF Alike, Only
  <1>10. \A t \in TCBs : DOMAIN l.tcb[t] = TCBFields /\ l.tcb[t].prio = k.tcb[t].prio
    BY <1>2, <1>5, <1>6 DEF Data
  <1>11. c \in Only(c)
    BY DEF Only
  <1>12. ASSUME NEW f \in EventIds
         PROVE  /\ DOMAIN l.event[f] = ECBFields /\ l.event[f].type = k.event[f].type
                /\ l.event[f].wait \in Table
                /\ \A q \in Prios : (\A t \in Only(c) : k.tcb[t].prio # q)
                                      => (q \in Waiters(l, f) <=> q \in Waiters(k, f))
    <2>1. CASE f \in E
      BY <1>3, <1>6, <1>8, <1>11, <2>1 DEF Waiters
    <2>2. CASE f \notin E
      BY <1>3, <1>6, <2>2 DEF Data, Waiters
    <2> QED
      BY <2>1, <2>2
  <1>13. Touches(k, l, Only(c))
    <2>1. \A q \in Prios : (\A t \in Only(c) : k.tcb[t].prio # q)
                            => (q \in Members(l.rdy) <=> q \in Members(k.rdy))
      BY <1>7, <1>11
    <2>2. DOMAIN l.tcb = TCBs /\ DOMAIN l.event = EventIds /\ l.flag = k.flag
      BY <1>5, <1>6, <1>31
    <2> QED
      BY <1>6, <1>7, <1>9, <1>10, <1>12, <2>1, <2>2 DEF Data, Touches
  <1>14. /\ l.tcb[c] = y /\ l.flag = k.flag /\ p \notin Members(l.rdy)
         /\ \A e \in EventIds : e \in E => p \in Waiters(l, e)
         /\ \A e \in EventIds : e \notin E => l.event[e] = k.event[e]
    BY <1>1, <1>3, <1>5, <1>6, <1>7, <1>8 DEF Waiters
  <1>15. ~IsReady(l, c) /\ \A e \in EventIds : e \in E => IsIn(l, c, e)
    BY <1>2, <1>14 DEF IsReady, IsIn
  <1> QED
    BY <1>2, <1>13, <1>14, <1>15 DEF SameECB

LEMMA BlockMultiCore ==
  ASSUME NEW k, NEW L, NEW w, NEW v, NEW c, RunsIn(k, c), Data(k), Core(k, L, w),
         c \in L, w[c] = Sched, Runnable(k.tcb[c]),
         NEW E \in SUBSET EventIds, E # {}, \A e \in E : k.event[e].type \in {"SEM", "MBOX", "Q"},
         NEW timeout, NEW bits, bits \subseteq {"SEM", "MBOX", "Q", "MULTI"},
         bits \cap OS_STAT_PEND_ANY # {},
         \A t \in L : t # c => v[t] = w[t],
         v[c] \in MultiStep, v[c].events = E,
         NEW m, m = StartPend(k, bits, timeout), NEW l, l = OS_EventTaskWaitMulti(m, E)
  PROVE  Data(l) /\ Elsewhere(k, l, Only(c)) /\ SamePools(k, l) /\ Core(l, L, v)
  <1> DEFINE x == k.tcb[c]
             y == l.tcb[c]
  <1>1. Touches(k, m, Only(c)) /\ m.event = k.event /\ m.flag = k.flag
        /\ m.tcb[c].stat = x.stat \cup bits /\ m.tcb[c].pend = "OK"
        /\ m.tcb[c].multi = x.multi /\ m.tcb[c].node = x.node
    BY StartPendTouches
  <1>2. c \in TCBs /\ L \subseteq TCBs /\ x.prio \in Prios /\ Only(c) \subseteq TCBs
    BY DEF Data, Core, Only
  <1>3. Data(m) /\ RunsIn(m, c) /\ m.tcb[c].prio = x.prio
    BY <1>1, <1>2, TouchesElsewhere DEF Elsewhere, RunsIn
  <1>4. /\ Touches(m, l, Only(c)) /\ l.flag = m.flag
        /\ y.stat = m.tcb[c].stat /\ y.pend = m.tcb[c].pend /\ y.event = None
        /\ y.multi = E /\ y.node = m.tcb[c].node
    BY <1>3, WaitMultiTouches
  <1>41. ~IsReady(l, c) /\ \A e \in EventIds : e \in E => IsIn(l, c, e)
    BY <1>3, WaitMultiTouches
  <1>42. \A e \in EventIds : e \notin E => SameECB(m, l, e)
    BY <1>3, WaitMultiTouches
  <1>5. Touches(k, l, Only(c))
    BY <1>1, <1>2, <1>4, TouchesTrans
  <1>6. y.prio = x.prio /\ l.prioTbl = k.prioTbl
        /\ \A e \in E : l.event[e].type \in {"SEM", "MBOX", "Q"}
    BY <1>2, <1>5 DEF Touches, Rest
  <1>7. TaskOK(l, v[c], c)
    <2> HIDE DEF x, y
    <2>1. /\ x.stat = {} /\ x.multi = {} /\ x.node = None /\ k.prioTbl[x.prio] = c
          /\ \A f \in EventIds : x.prio \notin Waiters(k, f)
          /\ \A g \in FlagIds : c \notin k.flag[g].wait
      BY RunningTask DEF x
    <2>2. v[c] \in WaitStep /\ v[c].op = "multi" /\ PendEvents(v[c]) = E
      BY DEF WaitStep, MultiStep, PendEvents
    <2>0. y.stat = bits /\ y.pend = "OK" /\ y.event = None /\ y.multi = E /\ y.node = None
      BY <1>1, <1>4, <2>1 DEF x, y
    <2>3. Waits(y) /\ Listed(y) /\ ~Runnable(y)
      BY <2>0 DEF Waits, Listed, Runnable, x, y
    <2>4. Local(y, v[c])
      BY <2>0, <2>2, <2>3 DEF Local, WaitOps
    <2>5. y.prio \notin Members(l.rdy)
      BY <1>41 DEF y, IsReady
    <2>6. \A f \in EventIds : y.prio \in Waiters(l, f) <=> f \in PendEvents(v[c])
      <3>1. \A f \in E : x.prio \in Waiters(l, f)
        BY <1>6, <1>41 DEF x, y, IsIn
      <3>2. \A f \in EventIds : f \notin E => x.prio \notin Waiters(l, f)
        <4>1. \A f \in EventIds : f \notin E => l.event[f] = k.event[f]
          BY <1>1, <1>42 DEF SameECB
        <4>2. \A f \in EventIds : f \notin E => Waiters(l, f) = Waiters(k, f)
          BY <4>1 DEF Waiters
        <4> QED
          BY <2>1, <4>2
      <3> QED
        BY <1>6, <2>2, <3>1, <3>2 DEF x, y
    <2>7. \A g \in FlagIds : c \notin l.flag[g].wait
      BY <1>1, <1>4, <2>1
    <2> QED
      BY <1>6, <2>1, <2>2, <2>3, <2>4, <2>5, <2>6, <2>7 DEF TaskOK, x, y
  <1> QED
    BY <1>2, <1>5, <1>7, OneCore

LEMMA FlagBlockTouches ==
  ASSUME Data(os), NEW g \in FlagIds, NEW cond, NEW timeout, NEW l, l = OS_FlagBlock(g, cond, timeout),
         NEW c, RunsIn(os, c)
  PROVE  /\ Touches(os, l, Only(c))
         /\ l.tcb[c].stat = os.tcb[c].stat \cup {"FLAG"} /\ l.tcb[c].pend = "OK"
         /\ l.tcb[c].event = os.tcb[c].event /\ l.tcb[c].multi = os.tcb[c].multi
         /\ l.tcb[c].node = [grp |-> g, cond |-> cond]
         /\ ~IsReady(l, c)
         /\ l.event = os.event
         /\ c \in l.flag[g].wait
         /\ \A f \in FlagIds : f # g => l.flag[f] = os.flag[f]
  <1> DEFINE p == os.tcb[c].prio
             bits == {"FLAG"}
             m == StartPend(os, bits, timeout)
             y == [m.tcb[c] EXCEPT !.node = [grp |-> g, cond |-> cond]]
             z == [m.flag[g] EXCEPT !.wait = @ \cup {c}]
             n == [m EXCEPT !.flag[g] = z, !.tcb[c] = y]
  <1>0. bits = {"FLAG"}
    OBVIOUS
  <1> HIDE DEF bits
  <1>1. /\ Touches(os, m, Only(c)) /\ m.rdy = os.rdy /\ m.event = os.event /\ m.flag = os.flag
        /\ m.tcb[c].stat = os.tcb[c].stat \cup bits /\ m.tcb[c].pend = "OK"
        /\ m.tcb[c].event = os.tcb[c].event /\ m.tcb[c].multi = os.tcb[c].multi
    BY StartPendTouches
  <1>2. c = os.cur /\ c \in TCBs /\ p \in Prios /\ Only(c) \subseteq TCBs
    BY DEF Data, RunsIn, Only
  <1>20. l = MakeUnready(n, {c})
    <2>1. l = MakeUnready([m EXCEPT !.flag[g].wait = @ \cup {c},
                                    !.tcb[c].node = [grp |-> g, cond |-> cond]], {c})
      BY <1>2 DEF OS_FlagBlock, bits
    <2> HIDE DEF m
    <2>2. Data(m)
      BY <1>1, <1>2, TouchesElsewhere
    <2>3. [m EXCEPT !.flag[g].wait = @ \cup {c}, !.tcb[c].node = [grp |-> g, cond |-> cond]] = n
      BY <1>2, <2>2 DEF Fields, Data
    <2> HIDE DEF n
    <2> QED
      BY <2>1, <2>3
  <1> HIDE DEF m
  <1>3. /\ Data(m) /\ DOMAIN m = Fields /\ DOMAIN m.tcb = TCBs /\ DOMAIN m.tcb[c] = TCBFields
        /\ m.tcb[c].prio = p /\ DOMAIN m.flag = FlagIds /\ DOMAIN m.flag[g] = FlagFields
        /\ m.rdy \in Table
    BY <1>1, <1>2, TouchesElsewhere DEF Data, Elsewhere
  <1>4. /\ DOMAIN y = TCBFields /\ y.stat = m.tcb[c].stat /\ y.pend = m.tcb[c].pend
        /\ y.event = m.tcb[c].event /\ y.multi = m.tcb[c].multi /\ y.prio = p
        /\ y.node = [grp |-> g, cond |-> cond]
    BY <1>3 DEF TCBFields
  <1>5. /\ DOMAIN z = FlagFields /\ z.type = m.flag[g].type
        /\ z.wait = m.flag[g].wait \cup {c}
    BY <1>3 DEF FlagFields
  <1> HIDE DEF y, z
  <1>6. /\ Rest(m, n) /\ n.rdy = m.rdy /\ n.event = m.event
        /\ DOMAIN n.tcb = TCBs /\ n.tcb[c] = y /\ \A t \in TCBs : t # c => n.tcb[t] = m.tcb[t]
        /\ DOMAIN n.flag = FlagIds /\ n.flag[g] = z
        /\ \A f \in FlagIds : f # g => n.flag[f] = m.flag[f]
    BY <1>2, <1>3 DEF Fields, Rest
  <1> HIDE DEF n
  <1>7. /\ Rest(m, l) /\ l.tcb = n.tcb /\ l.event = n.event /\ l.flag = n.flag
        /\ l.rdy = Delete(m.rdy, {p})
    <2>1. /\ Rest(n, l) /\ l.tcb = n.tcb /\ l.event = n.event /\ l.flag = n.flag
          /\ l.rdy = Delete(n.rdy, {n.tcb[c].prio})
      BY <1>20, <1>6 DEF MakeUnready, Rest, Fields
    <2> QED
      BY <1>4, <1>6, <2>1, RestTrans
  <1>8. l.rdy \in Table /\ \A q \in Prios : q \in Members(l.rdy) <=> q \in Members(m.rdy) /\ q # p
    BY <1>2, <1>3, <1>7, DeleteMembers
  <1>9. \A t \in TCBs \ Only(c) : Alike(m.tcb[t], l.tcb[t])
    BY <1>6, <1>7 DEF Alike, Only
  <1>10. \A t \in TCBs : DOMAIN l.tcb[t] = TCBFields /\ l.tcb[t].prio = m.tcb[t].prio
    BY <1>3, <1>4, <1>6, <1>7 DEF Data
  <1>11. c \in Only(c)
    BY DEF Only
  <1>12. ASSUME NEW f \in FlagIds
         PROVE  /\ DOMAIN l.flag[f] = FlagFields /\ l.flag[f].type = m.flag[f].type
                /\ l.flag[f].wait \ Only(c) = m.flag[f].wait \ Only(c)
    <2>1. CASE f = g
      BY <1>5, <1>6, <1>7, <2>1 DEF Only
    <2>2. CASE f # g
      BY <1>3, <1>6, <1>7, <2>2 DEF Data
    <2> QED
      BY <2>1, <2>2
  <1>13. Touches(m, l, Only(c))
    <2>1. \A q \in Prios : (\A t \in Only(c) : m.tcb[t].prio # q)
                            => (q \in Members(l.rdy) <=> q \in Members(m.rdy))
      BY <1>3, <1>8, <1>11
    <2>2. DOMAIN l.tcb = TCBs /\ l.event = m.event /\ DOMAIN l.flag = FlagIds
      BY <1>6, <1>7
    <2>3. \A e \in EventIds : Waiters(l, e) = Waiters(m, e)
      BY <2>2 DEF Waiters
    <2> QED
      BY <1>3, <1>7, <1>8, <1>9, <1>10, <1>12, <2>1, <2>2, <2>3 DEF Data, Touches
  <1>14. Touches(os, l, Only(c))
    BY <1>1, <1>2, <1>13, TouchesTrans
  <1>15. /\ l.tcb[c] = y /\ p \notin Members(l.rdy) /\ l.event = os.event
         /\ c \in l.flag[g].wait
         /\ \A f \in FlagIds : f # g => l.flag[f] = os.flag[f]
    BY <1>1, <1>2, <1>5, <1>6, <1>7, <1>8
  <1> QED
    BY <1>0, <1>1, <1>4, <1>14, <1>15 DEF IsReady

LEMMA BlockFlagCore ==
  ASSUME NEW L, NEW w, NEW v, NEW c, RunsIn(os, c), Data(os), Core(os, L, w),
         c \in L, w[c] = Sched, Runnable(os.tcb[c]),
         NEW g \in FlagIds, os.flag[g].type = "FLAG", NEW cond, NEW timeout,
         \A t \in L : t # c => v[t] = w[t],
         v[c] \in FlagStep, v[c].grp = g, v[c].cond = cond,
         NEW l, l = OS_FlagBlock(g, cond, timeout)
  PROVE  Data(l) /\ Elsewhere(os, l, Only(c)) /\ SamePools(os, l) /\ Core(l, L, v)
  <1> DEFINE x == os.tcb[c]
             y == l.tcb[c]
  <1>1. /\ Touches(os, l, Only(c))
        /\ y.stat = x.stat \cup {"FLAG"} /\ y.pend = "OK"
        /\ y.event = x.event /\ y.multi = x.multi
        /\ y.node = [grp |-> g, cond |-> cond]
        /\ ~IsReady(l, c) /\ l.event = os.event /\ c \in l.flag[g].wait
        /\ \A f \in FlagIds : f # g => l.flag[f] = os.flag[f]
    BY FlagBlockTouches
  <1>2. c \in TCBs /\ L \subseteq TCBs /\ Only(c) \subseteq TCBs
    BY DEF Data, Core, Only, RunsIn
  <1>6. y.prio = x.prio /\ l.prioTbl = os.prioTbl /\ l.flag[g].type = "FLAG"
    BY <1>1, <1>2 DEF Touches, Rest
  <1>7. TaskOK(l, v[c], c)
    <2> HIDE DEF x, y
    <2>1. /\ x.stat = {} /\ x.event = None /\ x.multi = {} /\ os.prioTbl[x.prio] = c
          /\ \A f \in EventIds : x.prio \notin Waiters(os, f)
          /\ \A h \in FlagIds : c \notin os.flag[h].wait
      BY RunningTask DEF x
    <2>2. v[c] \in WaitStep /\ v[c].op = "flag" /\ PendEvents(v[c]) = {}
      BY DEF WaitStep, FlagStep, PendEvents
    <2>0. y.stat = {"FLAG"} /\ y.pend = "OK" /\ y.event = None /\ y.multi = {}
          /\ y.node = [grp |-> g, cond |-> cond]
      BY <1>1, <2>1 DEF x, y
    <2>3. Waits(y) /\ Listed(y) /\ ~Runnable(y)
      BY <2>0 DEF Waits, Listed, Runnable, OS_STAT_PEND_ANY
    <2>4. Local(y, v[c])
      BY <2>0, <2>2, <2>3 DEF Local, WaitOps
    <2>5. y.prio \notin Members(l.rdy)
      BY <1>1 DEF y, IsReady
    <2>6. \A f \in EventIds : y.prio \notin Waiters(l, f)
      BY <1>1, <1>6, <2>1 DEF Waiters, x, y
    <2>7. \A h \in FlagIds : c \in l.flag[h].wait <=> h = g
      BY <1>1, <2>1
    <2> QED
      BY <1>6, <2>1, <2>2, <2>3, <2>4, <2>5, <2>6, <2>7 DEF TaskOK, x, y
  <1> QED
    BY <1>2, <1>1, <1>7, OneCore

(***************************************************************************)
(* The running task is back from its wait.                                 *)
(***************************************************************************)
LEMMA EndPendTouches ==
  ASSUME NEW k, Data(k), NEW E, NEW l, l = EndPend(k, E), NEW c, RunsIn(k, c)
  PROVE  /\ Touches(k, l, Only(c)) /\ l.rdy = k.rdy /\ l.flag = k.flag
         /\ l.tcb[c].stat = {} /\ l.tcb[c].pend = "OK" /\ l.tcb[c].dly = k.tcb[c].dly
         /\ l.tcb[c].event = None /\ l.tcb[c].multi = {} /\ l.tcb[c].node = k.tcb[c].node
         /\ \A e \in EventIds : IsIn(l, c, e) <=> IsIn(k, c, e) /\ ~(k.tcb[c].pend = "TO" /\ e \in E)
  <1> DEFINE x == k.tcb[c]
             m == IF k.tcb[c].pend = "TO"
                    THEN OS_EventTaskRemoveMulti(k, [t \in {c} |-> E]) ELSE k
  <1>1. /\ DOMAIN k = Fields /\ c \in TCBs /\ DOMAIN k.tcb = TCBs /\ DOMAIN x = TCBFields
        /\ x.prio \in Prios /\ c = k.cur
    BY DEF Data, RunsIn
  <1>2. /\ Rest(k, m) /\ m.tcb = k.tcb /\ m.rdy = k.rdy /\ m.flag = k.flag
        /\ DOMAIN m.event = EventIds
        /\ \A e \in EventIds :
             /\ DOMAIN m.event[e] = ECBFields /\ m.event[e].type = k.event[e].type
             /\ m.event[e].wait \in Table
             /\ \A q \in Prios : q \in Waiters(m, e)
                  <=> q \in Waiters(k, e) /\ ~(k.tcb[c].pend = "TO" /\ e \in E /\ q = x.prio)
    <2>1. CASE k.tcb[c].pend # "TO"
      BY <2>1 DEF Data, Rest
    <2>2. CASE k.tcb[c].pend = "TO"
      <3> DEFINE B(e) == {k.tcb[t].prio : t \in {u \in {c} : e \in E}}
                 F == [e \in EventIds |-> [k.event[e] EXCEPT !.wait = Delete(@, B(e))]]
      <3>1. m = [k EXCEPT !.event = F]
        BY <2>2 DEF OS_EventTaskRemoveMulti
      <3>2. DOMAIN F = EventIds
        OBVIOUS
      <3>3. ASSUME NEW e \in EventIds
            PROVE  /\ DOMAIN F[e] = ECBFields /\ F[e].type = k.event[e].type
                   /\ F[e].wait = Delete(k.event[e].wait, B(e))
        <4> HIDE DEF B
        <4> QED
          BY DEF Data, ECBFields
      <3>4. ASSUME NEW e \in EventIds
            PROVE  /\ F[e].wait \in Table
                   /\ \A q \in Prios : q \in Members(F[e].wait)
                        <=> q \in Waiters(k, e) /\ ~(e \in E /\ q = x.prio)
        <4>1. B(e) \in SUBSET Prios /\ \A q \in Prios : q \in B(e) <=> e \in E /\ q = x.prio
          BY <1>1
        <4> HIDE DEF B, F
        <4>2. k.event[e].wait \in Table
          BY DEF Data
        <4> QED
          BY <3>3, <4>1, <4>2, DeleteMembers DEF Waiters
      <3> HIDE DEF F, m
      <3>5. Rest(k, m) /\ m.tcb = k.tcb /\ m.rdy = k.rdy /\ m.flag = k.flag /\ m.event = F
        BY <1>1, <3>1 DEF Rest, Fields
      <3> QED
        BY <2>2, <3>2, <3>3, <3>4, <3>5 DEF Waiters
    <2> QED
      BY <2>1, <2>2
  <1>3. /\ Rest(k, l) /\ l.rdy = k.rdy /\ l.flag = k.flag /\ l.event = m.event
        /\ DOMAIN l.tcb = TCBs /\ \A t \in TCBs : t # c => l.tcb[t] = k.tcb[t]
        /\ DOMAIN l.tcb[c] = TCBFields /\ l.tcb[c].prio = x.prio
        /\ l.tcb[c].stat = {} /\ l.tcb[c].pend = "OK" /\ l.tcb[c].dly = x.dly
        /\ l.tcb[c].event = None /\ l.tcb[c].multi = {} /\ l.tcb[c].node = x.node
    <2>1. l = [m EXCEPT !.tcb[c].stat = {}, !.tcb[c].pend = "OK", !.tcb[c].event = None,
                        !.tcb[c].multi = {}, !.tcb[c].msg = None]
      BY <1>1 DEF EndPend
    <2> HIDE DEF m
    <2>2. DOMAIN m = Fields /\ DOMAIN m.tcb = TCBs /\ DOMAIN m.tcb[c] = TCBFields /\ m.tcb[c] = x
      BY <1>1, <1>2 DEF Rest
    <2> HIDE DEF x
    <2>3. Rest(m, l) /\ l.rdy = m.rdy /\ l.event = m.event /\ l.flag = m.flag
      BY <2>1, <2>2 DEF Rest, Fields
    <2>4. DOMAIN l.tcb = TCBs /\ \A t \in TCBs : t # c => l.tcb[t] = m.tcb[t]
      BY <2>1, <2>2 DEF Fields
    <2>5. DOMAIN l.tcb[c] = TCBFields /\ l.tcb[c].prio = x.prio /\ l.tcb[c].stat = {}
      BY <1>1, <2>1, <2>2 DEF Fields, TCBFields
    <2>6. l.tcb[c].pend = "OK" /\ l.tcb[c].dly = x.dly /\ l.tcb[c].event = None
      BY <1>1, <2>1, <2>2 DEF Fields, TCBFields
    <2>7. l.tcb[c].multi = {} /\ l.tcb[c].node = x.node
      BY <1>1, <2>1, <2>2 DEF Fields, TCBFields
    <2> QED
      BY <1>2, <2>3, <2>4, <2>5, <2>6, <2>7, RestTrans
  <1> HIDE DEF m
  <1>6. \A t \in TCBs \ Only(c) : Alike(k.tcb[t], l.tcb[t])
    BY <1>3 DEF Alike, Only
  <1>7. \A t \in TCBs : DOMAIN l.tcb[t] = TCBFields /\ l.tcb[t].prio = k.tcb[t].prio
    BY <1>3 DEF Data
  <1>8. c \in Only(c)
    BY DEF Only
  <1>9. ASSUME NEW e \in EventIds
        PROVE  \A q \in Prios : q \in Waiters(l, e)
                  <=> q \in Waiters(k, e) /\ ~(k.tcb[c].pend = "TO" /\ e \in E /\ q = x.prio)
    BY <1>2, <1>3 DEF Waiters
  <1>10. Touches(k, l, Only(c))
    BY <1>2, <1>3, <1>6, <1>7, <1>8, <1>9 DEF Data, Touches
  <1>11. \A e \in EventIds : IsIn(l, c, e) <=> IsIn(k, c, e) /\ ~(k.tcb[c].pend = "TO" /\ e \in E)
    BY <1>1, <1>3, <1>9 DEF IsIn
  <1> QED
    BY <1>3, <1>10, <1>11

LEMMA EndPendCore ==
  ASSUME NEW k, NEW L, NEW w, NEW v, NEW c, RunsIn(k, c), Data(k), Core(k, L, w),
         c \in L, w[c].op \in {"pend", "multi"}, Runnable(k.tcb[c]), v[c] = Sched,
         \A t \in L : t # c => v[t] = w[t],
         NEW E, \A e \in PendEvents(w[c]) : e \in E, NEW l, l = EndPend(k, E)
  PROVE  Data(l) /\ Elsewhere(k, l, Only(c)) /\ SamePools(k, l) /\ Core(l, L, v)
  <1> DEFINE x == k.tcb[c]
             y == l.tcb[c]
  <1>0. /\ Touches(k, l, Only(c)) /\ l.rdy = k.rdy /\ l.flag = k.flag
    BY EndPendTouches
  <1>1. /\ Touches(k, l, Only(c)) /\ l.rdy = k.rdy /\ l.flag = k.flag
        /\ y.stat = {} /\ y.pend = "OK" /\ y.dly = x.dly
        /\ y.event = None /\ y.multi = {} /\ y.node = x.node
    BY <1>0, EndPendTouches
  <1>2. \A e \in EventIds : IsIn(l, c, e) <=> IsIn(k, c, e) /\ ~(k.tcb[c].pend = "TO" /\ e \in E)
    BY EndPendTouches
  <1>3. c \in TCBs /\ TaskOK(k, w[c], c)
    BY DEF Data, Core, RunsIn
  <1>4. y.prio = x.prio /\ l.prioTbl = k.prioTbl
    BY <1>1, <1>3 DEF Touches, Rest
  <1> HIDE DEF x, y
  <1>5. /\ k.prioTbl[x.prio] = c /\ x.node = None /\ ~Waits(x) /\ x.dly = 0
        /\ x.prio \in Members(k.rdy)
        /\ \A g \in FlagIds : c \notin k.flag[g].wait
        /\ \A e \in EventIds : IsIn(k, c, e) => e \in E /\ x.pend = "TO"
    BY <1>3 DEF TaskOK, Local, Runnable, Listed, IsIn, x
  <1>6. \A e \in EventIds : y.prio \notin Waiters(l, e)
    BY <1>2, <1>5 DEF IsIn, x, y
  <1>7. Sched.op = "OS_Sched" /\ PendEvents(Sched) = {}
    BY DEF Sched, PendEvents
  <1>8. ~Waits(y) /\ ~Listed(y) /\ Runnable(y)
    BY <1>1, <1>5 DEF Waits, Listed, Runnable, Suspended, x, y
  <1>9. Local(y, Sched)
    BY <1>1, <1>5, <1>7, <1>8 DEF Local, WaitOps, x, y
  <1>10. TaskOK(l, v[c], c)
    BY <1>1, <1>4, <1>5, <1>6, <1>7, <1>8, <1>9 DEF TaskOK, x, y
  <1> QED
    BY <1>1, <1>10, OneCore

(***************************************************************************)
(* Suspension and delay: the control block of one task changes, and it is  *)
(* made ready or not.                                                      *)
(***************************************************************************)
LEMMA OneTCBTouches ==
  ASSUME NEW k, NEW l, Data(k), NEW t \in TCBs, Rest(k, l), l.event = k.event, l.flag = k.flag,
         DOMAIN l.tcb = TCBs, DOMAIN l.tcb[t] = TCBFields, l.tcb[t].prio = k.tcb[t].prio,
         \A u \in TCBs : u # t => l.tcb[u] = k.tcb[u],
         l.rdy \in Table,
         \A q \in Prios : q # k.tcb[t].prio => (q \in Members(l.rdy) <=> q \in Members(k.rdy))
  PROVE  Touches(k, l, Only(t))
  <1>1. \A u \in TCBs \ Only(t) : Alike(k.tcb[u], l.tcb[u])
    BY DEF Alike, Only
  <1>2. \A u \in TCBs : DOMAIN l.tcb[u] = TCBFields /\ l.tcb[u].prio = k.tcb[u].prio
    BY DEF Data
  <1>3. t \in Only(t)
    BY DEF Only
  <1>4. \A e \in EventIds : Waiters(l, e) = Waiters(k, e)
    BY DEF Waiters
  <1>5. \A q \in Prios : (\A u \in Only(t) : k.tcb[u].prio # q)
                          => (q \in Members(l.rdy) <=> q \in Members(k.rdy))
    BY <1>3
  <1> QED
    BY <1>1, <1>2, <1>4, <1>5 DEF Data, Touches

SuspendIn(k, t)      == MakeUnready([k EXCEPT !.tcb[t].stat = @ \cup {"SUSPEND"}], {t})
ResumeIn(k, t)       == [k EXCEPT !.tcb[t].stat = @ \ {"SUSPEND"}]
DelayIn(k, t, ticks) == MakeUnready([k EXCEPT !.tcb[t].dly = ticks], {t})

LEMMA SuspendCore ==
  ASSUME NEW k, NEW L, NEW w, NEW t \in L, Data(k), Core(k, L, w), w[t].op # "multi",
         NEW l, l = SuspendIn(k, t)
  PROVE  Data(l) /\ Elsewhere(k, l, Only(t)) /\ SamePools(k, l) /\ Core(l, L, w)
         /\ l.tcb[t].stat = k.tcb[t].stat \cup {"SUSPEND"}
  <1> DEFINE x == k.tcb[t]
             y == l.tcb[t]
  <1>1. /\ DOMAIN k = Fields /\ t \in TCBs /\ DOMAIN k.tcb = TCBs /\ DOMAIN x = TCBFields
        /\ x.prio \in Prios /\ TaskOK(k, w[t], t) /\ k.rdy \in Table
    BY DEF Data, Core
  <1>2. /\ Rest(k, l) /\ l.event = k.event /\ l.flag = k.flag /\ DOMAIN l.tcb = TCBs
        /\ \A u \in TCBs : u # t => l.tcb[u] = k.tcb[u]
    BY <1>1 DEF Rest, Fields, SuspendIn, MakeUnready
  <1>3. /\ DOMAIN y = TCBFields /\ y.prio = x.prio /\ y.stat = x.stat \cup {"SUSPEND"}
        /\ y.pend = x.pend /\ y.dly = x.dly
    BY <1>1 DEF Fields, SuspendIn, MakeUnready, TCBFields
  <1>4. y.event = x.event /\ y.multi = x.multi /\ y.node = x.node
    BY <1>1 DEF Fields, SuspendIn, MakeUnready, TCBFields
  <1>5. l.rdy = Delete(k.rdy, {x.prio})
    BY <1>1 DEF Fields, SuspendIn, MakeUnready, TCBFields
  <1>6. l.rdy \in Table /\ \A q \in Prios : q \in Members(l.rdy) <=> q \in Members(k.rdy) /\ q # x.prio
    BY <1>1, <1>5, DeleteMembers
  <1> HIDE DEF x, y
  <1>7. Touches(k, l, Only(t))
    BY <1>1, <1>2, <1>3, <1>6, OneTCBTouches DEF x, y
  <1>8. TaskOK(l, w[t], t)
    <2>1. Waits(x) <=> Waits(y)
      BY <1>3, <1>4 DEF Waits, OS_STAT_PEND_ANY
    <2>2. Listed(x) <=> Listed(y)
      BY <1>3, <2>1 DEF Listed
    <2>3. ~Runnable(y)
      BY <1>3 DEF Runnable, Suspended
    <2>4. y.prio \notin Members(l.rdy)
      BY <1>1, <1>3, <1>6 DEF x
    <2>5. Local(y, w[t])
      BY <1>1, <1>3, <1>4, <2>1, <2>2 DEF TaskOK, Local, x
    <2>6. l.prioTbl[y.prio] = t
      BY <1>1, <1>2, <1>3 DEF TaskOK, Rest, x
    <2>7. \A e \in EventIds : Waiters(l, e) = Waiters(k, e)
      BY <1>2 DEF Waiters
    <2> QED
      BY <1>1, <1>2, <1>3, <2>2, <2>3, <2>4, <2>5, <2>6, <2>7 DEF TaskOK, x, y
  <1> QED
    BY <1>3, <1>7, <1>8, OneCore DEF x, y

LEMMA ResumeCore ==
  ASSUME NEW k, NEW L, NEW w, NEW t \in L, Data(k), Core(k, L, w), Suspended(k.tcb[t]),
         NEW m, m = ResumeIn(k, t),
         NEW l, l = IF m.tcb[t].stat = {} /\ k.tcb[t].dly = 0 THEN MakeReady(m, {t}) ELSE m
  PROVE  Data(l) /\ Elsewhere(k, l, Only(t)) /\ SamePools(k, l) /\ Core(l, L, w)
  <1> DEFINE x == k.tcb[t]
             z == m.tcb[t]
             y == l.tcb[t]
  <1>1. /\ DOMAIN k = Fields /\ t \in TCBs /\ DOMAIN k.tcb = TCBs /\ DOMAIN x = TCBFields
        /\ x.prio \in Prios /\ TaskOK(k, w[t], t) /\ k.rdy \in Table
    BY DEF Data, Core
  <1>2. /\ Rest(k, m) /\ m.event = k.event /\ m.flag = k.flag /\ DOMAIN m.tcb = TCBs
        /\ \A u \in TCBs : u # t => m.tcb[u] = k.tcb[u]
        /\ m.rdy = k.rdy
    BY <1>1 DEF Rest, Fields, ResumeIn
  <1>3. /\ DOMAIN z = TCBFields /\ z.prio = x.prio /\ z.stat = x.stat \ {"SUSPEND"}
        /\ z.pend = x.pend /\ z.dly = x.dly
        /\ z.event = x.event /\ z.multi = x.multi /\ z.node = x.node
    BY <1>1 DEF Fields, ResumeIn, TCBFields
  <1>4. /\ Rest(k, l) /\ l.event = k.event /\ l.flag = k.flag /\ l.tcb = m.tcb
        /\ IF z.stat = {} /\ x.dly = 0 THEN l.rdy = Insert(k.rdy, {x.prio}) ELSE l.rdy = k.rdy
    <2>1. CASE z.stat = {} /\ x.dly = 0
      <3>1. /\ Rest(m, l) /\ l.event = m.event /\ l.flag = m.flag /\ l.tcb = m.tcb
            /\ l.rdy = Insert(m.rdy, {z.prio})
        BY <1>2, <2>1 DEF MakeReady, Rest, Fields
      <3> QED
        BY <1>2, <1>3, <2>1, <3>1, RestTrans
    <2>2. CASE ~(z.stat = {} /\ x.dly = 0)
      BY <1>2, <2>2
    <2> QED
      BY <2>1, <2>2
  <1>5. /\ l.rdy \in Table
        /\ \A q \in Prios :
             q \in Members(l.rdy) <=> q \in Members(k.rdy) \/ (q = x.prio /\ z.stat = {} /\ x.dly = 0)
    <2>1. CASE z.stat = {} /\ x.dly = 0
      <3>1. l.rdy = Insert(k.rdy, {x.prio}) /\ x.prio \in Prios /\ k.rdy \in Table
        BY <1>1, <1>4, <2>1
      <3> HIDE DEF x, z
      <3>2. ASSUME NEW T, T = Insert(k.rdy, {x.prio})
            PROVE  T \in Table /\ \A q \in Prios : q \in Members(T) <=> q \in Members(k.rdy) \/ q = x.prio
        BY <3>1, <3>2, InsertMembers
      <3> QED
        BY <2>1, <3>1, <3>2
    <2>2. CASE ~(z.stat = {} /\ x.dly = 0)
      BY <1>1, <1>4, <2>2
    <2> QED
      BY <2>1, <2>2
  <1>6. y = z
    BY <1>4
  <1> HIDE DEF x, y, z
  <1>7. Touches(k, l, Only(t))
    <2>1. \A q \in Prios : q # x.prio => (q \in Members(l.rdy) <=> q \in Members(k.rdy))
      BY <1>5
    <2>2. DOMAIN l.tcb = TCBs /\ \A u \in TCBs : u # t => l.tcb[u] = k.tcb[u]
      BY <1>2, <1>4
    <2>3. DOMAIN l.tcb[t] = TCBFields /\ l.tcb[t].prio = k.tcb[t].prio
      BY <1>3, <1>6 DEF x, y, z
    <2> QED
      BY <1>1, <1>4, <1>5, <2>1, <2>2, <2>3, OneTCBTouches DEF x
  <1>8. TaskOK(l, w[t], t)
    <2>0. Suspended(x) /\ Local(x, w[t]) /\ w[t] \in WaitStep \cup {Sched}
      BY <1>1 DEF TaskOK, x
    <2>1. Waits(x) <=> Waits(y)
      BY <1>3, <1>6 DEF Waits, OS_STAT_PEND_ANY
    <2>2. Listed(x) <=> Listed(y)
      BY <1>3, <1>6, <2>1 DEF Listed
    <2>3. Local(y, w[t])
      BY <1>3, <1>6, <2>0, <2>1, <2>2 DEF Local
    <2>4. Runnable(y) <=> z.stat = {} /\ x.dly = 0
      <3>1. w[t].op \in {"pend", "multi", "flag", "OS_Sched"}
        BY <2>0, WaitTypes
      <3>2. y.stat \cap OS_STAT_PEND_ANY = {} => y.stat = {}
        BY <1>3, <1>6, <2>0, <3>1, WaitTypes DEF Local, Suspended, OS_STAT_PEND_ANY, WaitOps
      <3>3. y.multi # {} /\ y.event # None => ~(w[t].op = "multi")
        BY <2>0 DEF Local, Suspended
      <3>4. ~(w[t].op = "multi") => y.multi = {}
        BY <1>3, <1>6, <2>0, <3>1 DEF Local, WaitOps
      <3>5. Waits(y) <=> y.stat # {}
        BY <3>2, <3>3, <3>4 DEF Waits
      <3>6. ~Suspended(y) /\ y.dly = x.dly
        BY <1>3, <1>6 DEF Suspended
      <3> QED
        BY <1>6, <3>5, <3>6 DEF Runnable
    <2>5. x.prio \notin Members(k.rdy)
      BY <1>1, <2>0 DEF TaskOK, Runnable, x
    <2>6. y.prio \in Members(l.rdy) <=> Runnable(y)
      BY <1>1, <1>3, <1>5, <1>6, <2>4, <2>5
    <2>7. l.prioTbl[y.prio] = t
      BY <1>1, <1>4, <1>3, <1>6 DEF TaskOK, Rest, x
    <2>8. \A e \in EventIds : Waiters(l, e) = Waiters(k, e)
      BY <1>4 DEF Waiters
    <2> QED
      BY <1>1, <1>3, <1>4, <1>6, <2>0, <2>2, <2>3, <2>6, <2>7, <2>8 DEF TaskOK, x, y
  <1> QED
    BY <1>7, <1>8, OneCore

LEMMA DelayCore ==
  ASSUME NEW k, NEW L, NEW w, NEW t \in L, Data(k), Core(k, L, w),
         w[t] = Sched, Runnable(k.tcb[t]), NEW ticks, ticks # 0, NEW l, l = DelayIn(k, t, ticks)
  PROVE  Data(l) /\ Elsewhere(k, l, Only(t)) /\ SamePools(k, l) /\ Core(l, L, w)
  <1> DEFINE x == k.tcb[t]
             y == l.tcb[t]
  <1>1. /\ DOMAIN k = Fields /\ t \in TCBs /\ DOMAIN k.tcb = TCBs /\ DOMAIN x = TCBFields
        /\ x.prio \in Prios /\ TaskOK(k, w[t], t) /\ k.rdy \in Table
    BY DEF Data, Core
  <1>2. /\ Rest(k, l) /\ l.event = k.event /\ l.flag = k.flag /\ DOMAIN l.tcb = TCBs
        /\ \A u \in TCBs : u # t => l.tcb[u] = k.tcb[u]
    BY <1>1 DEF Rest, Fields, DelayIn, MakeUnready
  <1>3. /\ DOMAIN y = TCBFields /\ y.prio = x.prio /\ y.stat = x.stat
        /\ y.pend = x.pend /\ y.dly = ticks
    BY <1>1 DEF Fields, DelayIn, MakeUnready, TCBFields
  <1>4. y.event = x.event /\ y.multi = x.multi /\ y.node = x.node
    BY <1>1 DEF Fields, DelayIn, MakeUnready, TCBFields
  <1>5. l.rdy = Delete(k.rdy, {x.prio})
    BY <1>1 DEF Fields, DelayIn, MakeUnready, TCBFields
  <1>6. l.rdy \in Table /\ \A q \in Prios : q \in Members(l.rdy) <=> q \in Members(k.rdy) /\ q # x.prio
    BY <1>1, <1>5, DeleteMembers
  <1> HIDE DEF x, y
  <1>7. Touches(k, l, Only(t))
    BY <1>1, <1>2, <1>3, <1>6, OneTCBTouches DEF x, y
  <1>8. TaskOK(l, w[t], t)
    <2>1. Waits(x) <=> Waits(y)
      BY <1>3, <1>4 DEF Waits, OS_STAT_PEND_ANY
    <2>2. Listed(x) <=> Listed(y)
      BY <1>3, <2>1 DEF Listed
    <2>3. ~Runnable(y)
      BY <1>3 DEF Runnable, Suspended
    <2>4. y.prio \notin Members(l.rdy)
      BY <1>1, <1>3, <1>6 DEF x
    <2>5. Local(y, w[t])
      BY <1>1, <1>3, <1>4, <2>1, <2>2 DEF TaskOK, Local, x, Sched, WaitOps
    <2>6. l.prioTbl[y.prio] = t
      BY <1>1, <1>2, <1>3 DEF TaskOK, Rest, x
    <2>7. \A e \in EventIds : Waiters(l, e) = Waiters(k, e)
      BY <1>2 DEF Waiters
    <2> QED
      BY <1>1, <1>2, <1>3, <2>2, <2>3, <2>4, <2>5, <2>6, <2>7 DEF TaskOK, x, y
  <1> QED
    BY <1>3, <1>7, <1>8, OneCore DEF x, y

(***************************************************************************)
(* A service that changes nobody's wait.                                   *)
(***************************************************************************)
Nobody == {}

LEMMA TouchesNobody ==
  ASSUME NEW k, NEW l, Data(k), Touches(k, l, Nobody), NEW S
  PROVE  Touches(k, l, S)
  <1>1. \A p \in Prios : p \in Members(l.rdy) <=> p \in Members(k.rdy)
    BY DEF Touches, Nobody
  <1>2. \A e \in EventIds : \A p \in Prios : p \in Waiters(l, e) <=> p \in Waiters(k, e)
    BY DEF Touches, Nobody
  <1>3. \A g \in FlagIds : l.flag[g].wait \ S = k.flag[g].wait \ S
    BY DEF Touches, Nobody
  <1> QED
    BY <1>1, <1>2, <1>3 DEF Touches, Nobody

LEMMA NobodyCore ==
  ASSUME NEW k, NEW l, NEW L, NEW w, Data(k), Core(k, L, w), Touches(k, l, Nobody)
  PROVE  Data(l) /\ Elsewhere(k, l, Nobody) /\ SamePools(k, l) /\ Core(l, L, w)
  <1>1. Nobody \subseteq L /\ Nobody \subseteq TCBs
    BY DEF Nobody
  <1>2. Data(l) /\ Elsewhere(k, l, Nobody) /\ SamePools(k, l)
    BY <1>1, TouchesElsewhere
  <1>3. \A g \in FlagIds : l.flag[g].wait \subseteq L
    BY DEF Core, Touches, Nobody
  <1>4. \A t \in Nobody : TaskOK(l, w[t], t)
    BY DEF Nobody
  <1> QED
    BY <1>1, <1>2, <1>3, <1>4, ElsewhereCore

(***************************************************************************)
(* The running task is back from its wait for flags.                       *)
(***************************************************************************)
FlagTimeoutIn(k, t) == [OS_FlagUnlink(k, t) EXCEPT !.tcb[t].pend = "OK", !.tcb[t].stat = {}]

LEMMA UnlinkTouches ==
  ASSUME NEW k, Data(k), NEW t \in TCBs, NEW g \in FlagIds,
         k.tcb[t].node # None => k.tcb[t].node.grp = g,
         NEW l, l = OS_FlagUnlink(k, t)
  PROVE  /\ Rest(k, l) /\ l.rdy = k.rdy /\ l.event = k.event
         /\ DOMAIN l.tcb = TCBs /\ \A u \in TCBs : u # t => l.tcb[u] = k.tcb[u]
         /\ DOMAIN l.tcb[t] = TCBFields /\ l.tcb[t].prio = k.tcb[t].prio
         /\ l.tcb[t].stat = k.tcb[t].stat /\ l.tcb[t].pend = k.tcb[t].pend
         /\ l.tcb[t].dly = k.tcb[t].dly /\ l.tcb[t].event = k.tcb[t].event
         /\ l.tcb[t].multi = k.tcb[t].multi /\ l.tcb[t].node = None
         /\ DOMAIN l.flag = FlagIds
         /\ \A f \in FlagIds :
              /\ DOMAIN l.flag[f] = FlagFields /\ l.flag[f].type = k.flag[f].type
              /\ \A u : u \in l.flag[f].wait
                   <=> u \in k.flag[f].wait /\ ~(u = t /\ f = g /\ k.tcb[t].node # None)
  <1> DEFINE x == k.tcb[t]
  <1>1. /\ DOMAIN k = Fields /\ DOMAIN k.tcb = TCBs /\ DOMAIN x = TCBFields
        /\ DOMAIN k.flag = FlagIds /\ \A f \in FlagIds : DOMAIN k.flag[f] = FlagFields
    BY DEF Data
  <1>2. CASE x.node = None
    <2>1. l = k
      BY <1>2 DEF OS_FlagUnlink
    <2> QED
      BY <1>1, <1>2, <2>1 DEF Rest, Data
  <1>3. CASE x.node # None
    <2>1. l = [k EXCEPT !.flag[g].wait = @ \ {t}, !.tcb[t].node = None]
      BY <1>3 DEF OS_FlagUnlink
    <2>2. Rest(k, l) /\ l.rdy = k.rdy /\ l.event = k.event
      BY <1>1, <2>1 DEF Rest, Fields
    <2>3. DOMAIN l.tcb = TCBs /\ \A u \in TCBs : u # t => l.tcb[u] = k.tcb[u]
      BY <1>1, <2>1 DEF Fields
    <2>4. /\ DOMAIN l.tcb[t] = TCBFields /\ l.tcb[t].prio = x.prio
          /\ l.tcb[t].stat = x.stat /\ l.tcb[t].pend = x.pend
      BY <1>1, <2>1 DEF Fields, TCBFields
    <2>5. /\ l.tcb[t].dly = x.dly /\ l.tcb[t].event = x.event
          /\ l.tcb[t].multi = x.multi /\ l.tcb[t].node = None
      BY <1>1, <2>1 DEF Fields, TCBFields
    <2>6. DOMAIN l.flag = FlagIds /\ \A f \in FlagIds : f # g => l.flag[f] = k.flag[f]
      BY <1>1, <2>1 DEF Fields
    <2>7. DOMAIN l.flag[g] = FlagFields /\ l.flag[g].type = k.flag[g].type
          /\ l.flag[g].wait = k.flag[g].wait \ {t}
      BY <1>1, <2>1 DEF Fields, FlagFields
    <2>8. ASSUME NEW f \in FlagIds
          PROVE  /\ DOMAIN l.flag[f] = FlagFields /\ l.flag[f].type = k.flag[f].type
                 /\ \A u : u \in l.flag[f].wait
                      <=> u \in k.flag[f].wait /\ ~(u = t /\ f = g /\ x.node # None)
      <3>1. CASE f = g
        BY <1>3, <2>7, <3>1
      <3>2. CASE f # g
        BY <1>1, <2>6, <3>2
      <3> QED
        BY <3>1, <3>2
    <2> QED
      BY <2>2, <2>3, <2>4, <2>5, <2>6, <2>8
  <1> QED
    BY <1>2, <1>3

LEMMA FlagTimeoutCore ==
  ASSUME NEW k, NEW L, NEW w, NEW v, NEW c \in L, Data(k), Core(k, L, w),
         w[c].op = "flag", Runnable(k.tcb[c]), v[c] = Sched,
         \A t \in L : t # c => v[t] = w[t],
         NEW l, l = FlagTimeoutIn(k, c)
  PROVE  Data(l) /\ Elsewhere(k, l, Only(c)) /\ SamePools(k, l) /\ Core(l, L, v)
  <1> DEFINE x == k.tcb[c]
             y == l.tcb[c]
             m == OS_FlagUnlink(k, c)
             g == w[c].grp
  <1>1. c \in TCBs /\ TaskOK(k, w[c], c)
    BY DEF Data, Core
  <1>2. /\ k.prioTbl[x.prio] = c /\ ~Waits(x) /\ x.dly = 0 /\ x.event = None /\ x.multi = {}
        /\ x.prio \in Members(k.rdy) /\ ~Suspended(x)
        /\ \A e \in EventIds : x.prio \notin Waiters(k, e)
        /\ \A f \in FlagIds : c \in k.flag[f].wait <=> f = g /\ Listed(x)
        /\ x.node = IF Listed(x) THEN [grp |-> g, cond |-> w[c].cond] ELSE None
        /\ g \in FlagIds /\ w[c].cond \in Conditions
    BY <1>1, WaitTypes DEF TaskOK, Local, Runnable, PendEvents
  <1>3. x.node # None => x.node.grp = g
    BY <1>2
  <1>4. x.node # None <=> Listed(x)
    BY <1>2, NodeAssumption
  <1>5. /\ Rest(k, m) /\ m.rdy = k.rdy /\ m.event = k.event
        /\ DOMAIN m.tcb = TCBs /\ \A u \in TCBs : u # c => m.tcb[u] = k.tcb[u]
        /\ DOMAIN m.tcb[c] = TCBFields /\ m.tcb[c].prio = x.prio
        /\ m.tcb[c].dly = x.dly /\ m.tcb[c].event = x.event
        /\ m.tcb[c].multi = x.multi /\ m.tcb[c].node = None
        /\ DOMAIN m.flag = FlagIds
    BY <1>1, <1>2, <1>3, UnlinkTouches
  <1>6. \A f \in FlagIds :
          /\ DOMAIN m.flag[f] = FlagFields /\ m.flag[f].type = k.flag[f].type
          /\ \A u : u \in m.flag[f].wait <=> u \in k.flag[f].wait /\ ~(u = c /\ f = g /\ x.node # None)
    BY <1>1, <1>2, <1>3, UnlinkTouches
  <1>7. l = [m EXCEPT !.tcb[c].pend = "OK", !.tcb[c].stat = {}]
    BY DEF FlagTimeoutIn
  <1> HIDE DEF m, g
  <1>8. Rest(k, l) /\ l.rdy = k.rdy /\ l.event = k.event /\ l.flag = m.flag
    <2>1. Rest(m, l) /\ l.rdy = m.rdy /\ l.event = m.event /\ l.flag = m.flag
      BY <1>5, <1>7 DEF Rest, Fields
    <2> QED
      BY <1>5, <2>1, RestTrans
  <1>81. DOMAIN m = Fields
    BY <1>5 DEF Rest
  <1> HIDE DEF x
  <1>9. DOMAIN l.tcb = TCBs /\ \A u \in TCBs : u # c => l.tcb[u] = k.tcb[u]
    <2>1. DOMAIN l.tcb = TCBs /\ \A u \in TCBs : u # c => l.tcb[u] = m.tcb[u]
      BY <1>1, <1>81, <1>5, <1>7 DEF Fields
    <2> QED
      BY <1>5, <2>1
  <1>10. DOMAIN y = TCBFields /\ y.prio = x.prio /\ y.stat = {} /\ y.pend = "OK" /\ y.dly = x.dly
    BY <1>1, <1>81, <1>5, <1>7 DEF Fields, TCBFields
  <1>11. y.event = x.event /\ y.multi = x.multi /\ y.node = None
    BY <1>1, <1>81, <1>5, <1>7 DEF Fields, TCBFields
  <1> HIDE DEF y
  <1>12. Touches(k, l, Only(c))
    <2>1. \A u \in TCBs \ Only(c) : Alike(k.tcb[u], l.tcb[u])
      BY <1>9 DEF Alike, Only
    <2>2. \A u \in TCBs : DOMAIN l.tcb[u] = TCBFields /\ l.tcb[u].prio = k.tcb[u].prio
      BY <1>9, <1>10 DEF Data, x, y
    <2>3. \A e \in EventIds : Waiters(l, e) = Waiters(k, e)
      BY <1>8 DEF Waiters
    <2>4. \A f \in FlagIds : l.flag[f].wait \ Only(c) = k.flag[f].wait \ Only(c)
      BY <1>6, <1>8 DEF Only
    <2> QED
      BY <1>5, <1>6, <1>8, <1>9, <2>1, <2>2, <2>3, <2>4 DEF Data, Touches
  <1>13. TaskOK(l, v[c], c)
    <2>1. Sched.op = "OS_Sched" /\ PendEvents(Sched) = {}
      BY DEF Sched, PendEvents
    <2>2. ~Waits(y) /\ ~Listed(y) /\ Runnable(y)
      BY <1>2, <1>10, <1>11 DEF Waits, Listed, Runnable, Suspended
    <2>3. Local(y, Sched)
      BY <1>2, <1>10, <1>11, <2>1, <2>2 DEF Local, WaitOps
    <2>4. \A e \in EventIds : y.prio \notin Waiters(l, e)
      BY <1>2, <1>8, <1>10 DEF Waiters
    <2>5. \A f \in FlagIds : c \notin l.flag[f].wait
      BY <1>2, <1>4, <1>6, <1>8
    <2>6. l.prioTbl[y.prio] = c /\ y.prio \in Members(l.rdy)
      BY <1>2, <1>8, <1>10 DEF Rest
    <2> QED
      BY <2>1, <2>2, <2>3, <2>4, <2>5, <2>6 DEF TaskOK, y
  <1> QED
    BY <1>12, <1>13, OneCore

(* The flags are the task's, and it may or may not consume them.           *)
LEMMA FlagGotCore ==
  ASSUME NEW k, NEW L, NEW w, NEW v, NEW c \in L, Data(k), Core(k, L, w),
         w[c].op = "flag", Runnable(k.tcb[c]), k.tcb[c].pend = "OK", v[c] = Sched,
         \A t \in L : t # c => v[t] = w[t],
         NEW l, Touches(k, l, Nobody)
  PROVE  Data(l) /\ Elsewhere(k, l, Only(c)) /\ SamePools(k, l) /\ Core(l, L, v)
  <1> DEFINE x == k.tcb[c]
             y == l.tcb[c]
  <1>0. Core(l, L, w)
    BY NobodyCore
  <1>1. c \in TCBs /\ Core(l, L, w) /\ Alike(x, y)
    BY <1>0 DEF Core, Touches, Nobody
  <1>2. TaskOK(l, w[c], c)
    BY <1>1 DEF Core
  <1> HIDE DEF x, y
  <1>3. w[c] \in WaitStep \cup {Sched} /\ PendEvents(w[c]) = {}
    BY <1>2 DEF TaskOK, PendEvents
  <1>4. ~Waits(y) /\ ~Listed(y) /\ Runnable(y) /\ y.pend = "OK"
    BY <1>1 DEF Alike, Waits, Listed, Runnable, Suspended, x
  <1>5. y.event = None /\ y.multi = {} /\ y.node = None /\ y.stat \subseteq {"SUSPEND"}
    BY <1>2, <1>4 DEF TaskOK, Local, Waits, OS_STAT_PEND_ANY, y
  <1>6. Sched.op = "OS_Sched" /\ PendEvents(Sched) = {}
    BY DEF Sched, PendEvents
  <1>7. Local(y, Sched)
    BY <1>4, <1>5, <1>6 DEF Local, WaitOps
  <1>8. TaskOK(l, v[c], c)
    BY <1>2, <1>3, <1>4, <1>6, <1>7 DEF TaskOK, y
  <1>9. Touches(k, l, Only(c))
    BY TouchesNobody
  <1> QED
    BY <1>8, <1>9, OneCore

(***************************************************************************)
(* Tasks get what they wait for.                                           *)
(***************************************************************************)
Woke(k, P) == {Task(k, p) : p \in P}

Awake(x, e, msg, msk, pend) ==
  [x EXCEPT !.dly = 0, !.msg = msg, !.stat = @ \ {msk}, !.pend = pend,
            !.event = IF x.multi # {} THEN e ELSE @]

LEMMA AwakeFields ==
  ASSUME NEW x, DOMAIN x = TCBFields, NEW e, NEW msg, NEW msk, NEW pend, NEW y,
         y = Awake(x, e, msg, msk, pend)
  PROVE  /\ DOMAIN y = TCBFields /\ y.prio = x.prio
         /\ \A b : b \in y.stat <=> b \in x.stat /\ b # msk
         /\ y.pend = pend /\ y.dly = 0 /\ y.multi = x.multi /\ y.node = x.node
         /\ y.event = IF x.multi # {} THEN e ELSE x.event
  <1>1. DOMAIN y = TCBFields /\ y.prio = x.prio /\ y.stat = x.stat \ {msk}
    BY DEF Awake, TCBFields
  <1>2. y.pend = pend /\ y.dly = 0 /\ y.multi = x.multi /\ y.node = x.node
    BY DEF Awake, TCBFields
  <1>3. y.event = IF x.multi # {} THEN e ELSE x.event
    BY DEF Awake, TCBFields
  <1> QED
    BY <1>1, <1>2, <1>3

(* The control blocks, the ready list and the wait lists of l, where the   *)
(* tasks with the priorities P were woken in k.                            *)
WokeTCBs(k, l, P, e, msk, pend) ==
  \A t \in Woke(k, P) :
    /\ \A b : b \in l.tcb[t].stat <=> b \in k.tcb[t].stat /\ b # msk
    /\ l.tcb[t].pend = pend /\ l.tcb[t].dly = 0
    /\ l.tcb[t].event = IF k.tcb[t].multi # {} THEN e ELSE k.tcb[t].event
    /\ l.tcb[t].multi = k.tcb[t].multi /\ l.tcb[t].node = k.tcb[t].node
WokeRdy(k, l, P) ==
  \A q \in Prios : q \in Members(l.rdy)
    <=> q \in Members(k.rdy) \/ (q \in P /\ ~Suspended(k.tcb[Task(k, q)]))
WokeLists(k, l, P, e) ==
  \A f \in EventIds : \A q \in Prios : q \in Waiters(l, f)
    <=> q \in Waiters(k, f) /\ ~(q \in P /\ (f = e \/ f \in k.tcb[Task(k, q)].multi))

LEMMA WakeTouches ==
  ASSUME NEW k, Data(k), NEW e, NEW P \in SUBSET Prios, NEW msg, NEW msk, NEW pend,
         \A p \in P : Task(k, p) \in TCBs /\ k.tcb[Task(k, p)].prio = p,
         NEW l, l = OS_EventTaskRdy(k, e, P, msg, msk, pend)
  PROVE  /\ Touches(k, l, Woke(k, P)) /\ l.flag = k.flag
         /\ WokeTCBs(k, l, P, e, msk, pend) /\ WokeRdy(k, l, P) /\ WokeLists(k, l, P, e)
  <1> DEFINE S     == {Task(k, p) : p \in P}
             tcbs  == [t \in TCBs |->
                         IF t \notin S THEN k.tcb[t]
                         ELSE [k.tcb[t] EXCEPT !.dly = 0, !.msg = msg, !.stat = @ \ {msk},
                                 !.pend = pend, !.event = IF k.tcb[t].multi # {} THEN e ELSE @]]
             woken == [k EXCEPT !.tcb = tcbs]
             R     == {t \in S : ~Suspended(k.tcb[t])}
             ready == MakeReady(woken, R)
             out   == [t \in S |-> {e} \cup k.tcb[t].multi]
             B(f)  == {k.tcb[t].prio : t \in {u \in S : f \in out[u]}}
             B2(f) == {ready.tcb[t].prio : t \in {u \in DOMAIN out : f \in out[u]}}
             F     == [f \in EventIds |-> [ready.event[f] EXCEPT !.wait = Delete(@, B2(f))]]
             A     == {woken.tcb[t].prio : t \in R}
  <1>1. l = OS_EventTaskRemoveMulti(ready, out)
    BY DEF OS_EventTaskRdy
  <1>2. l = [ready EXCEPT !.event = F]
    BY <1>1 DEF OS_EventTaskRemoveMulti
  <1>3. /\ DOMAIN k = Fields /\ DOMAIN k.tcb = TCBs /\ S \subseteq TCBs
        /\ \A t \in TCBs : DOMAIN k.tcb[t] = TCBFields /\ k.tcb[t].prio \in Prios
        /\ S = Woke(k, P)
        /\ k.rdy \in Table
    BY DEF Data, Woke
  <1>4. DOMAIN tcbs = TCBs /\ \A t \in TCBs : t \notin S => tcbs[t] = k.tcb[t]
    <2> HIDE DEF S
    <2> QED
      OBVIOUS
  <1>40. \A t \in S : tcbs[t] = Awake(k.tcb[t], e, msg, msk, pend)
    <2> HIDE DEF S
    <2> QED
      BY <1>3 DEF Awake
  <1> HIDE DEF tcbs
  <1>5. ASSUME NEW t \in S
        PROVE  /\ DOMAIN tcbs[t] = TCBFields /\ tcbs[t].prio = k.tcb[t].prio
               /\ \A b : b \in tcbs[t].stat <=> b \in k.tcb[t].stat /\ b # msk
               /\ tcbs[t].pend = pend /\ tcbs[t].dly = 0
               /\ tcbs[t].multi = k.tcb[t].multi /\ tcbs[t].node = k.tcb[t].node
               /\ tcbs[t].event = IF k.tcb[t].multi # {} THEN e ELSE k.tcb[t].event
    <2> HIDE DEF S
    <2>1. DOMAIN k.tcb[t] = TCBFields
      BY <1>3
    <2> QED
      BY <1>40, <2>1, AwakeFields
  <1>51. \A t \in S : k.tcb[t].prio \in P /\ Task(k, k.tcb[t].prio) = t
    OBVIOUS
  <1>52. \A q \in P : Task(k, q) \in S /\ k.tcb[Task(k, q)].prio = q
    OBVIOUS
  <1>6. /\ Rest(k, woken) /\ woken.tcb = tcbs /\ woken.rdy = k.rdy
        /\ woken.event = k.event /\ woken.flag = k.flag
    BY <1>3 DEF Rest, Fields
  <1>61. DOMAIN woken = Fields
    BY <1>6 DEF Rest
  <1> HIDE DEF woken
  <1>7. /\ Rest(k, ready) /\ ready.tcb = tcbs /\ ready.rdy = Insert(k.rdy, A)
        /\ ready.event = k.event /\ ready.flag = k.flag
    <2> HIDE DEF R
    <2>1. /\ Rest(woken, ready) /\ ready.tcb = woken.tcb /\ ready.rdy = Insert(woken.rdy, A)
          /\ ready.event = woken.event /\ ready.flag = woken.flag
      BY <1>61 DEF Rest, Fields, MakeReady
    <2> QED
      BY <1>6, <2>1, RestTrans
  <1>71. DOMAIN ready = Fields
    BY <1>7 DEF Rest
  <1>8. /\ A \in SUBSET Prios
        /\ \A q \in Prios : q \in A <=> q \in P /\ ~Suspended(k.tcb[Task(k, q)])
    BY <1>3, <1>5, <1>51, <1>52, <1>6
  <1>81. ASSUME NEW f \in EventIds
         PROVE  /\ B2(f) \in SUBSET Prios
                /\ \A q \in Prios : q \in B2(f) <=> q \in P /\ (f = e \/ f \in k.tcb[Task(k, q)].multi)
    <2> HIDE DEF ready
    <2>1. DOMAIN out = S /\ \A t \in S : f \in out[t] <=> f = e \/ f \in k.tcb[t].multi
      OBVIOUS
    <2> HIDE DEF out, S
    <2>2. \A t \in S : ready.tcb[t].prio = k.tcb[t].prio
      BY <1>5, <1>7
    <2> QED
      BY <1>3, <1>51, <1>52, <2>1, <2>2
  <1> HIDE DEF ready, A
  <1>9. /\ Rest(k, l) /\ l.tcb = tcbs /\ l.rdy = Insert(k.rdy, A) /\ l.event = F /\ l.flag = k.flag
    <2> HIDE DEF F
    <2>1. Rest(ready, l) /\ l.tcb = ready.tcb /\ l.rdy = ready.rdy /\ l.event = F /\ l.flag = ready.flag
      BY <1>2, <1>71 DEF Rest, Fields
    <2> QED
      BY <1>7, <2>1, RestTrans
  <1>91. /\ DOMAIN F = EventIds
         /\ \A f \in EventIds : /\ DOMAIN F[f] = ECBFields /\ F[f].type = k.event[f].type
                                /\ F[f].wait = Delete(k.event[f].wait, B2(f))
    <2> HIDE DEF B2
    <2> QED
      BY <1>7 DEF Data, ECBFields
  <1> HIDE DEF F, B2, S
  <1>10. /\ l.rdy \in Table
         /\ \A q \in Prios : q \in Members(l.rdy)
              <=> q \in Members(k.rdy) \/ (q \in P /\ ~Suspended(k.tcb[Task(k, q)]))
    BY <1>3, <1>8, <1>9, InsertMembers
  <1>11. ASSUME NEW f \in EventIds
         PROVE  /\ l.event[f].wait \in Table
                /\ \A q \in Prios : q \in Waiters(l, f)
                     <=> q \in Waiters(k, f) /\ ~(q \in P /\ (f = e \/ f \in k.tcb[Task(k, q)].multi))
    <2>1. l.event[f].wait = Delete(k.event[f].wait, B2(f)) /\ k.event[f].wait \in Table
      BY <1>9, <1>91 DEF Data
    <2> QED
      BY <1>81, <2>1, DeleteMembers DEF Waiters
  <1>12. Touches(k, l, S)
    <2>1. \A t \in TCBs \ S : Alike(k.tcb[t], l.tcb[t])
      BY <1>4, <1>9 DEF Alike
    <2>2. \A t \in TCBs : DOMAIN l.tcb[t] = TCBFields /\ l.tcb[t].prio = k.tcb[t].prio
      BY <1>3, <1>4, <1>5, <1>9 DEF Data
    <2>3. \A q \in Prios : (\A t \in S : k.tcb[t].prio # q) => q \notin P
      BY <1>52
    <2>4. DOMAIN l.tcb = TCBs /\ DOMAIN l.event = EventIds
      BY <1>4, <1>9, <1>91
    <2>5. \A f \in EventIds : DOMAIN l.event[f] = ECBFields /\ l.event[f].type = k.event[f].type
      BY <1>9, <1>91
    <2> QED
      BY <1>9, <1>10, <1>11, <2>1, <2>2, <2>3, <2>4, <2>5 DEF Data, Touches
  <1>13. \A t \in S :
           /\ \A b : b \in l.tcb[t].stat <=> b \in k.tcb[t].stat /\ b # msk
           /\ l.tcb[t].pend = pend /\ l.tcb[t].dly = 0
           /\ l.tcb[t].event = IF k.tcb[t].multi # {} THEN e ELSE k.tcb[t].event
           /\ l.tcb[t].multi = k.tcb[t].multi /\ l.tcb[t].node = k.tcb[t].node
    BY <1>5, <1>9
  <1> QED
    BY <1>3, <1>9, <1>10, <1>11, <1>12, <1>13 DEF WokeTCBs, WokeRdy, WokeLists

(* Posts, aborts and the deletion of event e: the tasks with the           *)
(* priorities P, which wait for e, stop waiting.                           *)
(* The events a post or an abort is for, and what it tells the waiters.    *)
EventKinds == {"SEM", "MBOX", "Q", "MUTEX"}
Answers    == {"OK", "ABORT"}

(* What the waking of the waiters P of event e comes to.                   *)
WakeDone(k, l, L, w, e, P) ==
  /\ Data(l) /\ Elsewhere(k, l, Woke(k, P)) /\ SamePools(k, l) /\ Core(l, L, w)
  /\ Woke(k, P) \subseteq L
  /\ \A q \in Members(k.rdy) : q \in Members(l.rdy)
  /\ \A q \in Members(l.rdy) : q \in Members(k.rdy) \/ q \in P
  /\ \A q \in Prios : q \in Waiters(l, e) <=> q \in Waiters(k, e) /\ q \notin P

LEMMA WakeCore ==
  ASSUME NEW k, NEW L, NEW w, Data(k), Core(k, L, w),
         NEW e \in EventIds, NEW msk \in EventKinds, k.event[e].type = msk,
         NEW P \in SUBSET Waiters(k, e), NEW msg, NEW pend \in Answers,
         NEW l, l = OS_EventTaskRdy(k, e, P, msg, msk, pend)
  PROVE  WakeDone(k, l, L, w, e, P)
  <1> DEFINE S == Woke(k, P)
  <1> USE DEF EventKinds, Answers
  <1>1. P \in SUBSET Prios /\ \A p \in P : Task(k, p) \in L /\ k.tcb[Task(k, p)].prio = p
    BY MembersPrios DEF Core, Waiters, Holder, Task
  <1>2. S \subseteq L /\ L \subseteq TCBs
    BY <1>1 DEF Core, Woke
  <1>3. \A p \in P : Task(k, p) \in TCBs /\ k.tcb[Task(k, p)].prio = p
    BY <1>1, <1>2
  <1>30. /\ Touches(k, l, Woke(k, P)) /\ l.flag = k.flag
         /\ WokeTCBs(k, l, P, e, msk, pend) /\ WokeRdy(k, l, P) /\ WokeLists(k, l, P, e)
    BY <1>1, <1>3, WakeTouches
  <1>4. Touches(k, l, S) /\ l.flag = k.flag
    BY <1>30
  <1>6. \A t \in S :
          /\ \A b : b \in l.tcb[t].stat <=> b \in k.tcb[t].stat /\ b # msk
          /\ l.tcb[t].pend = pend /\ l.tcb[t].dly = 0
          /\ l.tcb[t].event = IF k.tcb[t].multi # {} THEN e ELSE k.tcb[t].event
          /\ l.tcb[t].multi = k.tcb[t].multi /\ l.tcb[t].node = k.tcb[t].node
    BY <1>30 DEF WokeTCBs
  <1>7. \A q \in Prios : q \in Members(l.rdy)
              <=> q \in Members(k.rdy) \/ (q \in P /\ ~Suspended(k.tcb[Task(k, q)]))
    BY <1>30 DEF WokeRdy
  <1>8. \A f \in EventIds : \A q \in Prios : q \in Waiters(l, f)
              <=> q \in Waiters(k, f) /\ ~(q \in P /\ (f = e \/ f \in k.tcb[Task(k, q)].multi))
    BY <1>30 DEF WokeLists
  <1>9. Data(l) /\ Elsewhere(k, l, S) /\ SamePools(k, l)
    BY <1>2, <1>4, TouchesElsewhere
  <1>10. ASSUME NEW t \in S
         PROVE  TaskOK(l, w[t], t)
    <2> DEFINE x == k.tcb[t]
               y == l.tcb[t]
               p == x.prio
    <2>1. t \in TCBs /\ t \in L /\ p \in P /\ Task(k, p) = t /\ TaskOK(k, w[t], t)
      BY <1>1, <1>2 DEF Woke, Core
    <2>2. /\ w[t] \in WaitStep \cup {Sched} /\ k.prioTbl[p] = t /\ Local(x, w[t])
          /\ \A f \in EventIds : p \in Waiters(k, f) <=> f \in PendEvents(w[t]) /\ Listed(x)
          /\ \A g \in FlagIds : t \in k.flag[g].wait <=> w[t].op = "flag" /\ w[t].grp = g /\ Listed(x)
          /\ Listed(x) => (w[t].op = "pend" => k.event[w[t].event].type = w[t].type)
          /\ p \in Members(k.rdy) <=> Runnable(x)
      BY <2>1 DEF TaskOK
    <2>20. w[t].op = "multi" => \A f \in w[t].events : k.event[f].type \in {"SEM", "MBOX", "Q"}
      BY <2>1 DEF TaskOK
    <2>21. w[t].op = "multi" => w[t].events \subseteq EventIds
      BY <2>2 DEF WaitStep, PendStep, MultiStep, FlagStep, Sched
    <2>22. w[t].op = "multi" => \A f \in w[t].events : l.event[f].type \in {"SEM", "MBOX", "Q"}
      BY <1>4, <2>20, <2>21 DEF Touches
    <2>3. e \in PendEvents(w[t]) /\ Listed(x)
      BY <2>1, <2>2
    <2>4. p \in Prios /\ y.prio = p /\ l.prioTbl = k.prioTbl
      BY <1>1, <1>4, <2>1 DEF Touches, Rest
    <2>5. /\ \A b : b \in y.stat <=> b \in x.stat /\ b # msk
          /\ y.pend = pend /\ y.dly = 0
          /\ y.event = IF x.multi # {} THEN e ELSE x.event
          /\ y.multi = x.multi /\ y.node = x.node
      BY <1>6
    <2>6. y.prio \in Members(l.rdy) <=> ~Suspended(x)
      <3>1. p \in Members(l.rdy) <=> Runnable(x) \/ ~Suspended(x)
        BY <1>7, <2>1, <2>2, <2>4
      <3> QED
        BY <2>4, <3>1 DEF Runnable
    <2>61. \A f \in EventIds : p \in Waiters(l, f)
              <=> p \in Waiters(k, f) /\ ~(f = e \/ f \in x.multi)
      BY <1>8, <2>1, <2>4
    <2>62. Suspended(y) <=> Suspended(x)
      BY <2>5 DEF Suspended
    <2>63. e # None
      BY NullAssumption
    <2> HIDE DEF x, y, p
    <2>7. w[t].op \in {"pend", "multi"}
      BY <2>3 DEF PendEvents
    <2>8. /\ ~Waits(y) /\ ~Listed(y) /\ Local(y, w[t])
          /\ \A f \in EventIds : p \notin Waiters(l, f)
      <3>1. CASE w[t].op = "pend"
        <4>1. w[t].event = e /\ w[t].type = msk
          BY <2>2, <2>3, <3>1 DEF PendEvents
        <4>2. x.event = e /\ x.multi = {} /\ x.node = None /\ x.stat \subseteq {msk, "SUSPEND"}
          BY <2>2, <3>1, <4>1 DEF Local
        <4>3. y.stat \subseteq {"SUSPEND"} /\ y.event = e /\ y.multi = {} /\ y.node = None
          BY <2>5, <4>2
        <4>4. ~Waits(y) /\ ~Listed(y)
          BY <2>5, <4>3 DEF Waits, Listed, OS_STAT_PEND_ANY
        <4>5. Local(y, w[t])
          BY <2>5, <3>1, <4>1, <4>3, <4>4 DEF Local, WaitOps
        <4>6. \A f \in EventIds : p \notin Waiters(l, f)
          BY <2>2, <2>61, <3>1, <4>1 DEF PendEvents
        <4> QED
          BY <4>4, <4>5, <4>6
      <3>2. CASE w[t].op = "multi"
        <4>1. e \in w[t].events
          BY <2>3, <3>2 DEF PendEvents
        <4>2. x.multi = w[t].events /\ x.multi # {} /\ x.node = None
              /\ x.stat \subseteq {"SEM", "MBOX", "Q", "MULTI"}
          BY <2>2, <3>2 DEF Local
        <4>3. y.stat \subseteq {"SEM", "MBOX", "Q", "MULTI"} /\ y.event = e /\ y.multi = w[t].events
              /\ y.multi # {} /\ y.node = None
          BY <2>5, <4>2
        <4>4. ~Waits(y) /\ ~Listed(y)
          BY <2>5, <2>63, <4>3 DEF Waits, Listed
        <4>5. Local(y, w[t])
          BY <2>5, <2>63, <3>2, <4>1, <4>3, <4>4 DEF Local, WaitOps
        <4>6. \A f \in EventIds : p \notin Waiters(l, f)
          BY <2>2, <2>61, <3>2, <4>2 DEF PendEvents
        <4> QED
          BY <4>4, <4>5, <4>6
      <3> QED
        BY <2>7, <3>1, <3>2
    <2>9. Runnable(y) <=> ~Suspended(x)
      BY <2>5, <2>62, <2>8 DEF Runnable
    <2>10. \A g \in FlagIds : t \notin l.flag[g].wait
      BY <1>4, <2>2, <2>7
    <2>11. l.prioTbl[y.prio] = t
      BY <2>2, <2>4
    <2> QED
      BY <2>2, <2>4, <2>6, <2>8, <2>9, <2>10, <2>11, <2>22 DEF TaskOK, y
  <1>11. \A g \in FlagIds : l.flag[g].wait \subseteq L
    BY <1>4 DEF Core
  <1> HIDE DEF S
  <1>12. Core(l, L, w)
    BY <1>2, <1>9, <1>10, <1>11, ElsewhereCore
  <1>13. \A q \in Prios : q \in Waiters(l, e) <=> q \in Waiters(k, e) /\ q \notin P
    BY <1>8
  <1>14. Members(k.rdy) \subseteq Prios /\ Members(l.rdy) \subseteq Prios
    BY MembersPrios
  <1> QED
    BY <1>1, <1>2, <1>7, <1>9, <1>12, <1>13, <1>14 DEF S, WakeDone

(* A control block that gets flags rdy.                                    *)
Granted(x, rdy) ==
  [x EXCEPT !.dly = 0, !.flagsRdy = rdy, !.stat = @ \ {"FLAG"}, !.pend = "OK", !.node = None]

LEMMA GrantedFields ==
  ASSUME NEW x, DOMAIN x = TCBFields, NEW rdy, NEW y, y = Granted(x, rdy)
  PROVE  /\ DOMAIN y = TCBFields /\ y.prio = x.prio
         /\ \A b : b \in y.stat <=> b \in x.stat /\ b # "FLAG"
         /\ y.pend = "OK" /\ y.dly = 0 /\ y.multi = x.multi /\ y.node = None /\ y.event = x.event
  <1>1. DOMAIN y = TCBFields /\ y.prio = x.prio /\ y.stat = x.stat \ {"FLAG"}
    BY DEF Granted, TCBFields
  <1>2. y.pend = "OK" /\ y.dly = 0 /\ y.multi = x.multi /\ y.node = None /\ y.event = x.event
    BY DEF Granted, TCBFields
  <1> QED
    BY <1>1, <1>2

(* The same for the tasks S and their flags.                               *)
GotTCBs(k, l, S) ==
  \A t \in S :
    /\ \A b : b \in l.tcb[t].stat <=> b \in k.tcb[t].stat /\ b # "FLAG"
    /\ l.tcb[t].pend = "OK" /\ l.tcb[t].dly = 0 /\ l.tcb[t].node = None
    /\ l.tcb[t].multi = k.tcb[t].multi /\ l.tcb[t].event = k.tcb[t].event
GotRdy(k, l, S) ==
  /\ \A t \in S : k.tcb[t].prio \in Members(l.rdy)
       <=> k.tcb[t].prio \in Members(k.rdy) \/ l.tcb[t].stat = {}
  /\ \A q \in Prios : q \in Members(l.rdy)
       <=> q \in Members(k.rdy) \/ \E t \in S : k.tcb[t].prio = q /\ l.tcb[t].stat = {}
GotLists(k, l, S) ==
  \A f \in FlagIds : \A t : t \in l.flag[f].wait <=> t \in k.flag[f].wait /\ t \notin S

LEMMA FlagWakeTouches ==
  ASSUME NEW k, Data(k), NEW S \in SUBSET TCBs, NEW rdy, NEW l, l = OS_FlagTaskRdy(k, S, rdy),
         \A t, u \in S : k.tcb[t].prio = k.tcb[u].prio => t = u
  PROVE  /\ Touches(k, l, S) /\ l.event = k.event
         /\ GotTCBs(k, l, S) /\ GotRdy(k, l, S) /\ GotLists(k, l, S)
  <1> DEFINE tcbs  == [t \in TCBs |->
                         IF t \notin S THEN k.tcb[t]
                         ELSE [k.tcb[t] EXCEPT !.dly = 0, !.flagsRdy = rdy[t], !.stat = @ \ {"FLAG"},
                                 !.pend = "OK", !.node = None]]
             flags == [g \in FlagIds |-> [k.flag[g] EXCEPT !.wait = @ \ S]]
             woken == [k EXCEPT !.tcb = tcbs, !.flag = flags]
             R     == {t \in S : woken.tcb[t].stat = {}}
             A     == {woken.tcb[t].prio : t \in R}
  <1>1. l = MakeReady(woken, R)
    BY DEF OS_FlagTaskRdy
  <1>2. /\ DOMAIN k = Fields /\ DOMAIN k.tcb = TCBs
        /\ \A t \in TCBs : DOMAIN k.tcb[t] = TCBFields /\ k.tcb[t].prio \in Prios
        /\ k.rdy \in Table
    BY DEF Data
  <1>3. DOMAIN tcbs = TCBs /\ \A t \in TCBs : t \notin S => tcbs[t] = k.tcb[t]
    OBVIOUS
  <1>4. \A t \in S : tcbs[t] = Granted(k.tcb[t], rdy[t])
    BY <1>2 DEF Granted
  <1> HIDE DEF tcbs
  <1>5. ASSUME NEW t \in S
        PROVE  /\ DOMAIN tcbs[t] = TCBFields /\ tcbs[t].prio = k.tcb[t].prio
               /\ \A b : b \in tcbs[t].stat <=> b \in k.tcb[t].stat /\ b # "FLAG"
               /\ tcbs[t].pend = "OK" /\ tcbs[t].dly = 0
               /\ tcbs[t].multi = k.tcb[t].multi /\ tcbs[t].node = None
               /\ tcbs[t].event = k.tcb[t].event
    <2>1. DOMAIN k.tcb[t] = TCBFields
      BY <1>2
    <2> QED
      BY <1>4, <2>1, GrantedFields
  <1>6. /\ DOMAIN flags = FlagIds
        /\ \A g \in FlagIds : /\ DOMAIN flags[g] = FlagFields /\ flags[g].type = k.flag[g].type
                              /\ flags[g].wait = k.flag[g].wait \ S
    BY DEF Data, FlagFields
  <1> HIDE DEF flags
  <1>7. /\ Rest(k, woken) /\ woken.tcb = tcbs /\ woken.rdy = k.rdy
        /\ woken.event = k.event /\ woken.flag = flags
    BY <1>2 DEF Rest, Fields
  <1> HIDE DEF woken
  <1>8. /\ Rest(k, l) /\ l.tcb = tcbs /\ l.rdy = Insert(k.rdy, A) /\ l.event = k.event
        /\ l.flag = flags
    <2> HIDE DEF R
    <2>1. DOMAIN woken = Fields
      BY <1>7 DEF Rest
    <2>2. /\ Rest(woken, l) /\ l.tcb = woken.tcb /\ l.rdy = Insert(woken.rdy, A)
          /\ l.event = woken.event /\ l.flag = woken.flag
      BY <1>1, <2>1 DEF Rest, Fields, MakeReady
    <2> QED
      BY <1>7, <2>2, RestTrans
  <1>9. /\ A \in SUBSET Prios
        /\ \A q : q \in A <=> \E t \in S : k.tcb[t].prio = q /\ tcbs[t].stat = {}
    BY <1>2, <1>5, <1>7
  <1> HIDE DEF A
  <1>10. /\ l.rdy \in Table
         /\ \A q \in Prios : q \in Members(l.rdy)
              <=> q \in Members(k.rdy) \/ \E t \in S : k.tcb[t].prio = q /\ l.tcb[t].stat = {}
    <2>1. l.rdy \in Table /\ \A q \in Prios : q \in Members(l.rdy) <=> q \in Members(k.rdy) \/ q \in A
      BY <1>2, <1>8, <1>9, InsertMembers
    <2> QED
      BY <1>8, <1>9, <2>1
  <1>11. ASSUME NEW t \in S
         PROVE  k.tcb[t].prio \in Members(l.rdy)
                  <=> k.tcb[t].prio \in Members(k.rdy) \/ l.tcb[t].stat = {}
    <2>1. k.tcb[t].prio \in Prios
      BY <1>2
    <2>2. (\E u \in S : k.tcb[u].prio = k.tcb[t].prio /\ l.tcb[u].stat = {}) <=> l.tcb[t].stat = {}
      OBVIOUS
    <2> QED
      BY <1>10, <2>1, <2>2, Zenon
  <1>12. Touches(k, l, S)
    <2>1. \A t \in TCBs \ S : Alike(k.tcb[t], l.tcb[t])
      BY <1>3, <1>8 DEF Alike
    <2>2. \A t \in TCBs : DOMAIN l.tcb[t] = TCBFields /\ l.tcb[t].prio = k.tcb[t].prio
      BY <1>2, <1>3, <1>5, <1>8
    <2>3. \A q \in Prios : (\A t \in S : k.tcb[t].prio # q)
                            => (q \in Members(l.rdy) <=> q \in Members(k.rdy))
      BY <1>10
    <2>4. DOMAIN l.tcb = TCBs /\ DOMAIN l.flag = FlagIds
      BY <1>3, <1>6, <1>8
    <2>5. \A f \in EventIds : Waiters(l, f) = Waiters(k, f)
      BY <1>8 DEF Waiters
    <2>6. \A g \in FlagIds : /\ DOMAIN l.flag[g] = FlagFields /\ l.flag[g].type = k.flag[g].type
                             /\ l.flag[g].wait \ S = k.flag[g].wait \ S
      BY <1>6, <1>8
    <2> QED
      BY <1>8, <1>10, <2>1, <2>2, <2>3, <2>4, <2>5, <2>6 DEF Data, Touches
  <1>13. GotTCBs(k, l, S)
    BY <1>5, <1>8 DEF GotTCBs
  <1>14. GotRdy(k, l, S)
    BY <1>10, <1>11 DEF GotRdy
  <1>15. GotLists(k, l, S)
    BY <1>6, <1>8 DEF GotLists
  <1> QED
    BY <1>8, <1>12, <1>13, <1>14, <1>15

(* The tasks S of the wait list of group g get flags.                      *)
(* What the waking of the waiters S of flag group g comes to.              *)
GrantDone(k, l, L, w, g, S) ==
  /\ Data(l) /\ Elsewhere(k, l, S) /\ SamePools(k, l) /\ Core(l, L, w)
  /\ S \subseteq L
  /\ \A q \in Members(k.rdy) : q \in Members(l.rdy)
  /\ \A q \in Members(l.rdy) : q \in Members(k.rdy) \/ \E t \in S : l.tcb[t].stat = {}
  /\ \A t : t \in l.flag[g].wait <=> t \in k.flag[g].wait /\ t \notin S

LEMMA FlagWakeCore ==
  ASSUME NEW k, NEW L, NEW w, Data(k), Core(k, L, w), NEW g \in FlagIds,
         NEW S \in SUBSET k.flag[g].wait, NEW rdy, NEW l, l = OS_FlagTaskRdy(k, S, rdy)
  PROVE  GrantDone(k, l, L, w, g, S)
  <1>1. S \subseteq L /\ L \subseteq TCBs /\ S \in SUBSET TCBs
    BY DEF Core
  <1>2. \A t, u \in S : k.tcb[t].prio = k.tcb[u].prio => t = u
    BY <1>1 DEF Core, TaskOK
  <1>3. /\ Touches(k, l, S) /\ l.event = k.event
        /\ GotTCBs(k, l, S) /\ GotRdy(k, l, S) /\ GotLists(k, l, S)
    BY <1>1, <1>2, FlagWakeTouches
  <1>4. Data(l) /\ Elsewhere(k, l, S) /\ SamePools(k, l)
    BY <1>1, <1>3, TouchesElsewhere
  <1>5. ASSUME NEW t \in S
        PROVE  TaskOK(l, w[t], t)
    <2> DEFINE x == k.tcb[t]
               y == l.tcb[t]
               p == x.prio
    <2>1. t \in TCBs /\ t \in L /\ TaskOK(k, w[t], t) /\ p \in Prios
      BY <1>1 DEF Core, Data
    <2>2. /\ w[t] \in WaitStep \cup {Sched} /\ k.prioTbl[p] = t /\ Local(x, w[t])
          /\ \A f \in EventIds : p \in Waiters(k, f) <=> f \in PendEvents(w[t]) /\ Listed(x)
          /\ \A f \in FlagIds : t \in k.flag[f].wait <=> w[t].op = "flag" /\ w[t].grp = f /\ Listed(x)
          /\ p \in Members(k.rdy) <=> Runnable(x)
      BY <2>1 DEF TaskOK
    <2>3. w[t].op = "flag" /\ w[t].grp = g /\ Listed(x)
      BY <2>2
    <2>4. y.prio = p /\ l.prioTbl = k.prioTbl
      BY <1>3, <2>1 DEF Touches, Rest
    <2>5. /\ \A b : b \in y.stat <=> b \in x.stat /\ b # "FLAG"
          /\ y.pend = "OK" /\ y.dly = 0 /\ y.node = None
          /\ y.multi = x.multi /\ y.event = x.event
      BY <1>3 DEF GotTCBs
    <2>6. p \in Members(l.rdy) <=> p \in Members(k.rdy) \/ y.stat = {}
      BY <1>3 DEF GotRdy
    <2>61. \A f \in FlagIds : t \notin l.flag[f].wait
      BY <1>3 DEF GotLists
    <2>62. \A f \in EventIds : Waiters(l, f) = Waiters(k, f)
      BY <1>3 DEF Waiters
    <2> HIDE DEF x, y, p
    <2>7. x.event = None /\ x.multi = {} /\ x.stat \subseteq {"FLAG", "SUSPEND"}
      BY <2>2, <2>3 DEF Local
    <2>8. y.stat \subseteq {"SUSPEND"} /\ y.event = None /\ y.multi = {}
      BY <2>5, <2>7
    <2>9. ~Waits(y) /\ ~Listed(y)
      BY <2>5, <2>8 DEF Waits, Listed, OS_STAT_PEND_ANY
    <2>10. Local(y, w[t])
      BY <2>3, <2>5, <2>8, <2>9 DEF Local, WaitOps
    <2>11. y.prio \in Members(l.rdy) <=> Runnable(y)
      <3>1. Runnable(y) <=> y.stat = {}
        BY <2>5, <2>8, <2>9 DEF Runnable, Suspended
      <3>2. Runnable(x) => y.stat = {}
        BY <2>5, <2>8 DEF Runnable, Suspended
      <3> QED
        BY <2>2, <2>4, <2>6, <3>1, <3>2
    <2>12. l.prioTbl[y.prio] = t
      BY <2>2, <2>4
    <2>13. \A f \in EventIds : y.prio \notin Waiters(l, f)
      BY <2>2, <2>3, <2>4, <2>62 DEF PendEvents
    <2> QED
      BY <2>2, <2>9, <2>10, <2>11, <2>12, <2>13, <2>61 DEF TaskOK, y
  <1>6. \A f \in FlagIds : l.flag[f].wait \subseteq L
    BY <1>3 DEF Core, GotLists
  <1>7. Core(l, L, w)
    BY <1>1, <1>4, <1>5, <1>6, ElsewhereCore
  <1>8. Members(k.rdy) \subseteq Prios /\ Members(l.rdy) \subseteq Prios
    BY MembersPrios
  <1>9. \A q \in Members(l.rdy) : q \in Members(k.rdy) \/ \E t \in S : l.tcb[t].stat = {}
    BY <1>3, <1>8 DEF GotRdy
  <1>10. \A q \in Members(k.rdy) : q \in Members(l.rdy)
    BY <1>3, <1>8 DEF GotRdy
  <1>11. \A t : t \in l.flag[g].wait <=> t \in k.flag[g].wait /\ t \notin S
    BY <1>3 DEF GotLists
  <1> QED
    BY <1>1, <1>4, <1>7, <1>9, <1>10, <1>11 DEF GrantDone

(***************************************************************************)
(* Delays end.                                                             *)
(***************************************************************************)
LEMMA TouchesMore ==
  ASSUME NEW k, NEW l, NEW S, NEW T, S \subseteq T, Touches(k, l, S) PROVE Touches(k, l, T)
  <1>1. \A p \in Prios : (\A t \in T : k.tcb[t].prio # p) => \A t \in S : k.tcb[t].prio # p
    OBVIOUS
  <1>2. \A g \in FlagIds : l.flag[g].wait \ T = k.flag[g].wait \ T
    <2> SUFFICES ASSUME NEW g \in FlagIds PROVE l.flag[g].wait \ T = k.flag[g].wait \ T
      OBVIOUS
    <2>1. l.flag[g].wait \ S = k.flag[g].wait \ S
      BY DEF Touches
    <2> QED
      BY <2>1
  <1> QED
    BY <1>1, <1>2 DEF Touches

Expired(x) ==
  [x EXCEPT !.dly = 0, !.stat = @ \ OS_STAT_PEND_ANY,
            !.pend = IF x.stat \cap OS_STAT_PEND_ANY # {} THEN "TO" ELSE "OK"]

LEMMA ExpiredFields ==
  ASSUME NEW x, DOMAIN x = TCBFields, NEW y, y = Expired(x)
  PROVE  /\ DOMAIN y = TCBFields /\ y.prio = x.prio /\ y.stat = x.stat \ OS_STAT_PEND_ANY
         /\ y.pend = (IF x.stat \cap OS_STAT_PEND_ANY # {} THEN "TO" ELSE "OK")
         /\ y.dly = 0 /\ y.multi = x.multi /\ y.node = x.node /\ y.event = x.event
  <1>1. DOMAIN y = TCBFields /\ y.prio = x.prio /\ y.stat = x.stat \ OS_STAT_PEND_ANY
    BY DEF Expired, TCBFields
  <1>2. /\ y.pend = (IF x.stat \cap OS_STAT_PEND_ANY # {} THEN "TO" ELSE "OK")
        /\ y.dly = 0 /\ y.multi = x.multi /\ y.node = x.node /\ y.event = x.event
    BY DEF Expired, TCBFields
  <1> QED
    BY <1>1, <1>2

ExpiredTCBs(k, l, D) ==
  \A t \in D :
    /\ l.tcb[t].stat = k.tcb[t].stat \ OS_STAT_PEND_ANY
    /\ l.tcb[t].pend = IF k.tcb[t].stat \cap OS_STAT_PEND_ANY # {} THEN "TO" ELSE "OK"
    /\ l.tcb[t].dly = 0 /\ l.tcb[t].node = k.tcb[t].node
    /\ l.tcb[t].multi = k.tcb[t].multi /\ l.tcb[t].event = k.tcb[t].event
ExpiredRdy(k, l, D) ==
  \A q \in Prios : q \in Members(l.rdy)
    <=> q \in Members(k.rdy) \/ \E t \in D : k.tcb[t].prio = q /\ ~Suspended(k.tcb[t])

LEMMA ExpireTouches ==
  ASSUME NEW k, Data(k), NEW D \in SUBSET TCBs, NEW l, l = Expire(k, D)
  PROVE  /\ Touches(k, l, D) /\ l.event = k.event /\ l.flag = k.flag
         /\ ExpiredTCBs(k, l, D) /\ ExpiredRdy(k, l, D)
         /\ \A t \in TCBs : t \notin D => l.tcb[t] = k.tcb[t]
  <1> DEFINE tcbs == [t \in TCBs |->
                IF t \notin D THEN k.tcb[t]
                ELSE [k.tcb[t] EXCEPT
                        !.dly = 0, !.stat = @ \ OS_STAT_PEND_ANY,
                        !.pend = IF k.tcb[t].stat \cap OS_STAT_PEND_ANY # {} THEN "TO" ELSE "OK"]]
             A    == {k.tcb[t].prio : t \in {u \in D : ~Suspended(k.tcb[u])}}
  <1>1. l = [k EXCEPT !.tcb = tcbs, !.rdy = Insert(@, A)]
    BY DEF Expire
  <1>2. /\ DOMAIN k = Fields /\ DOMAIN k.tcb = TCBs
        /\ \A t \in TCBs : DOMAIN k.tcb[t] = TCBFields /\ k.tcb[t].prio \in Prios
        /\ k.rdy \in Table
    BY DEF Data
  <1>3. DOMAIN tcbs = TCBs /\ \A t \in TCBs : t \notin D => tcbs[t] = k.tcb[t]
    OBVIOUS
  <1>4. \A t \in D : tcbs[t] = Expired(k.tcb[t])
    BY <1>2 DEF Expired
  <1> HIDE DEF tcbs
  <1>5. ASSUME NEW t \in D
        PROVE  /\ DOMAIN tcbs[t] = TCBFields /\ tcbs[t].prio = k.tcb[t].prio
               /\ tcbs[t].stat = k.tcb[t].stat \ OS_STAT_PEND_ANY
               /\ tcbs[t].pend = (IF k.tcb[t].stat \cap OS_STAT_PEND_ANY # {} THEN "TO" ELSE "OK")
               /\ tcbs[t].dly = 0 /\ tcbs[t].multi = k.tcb[t].multi
               /\ tcbs[t].node = k.tcb[t].node /\ tcbs[t].event = k.tcb[t].event
    <2>1. DOMAIN k.tcb[t] = TCBFields
      BY <1>2
    <2> QED
      BY <1>4, <2>1, ExpiredFields
  <1>6. /\ A \in SUBSET Prios
        /\ \A q : q \in A <=> \E t \in D : k.tcb[t].prio = q /\ ~Suspended(k.tcb[t])
    BY <1>2
  <1> HIDE DEF A
  <1>7. /\ Rest(k, l) /\ l.tcb = tcbs /\ l.rdy = Insert(k.rdy, A)
        /\ l.event = k.event /\ l.flag = k.flag
    BY <1>1, <1>2 DEF Rest, Fields
  <1>8. l.rdy \in Table /\ \A q \in Prios : q \in Members(l.rdy) <=> q \in Members(k.rdy) \/ q \in A
    BY <1>2, <1>6, <1>7, InsertMembers
  <1>9. ExpiredRdy(k, l, D)
    BY <1>6, <1>8 DEF ExpiredRdy
  <1>10. ExpiredTCBs(k, l, D)
    BY <1>5, <1>7 DEF ExpiredTCBs
  <1>11. Touches(k, l, D)
    <2>1. \A t \in TCBs \ D : Alike(k.tcb[t], l.tcb[t])
      BY <1>3, <1>7 DEF Alike
    <2>2. \A t \in TCBs : DOMAIN l.tcb[t] = TCBFields /\ l.tcb[t].prio = k.tcb[t].prio
      BY <1>2, <1>3, <1>5, <1>7
    <2>3. \A q \in Prios : (\A t \in D : k.tcb[t].prio # q)
                            => (q \in Members(l.rdy) <=> q \in Members(k.rdy))
      BY <1>9 DEF ExpiredRdy
    <2>4. DOMAIN l.tcb = TCBs
      BY <1>3, <1>7
    <2>5. \A f \in EventIds : Waiters(l, f) = Waiters(k, f)
      BY <1>7 DEF Waiters
    <2> QED
      BY <1>7, <1>8, <2>1, <2>2, <2>3, <2>4, <2>5 DEF Data, Touches
  <1> QED
    BY <1>3, <1>7, <1>9, <1>10, <1>11

(* In m the delays of the tasks D0 of k have run on, and those of D, a     *)
(* part of them, may have run out.                                         *)
Ticked(k, m, D0, D) ==
  /\ Touches(k, m, D0) /\ m.rdy = k.rdy /\ m.event = k.event /\ m.flag = k.flag
  /\ \A t \in D0 :
       /\ k.tcb[t].dly # 0 /\ (t \notin D => m.tcb[t].dly # 0)
       /\ m.tcb[t].stat = k.tcb[t].stat /\ m.tcb[t].pend = k.tcb[t].pend
       /\ m.tcb[t].event = k.tcb[t].event /\ m.tcb[t].multi = k.tcb[t].multi
       /\ m.tcb[t].node = k.tcb[t].node

(* What the end of the delays of the tasks D comes to.                     *)
ExpireDone(k, l, L, w, D0, D) ==
  /\ Data(l) /\ Elsewhere(k, l, D0) /\ SamePools(k, l) /\ Core(l, L, w)
  /\ \A q \in Members(k.rdy) : q \in Members(l.rdy)
  /\ \A q \in Members(l.rdy) : q \in Members(k.rdy) \/ \E t \in D : ~Suspended(k.tcb[t])

LEMMA ExpireCore ==
  ASSUME NEW k, NEW L, NEW w, Data(k), Core(k, L, w), NEW D0, D0 \subseteq L, NEW D \in SUBSET D0,
         NEW m, Ticked(k, m, D0, D), NEW l, l = Expire(m, D)
  PROVE  ExpireDone(k, l, L, w, D0, D)
  <1>1. L \subseteq TCBs /\ D0 \subseteq TCBs /\ D \in SUBSET TCBs
    BY DEF Core
  <1>2. Touches(k, m, D0)
    BY DEF Ticked
  <1>3. Data(m)
    BY <1>1, <1>2, TouchesElsewhere
  <1>4. /\ Touches(m, l, D) /\ l.event = m.event /\ l.flag = m.flag
        /\ ExpiredTCBs(m, l, D) /\ ExpiredRdy(m, l, D)
        /\ \A t \in TCBs : t \notin D => l.tcb[t] = m.tcb[t]
    BY <1>1, <1>3, ExpireTouches
  <1>5. Touches(k, l, D0)
    <2>1. Touches(m, l, D0)
      BY <1>4, TouchesMore
    <2> QED
      BY <1>1, <1>2, <2>1, TouchesTrans
  <1>6. Data(l) /\ Elsewhere(k, l, D0) /\ SamePools(k, l)
    BY <1>1, <1>5, TouchesElsewhere
  <1>7. l.event = k.event /\ l.flag = k.flag
    BY <1>4 DEF Ticked
  <1>8. \A t \in TCBs : m.tcb[t].prio = k.tcb[t].prio /\ l.tcb[t].prio = k.tcb[t].prio
    BY <1>2, <1>5 DEF Touches
  <1>9. \A t, u \in D0 : k.tcb[t].prio = k.tcb[u].prio => t = u
    BY <1>1 DEF Core, TaskOK
  <1>10. \A q \in Prios : q \in Members(l.rdy)
           <=> q \in Members(k.rdy) \/ \E t \in D : k.tcb[t].prio = q /\ ~Suspended(k.tcb[t])
    <2>1. \A t \in D : m.tcb[t].prio = k.tcb[t].prio /\ (Suspended(m.tcb[t]) <=> Suspended(k.tcb[t]))
      BY <1>1, <1>8 DEF Ticked, Suspended
    <2>2. m.rdy = k.rdy
      BY DEF Ticked
    <2> QED
      BY <1>4, <2>1, <2>2 DEF ExpiredRdy
  <1>11. ASSUME NEW t \in D0
         PROVE  TaskOK(l, w[t], t)
    <2> DEFINE x == k.tcb[t]
               z == m.tcb[t]
               y == l.tcb[t]
               p == x.prio
    <2>1. t \in TCBs /\ t \in L /\ TaskOK(k, w[t], t) /\ p \in Prios
      BY <1>1 DEF Core, Data
    <2>2. /\ w[t] \in WaitStep \cup {Sched} /\ k.prioTbl[p] = t /\ Local(x, w[t])
          /\ \A f \in EventIds : p \in Waiters(k, f) <=> f \in PendEvents(w[t]) /\ Listed(x)
          /\ \A f \in FlagIds : t \in k.flag[f].wait <=> w[t].op = "flag" /\ w[t].grp = f /\ Listed(x)
          /\ p \in Members(k.rdy) <=> Runnable(x)
          /\ w[t].op = "multi" => \A e \in w[t].events : k.event[e].type \in {"SEM", "MBOX", "Q"}
          /\ Listed(x) => /\ w[t].op = "pend" => k.event[w[t].event].type = w[t].type
                          /\ w[t].op = "flag" => k.flag[w[t].grp].type = "FLAG"
      BY <2>1 DEF TaskOK
    <2>3. /\ x.dly # 0 /\ (t \notin D => z.dly # 0)
          /\ z.stat = x.stat /\ z.pend = x.pend /\ z.event = x.event /\ z.multi = x.multi
          /\ z.node = x.node
      BY DEF Ticked
    <2>4. y.prio = p /\ l.prioTbl = k.prioTbl
      BY <1>5, <1>8, <2>1 DEF Touches, Rest
    <2>5. p \in Members(l.rdy) <=> t \in D /\ ~Suspended(x)
      <3>1. p \notin Members(k.rdy)
        BY <2>2, <2>3 DEF Runnable
      <3>2. (\E u \in D : k.tcb[u].prio = p /\ ~Suspended(k.tcb[u])) <=> t \in D /\ ~Suspended(x)
        BY <1>9
      <3> QED
        BY <1>10, <2>1, <3>1, <3>2, Zenon
    <2>6. t \notin D => y = z
      BY <1>4, <2>1
    <2>7. t \in D => /\ y.stat = z.stat \ OS_STAT_PEND_ANY
                     /\ y.pend = IF z.stat \cap OS_STAT_PEND_ANY # {} THEN "TO" ELSE "OK"
                     /\ y.dly = 0 /\ y.node = z.node /\ y.multi = z.multi /\ y.event = z.event
      BY <1>4 DEF ExpiredTCBs
    <2>8. \A f \in EventIds : Waiters(l, f) = Waiters(k, f)
      BY <1>7 DEF Waiters
    <2> HIDE DEF x, y, z, p
    <2>9. w[t].op \in {"pend", "multi", "flag", "OS_Sched"}
      BY <2>2, WaitTypes
    <2>10. Local(y, w[t]) /\ (Listed(y) <=> Listed(x)) /\ (Runnable(y) <=> t \in D /\ ~Suspended(x))
      <3>1. CASE t \notin D
        <4>1. Waits(y) <=> Waits(x)
          BY <2>3, <2>6, <3>1 DEF Waits
        <4>2. Listed(y) <=> Listed(x)
          BY <2>3, <2>6, <3>1, <4>1 DEF Listed
        <4>3. Local(y, w[t])
          BY <2>2, <2>3, <2>6, <3>1, <4>1, <4>2 DEF Local
        <4> QED
          BY <2>3, <2>6, <3>1, <4>2, <4>3 DEF Runnable
      <3>2. CASE t \in D
        <4>1. y.dly = 0 /\ y.node = x.node /\ y.multi = x.multi /\ y.event = x.event
              /\ y.stat = x.stat \ OS_STAT_PEND_ANY
              /\ y.pend = (IF x.stat \cap OS_STAT_PEND_ANY # {} THEN "TO" ELSE "OK")
          BY <2>3, <2>7, <3>2
        <4>2. ~Waits(y) /\ (Suspended(y) <=> Suspended(x))
          BY <4>1 DEF Waits, Suspended, OS_STAT_PEND_ANY
        <4>3. Runnable(y) <=> ~Suspended(x)
          BY <4>1, <4>2 DEF Runnable
        <4>4. CASE w[t].op = "OS_Sched"
          <5>1. x.stat \subseteq {"SUSPEND"} /\ x.pend = "OK"
            BY <2>2, <4>4 DEF Local, WaitOps
          <5>2. x.stat \cap OS_STAT_PEND_ANY = {}
            BY <5>1 DEF OS_STAT_PEND_ANY
          <5>3. ~Listed(x) /\ ~Listed(y) /\ y.pend = "OK"
            BY <4>1, <4>2, <5>1, <5>2 DEF Listed, Waits
          <5>4. Local(y, w[t])
            BY <2>2, <4>1, <4>2, <4>4, <5>1, <5>3 DEF Local, WaitOps
          <5> QED
            BY <3>2, <4>3, <5>3, <5>4
        <4>5. CASE w[t].op # "OS_Sched"
          <5>1. Waits(x)
            BY <2>2, <2>3, <2>9, <4>5 DEF Local
          <5>2. y.pend = "TO" /\ Listed(y) /\ Listed(x)
            BY <4>1, <5>1 DEF Waits, Listed
          <5>3. y.stat \subseteq x.stat
            BY <4>1
          <5>4. w[t].op = "multi" => y.event = None
            BY <2>2, <4>1, <5>1 DEF Waits, Local
          <5>5. Local(y, w[t])
            BY <2>2, <2>9, <4>1, <4>2, <4>5, <5>2, <5>3, <5>4 DEF Local, WaitOps
          <5> QED
            BY <3>2, <4>3, <5>2, <5>5
        <4> QED
          BY <4>4, <4>5
      <3> QED
        BY <3>1, <3>2
    <2>11. l.prioTbl[y.prio] = t
      BY <2>2, <2>4
    <2> QED
      BY <1>7, <2>2, <2>4, <2>5, <2>8, <2>10, <2>11 DEF TaskOK, y
  <1>12. \A g \in FlagIds : l.flag[g].wait \subseteq L
    BY <1>7 DEF Core
  <1>13. Core(l, L, w)
    BY <1>6, <1>11, <1>12, ElsewhereCore
  <1>14. Members(k.rdy) \subseteq Prios /\ Members(l.rdy) \subseteq Prios
    BY MembersPrios
  <1> QED
    BY <1>6, <1>10, <1>13, <1>14 DEF ExpireDone

(***************************************************************************)
(* Tasks come and go, event control blocks and flag groups are used and    *)
(* freed, priorities change.                                               *)
(***************************************************************************)
(* l is k for the tasks L. *)
LEMMA OutsideCore ==
  ASSUME NEW k, NEW l, NEW L, NEW w, NEW v, Data(k), Core(k, L, w),
         \A t \in L : l.tcb[t] = k.tcb[t] /\ v[t] = w[t],
         l.rdy = k.rdy, l.event = k.event, l.flag = k.flag,
         \A p \in Prios : k.prioTbl[p] \in L => l.prioTbl[p] = k.prioTbl[p]
  PROVE  Core(l, L, v)
  <1>1. L \subseteq TCBs
    BY DEF Core
  <1>2. \A e \in EventIds : Waiters(l, e) = Waiters(k, e)
    BY DEF Waiters
  <1>3. ASSUME NEW p \in Prios, Holder(k, L, p) PROVE Holder(l, L, p)
    BY <1>3 DEF Holder
  <1>4. ASSUME NEW t \in L PROVE TaskOK(l, v[t], t)
    <2>1. TaskOK(k, w[t], t) /\ l.tcb[t] = k.tcb[t] /\ v[t] = w[t] /\ k.tcb[t].prio \in Prios
      BY <1>1 DEF Core, Data
    <2>2. l.prioTbl[k.tcb[t].prio] = t
      BY <2>1 DEF TaskOK
    <2> QED
      BY <1>2, <2>1, <2>2 DEF TaskOK
  <1>5. ASSUME NEW p \in Members(l.rdy) PROVE Holder(l, L, p)
    BY <1>3, MembersPrios DEF Core
  <1>6. ASSUME NEW e \in EventIds, NEW p \in Waiters(l, e) PROVE Holder(l, L, p)
    <2>1. p \in Waiters(k, e) /\ p \in Prios
      BY <1>2, MembersPrios DEF Waiters
    <2> QED
      BY <1>3, <2>1 DEF Core
  <1> QED
    BY <1>1, <1>4, <1>5, <1>6 DEF Core

(* Task t left every list. *)
LEMMA RemovedCore ==
  ASSUME NEW k, NEW l, NEW L, NEW w, NEW M, NEW t \in L, Data(k), Core(k, L, w),
         Touches(k, l, Only(t)), \A u : u \in M <=> u \in L /\ u # t,
         ~IsReady(l, t), \A e \in EventIds : ~IsIn(l, t, e),
         \A g \in FlagIds : t \notin l.flag[g].wait
  PROVE  Data(l) /\ Elsewhere(k, l, Only(t)) /\ SamePools(k, l) /\ Core(l, M, w)
  <1>1. L \subseteq TCBs /\ t \in TCBs /\ Only(t) \subseteq TCBs /\ M \subseteq L
    BY DEF Core, Only
  <1>2. Data(l) /\ Elsewhere(k, l, Only(t)) /\ SamePools(k, l)
    BY <1>1, TouchesElsewhere
  <1>3. ASSUME NEW p \in Prios, Holder(k, L, p), p # k.tcb[t].prio PROVE Holder(l, M, p)
    BY <1>1, <1>2, <1>3 DEF Holder, Elsewhere
  <1>31. \A p \in Prios : p # k.tcb[t].prio =>
           /\ p \in Members(l.rdy) <=> p \in Members(k.rdy)
           /\ \A e \in EventIds : p \in Waiters(l, e) <=> p \in Waiters(k, e)
    BY <1>2 DEF Elsewhere, Only
  <1>32. l.tcb[t].prio = k.tcb[t].prio
    BY <1>1, <1>2 DEF Elsewhere
  <1>4. ASSUME NEW u \in M PROVE TaskOK(l, w[u], u)
    <2> DEFINE x == k.tcb[u]
               y == l.tcb[u]
    <2>1. u \in TCBs /\ u # t /\ Alike(x, y) /\ TaskOK(k, w[u], u) /\ x.prio \in Prios
      BY <1>1, <1>2 DEF Core, Elsewhere, Data, Only
    <2>3. k.tcb[t].prio # x.prio
      BY <1>1, <2>1 DEF Core, TaskOK
    <2>4. l.prioTbl[y.prio] = u /\ y.prio = x.prio
      BY <1>2, <2>1 DEF TaskOK, Elsewhere
    <2>5. /\ y.prio \in Members(l.rdy) <=> x.prio \in Members(k.rdy)
          /\ \A e \in EventIds : y.prio \in Waiters(l, e) <=> x.prio \in Waiters(k, e)
      BY <1>31, <2>1, <2>3, <2>4
    <2>6. \A g \in FlagIds : u \in l.flag[g].wait <=> u \in k.flag[g].wait
      BY <1>2, <2>1 DEF Elsewhere, Only
    <2>7. Listed(x) <=> Listed(y)
      BY <2>1, AlikeTask
    <2>8. /\ w[u].op = "multi" => \A e \in w[u].events : l.event[e].type \in {"SEM", "MBOX", "Q"}
          /\ Listed(y) => /\ w[u].op = "pend" => l.event[w[u].event].type = w[u].type
                          /\ w[u].op = "flag" => l.flag[w[u].grp].type = "FLAG"
      <3>1. w[u] \in WaitStep \cup {Sched}
        BY <2>1 DEF TaskOK
      <3> QED
        BY <1>2, <2>1, <2>7, <3>1, WaitTypes DEF SamePools, TaskOK
    <2> QED
      BY <2>1, <2>4, <2>5, <2>6, <2>7, <2>8, AlikeTask DEF TaskOK
  <1>5. ASSUME NEW p \in Members(l.rdy) PROVE Holder(l, M, p)
    <2>1. p \in Prios /\ p # k.tcb[t].prio
      BY <1>32, MembersPrios DEF IsReady
    <2> QED
      BY <1>3, <1>31, <2>1 DEF Core
  <1>6. ASSUME NEW e \in EventIds, NEW p \in Waiters(l, e) PROVE Holder(l, M, p)
    <2>1. p \in Prios /\ p # k.tcb[t].prio
      BY <1>32, MembersPrios DEF IsIn, Waiters
    <2> QED
      BY <1>3, <1>31, <2>1 DEF Core
  <1>7. \A g \in FlagIds : l.flag[g].wait \subseteq M
    <2>1. \A g \in FlagIds : l.flag[g].wait \subseteq L
      BY <1>1 DEF Core, Touches, Only
    <2> QED
      BY <2>1
  <1>8. M \subseteq TCBs
    BY <1>1
  <1> QED
    BY <1>2, <1>4, <1>5, <1>6, <1>7, <1>8 DEF Core

(* The first half of OSTaskDel, apart from the lock. *)
Drop(k, t) ==
  LET E     == k.tcb[t].multi \cup ({k.tcb[t].event} \ {None})
      apart == OS_EventTaskRemoveMulti(MakeUnready(k, {t}), [u \in {t} |-> E])
  IN  [OS_FlagUnlink(apart, t) EXCEPT !.tcb[t].dly = 0, !.tcb[t].stat = {}, !.tcb[t].pend = "OK"]

LEMMA UnlinkAny ==
  ASSUME NEW k, Data(k), NEW t \in TCBs, k.tcb[t].node # None => k.tcb[t].node.grp \in FlagIds,
         NEW l, l = OS_FlagUnlink(k, t)
  PROVE  /\ Rest(k, l) /\ l.rdy = k.rdy /\ l.event = k.event
         /\ DOMAIN l.tcb = TCBs /\ \A u \in TCBs : u # t => l.tcb[u] = k.tcb[u]
         /\ DOMAIN l.tcb[t] = TCBFields /\ l.tcb[t].prio = k.tcb[t].prio
         /\ l.tcb[t].event = k.tcb[t].event
         /\ l.tcb[t].multi = k.tcb[t].multi /\ l.tcb[t].node = None
         /\ DOMAIN l.flag = FlagIds
         /\ \A f \in FlagIds :
              /\ DOMAIN l.flag[f] = FlagFields /\ l.flag[f].type = k.flag[f].type
              /\ \A u : u # t => (u \in l.flag[f].wait <=> u \in k.flag[f].wait)
              /\ k.tcb[t].node # None /\ k.tcb[t].node.grp = f => t \notin l.flag[f].wait
              /\ t \in l.flag[f].wait => t \in k.flag[f].wait
  <1>1. CASE k.tcb[t].node = None
    <2>1. l = k
      BY <1>1 DEF OS_FlagUnlink
    <2>2. Rest(k, k)
      BY DEF Rest, Data
    <2> QED
      BY <1>1, <2>1, <2>2 DEF Data
  <1>2. CASE k.tcb[t].node # None
    <2>1. PICK g \in FlagIds : k.tcb[t].node.grp = g
      BY <1>2
    <2>2. /\ Rest(k, l) /\ l.rdy = k.rdy /\ l.event = k.event
          /\ DOMAIN l.tcb = TCBs /\ \A u \in TCBs : u # t => l.tcb[u] = k.tcb[u]
      BY <2>1, UnlinkTouches
    <2>3. /\ DOMAIN l.tcb[t] = TCBFields /\ l.tcb[t].prio = k.tcb[t].prio
          /\ l.tcb[t].event = k.tcb[t].event
          /\ l.tcb[t].multi = k.tcb[t].multi /\ l.tcb[t].node = None
          /\ DOMAIN l.flag = FlagIds
      BY <2>1, UnlinkTouches
    <2>4. \A f \in FlagIds :
              /\ DOMAIN l.flag[f] = FlagFields /\ l.flag[f].type = k.flag[f].type
              /\ \A u : u \in l.flag[f].wait
                   <=> u \in k.flag[f].wait /\ ~(u = t /\ f = g /\ k.tcb[t].node # None)
      BY <2>1, UnlinkTouches
    <2> QED
      BY <1>2, <2>1, <2>2, <2>3, <2>4
  <1> QED
    BY <1>1, <1>2

(* What the first half of the deletion of task t comes to.                 *)
DropDone(k, l, M, w, t) ==
  /\ Data(l) /\ Elsewhere(k, l, Only(t)) /\ SamePools(k, l) /\ Core(l, M, w)
  /\ Calm(l.tcb[t])
  /\ \A q \in Members(l.rdy) : q \in Members(k.rdy)
  /\ \A q \in Prios : q # k.tcb[t].prio => (q \in Members(l.rdy) <=> q \in Members(k.rdy))

LEMMA DropCore ==
  ASSUME NEW k, NEW L, NEW w, NEW M, NEW t \in L, Data(k), Core(k, L, w),
         \A u : u \in M <=> u \in L /\ u # t, NEW l, l = Drop(k, t)
  PROVE  DropDone(k, l, M, w, t)
  <1> DEFINE x    == k.tcb[t]
             p    == x.prio
             E    == x.multi \cup ({x.event} \ {None})
             a    == MakeUnready(k, {t})
             out  == [u \in {t} |-> E]
             B(e) == {a.tcb[u].prio : u \in {v \in DOMAIN out : e \in out[v]}}
             F    == [e \in EventIds |-> [a.event[e] EXCEPT !.wait = Delete(@, B(e))]]
             b    == [a EXCEPT !.event = F]
             c    == OS_FlagUnlink(b, t)
  <1>1. /\ DOMAIN k = Fields /\ t \in TCBs /\ DOMAIN k.tcb = TCBs /\ p \in Prios
        /\ TaskOK(k, w[t], t) /\ k.rdy \in Table
    BY DEF Data, Core
  <1>2. l = [c EXCEPT !.tcb[t].dly = 0, !.tcb[t].stat = {}, !.tcb[t].pend = "OK"]
    BY DEF Drop, OS_EventTaskRemoveMulti
  <1>3. /\ Rest(k, a) /\ a.tcb = k.tcb /\ a.event = k.event /\ a.flag = k.flag
        /\ a.rdy = Delete(k.rdy, {p})
    BY <1>1 DEF MakeUnready, Rest, Fields
  <1>31. DOMAIN a = Fields
    BY <1>3 DEF Rest
  <1>4. ASSUME NEW e \in EventIds
        PROVE  /\ B(e) \in SUBSET Prios
               /\ \A q : q \in B(e) <=> q = p /\ (e \in x.multi \/ (e = x.event /\ e # None))
    <2> HIDE DEF a
    <2>1. DOMAIN out = {t} /\ out[t] = E
      OBVIOUS
    <2> HIDE DEF out
    <2>2. a.tcb[t].prio = p
      BY <1>3
    <2> QED
      BY <1>1, <2>1, <2>2
  <1> HIDE DEF a
  <1>5. /\ DOMAIN F = EventIds
        /\ \A e \in EventIds : /\ DOMAIN F[e] = ECBFields /\ F[e].type = k.event[e].type
                               /\ F[e].wait = Delete(k.event[e].wait, B(e))
    <2> HIDE DEF B
    <2> QED
      BY <1>3 DEF Data, ECBFields
  <1> HIDE DEF F, B
  <1>6. /\ Rest(k, b) /\ b.tcb = k.tcb /\ b.event = F /\ b.flag = k.flag
        /\ b.rdy = Delete(k.rdy, {p})
    <2>1. Rest(a, b) /\ b.tcb = a.tcb /\ b.event = F /\ b.flag = a.flag /\ b.rdy = a.rdy
      BY <1>31 DEF Rest, Fields
    <2> QED
      BY <1>3, <2>1, RestTrans
  <1> HIDE DEF b
  <1>7. b.rdy \in Table /\ \A q \in Prios : q \in Members(b.rdy) <=> q \in Members(k.rdy) /\ q # p
    BY <1>1, <1>6, DeleteMembers
  <1>8. ASSUME NEW e \in EventIds
        PROVE  /\ b.event[e].wait \in Table
               /\ \A q \in Prios : q \in Waiters(b, e)
                    <=> q \in Waiters(k, e) /\ ~(q = p /\ (e \in x.multi \/ (e = x.event /\ e # None)))
    <2>1. b.event[e].wait = Delete(k.event[e].wait, B(e)) /\ k.event[e].wait \in Table
      BY <1>5, <1>6 DEF Data
    <2> QED
      BY <1>4, <2>1, DeleteMembers DEF Waiters
  <1>9. Data(b)
    BY <1>5, <1>6, <1>7, <1>8 DEF Data, Rest
  <1>10. /\ \A g \in FlagIds : t \in k.flag[g].wait <=> w[t].op = "flag" /\ w[t].grp = g /\ Listed(x)
         /\ \A e \in EventIds : p \in Waiters(k, e) <=> e \in PendEvents(w[t]) /\ Listed(x)
         /\ w[t] \in WaitStep \cup {Sched} /\ Local(x, w[t])
    BY <1>1 DEF TaskOK
  <1> HIDE DEF x, p, c
  <1>11. x.node # None => x.node.grp \in FlagIds
    <2>1. w[t].op \in {"pend", "multi", "flag", "OS_Sched"} /\ (w[t].op = "flag" => w[t].grp \in FlagIds)
      BY <1>10, WaitTypes
    <2> QED
      BY <1>10, <2>1 DEF Local, WaitOps
  <1>12. \A g \in FlagIds : t \in k.flag[g].wait => x.node # None /\ x.node.grp = g
    <2> SUFFICES ASSUME NEW g \in FlagIds, t \in k.flag[g].wait PROVE x.node # None /\ x.node.grp = g
      OBVIOUS
    <2>1. w[t].op = "flag" /\ w[t].grp = g /\ Listed(x) /\ w[t].cond \in Conditions
      BY <1>10, WaitTypes
    <2>2. x.node = [grp |-> g, cond |-> w[t].cond]
      BY <1>10, <2>1 DEF Local
    <2>3. x.node \in [grp : FlagIds, cond : Conditions]
      BY <2>1, <2>2
    <2> QED
      BY <2>2, <2>3, NodeAssumption
  <1>13. /\ Rest(b, c) /\ c.rdy = b.rdy /\ c.event = b.event
         /\ DOMAIN c.tcb = TCBs /\ \A u \in TCBs : u # t => c.tcb[u] = b.tcb[u]
         /\ DOMAIN c.tcb[t] = TCBFields /\ c.tcb[t].prio = b.tcb[t].prio
         /\ c.tcb[t].event = b.tcb[t].event
         /\ c.tcb[t].multi = b.tcb[t].multi /\ c.tcb[t].node = None
         /\ DOMAIN c.flag = FlagIds
         /\ \A f \in FlagIds :
              /\ DOMAIN c.flag[f] = FlagFields /\ c.flag[f].type = b.flag[f].type
              /\ \A u : u # t => (u \in c.flag[f].wait <=> u \in b.flag[f].wait)
              /\ b.tcb[t].node # None /\ b.tcb[t].node.grp = f => t \notin c.flag[f].wait
              /\ t \in c.flag[f].wait => t \in b.flag[f].wait
    <2>1. b.tcb[t].node # None => b.tcb[t].node.grp \in FlagIds
      BY <1>6, <1>11 DEF x
    <2> QED
      BY <1>1, <1>9, <2>1, UnlinkAny DEF c
  <1>14. /\ DOMAIN c = Fields /\ Rest(k, c)
    BY <1>6, <1>13, RestTrans DEF Rest
  <1>15. /\ Rest(c, l) /\ l.rdy = c.rdy /\ l.event = c.event /\ l.flag = c.flag
         /\ DOMAIN l.tcb = TCBs /\ \A u \in TCBs : u # t => l.tcb[u] = c.tcb[u]
         /\ DOMAIN l.tcb[t] = TCBFields /\ l.tcb[t].prio = c.tcb[t].prio
         /\ Calm(l.tcb[t])
    <2>1. Rest(c, l) /\ l.rdy = c.rdy /\ l.event = c.event /\ l.flag = c.flag
      BY <1>2, <1>14 DEF Rest, Fields
    <2>2. DOMAIN l.tcb = TCBs /\ \A u \in TCBs : u # t => l.tcb[u] = c.tcb[u]
      BY <1>1, <1>2, <1>13, <1>14 DEF Fields
    <2>3. /\ DOMAIN l.tcb[t] = TCBFields /\ l.tcb[t].prio = c.tcb[t].prio
          /\ l.tcb[t].stat = {} /\ l.tcb[t].dly = 0 /\ l.tcb[t].pend = "OK"
          /\ l.tcb[t].node = c.tcb[t].node
      BY <1>1, <1>2, <1>13, <1>14 DEF Fields, TCBFields
    <2> QED
      BY <1>13, <2>1, <2>2, <2>3 DEF Calm
  <1>16. \A f \in FlagIds : /\ DOMAIN l.flag[f] = FlagFields /\ l.flag[f].type = k.flag[f].type
                            /\ t \notin l.flag[f].wait
                            /\ l.flag[f].wait \ Only(t) = k.flag[f].wait \ Only(t)
    BY <1>6, <1>12, <1>13, <1>15 DEF x, Only
  <1>17. Rest(k, l)
    BY <1>14, <1>15, RestTrans
  <1>18. l.tcb[t].prio = p /\ \A u \in TCBs : u # t => l.tcb[u] = k.tcb[u]
    BY <1>6, <1>13, <1>15 DEF x, p
  <1>19. \A q \in Prios : q \in Members(l.rdy) <=> q \in Members(k.rdy) /\ q # p
    BY <1>7, <1>13, <1>15
  <1>20. \A e \in EventIds : /\ Waiters(l, e) = Waiters(b, e) /\ l.event[e].wait \in Table
                             /\ DOMAIN l.event[e] = ECBFields /\ l.event[e].type = k.event[e].type
    BY <1>5, <1>6, <1>8, <1>13, <1>15 DEF Waiters
  <1>21. Touches(k, l, Only(t))
    <2>1. \A u \in TCBs \ Only(t) : Alike(k.tcb[u], l.tcb[u])
      BY <1>18 DEF Alike, Only
    <2>2. \A u \in TCBs : DOMAIN l.tcb[u] = TCBFields /\ l.tcb[u].prio = k.tcb[u].prio
      BY <1>15, <1>18 DEF Data, p, x
    <2>3. \A q \in Prios : (\A u \in Only(t) : k.tcb[u].prio # q) => q # p
      BY DEF Only, p, x
    <2>4. /\ DOMAIN l.event = EventIds /\ DOMAIN l.flag = FlagIds /\ l.rdy \in Table
      BY <1>5, <1>6, <1>7, <1>13, <1>15
    <2> QED
      BY <1>8, <1>15, <1>16, <1>17, <1>19, <1>20, <2>1, <2>2, <2>3, <2>4 DEF Touches
  <1>22. ~IsReady(l, t) /\ \A e \in EventIds : ~IsIn(l, t, e)
    <2>1. ~IsReady(l, t)
      BY <1>1, <1>18, <1>19 DEF IsReady
    <2>2. ASSUME NEW e \in EventIds, p \in Waiters(k, e)
          PROVE  e \in x.multi \/ (e = x.event /\ e # None)
      <3>1. e \in PendEvents(w[t]) /\ e # None
        BY <1>10, <2>2, NullAssumption
      <3> QED
        BY <1>10, <3>1 DEF PendEvents, Local
    <2>3. \A e \in EventIds : p \notin Waiters(l, e)
      BY <1>1, <1>8, <1>20, <2>2
    <2> QED
      BY <1>18, <2>1, <2>3 DEF IsIn
  <1>23. Members(l.rdy) \subseteq Prios
    BY MembersPrios
  <1>24. Data(l) /\ Elsewhere(k, l, Only(t)) /\ SamePools(k, l) /\ Core(l, M, w)
    <2>1. \A g \in FlagIds : t \notin l.flag[g].wait
      BY <1>16
    <2>2. Data(k) /\ Core(k, L, w) /\ \A u : u \in M <=> u \in L /\ u # t
      OBVIOUS
    <2> HIDE DEF E, out
    <2> QED
      BY <1>21, <1>22, <2>1, <2>2, RemovedCore
  <1> QED
    BY <1>15, <1>19, <1>23, <1>24 DEF p, x, DropDone

LEMMA MovedMembers ==
  ASSUME NEW T \in Table, NEW old \in Prios, NEW new \in Prios, NEW U, U = Moved(T, old, new)
  PROVE  U \in Table /\ \A q \in Prios : q \in Members(U) <=> q = new \/ (q \in Members(T) /\ q # old)
  <1> DEFINE V == Delete(T, {old})
  <1>1. V \in Table /\ Members(V) = Members(T) \ {old}
    BY DeleteMembers
  <1>2. U = Insert(V, {new})
    BY DEF Moved
  <1> HIDE DEF V
  <1>3. U \in Table /\ Members(U) = Members(V) \cup {new}
    BY <1>1, <1>2, InsertMembers
  <1> QED
    BY <1>1, <1>3

(* Control block y is x with another priority. *)
SameWait(x, y) ==
  /\ y.stat = x.stat /\ y.pend = x.pend /\ y.dly = x.dly
  /\ y.event = x.event /\ y.multi = x.multi /\ y.node = x.node

LEMMA SameWaitTask ==
  ASSUME NEW x, NEW y, SameWait(x, y)
  PROVE  /\ Waits(x) <=> Waits(y)
         /\ Listed(x) <=> Listed(y)
         /\ Runnable(x) <=> Runnable(y)
         /\ \A w : Local(x, w) <=> Local(y, w)
  <1>1. Waits(x) <=> Waits(y)
    BY DEF SameWait, Waits
  <1>2. Listed(x) <=> Listed(y)
    BY <1>1 DEF SameWait, Listed
  <1>3. Runnable(x) <=> Runnable(y)
    BY <1>1 DEF SameWait, Runnable, Suspended
  <1>4. ASSUME NEW w PROVE Local(x, w) <=> Local(y, w)
    BY <1>1, <1>2 DEF SameWait, Local
  <1> QED
    BY <1>1, <1>2, <1>3, <1>4

(* What a change of the priority of t from old to new leaves. *)
PrioChanged(k, l, t, old, new) ==
  /\ l.list = k.list /\ l.free = k.free
  /\ l.freeEvents = k.freeEvents /\ l.freeFlags = k.freeFlags
  /\ l.cur = k.cur /\ l.prioCur = k.prioCur /\ l.lock = k.lock /\ l.running = k.running
  /\ l.flag = k.flag
  /\ \A u \in TCBs : u # t => l.tcb[u] = k.tcb[u]
  /\ l.tcb[t].prio = new /\ SameWait(k.tcb[t], l.tcb[t])
  /\ l.prioTbl[old] = None /\ l.prioTbl[new] = t
  /\ \A q \in Prios : q # old /\ q # new => l.prioTbl[q] = k.prioTbl[q]
  /\ \A q \in Prios :
       q \in Members(l.rdy) <=> IF q = new THEN old \in Members(k.rdy)
                                ELSE q # old /\ q \in Members(k.rdy)
  /\ \A e \in EventIds : l.event[e].type = k.event[e].type
  /\ \A e \in EventIds : \A q \in Prios :
       q \in Waiters(l, e) <=> IF q = new THEN old \in Waiters(k, e)
                               ELSE q # old /\ q \in Waiters(k, e)

LEMMA ChangePrioShape ==
  ASSUME NEW k, Data(k), NEW t \in TCBs, NEW old, old = k.tcb[t].prio, NEW new \in Prios, new # old,
         new \notin Members(k.rdy), \A e \in EventIds : new \notin Waiters(k, e),
         \A e \in EventIds :
           e \in k.tcb[t].multi \/ (e = k.tcb[t].event /\ e # None) <=> old \in Waiters(k, e),
         NEW l, l = ChangePrio(k, t, new)
  PROVE  Data(l) /\ PrioChanged(k, l, t, old, new)
  <1> DEFINE x == k.tcb[t]
             E == x.multi \cup ({x.event} \ {None})
             F == [e \in EventIds |->
                     IF e \in E THEN [k.event[e] EXCEPT !.wait = Moved(@, old, new)]
                     ELSE k.event[e]]
             T == [k.prioTbl EXCEPT ![old] = None, ![new] = t]
             R == IF Has(k.rdy, old) THEN Moved(k.rdy, old, new) ELSE k.rdy
             y == [x EXCEPT !.prio = new]
  <1>1. /\ DOMAIN k = Fields /\ DOMAIN k.tcb = TCBs /\ DOMAIN x = TCBFields
        /\ old \in Prios /\ k.rdy \in Table /\ DOMAIN k.prioTbl = Prios
    BY DEF Data
  <1>2. l = [k EXCEPT !.prioTbl = T, !.rdy = R, !.event = F, !.tcb[t].prio = new]
    BY <1>1 DEF ChangePrio, Fields
  <1>3. /\ DOMAIN T = Prios /\ T[old] = None /\ T[new] = t
        /\ \A q \in Prios : q # old /\ q # new => T[q] = k.prioTbl[q]
    BY <1>1
  <1>4. R \in Table /\ \A q \in Prios :
          q \in Members(R) <=> IF q = new THEN old \in Members(k.rdy)
                               ELSE q # old /\ q \in Members(k.rdy)
    <2>1. Has(k.rdy, old) <=> old \in Members(k.rdy)
      BY <1>1, HasMember
    <2>2. CASE Has(k.rdy, old)
      <3>1. R = Moved(k.rdy, old, new)
        BY <2>2
      <3> HIDE DEF R
      <3>2. R \in Table /\ \A q \in Prios : q \in Members(R) <=> q = new \/ (q \in Members(k.rdy) /\ q # old)
        BY <1>1, <3>1, MovedMembers
      <3> QED
        BY <2>1, <2>2, <3>2
    <2>3. CASE ~Has(k.rdy, old)
      <3>1. R = k.rdy
        BY <2>3
      <3> HIDE DEF R
      <3> QED
        BY <1>1, <2>1, <2>3, <3>1
    <2> QED
      BY <2>2, <2>3
  <1>5. DOMAIN F = EventIds
    OBVIOUS
  <1>6. ASSUME NEW e \in EventIds
        PROVE  /\ DOMAIN F[e] = ECBFields /\ F[e].type = k.event[e].type /\ F[e].wait \in Table
               /\ \A q \in Prios :
                    q \in Members(F[e].wait) <=> IF q = new THEN old \in Waiters(k, e)
                                                 ELSE q # old /\ q \in Waiters(k, e)
    <2>1. DOMAIN k.event[e] = ECBFields /\ k.event[e].wait \in Table
      BY DEF Data
    <2>2. e \in E <=> old \in Waiters(k, e)
      OBVIOUS
    <2> HIDE DEF E
    <2>3. CASE e \in E
      <3>1. /\ F[e].wait = Moved(k.event[e].wait, old, new)
            /\ DOMAIN F[e] = ECBFields /\ F[e].type = k.event[e].type
        BY <2>1, <2>3 DEF ECBFields
      <3> HIDE DEF F
      <3>2. /\ F[e].wait \in Table
            /\ \A q \in Prios : q \in Members(F[e].wait)
                 <=> q = new \/ (q \in Members(k.event[e].wait) /\ q # old)
        BY <1>1, <2>1, <3>1, MovedMembers
      <3> QED
        BY <2>2, <2>3, <3>1, <3>2 DEF Waiters
    <2>4. CASE e \notin E
      <3>1. F[e] = k.event[e]
        BY <2>4
      <3> HIDE DEF F
      <3> QED
        BY <2>1, <2>2, <2>4, <3>1 DEF Waiters
    <2> QED
      BY <2>3, <2>4
  <1> HIDE DEF E, F, T, R
  <1>7. /\ DOMAIN l = Fields /\ l.prioTbl = T /\ l.rdy = R /\ l.event = F /\ l.flag = k.flag
        /\ l.list = k.list /\ l.free = k.free
        /\ l.freeEvents = k.freeEvents /\ l.freeFlags = k.freeFlags
        /\ l.cur = k.cur /\ l.prioCur = k.prioCur /\ l.lock = k.lock /\ l.running = k.running
    BY <1>1, <1>2 DEF Fields
  <1>8. /\ DOMAIN l.tcb = TCBs /\ l.tcb[t] = y /\ \A u \in TCBs : u # t => l.tcb[u] = k.tcb[u]
    BY <1>1, <1>2 DEF Fields
  <1>9. DOMAIN y = TCBFields /\ y.prio = new /\ SameWait(x, y)
    BY <1>1 DEF TCBFields, SameWait
  <1> HIDE DEF y
  <1>10. \A q \in Prios : l.prioTbl[q] \in TCBs \cup {None, Reserved}
    BY <1>3, <1>7 DEF Data
  <1>11. /\ DOMAIN l.event = EventIds /\ DOMAIN l.prioTbl = Prios
         /\ \A e \in EventIds : DOMAIN l.event[e] = ECBFields /\ l.event[e].wait \in Table
    BY <1>3, <1>5, <1>6, <1>7
  <1>12. Data(l)
    BY <1>4, <1>7, <1>8, <1>9, <1>10, <1>11 DEF Data
  <1>13. PrioChanged(k, l, t, old, new)
    BY <1>3, <1>4, <1>6, <1>7, <1>8, <1>9 DEF PrioChanged, Waiters
  <1> QED
    BY <1>12, <1>13

LEMMA ChangePrioCore ==
  ASSUME NEW k, NEW L, NEW w, NEW t \in L, Data(k), Core(k, L, w),
         NEW old, old = k.tcb[t].prio, NEW new \in Prios, k.prioTbl[new] = None,
         k.tcb[t].event # None \/ k.tcb[t].multi # {} => \E e \in EventIds : old \in Waiters(k, e),
         NEW l, l = ChangePrio(k, t, new)
  PROVE  Data(l) /\ PrioChanged(k, l, t, old, new) /\ Core(l, L, w)
  <1> DEFINE x == k.tcb[t]
             y == l.tcb[t]
  <1>1. L \subseteq TCBs /\ t \in TCBs /\ None \notin L /\ old \in Prios
    BY NullAssumption DEF Core, Data
  <1>2. TaskOK(k, w[t], t) /\ k.prioTbl[old] = t /\ new # old
    BY <1>1 DEF Core, TaskOK
  <1>3. new \notin Members(k.rdy) /\ \A e \in EventIds : new \notin Waiters(k, e)
    BY <1>1 DEF Core, Holder
  <1>4. /\ \A g \in FlagIds : t \in k.flag[g].wait <=> w[t].op = "flag" /\ w[t].grp = g /\ Listed(x)
        /\ \A e \in EventIds : old \in Waiters(k, e) <=> e \in PendEvents(w[t]) /\ Listed(x)
        /\ w[t] \in WaitStep \cup {Sched} /\ Local(x, w[t])
        /\ old \in Members(k.rdy) <=> Runnable(x)
    BY <1>2 DEF TaskOK
  <1>5. ASSUME NEW e \in EventIds
        PROVE  e \in x.multi \/ (e = x.event /\ e # None) <=> old \in Waiters(k, e)
    <2>1. e # None
      BY NullAssumption
    <2>2. w[t].op \in {"pend", "multi", "flag", "OS_Sched"}
      BY <1>4, WaitTypes
    <2>3. e \in x.multi \/ e = x.event <=> e \in PendEvents(w[t])
      BY <1>4, <2>1, <2>2 DEF Local, WaitOps, PendEvents
    <2>4. e \in PendEvents(w[t]) => Listed(x)
      <3>1. SUFFICES ASSUME e \in PendEvents(w[t]) PROVE Listed(x)
        OBVIOUS
      <3>2. x.event # None \/ x.multi # {}
        BY <2>1, <2>3, <3>1
      <3>3. PICK f \in EventIds : old \in Waiters(k, f)
        BY <3>2
      <3> QED
        BY <1>4, <3>3
    <2> QED
      BY <1>4, <2>1, <2>3, <2>4
  <1>6. Data(l) /\ PrioChanged(k, l, t, old, new)
    BY <1>1, <1>2, <1>3, <1>5, ChangePrioShape
  <1>7. ASSUME NEW u \in L, u # t PROVE TaskOK(l, w[u], u)
    <2>1. TaskOK(k, w[u], u) /\ k.tcb[u].prio \in Prios /\ l.tcb[u] = k.tcb[u]
      BY <1>1, <1>6, <1>7 DEF Core, PrioChanged, Data
    <2>2. k.prioTbl[k.tcb[u].prio] = u
      BY <2>1 DEF TaskOK
    <2>3. k.tcb[u].prio # old /\ k.tcb[u].prio # new
      BY <1>1, <1>2, <1>7, <2>2
    <2>4. /\ l.prioTbl[k.tcb[u].prio] = u
          /\ k.tcb[u].prio \in Members(l.rdy) <=> k.tcb[u].prio \in Members(k.rdy)
          /\ \A e \in EventIds : k.tcb[u].prio \in Waiters(l, e) <=> k.tcb[u].prio \in Waiters(k, e)
      BY <1>6, <2>1, <2>2, <2>3 DEF PrioChanged
    <2>5. l.flag = k.flag /\ \A e \in EventIds : l.event[e].type = k.event[e].type
      BY <1>6 DEF PrioChanged
    <2>6. PendEvents(w[u]) \subseteq EventIds
          /\ (w[u].op = "pend" => w[u].event \in EventIds)
          /\ (w[u].op = "multi" => w[u].events \subseteq EventIds)
      <3>1. w[u] \in WaitStep \cup {Sched}
        BY <2>1 DEF TaskOK
      <3> QED
        BY <3>1, WaitTypes
    <2>7. /\ w[u].op = "multi" => \A e \in w[u].events : l.event[e].type \in {"SEM", "MBOX", "Q"}
          /\ Listed(k.tcb[u]) => /\ w[u].op = "pend" => l.event[w[u].event].type = w[u].type
                                 /\ w[u].op = "flag" => l.flag[w[u].grp].type = "FLAG"
      BY <2>1, <2>5, <2>6 DEF TaskOK
    <2> QED
      BY <2>1, <2>4, <2>5, <2>7 DEF TaskOK
  <1>8. TaskOK(l, w[t], t)
    <2>1. y.prio = new /\ SameWait(x, y) /\ l.prioTbl[new] = t /\ l.flag = k.flag
          /\ \A e \in EventIds : l.event[e].type = k.event[e].type
      BY <1>6 DEF PrioChanged
    <2>2. (Listed(x) <=> Listed(y)) /\ (Runnable(x) <=> Runnable(y)) /\ Local(y, w[t])
      BY <1>4, <2>1, SameWaitTask
    <2>3. new \in Members(l.rdy) <=> old \in Members(k.rdy)
      BY <1>6 DEF PrioChanged
    <2>4. \A e \in EventIds : new \in Waiters(l, e) <=> old \in Waiters(k, e)
      BY <1>6 DEF PrioChanged
    <2>6. PendEvents(w[t]) \subseteq EventIds
          /\ (w[t].op = "pend" => w[t].event \in EventIds)
          /\ (w[t].op = "multi" => w[t].events \subseteq EventIds)
      BY <1>4, WaitTypes
    <2>7. /\ w[t].op = "multi" => \A e \in w[t].events : l.event[e].type \in {"SEM", "MBOX", "Q"}
          /\ Listed(x) => /\ w[t].op = "pend" => l.event[w[t].event].type = w[t].type
                          /\ w[t].op = "flag" => l.flag[w[t].grp].type = "FLAG"
      BY <1>2, <2>1, <2>6 DEF TaskOK
    <2> HIDE DEF x
    <2> QED
      BY <1>4, <2>1, <2>2, <2>3, <2>4, <2>7 DEF TaskOK
  <1>9. ASSUME NEW p \in Prios, Holder(k, L, p), p # old PROVE p # new /\ Holder(l, L, p)
    <2>1. p # new
      BY <1>1, <1>9 DEF Holder
    <2>2. k.prioTbl[p] \in TCBs /\ k.prioTbl[p] # t
      BY <1>1, <1>9 DEF Holder
    <2> QED
      BY <1>6, <1>9, <2>1, <2>2 DEF Holder, PrioChanged
  <1>10. Holder(l, L, new)
    BY <1>6 DEF Holder, PrioChanged
  <1>11. ASSUME NEW p \in Members(l.rdy) PROVE Holder(l, L, p)
    <2>1. p \in Prios
      BY MembersPrios
    <2>2. p = new \/ (p # old /\ p \in Members(k.rdy))
      BY <1>6, <2>1 DEF PrioChanged
    <2> QED
      BY <1>9, <1>10, <2>1, <2>2 DEF Core
  <1>12. ASSUME NEW e \in EventIds, NEW p \in Waiters(l, e) PROVE Holder(l, L, p)
    <2>1. p \in Prios
      BY MembersPrios DEF Waiters
    <2>2. p = new \/ (p # old /\ p \in Waiters(k, e))
      BY <1>6, <2>1 DEF PrioChanged
    <2> QED
      BY <1>9, <1>10, <2>1, <2>2 DEF Core
  <1>13. \A g \in FlagIds : l.flag[g].wait \subseteq L
    BY <1>6 DEF Core, PrioChanged
  <1>14. Core(l, L, w)
    BY <1>1, <1>7, <1>8, <1>11, <1>12, <1>13 DEF Core
  <1> QED
    BY <1>6, <1>14

LinkIn(k, t, p) == MakeReady([k EXCEPT !.prioTbl[p] = t, !.list = @ \cup {t}], {t})

(* What OS_TCBInit leaves when it links task t at priority p. *)
Linked(k, l, t, p) ==
  /\ l.tcb = k.tcb /\ l.event = k.event /\ l.flag = k.flag
  /\ \A u : u \in l.list <=> u \in k.list \/ u = t
  /\ l.free = k.free /\ l.freeEvents = k.freeEvents /\ l.freeFlags = k.freeFlags
  /\ l.cur = k.cur /\ l.prioCur = k.prioCur /\ l.lock = k.lock /\ l.running = k.running
  /\ l.prioTbl[p] = t /\ \A q \in Prios : q # p => l.prioTbl[q] = k.prioTbl[q]
  /\ \A q \in Prios : q \in Members(l.rdy) <=> q \in Members(k.rdy) \/ q = p

LEMMA LinkShape ==
  ASSUME NEW k, Data(k), NEW t \in TCBs, NEW p \in Prios, k.tcb[t].prio = p, NEW l, l = LinkIn(k, t, p)
  PROVE  Data(l) /\ Linked(k, l, t, p)
  <1> DEFINE m == [k EXCEPT !.prioTbl[p] = t, !.list = @ \cup {t}]
  <1>1. DOMAIN k = Fields /\ DOMAIN k.prioTbl = Prios /\ k.rdy \in Table
    BY DEF Data
  <1>2. /\ DOMAIN m = Fields /\ m.tcb = k.tcb /\ m.event = k.event /\ m.flag = k.flag /\ m.rdy = k.rdy
        /\ m.list = k.list \cup {t} /\ m.free = k.free
        /\ m.freeEvents = k.freeEvents /\ m.freeFlags = k.freeFlags
        /\ m.cur = k.cur /\ m.prioCur = k.prioCur /\ m.lock = k.lock /\ m.running = k.running
    BY <1>1 DEF Fields
  <1>3. /\ DOMAIN m.prioTbl = Prios
        /\ m.prioTbl[p] = t /\ \A q \in Prios : q # p => m.prioTbl[q] = k.prioTbl[q]
    BY <1>1 DEF Fields
  <1> HIDE DEF m
  <1>4. /\ Rest(m, l) /\ l.tcb = m.tcb /\ l.event = m.event /\ l.flag = m.flag
        /\ l.rdy = Insert(k.rdy, {p})
    <2>1. l = MakeReady(m, {t})
      BY DEF LinkIn, m
    <2> QED
      BY <1>2, <2>1 DEF MakeReady, Rest, Fields
  <1>5. l.rdy \in Table /\ \A q \in Prios : q \in Members(l.rdy) <=> q \in Members(k.rdy) \/ q = p
    BY <1>1, <1>4, InsertMembers
  <1>6. Linked(k, l, t, p)
    BY <1>2, <1>3, <1>4, <1>5 DEF Linked, Rest
  <1>7. Data(l)
    <2>1. \A q \in Prios : l.prioTbl[q] \in TCBs \cup {None, Reserved}
      BY <1>6 DEF Linked, Data
    <2>2. l.list \subseteq TCBs
      BY <1>6 DEF Linked, Data
    <2> QED
      BY <1>2, <1>3, <1>4, <1>5, <2>1, <2>2 DEF Data, Rest
  <1> QED
    BY <1>6, <1>7

LEMMA LinkCore ==
  ASSUME NEW k, NEW L, NEW w, NEW v, NEW M, NEW t \in TCBs, t \notin L, Data(k), Core(k, L, w),
         NEW p \in Prios, k.tcb[t].prio = p, k.prioTbl[p] = Reserved,
         Calm(k.tcb[t]), Fresh(k.tcb[t]), v[t] = Sched, \A u \in L : v[u] = w[u],
         \A u : u \in M <=> u \in L \/ u = t, NEW l, l = LinkIn(k, t, p)
  PROVE  Data(l) /\ Linked(k, l, t, p) /\ Core(l, M, v)
  <1>1. Data(l) /\ Linked(k, l, t, p)
    BY LinkShape
  <1>2. L \subseteq TCBs /\ Reserved \notin L /\ M \subseteq TCBs
    BY NullAssumption DEF Core
  <1>3. p \notin Members(k.rdy) /\ \A e \in EventIds : p \notin Waiters(k, e)
    BY <1>2 DEF Core, Holder
  <1>4. \A e \in EventIds : Waiters(l, e) = Waiters(k, e)
    BY <1>1 DEF Linked, Waiters
  <1>5. ASSUME NEW q \in Prios, Holder(k, L, q) PROVE Holder(l, M, q)
    <2>1. q # p
      BY <1>2, <1>5 DEF Holder
    <2> QED
      BY <1>1, <1>5, <2>1 DEF Holder, Linked
  <1>6. Holder(l, M, p)
    BY <1>1 DEF Holder, Linked
  <1>7. ASSUME NEW u \in L PROVE TaskOK(l, v[u], u)
    <2>1. TaskOK(k, v[u], u) /\ k.tcb[u].prio \in Prios
      BY <1>2 DEF Core, Data
    <2>2. k.tcb[u].prio # p
      BY <1>2, <2>1 DEF TaskOK
    <2>3. /\ l.tcb = k.tcb /\ l.flag = k.flag /\ l.event = k.event
          /\ l.prioTbl[k.tcb[u].prio] = k.prioTbl[k.tcb[u].prio]
          /\ k.tcb[u].prio \in Members(l.rdy) <=> k.tcb[u].prio \in Members(k.rdy)
      BY <1>1, <2>1, <2>2 DEF Linked
    <2> QED
      BY <1>4, <2>1, <2>3 DEF TaskOK
  <1>8. TaskOK(l, v[t], t)
    <2> DEFINE x == k.tcb[t]
    <2>1. /\ l.tcb[t] = x /\ l.prioTbl[p] = t /\ p \in Members(l.rdy) /\ l.flag = k.flag
      BY <1>1 DEF Linked
    <2>2. \A g \in FlagIds : t \notin l.flag[g].wait
      BY <2>1 DEF Core
    <2>3. x.prio = p /\ Calm(x) /\ Fresh(x)
      OBVIOUS
    <2> HIDE DEF x
    <2>4. ~Waits(x) /\ ~Listed(x) /\ Runnable(x) /\ Local(x, Sched)
      BY <2>3 DEF Calm, Fresh, Waits, Listed, Runnable, Suspended, Local, Sched, WaitOps
    <2>5. \A e \in EventIds : p \notin Waiters(l, e)
      BY <1>3, <1>4
    <2> QED
      BY <2>1, <2>2, <2>3, <2>4, <2>5 DEF TaskOK, PendEvents, Sched
  <1>9. ASSUME NEW q \in Members(l.rdy) PROVE Holder(l, M, q)
    <2>1. q \in Prios
      BY MembersPrios
    <2>2. q \in Members(k.rdy) \/ q = p
      BY <1>1, <2>1 DEF Linked
    <2> QED
      BY <1>5, <1>6, <2>1, <2>2 DEF Core
  <1>10. ASSUME NEW e \in EventIds, NEW q \in Waiters(l, e) PROVE Holder(l, M, q)
    <2>1. q \in Prios /\ q \in Waiters(k, e)
      BY <1>4, MembersPrios DEF Waiters
    <2> QED
      BY <1>5, <2>1 DEF Core
  <1>11. \A g \in FlagIds : l.flag[g].wait \subseteq M
    BY <1>1 DEF Core, Linked
  <1>12. \A u \in M : TaskOK(l, v[u], u)
    BY <1>7, <1>8
  <1> QED
    BY <1>1, <1>2, <1>9, <1>10, <1>11, <1>12 DEF Core

(* In l event control block e, with nobody in its wait list, is another. *)
Refilled(k, l, e) ==
  /\ DOMAIN l = Fields
  /\ l.tcb = k.tcb /\ l.prioTbl = k.prioTbl /\ l.rdy = k.rdy /\ l.list = k.list /\ l.free = k.free
  /\ l.flag = k.flag /\ l.freeFlags = k.freeFlags
  /\ l.cur = k.cur /\ l.prioCur = k.prioCur /\ l.lock = k.lock /\ l.running = k.running
  /\ DOMAIN l.event = EventIds
  /\ \A f \in EventIds : f # e => l.event[f] = k.event[f]
  /\ DOMAIN l.event[e] = ECBFields /\ l.event[e].wait \in Table /\ Waiters(l, e) = {}

LEMMA RefilledCore ==
  ASSUME NEW k, NEW L, NEW w, Data(k), Core(k, L, w), NEW e \in EventIds, Waiters(k, e) = {},
         \A t \in L : w[t].op = "multi" => e \notin w[t].events,
         NEW l, Refilled(k, l, e)
  PROVE  Data(l) /\ Elsewhere(k, l, Nobody) /\ Core(l, L, w)
  <1>1. Data(l)
    BY DEF Data, Refilled
  <1>2. \A f \in EventIds : Waiters(l, f) = Waiters(k, f)
    BY DEF Refilled, Waiters
  <1>3. ASSUME NEW t \in L PROVE TaskOK(l, w[t], t)
    <2>1. TaskOK(k, w[t], t)
      BY DEF Core
    <2>2. \A f \in EventIds : f \in PendEvents(w[t]) /\ Listed(k.tcb[t]) => f # e
      BY <2>1 DEF TaskOK
    <2>3. w[t] \in WaitStep \cup {Sched}
      BY <2>1 DEF TaskOK
    <2>4. l.tcb = k.tcb /\ l.flag = k.flag /\ l.prioTbl = k.prioTbl /\ l.rdy = k.rdy
          /\ \A f \in EventIds : f # e => l.event[f] = k.event[f]
      BY DEF Refilled
    <2>6. w[t].op = "multi" => \A f \in w[t].events : l.event[f].type \in {"SEM", "MBOX", "Q"}
      <3>1. w[t].op = "multi" => \A f \in w[t].events : f # e /\ f \in EventIds
        BY <2>3, WaitTypes
      <3> QED
        BY <2>1, <2>4, <3>1 DEF TaskOK
    <2>5. Listed(k.tcb[t]) => /\ w[t].op = "pend" => l.event[w[t].event].type = w[t].type
                              /\ w[t].op = "flag" => l.flag[w[t].grp].type = "FLAG"
      BY <2>1, <2>2, <2>3, <2>4, WaitTypes DEF TaskOK, PendEvents
    <2> QED
      BY <1>2, <2>1, <2>4, <2>5, <2>6 DEF TaskOK
  <1>4. Core(l, L, w)
    BY <1>2, <1>3 DEF Core, Refilled, Holder
  <1>5. Elsewhere(k, l, Nobody)
    BY <1>2 DEF Elsewhere, Refilled, Nobody, Alike
  <1> QED
    BY <1>1, <1>4, <1>5

(* The same for flag group g. *)
Regrouped(k, l, g) ==
  /\ DOMAIN l = Fields
  /\ l.tcb = k.tcb /\ l.prioTbl = k.prioTbl /\ l.rdy = k.rdy /\ l.list = k.list /\ l.free = k.free
  /\ l.event = k.event /\ l.freeEvents = k.freeEvents
  /\ l.cur = k.cur /\ l.prioCur = k.prioCur /\ l.lock = k.lock /\ l.running = k.running
  /\ DOMAIN l.flag = FlagIds
  /\ \A f \in FlagIds : f # g => l.flag[f] = k.flag[f]
  /\ DOMAIN l.flag[g] = FlagFields /\ l.flag[g].wait = {}

LEMMA RegroupedCore ==
  ASSUME NEW k, NEW L, NEW w, Data(k), Core(k, L, w), NEW g \in FlagIds, k.flag[g].wait = {},
         NEW l, Regrouped(k, l, g)
  PROVE  Data(l) /\ Elsewhere(k, l, Nobody) /\ Core(l, L, w)
  <1>1. Data(l)
    BY DEF Data, Regrouped
  <1>2. \A f \in EventIds : Waiters(l, f) = Waiters(k, f)
    BY DEF Regrouped, Waiters
  <1>21. \A f \in FlagIds : l.flag[f].wait = k.flag[f].wait
    BY DEF Regrouped
  <1>3. ASSUME NEW t \in L PROVE TaskOK(l, w[t], t)
    <2>1. TaskOK(k, w[t], t)
      BY DEF Core
    <2>3. w[t] \in WaitStep \cup {Sched}
      BY <2>1 DEF TaskOK
    <2>2. w[t].op = "flag" /\ Listed(k.tcb[t]) => w[t].grp # g
      BY <2>1 DEF TaskOK
    <2>4. l.tcb = k.tcb /\ l.event = k.event /\ l.prioTbl = k.prioTbl /\ l.rdy = k.rdy
          /\ \A f \in FlagIds : f # g => l.flag[f] = k.flag[f]
      BY DEF Regrouped
    <2>5. /\ w[t].op = "multi" => \A f \in w[t].events : l.event[f].type \in {"SEM", "MBOX", "Q"}
          /\ Listed(k.tcb[t]) => /\ w[t].op = "pend" => l.event[w[t].event].type = w[t].type
                                 /\ w[t].op = "flag" => l.flag[w[t].grp].type = "FLAG"
      BY <2>1, <2>2, <2>3, <2>4, WaitTypes DEF TaskOK
    <2> QED
      BY <1>2, <1>21, <2>1, <2>4, <2>5 DEF TaskOK
  <1>4. Core(l, L, w)
    BY <1>2, <1>21, <1>3 DEF Core, Regrouped, Holder
  <1>5. Elsewhere(k, l, Nobody)
    BY <1>2, <1>21 DEF Elsewhere, Regrouped, Nobody, Alike
  <1> QED
    BY <1>1, <1>4, <1>5

(* Nobody waits for what is not in use. *)
LEMMA UnusedNoWaiter ==
  ASSUME NEW k, NEW L, NEW w, Data(k), Core(k, L, w)
  PROVE  /\ \A e \in EventIds : k.event[e].type = "UNUSED" =>
              Waiters(k, e) = {} /\ \A t \in L : w[t].op = "multi" => e \notin w[t].events
         /\ \A g \in FlagIds : k.flag[g].type = "UNUSED" => k.flag[g].wait = {}
  <1>1. ASSUME NEW e \in EventIds, k.event[e].type = "UNUSED", NEW p \in Waiters(k, e) PROVE FALSE
    <2> DEFINE t == k.prioTbl[p]
    <2>1. t \in L /\ k.tcb[t].prio = p
      BY DEF Core, Holder
    <2>2. TaskOK(k, w[t], t)
      BY <2>1 DEF Core
    <2>3. e \in PendEvents(w[t]) /\ Listed(k.tcb[t]) /\ w[t] \in WaitStep \cup {Sched}
      BY <2>1, <2>2 DEF TaskOK
    <2> HIDE DEF t
    <2> QED
      BY <1>1, <2>2, <2>3, WaitTypes DEF TaskOK, PendEvents
  <1>2. ASSUME NEW g \in FlagIds, k.flag[g].type = "UNUSED", NEW t \in k.flag[g].wait PROVE FALSE
    <2>1. TaskOK(k, w[t], t)
      BY DEF Core
    <2> QED
      BY <1>2, <2>1 DEF TaskOK
  <1>3. ASSUME NEW e \in EventIds, k.event[e].type = "UNUSED", NEW t \in L, w[t].op = "multi"
        PROVE  e \notin w[t].events
    BY <1>3 DEF Core, TaskOK
  <1> QED
    BY <1>1, <1>2, <1>3

(***************************************************************************)
(* The steps a service leaves.                                             *)
(***************************************************************************)
NextOp(s) == IF s = <<>> THEN "none" ELSE Head(s).op

LEMMA StepForms ==
  /\ Steps(<<>>) /\ NextOp(<<>>) = "none" /\ WaitOf(<<>>) = Sched
  /\ Steps(<<Sched>>) /\ NextOp(<<Sched>>) = "OS_Sched" /\ WaitOf(<<Sched>>) = Sched
  /\ \A w \in WaitStep : /\ Steps(<<Sched, w>>) /\ NextOp(<<Sched, w>>) = "OS_Sched" /\ WaitOf(<<Sched, w>>) = w
                         /\ Steps(<<w>>) /\ NextOp(<<w>>) = w.op /\ WaitOf(<<w>>) = w
                         /\ Tail(<<Sched, w>>) = <<w>> /\ Tail(<<w>>) = <<>>
  /\ \A w \in OtherStep : Steps(<<w>>) /\ NextOp(<<w>>) = w.op /\ WaitOf(<<w>>) = Sched /\ Tail(<<w>>) = <<>>
  /\ Tail(<<Sched>>) = <<>>
  <1>1. /\ Steps(<<>>) /\ Steps(<<Sched>>)
        /\ \A w \in WaitStep : Steps(<<Sched, w>>) /\ Steps(<<w>>)
        /\ \A w \in OtherStep : Steps(<<w>>)
    BY DEF Steps
  <1>2. NextOp(<<>>) = "none" /\ WaitOf(<<>>) = Sched
    BY DEF NextOp, WaitOf
  <1>3. ASSUME NEW w
        PROVE  /\ <<w>> # <<>> /\ Len(<<w>>) = 1 /\ <<w>>[1] = w /\ Head(<<w>>) = w /\ Tail(<<w>>) = <<>>
               /\ <<Sched, w>> # <<>> /\ Len(<<Sched, w>>) = 2 /\ <<Sched, w>>[2] = w
               /\ Head(<<Sched, w>>) = Sched /\ Tail(<<Sched, w>>) = <<w>>
    OBVIOUS
  <1>4. Sched.op = "OS_Sched" /\ "OS_Sched" \notin WaitOps
    BY DEF Sched, WaitOps
  <1>5. NextOp(<<Sched>>) = "OS_Sched" /\ WaitOf(<<Sched>>) = Sched
    BY <1>3, <1>4 DEF NextOp, WaitOf
  <1>6. ASSUME NEW w \in WaitStep
        PROVE  /\ NextOp(<<Sched, w>>) = "OS_Sched" /\ WaitOf(<<Sched, w>>) = w
               /\ NextOp(<<w>>) = w.op /\ WaitOf(<<w>>) = w
    <2>1. w.op \in WaitOps
      BY WaitTypes
    <2> QED
      BY <1>3, <1>4, <2>1 DEF NextOp, WaitOf
  <1>7. ASSUME NEW w \in OtherStep
        PROVE  NextOp(<<w>>) = w.op /\ WaitOf(<<w>>) = Sched
    <2>1. w.op \notin WaitOps
      BY DEF OtherStep, WaitOps
    <2> QED
      BY <1>3, <2>1 DEF NextOp, WaitOf
  <1> QED
    BY <1>1, <1>2, <1>3, <1>5, <1>6, <1>7

LEMMA AtNext == \A t : At(t) = NextOp(pc[t])
  BY DEF At, NextOp

(***************************************************************************)
(* The rules an application without mutexes keeps to while it runs, and    *)
(* the invariant.                                                          *)
(***************************************************************************)
NoMutex(k) == \A e \in EventIds : k.event[e].type # "MUTEX"
SeveralAllowed == \A c \in NotWithMulti : c \notin app.calls
Rules ==
  /\ app \in Profiles
  /\ NoMutex(os)
  /\ ~SeveralAllowed => \A t \in TCBs : Waiting[t].op # "multi"
Inv == TInv /\ Rules

(* A step after which the running task, if no handler runs, has steps left. *)
Continues(steps) ==
  /\ pc' = IF isr = "none" THEN [pc EXCEPT ![os.cur] = steps] ELSE pc
  /\ app' = app
  /\ isr' = "none" <=> isr = "none"

LEMMA LeaveContinues ==
  ASSUME NEW l, NEW steps, Leave(l, steps) PROVE Continues(steps) /\ os' = l
  BY DEF Leave, Continues

(* The steps and the waits after it.                                       *)
LEMMA PcAfter ==
  ASSUME DOMAIN pc = TCBs, os.cur \in TCBs, NEW steps, Continues(steps)
  PROVE  /\ DOMAIN pc' = TCBs /\ app' = app /\ (isr' = "none" <=> isr = "none")
         /\ \A t \in TCBs : t = os.cur /\ isr = "none" =>
              pc'[t] = steps /\ NextOp(pc'[t]) = NextOp(steps) /\ Waiting'[t] = WaitOf(steps)
         /\ isr # "none" => pc' = pc
         /\ \A t \in TCBs : t # os.cur \/ isr # "none" =>
              pc'[t] = pc[t] /\ NextOp(pc'[t]) = At(t) /\ Waiting'[t] = Waiting[t]
         /\ (isr = "none" => WaitOf(steps) = Waiting[os.cur]) => Waiting' = Waiting
  <1>1. /\ DOMAIN pc' = TCBs /\ app' = app /\ (isr' = "none" <=> isr = "none")
        /\ isr = "none" => pc'[os.cur] = steps
        /\ isr # "none" => pc' = pc
        /\ \A t \in TCBs : t # os.cur \/ isr # "none" => pc'[t] = pc[t]
    BY DEF Continues
  <1>2. \A t \in TCBs : At(t) = NextOp(pc[t])
    BY AtNext
  <1>3. \A t \in TCBs : Waiting'[t] = WaitOf(pc'[t]) /\ Waiting[t] = WaitOf(pc[t])
    BY DEF Waiting
  <1>4. \A t \in TCBs : t = os.cur /\ isr = "none" => NextOp(pc'[t]) = NextOp(steps) /\ Waiting'[t] = WaitOf(steps)
    BY <1>1, <1>3
  <1>5. \A t \in TCBs : t # os.cur \/ isr # "none" => NextOp(pc'[t]) = At(t) /\ Waiting'[t] = Waiting[t]
    BY <1>1, <1>2, <1>3
  <1>6. ASSUME isr = "none" => WaitOf(steps) = Waiting[os.cur] PROVE Waiting' = Waiting
    <2>1. \A t \in TCBs : WaitOf(pc'[t]) = WaitOf(pc[t])
      BY <1>1, <1>3, <1>6
    <2> QED
      BY <2>1 DEF Waiting
  <1> QED
    BY <1>1, <1>4, <1>5, <1>6

(* Who is being deleted, being created, or creating a queue.               *)
LEMMA SameOps ==
  ASSUME DOMAIN pc = TCBs, os.cur \in TCBs, NEW steps, Continues(steps), NEW op, op # "none",
         isr = "none" => At(os.cur) # op /\ NextOp(steps) # op
  PROVE  \A t \in TCBs : /\ NextOp(pc'[t]) = op <=> At(t) = op
                         /\ At(t) = op => pc'[t] = pc[t]
  <1> SUFFICES ASSUME NEW t \in TCBs
               PROVE  (NextOp(pc'[t]) = op <=> At(t) = op) /\ (At(t) = op => pc'[t] = pc[t])
    OBVIOUS
  <1>1. CASE t = os.cur /\ isr = "none"
    BY <1>1, PcAfter
  <1>2. CASE t # os.cur \/ isr # "none"
    BY <1>2, PcAfter
  <1> QED
    BY <1>1, <1>2

LEMMA DummyTasks ==
  BeingDeleted = {t \in TCBs : \E u \in TCBs : At(u) = "OS_Dummy" /\ Head(pc[u]).tcb = t}
  BY DEF BeingDeleted, At

(***************************************************************************)
(* A critical section that changes the waits of the tasks S of Live only   *)
(* keeps the invariant, if it neither stops the running task nor makes a   *)
(* task ready without a call of OS_Sched.                                  *)
(***************************************************************************)
(* Neither the running task nor what it leaves deletes or creates a task.  *)
Ordinary(steps) ==
  /\ Steps(steps) /\ NextOp(steps) \notin CreationOps \cup {"OS_Dummy"}
  /\ isr = "none" => /\ os.cur # Idle
                     /\ At(os.cur) \notin CreationOps \cup {"OS_Dummy", "OS_Sched"}
(* The running task stays ready unless it calls OS_Sched, the idle task    *)
(* always.                                                                 *)
KeepsRunning(l, steps) ==
  /\ isr # "none" \/ NextOp(steps) # "OS_Sched" \/ os.lock # 0 =>
       (IsReady(os, os.cur) => Cur.prio \in Members(l.rdy))
  /\ OS_TASK_IDLE_PRIO \in Members(os.rdy) => OS_TASK_IDLE_PRIO \in Members(l.rdy)
(* Nobody else becomes ready unless it calls OS_Sched.                     *)
KeepsHighest(l, steps) ==
  isr = "none" /\ os.lock = 0 /\ ~Excepted /\ NextOp(steps) # "OS_Sched" =>
    \A p \in Members(l.rdy) : p \in Members(os.rdy)

LEMMA LiveSame ==
  ASSUME DOMAIN pc = TCBs, os.cur \in TCBs, NEW steps, Continues(steps), os'.list = os.list,
         NextOp(steps) # "OS_Dummy", isr = "none" => At(os.cur) # "OS_Dummy"
  PROVE  Live' = Live /\ BeingDeleted' = BeingDeleted
  <1>1. \A t \in TCBs : (NextOp(pc'[t]) = "OS_Dummy" <=> At(t) = "OS_Dummy")
                        /\ (At(t) = "OS_Dummy" => pc'[t] = pc[t])
    BY SameOps
  <1>2. BeingDeleted' = {t \in TCBs : \E u \in TCBs : NextOp(pc'[u]) = "OS_Dummy" /\ Head(pc'[u]).tcb = t}
    BY DEF BeingDeleted, NextOp
  <1>3. BeingDeleted' = BeingDeleted
    BY <1>1, <1>2, DummyTasks
  <1> QED
    BY <1>3 DEF Live

LEMMA StepsAfter ==
  ASSUME DOMAIN pc = TCBs, os.cur \in TCBs, NEW steps, Continues(steps), Steps(steps),
         \A t \in TCBs : Steps(pc[t])
  PROVE  \A t \in TCBs : Steps(pc'[t])
  BY PcAfter

(* A task that does neither runs and is ready.                             *)
LEMMA OrdinaryRunning ==
  ASSUME TInv, os.running, At(os.cur) \notin {"OS_Sched", "OS_Dummy"}
  PROVE  /\ os.cur \in Live /\ os.cur \in os.list /\ Runnable(Cur) /\ Cur.prio = os.prioCur
         /\ IsReady(os, os.cur) /\ os.prioCur \in Prios
  <1>1. ~Stopping
    BY DEF Stopping
  <1>2. os.cur \in Live /\ Runnable(Cur)
    BY <1>1 DEF TInv, Running, Cur
  <1>3. os.cur \in os.list /\ Cur.prio = os.prioCur
    BY <1>2 DEF TInv, Running, Live, Cur
  <1>4. IsReady(os, os.cur)
    BY <1>2 DEF TInv, Core, TaskOK, IsReady, Cur
  <1>5. os.prioCur \in Prios
    BY <1>3 DEF TInv, Data, Cur
  <1> QED
    BY <1>2, <1>3, <1>4, <1>5

LEMMA IdleApart ==
  ASSUME TInv
  PROVE  /\ OS_TASK_IDLE_PRIO \in Prios /\ Idle \in TCBs
         /\ \A t \in os.list : t # Idle => os.tcb[t].prio # OS_TASK_IDLE_PRIO
  BY DEF TInv, Lists, Data

LEMMA ListsKept ==
  ASSUME TInv, os.running, NEW steps, Continues(steps), Ordinary(steps),
         NEW S \in SUBSET Live, Elsewhere(os, os', S)
  PROVE  Lists'
  <1>1. DOMAIN pc = TCBs /\ os.cur \in TCBs
    BY DEF TInv, Data
  <1>2. /\ os'.list = os.list /\ os'.prioTbl = os.prioTbl /\ os'.cur = os.cur /\ os'.lock = os.lock
        /\ \A t \in TCBs : os'.tcb[t].prio = os.tcb[t].prio
        /\ \A t \in TCBs \ S : Alike(os.tcb[t], os'.tcb[t])
    BY DEF Elsewhere
  <1>3. Idle \in TCBs /\ os.list \subseteq TCBs
    BY DEF TInv, Lists, Data
  <1>4. /\ Idle \in os'.list /\ os'.tcb[Idle].prio = OS_TASK_IDLE_PRIO
    BY <1>2, <1>3 DEF TInv, Lists
  <1>5. pc'[Idle] = <<>>
    BY <1>1, <1>3, PcAfter DEF TInv, Lists, Ordinary
  <1>6. \A t \in os'.list : os'.prioTbl[os'.tcb[t].prio] = t
    BY <1>2, <1>3 DEF TInv, Lists
  <1>7. \A p \in Prios : os'.prioTbl[p] \in TCBs =>
          os'.prioTbl[p] \in os'.list /\ (~UsesMutexes(app') => os'.tcb[os'.prioTbl[p]].prio = p)
    BY <1>1, <1>2, PcAfter DEF TInv, Lists
  <1>8. ASSUME NEW t \in TCBs \ os'.list
        PROVE  NextOp(pc'[t]) \in {"none", "OS_Sched"} /\ Waiting'[t] = Sched
    <2>1. isr = "none" => t # os.cur
      BY <1>2, OrdinaryRunning DEF Ordinary
    <2>2. NextOp(pc'[t]) = At(t) /\ Waiting'[t] = Waiting[t]
      BY <1>1, <1>2, <2>1, PcAfter
    <2> QED
      BY <1>2, <2>2 DEF TInv, Lists
  <1>9. ASSUME NEW t \in TCBs, NextOp(pc'[t]) = "OS_Dummy"
        PROVE  LET d == Head(pc'[t])
               IN  /\ t = os'.cur /\ os'.lock > 0 /\ d.tcb \in os'.list \ {Idle}
                   /\ os'.tcb[d.tcb].prio = d.prio /\ Calm(os'.tcb[d.tcb])
                   /\ d.tcb = t => os'.lock = 1
                   /\ d.tcb # t => NextOp(pc'[d.tcb]) \in {"none", "OS_Sched"} \cup WaitOps
    <2>1. At(t) = "OS_Dummy" /\ pc'[t] = pc[t]
      BY <1>1, <1>9, SameOps DEF Ordinary
    <2> DEFINE d == Head(pc[t])
    <2>2. /\ t = os.cur /\ os.lock > 0 /\ d.tcb \in os.list \ {Idle}
          /\ os.tcb[d.tcb].prio = d.prio /\ Calm(os.tcb[d.tcb])
          /\ d.tcb = t => os.lock = 1
          /\ d.tcb # t => NextOp(pc[d.tcb]) \in {"none", "OS_Sched"} \cup WaitOps
      BY <2>1, AtNext DEF TInv, Lists
    <2>3. isr # "none"
      BY <2>1, <2>2 DEF Ordinary
    <2>4. d.tcb \in TCBs \ S
      <3>1. d.tcb \in BeingDeleted
        BY <2>1, <2>2, <1>3, DummyTasks
      <3> QED
        BY <3>1, <2>2, <1>3 DEF Live
    <2> HIDE DEF d
    <2>5. Calm(os'.tcb[d.tcb])
      BY <1>2, <2>2, <2>4, AlikeTask
    <2>6. NextOp(pc'[d.tcb]) = NextOp(pc[d.tcb])
      BY <1>1, <2>3, <2>4, PcAfter
    <2>7. d = Head(pc'[t])
      BY <2>1 DEF d
    <2> QED
      BY <1>2, <2>2, <2>4, <2>5, <2>6, <2>7
  <1> QED
    BY <1>4, <1>5, <1>6, <1>7, <1>8, <1>9 DEF Lists, At, NextOp

LEMMA CreationsKept ==
  ASSUME TInv, os.running, NEW steps, Continues(steps), Ordinary(steps),
         NEW S \in SUBSET Live, Elsewhere(os, os', S)
  PROVE  Creations'
  <1>1. DOMAIN pc = TCBs /\ os.cur \in TCBs
    BY DEF TInv, Data
  <1>2. /\ os'.list = os.list /\ os'.prioTbl = os.prioTbl /\ os'.free = os.free
        /\ \A t \in TCBs : os'.tcb[t].prio = os.tcb[t].prio
        /\ \A t \in TCBs \ S : Alike(os.tcb[t], os'.tcb[t])
    BY DEF Elsewhere
  <1>3. \A t \in TCBs : \A op \in CreationOps :
          /\ NextOp(pc'[t]) = op <=> At(t) = op
          /\ At(t) = op => pc'[t] = pc[t]
    <2>1. ASSUME NEW op \in CreationOps
          PROVE  \A t \in TCBs : (NextOp(pc'[t]) = op <=> At(t) = op) /\ (At(t) = op => pc'[t] = pc[t])
      BY <1>1, SameOps DEF CreationOps, Ordinary
    <2> QED
      BY <2>1
  <1>4. \A t \in TCBs : NextOp(pc'[t]) \in CreationOps => At(t) \in CreationOps /\ pc'[t] = pc[t]
    BY <1>3
  <1>5. "link" \in CreationOps
    BY DEF CreationOps
  <1>6. \A t \in TCBs : NextOp(pc'[t]) \in CreationOps => os'.prioTbl[Head(pc'[t]).prio] = Reserved
    BY <1>2, <1>4 DEF TInv, Creations
  <1>7. \A t, u \in TCBs : NextOp(pc'[t]) \in CreationOps /\ NextOp(pc'[u]) \in CreationOps
                             /\ Head(pc'[t]).prio = Head(pc'[u]).prio => t = u
    BY <1>4 DEF TInv, Creations
  <1>8. ASSUME NEW t \in TCBs, NextOp(pc'[t]) = "link"
        PROVE  LET c == Head(pc'[t])
               IN  /\ c.tcb \in TCBs \ os'.list /\ os'.tcb[c.tcb].prio = c.prio
                   /\ Calm(os'.tcb[c.tcb]) /\ Fresh(os'.tcb[c.tcb])
                   /\ \A i \in DOMAIN os'.free : os'.free[i] # c.tcb
    <2>1. At(t) = "link" /\ pc'[t] = pc[t]
      BY <1>3, <1>5, <1>8
    <2> DEFINE c == Head(pc[t])
    <2>2. /\ c.tcb \in TCBs \ os.list /\ os.tcb[c.tcb].prio = c.prio
          /\ Calm(os.tcb[c.tcb]) /\ Fresh(os.tcb[c.tcb])
          /\ \A i \in DOMAIN os.free : os.free[i] # c.tcb
      BY <2>1 DEF TInv, Creations
    <2>3. c = Head(pc'[t])
      BY <2>1
    <2> HIDE DEF c
    <2>4. c.tcb \in TCBs \ S
      BY <2>2 DEF Live
    <2>5. Calm(os'.tcb[c.tcb]) /\ Fresh(os'.tcb[c.tcb])
      BY <1>2, <2>2, <2>4, AlikeTask
    <2> QED
      BY <1>2, <2>2, <2>3, <2>4, <2>5
  <1>9. \A t, u \in TCBs : NextOp(pc'[t]) = "link" /\ NextOp(pc'[u]) = "link"
                             /\ Head(pc'[t]).tcb = Head(pc'[u]).tcb => t = u
    BY <1>3, <1>5 DEF TInv, Creations
  <1>10. os'.free \in Seq(TCBs \ os'.list) /\ Distinct(os'.free)
    BY <1>2 DEF TInv, Creations
  <1> QED
    BY <1>6, <1>7, <1>8, <1>9, <1>10 DEF Creations, At, NextOp

LEMMA RunningKept ==
  ASSUME KInv, TInv, KInv', os.running, NEW steps, Continues(steps), Ordinary(steps),
         NEW S \in SUBSET Live, Data(os'), Elsewhere(os, os', S), Core(os', Live, Waiting'),
         KeepsRunning(os', steps), KeepsHighest(os', steps)
  PROVE  Running'
  <1>1. DOMAIN pc = TCBs /\ os.cur \in TCBs
    BY DEF TInv, Data
  <1>2. /\ os'.list = os.list /\ os'.prioTbl = os.prioTbl /\ os'.cur = os.cur /\ os'.lock = os.lock
        /\ os'.running /\ os'.prioCur = os.prioCur
        /\ \A t \in TCBs : os'.tcb[t].prio = os.tcb[t].prio
    BY DEF Elsewhere
  <1>3. Live' = Live
    BY <1>1, <1>2, LiveSame DEF Ordinary
  <1>4. app' = app /\ (isr' = "none" <=> isr = "none")
    BY <1>1, PcAfter
  <1>5. ASSUME NextOp(pc'[os.cur]) # "OS_Sched" \/ os.lock # 0,
               ~(NextOp(pc'[os.cur]) = "OS_Dummy" /\ Head(pc'[os.cur]).tcb = os.cur)
        PROVE  os.cur \in Live /\ Cur.prio \in Members(os'.rdy) /\ Runnable(os'.tcb[os.cur])
    <2>1. os.cur \in Live /\ Runnable(os.tcb[os.cur])
      <3>1. CASE isr = "none"
        BY <3>1, OrdinaryRunning DEF Ordinary, Cur
      <3>2. CASE isr # "none"
        <4>1. pc' = pc
          BY <1>1, <3>2, PcAfter
        <4>2. ~Stopping
          BY <1>5, <4>1, AtNext DEF Stopping
        <4> QED
          BY <4>2 DEF TInv, Running
      <3> QED
        BY <3>1, <3>2
    <2>2. IsReady(os, os.cur)
      BY <2>1 DEF TInv, Core, TaskOK, IsReady
    <2>3. Cur.prio \in Members(os'.rdy)
      BY <1>1, <1>5, <2>2, PcAfter DEF KeepsRunning
    <2>4. Runnable(os'.tcb[os.cur])
      BY <1>1, <1>2, <2>1, <2>3 DEF Core, TaskOK, Cur
    <2> QED
      BY <2>1, <2>3, <2>4
  <1>6. \/ os.cur \in os.list /\ os'.tcb[os.cur].prio = os.prioCur
        \/ NextOp(pc'[os.cur]) = "OS_Sched" /\ os.lock = 0 /\ os.prioCur \in Prios
             /\ os.prioTbl[os.prioCur] = None
    <2>1. CASE isr = "none"
      BY <1>1, <1>2, <2>1, OrdinaryRunning DEF Ordinary, Cur
    <2>2. CASE isr # "none"
      BY <1>1, <1>2, <2>2, PcAfter, AtNext DEF TInv, Running
    <2> QED
      BY <2>1, <2>2
  <1>7. ASSUME isr = "none", os.lock = 0, NextOp(pc'[os.cur]) # "OS_Sched", ~Excepted
        PROVE  os.prioCur = Highest(os'.rdy)
    <2>1. /\ os.cur \in Live /\ Cur.prio = os.prioCur /\ IsReady(os, os.cur) /\ os.prioCur \in Prios
          /\ At(os.cur) # "OS_Sched"
      BY <1>7, OrdinaryRunning DEF Ordinary
    <2>2. os.prioCur = Highest(os.rdy)
      BY <1>7, <2>1 DEF TInv, Running
    <2>3. WellFormed(os.rdy) /\ os.rdy \in Table /\ WellFormed(os'.rdy) /\ os'.rdy \in Table
      BY DEF KInv, Good, TInv, Data
    <2>4. os.prioCur \in Members(os.rdy)
      BY <2>1 DEF IsReady, Cur
    <2>5. \A p \in Members(os.rdy) : os.prioCur <= p
      BY <2>2, <2>3, <2>4, HighestFirst
    <2>6. NextOp(steps) # "OS_Sched"
      BY <1>1, <1>7, PcAfter
    <2>7. os.prioCur \in Members(os'.rdy)
      BY <2>1, <2>6 DEF KeepsRunning
    <2>8. \A p \in Members(os'.rdy) : os.prioCur <= p
      BY <1>7, <2>5, <2>6 DEF KeepsHighest
    <2> QED
      BY <2>3, <2>7, <2>8, HighestUnique
  <1>8. Excepted' <=> Excepted
    BY <1>4 DEF Excepted
  <1>9. Stopping' <=> \/ NextOp(pc'[os.cur]) = "OS_Sched" /\ os.lock = 0
                      \/ NextOp(pc'[os.cur]) = "OS_Dummy" /\ Head(pc'[os.cur]).tcb = os.cur
    BY <1>2 DEF Stopping, At, NextOp
  <1>10. At(os.cur)' = NextOp(pc'[os.cur])
    BY <1>2 DEF At, NextOp
  <1>11. OS_TASK_IDLE_PRIO \in Members(os'.rdy)
    BY DEF TInv, Running, KeepsRunning
  <1> QED
    BY <1>2, <1>3, <1>4, <1>5, <1>6, <1>7, <1>8, <1>9, <1>10, <1>11 DEF Running

(* What the next step says.                                                *)
LEMMA NextStep ==
  ASSUME NEW s, Steps(s)
  PROVE  /\ NextOp(s) = "OSQCreate" => Head(s).event \in EventIds
         /\ NextOp(s) \in CreationOps => Head(s).prio \in Prios
         /\ NextOp(s) = "link" => Head(s).tcb \in TCBs
         /\ NextOp(s) = "OS_Dummy" => Head(s).tcb \in TCBs /\ Head(s).prio \in Prios
         /\ NextOp(s) \in CreationOps \cup {"OSQCreate", "OS_Dummy", "OSMemCreate"} =>
              WaitOf(s) = Sched /\ Tail(s) = <<>>
         /\ NextOp(s) \in WaitOps => WaitOf(s) = Head(s) /\ Head(s) \in WaitStep /\ Tail(s) = <<>>
         /\ NextOp(s) = "OS_Sched" => /\ Steps(Tail(s)) /\ WaitOf(Tail(s)) = WaitOf(s)
                                      /\ NextOp(Tail(s)) \in WaitOps \cup {"none"}
         /\ NextOp(s) = "none" => s = <<>> /\ WaitOf(s) = Sched
         /\ WaitOf(s) \in WaitStep \cup {Sched}
  <1>1. CASE s = <<>>
    BY <1>1, StepForms DEF CreationOps, WaitOps
  <1>2. CASE s = <<Sched>>
    <2>1. NextOp(s) = "OS_Sched" /\ WaitOf(s) = Sched /\ Tail(s) = <<>>
      BY <1>2, StepForms
    <2> QED
      BY <2>1, StepForms DEF CreationOps, WaitOps
  <1>3. CASE \E w \in WaitStep : s = <<w>>
    <2>1. PICK w \in WaitStep : s = <<w>>
      BY <1>3
    <2>2. NextOp(s) = w.op /\ WaitOf(s) = w /\ Tail(s) = <<>> /\ Head(s) = w
      <3>1. NextOp(s) = w.op /\ WaitOf(s) = w /\ Tail(s) = <<>>
        BY <2>1, StepForms
      <3>2. Head(s) = w
        BY <2>1
      <3> QED
        BY <3>1, <3>2
    <2>3. w.op \in WaitOps
      BY WaitTypes
    <2> QED
      BY <2>2, <2>3 DEF CreationOps, WaitOps
  <1>4. CASE \E w \in WaitStep : s = <<Sched, w>>
    <2>1. PICK w \in WaitStep : s = <<Sched, w>>
      BY <1>4
    <2>2. /\ NextOp(s) = "OS_Sched" /\ WaitOf(s) = w /\ Tail(s) = <<w>> /\ Steps(<<w>>)
          /\ WaitOf(<<w>>) = w /\ NextOp(<<w>>) = w.op
      BY <2>1, StepForms
    <2>3. w.op \in WaitOps
      BY WaitTypes
    <2> QED
      BY <2>2, <2>3 DEF CreationOps, WaitOps
  <1>5. CASE \E w \in OtherStep : s = <<w>>
    <2>1. PICK w \in OtherStep : s = <<w>>
      BY <1>5
    <2>2. NextOp(s) = w.op /\ WaitOf(s) = Sched /\ Tail(s) = <<>> /\ Head(s) = w
      BY <2>1, StepForms
    <2>3. /\ w.op \in CreationOps \cup {"OSQCreate", "OS_Dummy", "OSMemCreate"}
          /\ w.op = "OSQCreate" => w.event \in EventIds
          /\ w.op \in CreationOps => w.prio \in Prios
          /\ w.op = "link" => w.tcb \in TCBs
          /\ w.op = "OS_Dummy" => w.tcb \in TCBs /\ w.prio \in Prios
      BY DEF OtherStep, CreationOps
    <2> QED
      BY <2>2, <2>3 DEF CreationOps, WaitOps
  <1> QED
    BY <1>1, <1>2, <1>3, <1>4, <1>5 DEF Steps

LEMMA SamePoolsKept ==
  ASSUME TInv, NEW steps, Continues(steps), NextOp(steps) # "OSQCreate", SamePools(os, os')
  PROVE  Pools' /\ (NoMutex(os) => NoMutex(os'))
  <1>1. DOMAIN pc = TCBs /\ os.cur \in TCBs
    BY DEF TInv, Data
  <1>2. \A t \in TCBs : NextOp(pc'[t]) = "OSQCreate" => At(t) = "OSQCreate" /\ pc'[t] = pc[t]
    BY <1>1, PcAfter
  <1>3. /\ os'.freeEvents = os.freeEvents /\ os'.freeFlags = os.freeFlags
        /\ \A e \in EventIds : os'.event[e].type = os.event[e].type
        /\ \A g \in FlagIds : os'.flag[g].type = os.flag[g].type
    BY DEF SamePools
  <1>4. /\ os'.freeEvents \in Seq(EventIds) /\ Distinct(os'.freeEvents)
        /\ os'.freeFlags \in Seq(FlagIds) /\ Distinct(os'.freeFlags)
    BY <1>3 DEF TInv, Pools
  <1>5. /\ \A i \in DOMAIN os'.freeEvents : os'.event[os'.freeEvents[i]].type = "UNUSED"
        /\ \A i \in DOMAIN os'.freeFlags : os'.flag[os'.freeFlags[i]].type = "UNUSED"
    BY <1>3 DEF TInv, Pools
  <1>6. ASSUME NEW t \in TCBs, NextOp(pc'[t]) = "OSQCreate"
        PROVE  LET e == Head(pc'[t]).event
               IN  os'.event[e].type = "UNUSED" /\ \A i \in DOMAIN os'.freeEvents : os'.freeEvents[i] # e
    <2>1. At(t) = "OSQCreate" /\ pc'[t] = pc[t]
      BY <1>2, <1>6
    <2>2. Head(pc[t]).event \in EventIds
      <3>1. Steps(pc[t])
        BY DEF TInv
      <3> QED
        BY <2>1, <3>1, AtNext, NextStep
    <2> QED
      BY <1>3, <2>1, <2>2 DEF TInv, Pools
  <1>7. \A t, u \in TCBs : NextOp(pc'[t]) = "OSQCreate" /\ NextOp(pc'[u]) = "OSQCreate"
                             /\ Head(pc'[t]).event = Head(pc'[u]).event => t = u
    BY <1>2 DEF TInv, Pools
  <1>8. Pools'
    BY <1>4, <1>5, <1>6, <1>7 DEF Pools, At, NextOp
  <1> QED
    BY <1>3, <1>8 DEF NoMutex

(* What is left after a critical section that starts no wait for several   *)
(* events in an application that suspends tasks.                           *)
LEMMA RulesKept ==
  ASSUME TInv, Rules, NEW steps, Continues(steps), NoMutex(os'),
         isr = "none" /\ WaitOf(steps).op = "multi" => SeveralAllowed
  PROVE  Rules'
  <1>1. DOMAIN pc = TCBs /\ os.cur \in TCBs
    BY DEF TInv, Data
  <1>2. app' = app
    BY <1>1, PcAfter
  <1>3. ASSUME ~SeveralAllowed, NEW t \in TCBs PROVE Waiting'[t].op # "multi"
    BY <1>1, <1>3, PcAfter DEF Rules
  <1>5. SeveralAllowed' <=> SeveralAllowed
    BY <1>2 DEF SeveralAllowed
  <1>4. NoMutex(os)' = NoMutex(os')
    BY DEF NoMutex
  <1> QED
    BY <1>2, <1>3, <1>4, <1>5 DEF Rules

LEMMA Served ==
  ASSUME KInv, Inv, KInv', os.running, NEW steps, Continues(steps), Ordinary(steps),
         NEW S \in SUBSET Live, Data(os'), Elsewhere(os, os', S), Core(os', Live, Waiting'),
         KeepsRunning(os', steps), KeepsHighest(os', steps),
         Pools', NoMutex(os'),
         isr = "none" /\ WaitOf(steps).op = "multi" => SeveralAllowed
  PROVE  Inv'
  <1>1. TInv /\ Rules
    BY DEF Inv
  <1>2. DOMAIN pc = TCBs /\ os.cur \in TCBs
    BY <1>1 DEF TInv, Data
  <1>3. Lists' /\ Creations' /\ Running'
    BY <1>1, ListsKept, CreationsKept, RunningKept
  <1>4. Core(os', Live', Waiting')
    <2>1. os'.list = os.list
      BY DEF Elsewhere
    <2> QED
      BY <1>2, <2>1, LiveSame DEF Ordinary
  <1>5. DOMAIN pc' = TCBs /\ \A t \in TCBs : Steps(pc'[t])
    BY <1>1, <1>2, PcAfter, StepsAfter DEF Ordinary, TInv
  <1>6. Rules'
    BY <1>1, RulesKept
  <1>7. Data(os)' /\ Core(os, Live, Waiting)'
    BY <1>4 DEF Data, Core, TaskOK, Holder, Waiters
  <1> QED
    BY <1>3, <1>5, <1>6, <1>7 DEF Inv, TInv, Steps

(***************************************************************************)
(* Services that keep every control block in its pool.                     *)
(***************************************************************************)
LEMMA WaitsServed ==
  ASSUME KInv, Inv, KInv', os.running, NEW steps, Continues(steps), Ordinary(steps),
         NextOp(steps) # "OSQCreate",
         NEW S \in SUBSET Live, Data(os'), Elsewhere(os, os', S), SamePools(os, os'),
         Core(os', Live, Waiting'),
         KeepsRunning(os', steps), KeepsHighest(os', steps),
         isr = "none" /\ WaitOf(steps).op = "multi" => SeveralAllowed
  PROVE  Inv'
  <1>1. Pools' /\ NoMutex(os')
    BY SamePoolsKept DEF Inv, Rules
  <1> QED
    BY <1>1, Served

(* Who calls a service.                                                    *)
LEMMA TaskCaller ==
  ASSUME TInv, NEW c, AtTask(c)
  PROVE  /\ os.running /\ isr = "none" /\ os.cur \in Live /\ os.cur \in TCBs /\ os.cur # Idle
         /\ pc[os.cur] = <<>> /\ At(os.cur) = "none" /\ Waiting[os.cur] = Sched
         /\ Runnable(Cur) /\ IsReady(os, os.cur) /\ BeingDeleted = {} /\ Live = os.list
  <1>1. os.running /\ isr = "none" /\ os.cur # Idle /\ pc[os.cur] = <<>>
    BY DEF AtTask
  <1>2. At(os.cur) = "none" /\ os.cur \in TCBs
    BY <1>1 DEF At, TInv, Data
  <1>3. Waiting[os.cur] = Sched
    BY <1>1, <1>2, StepForms DEF Waiting
  <1>4. BeingDeleted = {}
    <2>1. \A t \in TCBs : At(t) # "OS_Dummy"
      BY <1>2 DEF TInv, Lists
    <2> QED
      BY <2>1, DummyTasks
  <1> QED
    BY <1>1, <1>2, <1>3, <1>4, OrdinaryRunning DEF Live

LEMMA Caller ==
  ASSUME KInv, TInv, NEW c, Anywhere(c)
  PROVE  /\ os.running
         /\ isr = "none" => os.cur \in Live /\ Runnable(Cur) /\ Waiting[os.cur] = Sched
         /\ \A steps : Steps(steps) /\ NextOp(steps) \notin CreationOps \cup {"OS_Dummy"}
                         => Ordinary(steps)
  <1>1. CASE AtTask(c)
    BY <1>1, TaskCaller DEF Ordinary, CreationOps
  <1>2. CASE AtIsr(c)
    BY <1>2 DEF AtIsr, KInv, Ordinary
  <1> QED
    BY <1>1, <1>2 DEF Anywhere

LEMMA StepCaller ==
  ASSUME TInv, NEW op, Step(op)
  PROVE  /\ os.running /\ isr = "none" /\ At(os.cur) = op /\ os.cur \in TCBs /\ os.cur # Idle
         /\ Steps(pc[os.cur]) /\ NextOp(pc[os.cur]) = op /\ Now = Head(pc[os.cur])
         /\ Waiting[os.cur] = WaitOf(pc[os.cur])
  <1>1. os.running /\ isr = "none" /\ pc[os.cur] # <<>> /\ Head(pc[os.cur]).op = op
    BY DEF Step
  <1>2. os.cur \in TCBs
    BY DEF TInv, Data
  <1>3. os.cur # Idle
    BY <1>1 DEF TInv, Lists
  <1> QED
    BY <1>1, <1>2, <1>3, AtNext DEF TInv, Waiting, NextOp, Now

(* Nothing left, or OS_Sched.                                              *)
LEMMA ShortSteps ==
  ASSUME NEW steps, steps = <<>> \/ steps = <<Sched>>
  PROVE  /\ Steps(steps) /\ NextOp(steps) \notin CreationOps \cup {"OS_Dummy", "OSQCreate"}
         /\ WaitOf(steps) = Sched /\ Sched.op # "multi"
  BY StepForms DEF CreationOps, Sched

(* A service that changes no wait.                                         *)
LEMMA NoWaitServed ==
  ASSUME KInv, Inv, KInv', os.running, NEW steps, Continues(steps), Ordinary(steps),
         NextOp(steps) # "OSQCreate", isr = "none" => WaitOf(steps) = Sched /\ Waiting[os.cur] = Sched,
         Touches(os, os', Nobody), os'.rdy = os.rdy
  PROVE  Inv'
  <1>1. TInv
    BY DEF Inv
  <1>2. DOMAIN pc = TCBs /\ os.cur \in TCBs
    BY <1>1 DEF TInv, Data
  <1>3. Waiting' = Waiting
    BY <1>2, PcAfter
  <1>4. Data(os') /\ Elsewhere(os, os', Nobody) /\ SamePools(os, os') /\ Core(os', Live, Waiting')
    BY <1>1, <1>3, NobodyCore DEF TInv
  <1>5. KeepsRunning(os', steps) /\ KeepsHighest(os', steps)
    BY DEF KeepsRunning, KeepsHighest, IsReady, Cur
  <1>6. Nobody \in SUBSET Live
    BY DEF Nobody
  <1>7. isr = "none" => WaitOf(steps).op # "multi"
    BY DEF Sched
  <1> QED
    BY <1>4, <1>5, <1>6, <1>7, WaitsServed

(* One that is called, and leaves nothing or OS_Sched.                     *)
LEMMA QuietServed ==
  ASSUME KInv, Inv, KInv', NEW c, Anywhere(c), NEW l, NEW steps, Leave(l, steps),
         steps = <<>> \/ steps = <<Sched>>, Touches(os, l, Nobody), l.rdy = os.rdy
  PROVE  Inv'
  <1>1. Continues(steps) /\ os' = l
    BY LeaveContinues
  <1>2. os.running /\ Ordinary(steps) /\ (isr = "none" => Waiting[os.cur] = Sched)
    BY Caller, ShortSteps DEF Inv
  <1> QED
    BY <1>1, <1>2, NoWaitServed, ShortSteps

(***************************************************************************)
(* Changes of data that no table and no wait depends on.                   *)
(***************************************************************************)
LEMMA EventDataTouches ==
  ASSUME NEW k, Data(k), NEW l, DOMAIN l = Fields,
         \A f \in Fields \ {"event", "freeQs", "mem"} : l[f] = k[f], DOMAIN l.event = EventIds,
         \A e \in EventIds : /\ DOMAIN l.event[e] = ECBFields
                             /\ l.event[e].type = k.event[e].type /\ l.event[e].wait = k.event[e].wait
  PROVE  Touches(k, l, Nobody) /\ l.rdy = k.rdy
  <1>1. /\ l.tcb = k.tcb /\ l.rdy = k.rdy /\ l.flag = k.flag /\ l.prioTbl = k.prioTbl
        /\ l.list = k.list /\ l.free = k.free
        /\ l.freeEvents = k.freeEvents /\ l.freeFlags = k.freeFlags
        /\ l.cur = k.cur /\ l.prioCur = k.prioCur /\ l.lock = k.lock /\ l.running = k.running
    BY DEF Fields
  <1>2. Rest(k, l)
    BY <1>1 DEF Rest
  <1> QED
    BY <1>1, <1>2 DEF Touches, Data, Nobody, Alike, Waiters

LEMMA EventFieldTouches ==
  ASSUME NEW k, Data(k), NEW e \in EventIds, NEW v
  PROVE  /\ LET l == [k EXCEPT !.event[e].cnt = v] IN Touches(k, l, Nobody) /\ l.rdy = k.rdy
         /\ LET l == [k EXCEPT !.event[e].ptr = v] IN Touches(k, l, Nobody) /\ l.rdy = k.rdy
  <1>1. ASSUME NEW l, l = [k EXCEPT !.event[e].cnt = v] PROVE Touches(k, l, Nobody) /\ l.rdy = k.rdy
    <2>1. DOMAIN l = Fields /\ \A f \in Fields \ {"event"} : l[f] = k[f]
      BY <1>1 DEF Data, Fields
    <2>2. /\ DOMAIN l.event = EventIds
          /\ \A f \in EventIds : f # e => l.event[f] = k.event[f]
          /\ DOMAIN l.event[e] = ECBFields
          /\ l.event[e].type = k.event[e].type /\ l.event[e].wait = k.event[e].wait
      BY <1>1 DEF Data, Fields, ECBFields
    <2> QED
      BY <2>1, <2>2, EventDataTouches DEF Data
  <1>2. ASSUME NEW l, l = [k EXCEPT !.event[e].ptr = v] PROVE Touches(k, l, Nobody) /\ l.rdy = k.rdy
    <2>1. DOMAIN l = Fields /\ \A f \in Fields \ {"event"} : l[f] = k[f]
      BY <1>2 DEF Data, Fields
    <2>2. /\ DOMAIN l.event = EventIds
          /\ \A f \in EventIds : f # e => l.event[f] = k.event[f]
          /\ DOMAIN l.event[e] = ECBFields
          /\ l.event[e].type = k.event[e].type /\ l.event[e].wait = k.event[e].wait
      BY <1>2 DEF Data, Fields, ECBFields
    <2> QED
      BY <2>1, <2>2, EventDataTouches DEF Data
  <1> QED
    BY <1>1, <1>2

LEMMA MemTouches ==
  ASSUME NEW k, Data(k), NEW v
  PROVE  LET l == [k EXCEPT !.mem = v] IN Touches(k, l, Nobody) /\ l.rdy = k.rdy
  <1>1. ASSUME NEW l, l = [k EXCEPT !.mem = v] PROVE Touches(k, l, Nobody) /\ l.rdy = k.rdy
    <2>1. DOMAIN l = Fields /\ \A f \in Fields \ {"mem"} : l[f] = k[f]
      BY <1>1 DEF Data, Fields
    <2>2. l.event = k.event
      BY <2>1 DEF Fields
    <2> QED
      BY <2>1, <2>2, EventDataTouches DEF Data
  <1> QED
    BY <1>1

LEMMA FlagDataTouches ==
  ASSUME NEW k, Data(k), NEW g \in FlagIds, NEW v
  PROVE  LET l == [k EXCEPT !.flag[g].flags = v] IN Touches(k, l, Nobody) /\ l.rdy = k.rdy
  <1>1. ASSUME NEW l, l = [k EXCEPT !.flag[g].flags = v] PROVE Touches(k, l, Nobody) /\ l.rdy = k.rdy
    <2>1. /\ DOMAIN l = Fields /\ l.tcb = k.tcb /\ l.rdy = k.rdy /\ l.event = k.event
          /\ l.prioTbl = k.prioTbl /\ l.list = k.list /\ l.free = k.free
          /\ l.freeEvents = k.freeEvents /\ l.freeFlags = k.freeFlags
          /\ l.cur = k.cur /\ l.prioCur = k.prioCur /\ l.lock = k.lock /\ l.running = k.running
      BY <1>1 DEF Data, Fields
    <2>2. /\ DOMAIN l.flag = FlagIds
          /\ \A f \in FlagIds : f # g => l.flag[f] = k.flag[f]
          /\ DOMAIN l.flag[g] = FlagFields
          /\ l.flag[g].type = k.flag[g].type /\ l.flag[g].wait = k.flag[g].wait
      BY <1>1 DEF Data, Fields, FlagFields
    <2>3. \A f \in FlagIds : /\ DOMAIN l.flag[f] = FlagFields
                             /\ l.flag[f].type = k.flag[f].type /\ l.flag[f].wait = k.flag[f].wait
      BY <2>2 DEF Data
    <2>4. Rest(k, l)
      BY <2>1 DEF Rest
    <2> QED
      BY <2>1, <2>2, <2>3, <2>4 DEF Touches, Data, Nobody, Alike, Waiters
  <1> QED
    BY <1>1

LEMMA TaskDataTouches ==
  ASSUME NEW k, Data(k), NEW t \in TCBs, NEW v
  PROVE  /\ LET l == [k EXCEPT !.tcb[t].delReq = v] IN Touches(k, l, Nobody) /\ l.rdy = k.rdy
         /\ LET l == [k EXCEPT !.tcb[t].flagsRdy = v] IN Touches(k, l, Nobody) /\ l.rdy = k.rdy
  <1>1. ASSUME NEW l, l = [k EXCEPT !.tcb[t].delReq = v] \/ l = [k EXCEPT !.tcb[t].flagsRdy = v]
        PROVE  Touches(k, l, Nobody) /\ l.rdy = k.rdy
    <2>1. /\ DOMAIN l = Fields /\ l.flag = k.flag /\ l.rdy = k.rdy /\ l.event = k.event
          /\ l.prioTbl = k.prioTbl /\ l.list = k.list /\ l.free = k.free
          /\ l.freeEvents = k.freeEvents /\ l.freeFlags = k.freeFlags
          /\ l.cur = k.cur /\ l.prioCur = k.prioCur /\ l.lock = k.lock /\ l.running = k.running
      BY <1>1 DEF Data, Fields
    <2>2. /\ DOMAIN l.tcb = TCBs
          /\ \A u \in TCBs : u # t => l.tcb[u] = k.tcb[u]
          /\ DOMAIN l.tcb[t] = TCBFields
      BY <1>1 DEF Data, Fields, TCBFields
    <2>3. /\ l.tcb[t].prio = k.tcb[t].prio /\ l.tcb[t].stat = k.tcb[t].stat
          /\ l.tcb[t].pend = k.tcb[t].pend /\ l.tcb[t].dly = k.tcb[t].dly
          /\ l.tcb[t].event = k.tcb[t].event /\ l.tcb[t].multi = k.tcb[t].multi
          /\ l.tcb[t].node = k.tcb[t].node
      BY <1>1 DEF Data, Fields, TCBFields
    <2>4. \A u \in TCBs : Alike(k.tcb[u], l.tcb[u]) /\ DOMAIN l.tcb[u] = TCBFields
      BY <2>2, <2>3 DEF Alike, Data
    <2>5. Rest(k, l)
      BY <2>1 DEF Rest
    <2> QED
      BY <2>1, <2>2, <2>4, <2>5 DEF Touches, Data, Nobody, Alike, Waiters
  <1> QED
    BY <1>1

(* Services that answer at once.                                           *)
LEMMA FieldServed ==
  ASSUME KInv, Inv, KInv', NEW c, Anywhere(c), NEW e \in EventIds, NEW v,
         Leave([os EXCEPT !.event[e].cnt = v], <<>>) \/ Leave([os EXCEPT !.event[e].ptr = v], <<>>)
  PROVE  Inv'
  <1>1. Data(os)
    BY DEF Inv, TInv
  <1>2. CASE Leave([os EXCEPT !.event[e].cnt = v], <<>>)
    BY <1>1, <1>2, EventFieldTouches, QuietServed
  <1>3. CASE Leave([os EXCEPT !.event[e].ptr = v], <<>>)
    BY <1>1, <1>3, EventFieldTouches, QuietServed
  <1> QED
    BY <1>2, <1>3

LEMMA SemQuiet ==
  ASSUME KInv, Inv, KInv', NEW e \in EventIds
  PROVE  /\ OSSemAccept(e) => Inv'
         /\ \A cnt : OSSemSet(e, cnt) => Inv'
         /\ \A timeout : OSSemPend(e, timeout) /\ os.event[e].cnt > 0 => Inv'
         /\ OSSemPost(e) /\ ~HasWaiter(os, e) => Inv'
  <1>1. ASSUME OSSemAccept(e) PROVE Inv'
    <2>1. Anywhere("OSSemAccept") /\ Leave([os EXCEPT !.event[e].cnt = os.event[e].cnt - 1], <<>>)
      BY <1>1 DEF OSSemAccept
    <2> QED
      BY <2>1, FieldServed
  <1>2. ASSUME NEW cnt, OSSemSet(e, cnt) PROVE Inv'
    <2>1. Anywhere("OSSemSet") /\ Leave([os EXCEPT !.event[e].cnt = cnt], <<>>)
      BY <1>2 DEF OSSemSet
    <2> QED
      BY <2>1, FieldServed
  <1>3. ASSUME NEW timeout, OSSemPend(e, timeout), os.event[e].cnt > 0 PROVE Inv'
    <2>1. Anywhere("OSSemPend") /\ Leave([os EXCEPT !.event[e].cnt = os.event[e].cnt - 1], <<>>)
      BY <1>3 DEF OSSemPend, Anywhere
    <2> QED
      BY <2>1, FieldServed
  <1>4. ASSUME OSSemPost(e), ~HasWaiter(os, e) PROVE Inv'
    <2>1. Anywhere("OSSemPost") /\ Leave([os EXCEPT !.event[e].cnt = os.event[e].cnt + 1], <<>>)
      BY <1>4 DEF OSSemPost
    <2> QED
      BY <2>1, FieldServed
  <1> QED
    BY <1>1, <1>2, <1>3, <1>4

LEMMA MboxQuiet ==
  ASSUME KInv, Inv, KInv', NEW e \in EventIds
  PROVE  /\ OSMboxAccept(e) => Inv'
         /\ \A timeout : OSMboxPend(e, timeout) /\ os.event[e].ptr # None => Inv'
         /\ \A msg : OSMboxPost(e, msg) /\ ~HasWaiter(os, e) => Inv'
         /\ \A msg, broadcast, sched :
              OSMboxPostOpt(e, msg, broadcast, sched) /\ ~HasWaiter(os, e) => Inv'
  <1>1. ASSUME OSMboxAccept(e) PROVE Inv'
    <2>1. Anywhere("OSMboxAccept") /\ Leave([os EXCEPT !.event[e].ptr = None], <<>>)
      BY <1>1 DEF OSMboxAccept
    <2> QED
      BY <2>1, FieldServed
  <1>2. ASSUME NEW timeout, OSMboxPend(e, timeout), os.event[e].ptr # None PROVE Inv'
    <2>1. Anywhere("OSMboxPend") /\ Leave([os EXCEPT !.event[e].ptr = None], <<>>)
      BY <1>2 DEF OSMboxPend, Anywhere
    <2> QED
      BY <2>1, FieldServed
  <1>3. ASSUME NEW msg, OSMboxPost(e, msg), ~HasWaiter(os, e) PROVE Inv'
    <2>1. Anywhere("OSMboxPost") /\ Leave([os EXCEPT !.event[e].ptr = msg], <<>>)
      BY <1>3 DEF OSMboxPost
    <2> QED
      BY <2>1, FieldServed
  <1>4. ASSUME NEW msg, NEW broadcast, NEW sched, OSMboxPostOpt(e, msg, broadcast, sched),
               ~HasWaiter(os, e)
        PROVE  Inv'
    <2>1. Anywhere("OSMboxPostOpt") /\ Leave([os EXCEPT !.event[e].ptr = msg], <<>>)
      BY <1>4 DEF OSMboxPostOpt
    <2> QED
      BY <2>1, FieldServed
  <1> QED
    BY <1>1, <1>2, <1>3, <1>4

LEMMA QQuiet ==
  ASSUME KInv, Inv, KInv', NEW e \in EventIds
  PROVE  /\ OSQAccept(e) => Inv'
         /\ OSQFlush(e) => Inv'
         /\ \A timeout : OSQPend(e, timeout) /\ Queue(e).entries > 0 => Inv'
         /\ \A msg : OSQPost(e, msg) /\ ~HasWaiter(os, e) => Inv'
         /\ \A msg : OSQPostFront(e, msg) /\ ~HasWaiter(os, e) => Inv'
         /\ \A msg, broadcast, front, sched :
              OSQPostOpt(e, msg, broadcast, front, sched) /\ ~HasWaiter(os, e) => Inv'
  <1>0. \A c, q : Anywhere(c) /\ Leave(WithQueue(e, q), <<>>) => Inv'
    BY FieldServed DEF WithQueue
  <1>1. ASSUME OSQAccept(e) PROVE Inv'
    <2>1. Anywhere("OSQAccept") /\ \E q : Leave(WithQueue(e, q), <<>>)
      BY <1>1 DEF OSQAccept
    <2> QED
      BY <1>0, <2>1
  <1>2. ASSUME OSQFlush(e) PROVE Inv'
    <2>1. Anywhere("OSQFlush") /\ \E q : Leave(WithQueue(e, q), <<>>)
      BY <1>2 DEF OSQFlush
    <2> QED
      BY <1>0, <2>1
  <1>3. ASSUME NEW timeout, OSQPend(e, timeout), Queue(e).entries > 0 PROVE Inv'
    <2>1. Anywhere("OSQPend") /\ \E q : Leave(WithQueue(e, q), <<>>)
      BY <1>3 DEF OSQPend, Anywhere
    <2> QED
      BY <1>0, <2>1
  <1>4. ASSUME NEW msg, OSQPost(e, msg), ~HasWaiter(os, e) PROVE Inv'
    <2>1. Anywhere("OSQPost") /\ \E q : Leave(WithQueue(e, q), <<>>)
      BY <1>4 DEF OSQPost
    <2> QED
      BY <1>0, <2>1
  <1>5. ASSUME NEW msg, OSQPostFront(e, msg), ~HasWaiter(os, e) PROVE Inv'
    <2>1. Anywhere("OSQPostFront") /\ \E q : Leave(WithQueue(e, q), <<>>)
      BY <1>5 DEF OSQPostFront
    <2> QED
      BY <1>0, <2>1
  <1>6. ASSUME NEW msg, NEW broadcast, NEW front, NEW sched,
               OSQPostOpt(e, msg, broadcast, front, sched), ~HasWaiter(os, e)
        PROVE  Inv'
    <2>1. Anywhere("OSQPostOpt") /\ \E q : Leave(WithQueue(e, q), <<>>)
      BY <1>6 DEF OSQPostOpt
    <2> QED
      BY <1>0, <2>1
  <1> QED
    BY <1>1, <1>2, <1>3, <1>4, <1>5, <1>6

(* Nobody takes what is not there, and nobody waits for what is there:     *)
(* the two cases of a pend.                                                *)
LEMMA MultiQuiet ==
  ASSUME KInv, Inv, KInv', NEW E, OSEventPendMulti_Check(E), OSEventPendMulti_Take(E)
  PROVE  Inv'
  <1> DEFINE ready == {e \in E : Available(e)}
             ev    == [e \in EventIds |-> IF e \in ready THEN TakeOne(e) ELSE os.event[e]]
             l     == [os EXCEPT !.event = ev]
  <1>1. Anywhere("OSEventPendMulti") /\ Leave(l, <<>>)
    BY DEF OSEventPendMulti_Check, OSEventPendMulti_Take, Anywhere
  <1>2. Data(os)
    BY DEF Inv, TInv
  <1>3. ASSUME NEW e \in EventIds, Available(e)
        PROVE  /\ DOMAIN TakeOne(e) = ECBFields
               /\ TakeOne(e).type = os.event[e].type /\ TakeOne(e).wait = os.event[e].wait
    <2>1. IsSem(e) \/ IsMbox(e) \/ IsQ(e)
      BY <1>3 DEF Available
    <2>2. \E v : TakeOne(e) = [os.event[e] EXCEPT !.cnt = v] \/ TakeOne(e) = [os.event[e] EXCEPT !.ptr = v]
      <3>1. CASE IsSem(e)
        <4>1. TakeOne(e) = [os.event[e] EXCEPT !.cnt = os.event[e].cnt - 1]
          BY <3>1 DEF TakeOne, IsSem, IsMbox, IsQ
        <4> QED
          BY <4>1
      <3>2. CASE IsMbox(e)
        <4>1. TakeOne(e) = [os.event[e] EXCEPT !.ptr = None]
          BY <3>2 DEF TakeOne, IsSem, IsMbox, IsQ
        <4> QED
          BY <4>1
      <3>3. CASE IsQ(e)
        <4>1. TakeOne(e) = [os.event[e] EXCEPT !.ptr = Dequeue(os.event[e].ptr)]
          BY <3>3 DEF TakeOne, IsSem, IsMbox, IsQ
        <4> QED
          BY <4>1
      <3> QED
        BY <2>1, <3>1, <3>2, <3>3
    <2> QED
      BY <1>2, <2>2 DEF Data, ECBFields
  <1>4. DOMAIN l = Fields /\ (\A f \in Fields \ {"event"} : l[f] = os[f]) /\ l.event = ev
    <2> HIDE DEF ev
    <2> QED
      BY <1>2 DEF Data, Fields
  <1>5. \A e \in EventIds : /\ DOMAIN ev[e] = ECBFields
                            /\ ev[e].type = os.event[e].type /\ ev[e].wait = os.event[e].wait
    BY <1>2, <1>3 DEF Data
  <1>6. DOMAIN ev = EventIds
    OBVIOUS
  <1> HIDE DEF l, ev
  <1>7. Touches(os, l, Nobody) /\ l.rdy = os.rdy
    BY <1>2, <1>4, <1>5, <1>6, EventDataTouches
  <1> QED
    BY <1>1, <1>7, QuietServed

LEMMA MemServed ==
  ASSUME KInv, Inv, KInv', MemNext PROVE Inv'
  <1>1. Data(os) /\ TInv
    BY DEF Inv, TInv
  <1>2. ASSUME NEW c, Anywhere(c), NEW v, Leave([os EXCEPT !.mem = v], <<>>) PROVE Inv'
    BY <1>1, <1>2, MemTouches, QuietServed
  <1>3. CASE OSMemCreate
    <2> DEFINE mem   == [os.mem EXCEPT !.headers = @ - 1]
               steps == <<[op |-> "OSMemCreate"]>>
    <2>1. AtTask("OSMemCreate") /\ Leave([os EXCEPT !.mem.headers = @ - 1], steps)
      BY <1>3 DEF OSMemCreate
    <2>2. [os EXCEPT !.mem.headers = @ - 1] = [os EXCEPT !.mem = mem]
      OBVIOUS
    <2>3. [op |-> "OSMemCreate"] \in OtherStep
      BY DEF OtherStep
    <2>4. Steps(steps) /\ NextOp(steps) = "OSMemCreate" /\ WaitOf(steps) = Sched
      BY <2>3, StepForms
    <2> HIDE DEF mem, steps
    <2>5. Continues(steps) /\ os' = [os EXCEPT !.mem = mem]
      BY <2>1, <2>2, LeaveContinues
    <2>6. Touches(os, os', Nobody) /\ os'.rdy = os.rdy
      BY <1>1, <2>5, MemTouches
    <2>7. os.running /\ Ordinary(steps) /\ (isr = "none" => Waiting[os.cur] = Sched)
      BY <1>1, <2>1, <2>4, Caller DEF Anywhere, CreationOps
    <2> QED
      BY <2>4, <2>5, <2>6, <2>7, NoWaitServed
  <1>4. CASE OSMemCreate_Link
    <2> DEFINE mem == [os.mem EXCEPT !.parts = Append(@, Partition)]
    <2>1. Step("OSMemCreate") /\ Leave([os EXCEPT !.mem.parts = Append(@, Partition)], <<>>)
      BY <1>4 DEF OSMemCreate_Link
    <2>2. [os EXCEPT !.mem.parts = Append(@, Partition)] = [os EXCEPT !.mem = mem]
      OBVIOUS
    <2> HIDE DEF mem
    <2>3. Continues(<<>>) /\ os' = [os EXCEPT !.mem = mem]
      BY <2>1, <2>2, LeaveContinues
    <2>4. Touches(os, os', Nobody) /\ os'.rdy = os.rdy
      BY <1>1, <2>3, MemTouches
    <2>5. os.running /\ At(os.cur) = "OSMemCreate" /\ os.cur # Idle /\ Waiting[os.cur] = Sched
      BY <1>1, <2>1, StepCaller, NextStep
    <2>6. Ordinary(<<>>)
      BY <2>5, StepForms DEF Ordinary, CreationOps
    <2> QED
      BY <2>3, <2>4, <2>5, <2>6, NoWaitServed, StepForms
  <1>5. ASSUME NEW p \in DOMAIN os.mem.parts, OSMemGet(p) PROVE Inv'
    <2> DEFINE part == os.mem.parts[p]
               new  == [free |-> Tail(part.free), nFree |-> part.nFree - 1,
                        held |-> part.held \cup {Head(part.free)}]
               mem  == [os.mem EXCEPT !.parts[p] = new]
    <2>1. Anywhere("OSMemGet") /\ Leave([os EXCEPT !.mem.parts[p] = new], <<>>)
      BY <1>5 DEF OSMemGet
    <2> HIDE DEF new
    <2>2. [os EXCEPT !.mem.parts[p] = new] = [os EXCEPT !.mem = mem]
      OBVIOUS
    <2> QED
      BY <1>2, <2>1, <2>2
  <1>6. ASSUME NEW p \in DOMAIN os.mem.parts, NEW b, OSMemPut(p, b) PROVE Inv'
    <2> DEFINE part == os.mem.parts[p]
               new  == [free |-> <<b>> \o part.free, nFree |-> part.nFree + 1,
                        held |-> part.held \ {b}]
               mem  == [os.mem EXCEPT !.parts[p] = new]
    <2>1. Anywhere("OSMemPut") /\ Leave([os EXCEPT !.mem.parts[p] = new], <<>>)
      BY <1>6 DEF OSMemPut
    <2> HIDE DEF new
    <2>2. [os EXCEPT !.mem.parts[p] = new] = [os EXCEPT !.mem = mem]
      OBVIOUS
    <2> QED
      BY <1>2, <2>1, <2>2
  <1> QED
    BY <1>3, <1>4, <1>5, <1>6 DEF MemNext

LEMMA FlagQuiet ==
  ASSUME KInv, Inv, KInv', NEW g \in FlagIds, NEW c, NEW consume
  PROVE  /\ OSFlagAccept(g, c, consume) => Inv'
         /\ \A timeout : OSFlagPend(g, c, consume, timeout) /\ Satisfied(os.flag[g].flags, c) => Inv'
  <1>1. Data(os) /\ TInv
    BY DEF Inv, TInv
  <1>2. Touches(os, Take(g, c, consume), Nobody) /\ Take(g, c, consume).rdy = os.rdy
    <2>1. CASE consume
      BY <1>1, <2>1, FlagDataTouches DEF Take
    <2>2. CASE ~consume
      <3>1. Touches(os, os, Nobody)
        BY <1>1 DEF Touches, Rest, Data, Alike, Nobody
      <3> QED
        BY <2>2, <3>1 DEF Take
    <2> QED
      BY <2>1, <2>2
  <1>3. ASSUME OSFlagAccept(g, c, consume) PROVE Inv'
    <2>1. Anywhere("OSFlagAccept") /\ Leave(Take(g, c, consume), <<>>)
      BY <1>3 DEF OSFlagAccept
    <2> QED
      BY <1>2, <2>1, QuietServed
  <1>4. ASSUME NEW timeout, OSFlagPend(g, c, consume, timeout), Satisfied(os.flag[g].flags, c)
        PROVE  Inv'
    <2> DEFINE k == Take(g, c, consume)
               l == [k EXCEPT !.tcb[os.cur].flagsRdy = FlagsRdy(os.flag[g].flags, c)]
    <2>1. Anywhere("OSFlagPend") /\ Leave(l, <<>>)
      BY <1>4 DEF OSFlagPend, Anywhere
    <2>2. Data(k)
      BY <1>1, <1>2, TouchesElsewhere DEF Nobody
    <2>3. os.cur \in TCBs
      BY <1>1 DEF Data
    <2> HIDE DEF k
    <2>4. Touches(k, l, Nobody) /\ l.rdy = k.rdy
      BY <2>2, <2>3, TaskDataTouches
    <2> HIDE DEF l
    <2>5. Touches(os, l, Nobody)
      BY <1>2, <2>4, TouchesTrans DEF Nobody, k
    <2> QED
      BY <1>2, <2>1, <2>4, <2>5, QuietServed DEF k
  <1> QED
    BY <1>3, <1>4

LEMMA DelReqServed ==
  ASSUME KInv, Inv, KInv', NEW prio \in Prios, OSTaskDelReq(prio) PROVE Inv'
  <1>1. Data(os)
    BY DEF Inv, TInv
  <1>2. os.prioTbl[prio] \in TCBs
    BY <1>1 DEF OSTaskDelReq, Exists, Data
  <1>3. Anywhere("OSTaskDelReq") /\ Leave([os EXCEPT !.tcb[os.prioTbl[prio]].delReq = TRUE], <<>>)
    BY DEF OSTaskDelReq
  <1> QED
    BY <1>1, <1>2, <1>3, TaskDataTouches, QuietServed

(***************************************************************************)
(* Posts, aborts and deletions.                                            *)
(***************************************************************************)
LEMMA HighestIsWaiter ==
  ASSUME KInv, Data(os), NEW e \in EventIds, HasWaiter(os, e)
  PROVE  HighestWaiter(os, e) \in SUBSET Waiters(os, e)
  <1>1. os.event[e].wait \in Table /\ WellFormed(os.event[e].wait)
    BY DEF KInv, Good, EventsOK, Data
  <1>2. Members(os.event[e].wait) # {}
    BY <1>1, EmptyIsNone DEF HasWaiter
  <1>3. Highest(os.event[e].wait) \in Members(os.event[e].wait)
    BY <1>1, <1>2, HighestFirst
  <1> QED
    BY <1>3 DEF HighestWaiter, Waiters

LEMMA WakeServed ==
  ASSUME KInv, Inv, KInv', NEW c, Anywhere(c), NEW e \in EventIds,
         NEW msk \in {"SEM", "MBOX", "Q"}, os.event[e].type = msk,
         NEW P \in SUBSET Waiters(os, e), NEW msg, NEW pend \in {"OK", "ABORT"},
         NEW steps, steps = <<Sched>> \/ (steps = <<>> /\ app.noSched),
         Leave(OS_EventTaskRdy(os, e, P, msg, msk, pend), steps)
  PROVE  Inv'
  <1>1. TInv /\ Data(os) /\ Core(os, Live, Waiting)
    BY DEF Inv, TInv
  <1>2. Continues(steps) /\ os' = OS_EventTaskRdy(os, e, P, msg, msk, pend)
    BY LeaveContinues
  <1>3. os.running /\ Ordinary(steps) /\ (isr = "none" => Waiting[os.cur] = Sched)
    BY <1>1, Caller, ShortSteps
  <1>4. /\ Data(os') /\ Elsewhere(os, os', Woke(os, P)) /\ SamePools(os, os')
        /\ Core(os', Live, Waiting) /\ Woke(os, P) \subseteq Live
        /\ \A q \in Members(os.rdy) : q \in Members(os'.rdy)
    <2>1. msk \in EventKinds /\ pend \in Answers
      BY DEF EventKinds, Answers
    <2>2. WakeDone(os, os', Live, Waiting, e, P)
      BY <1>1, <1>2, <2>1, WakeCore
    <2> QED
      BY <2>2 DEF WakeDone
  <1>5. Waiting' = Waiting
    <2>1. DOMAIN pc = TCBs /\ os.cur \in TCBs
      BY <1>1 DEF TInv, Data
    <2> QED
      BY <1>2, <1>3, <2>1, PcAfter, ShortSteps
  <1>6. KeepsRunning(os', steps)
    BY <1>4 DEF KeepsRunning, IsReady, Cur
  <1>7. KeepsHighest(os', steps)
    BY StepForms DEF KeepsHighest, Excepted
  <1>8. WaitOf(steps).op # "multi" /\ NextOp(steps) # "OSQCreate"
    BY ShortSteps
  <1> QED
    BY <1>2, <1>3, <1>4, <1>5, <1>6, <1>7, <1>8, WaitsServed

LEMMA SemWakes ==
  ASSUME KInv, Inv, KInv', NEW e \in EventIds, HasWaiter(os, e)
  PROVE  /\ \A all : OSSemPendAbort(e, all) => Inv'
         /\ OSSemPost(e) => Inv'
  <1>1. Data(os)
    BY DEF Inv, TInv
  <1>2. /\ HighestWaiter(os, e) \in SUBSET Waiters(os, e)
        /\ Waiters(os, e) \in SUBSET Waiters(os, e)
    BY <1>1, HighestIsWaiter
  <1>3. ASSUME NEW all, OSSemPendAbort(e, all) PROVE Inv'
    <2> DEFINE P == IF all THEN Waiters(os, e) ELSE HighestWaiter(os, e)
    <2>1. /\ Anywhere("OSSemPendAbort") /\ os.event[e].type = "SEM"
          /\ Leave(OS_EventTaskRdy(os, e, P, None, "SEM", "ABORT"), <<Sched>>)
      BY <1>3 DEF OSSemPendAbort, IsSem
    <2>2. P \in SUBSET Waiters(os, e)
      BY <1>2
    <2> HIDE DEF P
    <2> QED
      BY <2>1, <2>2, WakeServed
  <1>4. ASSUME OSSemPost(e) PROVE Inv'
    <2>1. /\ Anywhere("OSSemPost") /\ os.event[e].type = "SEM"
          /\ Leave(OS_EventTaskRdy(os, e, HighestWaiter(os, e), None, "SEM", "OK"), <<Sched>>)
      BY <1>4 DEF OSSemPost, IsSem
    <2> QED
      BY <1>2, <2>1, WakeServed
  <1> QED
    BY <1>3, <1>4

LEMMA MboxWakes ==
  ASSUME KInv, Inv, KInv', NEW e \in EventIds, HasWaiter(os, e)
  PROVE  /\ \A all : OSMboxPendAbort(e, all) => Inv'
         /\ \A msg : OSMboxPost(e, msg) => Inv'
         /\ \A msg, broadcast, sched : OSMboxPostOpt(e, msg, broadcast, sched) => Inv'
  <1>1. Data(os)
    BY DEF Inv, TInv
  <1>2. /\ HighestWaiter(os, e) \in SUBSET Waiters(os, e)
        /\ Waiters(os, e) \in SUBSET Waiters(os, e)
    BY <1>1, HighestIsWaiter
  <1>3. ASSUME NEW all, OSMboxPendAbort(e, all) PROVE Inv'
    <2> DEFINE P == IF all THEN Waiters(os, e) ELSE HighestWaiter(os, e)
    <2>1. /\ Anywhere("OSMboxPendAbort") /\ os.event[e].type = "MBOX"
          /\ Leave(OS_EventTaskRdy(os, e, P, None, "MBOX", "ABORT"), <<Sched>>)
      BY <1>3 DEF OSMboxPendAbort, IsMbox
    <2>2. P \in SUBSET Waiters(os, e)
      BY <1>2
    <2> HIDE DEF P
    <2> QED
      BY <2>1, <2>2, WakeServed
  <1>4. ASSUME NEW msg, OSMboxPost(e, msg) PROVE Inv'
    <2>1. /\ Anywhere("OSMboxPost") /\ os.event[e].type = "MBOX"
          /\ Leave(OS_EventTaskRdy(os, e, HighestWaiter(os, e), msg, "MBOX", "OK"), <<Sched>>)
      BY <1>4 DEF OSMboxPost, IsMbox
    <2> QED
      BY <1>2, <2>1, WakeServed
  <1>5. ASSUME NEW msg, NEW broadcast, NEW sched, OSMboxPostOpt(e, msg, broadcast, sched) PROVE Inv'
    <2> DEFINE P     == IF broadcast THEN Waiters(os, e) ELSE HighestWaiter(os, e)
               steps == IF sched THEN <<Sched>> ELSE <<>>
    <2>1. /\ Anywhere("OSMboxPostOpt") /\ os.event[e].type = "MBOX"
          /\ ~sched => app.noSched
          /\ Leave(OS_EventTaskRdy(os, e, P, msg, "MBOX", "OK"), steps)
      BY <1>5 DEF OSMboxPostOpt, IsMbox
    <2>2. P \in SUBSET Waiters(os, e)
      BY <1>2
    <2>3. steps = <<Sched>> \/ (steps = <<>> /\ app.noSched)
      BY <2>1
    <2> HIDE DEF P, steps
    <2> QED
      BY <2>1, <2>2, <2>3, WakeServed
  <1> QED
    BY <1>3, <1>4, <1>5

LEMMA QWakes ==
  ASSUME KInv, Inv, KInv', NEW e \in EventIds, HasWaiter(os, e)
  PROVE  /\ \A all : OSQPendAbort(e, all) => Inv'
         /\ \A msg : OSQPost(e, msg) \/ OSQPostFront(e, msg) => Inv'
         /\ \A msg, broadcast, front, sched : OSQPostOpt(e, msg, broadcast, front, sched) => Inv'
  <1>1. Data(os)
    BY DEF Inv, TInv
  <1>2. /\ HighestWaiter(os, e) \in SUBSET Waiters(os, e)
        /\ Waiters(os, e) \in SUBSET Waiters(os, e)
    BY <1>1, HighestIsWaiter
  <1>3. ASSUME NEW all, OSQPendAbort(e, all) PROVE Inv'
    <2> DEFINE P == IF all THEN Waiters(os, e) ELSE HighestWaiter(os, e)
    <2>1. /\ Anywhere("OSQPendAbort") /\ os.event[e].type = "Q"
          /\ Leave(OS_EventTaskRdy(os, e, P, None, "Q", "ABORT"), <<Sched>>)
      BY <1>3 DEF OSQPendAbort, IsQ
    <2>2. P \in SUBSET Waiters(os, e)
      BY <1>2
    <2> HIDE DEF P
    <2> QED
      BY <2>1, <2>2, WakeServed
  <1>4. ASSUME NEW msg, OSQPost(e, msg) \/ OSQPostFront(e, msg) PROVE Inv'
    <2>1. /\ Anywhere("OSQPost") \/ Anywhere("OSQPostFront")
          /\ os.event[e].type = "Q"
          /\ Leave(OS_EventTaskRdy(os, e, HighestWaiter(os, e), msg, "Q", "OK"), <<Sched>>)
      BY <1>4 DEF OSQPost, OSQPostFront, IsQ
    <2> QED
      BY <1>2, <2>1, WakeServed
  <1>5. ASSUME NEW msg, NEW broadcast, NEW front, NEW sched,
               OSQPostOpt(e, msg, broadcast, front, sched)
        PROVE  Inv'
    <2> DEFINE P     == IF broadcast THEN Waiters(os, e) ELSE HighestWaiter(os, e)
               steps == IF sched THEN <<Sched>> ELSE <<>>
    <2>1. /\ Anywhere("OSQPostOpt") /\ os.event[e].type = "Q"
          /\ ~sched => app.noSched
          /\ Leave(OS_EventTaskRdy(os, e, P, msg, "Q", "OK"), steps)
      BY <1>5 DEF OSQPostOpt, IsQ
    <2>2. P \in SUBSET Waiters(os, e)
      BY <1>2
    <2>3. steps = <<Sched>> \/ (steps = <<>> /\ app.noSched)
      BY <2>1
    <2> HIDE DEF P, steps
    <2> QED
      BY <2>1, <2>2, <2>3, WakeServed
  <1> QED
    BY <1>3, <1>4, <1>5

(***************************************************************************)
(* Control blocks that come from and go to the lists of free ones.         *)
(***************************************************************************)
LEMMA TailFree ==
  ASSUME NEW S, NEW s \in Seq(S), s # <<>>, Distinct(s)
  PROVE  /\ Head(s) \in S /\ Tail(s) \in Seq(S) /\ Distinct(Tail(s))
         /\ \A i \in DOMAIN Tail(s) : Tail(s)[i] # Head(s) /\ \E j \in DOMAIN s : Tail(s)[i] = s[j]
         /\ \E j \in DOMAIN s : Head(s) = s[j]
  <1>1. /\ Head(s) \in S /\ Tail(s) \in Seq(S) /\ Head(s) = s[1] /\ 1 \in DOMAIN s
        /\ \A i \in DOMAIN Tail(s) : i \in Nat /\ i >= 1 /\ i + 1 \in DOMAIN s /\ Tail(s)[i] = s[i + 1]
    OBVIOUS
  <1>2. Distinct(Tail(s))
    BY <1>1 DEF Distinct
  <1>3. \A i \in DOMAIN Tail(s) : Tail(s)[i] # Head(s)
    BY <1>1 DEF Distinct
  <1> QED
    BY <1>1, <1>2, <1>3

LEMMA PushFree ==
  ASSUME NEW S, NEW s \in Seq(S), Distinct(s), NEW e \in S, \A i \in DOMAIN s : s[i] # e
  PROVE  /\ <<e>> \o s \in Seq(S) /\ Distinct(<<e>> \o s)
         /\ \A i \in DOMAIN (<<e>> \o s) :
              (<<e>> \o s)[i] = e \/ \E j \in DOMAIN s : (<<e>> \o s)[i] = s[j]
  <1> DEFINE u == <<e>> \o s
  <1>1. /\ u \in Seq(S) /\ u[1] = e
        /\ \A i \in DOMAIN u : i \in Nat /\ i >= 1 /\ (i # 1 => i - 1 \in DOMAIN s /\ u[i] = s[i - 1])
    OBVIOUS
  <1> HIDE DEF u
  <1>2. \A i \in DOMAIN u : u[i] = e \/ \E j \in DOMAIN s : u[i] = s[j]
    BY <1>1
  <1>3. Distinct(u)
    <2>1. SUFFICES ASSUME NEW i \in DOMAIN u, NEW j \in DOMAIN u, i # j PROVE u[i] # u[j]
      BY DEF Distinct
    <2>2. CASE i = 1
      BY <1>1, <2>1, <2>2
    <2>3. CASE j = 1
      BY <1>1, <2>1, <2>3
    <2>4. CASE i # 1 /\ j # 1
      <3>1. /\ i - 1 \in DOMAIN s /\ j - 1 \in DOMAIN s /\ i - 1 # j - 1
            /\ u[i] = s[i - 1] /\ u[j] = s[j - 1]
        BY <1>1, <2>1, <2>4
      <3> QED
        BY <3>1 DEF Distinct
    <2> QED
      BY <2>2, <2>3, <2>4
  <1> QED
    BY <1>1, <1>2, <1>3 DEF u

LEMMA ElsewhereTrans ==
  ASSUME NEW k, NEW l, NEW m, NEW S, Data(k), Elsewhere(k, l, S), Elsewhere(l, m, Nobody)
  PROVE  Elsewhere(k, m, S)
  <1>1. /\ m.prioTbl = k.prioTbl /\ m.list = k.list /\ m.free = k.free /\ m.cur = k.cur
        /\ m.lock = k.lock /\ m.prioCur = k.prioCur /\ m.running = k.running
    BY DEF Elsewhere
  <1>2. \A t \in TCBs : m.tcb[t].prio = k.tcb[t].prio
    BY DEF Elsewhere
  <1>3. \A t \in TCBs \ S : Alike(k.tcb[t], m.tcb[t])
    BY DEF Elsewhere, Nobody, Alike
  <1>4. \A p \in Prios : /\ p \in Members(m.rdy) <=> p \in Members(l.rdy)
                         /\ \A e \in EventIds : p \in Waiters(m, e) <=> p \in Waiters(l, e)
    BY DEF Elsewhere, Nobody
  <1>5. \A p \in Prios : (\A t \in S : k.tcb[t].prio # p) =>
          /\ p \in Members(m.rdy) <=> p \in Members(k.rdy)
          /\ \A e \in EventIds : p \in Waiters(m, e) <=> p \in Waiters(k, e)
    BY <1>4 DEF Elsewhere
  <1>6. \A g \in FlagIds : m.flag[g].wait \ S = k.flag[g].wait \ S
    BY DEF Elsewhere, Nobody
  <1> QED
    BY <1>1, <1>2, <1>3, <1>5, <1>6 DEF Elsewhere

(* The free event control blocks, after a step that leaves the list s of   *)
(* them and changes the control block e or its owner.                      *)
LEMMA PoolsChanged ==
  ASSUME TInv, NEW steps, Continues(steps), NEW e \in EventIds, NEW s \in Seq(EventIds), Distinct(s),
         os'.freeEvents = s, os'.freeFlags = os.freeFlags,
         \A g \in FlagIds : os'.flag[g].type = os.flag[g].type,
         \A f \in EventIds : f # e => os'.event[f].type = os.event[f].type,
         \A i \in DOMAIN s : (s[i] = e /\ os'.event[e].type = "UNUSED")
                             \/ (s[i] # e /\ \E j \in DOMAIN os.freeEvents : s[i] = os.freeEvents[j]),
         (\E i \in DOMAIN s : s[i] = e) =>
           \A t \in TCBs : NextOp(pc'[t]) = "OSQCreate" => Head(pc'[t]).event # e,
         \A t \in TCBs : NextOp(pc'[t]) = "OSQCreate" /\ Head(pc'[t]).event = e =>
           os'.event[e].type = "UNUSED",
         NextOp(steps) = "OSQCreate" =>
           /\ isr = "none" /\ Head(steps).event = e
           /\ \A t \in TCBs : At(t) = "OSQCreate" => Head(pc[t]).event # e,
         os'.event[e].type # "MUTEX"
  PROVE  Pools' /\ (NoMutex(os) => NoMutex(os'))
  <1>1. DOMAIN pc = TCBs /\ os.cur \in TCBs
    BY DEF TInv, Data
  <1>2. \A t \in TCBs : NextOp(pc'[t]) = "OSQCreate" =>
          \/ At(t) = "OSQCreate" /\ pc'[t] = pc[t]
          \/ t = os.cur /\ NextOp(steps) = "OSQCreate" /\ Head(pc'[t]).event = e
    BY <1>1, PcAfter
  <1>3. /\ os'.freeEvents \in Seq(EventIds) /\ Distinct(os'.freeEvents)
        /\ os'.freeFlags \in Seq(FlagIds) /\ Distinct(os'.freeFlags)
        /\ \A i \in DOMAIN os'.freeFlags : os'.flag[os'.freeFlags[i]].type = "UNUSED"
    BY DEF TInv, Pools
  <1>4. ASSUME NEW i \in DOMAIN os'.freeEvents PROVE os'.event[os'.freeEvents[i]].type = "UNUSED"
    <2>1. i \in DOMAIN s /\ os'.freeEvents[i] = s[i] /\ s[i] \in EventIds
      BY <1>4
    <2>2. CASE s[i] = e
      BY <2>1, <2>2
    <2>3. CASE s[i] # e
      <3>1. PICK j \in DOMAIN os.freeEvents : s[i] = os.freeEvents[j]
        BY <2>1, <2>3
      <3>2. os.event[s[i]].type = "UNUSED"
        BY <3>1 DEF TInv, Pools
      <3> QED
        BY <2>1, <2>3, <3>2
    <2> QED
      BY <2>2, <2>3
  <1>5. ASSUME NEW t \in TCBs, NextOp(pc'[t]) = "OSQCreate"
        PROVE  LET f == Head(pc'[t]).event
               IN  os'.event[f].type = "UNUSED" /\ \A i \in DOMAIN os'.freeEvents : os'.freeEvents[i] # f
    <2> DEFINE f == Head(pc'[t]).event
    <2>1. CASE f = e
      BY <1>5, <2>1
    <2>2. CASE f # e
      <3>1. At(t) = "OSQCreate" /\ pc'[t] = pc[t]
        BY <1>2, <1>5, <2>2
      <3>2. f \in EventIds
        <4>1. Steps(pc[t])
          BY DEF TInv
        <4> QED
          BY <3>1, <4>1, AtNext, NextStep
      <3>3. os.event[f].type = "UNUSED" /\ \A i \in DOMAIN os.freeEvents : os.freeEvents[i] # f
        BY <3>1 DEF TInv, Pools
      <3> HIDE DEF f
      <3>4. os'.event[f].type = "UNUSED"
        BY <2>2, <3>2, <3>3
      <3>5. \A i \in DOMAIN os'.freeEvents : os'.freeEvents[i] # f
        BY <2>2, <3>3
      <3> QED
        BY <3>4, <3>5 DEF f
    <2> QED
      BY <2>1, <2>2
  <1>6. ASSUME NEW t \in TCBs, NEW u \in TCBs, NextOp(pc'[t]) = "OSQCreate", NextOp(pc'[u]) = "OSQCreate",
               Head(pc'[t]).event = Head(pc'[u]).event
        PROVE  t = u
    BY <1>2, <1>6 DEF TInv, Pools
  <1>7. Pools'
    BY <1>3, <1>4, <1>5, <1>6 DEF Pools, At, NextOp
  <1> QED
    BY <1>7 DEF NoMutex

(* Event control block e, with nobody in its wait list, is filled anew.    *)
LEMMA RefillServed ==
  ASSUME KInv, Inv, KInv', os.running, isr = "none", NEW steps, Continues(steps), Ordinary(steps),
         WaitOf(steps) = Sched, Waiting[os.cur] = Sched,
         NEW m, NEW S \in SUBSET Live, Data(m), Elsewhere(os, m, S), Core(m, Live, Waiting),
         KeepsRunning(m, steps), KeepsHighest(m, steps),
         NEW e \in EventIds, Waiters(m, e) = {}, Refilled(m, os', e), Pools', NoMutex(os'),
         \A t \in Live : Waiting[t].op = "multi" => e \notin Waiting[t].events
  PROVE  Inv'
  <1>1. TInv /\ Data(os) /\ DOMAIN pc = TCBs /\ os.cur \in TCBs
    BY DEF Inv, TInv, Data
  <1>2. Data(os') /\ Elsewhere(m, os', Nobody) /\ Core(os', Live, Waiting)
    BY RefilledCore
  <1>3. Elsewhere(os, os', S)
    BY <1>1, <1>2, ElsewhereTrans
  <1>4. os'.rdy = m.rdy
    BY DEF Refilled
  <1>5. KeepsRunning(os', steps) /\ KeepsHighest(os', steps)
    BY <1>4 DEF KeepsRunning, KeepsHighest
  <1>6. Waiting' = Waiting
    BY <1>1, PcAfter
  <1>7. WaitOf(steps).op # "multi"
    BY DEF Sched
  <1> QED
    BY <1>2, <1>3, <1>5, <1>6, <1>7, Served

LEMMA ElsewhereSelf ==
  ASSUME NEW k, NEW steps, k = os
  PROVE  Elsewhere(os, k, Nobody) /\ Nobody \in SUBSET Live /\ KeepsRunning(k, steps) /\ KeepsHighest(k, steps)
  <1>1. Elsewhere(os, k, Nobody)
    BY DEF Elsewhere, Alike
  <1>2. KeepsRunning(k, steps) /\ KeepsHighest(k, steps)
    BY DEF KeepsRunning, KeepsHighest, IsReady, Cur
  <1> QED
    BY <1>1, <1>2 DEF Nobody

(* The first free event control block.                                     *)
LEMMA FirstFree ==
  ASSUME TInv, os.freeEvents # <<>>, NEW e, e = Head(os.freeEvents)
  PROVE  /\ e \in EventIds /\ Waiters(os, e) = {} /\ os.event[e].type = "UNUSED"
         /\ \A t \in Live : Waiting[t].op = "multi" => e \notin Waiting[t].events
         /\ Tail(os.freeEvents) \in Seq(EventIds) /\ Distinct(Tail(os.freeEvents))
         /\ \A i \in DOMAIN Tail(os.freeEvents) :
              Tail(os.freeEvents)[i] # e /\ \E j \in DOMAIN os.freeEvents : Tail(os.freeEvents)[i] = os.freeEvents[j]
         /\ \A t \in TCBs : At(t) = "OSQCreate" => Head(pc[t]).event # e
  <1>1. os.freeEvents \in Seq(EventIds) /\ Distinct(os.freeEvents)
    BY DEF TInv, Pools
  <1>2. PICK j \in DOMAIN os.freeEvents : e = os.freeEvents[j]
    BY <1>1, TailFree
  <1>3. e \in EventIds /\ os.event[e].type = "UNUSED"
    <2>1. e \in EventIds
      BY <1>1, TailFree
    <2> QED
      BY <1>2, <2>1 DEF TInv, Pools
  <1>4. Waiters(os, e) = {} /\ \A t \in Live : Waiting[t].op = "multi" => e \notin Waiting[t].events
    BY <1>3, UnusedNoWaiter DEF TInv
  <1>5. \A t \in TCBs : At(t) = "OSQCreate" => Head(pc[t]).event # e
    BY <1>2 DEF TInv, Pools
  <1> QED
    BY <1>1, <1>3, <1>4, <1>5, TailFree

(* OSSemCreate and OSMboxCreate. *)
LEMMA NewEventServed ==
  ASSUME KInv, Inv, KInv', NEW c, AtTask(c), os.freeEvents # <<>>,
         NEW ecb, DOMAIN ecb = ECBFields, ecb.wait = EmptyTable, ecb.type # "MUTEX",
         Leave(NewEvent(os, ecb), <<>>)
  PROVE  Inv'
  <1> DEFINE e == Head(os.freeEvents)
  <1>1. TInv /\ Data(os) /\ Core(os, Live, Waiting) /\ NoMutex(os)
    BY DEF Inv, TInv, Rules
  <1>2. Continues(<<>>) /\ os' = NewEvent(os, ecb)
    BY LeaveContinues
  <1>3. os.running /\ isr = "none" /\ Waiting[os.cur] = Sched
    BY <1>1, TaskCaller
  <1>4. Ordinary(<<>>)
    BY <1>1, Caller, ShortSteps DEF Anywhere
  <1>5. /\ e \in EventIds /\ Waiters(os, e) = {} /\ os.event[e].type = "UNUSED"
        /\ \A t \in Live : Waiting[t].op = "multi" => e \notin Waiting[t].events
        /\ Tail(os.freeEvents) \in Seq(EventIds) /\ Distinct(Tail(os.freeEvents))
        /\ \A i \in DOMAIN Tail(os.freeEvents) :
             Tail(os.freeEvents)[i] # e /\ \E j \in DOMAIN os.freeEvents : Tail(os.freeEvents)[i] = os.freeEvents[j]
        /\ \A t \in TCBs : At(t) = "OSQCreate" => Head(pc[t]).event # e
    BY <1>1, FirstFree
  <1>6. os' = [os EXCEPT !.event[e] = ecb, !.freeEvents = Tail(@)]
    BY <1>2 DEF NewEvent
  <1> HIDE DEF e
  <1>7. /\ DOMAIN os' = Fields
        /\ os'.tcb = os.tcb /\ os'.prioTbl = os.prioTbl /\ os'.rdy = os.rdy /\ os'.list = os.list
        /\ os'.free = os.free /\ os'.flag = os.flag /\ os'.freeFlags = os.freeFlags
        /\ os'.cur = os.cur /\ os'.prioCur = os.prioCur /\ os'.lock = os.lock /\ os'.running = os.running
        /\ os'.freeEvents = Tail(os.freeEvents)
    BY <1>1, <1>6 DEF Data, Fields
  <1>8. /\ DOMAIN os'.event = EventIds /\ \A f \in EventIds : f # e => os'.event[f] = os.event[f]
        /\ os'.event[e] = ecb
    BY <1>1, <1>5, <1>6 DEF Data, Fields
  <1>9. Refilled(os, os', e)
    <2>1. os'.event[e].wait \in Table /\ Waiters(os', e) = {}
      BY <1>8, EmptyMembers DEF Waiters
    <2> QED
      BY <1>7, <1>8, <2>1 DEF Refilled
  <1>10. Pools' /\ NoMutex(os')
    <2>1. NextOp(<<>>) # "OSQCreate"
      BY StepForms
    <2>2. DOMAIN pc = TCBs /\ os.cur \in TCBs
      BY <1>1 DEF TInv, Data
    <2>3. \A t \in TCBs : NextOp(pc'[t]) = "OSQCreate" => At(t) = "OSQCreate" /\ pc'[t] = pc[t]
      BY <1>2, <2>1, <2>2, PcAfter
    <2>4. \A t \in TCBs : NextOp(pc'[t]) = "OSQCreate" => Head(pc'[t]).event # e
      BY <1>5, <2>3
    <2> DEFINE s == Tail(os.freeEvents)
    <2>5. /\ s \in Seq(EventIds) /\ Distinct(s) /\ os'.freeEvents = s /\ os'.freeFlags = os.freeFlags
          /\ \A i \in DOMAIN s : s[i] # e /\ \E j \in DOMAIN os.freeEvents : s[i] = os.freeEvents[j]
      BY <1>5, <1>7
    <2> HIDE DEF s
    <2>6. /\ \A g \in FlagIds : os'.flag[g].type = os.flag[g].type
          /\ \A f \in EventIds : f # e => os'.event[f].type = os.event[f].type
          /\ os'.event[e].type # "MUTEX"
      BY <1>7, <1>8
    <2>7. \A i \in DOMAIN s : s[i] # e
      BY <2>5
    <2> QED
      BY <1>1, <1>2, <1>5, <2>1, <2>4, <2>5, <2>6, <2>7, PoolsChanged
  <1>11. /\ Elsewhere(os, os, Nobody) /\ Nobody \in SUBSET Live
         /\ KeepsRunning(os, <<>>) /\ KeepsHighest(os, <<>>)
    BY ElsewhereSelf
  <1>12. WaitOf(<<>>) = Sched
    BY StepForms
  <1> QED
    BY <1>1, <1>2, <1>3, <1>4, <1>5, <1>9, <1>10, <1>11, <1>12, RefillServed

LEMMA EventCreates ==
  ASSUME KInv, Inv, KInv'
  PROVE  /\ \A cnt : OSSemCreate(cnt) => Inv'
         /\ \A msg : OSMboxCreate(msg) => Inv'
  <1>1. ASSUME NEW cnt, OSSemCreate(cnt) PROVE Inv'
    <2> DEFINE ecb == NewSem(cnt)
    <2>1. /\ AtTask("OSSemCreate") /\ os.freeEvents # <<>> /\ Leave(NewEvent(os, ecb), <<>>)
      BY <1>1 DEF OSSemCreate
    <2>2. DOMAIN ecb = ECBFields /\ ecb.wait = EmptyTable /\ ecb.type # "MUTEX"
      BY DEF NewSem, UnusedEvent, ECBFields
    <2> HIDE DEF ecb
    <2> QED
      BY <2>1, <2>2, NewEventServed
  <1>2. ASSUME NEW msg, OSMboxCreate(msg) PROVE Inv'
    <2> DEFINE ecb == NewMbox(msg)
    <2>1. /\ AtTask("OSMboxCreate") /\ os.freeEvents # <<>> /\ Leave(NewEvent(os, ecb), <<>>)
      BY <1>2 DEF OSMboxCreate
    <2>2. DOMAIN ecb = ECBFields /\ ecb.wait = EmptyTable /\ ecb.type # "MUTEX"
      BY DEF NewMbox, UnusedEvent, ECBFields
    <2> HIDE DEF ecb
    <2> QED
      BY <2>1, <2>2, NewEventServed
  <1> QED
    BY <1>1, <1>2

(* The first half of OSQCreate: the event control block is nobody's.       *)
LEMMA QCreateServed ==
  ASSUME KInv, Inv, KInv', OSQCreate PROVE Inv'
  <1> DEFINE e == Head(os.freeEvents)
             w == [op |-> "OSQCreate", event |-> e]
  <1>1. TInv /\ Data(os) /\ Core(os, Live, Waiting) /\ NoMutex(os)
    BY DEF Inv, TInv, Rules
  <1>2. AtTask("OSQCreate") /\ os.freeEvents # <<>>
    BY DEF OSQCreate
  <1>3. Continues(<<w>>) /\ os' = [os EXCEPT !.freeEvents = Tail(@)]
    BY LeaveContinues DEF OSQCreate
  <1>4. os.running /\ isr = "none" /\ Waiting[os.cur] = Sched
    BY <1>1, <1>2, TaskCaller
  <1>5. /\ e \in EventIds /\ Waiters(os, e) = {} /\ os.event[e].type = "UNUSED"
        /\ \A t \in Live : Waiting[t].op = "multi" => e \notin Waiting[t].events
        /\ Tail(os.freeEvents) \in Seq(EventIds) /\ Distinct(Tail(os.freeEvents))
        /\ \A i \in DOMAIN Tail(os.freeEvents) :
             Tail(os.freeEvents)[i] # e /\ \E j \in DOMAIN os.freeEvents : Tail(os.freeEvents)[i] = os.freeEvents[j]
        /\ \A t \in TCBs : At(t) = "OSQCreate" => Head(pc[t]).event # e
    BY <1>1, <1>2, FirstFree
  <1>6. w \in OtherStep /\ w.op = "OSQCreate" /\ w.event = e
    BY <1>5 DEF OtherStep
  <1> DEFINE steps == <<w>>
  <1>7. /\ Steps(steps) /\ NextOp(steps) = "OSQCreate" /\ WaitOf(steps) = Sched /\ Head(steps) = w
        /\ Continues(steps)
    <2>1. Steps(<<w>>) /\ NextOp(<<w>>) = w.op /\ WaitOf(<<w>>) = Sched
      BY <1>6, StepForms
    <2> QED
      BY <1>3, <1>6, <2>1
  <1>8. Ordinary(steps)
    <2>1. NextOp(steps) \notin CreationOps \cup {"OS_Dummy"}
      BY <1>7 DEF CreationOps
    <2> QED
      BY <1>1, <1>2, <1>7, <2>1, Caller DEF Anywhere
  <1>9. /\ DOMAIN os' = Fields
        /\ os'.tcb = os.tcb /\ os'.prioTbl = os.prioTbl /\ os'.rdy = os.rdy /\ os'.list = os.list
        /\ os'.free = os.free /\ os'.flag = os.flag /\ os'.freeFlags = os.freeFlags
        /\ os'.cur = os.cur /\ os'.prioCur = os.prioCur /\ os'.lock = os.lock /\ os'.running = os.running
        /\ os'.freeEvents = Tail(os.freeEvents) /\ os'.event = os.event
    BY <1>1, <1>3 DEF Data, Fields
  <1> HIDE DEF e, w, steps
  <1>10. Refilled(os, os', e)
    BY <1>1, <1>5, <1>9 DEF Refilled, Waiters, Data
  <1>11. Pools' /\ NoMutex(os')
    <2>1. DOMAIN pc = TCBs /\ os.cur \in TCBs
      BY <1>1 DEF TInv, Data
    <2> DEFINE s == Tail(os.freeEvents)
    <2>2. /\ s \in Seq(EventIds) /\ Distinct(s) /\ os'.freeEvents = s /\ os'.freeFlags = os.freeFlags
          /\ \A i \in DOMAIN s : s[i] # e /\ \E j \in DOMAIN os.freeEvents : s[i] = os.freeEvents[j]
      BY <1>5, <1>9
    <2> HIDE DEF s
    <2>3. /\ \A g \in FlagIds : os'.flag[g].type = os.flag[g].type
          /\ \A f \in EventIds : f # e => os'.event[f].type = os.event[f].type
          /\ os'.event[e].type = "UNUSED"
      BY <1>5, <1>9
    <2>4. \A i \in DOMAIN s : s[i] # e
      BY <2>2
    <2>5. Head(steps).event = e
      BY <1>6, <1>7
    <2> QED
      BY <1>1, <1>4, <1>5, <1>7, <2>2, <2>3, <2>4, <2>5, PoolsChanged
  <1>12. /\ Elsewhere(os, os, Nobody) /\ Nobody \in SUBSET Live
         /\ KeepsRunning(os, steps) /\ KeepsHighest(os, steps)
    BY ElsewhereSelf
  <1> QED
    BY <1>1, <1>4, <1>5, <1>7, <1>8, <1>10, <1>11, <1>12, RefillServed

(* The second half: it becomes a queue, or goes back.                      *)
LEMMA QLinkServed ==
  ASSUME KInv, Inv, KInv', OSQCreate_Q PROVE Inv'
  <1> DEFINE e == Now.event
  <1>1. TInv /\ Data(os) /\ Core(os, Live, Waiting) /\ NoMutex(os) /\ DOMAIN pc = TCBs
    BY DEF Inv, TInv, Rules
  <1>2. Step("OSQCreate")
    BY DEF OSQCreate_Q
  <1>3. /\ os.running /\ isr = "none" /\ At(os.cur) = "OSQCreate" /\ os.cur \in TCBs /\ os.cur # Idle
        /\ Steps(pc[os.cur]) /\ NextOp(pc[os.cur]) = "OSQCreate" /\ Now = Head(pc[os.cur])
        /\ Waiting[os.cur] = WaitOf(pc[os.cur])
    BY <1>1, <1>2, StepCaller
  <1>4. e \in EventIds /\ Waiting[os.cur] = Sched
    BY <1>3, NextStep
  <1>5. /\ os.event[e].type = "UNUSED" /\ \A i \in DOMAIN os.freeEvents : os.freeEvents[i] # e
        /\ \A t \in TCBs : At(t) = "OSQCreate" /\ Head(pc[t]).event = e => t = os.cur
    BY <1>1, <1>3 DEF TInv, Pools
  <1>6. Waiters(os, e) = {} /\ \A t \in Live : Waiting[t].op = "multi" => e \notin Waiting[t].events
    BY <1>1, <1>4, <1>5, UnusedNoWaiter
  <1>7. /\ Continues(<<>>)
        /\ \/ os' = [os EXCEPT !.freeQs = @ - 1, !.event[e] = NewQ]
           \/ os' = [os EXCEPT !.freeEvents = <<e>> \o @]
    BY LeaveContinues DEF OSQCreate_Q
  <1> HIDE DEF e
  <1>8. Ordinary(<<>>) /\ WaitOf(<<>>) = Sched /\ NextOp(<<>>) = "none"
    BY <1>3, ShortSteps, StepForms DEF Ordinary, CreationOps
  <1>9. \A t \in TCBs : NextOp(pc'[t]) = "OSQCreate" =>
          t # os.cur /\ At(t) = "OSQCreate" /\ pc'[t] = pc[t]
    BY <1>1, <1>3, <1>7, <1>8, PcAfter
  <1>10. \A t \in TCBs : NextOp(pc'[t]) = "OSQCreate" => Head(pc'[t]).event # e
    BY <1>5, <1>9
  <1>11. NewQ.type = "Q" /\ NewQ.wait = EmptyTable /\ DOMAIN NewQ = ECBFields
    BY DEF NewQ, UnusedEvent, ECBFields
  <1>12. /\ DOMAIN os' = Fields
         /\ os'.tcb = os.tcb /\ os'.prioTbl = os.prioTbl /\ os'.rdy = os.rdy /\ os'.list = os.list
         /\ os'.free = os.free /\ os'.flag = os.flag /\ os'.freeFlags = os.freeFlags
         /\ os'.cur = os.cur /\ os'.prioCur = os.prioCur /\ os'.lock = os.lock /\ os'.running = os.running
    BY <1>1, <1>7 DEF Data, Fields
  <1>13. /\ DOMAIN os'.event = EventIds /\ \A f \in EventIds : f # e => os'.event[f] = os.event[f]
         /\ \/ os'.event[e] = NewQ /\ os'.freeEvents = os.freeEvents
            \/ os'.event[e] = os.event[e] /\ os'.freeEvents = <<e>> \o os.freeEvents
    <2>1. CASE os' = [os EXCEPT !.freeQs = @ - 1, !.event[e] = NewQ]
      <3>1. os'.freeEvents = os.freeEvents
        BY <1>1, <2>1 DEF Data, Fields
      <3>2. os'.event = [os.event EXCEPT ![e] = NewQ]
        BY <1>1, <2>1 DEF Data, Fields
      <3> QED
        BY <1>1, <1>4, <3>1, <3>2 DEF Data
    <2>2. CASE os' = [os EXCEPT !.freeEvents = <<e>> \o @]
      BY <1>1, <1>4, <2>2 DEF Data, Fields
    <2> QED
      BY <1>7, <2>1, <2>2
  <1>14. Refilled(os, os', e)
    <2>1. DOMAIN os'.event[e] = ECBFields /\ os'.event[e].wait \in Table /\ Waiters(os', e) = {}
      BY <1>1, <1>4, <1>6, <1>11, <1>13, EmptyMembers DEF Waiters, Data
    <2> QED
      BY <1>12, <1>13, <2>1 DEF Refilled
  <1>15. Pools' /\ NoMutex(os')
    <2> DEFINE s == os'.freeEvents
    <2>1. /\ s \in Seq(EventIds) /\ Distinct(s)
          /\ \A i \in DOMAIN s : (s[i] = e /\ os'.event[e].type = "UNUSED")
                                 \/ (s[i] # e /\ \E j \in DOMAIN os.freeEvents : s[i] = os.freeEvents[j])
      <3>1. os.freeEvents \in Seq(EventIds) /\ Distinct(os.freeEvents)
        BY <1>1 DEF TInv, Pools
      <3>2. CASE os'.freeEvents = os.freeEvents
        BY <1>5, <3>1, <3>2
      <3>3. CASE os'.event[e] = os.event[e] /\ os'.freeEvents = <<e>> \o os.freeEvents
        <4>1. /\ <<e>> \o os.freeEvents \in Seq(EventIds) /\ Distinct(<<e>> \o os.freeEvents)
              /\ \A i \in DOMAIN (<<e>> \o os.freeEvents) :
                   (<<e>> \o os.freeEvents)[i] = e
                   \/ \E j \in DOMAIN os.freeEvents : (<<e>> \o os.freeEvents)[i] = os.freeEvents[j]
          BY <1>4, <1>5, <3>1, PushFree
        <4> QED
          BY <1>5, <3>3, <4>1
      <3> QED
        BY <1>13, <3>2, <3>3
    <2>2. /\ \A g \in FlagIds : os'.flag[g].type = os.flag[g].type
          /\ \A f \in EventIds : f # e => os'.event[f].type = os.event[f].type
          /\ os'.event[e].type # "MUTEX"
      BY <1>5, <1>11, <1>12, <1>13
    <2>3. os'.freeEvents = s
      OBVIOUS
    <2> HIDE DEF s
    <2> QED
      BY <1>1, <1>4, <1>7, <1>8, <1>10, <1>12, <2>1, <2>2, <2>3, PoolsChanged
  <1>16. /\ Elsewhere(os, os, Nobody) /\ Nobody \in SUBSET Live
         /\ KeepsRunning(os, <<>>) /\ KeepsHighest(os, <<>>)
    BY ElsewhereSelf
  <1> QED
    BY <1>1, <1>3, <1>4, <1>6, <1>7, <1>8, <1>14, <1>15, <1>16, RefillServed

(* An event control block goes back to the list, with its queue or not.    *)
LEMMA FreedShape ==
  ASSUME NEW m, Data(m), NEW e \in EventIds,
         NEW l, l = FreeEvent(m, e) \/ l = [FreeEvent(m, e) EXCEPT !.freeQs = @ + 1]
  PROVE  /\ DOMAIN l = Fields
         /\ l.tcb = m.tcb /\ l.prioTbl = m.prioTbl /\ l.rdy = m.rdy /\ l.list = m.list
         /\ l.free = m.free /\ l.flag = m.flag /\ l.freeFlags = m.freeFlags
         /\ l.cur = m.cur /\ l.prioCur = m.prioCur /\ l.lock = m.lock /\ l.running = m.running
         /\ l.freeEvents = <<e>> \o m.freeEvents
         /\ DOMAIN l.event = EventIds /\ \A f \in EventIds : f # e => l.event[f] = m.event[f]
         /\ DOMAIN l.event[e] = ECBFields /\ l.event[e].wait = m.event[e].wait
         /\ l.event[e].type = "UNUSED"
  <1> DEFINE k == FreeEvent(m, e)
  <1>1. k = [m EXCEPT !.event[e].type = "UNUSED", !.event[e].cnt = 0, !.event[e].pip = 0,
                      !.event[e].ptr = None, !.freeEvents = <<e>> \o @]
    BY DEF FreeEvent
  <1> HIDE DEF k
  <1>2. DOMAIN m = Fields /\ DOMAIN m.event = EventIds /\ DOMAIN m.event[e] = ECBFields
    BY DEF Data
  <1>3. /\ DOMAIN k = Fields
        /\ k.tcb = m.tcb /\ k.prioTbl = m.prioTbl /\ k.rdy = m.rdy /\ k.list = m.list
        /\ k.free = m.free /\ k.flag = m.flag /\ k.freeFlags = m.freeFlags
        /\ k.cur = m.cur /\ k.prioCur = m.prioCur /\ k.lock = m.lock /\ k.running = m.running
    BY <1>1, <1>2 DEF Fields
  <1>4. k.freeEvents = <<e>> \o m.freeEvents
    BY <1>1, <1>2 DEF Fields
  <1>5. DOMAIN k.event = EventIds /\ \A f \in EventIds : f # e => k.event[f] = m.event[f]
    BY <1>1, <1>2 DEF Fields
  <1>6. DOMAIN k.event[e] = ECBFields /\ k.event[e].wait = m.event[e].wait /\ k.event[e].type = "UNUSED"
    BY <1>1, <1>2 DEF Fields, ECBFields
  <1>7. CASE l = k
    BY <1>3, <1>4, <1>5, <1>6, <1>7
  <1>8. CASE l = [k EXCEPT !.freeQs = @ + 1]
    <2>1. /\ DOMAIN l = Fields
          /\ l.tcb = k.tcb /\ l.prioTbl = k.prioTbl /\ l.rdy = k.rdy /\ l.list = k.list
          /\ l.free = k.free /\ l.flag = k.flag /\ l.freeFlags = k.freeFlags
          /\ l.cur = k.cur /\ l.prioCur = k.prioCur /\ l.lock = k.lock /\ l.running = k.running
      BY <1>3, <1>8 DEF Fields
    <2>2. l.freeEvents = k.freeEvents /\ l.event = k.event
      BY <1>3, <1>8 DEF Fields
    <2> QED
      BY <1>3, <1>4, <1>5, <1>6, <2>1, <2>2
  <1>9. l = k \/ l = [k EXCEPT !.freeQs = @ + 1]
    BY DEF k
  <1> QED
    BY <1>7, <1>8, <1>9

(* OSSemDel, OSMboxDel and OSQDel. *)
LEMMA DelServed ==
  ASSUME KInv, Inv, KInv', NEW c \in NotWithMulti, AtTask(c), NEW e \in EventIds,
         NEW msk \in {"SEM", "MBOX", "Q"}, os.event[e].type = msk,
         NEW m, m = OS_EventTaskRdy(os, e, Waiters(os, e), None, msk, "OK"),
         NEW steps, steps = IF HasWaiter(os, e) THEN <<Sched>> ELSE <<>>,
         NEW l, l = FreeEvent(m, e) \/ l = [FreeEvent(m, e) EXCEPT !.freeQs = @ + 1],
         Leave(l, steps)
  PROVE  Inv'
  <1> DEFINE P == Waiters(os, e)
  <1>1. TInv /\ Data(os) /\ Core(os, Live, Waiting) /\ NoMutex(os) /\ DOMAIN pc = TCBs /\ os.cur \in TCBs
    BY DEF Inv, TInv, Rules, Data
  <1>2. Continues(steps) /\ os' = l
    BY LeaveContinues
  <1>3. os.running /\ isr = "none" /\ Waiting[os.cur] = Sched /\ At(os.cur) = "none"
    BY <1>1, TaskCaller
  <1>4. steps = <<>> \/ steps = <<Sched>>
    OBVIOUS
  <1>5. Ordinary(steps) /\ NextOp(steps) # "OSQCreate" /\ WaitOf(steps) = Sched
    BY <1>1, <1>4, Caller, ShortSteps DEF Anywhere
  <1>6. WakeDone(os, m, Live, Waiting, e, P)
    <2>1. msk \in EventKinds /\ "OK" \in Answers /\ P \in SUBSET Waiters(os, e)
      BY DEF EventKinds, Answers
    <2> QED
      BY <1>1, <2>1, WakeCore
  <1>7. /\ Data(m) /\ Elsewhere(os, m, Woke(os, P)) /\ SamePools(os, m) /\ Core(m, Live, Waiting)
        /\ Woke(os, P) \subseteq Live
        /\ \A q \in Members(os.rdy) : q \in Members(m.rdy)
        /\ \A q \in Members(m.rdy) : q \in Members(os.rdy) \/ q \in P
        /\ \A q \in Prios : q \notin Waiters(m, e)
    BY <1>6 DEF WakeDone
  <1>8. Waiters(m, e) = {}
    BY <1>7 DEF Waiters, Members
  <1>9. KeepsRunning(m, steps) /\ KeepsHighest(m, steps)
    <2>1. KeepsRunning(m, steps)
      BY <1>7 DEF KeepsRunning, IsReady, Cur
    <2>2. CASE HasWaiter(os, e)
      BY <2>1, <2>2, StepForms DEF KeepsHighest
    <2>3. CASE ~HasWaiter(os, e)
      <3>1. os.event[e].wait \in Table /\ WellFormed(os.event[e].wait)
        BY <1>1 DEF KInv, Good, EventsOK, Data
      <3>2. P = {}
        BY <2>3, <3>1, EmptyIsNone DEF HasWaiter, Waiters
      <3> QED
        BY <1>7, <2>1, <3>2 DEF KeepsHighest
    <2> QED
      BY <2>2, <2>3
  <1>10. m.freeEvents = os.freeEvents /\ m.freeFlags = os.freeFlags
         /\ (\A f \in EventIds : m.event[f].type = os.event[f].type)
         /\ (\A g \in FlagIds : m.flag[g].type = os.flag[g].type)
    BY <1>7 DEF SamePools
  <1> HIDE DEF P
  <1>11. /\ DOMAIN os' = Fields
         /\ os'.tcb = m.tcb /\ os'.prioTbl = m.prioTbl /\ os'.rdy = m.rdy /\ os'.list = m.list
         /\ os'.free = m.free /\ os'.flag = m.flag /\ os'.freeFlags = m.freeFlags
         /\ os'.cur = m.cur /\ os'.prioCur = m.prioCur /\ os'.lock = m.lock /\ os'.running = m.running
         /\ os'.freeEvents = <<e>> \o m.freeEvents
         /\ DOMAIN os'.event = EventIds /\ \A f \in EventIds : f # e => os'.event[f] = m.event[f]
         /\ DOMAIN os'.event[e] = ECBFields /\ os'.event[e].wait = m.event[e].wait
         /\ os'.event[e].type = "UNUSED"
    BY <1>2, <1>7, FreedShape
  <1>15. Refilled(m, os', e)
    BY <1>7, <1>8, <1>11 DEF Refilled, Waiters, Data
  <1>16. \A t \in TCBs : NextOp(pc'[t]) = "OSQCreate" => At(t) = "OSQCreate" /\ pc'[t] = pc[t]
    BY <1>1, <1>2, <1>5, PcAfter
  <1>17. /\ \A i \in DOMAIN os.freeEvents : os.freeEvents[i] # e
         /\ \A t \in TCBs : NextOp(pc'[t]) = "OSQCreate" => Head(pc'[t]).event # e
    BY <1>1, <1>16 DEF TInv, Pools
  <1>18. Pools' /\ NoMutex(os')
    <2> DEFINE s == os'.freeEvents
    <2>1. os.freeEvents \in Seq(EventIds) /\ Distinct(os.freeEvents)
      BY <1>1 DEF TInv, Pools
    <2>2. /\ <<e>> \o os.freeEvents \in Seq(EventIds) /\ Distinct(<<e>> \o os.freeEvents)
          /\ \A i \in DOMAIN (<<e>> \o os.freeEvents) :
               (<<e>> \o os.freeEvents)[i] = e
               \/ \E j \in DOMAIN os.freeEvents : (<<e>> \o os.freeEvents)[i] = os.freeEvents[j]
      BY <1>17, <2>1, PushFree
    <2>3. /\ s \in Seq(EventIds) /\ Distinct(s)
          /\ \A i \in DOMAIN s : (s[i] = e /\ os'.event[e].type = "UNUSED")
                                 \/ (s[i] # e /\ \E j \in DOMAIN os.freeEvents : s[i] = os.freeEvents[j])
      BY <1>10, <1>11, <2>2
    <2>4. /\ \A g \in FlagIds : os'.flag[g].type = os.flag[g].type
          /\ \A f \in EventIds : f # e => os'.event[f].type = os.event[f].type
          /\ os'.event[e].type # "MUTEX" /\ os'.freeFlags = os.freeFlags
      BY <1>10, <1>11
    <2>5. os'.freeEvents = s
      OBVIOUS
    <2> HIDE DEF s
    <2> QED
      BY <1>1, <1>2, <1>5, <1>17, <2>3, <2>4, <2>5, PoolsChanged
  <1>19. Woke(os, P) \in SUBSET Live
    BY <1>7
  <1>20. \A t \in Live : Waiting[t].op # "multi"
    <2>1. ~SeveralAllowed /\ Live \subseteq TCBs
      BY <1>1 DEF SeveralAllowed, AtTask, Core
    <2> QED
      BY <2>1 DEF Inv, Rules
  <1> QED
    BY <1>1, <1>2, <1>3, <1>5, <1>7, <1>8, <1>9, <1>15, <1>18, <1>19, <1>20, RefillServed

LEMMA EventDels ==
  ASSUME KInv, Inv, KInv', NEW e \in EventIds, NEW always
  PROVE  /\ OSSemDel(e, always) => Inv'
         /\ OSMboxDel(e, always) => Inv'
         /\ OSQDel(e, always) => Inv'
  <1> DEFINE m(msk) == OS_EventTaskRdy(os, e, Waiters(os, e), None, msk, "OK")
             steps == IF HasWaiter(os, e) THEN <<Sched>> ELSE <<>>
  <1>1. ASSUME OSSemDel(e, always) PROVE Inv'
    <2> DEFINE l == FreeEvent(m("SEM"), e)
    <2>1. AtTask("OSSemDel") /\ "OSSemDel" \in NotWithMulti /\ os.event[e].type = "SEM" /\ Leave(l, steps)
      BY <1>1 DEF OSSemDel, IsSem, NotWithMulti
    <2> HIDE DEF l, m, steps
    <2> QED
      BY <2>1, DelServed DEF l, m, steps
  <1>2. ASSUME OSMboxDel(e, always) PROVE Inv'
    <2> DEFINE l == FreeEvent(m("MBOX"), e)
    <2>1. AtTask("OSMboxDel") /\ "OSMboxDel" \in NotWithMulti /\ os.event[e].type = "MBOX" /\ Leave(l, steps)
      BY <1>2 DEF OSMboxDel, IsMbox, NotWithMulti
    <2> HIDE DEF l, m, steps
    <2> QED
      BY <2>1, DelServed DEF l, m, steps
  <1>3. ASSUME OSQDel(e, always) PROVE Inv'
    <2> DEFINE l == [FreeEvent(m("Q"), e) EXCEPT !.freeQs = @ + 1]
    <2>1. AtTask("OSQDel") /\ "OSQDel" \in NotWithMulti /\ os.event[e].type = "Q" /\ Leave(l, steps)
      BY <1>3 DEF OSQDel, IsQ, NotWithMulti
    <2> HIDE DEF l, m, steps
    <2> QED
      BY <2>1, DelServed DEF l, m, steps
  <1> QED
    BY <1>1, <1>2, <1>3

===============================================================================
