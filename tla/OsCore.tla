------------------------------- MODULE OsCore -------------------------------
(***************************************************************************)
(* The core of uC/OS-II (os_core.c): task control blocks, ready list, wait *)
(* lists, scheduler, interrupt entry and exit, tick.                       *)
(*                                                                         *)
(* A kernel service runs as a few critical sections with interrupts off;   *)
(* between two of them anything may happen, a switch to another task       *)
(* included.  One action is one critical section.  What the service still  *)
(* has to do after it is kept, step by step, in pc of the calling task: a  *)
(* call to OS_Sched and the rest of the service once the task runs again.  *)
(* Services that reject their arguments change nothing; their checks are   *)
(* the guards here.  One check is a step of its own: the type of an object *)
(* is read before the critical section.  An interrupt handler enters       *)
(* between any two steps, calls services and leaves through OSIntExit.     *)
(*                                                                         *)
(* The linked lists OSTCBList and the wait list of a flag group are sets   *)
(* here (their order decides nothing), the free lists keep their order.    *)
(* Which services the tasks and the handlers of an application call, and   *)
(* on which objects, is its profile; it never changes.                     *)
(***************************************************************************)
EXTENDS OsTable, Sequences, FiniteSets

CONSTANTS
  OS_MAX_TASKS,    (* task control blocks besides the idle task's         *)
  OS_MAX_EVENTS,   (* event control blocks                                *)
  OS_MAX_FLAGS,    (* event flag groups                                   *)
  FlagBits,        (* the bits of an event flag group                     *)
  Msgs,            (* messages, that is pointers that are not null        *)
  Timeouts,        (* the timeouts and delays of calls, in ticks          *)
  Profiles,        (* the applications considered                         *)
  DeletionRaces,   (* may an object be deleted under a task that has      *)
                   (* already checked it?                                 *)
  None,            (* the null pointer                                    *)
  Reserved         (* OS_TCB_RESERVED                                     *)

VARIABLES
  os,     (* the global data of the kernel, see Kernel                    *)
  isr,    (* OSIntNesting: "none", or what the running handler is         *)
  pc,     (* pc[t]: what task t still has to do of the service it called  *)
  seen,   (* seen[t]: the object task t has checked for its next section  *)
  io,     (* io[e]: what the last step told its caller about event e      *)
  app     (* the application's profile                                    *)

vars == <<os, isr, pc, seen, io, app>>

TCBs     == 0 .. OS_MAX_TASKS
EventIds == 0 .. OS_MAX_EVENTS - 1
FlagIds  == 0 .. OS_MAX_FLAGS - 1
Idle     == 0          (* the idle task gets the first control block *)

OS_STAT_PEND_ANY == {"SEM", "MBOX", "Q", "MUTEX", "FLAG"}
(* The low byte of OSEventCnt of a mutex nobody owns: not a priority.      *)
OS_MUTEX_AVAILABLE == OS_LOWEST_PRIO + 1

(* A control block as OS_TCBInit leaves it. *)
NewTCB(prio) ==
  [prio |-> prio, stat |-> {}, pend |-> "OK", dly |-> 0, event |-> None,
   multi |-> {}, msg |-> None, node |-> None, flagsRdy |-> {}, delReq |-> FALSE]

UnusedEvent ==
  [type |-> "UNUSED", cnt |-> 0, pip |-> 0, ptr |-> None, wait |-> EmptyTable]
UnusedFlag == [type |-> "UNUSED", flags |-> {}, wait |-> {}]

(* The events an application starts with are control blocks with nobody in *)
(* their wait lists.                                                       *)
ASSUME ProfilesAssumption ==
  \A a \in Profiles : \A e \in DOMAIN a.events :
    DOMAIN a.events[e] = DOMAIN UnusedEvent /\ a.events[e].wait = EmptyTable

(* The null pointer and the mark of a reserved priority are the address of *)
(* nothing.                                                                *)
ASSUME SizesAssumption ==
  OS_MAX_TASKS \in Nat /\ OS_MAX_EVENTS \in Nat /\ OS_MAX_FLAGS \in Nat
(* Timeouts and delays are unsigned.                                       *)
ASSUME TimeoutsAssumption == Timeouts \subseteq Nat
ASSUME NullAssumption ==
  None \notin TCBs \cup EventIds \cup Msgs /\ Reserved \notin TCBs \cup {None}

(***************************************************************************)
(* The steps a task has left.                                              *)
(***************************************************************************)
Sched     == [op |-> "OS_Sched"]
Step(op)  == os.running /\ isr = "none" /\ pc[os.cur] # <<>> /\ Head(pc[os.cur]).op = op
Now       == Head(pc[os.cur])
NoIO      == [e \in EventIds |-> [act |-> "none"]]
Told(e, a) == [NoIO EXCEPT ![e] = a]

(* Where a call may come from: a task between two services, or a handler.  *)
AtTask(call) == /\ os.running /\ isr = "none" /\ os.cur # Idle /\ pc[os.cur] = <<>>
                /\ call \in app.calls
AtIsr(call)  == isr = "device" /\ call \in app.isr
Anywhere(call) == AtTask(call) \/ AtIsr(call)
Cur == os.tcb[os.cur]

(* The steps in which task t takes the answer of a pend, and its events.   *)
PendSteps(t) == {i \in DOMAIN pc[t] : pc[t][i].op \in {"pend", "multi"}}
PendsOn(t)   == UNION {IF pc[t][i].op = "pend" THEN {pc[t][i].event} ELSE pc[t][i].events
                         : i \in PendSteps(t)}

(***************************************************************************)
(* The type of an object, or of several, is read with interrupts on.  A    *)
(* handler goes on at once; between the check of a task and its section    *)
(* other tasks run.  A call whose section would change nothing ends there, *)
(* and the task makes its next one.  Unless DeletionRaces, no task checks  *)
(* for a deletion what another one is about to use, nor for a use what     *)
(* another one is about to delete: then every section finds what was       *)
(* checked (CheckedIsThere of Kernel), and the type in its guard restricts *)
(* nothing.  What a section does to an object that is gone is not          *)
(* modelled; with DeletionRaces the behaviours end there.                  *)
(***************************************************************************)
NothingSeen  == [types |-> {}, events |-> {}, groups |-> {}, deletes |-> FALSE]
Event(type, e, deletes) ==
  [NothingSeen EXCEPT !.types = {type}, !.events = {e}, !.deletes = deletes]
Clash(s, r)  == (s.deletes \/ r.deletes) /\ (s.events \cap r.events) \cup (s.groups \cap r.groups) # {}

CheckType(calls, s) ==
  /\ \E call \in calls : AtTask(call)
  /\ DeletionRaces \/ \A t \in TCBs \ {os.cur} : ~Clash(s, seen[t])
  /\ seen' = [seen EXCEPT ![os.cur] = s]
  /\ io' = NoIO
  /\ UNCHANGED <<os, isr, pc, app>>
Checked(s) == isr = "none" => seen[os.cur] = s

(* A critical section that leaves k, after which a task continues with     *)
(* steps.  In a handler the call of OS_Sched returns at once.              *)
Leave(k, steps) ==
  /\ os' = k
  /\ pc' = IF isr = "none" THEN [pc EXCEPT ![os.cur] = steps] ELSE pc
  /\ seen' = IF isr = "none" THEN [seen EXCEPT ![os.cur] = NothingSeen] ELSE seen
  /\ UNCHANGED <<isr, app>>
(* The same for a later step of the running task. *)
Proceed(k) == Leave(k, Tail(pc[os.cur]))

(***************************************************************************)
(* Ready list.                                                             *)
(***************************************************************************)
Suspended(tcb) == "SUSPEND" \in tcb.stat
MakeReady(k, S)   == [k EXCEPT !.rdy = Insert(@, {k.tcb[t].prio : t \in S})]
MakeUnready(k, S) == [k EXCEPT !.rdy = Delete(@, {k.tcb[t].prio : t \in S})]
Task(k, prio)     == k.prioTbl[prio]
Exists(prio)      == os.prioTbl[prio] \notin {None, Reserved}

(* The delay of the tasks S ends: a pend times out, and who is not         *)
(* suspended is ready.                                                     *)
Expire(k, S) ==
  [k EXCEPT
     !.tcb = [t \in TCBs |->
                IF t \notin S THEN k.tcb[t]
                ELSE [k.tcb[t] EXCEPT
                        !.dly = 0, !.stat = @ \ OS_STAT_PEND_ANY,
                        !.pend = IF k.tcb[t].stat \cap OS_STAT_PEND_ANY # {} THEN "TO" ELSE "OK"]],
     !.rdy = Insert(@, {k.tcb[t].prio : t \in {u \in S : ~Suspended(k.tcb[u])}})]

(***************************************************************************)
(* Wait lists.                                                             *)
(***************************************************************************)
Waiters(k, e)      == Members(k.event[e].wait)
HasWaiter(k, e)    == ~IsEmptyTable(k.event[e].wait)
HighestWaiter(k, e) == {Highest(k.event[e].wait)}

OS_EventTaskWait(k, e) ==
  LET p == k.tcb[k.cur].prio
  IN  MakeUnready([k EXCEPT !.tcb[k.cur].event = e,
                            !.event[e].wait = Insert(@, {p})], {k.cur})

OS_EventTaskWaitMulti(k, E) ==
  LET p == k.tcb[k.cur].prio
  IN  MakeUnready([k EXCEPT !.tcb[k.cur].event = None, !.tcb[k.cur].multi = E,
                            !.event = [e \in EventIds |->
                                         IF e \in E
                                           THEN [k.event[e] EXCEPT !.wait = Insert(@, {p})]
                                           ELSE k.event[e]]], {k.cur})

OS_EventTaskRemove(k, t, e) ==
  [k EXCEPT !.event[e].wait = Delete(@, {k.tcb[t].prio})]

(* Each task t in the domain of E leaves the wait lists of the events E[t]. *)
OS_EventTaskRemoveMulti(k, E) ==
  [k EXCEPT !.event = [e \in EventIds |->
     [k.event[e] EXCEPT !.wait =
        Delete(@, {k.tcb[t].prio : t \in {u \in DOMAIN E : e \in E[u]}})]]]

(* Mutant: the timeout of a task that got its event keeps running.         *)
OS_EventTaskRdy_DlyKept(k, e, P, msg, msk, pend) ==
  LET S     == {Task(k, p) : p \in P}
      woken == [k EXCEPT !.tcb = [t \in TCBs |->
                  IF t \notin S THEN k.tcb[t]
                  ELSE [k.tcb[t] EXCEPT !.msg = msg, !.stat = @ \ {msk},
                          !.pend = pend, !.event = IF k.tcb[t].multi # {} THEN e ELSE @]]]
  IN  OS_EventTaskRemoveMulti(
        MakeReady(woken, {t \in S : ~Suspended(k.tcb[t])}),
        [t \in S |-> {e} \cup k.tcb[t].multi])
(* Mutant: a task that waits for several events stays in the other lists.  *)
OS_EventTaskRdy_OneList(k, e, P, msg, msk, pend) ==
  LET S     == {Task(k, p) : p \in P}
      woken == [k EXCEPT !.tcb = [t \in TCBs |->
                  IF t \notin S THEN k.tcb[t]
                  ELSE [k.tcb[t] EXCEPT !.dly = 0, !.msg = msg, !.stat = @ \ {msk},
                          !.pend = pend, !.event = IF k.tcb[t].multi # {} THEN e ELSE @]]]
  IN  OS_EventTaskRemoveMulti(
        MakeReady(woken, {t \in S : ~Suspended(k.tcb[t])}), [t \in S |-> {e}])
(* The waiters of e with the priorities P get the message: they leave      *)
(* every wait list they are in, and those not suspended are ready.  A      *)
(* service calls it for the highest waiter, or until none is left.         *)
OS_EventTaskRdy(k, e, P, msg, msk, pend) ==
  LET S     == {Task(k, p) : p \in P}
      woken == [k EXCEPT !.tcb = [t \in TCBs |->
                  IF t \notin S THEN k.tcb[t]
                  ELSE [k.tcb[t] EXCEPT !.dly = 0, !.msg = msg, !.stat = @ \ {msk},
                          !.pend = pend, !.event = IF k.tcb[t].multi # {} THEN e ELSE @]]]
  IN  OS_EventTaskRemoveMulti(
        MakeReady(woken, {t \in S : ~Suspended(k.tcb[t])}),
        [t \in S |-> {e} \cup k.tcb[t].multi])

(* What the pend services have in common: the running task starts to wait, *)
(* and cleans up when it runs again.                                       *)
StartPend(k, bits, timeout) ==
  [k EXCEPT !.tcb[k.cur].stat = @ \cup bits, !.tcb[k.cur].pend = "OK",
            !.tcb[k.cur].dly = timeout]
EndPend(k, E) ==
  [(IF k.tcb[k.cur].pend = "TO"
      THEN OS_EventTaskRemoveMulti(k, [t \in {k.cur} |-> E]) ELSE k)
     EXCEPT !.tcb[k.cur].stat = {}, !.tcb[k.cur].pend = "OK", !.tcb[k.cur].event = None,
            !.tcb[k.cur].multi = {}, !.tcb[k.cur].msg = None]

(* A task leaves the list of the flag group it waits for (os_flag.c).      *)
OS_FlagUnlink(k, t) ==
  IF k.tcb[t].node = None THEN k
  ELSE [k EXCEPT !.flag[k.tcb[t].node.grp].wait = @ \ {t}, !.tcb[t].node = None]

(* Event control blocks come from and go to a list of free ones. *)
NewEvent(k, ecb)  == [k EXCEPT !.event[Head(k.freeEvents)] = ecb, !.freeEvents = Tail(@)]
FreeEvent(k, e)   ==
  [k EXCEPT !.event[e].type = "UNUSED", !.event[e].cnt = 0, !.event[e].pip = 0,
            !.event[e].ptr = None, !.freeEvents = <<e>> \o @]

(***************************************************************************)
(* Scheduling.                                                             *)
(***************************************************************************)
(* Mutant: the lock is ignored.                                            *)
Switch_Unlocked(k) ==
  LET high == Highest(k.rdy)
  IN  IF high # k.prioCur
        THEN [k EXCEPT !.cur = Task(k, high), !.prioCur = high] ELSE k
(* To the highest ready priority, unless the scheduler is locked. *)
Switch(k) ==
  LET high == Highest(k.rdy)
  IN  IF k.lock = 0 /\ high # k.prioCur
        THEN [k EXCEPT !.cur = Task(k, high), !.prioCur = high] ELSE k

OS_Sched ==
  /\ Step("OS_Sched")
  /\ Proceed(Switch(os))
  /\ io' = NoIO

OSSchedLock ==
  /\ AtTask("OSSchedLock")
  /\ os.lock < app.maxLock
  /\ Leave([os EXCEPT !.lock = @ + 1], <<>>)
  /\ io' = NoIO

(* Mutant: who became ready meanwhile has to wait for the next call.       *)
OSSchedUnlock_NoSched ==
  /\ AtTask("OSSchedUnlock")
  /\ os.lock > 0
  /\ Leave([os EXCEPT !.lock = @ - 1], <<>>)
  /\ io' = NoIO
OSSchedUnlock ==
  /\ AtTask("OSSchedUnlock")
  /\ os.lock > 0
  /\ Leave([os EXCEPT !.lock = @ - 1], IF os.lock = 1 THEN <<Sched>> ELSE <<>>)
  /\ io' = NoIO

OSStart ==
  /\ ~os.running
  /\ LET high == Highest(os.rdy)
     IN  os' = [os EXCEPT !.cur = Task(os, high), !.prioCur = high, !.running = TRUE]
  /\ io' = NoIO
  /\ UNCHANGED <<isr, pc, seen, app>>

(***************************************************************************)
(* Interrupts.  They do not nest: the CPU masks them until the handler's   *)
(* ERET.                                                                   *)
(***************************************************************************)
OSIntEnter(kind) ==
  /\ os.running /\ isr = "none"
  /\ kind = "device" => app.isr # {}
  /\ isr' = kind
  /\ io' = NoIO
  /\ UNCHANGED <<os, pc, seen, app>>

(* Mutant: the delay of the first task of the list only is counted.        *)
OSTimeTick_StopsEarly ==
  /\ isr = "tick"
  /\ LET delayed == {t \in os.list \ {Idle} : os.tcb[t].dly # 0 /\ \A u \in os.list : u <= t}
         ticked  == [os EXCEPT !.tcb = [t \in TCBs |->
                       IF t \in delayed THEN [os.tcb[t] EXCEPT !.dly = @ - 1] ELSE os.tcb[t]]]
     IN  os' = Expire(ticked, {t \in delayed : ticked.tcb[t].dly = 0})
  /\ isr' = "exit"
  /\ io' = NoIO
  /\ UNCHANGED <<pc, seen, app>>
OSTimeTick ==
  /\ isr = "tick"
  /\ LET delayed == {t \in os.list \ {Idle} : os.tcb[t].dly # 0}
         ticked  == [os EXCEPT !.tcb = [t \in TCBs |->
                       IF t \in delayed THEN [os.tcb[t] EXCEPT !.dly = @ - 1] ELSE os.tcb[t]]]
     IN  os' = Expire(ticked, {t \in delayed : ticked.tcb[t].dly = 0})
  /\ isr' = "exit"
  /\ io' = NoIO
  /\ UNCHANGED <<pc, seen, app>>

OSIntExit ==
  /\ isr \in {"device", "exit"}
  /\ os' = Switch(os)
  /\ isr' = "none"
  /\ io' = NoIO
  /\ UNCHANGED <<pc, seen, app>>

(***************************************************************************)
(* What OSInit and main leave: the idle task and the tasks and objects of  *)
(* the profile.  Nothing runs before OSStart.                              *)
(***************************************************************************)
AppTasks == 1 .. Len(app.tasks)

(* The control blocks behind the first n, in the order of the free list.   *)
FreeFrom(n, size) == [i \in 1 .. size - n |-> n + i - 1]

IdleTask  == NewTCB(OS_TASK_IDLE_PRIO)
InitTCBs  ==
  [t \in TCBs |-> IF t = Idle THEN IdleTask
                  ELSE IF t \in AppTasks THEN NewTCB(app.tasks[t]) ELSE NewTCB(0)]
InitPrioTbl ==
  [p \in Prios |->
     IF p = OS_TASK_IDLE_PRIO THEN Idle
     ELSE IF \E t \in AppTasks : app.tasks[t] = p
       THEN CHOOSE t \in AppTasks : app.tasks[t] = p
     ELSE IF \E e \in DOMAIN app.events : app.events[e].type = "MUTEX" /\ app.events[e].pip = p
       THEN Reserved
     ELSE None]
InitRdy   == Insert(EmptyTable, {OS_TASK_IDLE_PRIO} \cup {app.tasks[t] : t \in AppTasks})
InitEvents ==
  [e \in EventIds |-> IF e \in DOMAIN app.events THEN app.events[e] ELSE UnusedEvent]
InitFlags ==
  [g \in FlagIds |-> IF g \in DOMAIN app.flags THEN app.flags[g] ELSE UnusedFlag]
InitMem   == [headers |-> app.mem, parts |-> <<>>]

InitOS ==
  [tcb |-> InitTCBs, prioTbl |-> InitPrioTbl, rdy |-> InitRdy,
   list |-> {Idle} \cup AppTasks, free |-> FreeFrom(Len(app.tasks) + 1, OS_MAX_TASKS + 1),
   event |-> InitEvents, freeEvents |-> FreeFrom(Cardinality(DOMAIN app.events), OS_MAX_EVENTS),
   freeQs |-> app.freeQs,
   flag |-> InitFlags, freeFlags |-> FreeFrom(Cardinality(DOMAIN app.flags), OS_MAX_FLAGS),
   mem |-> InitMem,
   cur |-> Idle, prioCur |-> 0, lock |-> 0, running |-> FALSE]

Init ==
  /\ app \in Profiles
  /\ os = InitOS
  /\ isr = "none"
  /\ pc = [t \in TCBs |-> <<>>]
  /\ seen = [t \in TCBs |-> NothingSeen]
  /\ io = NoIO
=============================================================================
