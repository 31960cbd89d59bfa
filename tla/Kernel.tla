------------------------------- MODULE Kernel -------------------------------
(***************************************************************************)
(* The kernel as a whole: every service of every task and handler, and     *)
(* what must hold between them.                                            *)
(***************************************************************************)
EXTENDS OsTask, OsMulti, OsFlag, OsMutex, OsMem

IntNext == \/ \E kind \in {"tick", "device"} : OSIntEnter(kind)
           \/ OSTimeTick
           \/ OSIntExit

CheckNext ==
  \/ \E e \in EventIds, deletes \in BOOLEAN :
       OSSem_CheckType(e, deletes) \/ OSMbox_CheckType(e, deletes) \/ OSQ_CheckType(e, deletes)
         \/ OSMutex_CheckType(e, deletes)
  \/ \E g \in FlagIds, deletes \in BOOLEAN : OSFlag_CheckType(g, deletes)
  \/ \E E \in SUBSET EventIds : OSEventPendMulti_CheckType(E)

Next ==
  \/ OSStart
  \/ CheckNext
  \/ IntNext
  \/ OS_Sched \/ OSSchedLock \/ OSSchedUnlock
  \/ TaskNext
  \/ SemNext \/ MboxNext \/ QNext \/ MultiNext
  \/ FlagNext \/ MutexNext
  \/ MemNext

Spec == Init /\ [][Next]_vars

(***************************************************************************)
(* The timer interrupt keeps coming, however often devices interrupt, and  *)
(* every handler ends.                                                     *)
(***************************************************************************)
FairSpec == /\ Spec
            /\ SF_vars(OSIntEnter("tick"))
            /\ WF_vars(OSTimeTick)
            /\ WF_vars(OSIntExit)

(***************************************************************************)
(* Applications as they start, which keep to the rules of the services     *)
(* they call.  A handler changes no priority: until a task that has just   *)
(* changed its own has called OS_Sched, OSPrioCur is a priority another    *)
(* task could get, and OSIntExit would see no reason to switch.  A task    *)
(* that waits for several events is not suspended: the post that ends its  *)
(* wait leaves OS_STAT_MULTI and the bits of the other events in           *)
(* OSTCBStat, so that OSTaskResume never makes it ready.  Nor is one of    *)
(* these events deleted: OSEventPendMulti then returns an error before it  *)
(* clears the status and the event pointers of its task.                   *)
(***************************************************************************)
NotWithMulti == {"OSTaskSuspend", "OSSemDel", "OSMboxDel", "OSQDel"}
UsesMutexes(a) ==
  "OSMutexCreate" \in a.calls \/ \E e \in DOMAIN a.events : a.events[e].type = "MUTEX"
FirstEvents(a) ==
  {NewSem(cnt) : cnt \in 0 .. OS_SEM_MAX} \cup {NewMbox(msg) : msg \in Msgs \cup {None}}
    \cup {NewQ}
    \cup {NewMutex(pip) : pip \in Prios \ ({OS_TASK_IDLE_PRIO} \cup {a.tasks[t] : t \in DOMAIN a.tasks})}

Supported(a) ==
  /\ a.tasks \in Seq(Prios \ {OS_TASK_IDLE_PRIO}) /\ Len(a.tasks) <= OS_MAX_TASKS
  /\ \A t, u \in DOMAIN a.tasks : a.tasks[t] = a.tasks[u] => t = u
  /\ \E n \in 0 .. OS_MAX_EVENTS : DOMAIN a.events = 0 .. n - 1
  /\ \A e \in DOMAIN a.events : a.events[e] \in FirstEvents(a)
  /\ \E n \in 0 .. OS_MAX_FLAGS : DOMAIN a.flags = 0 .. n - 1
  /\ \A g \in DOMAIN a.flags : a.flags[g] \in {NewFlag(flags) : flags \in SUBSET FlagBits}
  /\ a.conds \subseteq Conditions /\ a.freeQs \in Nat /\ a.mem \in Nat
  /\ "OSTaskChangePrio" \notin a.isr
  /\ "OSEventPendMulti" \in a.calls => \A c \in NotWithMulti : c \notin a.calls

(***************************************************************************)
(* Types.                                                                  *)
(***************************************************************************)
StatBits == OS_STAT_PEND_ANY \cup {"SUSPEND", "MULTI"}
TCB == [prio : Prios, stat : SUBSET StatBits, pend : {"OK", "TO", "ABORT"}, dly : Nat,
        event : EventIds \cup {None}, multi : SUBSET EventIds, msg : Msgs \cup {None},
        node : [grp : FlagIds, cond : Conditions] \cup {None},
        flagsRdy : SUBSET FlagBits, delReq : BOOLEAN]

(* The shape of the kernel's data; the scheduler is never unlocked more    *)
(* often than it was locked, and no count leaves its range.                *)
TypeOK ==
  /\ os.tcb \in [TCBs -> TCB]
  /\ os.prioTbl \in [Prios -> TCBs \cup {None, Reserved}]
  /\ os.rdy \in Table
  /\ os.list \subseteq TCBs
  /\ \A e \in EventIds : /\ os.event[e].wait \in Table
                         /\ IsSem(e) => os.event[e].cnt \in 0 .. OS_SEM_MAX
                         /\ IsMbox(e) => os.event[e].ptr \in Msgs \cup {None}
                         /\ IsQ(e) => Queue(e) \in Rings(OSQSize) /\ RingOK(Queue(e))
                         /\ IsMutex(e) => Owner(e) \in TCBs \cup {None}
  /\ \A g \in FlagIds : os.flag[g].flags \subseteq FlagBits /\ os.flag[g].wait \subseteq TCBs
  /\ os.cur \in TCBs /\ os.prioCur \in Prios /\ os.lock \in Nat
  /\ isr \in {"none", "tick", "device", "exit"}
  /\ DOMAIN pc = TCBs

(***************************************************************************)
(* The group byte of every table tells which rows are not empty: a bit too *)
(* many and OS_SchedNew runs a task that is not ready, one too few and a   *)
(* ready task is never found (OS_SchedNew, OS_EventTaskRdy).               *)
(***************************************************************************)
TablesOK == WellFormed(os.rdy) /\ \A e \in EventIds : WellFormed(os.event[e].wait)

(* The tasks a call of OSTaskDel is working on. *)
BeingDeleted == {t \in TCBs : \E u \in TCBs : pc[u] # <<>> /\ Head(pc[u]).op = "OS_Dummy"
                                              /\ Head(pc[u]).tcb = t}
Live == os.list \ BeingDeleted

(* The task still waits for one of the events PendsOn(t) or for flags: no  *)
(* post, abort or timeout has ended its wait.                              *)
StillWaits(t) == /\ os.tcb[t].stat \cap OS_STAT_PEND_ANY # {}
                 /\ os.tcb[t].multi # {} => os.tcb[t].event = None

(***************************************************************************)
(* The ready list holds exactly the tasks with no reason to wait left,     *)
(* however posts, timeouts, suspensions and priority changes of several    *)
(* tasks and handlers are interleaved.                                     *)
(***************************************************************************)
ReadyAgrees ==
  Members(os.rdy) =
    {os.tcb[t].prio : t \in {u \in Live : /\ ~Suspended(os.tcb[u])
                                          /\ os.tcb[u].dly = 0
                                          /\ ~StillWaits(u)}}

(***************************************************************************)
(* A wait list holds exactly the tasks that wait for its event, and those  *)
(* whose wait timed out and that have not yet run to take themselves off   *)
(* it: a post must never be given to a task that does not wait.  A pend    *)
(* waits only on an object that is still there (CheckedIsThere).           *)
(***************************************************************************)
WaitersAgree ==
  /\ \A e \in EventIds :
       Waiters(os, e) =
         {os.tcb[t].prio : t \in {u \in Live : /\ e \in PendsOn(u)
                                               /\ StillWaits(u) \/ os.tcb[u].pend = "TO"}}
  /\ \A g \in FlagIds :
       os.flag[g].wait =
         {t \in Live : /\ \E i \in DOMAIN pc[t] : pc[t][i].op = "flag" /\ pc[t][i].grp = g
                       /\ StillWaits(t) \/ os.tcb[t].pend = "TO"}

(***************************************************************************)
(* What a task has checked is still there when it gets to its critical     *)
(* section: no post, pend or deletion works on a control block that was    *)
(* freed or has become something else since ("Validate event block type"). *)
(***************************************************************************)
CheckedIsThere ==
  \A t \in TCBs : /\ \A e \in seen[t].events : os.event[e].type \in seen[t].types
                  /\ \A g \in seen[t].groups : IsFlag(g)

(***************************************************************************)
(* Every entry of a wait list belongs to a task that waits for its event   *)
(* (the comment of OSEventTbl, ucos_ii.h:357): without an end to its wait  *)
(* or with a timeout it has not seen.                                      *)
(***************************************************************************)
ListedWait ==
  \A e \in EventIds : \A p \in Waiters(os, e) :
    \E t \in Live : /\ os.tcb[t].prio = p /\ e \in PendsOn(t)
                    /\ StillWaits(t) \/ os.tcb[t].pend = "TO"

(***************************************************************************)
(* Between two services the highest ready priority runs and OSPrioCur is   *)
(* its own: no reschedule was forgotten.  The applications of runs that    *)
(* post with OS_POST_OPT_NO_SCHED or release mutexes are excepted, see     *)
(* OSMutexPost.                                                            *)
(***************************************************************************)
HighestRuns ==
  (/\ os.running /\ isr = "none" /\ os.lock = 0 /\ pc[os.cur] = <<>>
   /\ ~app.noSched /\ "OSMutexPost" \notin app.calls)
    => /\ os.prioCur = Highest(os.rdy) /\ Has(os.rdy, os.prioCur)
       /\ os.prioTbl[os.prioCur] = os.cur /\ Cur.prio = os.prioCur

(***************************************************************************)
(* No control block is lost or used twice, whatever other tasks and        *)
(* interrupts do between the halves of a creation or of OSTaskDel, and     *)
(* whichever half fails: task control blocks, priorities, event and queue  *)
(* control blocks, flag groups, memory blocks.  Events and groups are      *)
(* deleted only while no other task has checked them (CheckType).          *)
(***************************************************************************)
Elements(s)  == {s[i] : i \in DOMAIN s}
Distinct(s)  == \A i, j \in DOMAIN s : i # j => s[i] # s[j]
Under(op)    == {t \in TCBs : pc[t] # <<>> /\ Head(pc[t]).op = op}
InCreation   == {Head(pc[t]).tcb : t \in Under("link")}
UsedEvents   == {e \in EventIds : os.event[e].type # "UNUSED"}
                  \cup {Head(pc[t]).event : t \in Under("OSQCreate")}
ReservedPrios ==
  {os.event[e].pip : e \in {f \in EventIds : IsMutex(f)}}
    \cup {Head(pc[t]).prio : t \in Under("OS_TCBInit") \cup Under("link") \cup Under("rollback")}

NothingLost ==
  /\ Distinct(os.free) /\ Distinct(os.freeEvents) /\ Distinct(os.freeFlags)
  /\ Elements(os.free) \cup InCreation = TCBs \ os.list
  /\ Elements(os.free) \cap InCreation = {}
  /\ \A p \in Prios : \A t \in TCBs : os.prioTbl[p] = t =>
       t \in os.list /\ (os.tcb[t].prio = p
                         \/ \E e \in EventIds : IsMutex(e) /\ Owner(e) = t /\ os.event[e].cnt = p
                                                /\ os.tcb[t].prio = os.event[e].pip)
  /\ \A t \in os.list : os.prioTbl[os.tcb[t].prio] = t
  /\ \A p \in Prios : os.prioTbl[p] = Reserved => p \in ReservedPrios
  /\ \A p \in ReservedPrios : os.prioTbl[p] # None
  /\ Elements(os.freeEvents) = EventIds \ UsedEvents
  /\ os.freeQs + Cardinality({e \in EventIds : IsQ(e)}) = app.freeQs + Cardinality(
       {e \in DOMAIN app.events : app.events[e].type = "Q"})
  /\ Elements(os.freeFlags) = {g \in FlagIds : ~IsFlag(g)}
  /\ \A i \in DOMAIN os.mem.parts :
       LET part == os.mem.parts[i]
       IN  /\ Distinct(part.free) /\ Len(part.free) = part.nFree
           /\ Elements(part.free) = Blocks \ part.held
  /\ os.mem.headers + Len(os.mem.parts) + Cardinality(Under("OSMemCreate")) = app.mem

(***************************************************************************)
(* While the scheduler is locked the task that locked it keeps the CPU:    *)
(* no interrupt and no service takes it away (OS_Sched, OSIntExit).        *)
(***************************************************************************)
LockHeld == [][os.lock > 0 /\ os'.lock > 0 => os'.cur = os.cur]_vars

(***************************************************************************)
(* Every delay and every timeout ends, whatever else interrupts (the tick  *)
(* counts all of them in one walk over the list).                          *)
(***************************************************************************)
DelayEnds == \A t \in TCBs : (os.tcb[t].dly > 0) ~> (os.tcb[t].dly = 0)

(***************************************************************************)
(* Nobody waits for what is there: a count, a message, a mutex nobody      *)
(* owns, flags that satisfy the waiting task.                              *)
(***************************************************************************)
AvailableMeansNoWaiter ==
  /\ \A e \in EventIds :
       Available(e) \/ (IsMutex(e) /\ ~Owned(e)) => Waiters(os, e) = {}
  /\ \A g \in FlagIds : \A t \in os.flag[g].wait :
       ~Satisfied(os.flag[g].flags, os.tcb[t].node.cond)

(***************************************************************************)
(* A task that was woken with flags got the ones it asked for, all of them *)
(* if it asked for all (OSFlagPost, OSFlagPend).  A task that is being     *)
(* deleted was woken with nothing.                                         *)
(***************************************************************************)
FlagsGranted ==
  \A t \in Under("flag") \cap Live :
    LET c == Head(pc[t]).cond
    IN  (os.tcb[t].node = None /\ os.tcb[t].pend = "OK" /\ os.tcb[t].flagsRdy # {})
          => /\ os.tcb[t].flagsRdy \subseteq c.flags
             /\ c.any \/ os.tcb[t].flagsRdy = c.flags

(***************************************************************************)
(* Priority inheritance: the owner of a mutex runs at least at the         *)
(* priority of every task that waits for it, at its own or at pip, and who *)
(* owns none has its own priority.                                         *)
(***************************************************************************)
Inheritance ==
  /\ \A e \in EventIds : IsMutex(e) /\ Owned(e) =>
       LET t == Owner(e)
       IN  /\ os.tcb[t].prio \in {os.event[e].cnt, os.event[e].pip}
           /\ \A p \in Waiters(os, e) : os.tcb[t].prio <= p
           /\ os.prioTbl[os.event[e].pip] = t <=> os.tcb[t].prio = os.event[e].pip
  /\ ("OSMutexPost" \in app.calls) =>
       \A t \in AppTasks : (\A e \in EventIds : IsMutex(e) => Owner(e) # t)
         => os.tcb[t].prio = app.tasks[t]

(***************************************************************************)
(* What the events do is what Channel promises.  stored is what a control  *)
(* block holds; handed counts the tasks a message was given to that have   *)
(* not yet run to take it.                                                 *)
(***************************************************************************)
Stored(e) ==
  CASE IsSem(e)   -> [i \in 1 .. os.event[e].cnt |-> Signal]
    [] IsMbox(e)  -> IF os.event[e].ptr = None THEN <<>> ELSE <<os.event[e].ptr>>
    [] IsQ(e)     -> Contents(Queue(e))
    [] IsMutex(e) -> IF Owned(e) THEN <<>> ELSE <<None>>
    [] OTHER      -> <<>>

(* The tasks that event e has given something. *)
Answered(e) ==
  {t \in TCBs : /\ pc[t] # <<>> /\ e \in PendsOn(t)
                /\ t \in Live /\ os.tcb[t].pend = "OK" /\ ~StillWaits(t)
                /\ os.tcb[t].multi # {} => os.tcb[t].event = e}
Handed(e) == LET A == Answered(e)
             IN  [m \in Msgs \cup {None} |-> Cardinality({t \in A : os.tcb[t].msg = m})]

Ch == INSTANCE Channel WITH
        Channels <- EventIds, Messages <- Msgs \cup {None},
        stored <- [e \in EventIds |-> Stored(e)],
        handed <- [e \in EventIds |-> Handed(e)]

ChannelSpec == Ch!Spec
=============================================================================
