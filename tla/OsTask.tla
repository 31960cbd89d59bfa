------------------------------- MODULE OsTask -------------------------------
(***************************************************************************)
(* Task management (os_task.c) and delays (os_time.c).                     *)
(*                                                                         *)
(* A task deletes or suspends itself and changes its own priority only     *)
(* with the scheduler unlocked: the code switches away from it at once or  *)
(* leaves it running as a task it no longer knows.  Nobody deletes a task  *)
(* that is in the middle of creating or deleting something.                *)
(***************************************************************************)
EXTENDS OsCore

CONSTANTS
  PrioChangeOfWoken,  (* may OSTaskChangePrio hit a woken pend?            *)
  OS_TICKS_PER_SEC,
  Clocks              (* the times of OSTimeDlyHMSM: [h, m, s, ms]         *)

ASSUME ClocksAssumption ==
  /\ OS_TICKS_PER_SEC \in Nat \ {0}
  /\ Clocks \subseteq [h : Nat, m : Nat, s : Nat, ms : Nat]

(* A task whose pend was answered and that has not run since: its wait is  *)
(* over but OSTCBEventPtr still names the event.                           *)
Woken(t) == /\ os.tcb[t].event # None \/ os.tcb[t].multi # {}
            /\ \A e \in EventIds : os.tcb[t].prio \notin Waiters(os, e)

(* In the order of the code: the ready bit, the wait list of OSTCBEventPtr *)
(* and those of OSTCBEventMultiPtr move to the new priority.               *)
Moved(T, old, new) == Insert(Delete(T, {old}), {new})
ChangePrio(k, t, new) ==
  LET old  == k.tcb[t].prio
      E    == k.tcb[t].multi \cup ({k.tcb[t].event} \ {None})
  IN  [k EXCEPT
         !.prioTbl = [@ EXCEPT ![old] = None, ![new] = t],
         !.rdy     = IF Has(@, old) THEN Moved(@, old, new) ELSE @,
         !.event   = [e \in EventIds |->
                        IF e \in E THEN [k.event[e] EXCEPT !.wait = Moved(@, old, new)]
                        ELSE k.event[e]],
         !.tcb[t].prio = new]

OSTaskChangePrio(old, new) ==
  /\ Anywhere("OSTaskChangePrio")
  /\ old # OS_TASK_IDLE_PRIO /\ new # OS_TASK_IDLE_PRIO
  /\ os.prioTbl[new] = None
  /\ Exists(old)
  /\ PrioChangeOfWoken \/ ~Woken(Task(os, old))
  /\ Task(os, old) = os.cur => os.lock = 0 /\ isr = "none"
  /\ Leave(ChangePrio(os, Task(os, old), new), <<Sched>>)
  /\ io' = NoIO

(***************************************************************************)
(* Creation: the priority is reserved, a control block is taken and        *)
(* filled, and the task is linked and made ready; without a control block  *)
(* the priority is given back.                                             *)
(***************************************************************************)
Create(prio) ==
  /\ os.prioTbl[prio] = None
  /\ Leave([os EXCEPT !.prioTbl[prio] = Reserved], <<[op |-> "OS_TCBInit", prio |-> prio]>>)
  /\ io' = NoIO

OSTaskCreate(prio)    == AtTask("OSTaskCreate") /\ Create(prio)
OSTaskCreateExt(prio) == AtTask("OSTaskCreateExt") /\ Create(prio)

(* Mutant: the priority stays reserved when no control block is left.      *)
OS_TCBInit_NoRollback ==
  /\ Step("OS_TCBInit")
  /\ IF os.free = <<>>
       THEN Leave(os, <<>>)
       ELSE LET t == Head(os.free)
            IN  Leave([os EXCEPT !.free = Tail(@),
                                    !.tcb[t] = [NewTCB(Now.prio) EXCEPT !.flagsRdy = os.tcb[t].flagsRdy]],
                      <<[op |-> "link", tcb |-> t, prio |-> Now.prio]>>)
  /\ io' = NoIO
OS_TCBInit ==
  /\ Step("OS_TCBInit")
  /\ IF os.free = <<>>
       THEN Leave(os, <<[op |-> "rollback", prio |-> Now.prio]>>)
       ELSE LET t == Head(os.free)
            IN  Leave([os EXCEPT !.free = Tail(@),
                                    !.tcb[t] = [NewTCB(Now.prio) EXCEPT !.flagsRdy = os.tcb[t].flagsRdy]],
                      <<[op |-> "link", tcb |-> t, prio |-> Now.prio]>>)
  /\ io' = NoIO

OS_TCBInit_Link ==
  /\ Step("link")
  /\ LET t == Now.tcb
     IN  /\ os' = MakeReady([os EXCEPT !.prioTbl[Now.prio] = t, !.list = @ \cup {t}], {t})
         /\ pc' = [pc EXCEPT ![os.cur] = <<Sched>>, ![t] = <<>>]
  /\ io' = NoIO
  /\ UNCHANGED <<isr, seen, app>>

OSTaskCreate_Failed ==
  /\ Step("rollback")
  /\ Leave([os EXCEPT !.prioTbl[Now.prio] = None], <<>>)
  /\ io' = NoIO

(***************************************************************************)
(* Deletion: the task leaves the ready list and every wait list, and after *)
(* a window with interrupts on and the scheduler locked its control block  *)
(* is freed.                                                               *)
(***************************************************************************)
OSTaskDel(prio) ==
  /\ AtTask("OSTaskDel")
  /\ prio # OS_TASK_IDLE_PRIO
  /\ Exists(prio)
  /\ LET t     == Task(os, prio)
         E     == os.tcb[t].multi \cup ({os.tcb[t].event} \ {None})
         apart == OS_EventTaskRemoveMulti(MakeUnready(os, {t}), [u \in {t} |-> E])
     IN  /\ t = os.cur => os.lock = 0
         /\ pc[t] # <<>> => Head(pc[t]).op \in {"OS_Sched", "pend", "multi", "flag"}
         /\ Leave([OS_FlagUnlink(apart, t) EXCEPT
                     !.tcb[t].dly = 0, !.tcb[t].stat = {}, !.tcb[t].pend = "OK", !.lock = @ + 1],
                  <<[op |-> "OS_Dummy", tcb |-> t, prio |-> prio]>>)
         /\ io' = [e \in EventIds |-> [act |-> IF e \in PendsOn(t) THEN "gone" ELSE "none"]]

(* The second half; what the deleted task had left to do is gone with it.  *)
OSTaskDel_Free ==
  /\ Step("OS_Dummy")
  /\ LET t == Now.tcb
     IN  /\ os' = [os EXCEPT !.lock = @ - 1, !.prioTbl[Now.prio] = None, !.list = @ \ {t},
                             !.free = <<t>> \o @]
         /\ pc' = [[pc EXCEPT ![t] = <<>>] EXCEPT ![os.cur] = <<Sched>>]
         /\ seen' = [seen EXCEPT ![t] = NothingSeen]
  /\ io' = NoIO
  /\ UNCHANGED <<isr, app>>

(* A request to a task to delete itself, which it finds with OS_PRIO_SELF. *)
OSTaskDelReq(prio) ==
  /\ Anywhere("OSTaskDelReq")
  /\ prio # OS_TASK_IDLE_PRIO
  /\ Exists(prio)
  /\ Leave([os EXCEPT !.tcb[os.prioTbl[prio]].delReq = TRUE], <<>>)
  /\ io' = NoIO

(* A task function that returns deletes its task. *)
OS_TaskReturn == OSTaskDel(Cur.prio)

(***************************************************************************)
(* Suspension.  It adds up with a delay or a wait: the task is ready again *)
(* when all of them have ended.                                            *)
(***************************************************************************)
OSTaskSuspend(prio) ==
  /\ AtTask("OSTaskSuspend")
  /\ prio # OS_TASK_IDLE_PRIO
  /\ Exists(prio)
  /\ LET t == Task(os, prio)
     IN  /\ t = os.cur => os.lock = 0
         /\ Leave(MakeUnready([os EXCEPT !.tcb[t].stat = @ \cup {"SUSPEND"}], {t}),
                  IF t = os.cur THEN <<Sched>> ELSE <<>>)
  /\ io' = NoIO

(* Mutant: the delay that still runs is overlooked.                        *)
OSTaskResume_DlyIgnored(prio) ==
  /\ Anywhere("OSTaskResume")
  /\ Exists(prio)
  /\ LET t       == Task(os, prio)
         resumed == [os EXCEPT !.tcb[t].stat = @ \ {"SUSPEND"}]
     IN  /\ Suspended(os.tcb[t])
         /\ IF resumed.tcb[t].stat = {}
              THEN Leave(MakeReady(resumed, {t}), <<Sched>>)
              ELSE Leave(resumed, <<>>)
  /\ io' = NoIO
OSTaskResume(prio) ==
  /\ Anywhere("OSTaskResume")
  /\ Exists(prio)
  /\ LET t       == Task(os, prio)
         resumed == [os EXCEPT !.tcb[t].stat = @ \ {"SUSPEND"}]
     IN  /\ Suspended(os.tcb[t])
         /\ IF resumed.tcb[t].stat = {} /\ os.tcb[t].dly = 0
              THEN Leave(MakeReady(resumed, {t}), <<Sched>>)
              ELSE Leave(resumed, <<>>)
  /\ io' = NoIO

(***************************************************************************)
(* Delays.                                                                 *)
(***************************************************************************)
Delay(ticks) ==
  /\ os.lock = 0
  /\ ticks > 0
  /\ Leave(MakeUnready([os EXCEPT !.tcb[os.cur].dly = ticks], {os.cur}), <<Sched>>)
  /\ io' = NoIO

OSTimeDly(ticks) == AtTask("OSTimeDly") /\ Delay(ticks)

(* Rounded to the nearest tick. *)
Ticks(c) == (c.h * 3600 + c.m * 60 + c.s) * OS_TICKS_PER_SEC
              + (OS_TICKS_PER_SEC * (c.ms + 500 \div OS_TICKS_PER_SEC)) \div 1000

OSTimeDlyHMSM(c) == AtTask("OSTimeDlyHMSM") /\ Delay(Ticks(c))

OSTimeDlyResume(prio) ==
  /\ Anywhere("OSTimeDlyResume")
  /\ prio # OS_TASK_IDLE_PRIO
  /\ Exists(prio)
  /\ LET t == Task(os, prio)
     IN  /\ os.tcb[t].dly # 0
         /\ Leave(Expire(os, {t}), IF Suspended(os.tcb[t]) THEN <<>> ELSE <<Sched>>)
  /\ io' = NoIO

TaskNext ==
  \/ \E old, new \in Prios : OSTaskChangePrio(old, new)
  \/ \E prio \in Prios \ {OS_TASK_IDLE_PRIO} :
       OSTaskCreate(prio) \/ OSTaskCreateExt(prio) \/ OSTaskDel(prio) \/ OSTaskDelReq(prio) \/ OSTaskSuspend(prio)
         \/ OSTaskResume(prio) \/ OSTimeDlyResume(prio)
  \/ OS_TCBInit \/ OS_TCBInit_Link \/ OSTaskCreate_Failed \/ OSTaskDel_Free \/ OS_TaskReturn
  \/ \E ticks \in Timeouts : OSTimeDly(ticks)
  \/ \E c \in Clocks : OSTimeDlyHMSM(c)
=============================================================================
