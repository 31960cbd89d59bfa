-------------------------- MODULE KernelLists_proofs --------------------------
(***************************************************************************)
(* The invariant that ties the tasks to the ready list and the wait lists  *)
(* is kept by every service, the tick, the handlers and the scheduler, in  *)
(* every application without mutexes that keeps to the rules of the        *)
(* services it calls: flag groups and memory partitions, then tasks, time, *)
(* interrupts and the scheduler.  The ready list and the wait lists agree  *)
(* with the tasks, and the highest ready priority runs.  The module ends   *)
(* with what each service leaves alone, for KernelStocks_proofs.           *)
(***************************************************************************)
EXTENDS Kernel_proofs

(***************************************************************************)
(* Event flag groups.                                                      *)
(***************************************************************************)
(* The free flag groups, after a step that leaves the list s of them and   *)
(* changes group g.                                                        *)
LEMMA FlagPoolsChanged ==
  ASSUME TInv, NEW steps, Continues(steps), NextOp(steps) # "OSQCreate",
         NEW g \in FlagIds, NEW s \in Seq(FlagIds), Distinct(s),
         os'.freeFlags = s, os'.freeEvents = os.freeEvents,
         \A e \in EventIds : os'.event[e].type = os.event[e].type,
         \A f \in FlagIds : f # g => os'.flag[f].type = os.flag[f].type,
         \A i \in DOMAIN s : (s[i] = g /\ os'.flag[g].type = "UNUSED")
                             \/ (s[i] # g /\ \E j \in DOMAIN os.freeFlags : s[i] = os.freeFlags[j])
  PROVE  Pools' /\ (NoMutex(os) => NoMutex(os'))
  <1>1. DOMAIN pc = TCBs /\ os.cur \in TCBs
    BY DEF TInv, Data
  <1>2. \A t \in TCBs : NextOp(pc'[t]) = "OSQCreate" => At(t) = "OSQCreate" /\ pc'[t] = pc[t]
    BY <1>1, PcAfter
  <1>3. /\ os'.freeEvents \in Seq(EventIds) /\ Distinct(os'.freeEvents)
        /\ os'.freeFlags \in Seq(FlagIds) /\ Distinct(os'.freeFlags)
        /\ \A i \in DOMAIN os'.freeEvents : os'.event[os'.freeEvents[i]].type = "UNUSED"
    BY DEF TInv, Pools
  <1>4. ASSUME NEW i \in DOMAIN os'.freeFlags PROVE os'.flag[os'.freeFlags[i]].type = "UNUSED"
    <2>1. i \in DOMAIN s /\ os'.freeFlags[i] = s[i] /\ s[i] \in FlagIds
      BY <1>4
    <2>2. CASE s[i] = g
      BY <2>1, <2>2
    <2>3. CASE s[i] # g
      <3>1. PICK j \in DOMAIN os.freeFlags : s[i] = os.freeFlags[j]
        BY <2>1, <2>3
      <3>2. os.flag[s[i]].type = "UNUSED"
        BY <3>1 DEF TInv, Pools
      <3> QED
        BY <2>1, <2>3, <3>2
    <2> QED
      BY <2>2, <2>3
  <1>5. ASSUME NEW t \in TCBs, NextOp(pc'[t]) = "OSQCreate"
        PROVE  LET e == Head(pc'[t]).event
               IN  os'.event[e].type = "UNUSED" /\ \A i \in DOMAIN os'.freeEvents : os'.freeEvents[i] # e
    <2>1. At(t) = "OSQCreate" /\ pc'[t] = pc[t]
      BY <1>2, <1>5
    <2>2. Head(pc[t]).event \in EventIds
      <3>1. Steps(pc[t])
        BY DEF TInv
      <3> QED
        BY <2>1, <3>1, AtNext, NextStep
    <2> QED
      BY <2>1, <2>2 DEF TInv, Pools
  <1>6. \A t, u \in TCBs : NextOp(pc'[t]) = "OSQCreate" /\ NextOp(pc'[u]) = "OSQCreate"
                             /\ Head(pc'[t]).event = Head(pc'[u]).event => t = u
    BY <1>2 DEF TInv, Pools
  <1>7. Pools'
    BY <1>3, <1>4, <1>5, <1>6 DEF Pools, At, NextOp
  <1> QED
    BY <1>7 DEF NoMutex

(* Flag group g, with nobody in its wait list, is filled anew.             *)
LEMMA RegroupServed ==
  ASSUME KInv, Inv, KInv', os.running, isr = "none", NEW steps, Continues(steps), Ordinary(steps),
         WaitOf(steps) = Sched, Waiting[os.cur] = Sched,
         NEW m, NEW S \in SUBSET Live, Data(m), Elsewhere(os, m, S), Core(m, Live, Waiting),
         KeepsRunning(m, steps), KeepsHighest(m, steps),
         NEW g \in FlagIds, m.flag[g].wait = {}, Regrouped(m, os', g), Pools', NoMutex(os')
  PROVE  Inv'
  <1>1. TInv /\ Data(os) /\ DOMAIN pc = TCBs /\ os.cur \in TCBs
    BY DEF Inv, TInv, Data
  <1>2. Data(os') /\ Elsewhere(m, os', Nobody) /\ Core(os', Live, Waiting)
    BY RegroupedCore
  <1>3. Elsewhere(os, os', S)
    BY <1>1, <1>2, ElsewhereTrans
  <1>4. os'.rdy = m.rdy
    BY DEF Regrouped
  <1>5. KeepsRunning(os', steps) /\ KeepsHighest(os', steps)
    BY <1>4 DEF KeepsRunning, KeepsHighest
  <1>6. Waiting' = Waiting
    BY <1>1, PcAfter
  <1>7. WaitOf(steps).op # "multi"
    BY DEF Sched
  <1> QED
    BY <1>2, <1>3, <1>5, <1>6, <1>7, Served

LEMMA FlagCreateServed ==
  ASSUME KInv, Inv, KInv', NEW flags, OSFlagCreate(flags) PROVE Inv'
  <1> DEFINE g == Head(os.freeFlags)
             s == Tail(os.freeFlags)
  <1>1. TInv /\ Data(os) /\ Core(os, Live, Waiting) /\ NoMutex(os)
    BY DEF Inv, TInv, Rules
  <1>2. /\ AtTask("OSFlagCreate") /\ os.freeFlags # <<>>
        /\ Leave([os EXCEPT !.flag[g] = NewFlag(flags), !.freeFlags = Tail(@)], <<>>)
    BY DEF OSFlagCreate
  <1>3. Continues(<<>>) /\ os' = [os EXCEPT !.flag[g] = NewFlag(flags), !.freeFlags = Tail(@)]
    BY <1>2, LeaveContinues
  <1>4. os.running /\ isr = "none" /\ Waiting[os.cur] = Sched
    BY <1>1, <1>2, TaskCaller
  <1>5. Ordinary(<<>>) /\ WaitOf(<<>>) = Sched /\ NextOp(<<>>) # "OSQCreate"
    BY <1>1, <1>2, Caller, ShortSteps DEF Anywhere
  <1>6. os.freeFlags \in Seq(FlagIds) /\ Distinct(os.freeFlags)
    BY <1>1 DEF TInv, Pools
  <1>7. /\ g \in FlagIds /\ s \in Seq(FlagIds) /\ Distinct(s)
        /\ \A i \in DOMAIN s : s[i] # g /\ \E j \in DOMAIN os.freeFlags : s[i] = os.freeFlags[j]
        /\ \E j \in DOMAIN os.freeFlags : g = os.freeFlags[j]
    BY <1>2, <1>6, TailFree
  <1>8. os.flag[g].wait = {}
    <2>1. os.flag[g].type = "UNUSED"
      BY <1>1, <1>7 DEF TInv, Pools
    <2> QED
      BY <1>1, <1>7, <2>1, UnusedNoWaiter
  <1> HIDE DEF g
  <1>9. /\ DOMAIN os' = Fields
        /\ os'.tcb = os.tcb /\ os'.prioTbl = os.prioTbl /\ os'.rdy = os.rdy /\ os'.list = os.list
        /\ os'.free = os.free /\ os'.event = os.event /\ os'.freeEvents = os.freeEvents
        /\ os'.cur = os.cur /\ os'.prioCur = os.prioCur /\ os'.lock = os.lock /\ os'.running = os.running
        /\ os'.freeFlags = s
    BY <1>1, <1>3 DEF Data, Fields
  <1>10. os'.flag = [os.flag EXCEPT ![g] = NewFlag(flags)]
    BY <1>1, <1>3 DEF Data, Fields
  <1>11. /\ DOMAIN os'.flag = FlagIds /\ \A f \in FlagIds : f # g => os'.flag[f] = os.flag[f]
         /\ os'.flag[g] = NewFlag(flags)
    BY <1>1, <1>7, <1>10 DEF Data
  <1>12. Regrouped(os, os', g)
    <2>1. DOMAIN NewFlag(flags) = FlagFields /\ NewFlag(flags).wait = {}
      BY DEF NewFlag, FlagFields
    <2> QED
      BY <1>9, <1>11, <2>1 DEF Regrouped
  <1> HIDE DEF s
  <1>13. Pools' /\ NoMutex(os')
    <2>1. \A e \in EventIds : os'.event[e].type = os.event[e].type
      BY <1>9
    <2>2. \A f \in FlagIds : f # g => os'.flag[f].type = os.flag[f].type
      BY <1>11
    <2> QED
      BY <1>1, <1>3, <1>5, <1>7, <1>9, <2>1, <2>2, FlagPoolsChanged
  <1>14. /\ Elsewhere(os, os, Nobody) /\ Nobody \in SUBSET Live
         /\ KeepsRunning(os, <<>>) /\ KeepsHighest(os, <<>>)
    BY ElsewhereSelf
  <1> QED
    BY <1>1, <1>3, <1>4, <1>5, <1>7, <1>8, <1>12, <1>13, <1>14, RegroupServed

LEMMA FlagDelServed ==
  ASSUME KInv, Inv, KInv', NEW g \in FlagIds, NEW always, OSFlagDel(g, always) PROVE Inv'
  <1> DEFINE S == os.flag[g].wait
             rdy == [t \in S |-> {}]
             m == OS_FlagTaskRdy(os, S, rdy)
             steps == IF S # {} THEN <<Sched>> ELSE <<>>
  <1>1. TInv /\ Data(os) /\ Core(os, Live, Waiting) /\ NoMutex(os) /\ DOMAIN pc = TCBs /\ os.cur \in TCBs
    BY DEF Inv, TInv, Rules, Data
  <1>2. /\ AtTask("OSFlagDel") /\ os.flag[g].type = "FLAG"
        /\ Leave([m EXCEPT !.flag[g] = UnusedFlag, !.freeFlags = <<g>> \o @], steps)
    BY DEF OSFlagDel, IsFlag
  <1>3. Continues(steps) /\ os' = [m EXCEPT !.flag[g] = UnusedFlag, !.freeFlags = <<g>> \o @]
    BY <1>2, LeaveContinues
  <1>4. os.running /\ isr = "none" /\ Waiting[os.cur] = Sched
    BY <1>1, <1>2, TaskCaller
  <1>5. (steps = <<>> /\ S = {}) \/ steps = <<Sched>>
    OBVIOUS
  <1>6. m = OS_FlagTaskRdy(os, S, rdy) /\ S = os.flag[g].wait
    OBVIOUS
  <1> HIDE DEF S, rdy, m, steps
  <1>7. Ordinary(steps) /\ NextOp(steps) # "OSQCreate" /\ WaitOf(steps) = Sched
    BY <1>1, <1>2, <1>5, Caller, ShortSteps DEF Anywhere
  <1>8. GrantDone(os, m, Live, Waiting, g, S)
    BY <1>1, <1>6, FlagWakeCore
  <1>9. /\ Data(m) /\ Elsewhere(os, m, S) /\ SamePools(os, m) /\ Core(m, Live, Waiting)
        /\ S \in SUBSET Live
        /\ \A q \in Members(os.rdy) : q \in Members(m.rdy)
        /\ \A q \in Members(m.rdy) : q \in Members(os.rdy) \/ \E t \in S : m.tcb[t].stat = {}
        /\ \A t : t \notin m.flag[g].wait
    BY <1>6, <1>8 DEF GrantDone
  <1>10. m.flag[g].wait = {}
    BY <1>9
  <1>11. KeepsRunning(m, steps) /\ KeepsHighest(m, steps)
    <2>1. KeepsRunning(m, steps)
      BY <1>9 DEF KeepsRunning, IsReady, Cur
    <2> QED
      BY <1>5, <1>9, <2>1, StepForms DEF KeepsHighest
  <1>12. /\ m.freeEvents = os.freeEvents /\ m.freeFlags = os.freeFlags
         /\ \A e \in EventIds : m.event[e].type = os.event[e].type
         /\ \A f \in FlagIds : m.flag[f].type = os.flag[f].type
    BY <1>9 DEF SamePools
  <1>13. /\ DOMAIN os' = Fields
         /\ os'.tcb = m.tcb /\ os'.prioTbl = m.prioTbl /\ os'.rdy = m.rdy /\ os'.list = m.list
         /\ os'.free = m.free /\ os'.event = m.event /\ os'.freeEvents = m.freeEvents
         /\ os'.cur = m.cur /\ os'.prioCur = m.prioCur /\ os'.lock = m.lock /\ os'.running = m.running
    BY <1>3, <1>9 DEF Data, Fields
  <1>14. os'.freeFlags = <<g>> \o m.freeFlags
    BY <1>3, <1>9 DEF Data, Fields
  <1>15. os'.flag = [m.flag EXCEPT ![g] = UnusedFlag]
    BY <1>3, <1>9 DEF Data, Fields
  <1>16. /\ DOMAIN os'.flag = FlagIds /\ \A f \in FlagIds : f # g => os'.flag[f] = m.flag[f]
         /\ os'.flag[g] = UnusedFlag
    BY <1>9, <1>15 DEF Data
  <1>17. UnusedFlag.type = "UNUSED" /\ UnusedFlag.wait = {} /\ DOMAIN UnusedFlag = FlagFields
    BY DEF UnusedFlag, FlagFields
  <1>18. Regrouped(m, os', g)
    BY <1>13, <1>16, <1>17 DEF Regrouped
  <1>19. Pools' /\ NoMutex(os')
    <2> DEFINE s == os'.freeFlags
    <2>1. os.freeFlags \in Seq(FlagIds) /\ Distinct(os.freeFlags)
      BY <1>1 DEF TInv, Pools
    <2>2. \A i \in DOMAIN os.freeFlags : os.freeFlags[i] # g
      BY <1>1, <1>2 DEF TInv, Pools
    <2>3. /\ <<g>> \o os.freeFlags \in Seq(FlagIds) /\ Distinct(<<g>> \o os.freeFlags)
          /\ \A i \in DOMAIN (<<g>> \o os.freeFlags) :
               (<<g>> \o os.freeFlags)[i] = g
               \/ \E j \in DOMAIN os.freeFlags : (<<g>> \o os.freeFlags)[i] = os.freeFlags[j]
      BY <2>1, <2>2, PushFree
    <2>4. /\ s \in Seq(FlagIds) /\ Distinct(s)
          /\ \A i \in DOMAIN s : (s[i] = g /\ os'.flag[g].type = "UNUSED")
                                 \/ (s[i] # g /\ \E j \in DOMAIN os.freeFlags : s[i] = os.freeFlags[j])
      BY <1>12, <1>14, <1>16, <1>17, <2>3
    <2>5. /\ \A e \in EventIds : os'.event[e].type = os.event[e].type
          /\ \A f \in FlagIds : f # g => os'.flag[f].type = os.flag[f].type
          /\ os'.freeEvents = os.freeEvents
      BY <1>12, <1>13, <1>16
    <2>6. os'.freeFlags = s
      OBVIOUS
    <2> HIDE DEF s
    <2> QED
      BY <1>1, <1>3, <1>7, <2>4, <2>5, <2>6, FlagPoolsChanged
  <1> QED
    BY <1>1, <1>3, <1>4, <1>7, <1>9, <1>10, <1>11, <1>18, <1>19, RegroupServed

LEMMA ElsewhereAfter ==
  ASSUME NEW k, NEW l, NEW m, NEW S, S \subseteq TCBs, Data(k), Data(l),
         Elsewhere(k, l, Nobody), Elsewhere(l, m, S), SamePools(k, l), SamePools(l, m)
  PROVE  Elsewhere(k, m, S) /\ SamePools(k, m)
  <1>1. /\ m.prioTbl = k.prioTbl /\ m.list = k.list /\ m.free = k.free /\ m.cur = k.cur
        /\ m.lock = k.lock /\ m.prioCur = k.prioCur /\ m.running = k.running
    BY DEF Elsewhere
  <1>2. \A t \in TCBs : m.tcb[t].prio = k.tcb[t].prio /\ l.tcb[t].prio = k.tcb[t].prio
    BY DEF Elsewhere
  <1>3. \A t \in TCBs \ S : Alike(k.tcb[t], m.tcb[t])
    BY DEF Elsewhere, Nobody, Alike
  <1>4. \A p \in Prios : /\ p \in Members(l.rdy) <=> p \in Members(k.rdy)
                         /\ \A e \in EventIds : p \in Waiters(l, e) <=> p \in Waiters(k, e)
    BY DEF Elsewhere, Nobody
  <1>5. \A p \in Prios : (\A t \in S : l.tcb[t].prio # p) =>
          /\ p \in Members(m.rdy) <=> p \in Members(l.rdy)
          /\ \A e \in EventIds : p \in Waiters(m, e) <=> p \in Waiters(l, e)
    BY DEF Elsewhere
  <1>6. \A g \in FlagIds : m.flag[g].wait \ S = k.flag[g].wait \ S
    BY DEF Elsewhere, Nobody
  <1>7. SamePools(k, m)
    BY DEF SamePools
  <1>8. \A p \in Prios : (\A t \in S : k.tcb[t].prio # p) =>
          /\ p \in Members(m.rdy) <=> p \in Members(k.rdy)
          /\ \A e \in EventIds : p \in Waiters(m, e) <=> p \in Waiters(k, e)
    <2> SUFFICES ASSUME NEW p \in Prios, \A t \in S : k.tcb[t].prio # p
                 PROVE  /\ p \in Members(m.rdy) <=> p \in Members(k.rdy)
                        /\ \A e \in EventIds : p \in Waiters(m, e) <=> p \in Waiters(k, e)
      OBVIOUS
    <2>1. \A t \in S : l.tcb[t].prio # p
      BY <1>2
    <2> QED
      BY <1>4, <1>5, <2>1
  <1> QED
    BY <1>1, <1>2, <1>3, <1>6, <1>7, <1>8 DEF Elsewhere

LEMMA FlagPostServed ==
  ASSUME KInv, Inv, KInv', NEW g \in FlagIds, NEW flags, NEW set, OSFlagPost(g, flags, set) PROVE Inv'
  <1> DEFINE F   == IF set THEN os.flag[g].flags \cup flags ELSE os.flag[g].flags \ flags
             S   == {t \in os.flag[g].wait : Satisfied(F, os.tcb[t].node.cond)}
             rdy == [t \in S |-> FlagsRdy(F, os.tcb[t].node.cond)]
             n   == [os EXCEPT !.flag[g].flags = F]
             k   == OS_FlagTaskRdy(n, S, rdy)
             steps == IF \E t \in S : k.tcb[t].stat = {} THEN <<Sched>> ELSE <<>>
  <1>1. TInv /\ Data(os) /\ Core(os, Live, Waiting) /\ NoMutex(os) /\ DOMAIN pc = TCBs /\ os.cur \in TCBs
    BY DEF Inv, TInv, Rules, Data
  <1>2. Anywhere("OSFlagPost") /\ Leave(k, steps)
    BY DEF OSFlagPost
  <1>3. S \subseteq os.flag[g].wait
    OBVIOUS
  <1>4. steps = <<Sched>> \/ (steps = <<>> /\ ~ \E t \in S : k.tcb[t].stat = {})
    OBVIOUS
  <1>5. k = OS_FlagTaskRdy(n, S, rdy)
    OBVIOUS
  <1> HIDE DEF S, rdy, k, steps
  <1>6. Touches(os, n, Nobody) /\ n.rdy = os.rdy /\ n.flag[g].wait = os.flag[g].wait
    <2>1. Touches(os, n, Nobody) /\ n.rdy = os.rdy
      BY <1>1, FlagDataTouches
    <2>2. n.flag[g].wait = os.flag[g].wait
      BY <1>1 DEF Data, Fields, FlagFields
    <2> QED
      BY <2>1, <2>2
  <1> HIDE DEF n
  <1>7. Data(n) /\ Elsewhere(os, n, Nobody) /\ SamePools(os, n) /\ Core(n, Live, Waiting)
    BY <1>1, <1>6, NobodyCore
  <1>8. GrantDone(n, k, Live, Waiting, g, S)
    BY <1>3, <1>5, <1>6, <1>7, FlagWakeCore
  <1>9. /\ Data(k) /\ Elsewhere(n, k, S) /\ SamePools(n, k) /\ Core(k, Live, Waiting)
        /\ S \in SUBSET Live
        /\ \A q \in Members(n.rdy) : q \in Members(k.rdy)
        /\ \A q \in Members(k.rdy) : q \in Members(n.rdy) \/ \E t \in S : k.tcb[t].stat = {}
    BY <1>8 DEF GrantDone
  <1>10. Elsewhere(os, k, S) /\ SamePools(os, k)
    <2>1. S \subseteq TCBs
      BY <1>1, <1>9 DEF Core
    <2> QED
      BY <1>1, <1>7, <1>9, <2>1, ElsewhereAfter
  <1>11. KeepsRunning(k, steps) /\ KeepsHighest(k, steps)
    <2>1. KeepsRunning(k, steps)
      BY <1>6, <1>9 DEF KeepsRunning, IsReady, Cur
    <2> QED
      BY <1>4, <1>6, <1>9, <2>1, StepForms DEF KeepsHighest
  <1>12. Continues(steps) /\ os' = k
    BY <1>2, LeaveContinues
  <1>13. os.running /\ Ordinary(steps) /\ NextOp(steps) # "OSQCreate" /\ WaitOf(steps) = Sched
         /\ (isr = "none" => Waiting[os.cur] = Sched)
    BY <1>1, <1>2, <1>4, Caller, ShortSteps
  <1>14. Waiting' = Waiting
    BY <1>1, <1>12, <1>13, PcAfter
  <1>15. WaitOf(steps).op # "multi"
    BY <1>13 DEF Sched
  <1> QED
    BY <1>9, <1>10, <1>11, <1>12, <1>13, <1>14, <1>15, WaitsServed

(***************************************************************************)
(* The running task starts to wait.                                        *)
(***************************************************************************)
LEMMA BlockServed ==
  ASSUME KInv, Inv, KInv', NEW c, AtTask(c), os.lock = 0, NEW v \in WaitStep,
         NEW l, Leave(l, <<Sched, v>>),
         v.op = "multi" => SeveralAllowed,
         Data(l), Elsewhere(os, l, Only(os.cur)), SamePools(os, l), Core(l, Live, Waiting')
  PROVE  Inv'
  <1> DEFINE steps == <<Sched, v>>
  <1>1. TInv /\ Data(os) /\ DOMAIN pc = TCBs /\ os.cur \in TCBs
    BY DEF Inv, TInv, Data
  <1>2. os.running /\ isr = "none" /\ os.cur \in Live
    BY <1>1, TaskCaller
  <1>3. Steps(steps) /\ NextOp(steps) = "OS_Sched" /\ WaitOf(steps) = v
    BY StepForms
  <1>4. Continues(steps) /\ os' = l
    BY LeaveContinues
  <1> HIDE DEF steps
  <1>5. Ordinary(steps)
    BY <1>1, <1>3, Caller DEF Anywhere, CreationOps
  <1>6. os.cur # Idle
    BY <1>1, TaskCaller
  <1>7. OS_TASK_IDLE_PRIO \in Members(os.rdy) => OS_TASK_IDLE_PRIO \in Members(l.rdy)
    <2>1. Cur.prio # OS_TASK_IDLE_PRIO /\ OS_TASK_IDLE_PRIO \in Prios
      BY <1>1, <1>2, <1>6, IdleApart DEF Live, Cur
    <2> QED
      BY <2>1 DEF Elsewhere, Only, Cur
  <1>8. KeepsRunning(os', steps) /\ KeepsHighest(os', steps)
    BY <1>2, <1>3, <1>4, <1>7 DEF KeepsRunning, KeepsHighest
  <1>9. Only(os.cur) \in SUBSET Live
    BY <1>2 DEF Only
  <1> QED
    BY <1>2, <1>3, <1>4, <1>5, <1>8, <1>9, WaitsServed

(* The waits of the others after it. *)
LEMMA BlockWaits ==
  ASSUME KInv, Inv, NEW c, AtTask(c), NEW v \in WaitStep, NEW l, Leave(l, <<Sched, v>>)
  PROVE  /\ Data(os) /\ Core(os, Live, Waiting) /\ os.cur \in Live /\ Waiting[os.cur] = Sched
         /\ Runnable(os.tcb[os.cur]) /\ RunsIn(os, os.cur)
         /\ Waiting'[os.cur] = v /\ \A t \in Live : t # os.cur => Waiting'[t] = Waiting[t]
  <1>1. TInv /\ Data(os) /\ Core(os, Live, Waiting) /\ DOMAIN pc = TCBs /\ os.cur \in TCBs
    BY DEF Inv, TInv, Data
  <1>2. isr = "none" /\ os.cur \in Live /\ Waiting[os.cur] = Sched /\ Runnable(os.tcb[os.cur])
    BY <1>1, TaskCaller DEF Cur
  <1>3. Continues(<<Sched, v>>)
    BY LeaveContinues
  <1>4. WaitOf(<<Sched, v>>) = v
    BY StepForms
  <1>5. Live \subseteq TCBs
    BY <1>1 DEF Core
  <1> QED
    BY <1>1, <1>2, <1>3, <1>4, <1>5, PcAfter DEF RunsIn

(* OSSemPend, OSMboxPend and OSQPend. *)
LEMMA PendServed ==
  ASSUME KInv, Inv, KInv', NEW c, AtTask(c), os.lock = 0, NEW e \in EventIds,
         NEW type \in {"SEM", "MBOX", "Q"}, os.event[e].type = type, NEW timeout,
         Leave(OS_EventTaskWait(StartPend(os, {type}, timeout), e),
               <<Sched, [op |-> "pend", event |-> e, type |-> type]>>)
  PROVE  Inv'
  <1> DEFINE v == [op |-> "pend", event |-> e, type |-> type]
             m == StartPend(os, {type}, timeout)
             l == OS_EventTaskWait(m, e)
             bits == {type}
  <1>1. v \in PendStep /\ v.event = e /\ v.type = type /\ v.op = "pend"
    BY DEF PendStep
  <1>2. v \in WaitStep
    BY <1>1 DEF WaitStep
  <1>3. Leave(l, <<Sched, v>>) /\ m = StartPend(os, bits, timeout) /\ l = OS_EventTaskWait(m, e) /\ bits = {type}
    OBVIOUS
  <1> HIDE DEF v, m, l, bits
  <1>4. /\ Data(os) /\ Core(os, Live, Waiting) /\ os.cur \in Live /\ Waiting[os.cur] = Sched
        /\ Runnable(os.tcb[os.cur]) /\ RunsIn(os, os.cur)
        /\ Waiting'[os.cur] = v /\ \A t \in Live : t # os.cur => Waiting'[t] = Waiting[t]
    BY <1>2, <1>3, BlockWaits
  <1>5. Data(l) /\ Elsewhere(os, l, Only(os.cur)) /\ SamePools(os, l) /\ Core(l, Live, Waiting')
    <2>1. type \in {"SEM", "MBOX", "Q", "MUTEX"}
      OBVIOUS
    <2> QED
      BY <1>1, <1>3, <1>4, <2>1, BlockCore
  <1> QED
    BY <1>1, <1>2, <1>3, <1>5, BlockServed

LEMMA PendsServed ==
  ASSUME KInv, Inv, KInv', NEW e \in EventIds, NEW timeout
  PROVE  /\ OSSemPend(e, timeout) /\ ~(os.event[e].cnt > 0) => Inv'
         /\ OSMboxPend(e, timeout) /\ os.event[e].ptr = None => Inv'
         /\ OSQPend(e, timeout) /\ ~(Queue(e).entries > 0) => Inv'
  <1>1. ASSUME OSSemPend(e, timeout), ~(os.event[e].cnt > 0) PROVE Inv'
    <2>1. /\ AtTask("OSSemPend") /\ os.lock = 0 /\ os.event[e].type = "SEM"
          /\ Leave(OS_EventTaskWait(StartPend(os, {"SEM"}, timeout), e),
                   <<Sched, [op |-> "pend", event |-> e, type |-> "SEM"]>>)
      BY <1>1 DEF OSSemPend, IsSem
    <2> QED
      BY <2>1, PendServed
  <1>2. ASSUME OSMboxPend(e, timeout), os.event[e].ptr = None PROVE Inv'
    <2>1. /\ AtTask("OSMboxPend") /\ os.lock = 0 /\ os.event[e].type = "MBOX"
          /\ Leave(OS_EventTaskWait(StartPend(os, {"MBOX"}, timeout), e),
                   <<Sched, [op |-> "pend", event |-> e, type |-> "MBOX"]>>)
      BY <1>2 DEF OSMboxPend, IsMbox
    <2> QED
      BY <2>1, PendServed
  <1>3. ASSUME OSQPend(e, timeout), ~(Queue(e).entries > 0) PROVE Inv'
    <2>1. /\ AtTask("OSQPend") /\ os.lock = 0 /\ os.event[e].type = "Q"
          /\ Leave(OS_EventTaskWait(StartPend(os, {"Q"}, timeout), e),
                   <<Sched, [op |-> "pend", event |-> e, type |-> "Q"]>>)
      BY <1>3 DEF OSQPend, IsQ
    <2> QED
      BY <2>1, PendServed
  <1> QED
    BY <1>1, <1>2, <1>3

LEMMA FlagPendServed ==
  ASSUME KInv, Inv, KInv', NEW g \in FlagIds, NEW c \in Conditions, NEW consume \in BOOLEAN, NEW timeout,
         OSFlagPend(g, c, consume, timeout), ~Satisfied(os.flag[g].flags, c)
  PROVE  Inv'
  <1> DEFINE v == [op |-> "flag", grp |-> g, cond |-> c, consume |-> consume]
             l == OS_FlagBlock(g, c, timeout)
  <1>1. v \in FlagStep /\ v.grp = g /\ v.cond = c /\ v.op = "flag"
    BY DEF FlagStep
  <1>2. v \in WaitStep
    BY <1>1 DEF WaitStep
  <1>3. /\ AtTask("OSFlagPend") /\ os.lock = 0 /\ os.flag[g].type = "FLAG"
        /\ Leave(l, <<Sched, v>>) /\ l = OS_FlagBlock(g, c, timeout)
    BY DEF OSFlagPend, IsFlag
  <1> HIDE DEF v, l
  <1>4. /\ Data(os) /\ Core(os, Live, Waiting) /\ os.cur \in Live /\ Waiting[os.cur] = Sched
        /\ Runnable(os.tcb[os.cur]) /\ RunsIn(os, os.cur)
        /\ Waiting'[os.cur] = v /\ \A t \in Live : t # os.cur => Waiting'[t] = Waiting[t]
    BY <1>2, <1>3, BlockWaits
  <1>5. Data(l) /\ Elsewhere(os, l, Only(os.cur)) /\ SamePools(os, l) /\ Core(l, Live, Waiting')
    BY <1>1, <1>3, <1>4, BlockFlagCore
  <1> QED
    BY <1>1, <1>2, <1>3, <1>5, BlockServed

LEMMA MultiPendServed ==
  ASSUME KInv, Inv, KInv', NEW E \in SUBSET EventIds, NEW timeout, OSEventPendMulti_Check(E),
         OSEventPendMulti_Wait(E, timeout), "OSEventPendMulti" \in app.calls => SeveralAllowed
  PROVE  Inv'
  <1> DEFINE v == [op |-> "multi", events |-> E]
             bits == {os.event[e].type : e \in E} \cup {"MULTI"}
             m == StartPend(os, bits, timeout)
             l == OS_EventTaskWaitMulti(m, E)
  <1>1. v \in MultiStep /\ v.events = E /\ v.op = "multi"
    BY DEF MultiStep
  <1>2. v \in WaitStep
    BY <1>1 DEF WaitStep
  <1>3. /\ AtTask("OSEventPendMulti") /\ os.lock = 0 /\ E # {}
        /\ \A e \in E : os.event[e].type \in {"SEM", "MBOX", "Q"}
        /\ Leave(l, <<Sched, v>>) /\ m = StartPend(os, bits, timeout) /\ l = OS_EventTaskWaitMulti(m, E)
    BY DEF OSEventPendMulti_Check, OSEventPendMulti_Wait, SeveralTypes
  <1>4. /\ bits \subseteq {"SEM", "MBOX", "Q", "MULTI"}
        /\ bits \cap OS_STAT_PEND_ANY # {}
    BY <1>3 DEF OS_STAT_PEND_ANY
  <1>5. SeveralAllowed
    BY <1>3 DEF AtTask
  <1> HIDE DEF v, bits, m, l
  <1>6. /\ Data(os) /\ Core(os, Live, Waiting) /\ os.cur \in Live /\ Waiting[os.cur] = Sched
        /\ Runnable(os.tcb[os.cur]) /\ RunsIn(os, os.cur)
        /\ Waiting'[os.cur] = v /\ \A t \in Live : t # os.cur => Waiting'[t] = Waiting[t]
    BY <1>2, <1>3, BlockWaits
  <1>7. Data(l) /\ Elsewhere(os, l, Only(os.cur)) /\ SamePools(os, l) /\ Core(l, Live, Waiting')
    BY <1>1, <1>3, <1>4, <1>6, BlockMultiCore
  <1> QED
    BY <1>2, <1>3, <1>5, <1>7, BlockServed

(***************************************************************************)
(* The running task is back from its wait.                                 *)
(***************************************************************************)
LEMMA BackServed ==
  ASSUME KInv, Inv, KInv', NEW op \in WaitOps, Step(op), NEW l, Proceed(l),
         l.rdy = os.rdy \/ \A p : p \in Members(l.rdy) <=> p \in Members(os.rdy),
         Data(l), Elsewhere(os, l, Only(os.cur)), SamePools(os, l), Core(l, Live, Waiting')
  PROVE  Inv'
  <1>1. TInv /\ Data(os) /\ DOMAIN pc = TCBs
    BY DEF Inv, TInv
  <1>2. /\ os.running /\ isr = "none" /\ At(os.cur) = op /\ os.cur \in TCBs /\ os.cur # Idle
        /\ Steps(pc[os.cur]) /\ NextOp(pc[os.cur]) = op
    BY <1>1, StepCaller
  <1>3. Tail(pc[os.cur]) = <<>>
    BY <1>2, NextStep
  <1>4. Continues(<<>>) /\ os' = l
    BY <1>3, LeaveContinues DEF Proceed
  <1>5. op \notin CreationOps \cup {"OS_Dummy", "OS_Sched"}
    BY DEF WaitOps, CreationOps
  <1>6. Steps(<<>>) /\ NextOp(<<>>) = "none" /\ WaitOf(<<>>) = Sched
    BY StepForms
  <1>7. Ordinary(<<>>)
    BY <1>2, <1>5, <1>6 DEF Ordinary, CreationOps
  <1>8. Only(os.cur) \in SUBSET Live
    BY <1>1, <1>2, <1>5, OrdinaryRunning DEF Only
  <1>9. KeepsRunning(os', <<>>) /\ KeepsHighest(os', <<>>)
    BY <1>4 DEF KeepsRunning, KeepsHighest, IsReady, Cur
  <1>10. WaitOf(<<>>).op # "multi"
    BY <1>6 DEF Sched
  <1> QED
    BY <1>2, <1>4, <1>6, <1>7, <1>8, <1>9, <1>10, WaitsServed

(* What it waited for, and the waits of all after it.                      *)
LEMMA BackWaits ==
  ASSUME KInv, Inv, NEW op \in WaitOps, Step(op), NEW l, Proceed(l)
  PROVE  /\ Data(os) /\ Core(os, Live, Waiting) /\ os.cur \in Live
         /\ Waiting[os.cur] = Now /\ Now \in WaitStep /\ Now.op = op
         /\ Runnable(os.tcb[os.cur]) /\ RunsIn(os, os.cur)
         /\ Waiting'[os.cur] = Sched /\ \A t \in Live : t # os.cur => Waiting'[t] = Waiting[t]
  <1>1. TInv /\ Data(os) /\ DOMAIN pc = TCBs /\ Core(os, Live, Waiting) /\ os.cur \in TCBs
    BY DEF Inv, TInv, Data
  <1>2. /\ os.running /\ isr = "none" /\ At(os.cur) = op
        /\ Steps(pc[os.cur]) /\ NextOp(pc[os.cur]) = op /\ Now = Head(pc[os.cur])
        /\ Waiting[os.cur] = WaitOf(pc[os.cur])
    BY <1>1, StepCaller
  <1>3. Tail(pc[os.cur]) = <<>> /\ Waiting[os.cur] = Now /\ Now \in WaitStep
    BY <1>2, NextStep
  <1>4. Now.op = op
    BY DEF Step, Now
  <1>5. Continues(<<>>)
    BY <1>3, LeaveContinues DEF Proceed
  <1>6. op \notin CreationOps \cup {"OS_Dummy", "OS_Sched"}
    BY DEF WaitOps, CreationOps
  <1>7. os.cur \in Live /\ Runnable(os.tcb[os.cur])
    BY <1>1, <1>2, <1>6, OrdinaryRunning DEF Cur
  <1>8. WaitOf(<<>>) = Sched
    BY StepForms
  <1>9. Live \subseteq TCBs
    BY <1>1 DEF Core
  <1> QED
    BY <1>1, <1>2, <1>3, <1>4, <1>5, <1>7, <1>8, <1>9, PcAfter DEF RunsIn

(* From a pend for one event or several. *)
LEMMA PendBack ==
  ASSUME KInv, Inv, KInv', NEW op \in {"pend", "multi"}, Step(op), NEW E, Proceed(EndPend(os, E)),
         op = "pend" => Now.event \in E, op = "multi" => \A e \in Now.events : e \in E
  PROVE  Inv'
  <1> DEFINE l == EndPend(os, E)
  <1>1. op \in WaitOps /\ Proceed(l) /\ l = EndPend(os, E)
    BY DEF WaitOps
  <1> HIDE DEF l
  <1>2. /\ Data(os) /\ Core(os, Live, Waiting) /\ os.cur \in Live
        /\ Waiting[os.cur] = Now /\ Now \in WaitStep /\ Now.op = op
        /\ Runnable(os.tcb[os.cur]) /\ RunsIn(os, os.cur)
        /\ Waiting'[os.cur] = Sched /\ \A t \in Live : t # os.cur => Waiting'[t] = Waiting[t]
    BY <1>1, BackWaits
  <1>3. \A e \in PendEvents(Waiting[os.cur]) : e \in E
    BY <1>2 DEF PendEvents
  <1>4. Data(l) /\ Elsewhere(os, l, Only(os.cur)) /\ SamePools(os, l) /\ Core(l, Live, Waiting')
    <2>1. Waiting[os.cur].op \in {"pend", "multi"}
      BY <1>2
    <2>2. /\ Data(os) /\ Core(os, Live, Waiting) /\ os.cur \in Live
          /\ Runnable(os.tcb[os.cur]) /\ RunsIn(os, os.cur)
          /\ Waiting'[os.cur] = Sched /\ \A t \in Live : t # os.cur => Waiting'[t] = Waiting[t]
      BY <1>2
    <2>3. l = EndPend(os, E)
      BY <1>1
    <2> QED
      BY <1>3, <2>1, <2>2, <2>3, EndPendCore
  <1>5. l.rdy = os.rdy
    BY <1>1, <1>2 DEF EndPend, OS_EventTaskRemoveMulti, Data, Fields
  <1> QED
    BY <1>1, <1>4, <1>5, BackServed

(* Whoever waited for several events was woken by one that is still there. *)
LEMMA SeveralReturn ==
  ASSUME KInv, Inv, OSEventPendMulti_Return
  PROVE  /\ Step("multi") /\ Proceed(EndPend(os, Now.events))
         /\ io' = IF Cur.pend = "OK" THEN Told(Cur.event, [act |-> "got", msg |-> Cur.msg]) ELSE NoIO
  <1>1. Step("multi") /\ \E l : Proceed(l)
    BY DEF OSEventPendMulti_Return
  <1>2. PICK l : Proceed(l)
    BY <1>1
  <1>3. "multi" \in WaitOps
    BY DEF WaitOps
  <1>4. /\ Core(os, Live, Waiting) /\ os.cur \in Live
        /\ Waiting[os.cur] = Now /\ Now.op = "multi" /\ Runnable(os.tcb[os.cur])
    BY <1>1, <1>2, <1>3, BackWaits
  <1>5. TaskOK(os, Now, os.cur)
    BY <1>4 DEF Core
  <1>6. Local(Cur, Now) /\ Runnable(Cur) /\ \A e \in Now.events : os.event[e].type \in {"SEM", "MBOX", "Q"}
    BY <1>4, <1>5 DEF TaskOK, Cur
  <1>7. Cur.pend = "OK" => Cur.event \in Now.events
    BY <1>4, <1>6 DEF Local, Runnable, Listed
  <1>8. Cur.pend = "OK" => os.event[Cur.event].type \in SeveralTypes
    BY <1>6, <1>7 DEF SeveralTypes
  <1> QED
    BY <1>8 DEF OSEventPendMulti_Return

LEMMA PendsBack ==
  ASSUME KInv, Inv, KInv'
  PROVE  /\ OSSemPend_Return \/ OSMboxPend_Return \/ OSQPend_Return => Inv'
         /\ OSEventPendMulti_Return => Inv'
  <1>1. ASSUME OSSemPend_Return \/ OSMboxPend_Return \/ OSQPend_Return PROVE Inv'
    <2> DEFINE E == {Now.event}
    <2>1. Step("pend") /\ Proceed(EndPend(os, E)) /\ Now.event \in E
      BY <1>1 DEF OSSemPend_Return, OSMboxPend_Return, OSQPend_Return
    <2> HIDE DEF E
    <2> QED
      BY <2>1, PendBack
  <1>2. ASSUME OSEventPendMulti_Return PROVE Inv'
    <2> DEFINE E == Now.events
    <2>1. Step("multi") /\ Proceed(EndPend(os, E)) /\ \A e \in Now.events : e \in E
      BY <1>2, SeveralReturn
    <2> HIDE DEF E
    <2> QED
      BY <2>1, PendBack
  <1> QED
    BY <1>1, <1>2

(* From a pend for flags. *)
LEMMA FlagBack ==
  ASSUME KInv, Inv, KInv', OSFlagPend_Return PROVE Inv'
  <1>1. "flag" \in WaitOps /\ Step("flag")
    BY DEF OSFlagPend_Return, WaitOps
  <1>2. PICK l : Proceed(l) /\ \/ Cur.pend # "OK" /\ l = FlagTimeoutIn(os, os.cur)
                               \/ Cur.pend = "OK" /\ \/ l = [os EXCEPT !.flag[Now.grp].flags = Consumed(@, Cur.flagsRdy, Now.cond)]
                                                     \/ l = os
    <2>1. CASE Cur.pend # "OK"
      BY <2>1 DEF OSFlagPend_Return, FlagTimeoutIn
    <2>2. CASE Cur.pend = "OK" /\ Now.consume
      BY <2>2 DEF OSFlagPend_Return
    <2>3. CASE Cur.pend = "OK" /\ ~Now.consume
      BY <2>3 DEF OSFlagPend_Return
    <2> QED
      BY <2>1, <2>2, <2>3
  <1>3. /\ Data(os) /\ Core(os, Live, Waiting) /\ os.cur \in Live
        /\ Waiting[os.cur] = Now /\ Now \in WaitStep /\ Now.op = "flag"
        /\ Runnable(os.tcb[os.cur]) /\ RunsIn(os, os.cur)
        /\ Waiting'[os.cur] = Sched /\ \A t \in Live : t # os.cur => Waiting'[t] = Waiting[t]
    BY <1>1, <1>2, BackWaits
  <1>4. Waiting[os.cur].op = "flag"
    BY <1>3
  <1>5. CASE Cur.pend # "OK" /\ l = FlagTimeoutIn(os, os.cur)
    <2>1. Data(l) /\ Elsewhere(os, l, Only(os.cur)) /\ SamePools(os, l) /\ Core(l, Live, Waiting')
      BY <1>3, <1>4, <1>5, FlagTimeoutCore
    <2>2. l.rdy = os.rdy
      BY <1>3, <1>5 DEF FlagTimeoutIn, OS_FlagUnlink, Data, Fields
    <2> QED
      BY <1>1, <1>2, <2>1, <2>2, BackServed
  <1>6. CASE Cur.pend = "OK" /\ \/ l = [os EXCEPT !.flag[Now.grp].flags = Consumed(@, Cur.flagsRdy, Now.cond)]
                                \/ l = os
    <2>1. Now.grp \in FlagIds
      BY <1>3 DEF WaitStep, PendStep, MultiStep, FlagStep
    <2>2. Touches(os, l, Nobody) /\ l.rdy = os.rdy
      <3>1. CASE l = os
        <4>1. Touches(os, os, Nobody)
          BY <1>3 DEF Touches, Rest, Data, Alike, Nobody
        <4> QED
          BY <3>1, <4>1
      <3>2. CASE l = [os EXCEPT !.flag[Now.grp].flags = Consumed(@, Cur.flagsRdy, Now.cond)]
        <4> DEFINE v == Consumed(os.flag[Now.grp].flags, Cur.flagsRdy, Now.cond)
                   g == Now.grp
        <4>1. l = [os EXCEPT !.flag[g].flags = v] /\ g \in FlagIds
          BY <2>1, <3>2
        <4> HIDE DEF v, g
        <4> QED
          BY <1>3, <4>1, FlagDataTouches
      <3> QED
        BY <1>6, <3>1, <3>2
    <2>3. os.tcb[os.cur].pend = "OK"
      BY <1>6 DEF Cur
    <2>4. Data(l) /\ Elsewhere(os, l, Only(os.cur)) /\ SamePools(os, l) /\ Core(l, Live, Waiting')
      BY <1>3, <1>4, <2>2, <2>3, FlagGotCore
    <2> QED
      BY <1>1, <1>2, <2>2, <2>4, BackServed
  <1> QED
    BY <1>2, <1>5, <1>6

(***************************************************************************)
(* All services of the events and of the flag groups.                      *)
(***************************************************************************)
LEMMA SemServed ==
  ASSUME KInv, Inv, KInv', SemNext PROVE Inv'
  <1>1. ASSUME NEW e \in EventIds, NEW always, OSSemDel(e, always) \/ OSSemPendAbort(e, always) PROVE Inv'
    <2>1. CASE OSSemDel(e, always)
      BY <2>1, EventDels
    <2>2. CASE OSSemPendAbort(e, always)
      <3>1. HasWaiter(os, e)
        BY <2>2 DEF OSSemPendAbort
      <3> QED
        BY <2>2, <3>1, SemWakes
    <2> QED
      BY <1>1, <2>1, <2>2
  <1>2. ASSUME NEW e \in EventIds, OSSemAccept(e) \/ OSSemPost(e) PROVE Inv'
    BY <1>2, SemQuiet, SemWakes
  <1>3. ASSUME NEW e \in EventIds, NEW timeout, OSSemPend(e, timeout) PROVE Inv'
    BY <1>3, SemQuiet, PendsServed
  <1>4. ASSUME NEW e \in EventIds, NEW cnt, OSSemSet(e, cnt) PROVE Inv'
    BY <1>4, SemQuiet
  <1>5. ASSUME NEW cnt, OSSemCreate(cnt) PROVE Inv'
    BY <1>5, EventCreates
  <1>6. ASSUME OSSemPend_Return PROVE Inv'
    BY <1>6, PendsBack
  <1> QED
    BY <1>1, <1>2, <1>3, <1>4, <1>5, <1>6 DEF SemNext

LEMMA MboxServed ==
  ASSUME KInv, Inv, KInv', MboxNext PROVE Inv'
  <1>1. ASSUME NEW e \in EventIds, NEW all, OSMboxDel(e, all) \/ OSMboxPendAbort(e, all) PROVE Inv'
    <2>1. CASE OSMboxDel(e, all)
      BY <2>1, EventDels
    <2>2. CASE OSMboxPendAbort(e, all)
      <3>1. HasWaiter(os, e)
        BY <2>2 DEF OSMboxPendAbort
      <3> QED
        BY <2>2, <3>1, MboxWakes
    <2> QED
      BY <1>1, <2>1, <2>2
  <1>2. ASSUME NEW e \in EventIds, OSMboxAccept(e) PROVE Inv'
    BY <1>2, MboxQuiet
  <1>3. ASSUME NEW e \in EventIds, NEW timeout, OSMboxPend(e, timeout) PROVE Inv'
    BY <1>3, MboxQuiet, PendsServed
  <1>4. ASSUME NEW e \in EventIds, NEW msg, OSMboxPost(e, msg) PROVE Inv'
    BY <1>4, MboxQuiet, MboxWakes
  <1>5. ASSUME NEW e \in EventIds, NEW msg, NEW broadcast, NEW sched, OSMboxPostOpt(e, msg, broadcast, sched)
        PROVE  Inv'
    BY <1>5, MboxQuiet, MboxWakes
  <1>6. ASSUME NEW msg, OSMboxCreate(msg) PROVE Inv'
    BY <1>6, EventCreates
  <1>7. ASSUME OSMboxPend_Return PROVE Inv'
    BY <1>7, PendsBack
  <1> QED
    BY <1>1, <1>2, <1>3, <1>4, <1>5, <1>6, <1>7 DEF MboxNext

LEMMA QServed ==
  ASSUME KInv, Inv, KInv', QNext PROVE Inv'
  <1>1. ASSUME NEW e \in EventIds, NEW all, OSQDel(e, all) \/ OSQPendAbort(e, all) PROVE Inv'
    <2>1. CASE OSQDel(e, all)
      BY <2>1, EventDels
    <2>2. CASE OSQPendAbort(e, all)
      <3>1. HasWaiter(os, e)
        BY <2>2 DEF OSQPendAbort
      <3> QED
        BY <2>2, <3>1, QWakes
    <2> QED
      BY <1>1, <2>1, <2>2
  <1>2. ASSUME NEW e \in EventIds, OSQAccept(e) \/ OSQFlush(e) PROVE Inv'
    BY <1>2, QQuiet
  <1>3. ASSUME NEW e \in EventIds, NEW timeout, OSQPend(e, timeout) PROVE Inv'
    BY <1>3, QQuiet, PendsServed
  <1>4. ASSUME NEW e \in EventIds, NEW msg, OSQPost(e, msg) PROVE Inv'
    BY <1>4, QQuiet, QWakes
  <1>5. ASSUME NEW e \in EventIds, NEW msg, OSQPostFront(e, msg) PROVE Inv'
    BY <1>5, QQuiet, QWakes
  <1>6. ASSUME NEW e \in EventIds, NEW msg, NEW broadcast, NEW front, NEW sched,
               OSQPostOpt(e, msg, broadcast, front, sched)
        PROVE  Inv'
    BY <1>6, QQuiet, QWakes
  <1>7. ASSUME OSQCreate \/ OSQCreate_Q PROVE Inv'
    BY <1>7, QCreateServed, QLinkServed
  <1>8. ASSUME OSQPend_Return PROVE Inv'
    BY <1>8, PendsBack
  <1> QED
    BY <1>1, <1>2, <1>3, <1>4, <1>5, <1>6, <1>7, <1>8 DEF QNext

(* The applications that the theorems are about: without mutexes, and they *)
(* keep to the rules of the services (Supported of Kernel).                *)
Ruled == \A a \in Profiles : Supported(a) /\ ~UsesMutexes(a)

LEMMA MultiServed ==
  ASSUME Ruled, KInv, Inv, KInv', MultiNext PROVE Inv'
  <1>1. "OSEventPendMulti" \in app.calls => SeveralAllowed
    BY DEF Ruled, Supported, Inv, Rules, SeveralAllowed
  <1>2. ASSUME NEW E \in SUBSET EventIds, NEW timeout, OSEventPendMulti(E, timeout) PROVE Inv'
    <2>1. OSEventPendMulti_Check(E) /\ (OSEventPendMulti_Take(E) \/ OSEventPendMulti_Wait(E, timeout))
      BY <1>2 DEF OSEventPendMulti
    <2> QED
      BY <1>1, <2>1, MultiQuiet, MultiPendServed
  <1>3. ASSUME OSEventPendMulti_Return PROVE Inv'
    BY <1>3, PendsBack
  <1> QED
    BY <1>2, <1>3 DEF MultiNext

LEMMA FlagServed ==
  ASSUME Ruled, KInv, Inv, KInv', FlagNext PROVE Inv'
  <1>1. app.conds \subseteq Conditions
    BY DEF Ruled, Supported, Inv, Rules
  <1>2. ASSUME NEW flags, OSFlagCreate(flags) PROVE Inv'
    BY <1>2, FlagCreateServed
  <1>3. ASSUME NEW g \in FlagIds, NEW always, OSFlagDel(g, always) PROVE Inv'
    BY <1>3, FlagDelServed
  <1>4. ASSUME NEW g \in FlagIds, NEW c, NEW consume, OSFlagAccept(g, c, consume) PROVE Inv'
    BY <1>4, FlagQuiet
  <1>5. ASSUME NEW g \in FlagIds, NEW c \in app.conds, NEW consume \in BOOLEAN, NEW timeout,
               OSFlagPend(g, c, consume, timeout)
        PROVE  Inv'
    BY <1>1, <1>5, FlagQuiet, FlagPendServed
  <1>6. ASSUME NEW g \in FlagIds, NEW flags, NEW set, OSFlagPost(g, flags, set) PROVE Inv'
    BY <1>6, FlagPostServed
  <1>7. ASSUME OSFlagPend_Return PROVE Inv'
    BY <1>7, FlagBack
  <1> QED
    BY <1>2, <1>3, <1>4, <1>5, <1>6, <1>7 DEF FlagNext

(***************************************************************************)
(* Suspension, delays and the tick.                                        *)
(***************************************************************************)
LEMMA ShortServed ==
  ASSUME KInv, Inv, KInv', NEW c, Anywhere(c), NEW l, NEW steps, Leave(l, steps),
         steps = <<>> \/ steps = <<Sched>>, NEW S \in SUBSET Live,
         Data(l), Elsewhere(os, l, S), SamePools(os, l), Core(l, Live, Waiting),
         KeepsRunning(l, steps), KeepsHighest(l, steps)
  PROVE  Inv'
  <1>1. Continues(steps) /\ os' = l
    BY LeaveContinues
  <1>2. os.running /\ Ordinary(steps) /\ (isr = "none" => Waiting[os.cur] = Sched)
    BY Caller, ShortSteps DEF Inv
  <1>3. WaitOf(steps) = Sched /\ NextOp(steps) # "OSQCreate" /\ WaitOf(steps).op # "multi"
    BY ShortSteps
  <1>4. Waiting' = Waiting
    BY <1>1, <1>2, <1>3, PcAfter DEF Inv, TInv, Data
  <1>5. Core(os', Live, Waiting')
    BY <1>1, <1>4
  <1> QED
    BY <1>1, <1>2, <1>3, <1>5, WaitsServed

(* The task with a priority. *)
LEMMA TaskOf ==
  ASSUME Ruled, Inv, NEW prio \in Prios, Exists(prio), NEW t, t = Task(os, prio)
  PROVE  /\ t \in TCBs /\ t \in os.list /\ os.prioTbl[prio] = t /\ os.tcb[t].prio = prio
         /\ ~Calm(os.tcb[t]) \/ BeingDeleted = {} => t \in Live
         /\ prio # OS_TASK_IDLE_PRIO => t # Idle
  <1>1. TInv /\ ~UsesMutexes(app)
    BY DEF Inv, Rules, Ruled
  <1>2. os.prioTbl[prio] = t /\ t \in TCBs
    BY <1>1 DEF Task, Exists, TInv, Data
  <1>3. t \in os.list /\ os.tcb[t].prio = prio
    BY <1>1, <1>2 DEF TInv, Lists
  <1>4. t \in BeingDeleted => Calm(os.tcb[t])
    BY <1>1, DummyTasks DEF TInv, Lists
  <1>5. prio # OS_TASK_IDLE_PRIO => t # Idle
    BY <1>1, <1>3 DEF TInv, Lists
  <1> QED
    BY <1>2, <1>3, <1>4, <1>5 DEF Live

(* Who else is ready when one task changes. *)
LEMMA OthersReady ==
  ASSUME TInv, NEW t \in os.list, NEW l, Elsewhere(os, l, Only(t))
  PROVE  /\ \A u \in os.list : u # t => (os.tcb[u].prio \in Members(l.rdy) <=> IsReady(os, u))
         /\ \A p \in Members(os.rdy) : p # os.tcb[t].prio => p \in Members(l.rdy)
         /\ \A p \in Members(l.rdy) : p # os.tcb[t].prio => p \in Members(os.rdy)
         /\ t # Idle => (OS_TASK_IDLE_PRIO \in Members(os.rdy) => OS_TASK_IDLE_PRIO \in Members(l.rdy))
  <1>1. \A p \in Prios : p # os.tcb[t].prio => (p \in Members(l.rdy) <=> p \in Members(os.rdy))
    BY DEF Elsewhere, Only
  <1>2. \A u \in os.list : os.tcb[u].prio \in Prios /\ (u # t => os.tcb[u].prio # os.tcb[t].prio)
    BY DEF TInv, Data, Lists
  <1>3. OS_TASK_IDLE_PRIO \in Prios /\ (t # Idle => os.tcb[t].prio # OS_TASK_IDLE_PRIO)
    BY IdleApart
  <1> QED
    BY <1>1, <1>2, <1>3, MembersPrios DEF IsReady

LEMMA SuspendServed ==
  ASSUME Ruled, KInv, Inv, KInv', NEW prio \in Prios, OSTaskSuspend(prio) PROVE Inv'
  <1> DEFINE t == Task(os, prio)
             l == SuspendIn(os, t)
             steps == IF t = os.cur THEN <<Sched>> ELSE <<>>
  <1>1. /\ AtTask("OSTaskSuspend") /\ prio # OS_TASK_IDLE_PRIO /\ Exists(prio)
        /\ t = os.cur => os.lock = 0
        /\ Leave(l, steps)
        /\ (steps = <<>> \/ steps = <<Sched>>) /\ (steps = <<>> => t # os.cur)
        /\ t = Task(os, prio) /\ l = SuspendIn(os, t)
    <2>1. <<>> # <<Sched>>
      OBVIOUS
    <2> QED
      BY <2>1 DEF OSTaskSuspend, SuspendIn
  <1>2. t = os.cur => NextOp(steps) = "OS_Sched"
    BY StepForms
  <1> HIDE DEF t, l, steps
  <1>3. TInv /\ Data(os) /\ Core(os, Live, Waiting) /\ Anywhere("OSTaskSuspend")
    BY <1>1 DEF Inv, TInv, Anywhere
  <1>4. BeingDeleted = {} /\ isr = "none" /\ os.cur \in os.list /\ "OSTaskSuspend" \in app.calls
    BY <1>1, <1>3, TaskCaller DEF AtTask
  <1>5. t \in TCBs /\ t \in os.list /\ t \in Live /\ os.tcb[t].prio = prio /\ t # Idle
    BY <1>1, <1>4, TaskOf
  <1>6. Waiting[t].op # "multi"
    <2>1. ~SeveralAllowed
      BY <1>4 DEF SeveralAllowed, NotWithMulti
    <2> QED
      BY <1>5, <2>1 DEF Inv, Rules
  <1>7. /\ Data(l) /\ Elsewhere(os, l, Only(t)) /\ SamePools(os, l) /\ Core(l, Live, Waiting)
        /\ Suspended(l.tcb[t])
    <2>1. Data(l) /\ Elsewhere(os, l, Only(t)) /\ SamePools(os, l) /\ Core(l, Live, Waiting)
      BY <1>1, <1>3, <1>5, <1>6, SuspendCore
    <2>2. Suspended(l.tcb[t])
      BY <1>1, <1>3, <1>5 DEF SuspendIn, MakeUnready, Suspended, Data, Fields, TCBFields
    <2> QED
      BY <2>1, <2>2
  <1>8. KeepsRunning(l, steps)
    BY <1>1, <1>2, <1>3, <1>4, <1>5, <1>7, OthersReady DEF KeepsRunning, IsReady, Cur
  <1>9. KeepsHighest(l, steps)
    <2>1. l.tcb[t].prio = os.tcb[t].prio
      BY <1>5, <1>7 DEF Elsewhere
    <2>2. os.tcb[t].prio \notin Members(l.rdy)
      BY <1>5, <1>7, <2>1 DEF Core, TaskOK, Runnable
    <2> QED
      BY <1>3, <1>5, <1>7, <2>2, OthersReady DEF KeepsHighest
  <1>10. Only(t) \in SUBSET Live
    BY <1>5 DEF Only
  <1> QED
    BY <1>1, <1>3, <1>7, <1>8, <1>9, <1>10, ShortServed

LEMMA ResumeServed ==
  ASSUME Ruled, KInv, Inv, KInv', NEW prio \in Prios \ {OS_TASK_IDLE_PRIO}, OSTaskResume(prio) PROVE Inv'
  <1> DEFINE t == Task(os, prio)
             m == ResumeIn(os, t)
             l == IF m.tcb[t].stat = {} /\ os.tcb[t].dly = 0 THEN MakeReady(m, {t}) ELSE m
             steps == IF m.tcb[t].stat = {} /\ os.tcb[t].dly = 0 THEN <<Sched>> ELSE <<>>
  <1>1. /\ Anywhere("OSTaskResume") /\ Exists(prio) /\ Suspended(os.tcb[t])
        /\ Leave(l, steps)
        /\ (steps = <<>> /\ l = m) \/ steps = <<Sched>>
        /\ t = Task(os, prio) /\ m = ResumeIn(os, t)
        /\ l = IF m.tcb[t].stat = {} /\ os.tcb[t].dly = 0 THEN MakeReady(m, {t}) ELSE m
    BY DEF OSTaskResume, ResumeIn
  <1>2. NextOp(<<Sched>>) = "OS_Sched"
    BY StepForms
  <1> HIDE DEF t, l, m, steps
  <1>3. TInv /\ Data(os) /\ Core(os, Live, Waiting)
    BY DEF Inv, TInv
  <1>4. ~Calm(os.tcb[t])
    BY <1>1 DEF Calm, Suspended
  <1>5. t \in TCBs /\ t \in os.list /\ t \in Live /\ t # Idle
    BY <1>1, <1>4, TaskOf
  <1>6. Data(l) /\ Elsewhere(os, l, Only(t)) /\ SamePools(os, l) /\ Core(l, Live, Waiting)
    BY <1>1, <1>3, <1>5, ResumeCore
  <1>7. os.tcb[t].prio \notin Members(os.rdy)
    BY <1>1, <1>3, <1>5 DEF Core, TaskOK, Runnable
  <1>8. KeepsRunning(l, steps)
    BY <1>3, <1>5, <1>6, <1>7, OthersReady DEF KeepsRunning, IsReady, Cur
  <1>9. KeepsHighest(l, steps)
    <2>1. m.rdy = os.rdy
      BY <1>1, <1>3 DEF ResumeIn, Data, Fields
    <2> QED
      BY <1>1, <1>2, <2>1 DEF KeepsHighest
  <1>10. Only(t) \in SUBSET Live
    BY <1>5 DEF Only
  <1> QED
    BY <1>1, <1>6, <1>8, <1>9, <1>10, ShortServed

LEMMA DelayServed ==
  ASSUME KInv, Inv, KInv', NEW c, AtTask(c), NEW ticks, Delay(ticks) PROVE Inv'
  <1> DEFINE l == DelayIn(os, os.cur, ticks)
             steps == <<Sched>>
  <1>1. os.lock = 0 /\ ticks # 0 /\ Leave(l, steps) /\ steps = <<Sched>> /\ l = DelayIn(os, os.cur, ticks)
    BY DEF Delay, DelayIn
  <1>2. NextOp(steps) = "OS_Sched"
    BY StepForms
  <1> HIDE DEF l, steps
  <1>3. TInv /\ Data(os) /\ Core(os, Live, Waiting) /\ Anywhere(c)
    BY DEF Inv, TInv, Anywhere
  <1>4. /\ isr = "none" /\ os.cur \in Live /\ os.cur \in os.list /\ os.cur # Idle
        /\ Waiting[os.cur] = Sched /\ Runnable(os.tcb[os.cur])
    BY <1>3, TaskCaller DEF Cur
  <1>5. Data(l) /\ Elsewhere(os, l, Only(os.cur)) /\ SamePools(os, l) /\ Core(l, Live, Waiting)
    BY <1>1, <1>3, <1>4, DelayCore
  <1>6. KeepsRunning(l, steps) /\ KeepsHighest(l, steps)
    BY <1>1, <1>2, <1>3, <1>4, <1>5, OthersReady DEF KeepsRunning, KeepsHighest
  <1>7. Only(os.cur) \in SUBSET Live
    BY <1>4 DEF Only
  <1> QED
    BY <1>1, <1>3, <1>5, <1>6, <1>7, ShortServed

LEMMA DlyResumeServed ==
  ASSUME Ruled, KInv, Inv, KInv', NEW prio \in Prios, OSTimeDlyResume(prio) PROVE Inv'
  <1> DEFINE t == Task(os, prio)
             l == Expire(os, Only(t))
             steps == IF Suspended(os.tcb[t]) THEN <<>> ELSE <<Sched>>
  <1>1. /\ Anywhere("OSTimeDlyResume") /\ Exists(prio) /\ os.tcb[t].dly # 0
        /\ Leave(l, steps)
        /\ (steps = <<>> /\ Suspended(os.tcb[t])) \/ steps = <<Sched>>
        /\ t = Task(os, prio) /\ l = Expire(os, Only(t))
    BY DEF OSTimeDlyResume, Only
  <1>2. NextOp(<<Sched>>) = "OS_Sched"
    BY StepForms
  <1> HIDE DEF t, l, steps
  <1>3. TInv /\ Data(os) /\ Core(os, Live, Waiting)
    BY DEF Inv, TInv
  <1>4. ~Calm(os.tcb[t])
    BY <1>1 DEF Calm
  <1>5. t \in TCBs /\ t \in Live
    BY <1>1, <1>4, TaskOf
  <1>6. Only(t) \subseteq Live /\ Only(t) \in SUBSET Only(t)
    BY <1>5 DEF Only
  <1>7. Ticked(os, os, Only(t), Only(t))
    BY <1>1, <1>3 DEF Ticked, Touches, Rest, Data, Alike, Only
  <1>8. ExpireDone(os, l, Live, Waiting, Only(t), Only(t))
    BY <1>1, <1>3, <1>6, <1>7, ExpireCore
  <1>9. /\ Data(l) /\ Elsewhere(os, l, Only(t)) /\ SamePools(os, l) /\ Core(l, Live, Waiting)
        /\ \A q \in Members(os.rdy) : q \in Members(l.rdy)
        /\ \A q \in Members(l.rdy) : q \in Members(os.rdy) \/ ~Suspended(os.tcb[t])
    BY <1>8 DEF ExpireDone, Only
  <1>10. KeepsRunning(l, steps) /\ KeepsHighest(l, steps)
    BY <1>1, <1>2, <1>9 DEF KeepsRunning, KeepsHighest, IsReady, Cur
  <1> QED
    BY <1>1, <1>6, <1>9, <1>10, ShortServed

LEMMA TickServed ==
  ASSUME KInv, Inv, KInv', OSTimeTick PROVE Inv'
  <1> DEFINE D0 == {t \in os.list \ {Idle} : os.tcb[t].dly # 0}
             m  == [os EXCEPT !.tcb = [t \in TCBs |->
                      IF t \in D0 THEN [os.tcb[t] EXCEPT !.dly = @ - 1] ELSE os.tcb[t]]]
             D  == {t \in D0 : m.tcb[t].dly = 0}
  <1>1. isr = "tick" /\ os' = Expire(m, D) /\ isr' = "exit" /\ pc' = pc /\ app' = app
    BY DEF OSTimeTick
  <1>2. TInv /\ Data(os) /\ Core(os, Live, Waiting) /\ os.running
    BY <1>1 DEF Inv, TInv, KInv
  <1>3. D0 \subseteq Live
    <2>1. \A t \in BeingDeleted : Calm(os.tcb[t])
      BY <1>2, DummyTasks DEF TInv, Lists
    <2> QED
      BY <2>1 DEF Live, Calm
  <1>4. D \in SUBSET D0 /\ D0 \in SUBSET Live /\ Live \subseteq TCBs
    BY <1>2, <1>3 DEF Core
  <1>5. Ticked(os, m, D0, D)
    <2> DEFINE y(t) == [os.tcb[t] EXCEPT !.dly = @ - 1]
    <2>1. /\ Rest(os, m) /\ m.rdy = os.rdy /\ m.event = os.event /\ m.flag = os.flag /\ DOMAIN m.tcb = TCBs
          /\ \A t \in TCBs : m.tcb[t] = IF t \in D0 THEN y(t) ELSE os.tcb[t]
      BY <1>2 DEF Rest, Data, Fields
    <2>2. \A t \in TCBs :
            /\ DOMAIN y(t) = TCBFields /\ y(t).prio = os.tcb[t].prio
            /\ y(t).stat = os.tcb[t].stat /\ y(t).pend = os.tcb[t].pend
            /\ y(t).event = os.tcb[t].event /\ y(t).multi = os.tcb[t].multi
            /\ y(t).node = os.tcb[t].node
      BY <1>2 DEF Data, TCBFields
    <2>3. \A t \in D0 : os.tcb[t].dly # 0 /\ (t \notin D => m.tcb[t].dly # 0)
      OBVIOUS
    <2> HIDE DEF y, m, D0, D
    <2>4. Touches(os, m, D0)
      <3>1. \A t \in TCBs : DOMAIN m.tcb[t] = TCBFields /\ m.tcb[t].prio = os.tcb[t].prio
        BY <1>2, <2>1, <2>2 DEF Data
      <3>2. \A t \in TCBs \ D0 : Alike(os.tcb[t], m.tcb[t])
        BY <2>1 DEF Alike
      <3> QED
        BY <1>2, <2>1, <3>1, <3>2 DEF Touches, Data, Waiters
    <2> QED
      BY <1>4, <2>1, <2>2, <2>3, <2>4 DEF Ticked
  <1> HIDE DEF D0, m, D
  <1>6. ExpireDone(os, os', Live, Waiting, D0, D)
    BY <1>1, <1>2, <1>4, <1>5, ExpireCore
  <1>7. /\ Data(os') /\ Elsewhere(os, os', D0) /\ SamePools(os, os') /\ Core(os', Live, Waiting)
        /\ \A q \in Members(os.rdy) : q \in Members(os'.rdy)
    BY <1>6 DEF ExpireDone
  <1>8. Continues(<<>>) /\ Waiting' = Waiting
    BY <1>1 DEF Continues, Waiting
  <1>9. Steps(<<>>) /\ NextOp(<<>>) = "none"
    BY StepForms
  <1>10. Ordinary(<<>>)
    BY <1>1, <1>9 DEF Ordinary, CreationOps
  <1>11. KeepsRunning(os', <<>>) /\ KeepsHighest(os', <<>>)
    BY <1>1, <1>7 DEF KeepsRunning, KeepsHighest, IsReady, Cur
  <1>12. Core(os', Live, Waiting')
    BY <1>7, <1>8
  <1> QED
    BY <1>1, <1>2, <1>4, <1>7, <1>8, <1>9, <1>10, <1>11, <1>12, WaitsServed

(***************************************************************************)
(* Interrupts and the scheduler.                                           *)
(***************************************************************************)
SwitchOnly(k, l) ==
  /\ DOMAIN l = Fields
  /\ l.tcb = k.tcb /\ l.rdy = k.rdy /\ l.prioTbl = k.prioTbl /\ l.list = k.list /\ l.free = k.free
  /\ l.event = k.event /\ l.freeEvents = k.freeEvents /\ l.flag = k.flag /\ l.freeFlags = k.freeFlags
  /\ l.lock = k.lock
GoOn(t) == pc'[t] = pc[t] \/ (At(t) = "OS_Sched" /\ pc'[t] = Tail(pc[t]))

LEMMA GoneOn ==
  ASSUME TInv, NEW t \in TCBs, GoOn(t)
  PROVE  /\ Steps(pc'[t]) /\ Waiting'[t] = Waiting[t]
         /\ NextOp(pc'[t]) = At(t) \/ (At(t) = "OS_Sched" /\ NextOp(pc'[t]) \in WaitOps \cup {"none"})
         /\ Waiting[t] = Sched /\ At(t) = "OS_Sched" => NextOp(pc'[t]) \in {"none", "OS_Sched"}
         /\ At(t) # "OS_Sched" => pc'[t] = pc[t]
  <1>1. Steps(pc[t]) /\ At(t) = NextOp(pc[t]) /\ Waiting[t] = WaitOf(pc[t]) /\ Waiting'[t] = WaitOf(pc'[t])
    BY AtNext DEF TInv, Waiting
  <1>2. CASE pc'[t] = pc[t]
    BY <1>1, <1>2
  <1>3. CASE At(t) = "OS_Sched" /\ pc'[t] = Tail(pc[t])
    <2>1. /\ Steps(pc'[t]) /\ WaitOf(pc'[t]) = WaitOf(pc[t]) /\ NextOp(pc'[t]) \in WaitOps \cup {"none"}
      BY <1>1, <1>3, NextStep
    <2>2. NextOp(pc'[t]) \in WaitOps => WaitOf(pc'[t]).op \in WaitOps
      <3>1. NextOp(pc'[t]) \in WaitOps => WaitOf(pc'[t]) = Head(pc'[t]) /\ Head(pc'[t]) \in WaitStep
        BY <2>1, NextStep
      <3> QED
        BY <3>1, WaitTypes
    <2>3. Sched.op \notin WaitOps
      BY DEF Sched, WaitOps
    <2> QED
      BY <1>1, <1>3, <2>1, <2>2, <2>3
  <1> QED
    BY <1>2, <1>3 DEF GoOn

LEMMA SwitchKept ==
  ASSUME Inv, SwitchOnly(os, os'), os'.cur \in TCBs, os.lock > 0 => os'.cur = os.cur,
         app' = app, DOMAIN pc' = TCBs, \A t \in TCBs : GoOn(t),
         Live' = Live => Running'
  PROVE  Inv'
  <1>1. TInv /\ Rules /\ Data(os) /\ Core(os, Live, Waiting) /\ DOMAIN pc = TCBs
    BY DEF Inv, TInv
  <1>2. Data(os)'
    BY <1>1 DEF Data, SwitchOnly
  <1>3. \A t \in TCBs :
          /\ Steps(pc'[t]) /\ Waiting'[t] = Waiting[t]
          /\ NextOp(pc'[t]) = At(t) \/ (At(t) = "OS_Sched" /\ NextOp(pc'[t]) \in WaitOps \cup {"none"})
          /\ Waiting[t] = Sched /\ At(t) = "OS_Sched" => NextOp(pc'[t]) \in {"none", "OS_Sched"}
          /\ At(t) # "OS_Sched" => pc'[t] = pc[t]
    BY <1>1, GoneOn
  <1>4. Waiting' = Waiting
    BY <1>3 DEF Waiting
  <1>5. \A t \in TCBs : \A op \in {"OS_Dummy", "OSQCreate"} \cup CreationOps :
          (NextOp(pc'[t]) = op <=> At(t) = op) /\ (At(t) = op => pc'[t] = pc[t])
    <2>1. \A op \in {"OS_Dummy", "OSQCreate"} \cup CreationOps : op # "OS_Sched" /\ op \notin WaitOps \cup {"none"}
      BY DEF CreationOps, WaitOps
    <2> QED
      BY <1>3, <2>1
  <1>6. Live' = Live
    <2>1. BeingDeleted' = {t \in TCBs : \E u \in TCBs : NextOp(pc'[u]) = "OS_Dummy" /\ Head(pc'[u]).tcb = t}
      BY DEF BeingDeleted, NextOp
    <2>2. BeingDeleted' = BeingDeleted
      BY <1>5, <2>1, DummyTasks
    <2> QED
      BY <2>2 DEF Live, SwitchOnly
  <1>7. Core(os, Live, Waiting)'
    <2>1. Core(os', Live, Waiting)
      BY <1>1 DEF Core, TaskOK, Holder, Waiters, SwitchOnly
    <2> QED
      BY <1>4, <1>6, <2>1 DEF Core, TaskOK, Holder, Waiters
  <1>8. Lists'
    <2>1. /\ Idle \in os'.list /\ os'.tcb[Idle].prio = OS_TASK_IDLE_PRIO /\ pc'[Idle] = <<>>
          /\ \A t \in os'.list : os'.prioTbl[os'.tcb[t].prio] = t
          /\ \A p \in Prios : os'.prioTbl[p] \in TCBs =>
               os'.prioTbl[p] \in os'.list /\ (~UsesMutexes(app') => os'.tcb[os'.prioTbl[p]].prio = p)
      <3>1. Idle \in TCBs /\ pc[Idle] = <<>> /\ At(Idle) = "none"
        BY <1>1 DEF TInv, Lists, Data, At
      <3>2. pc'[Idle] = <<>>
        BY <1>3, <3>1
      <3> QED
        BY <1>1, <3>2 DEF TInv, Lists, SwitchOnly
    <2>2. \A t \in TCBs \ os'.list : NextOp(pc'[t]) \in {"none", "OS_Sched"} /\ Waiting'[t] = Sched
      <3>1. \A t \in TCBs \ os.list : At(t) \in {"none", "OS_Sched"} /\ Waiting[t] = Sched
        BY <1>1 DEF TInv, Lists
      <3> QED
        BY <1>3, <3>1 DEF SwitchOnly
    <2>3. ASSUME NEW t \in TCBs, NextOp(pc'[t]) = "OS_Dummy"
          PROVE  LET d == Head(pc'[t])
                 IN  /\ t = os'.cur /\ os'.lock > 0 /\ d.tcb \in os'.list \ {Idle}
                     /\ os'.tcb[d.tcb].prio = d.prio /\ Calm(os'.tcb[d.tcb])
                     /\ d.tcb = t => os'.lock = 1
                     /\ d.tcb # t => NextOp(pc'[d.tcb]) \in {"none", "OS_Sched"} \cup WaitOps
      <3>1. At(t) = "OS_Dummy" /\ pc'[t] = pc[t]
        BY <1>5, <2>3
      <3> DEFINE d == Head(pc[t])
      <3>2. /\ t = os.cur /\ os.lock > 0 /\ d.tcb \in os.list \ {Idle}
            /\ os.tcb[d.tcb].prio = d.prio /\ Calm(os.tcb[d.tcb])
            /\ d.tcb = t => os.lock = 1
            /\ d.tcb # t => At(d.tcb) \in {"none", "OS_Sched"} \cup WaitOps
        BY <1>1, <3>1 DEF TInv, Lists
      <3>3. d = Head(pc'[t]) /\ d.tcb \in TCBs
        BY <1>1, <3>1, <3>2 DEF Data
      <3> HIDE DEF d
      <3> QED
        BY <1>3, <3>2, <3>3 DEF SwitchOnly
    <2> QED
      BY <2>1, <2>2, <2>3 DEF Lists, At, NextOp
  <1>9. Creations'
    <2>1. \A t \in TCBs : NextOp(pc'[t]) \in CreationOps => At(t) \in CreationOps /\ pc'[t] = pc[t]
      BY <1>5
    <2>2. \A t \in TCBs : NextOp(pc'[t]) = "link" => At(t) = "link" /\ pc'[t] = pc[t]
      BY <1>5 DEF CreationOps
    <2> QED
      BY <1>1, <2>1, <2>2 DEF TInv, Creations, At, NextOp, SwitchOnly
  <1>10. Pools'
    <2>1. \A t \in TCBs : NextOp(pc'[t]) = "OSQCreate" => At(t) = "OSQCreate" /\ pc'[t] = pc[t]
      BY <1>5
    <2> QED
      BY <1>1, <2>1 DEF TInv, Pools, At, NextOp, SwitchOnly
  <1>11. Rules'
    <2>1. app' = app /\ \A e \in EventIds : os'.event[e].type = os.event[e].type
      BY DEF SwitchOnly
    <2>2. SeveralAllowed' <=> SeveralAllowed
      BY <2>1 DEF SeveralAllowed
    <2>3. NoMutex(os')
      BY <1>1, <2>1 DEF Rules, NoMutex
    <2>4. ~SeveralAllowed => \A t \in TCBs : Waiting'[t].op # "multi"
      BY <1>1, <1>4 DEF Rules
    <2> QED
      BY <1>1, <2>1, <2>2, <2>3, <2>4 DEF Rules
  <1> QED
    BY <1>2, <1>3, <1>6, <1>7, <1>8, <1>9, <1>10, <1>11 DEF Inv, TInv, Steps

(* The task with the highest ready priority. *)
LEMMA HighestTask ==
  ASSUME KInv, TInv, NEW high, high = Highest(os.rdy), NEW t, t = Task(os, high)
  PROVE  /\ high \in Prios /\ os.prioTbl[high] = t
         /\ t \in Live /\ t \in TCBs /\ t \in os.list /\ os.tcb[t].prio = high /\ Runnable(os.tcb[t])
  <1>1. WellFormed(os.rdy) /\ os.rdy \in Table /\ OS_TASK_IDLE_PRIO \in Members(os.rdy)
    BY DEF KInv, Good, TInv, Data, Running
  <1>2. high \in Members(os.rdy) /\ high \in Prios
    BY <1>1, HighestFirst, MembersPrios
  <1>3. Holder(os, Live, high)
    BY <1>2 DEF TInv, Core
  <1>4. t \in Live /\ os.tcb[t].prio = high /\ os.prioTbl[high] = t
    BY <1>3 DEF Holder, Task
  <1>5. Runnable(os.tcb[t])
    BY <1>2, <1>4 DEF TInv, Core, TaskOK
  <1> QED
    BY <1>2, <1>4, <1>5 DEF Live, TInv, Data

LEMMA SwitchTo ==
  ASSUME KInv, TInv, os.running, NEW l, l = Switch(os)
  PROVE  /\ SwitchOnly(os, l) /\ l.running /\ l.cur \in TCBs
         /\ os.lock # 0 => l = os
         /\ os.lock = 0 => /\ l.cur \in Live /\ Runnable(l.tcb[l.cur])
                           /\ l.tcb[l.cur].prio = l.prioCur /\ l.prioCur = Highest(l.rdy)
  <1> DEFINE high == Highest(os.rdy)
             t == Task(os, high)
  <1>1. /\ high \in Prios /\ os.prioTbl[high] = t
        /\ t \in Live /\ t \in TCBs /\ t \in os.list /\ os.tcb[t].prio = high /\ Runnable(os.tcb[t])
    BY HighestTask
  <1>2. DOMAIN os = Fields /\ os.cur \in TCBs
    BY DEF TInv, Data
  <1>3. CASE os.lock # 0
    BY <1>2, <1>3 DEF Switch, SwitchOnly
  <1>4. CASE os.lock = 0 /\ high # os.prioCur
    <2>1. l = [os EXCEPT !.cur = t, !.prioCur = high]
      BY <1>4 DEF Switch
    <2>2. SwitchOnly(os, l) /\ l.running = os.running /\ l.cur = t /\ l.prioCur = high
      BY <1>2, <2>1 DEF SwitchOnly, Fields
    <2> QED
      BY <1>1, <1>4, <2>2 DEF SwitchOnly
  <1>5. CASE os.lock = 0 /\ high = os.prioCur
    <2>1. l = os
      BY <1>5 DEF Switch
    <2>2. t = os.cur
      BY <1>1, <1>5, NullAssumption DEF TInv, Running, Lists
    <2> QED
      BY <1>1, <1>2, <1>5, <2>1, <2>2 DEF SwitchOnly
  <1> QED
    BY <1>3, <1>4, <1>5

LEMMA ChosenRunning ==
  ASSUME TInv, SwitchOnly(os, os'), os'.running, Live' = Live, os'.cur \in Live,
         Runnable(os'.tcb[os'.cur]), os'.tcb[os'.cur].prio = os'.prioCur,
         os'.prioCur = Highest(os'.rdy)
  PROVE  Running'
  <1>1. os'.cur \in Live' /\ os'.cur \in os'.list /\ OS_TASK_IDLE_PRIO \in Members(os'.rdy)
    BY DEF Live, SwitchOnly, TInv, Running
  <1> QED
    BY <1>1 DEF Running

LEMMA StartServed ==
  ASSUME KInv, Inv, OSStart PROVE Inv'
  <1> DEFINE high == Highest(os.rdy)
             t == Task(os, high)
  <1>1. TInv /\ DOMAIN os = Fields /\ DOMAIN pc = TCBs
    BY DEF Inv, TInv, Data
  <1>2. /\ high \in Prios /\ t \in Live /\ t \in TCBs /\ os.tcb[t].prio = high /\ Runnable(os.tcb[t])
    BY <1>1, HighestTask
  <1>3. os' = [os EXCEPT !.cur = t, !.prioCur = high, !.running = TRUE] /\ pc' = pc /\ app' = app
    BY DEF OSStart
  <1>4. SwitchOnly(os, os') /\ os'.running /\ os'.cur = t /\ os'.prioCur = high
    BY <1>1, <1>3 DEF SwitchOnly, Fields
  <1>5. os.lock = 0
    BY <1>1 DEF OSStart, TInv, Running
  <1>6. \A u \in TCBs : GoOn(u)
    BY <1>3 DEF GoOn
  <1>7. Live' = Live => Running'
    BY <1>1, <1>2, <1>4, ChosenRunning DEF SwitchOnly
  <1> QED
    BY <1>1, <1>2, <1>3, <1>4, <1>5, <1>6, <1>7, SwitchKept

LEMMA SchedServed ==
  ASSUME KInv, Inv, OS_Sched PROVE Inv'
  <1>1. TInv /\ DOMAIN pc = TCBs /\ os.cur \in TCBs /\ os.lock \in Nat
    BY DEF Inv, TInv, Data
  <1>2. /\ os.running /\ isr = "none" /\ At(os.cur) = "OS_Sched"
    BY <1>1, StepCaller DEF OS_Sched
  <1>3. os' = Switch(os) /\ pc' = [pc EXCEPT ![os.cur] = Tail(pc[os.cur])] /\ isr' = isr /\ app' = app
    BY <1>2 DEF OS_Sched, Proceed, Leave
  <1>4. /\ SwitchOnly(os, os') /\ os'.running /\ os'.cur \in TCBs
        /\ os.lock # 0 => os' = os
        /\ os.lock = 0 => /\ os'.cur \in Live /\ Runnable(os'.tcb[os'.cur])
                          /\ os'.tcb[os'.cur].prio = os'.prioCur /\ os'.prioCur = Highest(os'.rdy)
    BY <1>1, <1>2, <1>3, SwitchTo
  <1>5. \A t \in TCBs : GoOn(t)
    BY <1>1, <1>2, <1>3 DEF GoOn
  <1>6. ASSUME Live' = Live PROVE Running'
    <2>1. CASE os.lock = 0
      BY <1>1, <1>4, <1>6, <2>1, ChosenRunning
    <2>2. CASE os.lock # 0
      <3>1. os' = os
        BY <1>4, <2>2
      <3>2. NextOp(pc'[os.cur]) \in WaitOps \cup {"none"}
        <4>1. Steps(pc[os.cur]) /\ NextOp(pc[os.cur]) = "OS_Sched" /\ pc'[os.cur] = Tail(pc[os.cur])
          BY <1>1, <1>2, <1>3, AtNext DEF TInv
        <4> QED
          BY <4>1, NextStep
      <3>3. ~Stopping
        BY <1>2, <2>2 DEF Stopping
      <3>4. os.cur \in Live /\ Runnable(os.tcb[os.cur]) /\ os.cur \in os.list /\ os.tcb[os.cur].prio = os.prioCur
            /\ OS_TASK_IDLE_PRIO \in Members(os.rdy)
        BY <1>1, <1>2, <2>2, <3>3 DEF TInv, Running
      <3> QED
        BY <1>2, <1>6, <2>2, <3>1, <3>4 DEF Running
    <2> QED
      BY <2>1, <2>2
  <1> QED
    BY <1>1, <1>3, <1>4, <1>5, <1>6, SwitchKept

LEMMA IntEnterServed ==
  ASSUME KInv, Inv, NEW kind \in {"tick", "device"}, OSIntEnter(kind) PROVE Inv'
  <1>1. TInv /\ DOMAIN os = Fields /\ DOMAIN pc = TCBs /\ os.cur \in TCBs
    BY DEF Inv, TInv, Data
  <1>2. os.running /\ isr' # "none" /\ os' = os /\ pc' = pc /\ app' = app
    BY DEF OSIntEnter
  <1>3. SwitchOnly(os, os')
    BY <1>1, <1>2 DEF SwitchOnly
  <1>4. \A t \in TCBs : GoOn(t)
    BY <1>2 DEF GoOn
  <1>5. ASSUME Live' = Live PROVE Running'
    <2>1. Stopping' <=> Stopping
      BY <1>2 DEF Stopping, At
    <2>2. At(os.cur)' = At(os.cur)
      BY <1>2 DEF At
    <2> QED
      BY <1>1, <1>2, <1>5, <2>1, <2>2 DEF TInv, Running
  <1> QED
    BY <1>1, <1>2, <1>3, <1>4, <1>5, SwitchKept

LEMMA IntExitServed ==
  ASSUME KInv, Inv, OSIntExit PROVE Inv'
  <1>1. TInv /\ DOMAIN os = Fields /\ DOMAIN pc = TCBs /\ os.cur \in TCBs /\ os.lock \in Nat
    BY DEF Inv, TInv, Data
  <1>2. os.running /\ isr' = "none" /\ os' = Switch(os) /\ pc' = pc /\ app' = app
    BY DEF OSIntExit, KInv
  <1>3. /\ SwitchOnly(os, os') /\ os'.running /\ os'.cur \in TCBs
        /\ os.lock # 0 => os' = os
        /\ os.lock = 0 => /\ os'.cur \in Live /\ Runnable(os'.tcb[os'.cur])
                          /\ os'.tcb[os'.cur].prio = os'.prioCur /\ os'.prioCur = Highest(os'.rdy)
    BY <1>1, <1>2, SwitchTo
  <1>4. \A t \in TCBs : GoOn(t)
    BY <1>2 DEF GoOn
  <1>5. ASSUME Live' = Live PROVE Running'
    <2>1. CASE os.lock = 0
      BY <1>1, <1>3, <1>5, <2>1, ChosenRunning
    <2>2. CASE os.lock # 0
      <3>1. os' = os
        BY <1>3, <2>2
      <3>2. Stopping' <=> Stopping
        BY <1>2, <3>1 DEF Stopping, At
      <3>3. At(os.cur)' = At(os.cur)
        BY <1>2, <3>1 DEF At
      <3> QED
        BY <1>1, <1>2, <1>5, <2>2, <3>1, <3>2, <3>3 DEF TInv, Running
    <2> QED
      BY <2>1, <2>2
  <1> QED
    BY <1>1, <1>2, <1>3, <1>4, <1>5, SwitchKept

(***************************************************************************)
(* Services that change what exists, or lock the scheduler.                *)
(***************************************************************************)
LEMMA Assembled ==
  ASSUME Data(os'), Core(os', Live', Waiting'), Lists', Creations', Pools', Running', Rules',
         DOMAIN pc' = TCBs, \A t \in TCBs : Steps(pc'[t])
  PROVE  Inv'
  <1>1. Data(os)' /\ Core(os, Live, Waiting)'
    BY DEF Data, Core, TaskOK, Holder, Waiters
  <1> QED
    BY <1>1 DEF Inv, TInv, Steps

(* The task t goes on with what waits for nothing and creates no queue. *)
GoesOn(t) == /\ Steps(pc'[t]) /\ WaitOf(pc'[t]) = Sched /\ NextOp(pc'[t]) # "OSQCreate"

LEMMA StructureKept ==
  ASSUME TInv, Rules, app' = app, DOMAIN pc' = TCBs, SamePools(os, os'),
         \A t \in TCBs : pc'[t] = pc[t] \/ GoesOn(t)
  PROVE  Pools' /\ Rules' /\ \A t \in TCBs : Steps(pc'[t])
  <1>1. \A t \in TCBs : Steps(pc[t])
    BY DEF TInv
  <1>2. \A t \in TCBs : NextOp(pc'[t]) = "OSQCreate" => At(t) = "OSQCreate" /\ pc'[t] = pc[t]
    BY AtNext DEF GoesOn
  <1>3. \A t \in TCBs : Waiting'[t] = Waiting[t] \/ Waiting'[t] = Sched
    BY DEF Waiting, GoesOn
  <1>4. /\ os'.freeEvents = os.freeEvents /\ os'.freeFlags = os.freeFlags
        /\ \A e \in EventIds : os'.event[e].type = os.event[e].type
        /\ \A g \in FlagIds : os'.flag[g].type = os.flag[g].type
    BY DEF SamePools
  <1>5. ASSUME NEW t \in TCBs, NextOp(pc'[t]) = "OSQCreate"
        PROVE  LET e == Head(pc'[t]).event
               IN  os'.event[e].type = "UNUSED" /\ \A i \in DOMAIN os'.freeEvents : os'.freeEvents[i] # e
    <2>1. At(t) = "OSQCreate" /\ pc'[t] = pc[t]
      BY <1>2, <1>5
    <2>2. Head(pc[t]).event \in EventIds
      BY <1>1, <2>1, AtNext, NextStep
    <2> QED
      BY <1>4, <2>1, <2>2 DEF TInv, Pools
  <1>6. \A t, u \in TCBs : NextOp(pc'[t]) = "OSQCreate" /\ NextOp(pc'[u]) = "OSQCreate"
                             /\ Head(pc'[t]).event = Head(pc'[u]).event => t = u
    BY <1>2 DEF TInv, Pools
  <1>7. /\ os'.freeEvents \in Seq(EventIds) /\ Distinct(os'.freeEvents)
        /\ os'.freeFlags \in Seq(FlagIds) /\ Distinct(os'.freeFlags)
        /\ \A i \in DOMAIN os'.freeEvents : os'.event[os'.freeEvents[i]].type = "UNUSED"
        /\ \A i \in DOMAIN os'.freeFlags : os'.flag[os'.freeFlags[i]].type = "UNUSED"
    BY <1>4 DEF TInv, Pools
  <1>8. Pools'
    BY <1>5, <1>6, <1>7 DEF Pools, At, NextOp
  <1>9. Rules'
    <2>1. Sched.op # "multi"
      BY DEF Sched
    <2>2. SeveralAllowed' <=> SeveralAllowed
      BY DEF SeveralAllowed
    <2>3. NoMutex(os')
      BY <1>4 DEF Rules, NoMutex
    <2>4. ~SeveralAllowed => \A t \in TCBs : Waiting'[t].op # "multi"
      BY <1>3, <2>1 DEF Rules
    <2> QED
      BY <2>2, <2>3, <2>4 DEF Rules
  <1> QED
    BY <1>1, <1>8, <1>9 DEF GoesOn

(* A task that goes on creating a task, where k, now l, still keeps its    *)
(* priority and its control block for it.                                  *)
CreatesStill(k, l, t) ==
  /\ pc'[t] = pc[t] /\ At(t) \in CreationOps
  /\ l.prioTbl[Head(pc[t]).prio] = Reserved
  /\ At(t) = "link" => LET u == Head(pc[t]).tcb
                       IN  /\ u \notin l.list /\ Alike(k.tcb[u], l.tcb[u])
                           /\ \A i \in DOMAIN l.free : l.free[i] # u

LEMMA CreationsSame ==
  ASSUME TInv, os'.free \in Seq(TCBs \ os'.list), Distinct(os'.free),
         \A t \in TCBs : NextOp(pc'[t]) \in CreationOps => CreatesStill(os, os', t)
  PROVE  Creations'
  <1>1. \A t \in TCBs : NextOp(pc'[t]) \in CreationOps => os'.prioTbl[Head(pc'[t]).prio] = Reserved
    BY DEF CreatesStill
  <1>2. \A t, u \in TCBs : NextOp(pc'[t]) \in CreationOps /\ NextOp(pc'[u]) \in CreationOps
                             /\ Head(pc'[t]).prio = Head(pc'[u]).prio => t = u
    BY DEF CreatesStill, TInv, Creations
  <1>3. \A t \in TCBs : NextOp(pc'[t]) = "link" => At(t) = "link" /\ CreatesStill(os, os', t)
    BY AtNext DEF CreatesStill, CreationOps
  <1>4. ASSUME NEW t \in TCBs, NextOp(pc'[t]) = "link"
        PROVE  LET c == Head(pc'[t])
               IN  /\ c.tcb \in TCBs \ os'.list /\ os'.tcb[c.tcb].prio = c.prio
                   /\ Calm(os'.tcb[c.tcb]) /\ Fresh(os'.tcb[c.tcb])
                   /\ \A i \in DOMAIN os'.free : os'.free[i] # c.tcb
    <2> DEFINE u == Head(pc[t]).tcb
    <2>1. /\ pc'[t] = pc[t] /\ u \notin os'.list /\ Alike(os.tcb[u], os'.tcb[u])
          /\ \A i \in DOMAIN os'.free : os'.free[i] # u
      BY <1>3, <1>4 DEF CreatesStill
    <2>2. u \in TCBs /\ os.tcb[u].prio = Head(pc[t]).prio /\ Calm(os.tcb[u]) /\ Fresh(os.tcb[u])
      BY <1>3, <1>4 DEF TInv, Creations
    <2>3. os'.tcb[u].prio = Head(pc[t]).prio /\ Calm(os'.tcb[u]) /\ Fresh(os'.tcb[u])
      <3> HIDE DEF u
      <3>1. os'.tcb[u].prio = os.tcb[u].prio
        BY <2>1 DEF Alike
      <3> QED
        BY <2>1, <2>2, <3>1, AlikeTask
    <2> QED
      BY <2>1, <2>2, <2>3
  <1>5. \A t, u \in TCBs : NextOp(pc'[t]) = "link" /\ NextOp(pc'[u]) = "link"
                             /\ Head(pc'[t]).tcb = Head(pc'[u]).tcb => t = u
    BY <1>3 DEF CreatesStill, TInv, Creations
  <1> QED
    BY <1>1, <1>2, <1>4, <1>5 DEF Creations, At, NextOp

(* The running task stays what it is. *)
SameRunner(k, l) ==
  /\ l.running = k.running /\ l.cur = k.cur /\ l.prioCur = k.prioCur
  /\ Alike(k.tcb[k.cur], l.tcb[k.cur])

LEMMA SteadyRunning ==
  ASSUME TInv, os.running, ~Stopping, isr = "none", app' = app,
         SameRunner(os, os'), os.cur \in Live', OS_TASK_IDLE_PRIO \in Members(os'.rdy),
         os'.lock = 0 /\ NextOp(pc'[os.cur]) # "OS_Sched" => os.lock = 0 /\ os'.rdy = os.rdy
  PROVE  Running'
  <1>1. os.cur \in Live /\ Runnable(os.tcb[os.cur]) /\ os.tcb[os.cur].prio = os.prioCur
    BY DEF TInv, Running, Stopping
  <1>2. /\ os'.running /\ os'.cur = os.cur /\ os'.prioCur = os.prioCur
        /\ Runnable(os'.tcb[os.cur]) /\ os'.tcb[os.cur].prio = os.prioCur
    BY <1>1, AlikeTask DEF SameRunner, Alike
  <1>3. At(os.cur)' = NextOp(pc'[os.cur])
    BY <1>2 DEF At, NextOp
  <1>4. Excepted' <=> Excepted
    BY DEF Excepted
  <1>5. ASSUME os'.lock = 0, NextOp(pc'[os.cur]) # "OS_Sched", ~Excepted
        PROVE  os.prioCur = Highest(os'.rdy)
    <2>1. os.lock = 0 /\ os'.rdy = os.rdy /\ At(os.cur) # "OS_Sched"
      BY <1>5 DEF Stopping
    <2> QED
      BY <1>5, <2>1 DEF TInv, Running
  <1>6. os.cur \in os'.list
    BY DEF Live
  <1> QED
    BY <1>2, <1>3, <1>4, <1>5, <1>6 DEF Running

(* Nobody is being deleted, and none of the tasks there are changes. *)
LEMMA ListsSame ==
  ASSUME TInv, app' = app, DOMAIN pc' = TCBs, os.cur # Idle, os.cur \in os.list,
         \A t \in TCBs : At(t) # "OS_Dummy" /\ NextOp(pc'[t]) # "OS_Dummy",
         \A t \in TCBs : t # os.cur => pc'[t] = pc[t],
         os'.list = os.list, \A t \in os.list : os'.tcb[t].prio = os.tcb[t].prio,
         \A p \in Prios : os.prioTbl[p] \in TCBs \/ os'.prioTbl[p] \in TCBs
                            => os'.prioTbl[p] = os.prioTbl[p]
  PROVE  Lists' /\ Live' = Live /\ Live = os.list
  <1>1. \A t \in os.list : t \in TCBs /\ os.tcb[t].prio \in Prios
    BY DEF TInv, Data
  <1>2. /\ Idle \in os'.list /\ os'.tcb[Idle].prio = OS_TASK_IDLE_PRIO /\ pc'[Idle] = <<>>
        /\ \A t \in os'.list : os'.prioTbl[os'.tcb[t].prio] = t
    BY <1>1 DEF TInv, Lists
  <1>3. \A p \in Prios : os'.prioTbl[p] \in TCBs =>
          os'.prioTbl[p] \in os'.list /\ (~UsesMutexes(app') => os'.tcb[os'.prioTbl[p]].prio = p)
    BY DEF TInv, Lists
  <1>4. \A t \in TCBs \ os'.list : NextOp(pc'[t]) \in {"none", "OS_Sched"} /\ Waiting'[t] = Sched
    BY AtNext DEF TInv, Lists, Waiting
  <1>5. Lists'
    BY <1>2, <1>3, <1>4 DEF Lists, At, NextOp
  <1>6. BeingDeleted = {} /\ BeingDeleted' = {}
    BY DEF BeingDeleted, At, NextOp
  <1> QED
    BY <1>5, <1>6 DEF Live

(* A critical section outside the tasks there are and their waits.         *)
Outside(k, l) ==
  /\ DOMAIN l = Fields /\ l.list = k.list /\ l.rdy = k.rdy /\ l.event = k.event /\ l.flag = k.flag
  /\ l.freeEvents = k.freeEvents /\ l.freeFlags = k.freeFlags
  /\ l.running = k.running /\ l.cur = k.cur /\ l.prioCur = k.prioCur
  /\ \A t \in k.list : l.tcb[t] = k.tcb[t]
  /\ \A p \in Prios : k.prioTbl[p] \in TCBs \/ l.prioTbl[p] \in TCBs => l.prioTbl[p] = k.prioTbl[p]

LEMMA OutsideServed ==
  ASSUME KInv, Inv, os.running, isr = "none", os.cur # Idle,
         At(os.cur) \in {"none", "OS_TCBInit", "rollback"}, NEW l, NEW steps, Leave(l, steps),
         Steps(steps), WaitOf(steps) = Sched, NextOp(steps) \notin {"OSQCreate", "OS_Dummy"},
         Data(l), Outside(os, l),
         l.lock = 0 /\ NextOp(steps) # "OS_Sched" => os.lock = 0,
         Creations'
  PROVE  Inv'
  <1>1. /\ TInv /\ Rules /\ Data(os) /\ Core(os, Live, Waiting) /\ DOMAIN pc = TCBs /\ os.cur \in TCBs
        /\ \A t \in TCBs : Steps(pc[t])
    BY DEF Inv, TInv, Data
  <1>2. /\ os' = l /\ DOMAIN pc' = TCBs /\ app' = app /\ pc'[os.cur] = steps
        /\ \A t \in TCBs : t # os.cur => pc'[t] = pc[t]
    BY <1>1 DEF Leave
  <1>3. At(os.cur) \notin {"OS_Sched", "OS_Dummy"}
    OBVIOUS
  <1>4. os.cur \in Live /\ os.cur \in os.list /\ ~Stopping
    BY <1>1, <1>3, OrdinaryRunning DEF Stopping
  <1>5. \A t \in TCBs : At(t) # "OS_Dummy" /\ NextOp(pc'[t]) # "OS_Dummy"
    BY <1>1, <1>2, <1>3, AtNext DEF TInv, Lists
  <1>6. Lists' /\ Live' = Live /\ Live = os.list
    BY <1>1, <1>2, <1>4, <1>5, ListsSame DEF Outside
  <1>7. \A t \in TCBs : pc'[t] = pc[t] \/ GoesOn(t)
    BY <1>2 DEF GoesOn
  <1>8. SamePools(os, os')
    BY <1>2 DEF SamePools, Outside
  <1>9. Pools' /\ Rules' /\ \A t \in TCBs : Steps(pc'[t])
    BY <1>1, <1>2, <1>7, <1>8, StructureKept
  <1>10. Waiting' = Waiting
    <2>1. Waiting[os.cur] = Sched
      <3>1. NextOp(pc[os.cur]) \in CreationOps \cup {"none"}
        BY AtNext DEF CreationOps
      <3> QED
        BY <1>1, <3>1, NextStep DEF Waiting
    <2>2. \A t \in TCBs : WaitOf(pc'[t]) = WaitOf(pc[t])
      BY <1>1, <1>2, <2>1 DEF Waiting
    <2> QED
      BY <2>2 DEF Waiting
  <1>11. Core(os', Live', Waiting')
    <2>1. /\ \A t \in Live : l.tcb[t] = os.tcb[t]
          /\ l.rdy = os.rdy /\ l.event = os.event /\ l.flag = os.flag
          /\ \A p \in Prios : os.prioTbl[p] \in Live => l.prioTbl[p] = os.prioTbl[p]
      BY <1>1, <1>6 DEF Outside, Data
    <2>2. Core(l, Live, Waiting)
      BY <1>1, <2>1, OutsideCore
    <2> QED
      BY <1>2, <1>6, <1>10, <2>2
  <1>12. Running'
    <2>1. SameRunner(os, os')
      BY <1>2, <1>4 DEF Outside, SameRunner, Alike
    <2>2. os'.rdy = os.rdy /\ OS_TASK_IDLE_PRIO \in Members(os'.rdy)
      BY <1>1, <1>2 DEF Outside, TInv, Running
    <2>3. os.cur \in Live'
      BY <1>4, <1>6
    <2> QED
      BY <1>1, <1>2, <1>4, <2>1, <2>2, <2>3, SteadyRunning
  <1> QED
    BY <1>2, <1>6, <1>9, <1>11, <1>12, Assembled

(* Who creates a task goes on doing so. *)
LEMMA OthersCreate ==
  ASSUME TInv, NEW l, l.free = os.free, l.list = os.list, l.tcb = os.tcb, NEW t \in TCBs,
         pc'[t] = pc[t], NextOp(pc'[t]) \in CreationOps, l.prioTbl[Head(pc[t]).prio] = Reserved
  PROVE  CreatesStill(os, l, t)
  BY AtNext DEF CreatesStill, TInv, Creations, Alike

LEMMA LockServed ==
  ASSUME KInv, Inv, OSSchedLock \/ OSSchedUnlock PROVE Inv'
  <1>1. TInv /\ Data(os) /\ DOMAIN os = Fields /\ os.lock \in Nat
    BY DEF Inv, TInv, Data
  <1>2. PICK n \in Nat, steps \in {<<>>, <<Sched>>} :
          (n = 0 => steps = <<Sched>>) /\ Leave([os EXCEPT !.lock = n], steps)
    <2>1. CASE OSSchedLock
      <3>1. os.lock + 1 \in Nat /\ os.lock + 1 # 0 /\ Leave([os EXCEPT !.lock = os.lock + 1], <<>>)
        BY <1>1, <2>1 DEF OSSchedLock
      <3> QED
        BY <3>1
    <2>2. CASE OSSchedUnlock /\ os.lock = 1
      BY <1>1, <2>2 DEF OSSchedUnlock
    <2>3. CASE OSSchedUnlock /\ os.lock # 1
      <3>1. os.lock - 1 \in Nat /\ os.lock - 1 # 0
        BY <1>1, <2>3 DEF OSSchedUnlock
      <3>2. Leave([os EXCEPT !.lock = os.lock - 1], <<>>)
        BY <2>3 DEF OSSchedUnlock
      <3> QED
        BY <3>1, <3>2
    <2> QED
      BY <2>1, <2>2, <2>3
  <1> DEFINE l == [os EXCEPT !.lock = n]
  <1>3. /\ os.running /\ isr = "none" /\ os.cur # Idle /\ At(os.cur) = "none" /\ os.cur \in TCBs
    BY <1>1, TaskCaller DEF OSSchedLock, OSSchedUnlock
  <1>4. /\ Steps(steps) /\ WaitOf(steps) = Sched /\ NextOp(steps) \notin {"OSQCreate", "OS_Dummy"} \cup CreationOps
        /\ steps = <<Sched>> => NextOp(steps) = "OS_Sched"
    BY <1>2, ShortSteps, StepForms
  <1>5. /\ DOMAIN l = Fields /\ l.lock = n /\ l.tcb = os.tcb /\ l.list = os.list /\ l.prioTbl = os.prioTbl
        /\ l.free = os.free /\ l.rdy = os.rdy /\ l.event = os.event /\ l.flag = os.flag
        /\ l.freeEvents = os.freeEvents /\ l.freeFlags = os.freeFlags
        /\ l.running = os.running /\ l.cur = os.cur /\ l.prioCur = os.prioCur
    BY <1>1 DEF Fields
  <1>6. Leave(l, steps)
    BY <1>2
  <1> HIDE DEF l
  <1>7. Data(l) /\ Outside(os, l)
    BY <1>1, <1>5 DEF Data, Outside
  <1>8. Creations'
    <2>1. os' = l /\ \A t \in TCBs : NextOp(pc'[t]) \in CreationOps => pc'[t] = pc[t]
      <3>1. pc' = [pc EXCEPT ![os.cur] = steps] /\ os' = l
        BY <1>3, <1>6 DEF Leave
      <3> QED
        BY <1>1, <1>4, <3>1 DEF TInv
    <2>2. \A t \in TCBs : NextOp(pc'[t]) \in CreationOps => CreatesStill(os, os', t)
      BY <1>1, <1>5, <2>1, OthersCreate, AtNext DEF TInv, Creations
    <2>3. os'.free \in Seq(TCBs \ os'.list) /\ Distinct(os'.free)
      BY <1>1, <1>5, <2>1 DEF TInv, Creations
    <2> QED
      BY <1>1, <2>2, <2>3, CreationsSame
  <1> QED
    BY <1>2, <1>3, <1>4, <1>5, <1>6, <1>7, <1>8, OutsideServed

(* The running task goes on creating a task. *)
LinksOwn(l, s) ==
  LET c == Head(s)
  IN  /\ c.tcb \in TCBs \ l.list /\ l.tcb[c.tcb].prio = c.prio
      /\ Calm(l.tcb[c.tcb]) /\ Fresh(l.tcb[c.tcb])
      /\ \A i \in DOMAIN l.free : l.free[i] # c.tcb

LEMMA CreationsOne ==
  ASSUME TInv, os'.free \in Seq(TCBs \ os'.list), Distinct(os'.free),
         \A t \in TCBs : t # os.cur /\ NextOp(pc'[t]) \in CreationOps =>
           CreatesStill(os, os', t) /\ Head(pc[t]).prio # Head(pc'[os.cur]).prio,
         NextOp(pc'[os.cur]) \in CreationOps, os'.prioTbl[Head(pc'[os.cur]).prio] = Reserved,
         NextOp(pc'[os.cur]) = "link" =>
           /\ LinksOwn(os', pc'[os.cur])
           /\ \A t \in TCBs : t # os.cur /\ At(t) = "link" => Head(pc[t]).tcb # Head(pc'[os.cur]).tcb
  PROVE  Creations'
  <1>1. \A t \in TCBs : NextOp(pc'[t]) \in CreationOps => os'.prioTbl[Head(pc'[t]).prio] = Reserved
    BY DEF CreatesStill
  <1>2. \A t, u \in TCBs : NextOp(pc'[t]) \in CreationOps /\ NextOp(pc'[u]) \in CreationOps
                             /\ Head(pc'[t]).prio = Head(pc'[u]).prio => t = u
    BY DEF CreatesStill, TInv, Creations
  <1>3. \A t \in TCBs : t # os.cur /\ NextOp(pc'[t]) = "link" => At(t) = "link" /\ CreatesStill(os, os', t)
    BY AtNext DEF CreatesStill, CreationOps
  <1>4. ASSUME NEW t \in TCBs, NextOp(pc'[t]) = "link" PROVE LinksOwn(os', pc'[t])
    <2>1. CASE t = os.cur
      BY <1>4, <2>1
    <2>2. CASE t # os.cur
      <3> DEFINE u == Head(pc[t]).tcb
      <3>1. /\ pc'[t] = pc[t] /\ u \notin os'.list /\ Alike(os.tcb[u], os'.tcb[u])
            /\ \A i \in DOMAIN os'.free : os'.free[i] # u
        BY <1>3, <1>4, <2>2 DEF CreatesStill
      <3>2. u \in TCBs /\ os.tcb[u].prio = Head(pc[t]).prio /\ Calm(os.tcb[u]) /\ Fresh(os.tcb[u])
        BY <1>3, <1>4, <2>2 DEF TInv, Creations
      <3>3. os'.tcb[u].prio = Head(pc[t]).prio /\ Calm(os'.tcb[u]) /\ Fresh(os'.tcb[u])
        <4> HIDE DEF u
        <4>1. os'.tcb[u].prio = os.tcb[u].prio
          BY <3>1 DEF Alike
        <4> QED
          BY <3>1, <3>2, <4>1, AlikeTask
      <3> QED
        BY <3>1, <3>2, <3>3 DEF LinksOwn
    <2> QED
      BY <2>1, <2>2
  <1>5. \A t, u \in TCBs : NextOp(pc'[t]) = "link" /\ NextOp(pc'[u]) = "link"
                             /\ Head(pc'[t]).tcb = Head(pc'[u]).tcb => t = u
    BY <1>3 DEF CreatesStill, TInv, Creations
  <1> QED
    BY <1>1, <1>2, <1>4, <1>5 DEF Creations, LinksOwn, At, NextOp

LEMMA OtherSteps ==
  /\ \A p \in Prios : \A op \in {"OS_TCBInit", "rollback"} :
       LET s == <<[op |-> op, prio |-> p]>>
       IN  Steps(s) /\ NextOp(s) = op /\ WaitOf(s) = Sched /\ Head(s).prio = p
  /\ \A p \in Prios, t \in TCBs : \A op \in {"link", "OS_Dummy"} :
       LET s == <<[op |-> op, tcb |-> t, prio |-> p]>>
       IN  Steps(s) /\ NextOp(s) = op /\ WaitOf(s) = Sched /\ Head(s).prio = p /\ Head(s).tcb = t
  <1>1. ASSUME NEW p \in Prios, NEW op \in {"OS_TCBInit", "rollback"}
        PROVE  LET s == <<[op |-> op, prio |-> p]>>
               IN  Steps(s) /\ NextOp(s) = op /\ WaitOf(s) = Sched /\ Head(s).prio = p
    <2> DEFINE w == [op |-> op, prio |-> p]
    <2>1. w \in OtherStep /\ w.op = op /\ w.prio = p
      BY DEF OtherStep
    <2> HIDE DEF w
    <2>2. Steps(<<w>>) /\ NextOp(<<w>>) = op /\ WaitOf(<<w>>) = Sched /\ Head(<<w>>) = w
      BY <2>1, StepForms
    <2>3. Steps(<<w>>) /\ NextOp(<<w>>) = op /\ WaitOf(<<w>>) = Sched /\ Head(<<w>>).prio = p
      BY <2>1, <2>2
    <2> QED
      BY <2>3 DEF w
  <1>2. ASSUME NEW p \in Prios, NEW t \in TCBs, NEW op \in {"link", "OS_Dummy"}
        PROVE  LET s == <<[op |-> op, tcb |-> t, prio |-> p]>>
               IN  Steps(s) /\ NextOp(s) = op /\ WaitOf(s) = Sched /\ Head(s).prio = p /\ Head(s).tcb = t
    <2> DEFINE w == [op |-> op, tcb |-> t, prio |-> p]
    <2>1. w \in OtherStep /\ w.op = op /\ w.prio = p /\ w.tcb = t
      BY DEF OtherStep
    <2> HIDE DEF w
    <2>2. Steps(<<w>>) /\ NextOp(<<w>>) = op /\ WaitOf(<<w>>) = Sched /\ Head(<<w>>) = w
      BY <2>1, StepForms
    <2>3. Steps(<<w>>) /\ NextOp(<<w>>) = op /\ WaitOf(<<w>>) = Sched /\ Head(<<w>>).prio = p /\ Head(<<w>>).tcb = t
      BY <2>1, <2>2
    <2> QED
      BY <2>3 DEF w
  <1> QED
    BY <1>1, <1>2

LEMMA CreateServed ==
  ASSUME KInv, Inv, NEW c, AtTask(c), NEW prio \in Prios, Create(prio) PROVE Inv'
  <1> DEFINE steps == <<[op |-> "OS_TCBInit", prio |-> prio]>>
             l == [os EXCEPT !.prioTbl[prio] = Reserved]
  <1>1. TInv /\ Data(os) /\ DOMAIN pc = TCBs /\ \A t \in TCBs : Steps(pc[t])
    BY DEF Inv, TInv
  <1>2. /\ os.running /\ isr = "none" /\ os.cur # Idle /\ At(os.cur) = "none" /\ os.cur \in TCBs
    BY <1>1, TaskCaller
  <1>3. /\ Steps(steps) /\ NextOp(steps) = "OS_TCBInit" /\ WaitOf(steps) = Sched /\ Head(steps).prio = prio
    BY OtherSteps
  <1>4. os.prioTbl[prio] = None /\ Leave(l, steps)
    BY DEF Create
  <1> HIDE DEF steps
  <1>5. /\ DOMAIN l = Fields /\ l.lock = os.lock /\ l.tcb = os.tcb /\ l.list = os.list
        /\ l.free = os.free /\ l.rdy = os.rdy /\ l.event = os.event /\ l.flag = os.flag
        /\ l.freeEvents = os.freeEvents /\ l.freeFlags = os.freeFlags
        /\ l.running = os.running /\ l.cur = os.cur /\ l.prioCur = os.prioCur
        /\ DOMAIN l.prioTbl = Prios /\ l.prioTbl[prio] = Reserved
        /\ \A q \in Prios : q # prio => l.prioTbl[q] = os.prioTbl[q]
    BY <1>1 DEF Data, Fields
  <1> HIDE DEF l
  <1>6. /\ Data(l) /\ Outside(os, l)
    <2>1. None \notin TCBs /\ Reserved \notin TCBs
      BY NullAssumption
    <2>2. Data(l)
      BY <1>1, <1>5 DEF Data
    <2>3. \A p \in Prios : os.prioTbl[p] \in TCBs \/ l.prioTbl[p] \in TCBs => l.prioTbl[p] = os.prioTbl[p]
      BY <1>4, <1>5, <2>1
    <2> QED
      BY <1>5, <2>2, <2>3 DEF Outside
  <1>7. /\ os' = l /\ pc'[os.cur] = steps /\ \A t \in TCBs : t # os.cur => pc'[t] = pc[t]
    BY <1>1, <1>2, <1>4 DEF Leave
  <1>8. Creations'
    <2>1. ASSUME NEW t \in TCBs, t # os.cur, NextOp(pc'[t]) \in CreationOps
          PROVE  CreatesStill(os, os', t) /\ Head(pc[t]).prio # prio
      <3>1. pc'[t] = pc[t] /\ At(t) \in CreationOps
        BY <1>7, <2>1, AtNext
      <3>2. Head(pc[t]).prio \in Prios
        BY <1>1, <3>1, AtNext, NextStep
      <3>3. os.prioTbl[Head(pc[t]).prio] = Reserved /\ Reserved # None
        BY <1>1, <3>1, NullAssumption DEF TInv, Creations
      <3>4. Head(pc[t]).prio # prio /\ l.prioTbl[Head(pc[t]).prio] = Reserved
        BY <1>4, <1>5, <3>2, <3>3
      <3> QED
        BY <1>1, <1>5, <1>7, <2>1, <3>1, <3>4, OthersCreate
    <2>2. os'.free \in Seq(TCBs \ os'.list) /\ Distinct(os'.free)
      BY <1>1, <1>5, <1>7 DEF TInv, Creations
    <2>3. NextOp(pc'[os.cur]) \in CreationOps /\ NextOp(pc'[os.cur]) # "link" /\ Head(pc'[os.cur]).prio = prio
      BY <1>3, <1>7 DEF CreationOps
    <2> QED
      BY <1>1, <1>5, <1>7, <2>1, <2>2, <2>3, CreationsOne
  <1> QED
    BY <1>2, <1>3, <1>4, <1>5, <1>6, <1>8, OutsideServed

LEMMA RollbackServed ==
  ASSUME KInv, Inv, OSTaskCreate_Failed PROVE Inv'
  <1> DEFINE p == Now.prio
             l == [os EXCEPT !.prioTbl[p] = None]
  <1>1. TInv /\ Data(os) /\ DOMAIN pc = TCBs /\ \A t \in TCBs : Steps(pc[t])
    BY DEF Inv, TInv
  <1>2. Step("rollback") /\ Leave(l, <<>>)
    BY <1>1, StepCaller, NextStep DEF OSTaskCreate_Failed
  <1>3. /\ os.running /\ isr = "none" /\ At(os.cur) = "rollback" /\ os.cur \in TCBs /\ os.cur # Idle
        /\ Steps(pc[os.cur]) /\ NextOp(pc[os.cur]) = "rollback" /\ Now = Head(pc[os.cur])
    BY <1>1, <1>2, StepCaller
  <1>4. "rollback" \in CreationOps
    BY DEF CreationOps
  <1>5. p \in Prios /\ os.prioTbl[p] = Reserved
    BY <1>1, <1>3, <1>4, NextStep DEF TInv, Creations
  <1>6. Head(pc[os.cur]).prio = p
    BY <1>3
  <1> HIDE DEF p
  <1>7. /\ DOMAIN l = Fields /\ l.lock = os.lock /\ l.tcb = os.tcb /\ l.list = os.list
        /\ l.free = os.free /\ l.rdy = os.rdy /\ l.event = os.event /\ l.flag = os.flag
        /\ l.freeEvents = os.freeEvents /\ l.freeFlags = os.freeFlags
        /\ l.running = os.running /\ l.cur = os.cur /\ l.prioCur = os.prioCur
        /\ DOMAIN l.prioTbl = Prios /\ l.prioTbl[p] = None
        /\ \A q \in Prios : q # p => l.prioTbl[q] = os.prioTbl[q]
    BY <1>1, <1>5 DEF Data, Fields
  <1> HIDE DEF l
  <1>8. /\ Data(l) /\ Outside(os, l)
    <2>1. None \notin TCBs /\ Reserved \notin TCBs
      BY NullAssumption
    <2>2. Data(l)
      BY <1>1, <1>7 DEF Data
    <2>3. \A q \in Prios : os.prioTbl[q] \in TCBs \/ l.prioTbl[q] \in TCBs => l.prioTbl[q] = os.prioTbl[q]
      BY <1>5, <1>7, <2>1
    <2> QED
      BY <1>7, <2>2, <2>3 DEF Outside
  <1>9. /\ os' = l /\ pc'[os.cur] = <<>> /\ \A t \in TCBs : t # os.cur => pc'[t] = pc[t]
    BY <1>1, <1>2, <1>3 DEF Leave
  <1>10. Steps(<<>>) /\ NextOp(<<>>) = "none" /\ WaitOf(<<>>) = Sched
    BY StepForms
  <1>11. Creations'
    <2>1. ASSUME NEW t \in TCBs, NextOp(pc'[t]) \in CreationOps PROVE CreatesStill(os, os', t)
      <3>1. t # os.cur
        BY <1>9, <1>10, <2>1 DEF CreationOps
      <3>2. pc'[t] = pc[t] /\ At(t) \in CreationOps
        BY <1>9, <2>1, <3>1, AtNext
      <3>3. Head(pc[t]).prio \in Prios
        BY <1>1, <3>2, AtNext, NextStep
      <3>4. os.prioTbl[Head(pc[t]).prio] = Reserved /\ Head(pc[t]).prio # p
        BY <1>1, <1>3, <1>4, <1>6, <3>1, <3>2 DEF TInv, Creations
      <3>5. l.prioTbl[Head(pc[t]).prio] = Reserved
        BY <1>7, <3>3, <3>4
      <3> QED
        BY <1>1, <1>7, <1>9, <2>1, <3>2, <3>5, OthersCreate
    <2>2. os'.free \in Seq(TCBs \ os'.list) /\ Distinct(os'.free)
      BY <1>1, <1>7, <1>9 DEF TInv, Creations
    <2> QED
      BY <1>1, <2>1, <2>2, CreationsSame
  <1> QED
    BY <1>2, <1>3, <1>7, <1>8, <1>10, <1>11, OutsideServed

(* With or without a control block. *)
LEMMA TCBInitServed ==
  ASSUME KInv, Inv, OS_TCBInit PROVE Inv'
  <1> DEFINE p == Now.prio
             t == Head(os.free)
             x == [NewTCB(p) EXCEPT !.flagsRdy = os.tcb[t].flagsRdy]
             m == [os EXCEPT !.free = Tail(@), !.tcb[t] = x]
             back == <<[op |-> "rollback", prio |-> p]>>
             link == <<[op |-> "link", tcb |-> t, prio |-> p]>>
  <1>1. TInv /\ Data(os) /\ DOMAIN pc = TCBs /\ (\A u \in TCBs : Steps(pc[u])) /\ DOMAIN os = Fields
    BY DEF Inv, TInv, Data
  <1>2. Step("OS_TCBInit")
    BY DEF OS_TCBInit
  <1>3. /\ os.running /\ isr = "none" /\ At(os.cur) = "OS_TCBInit" /\ os.cur \in TCBs /\ os.cur # Idle
        /\ Steps(pc[os.cur]) /\ NextOp(pc[os.cur]) = "OS_TCBInit" /\ Now = Head(pc[os.cur])
    BY <1>1, <1>2, StepCaller
  <1>4. "OS_TCBInit" \in CreationOps /\ "rollback" \in CreationOps /\ "link" \in CreationOps
    BY DEF CreationOps
  <1>5. p \in Prios /\ os.prioTbl[p] = Reserved /\ Head(pc[os.cur]).prio = p
    BY <1>1, <1>3, <1>4, NextStep DEF TInv, Creations
  <1>6. \A s : Leave(os, s) \/ Leave(m, s) =>
          /\ pc'[os.cur] = s /\ \A u \in TCBs : u # os.cur => pc'[u] = pc[u]
    BY <1>1, <1>3 DEF Leave
  <1>7. \A u \in TCBs : u # os.cur /\ At(u) \in CreationOps =>
          Head(pc[u]).prio # p /\ os.prioTbl[Head(pc[u]).prio] = Reserved
    BY <1>1, <1>3, <1>4, <1>5 DEF TInv, Creations
  <1>8. os.free \in Seq(TCBs \ os.list) /\ Distinct(os.free)
    BY <1>1 DEF TInv, Creations
  <1>9. CASE os.free = <<>>
    <2>1. Leave(os, back)
      BY <1>9 DEF OS_TCBInit
    <2>2. /\ Steps(back) /\ NextOp(back) = "rollback" /\ WaitOf(back) = Sched /\ Head(back).prio = p
      BY <1>5, OtherSteps
    <2> HIDE DEF p, back
    <2>3. Outside(os, os)
      BY <1>1 DEF Outside
    <2>4. os' = os
      BY <2>1 DEF Leave
    <2>5. Creations'
      <3>1. ASSUME NEW u \in TCBs, u # os.cur, NextOp(pc'[u]) \in CreationOps
            PROVE  CreatesStill(os, os', u) /\ Head(pc[u]).prio # p
        <4>1. pc'[u] = pc[u] /\ At(u) \in CreationOps
          BY <1>6, <2>1, <3>1, AtNext
        <4> QED
          BY <1>1, <1>7, <2>4, <3>1, <4>1, OthersCreate
      <3>2. pc'[os.cur] = back
        BY <1>6, <2>1
      <3> QED
        BY <1>1, <1>4, <1>5, <1>8, <2>2, <2>4, <3>1, <3>2, CreationsOne
    <2> QED
      BY <1>1, <1>3, <2>1, <2>2, <2>3, <2>5, OutsideServed
  <1>10. CASE os.free # <<>>
    <2>1. Leave(m, link)
      BY <1>10 DEF OS_TCBInit
    <2>2. /\ t \in TCBs \ os.list /\ Tail(os.free) \in Seq(TCBs \ os.list) /\ Distinct(Tail(os.free))
          /\ \A i \in DOMAIN Tail(os.free) : Tail(os.free)[i] # t /\ \E j \in DOMAIN os.free : Tail(os.free)[i] = os.free[j]
          /\ \E j \in DOMAIN os.free : t = os.free[j]
      BY <1>8, <1>10, TailFree
    <2>3. /\ Steps(link) /\ NextOp(link) = "link" /\ WaitOf(link) = Sched
          /\ Head(link).prio = p /\ Head(link).tcb = t
      BY <1>5, <2>2, OtherSteps
    <2>4. DOMAIN x = TCBFields /\ x.prio = p /\ Calm(x) /\ Fresh(x)
      BY DEF NewTCB, TCBFields, Calm, Fresh
    <2> HIDE DEF p, t, x, link
    <2>5. /\ DOMAIN m = Fields /\ m.lock = os.lock /\ m.list = os.list /\ m.prioTbl = os.prioTbl
          /\ m.free = Tail(os.free) /\ m.rdy = os.rdy /\ m.event = os.event /\ m.flag = os.flag
          /\ m.freeEvents = os.freeEvents /\ m.freeFlags = os.freeFlags
          /\ m.running = os.running /\ m.cur = os.cur /\ m.prioCur = os.prioCur
          /\ DOMAIN m.tcb = TCBs /\ m.tcb[t] = x /\ \A u \in TCBs : u # t => m.tcb[u] = os.tcb[u]
      BY <1>1, <2>2 DEF Data, Fields
    <2>6. os' = m /\ pc'[os.cur] = link /\ \A u \in TCBs : u # os.cur => pc'[u] = pc[u]
      BY <1>6, <2>1 DEF Leave
    <2> HIDE DEF m
    <2>7. Data(m) /\ Outside(os, m)
      <3>1. \A u \in TCBs : DOMAIN m.tcb[u] = TCBFields /\ m.tcb[u].prio \in Prios
        BY <1>1, <1>5, <2>4, <2>5 DEF Data
      <3>2. Data(m)
        BY <1>1, <2>5, <3>1 DEF Data
      <3>3. \A u \in os.list : m.tcb[u] = os.tcb[u]
        BY <1>1, <2>2, <2>5 DEF Data
      <3> QED
        BY <2>5, <3>2, <3>3 DEF Outside
    <2>8. \A u \in TCBs : At(u) = "link" => /\ Head(pc[u]).tcb \in TCBs \ os.list
                                            /\ \A i \in DOMAIN os.free : os.free[i] # Head(pc[u]).tcb
      BY <1>1 DEF TInv, Creations
    <2>9. Creations'
      <3>1. ASSUME NEW u \in TCBs, u # os.cur, NextOp(pc'[u]) \in CreationOps
            PROVE  CreatesStill(os, os', u) /\ Head(pc[u]).prio # p
        <4>1. pc'[u] = pc[u] /\ At(u) \in CreationOps
          BY <2>6, <3>1, AtNext
        <4>2. os'.prioTbl[Head(pc[u]).prio] = Reserved /\ Head(pc[u]).prio # p
          BY <1>7, <2>5, <2>6, <3>1, <4>1
        <4>3. ASSUME At(u) = "link", NEW v, v = Head(pc[u]).tcb
              PROVE  /\ v \notin os'.list /\ os'.tcb[v] = os.tcb[v]
                     /\ \A i \in DOMAIN os'.free : os'.free[i] # v
          <5>1. v \in TCBs /\ v \notin os.list /\ \A i \in DOMAIN os.free : os.free[i] # v
            BY <2>8, <4>3
          <5>2. v # t
            BY <2>2, <5>1
          <5>3. \A i \in DOMAIN Tail(os.free) : Tail(os.free)[i] # v
            BY <2>2, <5>1
          <5> QED
            BY <2>5, <2>6, <5>1, <5>2, <5>3
        <4> QED
          BY <4>1, <4>2, <4>3 DEF CreatesStill, Alike
      <3>2. LinksOwn(os', link)
        BY <2>2, <2>3, <2>4, <2>5, <2>6 DEF LinksOwn
      <3>3. \A u \in TCBs : At(u) = "link" => Head(pc[u]).tcb # t
        BY <2>2, <2>8
      <3>4. os'.free \in Seq(TCBs \ os'.list) /\ Distinct(os'.free)
        BY <2>2, <2>5, <2>6
      <3>5. /\ NextOp(pc'[os.cur]) \in CreationOps /\ LinksOwn(os', pc'[os.cur])
            /\ Head(pc'[os.cur]).prio = p /\ Head(pc'[os.cur]).tcb = t /\ os'.prioTbl[p] = Reserved
        BY <1>4, <1>5, <2>3, <2>5, <2>6, <3>2
      <3> QED
        BY <1>1, <3>1, <3>3, <3>4, <3>5, CreationsOne
    <2> QED
      BY <1>1, <1>3, <2>1, <2>3, <2>5, <2>7, <2>9, OutsideServed
  <1> QED
    BY <1>9, <1>10

LEMMA LinkServed ==
  ASSUME KInv, Inv, OS_TCBInit_Link PROVE Inv'
  <1> DEFINE p == Now.prio
             t == Now.tcb
  <1>1. /\ TInv /\ Rules /\ Data(os) /\ Core(os, Live, Waiting) /\ DOMAIN pc = TCBs
        /\ \A u \in TCBs : Steps(pc[u])
    BY DEF Inv, TInv
  <1>2. Step("link") /\ os' = LinkIn(os, t, p) /\ isr' = isr /\ app' = app
        /\ pc' = [pc EXCEPT ![os.cur] = <<Sched>>, ![t] = <<>>]
    BY DEF OS_TCBInit_Link, LinkIn
  <1>3. /\ os.running /\ isr = "none" /\ At(os.cur) = "link" /\ os.cur \in TCBs /\ os.cur # Idle
        /\ Steps(pc[os.cur]) /\ NextOp(pc[os.cur]) = "link" /\ Now = Head(pc[os.cur])
        /\ Waiting[os.cur] = WaitOf(pc[os.cur])
    BY <1>1, <1>2, StepCaller
  <1>4. "link" \in CreationOps
    BY DEF CreationOps
  <1>5. p \in Prios /\ t \in TCBs /\ Waiting[os.cur] = Sched
    BY <1>3, <1>4, NextStep
  <1>6. /\ Head(pc[os.cur]).prio = p /\ Head(pc[os.cur]).tcb = t
        /\ os.prioTbl[p] = Reserved /\ t \notin os.list /\ os.tcb[t].prio = p
        /\ Calm(os.tcb[t]) /\ Fresh(os.tcb[t]) /\ \A i \in DOMAIN os.free : os.free[i] # t
    BY <1>1, <1>3, <1>4 DEF TInv, Creations
  <1> HIDE DEF p, t
  <1>7. os.cur \in Live /\ os.cur \in os.list /\ ~Stopping
    BY <1>1, <1>3, OrdinaryRunning DEF Stopping
  <1>8. t # os.cur /\ t # Idle
    BY <1>1, <1>6, <1>7 DEF TInv, Lists
  <1>9. /\ DOMAIN pc' = TCBs /\ pc'[os.cur] = <<Sched>> /\ pc'[t] = <<>>
        /\ \A u \in TCBs : u # os.cur /\ u # t => pc'[u] = pc[u]
    BY <1>1, <1>2, <1>3, <1>5, <1>8
  <1>10. /\ Steps(<<>>) /\ NextOp(<<>>) = "none" /\ WaitOf(<<>>) = Sched
         /\ Steps(<<Sched>>) /\ NextOp(<<Sched>>) = "OS_Sched" /\ WaitOf(<<Sched>>) = Sched
    BY StepForms
  <1>11. \A u \in TCBs : At(u) # "OS_Dummy" /\ NextOp(pc'[u]) # "OS_Dummy"
    BY <1>1, <1>3, <1>9, <1>10, AtNext DEF TInv, Lists
  <1>12. BeingDeleted = {} /\ BeingDeleted' = {}
    BY <1>11 DEF BeingDeleted, At, NextOp
  <1>13. \A u \in TCBs : pc'[u] = pc[u] \/ GoesOn(u)
    BY <1>9, <1>10 DEF GoesOn
  <1>14. Waiting'[t] = Sched /\ \A u \in TCBs : u # t => Waiting'[u] = Waiting[u]
    BY <1>3, <1>5, <1>9, <1>10 DEF Waiting
  <1>15. Data(os') /\ Linked(os, os', t, p) /\ Live = os.list
         /\ \A u : u \in os'.list <=> u \in os.list \/ u = t
    <2>1. Data(os') /\ Linked(os, os', t, p)
      BY <1>1, <1>2, <1>5, <1>6, LinkShape
    <2> QED
      BY <1>12, <2>1 DEF Live, Linked
  <1>16. \A u : u \in Live' <=> u \in Live \/ u = t
    BY <1>12, <1>15 DEF Live
  <1>17. Core(os', Live', Waiting')
    <2> DEFINE L == Live
               M == Live'
               w == Waiting
               v == Waiting'
               l == os'
    <2>1. t \notin L /\ \A u \in L : v[u] = w[u]
      BY <1>1, <1>6, <1>14, <1>15 DEF Core
    <2>2. /\ Data(os) /\ Core(os, L, w) /\ v[t] = Sched /\ l = LinkIn(os, t, p)
          /\ \A u : u \in M <=> u \in L \/ u = t
      BY <1>1, <1>2, <1>14, <1>16
    <2> HIDE DEF L, M, w, v, l
    <2>3. Core(l, M, v)
      BY <1>5, <1>6, <2>1, <2>2, LinkCore
    <2> QED
      BY <2>3 DEF L, M, w, v, l
  <1>18. SamePools(os, os')
    BY <1>15 DEF Linked, SamePools
  <1>19. Pools' /\ Rules' /\ \A u \in TCBs : Steps(pc'[u])
    BY <1>1, <1>2, <1>9, <1>13, <1>18, StructureKept
  <1>20. Lists'
    <2>1. Reserved \notin TCBs
      BY NullAssumption
    <2>2. Idle \in os.list /\ os.tcb[Idle].prio = OS_TASK_IDLE_PRIO /\ pc[Idle] = <<>> /\ os.list \subseteq TCBs
      BY <1>1 DEF TInv, Lists, Data
    <2>3. /\ Idle \in os'.list /\ os'.tcb[Idle].prio = OS_TASK_IDLE_PRIO /\ pc'[Idle] = <<>>
      BY <1>3, <1>8, <1>9, <1>15, <2>2 DEF Linked
    <2>4. ASSUME NEW u \in os'.list PROVE os'.prioTbl[os'.tcb[u].prio] = u
      <3>1. CASE u = t
        BY <1>6, <1>15, <3>1 DEF Linked
      <3>2. CASE u # t
        <4>1. u \in os.list /\ os.prioTbl[os.tcb[u].prio] = u /\ os.tcb[u].prio \in Prios
          BY <1>1, <1>15, <2>2, <2>4, <3>2 DEF TInv, Lists, Data
        <4>2. os.tcb[u].prio # p
          BY <1>6, <2>1, <2>2, <4>1
        <4> QED
          BY <1>15, <4>1, <4>2 DEF Linked
      <3> QED
        BY <3>1, <3>2
    <2>5. ASSUME NEW q \in Prios, os'.prioTbl[q] \in TCBs
          PROVE  os'.prioTbl[q] \in os'.list /\ (~UsesMutexes(app') => os'.tcb[os'.prioTbl[q]].prio = q)
      <3>1. CASE q = p
        BY <1>6, <1>15, <3>1 DEF Linked
      <3>2. CASE q # p
        BY <1>1, <1>2, <1>15, <2>5, <3>2 DEF Linked, TInv, Lists
      <3> QED
        BY <3>1, <3>2
    <2>6. \A u \in TCBs \ os'.list : NextOp(pc'[u]) \in {"none", "OS_Sched"} /\ Waiting'[u] = Sched
      BY <1>1, <1>7, <1>9, <1>14, <1>15, AtNext DEF TInv, Lists
    <2> QED
      BY <1>11, <2>3, <2>4, <2>5, <2>6 DEF Lists, At, NextOp
  <1>21. Creations'
    <2>1. \A u \in TCBs : u # os.cur /\ At(u) \in CreationOps =>
            Head(pc[u]).prio # p /\ os.prioTbl[Head(pc[u]).prio] = Reserved /\ Head(pc[u]).prio \in Prios
      <3>1. \A u \in TCBs : At(u) \in CreationOps => Head(pc[u]).prio \in Prios
        BY <1>1, AtNext, NextStep
      <3> QED
        BY <1>1, <1>3, <1>4, <1>6, <3>1 DEF TInv, Creations
    <2>2. \A u \in TCBs : At(u) = "link" => /\ Head(pc[u]).tcb \in TCBs \ os.list
                                            /\ u # os.cur => Head(pc[u]).tcb # t
                                            /\ \A i \in DOMAIN os.free : os.free[i] # Head(pc[u]).tcb
      BY <1>1, <1>3, <1>6 DEF TInv, Creations
    <2>3. ASSUME NEW u \in TCBs, NextOp(pc'[u]) \in CreationOps PROVE CreatesStill(os, os', u)
      <3>1. u # os.cur /\ u # t
        BY <1>9, <1>10, <2>3 DEF CreationOps
      <3>2. pc'[u] = pc[u] /\ At(u) \in CreationOps
        BY <1>9, <2>3, <3>1, AtNext
      <3>3. os'.prioTbl[Head(pc[u]).prio] = Reserved
        BY <1>15, <2>1, <3>1, <3>2 DEF Linked
      <3>4. ASSUME At(u) = "link", NEW v, v = Head(pc[u]).tcb
            PROVE  /\ v \notin os'.list /\ os'.tcb[v] = os.tcb[v]
                   /\ \A i \in DOMAIN os'.free : os'.free[i] # v
        BY <1>15, <2>2, <3>1, <3>4 DEF Linked
      <3> QED
        BY <3>2, <3>3, <3>4 DEF CreatesStill, Alike
    <2>4. os'.free \in Seq(TCBs \ os'.list) /\ Distinct(os'.free)
      <3>1. os.free \in Seq(TCBs \ os.list) /\ Distinct(os.free) /\ os'.free = os.free
        BY <1>1, <1>15 DEF TInv, Creations, Linked
      <3>2. \A i \in DOMAIN os.free : os.free[i] \in TCBs \ os'.list
        BY <1>6, <1>15, <3>1
      <3> QED
        BY <3>1, <3>2
    <2> QED
      BY <1>1, <2>3, <2>4, CreationsSame
  <1>22. Running'
    <2>1. SameRunner(os, os')
      BY <1>15 DEF Linked, SameRunner, Alike
    <2>2. OS_TASK_IDLE_PRIO \in Members(os'.rdy)
      BY <1>1, <1>15, MembersPrios DEF Linked, TInv, Running
    <2>3. os.cur \in Live' /\ NextOp(pc'[os.cur]) = "OS_Sched"
      BY <1>7, <1>9, <1>10, <1>16
    <2> QED
      BY <1>1, <1>2, <1>3, <1>7, <2>1, <2>2, <2>3, SteadyRunning
  <1> QED
    BY <1>9, <1>15, <1>17, <1>19, <1>20, <1>21, <1>22, Assembled

(***************************************************************************)
(* Deletion.                                                               *)
(***************************************************************************)
DelIn(k, t) == [Drop(k, t) EXCEPT !.lock = @ + 1]

LEMMA DelInIs ==
  ASSUME NEW k, DOMAIN k = Fields, NEW t, NEW E, E = k.tcb[t].multi \cup ({k.tcb[t].event} \ {None}),
         NEW apart, apart = OS_EventTaskRemoveMulti(MakeUnready(k, {t}), [u \in {t} |-> E])
  PROVE  [OS_FlagUnlink(apart, t) EXCEPT
            !.tcb[t].dly = 0, !.tcb[t].stat = {}, !.tcb[t].pend = "OK", !.lock = @ + 1]
           = DelIn(k, t)
  <1> DEFINE m == OS_FlagUnlink(apart, t)
  <1>1. Drop(k, t) = [m EXCEPT !.tcb[t].dly = 0, !.tcb[t].stat = {}, !.tcb[t].pend = "OK"]
    BY DEF Drop
  <1>2. DOMAIN m = Fields
    BY DEF OS_FlagUnlink, OS_EventTaskRemoveMulti, MakeUnready
  <1> HIDE DEF m
  <1>3. [m EXCEPT !.tcb[t].dly = 0, !.tcb[t].stat = {}, !.tcb[t].pend = "OK", !.lock = @ + 1]
          = [[m EXCEPT !.tcb[t].dly = 0, !.tcb[t].stat = {}, !.tcb[t].pend = "OK"] EXCEPT !.lock = @ + 1]
    BY <1>2 DEF Fields
  <1> QED
    BY <1>1, <1>3 DEF DelIn, m

LEMMA DelTaskServed ==
  ASSUME Ruled, KInv, Inv, NEW prio \in Prios, OSTaskDel(prio) PROVE Inv'
  <1> DEFINE t == Task(os, prio)
             m == Drop(os, t)
             l == DelIn(os, t)
             steps == <<[op |-> "OS_Dummy", tcb |-> t, prio |-> prio]>>
  <1>1. /\ TInv /\ Rules /\ Data(os) /\ Core(os, Live, Waiting) /\ DOMAIN pc = TCBs /\ DOMAIN os = Fields
        /\ \A u \in TCBs : Steps(pc[u])
    BY DEF Inv, TInv, Data
  <1>2. /\ AtTask("OSTaskDel") /\ prio # OS_TASK_IDLE_PRIO /\ Exists(prio)
        /\ t = os.cur => os.lock = 0
        /\ pc[t] # <<>> => Head(pc[t]).op \in {"OS_Sched", "pend", "multi", "flag"}
        /\ Leave(l, steps)
    BY <1>1, DelInIs DEF OSTaskDel
  <1>3. /\ os.running /\ isr = "none" /\ At(os.cur) = "none" /\ os.cur \in TCBs /\ os.cur # Idle
        /\ BeingDeleted = {} /\ Live = os.list /\ os.cur \in Live /\ Waiting[os.cur] = Sched
    BY <1>1, <1>2, TaskCaller
  <1>4. /\ t \in TCBs /\ t \in os.list /\ t \in Live /\ os.prioTbl[prio] = t /\ os.tcb[t].prio = prio /\ t # Idle
    BY <1>2, <1>3, TaskOf
  <1>5. /\ Steps(steps) /\ NextOp(steps) = "OS_Dummy" /\ WaitOf(steps) = Sched
        /\ Head(steps).prio = prio /\ Head(steps).tcb = t
    BY <1>4, OtherSteps
  <1>6. /\ os' = l /\ DOMAIN pc' = TCBs /\ app' = app /\ pc'[os.cur] = steps /\ isr' = "none"
        /\ \A u \in TCBs : u # os.cur => pc'[u] = pc[u]
    BY <1>1, <1>2, <1>3 DEF Leave
  <1>7. At(t) \in {"none", "OS_Sched"} \cup WaitOps
    BY <1>2 DEF At, WaitOps
  <1> HIDE DEF t, steps
  <1>8. \A u \in TCBs : At(u) # "OS_Dummy" /\ (NextOp(pc'[u]) = "OS_Dummy" <=> u = os.cur)
    BY <1>1, <1>3, <1>5, <1>6, AtNext DEF TInv, Lists
  <1>9. \A u : u \in BeingDeleted' <=> u = t
    <2>1. BeingDeleted' = {v \in TCBs : \E u \in TCBs : NextOp(pc'[u]) = "OS_Dummy" /\ Head(pc'[u]).tcb = v}
      BY DEF BeingDeleted, NextOp
    <2> QED
      BY <1>3, <1>4, <1>5, <1>6, <1>8, <2>1
  <1>10. Waiting' = Waiting
    <2>1. \A u \in TCBs : WaitOf(pc'[u]) = WaitOf(pc[u])
      BY <1>3, <1>5, <1>6 DEF Waiting
    <2> QED
      BY <2>1 DEF Waiting
  <1>11. DOMAIN m = Fields
    BY <1>1 DEF Drop, OS_FlagUnlink, OS_EventTaskRemoveMulti, MakeUnready
  <1>12. l = [m EXCEPT !.lock = @ + 1] /\ m = Drop(os, t)
    BY DEF DelIn
  <1> HIDE DEF m, l
  <1>13. /\ DOMAIN l = Fields /\ l.tcb = m.tcb /\ l.list = m.list /\ l.prioTbl = m.prioTbl
         /\ l.free = m.free /\ l.rdy = m.rdy /\ l.event = m.event /\ l.flag = m.flag
         /\ l.freeEvents = m.freeEvents /\ l.freeFlags = m.freeFlags
         /\ l.running = m.running /\ l.cur = m.cur /\ l.prioCur = m.prioCur /\ l.lock = m.lock + 1
    BY <1>11, <1>12 DEF Fields
  <1> DEFINE M == {u \in Live : u # t}
  <1>14. DropDone(os, m, M, Waiting, t)
    <2>1. \A u : u \in M <=> u \in Live /\ u # t
      OBVIOUS
    <2> HIDE DEF M
    <2> QED
      BY <1>1, <1>4, <1>12, <2>1, DropCore
  <1>15. /\ Data(m) /\ Elsewhere(os, m, Only(t)) /\ SamePools(os, m) /\ Core(m, M, Waiting)
         /\ Calm(m.tcb[t])
         /\ \A q \in Prios : q # os.tcb[t].prio => (q \in Members(m.rdy) <=> q \in Members(os.rdy))
    BY <1>14 DEF DropDone
  <1>16. /\ l.list = os.list /\ l.prioTbl = os.prioTbl /\ l.free = os.free /\ l.cur = os.cur
         /\ l.lock = os.lock + 1 /\ l.prioCur = os.prioCur /\ l.running = os.running
         /\ \A u \in TCBs : l.tcb[u].prio = os.tcb[u].prio
         /\ \A u \in TCBs : u # t => Alike(os.tcb[u], l.tcb[u])
         /\ os.lock \in Nat /\ l.lock \in Nat /\ l.lock > 0
    BY <1>1, <1>13, <1>15 DEF Elsewhere, Only, Data
  <1>17. Live' = M
    BY <1>3, <1>6, <1>9, <1>16 DEF Live
  <1>18. Core(os', Live', Waiting')
    <2>1. Core(l, M, Waiting)
      <3> HIDE DEF M
      <3>1. /\ \A u \in M : l.tcb[u] = m.tcb[u]
            /\ \A p \in Prios : m.prioTbl[p] \in M => l.prioTbl[p] = m.prioTbl[p]
        BY <1>13
      <3> QED
        BY <1>13, <1>15, <3>1, OutsideCore
    <2> QED
      BY <1>6, <1>10, <1>17, <2>1
  <1>19. Data(os')
    BY <1>6, <1>13, <1>15, <1>16 DEF Data
  <1>20. SamePools(os, os')
    BY <1>6, <1>13, <1>15 DEF SamePools
  <1>21. Pools' /\ Rules' /\ \A u \in TCBs : Steps(pc'[u])
    <2>1. \A u \in TCBs : pc'[u] = pc[u] \/ GoesOn(u)
      BY <1>5, <1>6 DEF GoesOn
    <2> QED
      BY <1>1, <1>6, <1>20, <2>1, StructureKept
  <1>22. Lists'
    <2>1. Idle \in os.list /\ os.tcb[Idle].prio = OS_TASK_IDLE_PRIO /\ pc[Idle] = <<>> /\ os.list \subseteq TCBs
      BY <1>1 DEF TInv, Lists, Data
    <2>2. /\ Idle \in os'.list /\ os'.tcb[Idle].prio = OS_TASK_IDLE_PRIO /\ pc'[Idle] = <<>>
      BY <1>3, <1>6, <1>16, <2>1
    <2>3. \A u \in os'.list : os'.prioTbl[os'.tcb[u].prio] = u
      BY <1>1, <1>6, <1>16, <2>1 DEF TInv, Lists
    <2>4. \A q \in Prios : os'.prioTbl[q] \in TCBs =>
            os'.prioTbl[q] \in os'.list /\ (~UsesMutexes(app') => os'.tcb[os'.prioTbl[q]].prio = q)
      BY <1>1, <1>6, <1>16 DEF TInv, Lists
    <2>5. \A u \in TCBs \ os'.list : NextOp(pc'[u]) \in {"none", "OS_Sched"} /\ Waiting'[u] = Sched
      BY <1>1, <1>3, <1>6, <1>10, <1>16, AtNext DEF TInv, Lists
    <2>6. ASSUME NEW u \in TCBs, NextOp(pc'[u]) = "OS_Dummy"
          PROVE  LET d == Head(pc'[u])
                 IN  /\ u = os'.cur /\ os'.lock > 0 /\ d.tcb \in os'.list \ {Idle}
                     /\ os'.tcb[d.tcb].prio = d.prio /\ Calm(os'.tcb[d.tcb])
                     /\ d.tcb = u => os'.lock = 1
                     /\ d.tcb # u => NextOp(pc'[d.tcb]) \in {"none", "OS_Sched"} \cup WaitOps
      <3>1. u = os.cur /\ Head(pc'[u]).tcb = t /\ Head(pc'[u]).prio = prio
        BY <1>5, <1>6, <1>8, <2>6
      <3>2. t # u => NextOp(pc'[t]) \in {"none", "OS_Sched"} \cup WaitOps
        BY <1>4, <1>6, <1>7, <3>1, AtNext
      <3>3. os'.tcb[t].prio = prio /\ Calm(os'.tcb[t]) /\ (t = u => os'.lock = 1)
        BY <1>2, <1>4, <1>6, <1>13, <1>15, <1>16, <3>1
      <3> QED
        BY <1>4, <1>6, <1>16, <3>1, <3>2, <3>3
    <2> QED
      BY <2>2, <2>3, <2>4, <2>5, <2>6 DEF Lists, At, NextOp
  <1>23. Creations'
    <2>1. ASSUME NEW u \in TCBs, NextOp(pc'[u]) \in CreationOps PROVE CreatesStill(os, os', u)
      <3>1. pc'[u] = pc[u] /\ At(u) \in CreationOps
        BY <1>5, <1>6, <2>1, AtNext DEF CreationOps
      <3>2. os'.prioTbl[Head(pc[u]).prio] = Reserved
        BY <1>1, <1>6, <1>16, <3>1 DEF TInv, Creations
      <3>3. ASSUME At(u) = "link", NEW v, v = Head(pc[u]).tcb
            PROVE  /\ v \notin os'.list /\ Alike(os.tcb[v], os'.tcb[v])
                   /\ \A i \in DOMAIN os'.free : os'.free[i] # v
        <4>1. v \in TCBs /\ v \notin os.list /\ \A i \in DOMAIN os.free : os.free[i] # v
          BY <1>1, <3>3 DEF TInv, Creations
        <4> QED
          BY <1>4, <1>6, <1>16, <4>1
      <3> QED
        BY <3>1, <3>2, <3>3 DEF CreatesStill
    <2>2. os'.free \in Seq(TCBs \ os'.list) /\ Distinct(os'.free)
      BY <1>1, <1>6, <1>16 DEF TInv, Creations
    <2> QED
      BY <1>1, <2>1, <2>2, CreationsSame
  <1>24. Running'
    <2>1. OS_TASK_IDLE_PRIO \in Members(os'.rdy)
      BY <1>1, <1>4, <1>6, <1>13, <1>15, IdleApart DEF TInv, Running
    <2>2. At(os.cur) \notin {"OS_Sched", "OS_Dummy"}
      BY <1>3
    <2>3. Cur.prio = os.prioCur /\ ~Stopping
      BY <1>1, <1>3, <2>2, OrdinaryRunning DEF Stopping
    <2>4. CASE t = os.cur
      <3>1. Stopping'
        BY <1>5, <1>6, <1>16, <2>4 DEF Stopping, At, NextOp
      <3>2. os'.cur \in os'.list /\ os'.tcb[os'.cur].prio = os'.prioCur /\ os'.running /\ os'.lock # 0
        BY <1>3, <1>6, <1>16, <2>3 DEF Cur
      <3> QED
        BY <2>1, <3>1, <3>2 DEF Running
    <2>5. CASE t # os.cur
      <3>1. SameRunner(os, os')
        BY <1>3, <1>6, <1>16, <2>5 DEF SameRunner
      <3>2. os.cur \in Live'
        BY <1>3, <1>17, <2>5
      <3>3. os'.lock # 0
        BY <1>6, <1>16
      <3> QED
        BY <1>1, <1>3, <1>6, <2>1, <2>3, <3>1, <3>2, <3>3, SteadyRunning
    <2> QED
      BY <2>4, <2>5
  <1> QED
    BY <1>6, <1>18, <1>19, <1>21, <1>22, <1>23, <1>24, Assembled

LEMMA FreeServed ==
  ASSUME Ruled, KInv, Inv, OSTaskDel_Free PROVE Inv'
  <1> DEFINE t == Now.tcb
             p == Now.prio
             l == [os EXCEPT !.lock = @ - 1, !.prioTbl[p] = None, !.list = @ \ {t}, !.free = <<t>> \o @]
  <1>1. /\ TInv /\ Rules /\ Data(os) /\ Core(os, Live, Waiting) /\ DOMAIN pc = TCBs /\ DOMAIN os = Fields
        /\ \A u \in TCBs : Steps(pc[u])
    BY DEF Inv, TInv, Data
  <1>2. Step("OS_Dummy") /\ os' = l /\ isr' = isr /\ app' = app
        /\ pc' = [[pc EXCEPT ![t] = <<>>] EXCEPT ![os.cur] = <<Sched>>]
    BY DEF OSTaskDel_Free
  <1>3. /\ os.running /\ isr = "none" /\ At(os.cur) = "OS_Dummy" /\ os.cur \in TCBs /\ os.cur # Idle
        /\ Steps(pc[os.cur]) /\ NextOp(pc[os.cur]) = "OS_Dummy" /\ Now = Head(pc[os.cur])
        /\ Waiting[os.cur] = WaitOf(pc[os.cur])
    BY <1>1, <1>2, StepCaller
  <1>4. p \in Prios /\ t \in TCBs /\ Waiting[os.cur] = Sched
    BY <1>3, NextStep
  <1>5. /\ os.lock > 0 /\ os.lock \in Nat /\ t \in os.list /\ t # Idle /\ os.tcb[t].prio = p
        /\ t = os.cur => os.lock = 1
        /\ t # os.cur => At(t) \in {"none", "OS_Sched"} \cup WaitOps
        /\ \A u \in TCBs : At(u) = "OS_Dummy" => u = os.cur
    BY <1>1, <1>3 DEF TInv, Lists, Data
  <1>6. Head(pc[os.cur]).tcb = t
    BY <1>3
  <1> HIDE DEF t, p
  <1>7. os.prioTbl[p] = t
    BY <1>1, <1>5 DEF TInv, Lists
  <1>8. /\ DOMAIN pc' = TCBs /\ pc'[os.cur] = <<Sched>> /\ (t # os.cur => pc'[t] = <<>>)
        /\ \A u \in TCBs : u # os.cur /\ u # t => pc'[u] = pc[u]
    BY <1>1, <1>2, <1>3, <1>4
  <1>9. /\ Steps(<<>>) /\ NextOp(<<>>) = "none" /\ WaitOf(<<>>) = Sched
        /\ Steps(<<Sched>>) /\ NextOp(<<Sched>>) = "OS_Sched" /\ WaitOf(<<Sched>>) = Sched
    BY StepForms
  <1>10. \A u \in TCBs : NextOp(pc'[u]) # "OS_Dummy"
    BY <1>5, <1>8, <1>9, AtNext
  <1>11. BeingDeleted' = {} /\ \A u : u \in BeingDeleted <=> u = t
    <2>1. BeingDeleted' = {}
      BY <1>10 DEF BeingDeleted, NextOp
    <2>2. \A u : u \in BeingDeleted <=> u = t
      BY <1>3, <1>4, <1>5, <1>6, DummyTasks
    <2> QED
      BY <2>1, <2>2
  <1>12. /\ DOMAIN l = Fields /\ l.lock = os.lock - 1 /\ l.tcb = os.tcb /\ l.list = os.list \ {t}
         /\ l.free = <<t>> \o os.free /\ l.rdy = os.rdy /\ l.event = os.event /\ l.flag = os.flag
         /\ l.freeEvents = os.freeEvents /\ l.freeFlags = os.freeFlags
         /\ l.running = os.running /\ l.cur = os.cur /\ l.prioCur = os.prioCur
         /\ DOMAIN l.prioTbl = Prios /\ l.prioTbl[p] = None
         /\ \A q \in Prios : q # p => l.prioTbl[q] = os.prioTbl[q]
    BY <1>1, <1>4 DEF Data, Fields
  <1> HIDE DEF l
  <1>13. Data(os') /\ l.lock \in Nat
    <2>1. l.lock \in Nat
      BY <1>5, <1>12
    <2>2. \A q \in Prios : l.prioTbl[q] \in TCBs \cup {None, Reserved}
      BY <1>1, <1>12 DEF Data
    <2> QED
      BY <1>1, <1>2, <1>12, <2>1, <2>2 DEF Data
  <1>14. Live' = Live /\ \A u : u \in Live <=> u \in os.list /\ u # t
    BY <1>2, <1>11, <1>12 DEF Live
  <1>15. \A u \in TCBs : Waiting'[u] = IF u = t THEN Sched ELSE Waiting[u]
    BY <1>3, <1>4, <1>8, <1>9 DEF Waiting
  <1>16. Core(os', Live', Waiting')
    <2> DEFINE L == Live
               w == Waiting
               v == Waiting'
    <2>1. Core(os, L, w) /\ Data(os)
      BY <1>1
    <2>2. \A u \in L : l.tcb[u] = os.tcb[u] /\ v[u] = w[u]
      BY <1>1, <1>12, <1>14, <1>15 DEF Core
    <2>3. \A q \in Prios : os.prioTbl[q] \in L => l.prioTbl[q] = os.prioTbl[q]
      BY <1>7, <1>12, <1>14
    <2>4. l.rdy = os.rdy /\ l.event = os.event /\ l.flag = os.flag
      BY <1>12
    <2> HIDE DEF L, w, v
    <2>5. Core(l, L, v)
      BY <2>1, <2>2, <2>3, <2>4, OutsideCore
    <2> QED
      BY <1>2, <1>14, <2>5 DEF L, v
  <1>17. Pools' /\ Rules' /\ \A u \in TCBs : Steps(pc'[u])
    <2>1. \A u \in TCBs : pc'[u] = pc[u] \/ GoesOn(u)
      BY <1>8, <1>9 DEF GoesOn
    <2>2. SamePools(os, os')
      BY <1>2, <1>12 DEF SamePools
    <2> QED
      BY <1>1, <1>2, <1>8, <2>1, <2>2, StructureKept
  <1>18. Lists'
    <2>1. None \notin TCBs
      BY NullAssumption
    <2>2. Idle \in os.list /\ os.tcb[Idle].prio = OS_TASK_IDLE_PRIO /\ pc[Idle] = <<>> /\ os.list \subseteq TCBs
      BY <1>1 DEF TInv, Lists, Data
    <2>3. /\ Idle \in os'.list /\ os'.tcb[Idle].prio = OS_TASK_IDLE_PRIO /\ pc'[Idle] = <<>>
      BY <1>2, <1>3, <1>5, <1>8, <1>12, <2>2
    <2>4. ASSUME NEW u \in os'.list PROVE os'.prioTbl[os'.tcb[u].prio] = u
      <3>1. u \in os.list /\ u # t /\ os.prioTbl[os.tcb[u].prio] = u /\ os.tcb[u].prio \in Prios
        BY <1>1, <1>2, <1>12, <2>2, <2>4 DEF TInv, Lists, Data
      <3>2. os.tcb[u].prio # p
        BY <1>7, <3>1
      <3> QED
        BY <1>2, <1>12, <3>1, <3>2
    <2>5. ASSUME NEW q \in Prios, os'.prioTbl[q] \in TCBs
          PROVE  os'.prioTbl[q] \in os'.list /\ os'.tcb[os'.prioTbl[q]].prio = q
      <3>1. q # p /\ os'.prioTbl[q] = os.prioTbl[q]
        BY <1>2, <1>12, <2>1, <2>5
      <3>2. os.prioTbl[q] \in os.list /\ os.tcb[os.prioTbl[q]].prio = q
        BY <1>1, <2>5, <3>1 DEF TInv, Lists, Ruled, Rules
      <3> QED
        BY <1>2, <1>5, <1>12, <3>1, <3>2
    <2>6. \A u \in TCBs \ os'.list : NextOp(pc'[u]) \in {"none", "OS_Sched"} /\ Waiting'[u] = Sched
      <3>1. \A u \in TCBs \ os.list : At(u) \in {"none", "OS_Sched"} /\ Waiting[u] = Sched
        BY <1>1 DEF TInv, Lists
      <3> QED
        BY <1>2, <1>8, <1>9, <1>12, <1>15, <3>1, AtNext
    <2> QED
      BY <1>10, <2>3, <2>4, <2>5, <2>6 DEF Lists, At, NextOp
  <1>19. Creations'
    <2>1. ASSUME NEW u \in TCBs, NextOp(pc'[u]) \in CreationOps PROVE CreatesStill(os, os', u)
      <3>1. u # os.cur /\ u # t
        BY <1>8, <1>9, <2>1 DEF CreationOps
      <3>2. pc'[u] = pc[u] /\ At(u) \in CreationOps
        BY <1>8, <2>1, <3>1, AtNext
      <3>3. os'.prioTbl[Head(pc[u]).prio] = Reserved
        <4>1. Head(pc[u]).prio \in Prios
          BY <1>1, <3>2, AtNext, NextStep
        <4>2. os.prioTbl[Head(pc[u]).prio] = Reserved /\ Reserved \notin TCBs
          BY <1>1, <3>2, NullAssumption DEF TInv, Creations
        <4> QED
          BY <1>2, <1>4, <1>7, <1>12, <4>1, <4>2
      <3>4. ASSUME At(u) = "link", NEW v, v = Head(pc[u]).tcb
            PROVE  /\ v \notin os'.list /\ Alike(os.tcb[v], os'.tcb[v])
                   /\ \A i \in DOMAIN os'.free : os'.free[i] # v
        <4>1. v \in TCBs /\ v \notin os.list /\ \A i \in DOMAIN os.free : os.free[i] # v
          BY <1>1, <3>4 DEF TInv, Creations
        <4>2. os.free \in Seq(TCBs) /\ Distinct(os.free) /\ \A i \in DOMAIN os.free : os.free[i] # t
          BY <1>1, <1>5 DEF TInv, Creations
        <4>3. \A i \in DOMAIN (<<t>> \o os.free) : (<<t>> \o os.free)[i] # v
          BY <1>4, <1>5, <4>1, <4>2, PushFree
        <4> QED
          BY <1>2, <1>12, <4>1, <4>3 DEF Alike
      <3> QED
        BY <3>2, <3>3, <3>4 DEF CreatesStill
    <2>2. os'.free \in Seq(TCBs \ os'.list) /\ Distinct(os'.free)
      <3> DEFINE S == TCBs \ os'.list
      <3>1. os.free \in Seq(TCBs \ os.list) /\ Distinct(os.free)
        BY <1>1 DEF TInv, Creations
      <3>2. os.free \in Seq(S) /\ t \in S /\ \A i \in DOMAIN os.free : os.free[i] # t
        BY <1>2, <1>4, <1>5, <1>12, <3>1
      <3> HIDE DEF S
      <3>3. <<t>> \o os.free \in Seq(S) /\ Distinct(<<t>> \o os.free)
        BY <3>1, <3>2, PushFree
      <3> QED
        BY <1>2, <1>12, <3>3 DEF S
    <2> QED
      BY <1>1, <2>1, <2>2, CreationsSame
  <1>20. Running'
    <2>1. OS_TASK_IDLE_PRIO \in Members(os'.rdy)
      BY <1>1, <1>2, <1>12 DEF TInv, Running
    <2>2. NextOp(pc'[os.cur]) = "OS_Sched"
      BY <1>8, <1>9
    <2>3. CASE t = os.cur
      <3>1. os'.lock = 0 /\ os'.cur = os.cur /\ os'.running /\ os'.prioCur = os.prioCur
        BY <1>2, <1>3, <1>5, <1>12, <2>3
      <3>2. At(os.cur)' = "OS_Sched" /\ Stopping'
        BY <2>2, <3>1 DEF Stopping, At, NextOp
      <3>3. os.prioCur = p
        BY <1>1, <1>3, <1>5, <2>3 DEF TInv, Running
      <3>4. os'.prioCur \in Prios /\ os'.prioTbl[os'.prioCur] = None
        BY <1>2, <1>4, <1>12, <3>1, <3>3
      <3> QED
        BY <2>1, <3>1, <3>2, <3>4 DEF Running
    <2>4. CASE t # os.cur
      <3>1. ~Stopping
        BY <1>3, <1>6, <2>4 DEF Stopping
      <3>2. os.cur \in Live
        BY <1>1, <1>3, <3>1 DEF TInv, Running
      <3>3. SameRunner(os, os') /\ os.cur \in Live'
        BY <1>2, <1>12, <1>14, <3>2 DEF SameRunner, Alike
      <3> QED
        BY <1>1, <1>2, <1>3, <2>1, <2>2, <3>1, <3>3, SteadyRunning
    <2> QED
      BY <2>3, <2>4
  <1> QED
    BY <1>8, <1>13, <1>16, <1>17, <1>18, <1>19, <1>20, Assembled

(***************************************************************************)
(* Another priority.                                                       *)
(***************************************************************************)
LEMMA ChangePrioServed ==
  ASSUME Ruled, ~PrioChangeOfWoken, KInv, Inv, NEW old \in Prios, NEW new \in Prios, OSTaskChangePrio(old, new)
  PROVE  Inv'
  <1> DEFINE t == Task(os, old)
             l == ChangePrio(os, t, new)
             steps == <<Sched>>
  <1>1. /\ TInv /\ Rules /\ Data(os) /\ Core(os, Live, Waiting) /\ DOMAIN pc = TCBs /\ DOMAIN os = Fields
        /\ \A u \in TCBs : Steps(pc[u])
    BY DEF Inv, TInv, Data
  <1>2. /\ Anywhere("OSTaskChangePrio") /\ old # OS_TASK_IDLE_PRIO /\ new # OS_TASK_IDLE_PRIO
        /\ os.prioTbl[new] = None /\ Exists(old) /\ ~Woken(t)
        /\ t = os.cur => os.lock = 0
        /\ Leave(l, steps)
    BY DEF OSTaskChangePrio
  <1>3. AtTask("OSTaskChangePrio")
    BY <1>1, <1>2 DEF Anywhere, AtIsr, Ruled, Supported, Rules
  <1>4. /\ os.running /\ isr = "none" /\ At(os.cur) = "none" /\ os.cur \in TCBs /\ os.cur # Idle
        /\ BeingDeleted = {} /\ Live = os.list /\ os.cur \in Live /\ Waiting[os.cur] = Sched
    BY <1>1, <1>3, TaskCaller
  <1>5. /\ t \in TCBs /\ t \in os.list /\ t \in Live /\ os.prioTbl[old] = t /\ os.tcb[t].prio = old /\ t # Idle
    BY <1>2, <1>4, TaskOf
  <1>6. Steps(steps) /\ NextOp(steps) = "OS_Sched" /\ WaitOf(steps) = Sched
    BY StepForms
  <1>7. /\ os' = l /\ l = ChangePrio(os, t, new) /\ DOMAIN pc' = TCBs /\ app' = app
        /\ pc'[os.cur] = steps /\ isr' = "none"
        /\ \A u \in TCBs : u # os.cur => pc'[u] = pc[u]
    BY <1>1, <1>2, <1>4 DEF Leave
  <1> HIDE DEF t, l, steps
  <1>8. \A u \in TCBs : At(u) # "OS_Dummy" /\ NextOp(pc'[u]) # "OS_Dummy"
    BY <1>1, <1>4, <1>6, <1>7, AtNext DEF TInv, Lists
  <1>9. BeingDeleted' = {}
    BY <1>8 DEF BeingDeleted, NextOp
  <1>10. Waiting' = Waiting
    <2>1. \A u \in TCBs : WaitOf(pc'[u]) = WaitOf(pc[u])
      BY <1>4, <1>6, <1>7 DEF Waiting
    <2> QED
      BY <2>1 DEF Waiting
  <1>11. Data(l) /\ PrioChanged(os, l, t, old, new) /\ Core(l, Live, Waiting)
    <2>1. os.tcb[t].event # None \/ os.tcb[t].multi # {} => \E e \in EventIds : old \in Waiters(os, e)
      BY <1>2, <1>5 DEF Woken
    <2> QED
      BY <1>1, <1>2, <1>5, <1>7, <2>1, ChangePrioCore
  <1>12. /\ l.list = os.list /\ l.free = os.free /\ l.cur = os.cur /\ l.prioCur = os.prioCur
         /\ l.lock = os.lock /\ l.running = os.running
         /\ l.freeEvents = os.freeEvents /\ l.freeFlags = os.freeFlags /\ l.flag = os.flag
         /\ \A e \in EventIds : l.event[e].type = os.event[e].type
         /\ \A u \in TCBs : u # t => l.tcb[u] = os.tcb[u]
         /\ l.tcb[t].prio = new /\ l.prioTbl[old] = None /\ l.prioTbl[new] = t
         /\ \A q \in Prios : q # old /\ q # new => l.prioTbl[q] = os.prioTbl[q]
         /\ \A q \in Prios : q # old /\ q # new => (q \in Members(l.rdy) <=> q \in Members(os.rdy))
    BY <1>11 DEF PrioChanged
  <1>13. Live' = Live
    BY <1>4, <1>7, <1>9, <1>12 DEF Live
  <1>14. Core(os', Live', Waiting')
    BY <1>7, <1>10, <1>11, <1>13
  <1>15. Data(os')
    BY <1>7, <1>11
  <1>16. Pools' /\ Rules' /\ \A u \in TCBs : Steps(pc'[u])
    <2>1. \A u \in TCBs : pc'[u] = pc[u] \/ GoesOn(u)
      BY <1>6, <1>7 DEF GoesOn
    <2>2. SamePools(os, os')
      BY <1>7, <1>12 DEF SamePools
    <2> QED
      BY <1>1, <1>7, <2>1, <2>2, StructureKept
  <1>17. None \notin TCBs /\ Reserved \notin TCBs /\ Reserved # None
    BY NullAssumption
  <1>18. Lists'
    <2>2. Idle \in os.list /\ os.tcb[Idle].prio = OS_TASK_IDLE_PRIO /\ pc[Idle] = <<>> /\ os.list \subseteq TCBs
      BY <1>1 DEF TInv, Lists, Data
    <2>3. /\ Idle \in os'.list /\ os'.tcb[Idle].prio = OS_TASK_IDLE_PRIO /\ pc'[Idle] = <<>>
      BY <1>4, <1>5, <1>7, <1>12, <2>2
    <2>4. ASSUME NEW u \in os'.list PROVE os'.prioTbl[os'.tcb[u].prio] = u
      <3>1. CASE u = t
        BY <1>7, <1>12, <3>1
      <3>2. CASE u # t
        <4>1. u \in os.list /\ os.prioTbl[os.tcb[u].prio] = u /\ os.tcb[u].prio \in Prios
          BY <1>1, <1>7, <1>12, <2>2, <2>4 DEF TInv, Lists, Data
        <4>2. os.tcb[u].prio # old /\ os.tcb[u].prio # new
          BY <1>2, <1>5, <1>17, <2>2, <3>2, <4>1
        <4> QED
          BY <1>7, <1>12, <2>2, <3>2, <4>1, <4>2
      <3> QED
        BY <3>1, <3>2
    <2>5. ASSUME NEW q \in Prios, os'.prioTbl[q] \in TCBs
          PROVE  os'.prioTbl[q] \in os'.list /\ os'.tcb[os'.prioTbl[q]].prio = q
      <3>1. CASE q = new
        BY <1>5, <1>7, <1>12, <3>1
      <3>2. CASE q # new
        <4>1. q # old /\ os'.prioTbl[q] = os.prioTbl[q]
          BY <1>7, <1>12, <1>17, <2>5, <3>2
        <4>2. os.prioTbl[q] \in os.list /\ os.tcb[os.prioTbl[q]].prio = q
          BY <1>1, <2>5, <4>1 DEF TInv, Lists, Ruled, Rules
        <4> QED
          BY <1>5, <1>7, <1>12, <2>2, <4>1, <4>2
      <3> QED
        BY <3>1, <3>2
    <2>6. \A u \in TCBs \ os'.list : NextOp(pc'[u]) \in {"none", "OS_Sched"} /\ Waiting'[u] = Sched
      BY <1>1, <1>4, <1>7, <1>10, <1>12, AtNext DEF TInv, Lists
    <2> QED
      BY <1>8, <2>3, <2>4, <2>5, <2>6 DEF Lists, At, NextOp
  <1>19. Creations'
    <2>1. ASSUME NEW u \in TCBs, NextOp(pc'[u]) \in CreationOps PROVE CreatesStill(os, os', u)
      <3>1. pc'[u] = pc[u] /\ At(u) \in CreationOps
        BY <1>6, <1>7, <2>1, AtNext DEF CreationOps
      <3>2. os'.prioTbl[Head(pc[u]).prio] = Reserved
        <4>1. Head(pc[u]).prio \in Prios
          BY <1>1, <3>1, AtNext, NextStep
        <4>2. os.prioTbl[Head(pc[u]).prio] = Reserved
          BY <1>1, <3>1 DEF TInv, Creations
        <4> QED
          BY <1>2, <1>5, <1>7, <1>12, <1>17, <4>1, <4>2
      <3>3. ASSUME At(u) = "link", NEW v, v = Head(pc[u]).tcb
            PROVE  /\ v \notin os'.list /\ Alike(os.tcb[v], os'.tcb[v])
                   /\ \A i \in DOMAIN os'.free : os'.free[i] # v
        <4>1. v \in TCBs /\ v \notin os.list /\ \A i \in DOMAIN os.free : os.free[i] # v
          BY <1>1, <3>3 DEF TInv, Creations
        <4> QED
          BY <1>5, <1>7, <1>12, <4>1 DEF Alike
      <3> QED
        BY <3>1, <3>2, <3>3 DEF CreatesStill
    <2>2. os'.free \in Seq(TCBs \ os'.list) /\ Distinct(os'.free)
      BY <1>1, <1>7, <1>12 DEF TInv, Creations
    <2> QED
      BY <1>1, <2>1, <2>2, CreationsSame
  <1>20. Running'
    <2>1. OS_TASK_IDLE_PRIO \in Members(os'.rdy)
      BY <1>1, <1>2, <1>7, <1>12, IdleApart DEF TInv, Running
    <2>2. At(os.cur) \notin {"OS_Sched", "OS_Dummy"} /\ NextOp(pc'[os.cur]) = "OS_Sched"
      BY <1>4, <1>6, <1>7
    <2>3. Cur.prio = os.prioCur /\ ~Stopping
      BY <1>1, <1>4, <2>2, OrdinaryRunning DEF Stopping
    <2>4. CASE t = os.cur
      <3>1. os'.lock = 0 /\ os'.cur = os.cur /\ os'.running /\ os'.prioCur = os.prioCur
        BY <1>2, <1>4, <1>7, <1>12, <2>4
      <3>2. At(os.cur)' = "OS_Sched" /\ Stopping'
        BY <2>2, <3>1 DEF Stopping, At, NextOp
      <3>3. os'.prioCur \in Prios /\ os'.prioTbl[os'.prioCur] = None
        BY <1>5, <1>7, <1>12, <2>3, <2>4, <3>1 DEF Cur
      <3> QED
        BY <2>1, <3>1, <3>2, <3>3 DEF Running
    <2>5. CASE t # os.cur
      <3>1. SameRunner(os, os') /\ os.cur \in Live'
        BY <1>4, <1>7, <1>12, <1>13, <2>5 DEF SameRunner, Alike
      <3> QED
        BY <1>1, <1>4, <1>7, <2>1, <2>2, <2>3, <3>1, SteadyRunning
    <2> QED
      BY <2>4, <2>5
  <1> QED
    BY <1>7, <1>14, <1>15, <1>16, <1>18, <1>19, <1>20, Assembled

(***************************************************************************)
(* Nobody calls a service of mutexes.                                      *)
(***************************************************************************)
LEMMA MutexServed ==
  ASSUME Ruled, KInv, Inv, KInv', MutexNext PROVE Inv'
  <1>1. /\ \A e \in EventIds : ~IsMutex(e)
        /\ "OSMutexCreate" \notin app.calls
    BY DEF Ruled, UsesMutexes, Inv, Rules, NoMutex, IsMutex
  <1>2. ~ \E pip \in Prios : OSMutexCreate(pip)
    BY <1>1 DEF OSMutexCreate, AtTask
  <1>3. ASSUME NEW e \in EventIds
        PROVE  /\ \A always \in BOOLEAN : ~OSMutexDel(e, always)
               /\ ~OSMutexAccept(e) /\ ~OSMutexPost(e)
               /\ \A timeout \in Timeouts : ~OSMutexPend(e, timeout)
    BY <1>1, Zenon DEF OSMutexDel, OSMutexAccept, OSMutexPost, OSMutexPend
  <1>4. OSMutexPend_Return
    BY <1>2, <1>3, Zenon DEF MutexNext
  <1> DEFINE E == {Now.event}
  <1>5. Step("pend") /\ Proceed(EndPend(os, E)) /\ Now.event \in E
    BY <1>4 DEF OSMutexPend_Return
  <1> HIDE DEF E
  <1> QED
    BY <1>5, PendBack

LEMMA TaskServed ==
  ASSUME Ruled, ~PrioChangeOfWoken, KInv, Inv, KInv', TaskNext PROVE Inv'
  <1>1. ASSUME NEW old \in Prios, NEW new \in Prios, OSTaskChangePrio(old, new) PROVE Inv'
    BY <1>1, ChangePrioServed
  <1>2. ASSUME NEW prio \in Prios, OSTaskCreate(prio) \/ OSTaskCreateExt(prio) PROVE Inv'
    BY <1>2, CreateServed DEF OSTaskCreate, OSTaskCreateExt
  <1>3. ASSUME NEW prio \in Prios, OSTaskDel(prio) PROVE Inv'
    BY <1>3, DelTaskServed
  <1>4. ASSUME NEW prio \in Prios \ {OS_TASK_IDLE_PRIO},
               OSTaskDelReq(prio) \/ OSTaskSuspend(prio) \/ OSTaskResume(prio) \/ OSTimeDlyResume(prio)
        PROVE  Inv'
    BY <1>4, DelReqServed, SuspendServed, ResumeServed, DlyResumeServed
  <1>5. ASSUME OS_TCBInit \/ OS_TCBInit_Link \/ OSTaskCreate_Failed \/ OSTaskDel_Free PROVE Inv'
    BY <1>5, TCBInitServed, LinkServed, RollbackServed, FreeServed
  <1>6. ASSUME OS_TaskReturn PROVE Inv'
    <2>1. Cur.prio \in Prios
      BY DEF Inv, TInv, Data, Cur
    <2> QED
      BY <1>3, <1>6, <2>1 DEF OS_TaskReturn
  <1>7. ASSUME NEW ticks, OSTimeDly(ticks) PROVE Inv'
    BY <1>7, DelayServed DEF OSTimeDly
  <1>8. ASSUME NEW c, OSTimeDlyHMSM(c) PROVE Inv'
    BY <1>8, DelayServed DEF OSTimeDlyHMSM
  <1>9. \A prio \in Prios \ {OS_TASK_IDLE_PRIO} : prio \in Prios
    OBVIOUS
  <1> QED
    BY <1>1, <1>2, <1>3, <1>4, <1>5, <1>6, <1>7, <1>8, <1>9, Zenon DEF TaskNext

LEMMA IntServed ==
  ASSUME KInv, Inv, KInv', IntNext PROVE Inv'
  BY IntEnterServed, TickServed, IntExitServed DEF IntNext

LEMMA SameServed ==
  ASSUME Inv, UNCHANGED <<os, isr, pc, app>> PROVE Inv'
  <1>1. os' = os /\ pc' = pc /\ isr' = isr /\ app' = app
    OBVIOUS
  <1>2. Waiting' = Waiting /\ Live' = Live
    BY <1>1 DEF Waiting, Live, BeingDeleted
  <1>3. \A t \in TCBs : pc'[t] = pc[t] /\ At(t) = NextOp(pc[t])
    BY <1>1, AtNext
  <1>4. TInv /\ Rules
    BY DEF Inv
  <1>5. Pools' /\ Rules' /\ \A t \in TCBs : Steps(pc'[t])
    BY <1>1, <1>3, <1>4, StructureKept DEF SamePools, TInv
  <1>6. Lists'
    BY <1>1, <1>2, <1>4 DEF TInv, Lists, At
  <1>7. Creations'
    BY <1>1, <1>4 DEF TInv, Creations, At
  <1>8. Running'
    BY <1>1, <1>2, <1>4 DEF TInv, Running, Stopping, Excepted, At
  <1>9. Data(os') /\ DOMAIN pc' = TCBs /\ Core(os', Live', Waiting')
    BY <1>1, <1>2, <1>4 DEF TInv
  <1> QED
    BY <1>5, <1>6, <1>7, <1>8, <1>9, Assembled

(* No step of the kernel breaks the invariant.                             *)
LEMMA StepKept ==
  ASSUME Ruled, ~PrioChangeOfWoken, KInv, Inv, KInv', [Next]_vars PROVE Inv'
  <1>1. CASE OSStart \/ IntNext \/ OS_Sched \/ OSSchedLock \/ OSSchedUnlock
    BY <1>1, StartServed, IntServed, SchedServed, LockServed
  <1>2. CASE TaskNext
    BY <1>2, TaskServed
  <1>3. CASE SemNext \/ MboxNext \/ QNext \/ MultiNext
    BY <1>3, SemServed, MboxServed, QServed, MultiServed
  <1>4. CASE FlagNext \/ MutexNext \/ MemNext
    BY <1>4, FlagServed, MutexServed, MemServed
  <1>5. CASE CheckNext \/ UNCHANGED vars
    <2>1. UNCHANGED <<os, isr, pc, app>>
      BY <1>5, CheckStutters DEF vars
    <2> QED
      BY <2>1, SameServed
  <1> QED
    BY <1>1, <1>2, <1>3, <1>4, <1>5, Zenon DEF Next

(***************************************************************************)
(* What main leaves before OSStart.                                        *)
(***************************************************************************)
LEMMA FreeFromList ==
  ASSUME NEW n \in Nat, NEW size \in Nat, n <= size, NEW S, \A i \in n .. size - 1 : i \in S
  PROVE  FreeFrom(n, size) \in Seq(S) /\ Distinct(FreeFrom(n, size))
         /\ \A i \in DOMAIN FreeFrom(n, size) : FreeFrom(n, size)[i] \in n .. size - 1
  <1> DEFINE f == FreeFrom(n, size)
  <1>1. DOMAIN f = 1 .. size - n /\ size - n \in Nat /\ \A i \in DOMAIN f : f[i] = n + i - 1
    BY DEF FreeFrom
  <1>2. \A i \in DOMAIN f : f[i] \in n .. size - 1
    BY <1>1
  <1>3. f \in Seq(S)
    <2>1. f = [i \in 1 .. size - n |-> f[i]]
      BY DEF FreeFrom
    <2>2. \A i \in 1 .. size - n : f[i] \in S
      BY <1>1, <1>2
    <2> QED
      BY <1>1, <2>1, <2>2
  <1>4. Distinct(f)
    BY <1>1 DEF Distinct
  <1> QED
    BY <1>2, <1>3, <1>4

LEMMA InitInv ==
  ASSUME Ruled, Init PROVE Inv
  <1>1. /\ app \in Profiles /\ Supported(app) /\ ~UsesMutexes(app)
        /\ os = InitOS /\ isr = "none" /\ pc = [t \in TCBs |-> <<>>]
    BY DEF Ruled, Init
  <1>2. /\ app.tasks \in Seq(Prios \ {OS_TASK_IDLE_PRIO}) /\ Len(app.tasks) <= OS_MAX_TASKS
        /\ \A t, u \in DOMAIN app.tasks : app.tasks[t] = app.tasks[u] => t = u
    BY <1>1 DEF Supported
  <1>3. /\ AppTasks = DOMAIN app.tasks /\ Len(app.tasks) \in Nat
        /\ \A t \in AppTasks : app.tasks[t] \in Prios /\ app.tasks[t] # OS_TASK_IDLE_PRIO
    BY <1>2 DEF AppTasks
  <1>4. AppTasks \subseteq TCBs \ {Idle} /\ Idle \in TCBs /\ AppTasks = 1 .. Len(app.tasks)
    BY <1>2, <1>3, SizesAssumption DEF AppTasks, TCBs, Idle
  <1>5. OS_TASK_IDLE_PRIO \in Prios /\ 0 \in Prios /\ OS_TASK_IDLE_PRIO = OS_LOWEST_PRIO
    <2>1. 0 \in RowSet /\ 0 \in BitSet /\ 0 * Width + 0 = 0 /\ OS_LOWEST_PRIO \in Int
      BY WidthAssumption, RowsAssumption DEF RowSet, BitSet, OS_LOWEST_PRIO
    <2>2. 0 \in Prios
      BY <2>1, Places
    <2> QED
      BY <2>1, <2>2 DEF Prios, OS_TASK_IDLE_PRIO
  <1>6. /\ os.tcb = InitTCBs /\ os.prioTbl = InitPrioTbl /\ os.rdy = InitRdy
        /\ os.list = {Idle} \cup AppTasks /\ os.event = InitEvents /\ os.flag = InitFlags
        /\ os.free = FreeFrom(Len(app.tasks) + 1, OS_MAX_TASKS + 1)
        /\ os.freeEvents = FreeFrom(Cardinality(DOMAIN app.events), OS_MAX_EVENTS)
        /\ os.freeFlags = FreeFrom(Cardinality(DOMAIN app.flags), OS_MAX_FLAGS)
        /\ os.cur = Idle /\ os.lock = 0 /\ ~os.running /\ DOMAIN os = Fields
    BY <1>1 DEF InitOS, Fields
  <1>7. /\ DOMAIN InitTCBs = TCBs /\ InitTCBs[Idle] = NewTCB(OS_TASK_IDLE_PRIO)
        /\ \A t \in AppTasks : InitTCBs[t] = NewTCB(app.tasks[t])
        /\ \A t \in TCBs : \E p \in Prios : InitTCBs[t] = NewTCB(p)
    BY <1>3, <1>4, <1>5 DEF InitTCBs, IdleTask
  <1>8. \A p : LET x == NewTCB(p)
               IN  /\ DOMAIN x = TCBFields /\ x.prio = p /\ Local(x, Sched) /\ Runnable(x) /\ ~Listed(x)
    BY DEF NewTCB, TCBFields, Local, Runnable, Listed, Waits, Sched, WaitOps, Suspended
  <1>9. \A t \in TCBs : DOMAIN os.tcb[t] = TCBFields /\ os.tcb[t].prio \in Prios
                        /\ Local(os.tcb[t], Sched) /\ Runnable(os.tcb[t]) /\ ~Listed(os.tcb[t])
    BY <1>6, <1>7, <1>8
  <1>10. /\ os.tcb[Idle].prio = OS_TASK_IDLE_PRIO
         /\ \A t \in AppTasks : os.tcb[t].prio = app.tasks[t]
    BY <1>6, <1>7, <1>8
  <1>11. /\ DOMAIN os.prioTbl = Prios /\ os.prioTbl[OS_TASK_IDLE_PRIO] = Idle
         /\ \A t \in AppTasks : os.prioTbl[app.tasks[t]] = t
         /\ \A p \in Prios : \/ os.prioTbl[p] \in {None, Reserved}
                             \/ p = OS_TASK_IDLE_PRIO /\ os.prioTbl[p] = Idle
                             \/ os.prioTbl[p] \in AppTasks /\ app.tasks[os.prioTbl[p]] = p
    <2>1. ASSUME NEW t \in AppTasks
          PROVE  InitPrioTbl[app.tasks[t]] = t
      BY <1>2, <1>3 DEF InitPrioTbl
    <2>2. ASSUME NEW p \in Prios, p # OS_TASK_IDLE_PRIO, \E t \in AppTasks : app.tasks[t] = p
          PROVE  InitPrioTbl[p] \in AppTasks /\ app.tasks[InitPrioTbl[p]] = p
      BY <2>1, <2>2
    <2>3. ASSUME NEW p \in Prios, p # OS_TASK_IDLE_PRIO, ~ \E t \in AppTasks : app.tasks[t] = p
          PROVE  InitPrioTbl[p] \in {None, Reserved}
      BY <2>3 DEF InitPrioTbl
    <2>4. DOMAIN InitPrioTbl = Prios /\ InitPrioTbl[OS_TASK_IDLE_PRIO] = Idle
      BY <1>5 DEF InitPrioTbl
    <2> QED
      BY <1>6, <2>1, <2>2, <2>3, <2>4
  <1>12. os.rdy \in Table /\ Members(os.rdy) = {OS_TASK_IDLE_PRIO} \cup {app.tasks[t] : t \in AppTasks}
    <2> DEFINE S == {OS_TASK_IDLE_PRIO} \cup {app.tasks[t] : t \in AppTasks}
    <2>1. S \in SUBSET Prios
      BY <1>3, <1>5
    <2>2. InitRdy = Insert(EmptyTable, S)
      BY DEF InitRdy
    <2> HIDE DEF S
    <2>3. InitRdy \in Table /\ Members(InitRdy) = {} \cup S
      BY <2>1, <2>2, EmptyMembers, InsertMembers
    <2> QED
      BY <1>6, <2>3 DEF S
  <1>13. PICK n \in 0 .. OS_MAX_EVENTS : DOMAIN app.events = 0 .. n - 1
    BY <1>1 DEF Supported
  <1>14. PICK m \in 0 .. OS_MAX_FLAGS : DOMAIN app.flags = 0 .. m - 1
    BY <1>1 DEF Supported
  <1>15. \A e \in EventIds : /\ DOMAIN os.event[e] = ECBFields /\ os.event[e].wait = EmptyTable
                             /\ os.event[e].type # "MUTEX"
                             /\ e >= n => os.event[e].type = "UNUSED"
    <2>1. DOMAIN UnusedEvent = ECBFields /\ UnusedEvent.wait = EmptyTable /\ UnusedEvent.type = "UNUSED"
      BY DEF UnusedEvent, ECBFields
    <2>2. \A e \in DOMAIN app.events :
            /\ DOMAIN app.events[e] = ECBFields /\ app.events[e].wait = EmptyTable
            /\ app.events[e].type # "MUTEX"
      BY <1>1, <2>1, ProfilesAssumption DEF UsesMutexes
    <2>3. \A e \in EventIds : os.event[e] = IF e \in DOMAIN app.events THEN app.events[e] ELSE UnusedEvent
      BY <1>6 DEF InitEvents
    <2>4. \A e \in EventIds : e >= n => e \notin DOMAIN app.events
      BY <1>13, SizesAssumption DEF EventIds
    <2> QED
      BY <2>1, <2>2, <2>3, <2>4
  <1>16. \A g \in FlagIds : /\ DOMAIN os.flag[g] = FlagFields /\ os.flag[g].wait = {}
                            /\ g >= m => os.flag[g].type = "UNUSED"
    <2>1. DOMAIN UnusedFlag = FlagFields /\ UnusedFlag.wait = {} /\ UnusedFlag.type = "UNUSED"
      BY DEF UnusedFlag, FlagFields
    <2>2. \A g \in DOMAIN app.flags : DOMAIN app.flags[g] = FlagFields /\ app.flags[g].wait = {}
      BY <1>1 DEF Supported, NewFlag, FlagFields
    <2>3. \A g \in FlagIds : os.flag[g] = IF g \in DOMAIN app.flags THEN app.flags[g] ELSE UnusedFlag
      BY <1>6 DEF InitFlags
    <2>4. \A g \in FlagIds : g >= m => g \notin DOMAIN app.flags
      BY <1>14, SizesAssumption DEF FlagIds
    <2> QED
      BY <2>1, <2>2, <2>3, <2>4
  <1>17. /\ DOMAIN pc = TCBs /\ \A t \in TCBs : pc[t] = <<>> /\ At(t) = "none" /\ Waiting[t] = Sched
         /\ Live = os.list
    <2>1. \A t \in TCBs : pc[t] = <<>>
      BY <1>1
    <2>2. \A t \in TCBs : At(t) = "none" /\ Waiting[t] = Sched
      BY <2>1 DEF At, Waiting, WaitOf
    <2>3. Live = os.list
      BY <2>1 DEF Live, BeingDeleted
    <2> QED
      BY <1>1, <2>1, <2>2, <2>3
  <1>18. Data(os)
    <2>1. DOMAIN os.event = EventIds /\ DOMAIN os.flag = FlagIds
      BY <1>6 DEF InitEvents, InitFlags
    <2>2. \A p \in Prios : os.prioTbl[p] \in TCBs \cup {None, Reserved}
      BY <1>4, <1>11
    <2> QED
      BY <1>4, <1>6, <1>7, <1>9, <1>11, <1>12, <1>15, <1>16, <2>1, <2>2, EmptyMembers DEF Data
  <1>19. Core(os, Live, Waiting)
    <2>1. ASSUME NEW t \in os.list
          PROVE  /\ os.tcb[t].prio \in Members(os.rdy) /\ os.prioTbl[os.tcb[t].prio] = t
                 /\ t \in TCBs
      BY <1>4, <1>6, <1>10, <1>11, <1>12
    <2>2. \A e \in EventIds : Waiters(os, e) = {}
      BY <1>15, EmptyMembers DEF Waiters
    <2>3. ASSUME NEW t \in os.list
          PROVE  TaskOK(os, Sched, t)
      <3>1. Sched.op = "OS_Sched"
        BY DEF Sched
      <3> QED
        BY <1>9, <1>16, <2>1, <2>2, <3>1 DEF TaskOK
    <2>4. ASSUME NEW p \in Members(os.rdy)
          PROVE  Holder(os, os.list, p)
      <3>1. p = OS_TASK_IDLE_PRIO \/ \E t \in AppTasks : p = app.tasks[t]
        BY <1>12
      <3> QED
        BY <1>6, <1>10, <1>11, <3>1 DEF Holder
    <2> QED
      BY <1>16, <1>17, <2>1, <2>2, <2>3, <2>4 DEF Core
  <1>20. Lists
    <2>1. Idle \in os.list /\ \A t \in os.list : os.prioTbl[os.tcb[t].prio] = t
      BY <1>6, <1>10, <1>11
    <2>2. \A p \in Prios : os.prioTbl[p] \in TCBs =>
            os.prioTbl[p] \in os.list /\ os.tcb[os.prioTbl[p]].prio = p
      BY <1>6, <1>10, <1>11, NullAssumption
    <2> QED
      BY <1>4, <1>10, <1>17, <2>1, <2>2 DEF Lists
  <1>21. Creations
    <2>1. \A i \in Len(app.tasks) + 1 .. OS_MAX_TASKS + 1 - 1 : i \in TCBs \ os.list
      BY <1>3, <1>4, <1>6, SizesAssumption DEF TCBs, Idle
    <2> DEFINE k    == Len(app.tasks) + 1
               size == OS_MAX_TASKS + 1
    <2>2. k \in Nat /\ size \in Nat /\ k <= size /\ os.free = FreeFrom(k, size)
          /\ \A i \in k .. size - 1 : i \in TCBs \ os.list
      BY <1>2, <1>3, <1>6, <2>1, SizesAssumption
    <2> HIDE DEF k, size
    <2>3. os.free \in Seq(TCBs \ os.list) /\ Distinct(os.free)
      BY <2>2, FreeFromList
    <2> QED
      BY <1>17, <2>3 DEF Creations, CreationOps
  <1>22. Pools
    <2>1. Cardinality(DOMAIN app.events) = n
      BY <1>13, SizesAssumption, FS_Interval
    <2>2. \A i \in n .. OS_MAX_EVENTS - 1 : i \in EventIds
      BY <1>13, SizesAssumption DEF EventIds
    <2>3. /\ os.freeEvents \in Seq(EventIds) /\ Distinct(os.freeEvents)
          /\ \A i \in DOMAIN os.freeEvents : os.freeEvents[i] \in n .. OS_MAX_EVENTS - 1
      <3>1. n \in Nat /\ OS_MAX_EVENTS \in Nat /\ n <= OS_MAX_EVENTS
            /\ os.freeEvents = FreeFrom(n, OS_MAX_EVENTS)
        BY <1>6, <1>13, <2>1, SizesAssumption
      <3> QED
        BY <2>2, <3>1, FreeFromList
    <2>4. Cardinality(DOMAIN app.flags) = m
      BY <1>14, SizesAssumption, FS_Interval
    <2>5. \A i \in m .. OS_MAX_FLAGS - 1 : i \in FlagIds
      BY <1>14, SizesAssumption DEF FlagIds
    <2>6. /\ os.freeFlags \in Seq(FlagIds) /\ Distinct(os.freeFlags)
          /\ \A i \in DOMAIN os.freeFlags : os.freeFlags[i] \in m .. OS_MAX_FLAGS - 1
      <3>1. m \in Nat /\ OS_MAX_FLAGS \in Nat /\ m <= OS_MAX_FLAGS
            /\ os.freeFlags = FreeFrom(m, OS_MAX_FLAGS)
        BY <1>6, <1>14, <2>4, SizesAssumption
      <3> QED
        BY <2>5, <3>1, FreeFromList
    <2>7. \A i \in DOMAIN os.freeEvents : os.event[os.freeEvents[i]].type = "UNUSED"
      BY <1>13, <1>15, <2>2, <2>3, SizesAssumption
    <2>8. \A i \in DOMAIN os.freeFlags : os.flag[os.freeFlags[i]].type = "UNUSED"
      BY <1>14, <1>16, <2>5, <2>6, SizesAssumption
    <2> QED
      BY <1>17, <2>3, <2>6, <2>7, <2>8 DEF Pools
  <1>23. Running
    BY <1>1, <1>6, <1>12, <1>17 DEF Running
  <1>24. Rules
    BY <1>1, <1>15, <1>17 DEF Rules, NoMutex, Sched
  <1>25. \A t \in TCBs : Steps(pc[t])
    BY <1>17, StepForms
  <1> QED
    BY <1>17, <1>18, <1>19, <1>20, <1>21, <1>22, <1>23, <1>24, <1>25 DEF Inv, TInv

(***************************************************************************)
(* The events and the group a task comes back from.                        *)
(***************************************************************************)
LEMMA PendsOnWaits ==
  ASSUME NEW t \in TCBs, Steps(pc[t])
  PROVE  /\ PendsOn(t) = PendEvents(Waiting[t])
         /\ \A g : (\E i \in DOMAIN pc[t] : pc[t][i].op = "flag" /\ pc[t][i].grp = g)
                     <=> Waiting[t].op = "flag" /\ Waiting[t].grp = g
  <1>1. Waiting[t] = WaitOf(pc[t])
    BY DEF Waiting
  <1>2. Sched.op = "OS_Sched"
    BY DEF Sched
  <1>3. ASSUME NEW w, NEW s, \/ s = <<w>> \/ s = <<Sched, w>>
        PROVE  \A i \in DOMAIN s : s[i] = w \/ s[i] = Sched
    BY <1>3
  <1>4. ASSUME NEW w, NEW s, \/ s = <<w>> \/ s = <<Sched, w>>
        PROVE  \E i \in DOMAIN s : s[i] = w
    <2>1. CASE s = <<w>>
      <3>1. 1 \in DOMAIN s /\ s[1] = w
        BY <2>1
      <3> QED
        BY <3>1
    <2>2. CASE s = <<Sched, w>>
      <3>1. 2 \in DOMAIN s /\ s[2] = w
        BY <2>2
      <3> QED
        BY <3>1
    <2> QED
      BY <1>4, <2>1, <2>2
  <1>5. CASE \A i \in DOMAIN pc[t] : pc[t][i].op \notin WaitOps
    <2>1. WaitOf(pc[t]) = Sched
      <3>1. pc[t] # <<>> => Len(pc[t]) \in DOMAIN pc[t]
        BY DEF Steps
      <3> QED
        BY <1>5, <3>1 DEF WaitOf
    <2>2. PendSteps(t) = {}
      BY <1>5 DEF PendSteps, WaitOps
    <2>3. PendsOn(t) = {}
      BY <2>2 DEF PendsOn
    <2>4. PendEvents(Sched) = {}
      BY <1>2 DEF PendEvents
    <2> QED
      BY <1>1, <1>2, <1>5, <2>1, <2>3, <2>4 DEF WaitOps
  <1>6. CASE \E w \in WaitStep : pc[t] = <<w>> \/ pc[t] = <<Sched, w>>
    <2>1. PICK w \in WaitStep : pc[t] = <<w>> \/ pc[t] = <<Sched, w>>
      BY <1>6
    <2>2. WaitOf(pc[t]) = w
      BY <2>1, StepForms
    <2>3. PendSteps(t) = {i \in DOMAIN pc[t] : pc[t][i] = w /\ w.op \in {"pend", "multi"}}
      BY <1>2, <1>3, <2>1 DEF PendSteps
    <2>4. PICK j \in DOMAIN pc[t] : pc[t][j] = w
      BY <1>4, <2>1
    <2> DEFINE F(i) == IF pc[t][i].op = "pend" THEN {pc[t][i].event} ELSE pc[t][i].events
    <2>5. PendsOn(t) = UNION {F(i) : i \in PendSteps(t)}
      BY DEF PendsOn
    <2>6. \A i \in PendSteps(t) : F(i) = PendEvents(w)
      BY <2>3 DEF PendEvents
    <2> HIDE DEF F
    <2>7. CASE w.op \in {"pend", "multi"}
      <3>1. j \in PendSteps(t)
        BY <2>3, <2>4, <2>7
      <3>2. {F(i) : i \in PendSteps(t)} = {PendEvents(w)}
        BY <2>6, <3>1
      <3> QED
        BY <1>1, <1>2, <1>3, <2>1, <2>2, <2>5, <2>7, <3>2
    <2>8. CASE w.op \notin {"pend", "multi"}
      <3>1. PendSteps(t) = {} /\ PendEvents(w) = {}
        BY <2>3, <2>8 DEF PendEvents
      <3>2. PendsOn(t) = {}
        BY <2>5, <3>1
      <3> QED
        BY <1>1, <1>2, <1>3, <2>1, <2>2, <2>4, <3>1, <3>2
    <2> QED
      BY <2>7, <2>8
  <1>7. ASSUME ~ \E w \in WaitStep : pc[t] = <<w>> \/ pc[t] = <<Sched, w>>
        PROVE  \A i \in DOMAIN pc[t] : pc[t][i].op \notin WaitOps
    <2>1. CASE pc[t] = <<>> \/ pc[t] = <<Sched>>
      BY <1>2, <2>1 DEF WaitOps
    <2>2. CASE \E w \in OtherStep : pc[t] = <<w>>
      <3>1. PICK w \in OtherStep : pc[t] = <<w>>
        BY <2>2
      <3>2. w.op \notin WaitOps
        BY DEF OtherStep, WaitOps
      <3> QED
        BY <3>1, <3>2
    <2> QED
      BY <1>7, <2>1, <2>2 DEF Steps
  <1> QED
    BY <1>5, <1>6, <1>7

(***************************************************************************)
(* What the invariant says about the lists.                                *)
(***************************************************************************)
LEMMA InvReady ==
  ASSUME Inv PROVE ReadyAgrees
  <1> DEFINE R == {u \in Live : ~Suspended(os.tcb[u]) /\ os.tcb[u].dly = 0 /\ ~StillWaits(u)}
  <1>1. \A u : StillWaits(u) <=> Waits(os.tcb[u])
    BY DEF StillWaits, Waits
  <1>2. \A u \in Live : u \in R <=> Runnable(os.tcb[u])
    BY <1>1 DEF Runnable
  <1>3. Core(os, Live, Waiting)
    BY DEF Inv, TInv
  <1>4. R \subseteq Live
    OBVIOUS
  <1> HIDE DEF R
  <1>5. ASSUME NEW p \in Members(os.rdy)
        PROVE  \E t \in R : p = os.tcb[t].prio
    <2>1. os.prioTbl[p] \in Live /\ os.tcb[os.prioTbl[p]].prio = p
      BY <1>3 DEF Core, Holder
    <2>2. Runnable(os.tcb[os.prioTbl[p]])
      BY <1>3, <2>1 DEF Core, TaskOK
    <2> QED
      BY <1>2, <2>1, <2>2
  <1>6. ASSUME NEW t \in R
        PROVE  os.tcb[t].prio \in Members(os.rdy)
    BY <1>2, <1>3, <1>4 DEF Core, TaskOK
  <1>7. Members(os.rdy) = {os.tcb[t].prio : t \in R}
    BY <1>5, <1>6
  <1> QED
    BY <1>7 DEF ReadyAgrees, R

LEMMA InvWaiters ==
  ASSUME Inv PROVE WaitersAgree
  <1> DEFINE On(e) == {u \in Live : e \in PendsOn(u) /\ (StillWaits(u) \/ os.tcb[u].pend = "TO")}
             In(g) == {t \in Live : /\ \E i \in DOMAIN pc[t] : pc[t][i].op = "flag" /\ pc[t][i].grp = g
                                    /\ StillWaits(t) \/ os.tcb[t].pend = "TO"}
  <1>1. \A u : (StillWaits(u) \/ os.tcb[u].pend = "TO") <=> Listed(os.tcb[u])
    BY DEF StillWaits, Waits, Listed
  <1>2. Core(os, Live, Waiting) /\ Live \subseteq TCBs /\ \A t \in TCBs : Steps(pc[t])
    BY DEF Inv, TInv, Core
  <1>3. \A e : \A u \in Live : u \in On(e) <=> e \in PendEvents(Waiting[u]) /\ Listed(os.tcb[u])
    BY <1>1, <1>2, PendsOnWaits
  <1>4. \A g : \A u \in Live :
          u \in In(g) <=> Waiting[u].op = "flag" /\ Waiting[u].grp = g /\ Listed(os.tcb[u])
    BY <1>1, <1>2, PendsOnWaits
  <1>5. \A e, g : On(e) \subseteq Live /\ In(g) \subseteq Live
    OBVIOUS
  <1> HIDE DEF On, In
  <1>6. ASSUME NEW e \in EventIds
        PROVE  Waiters(os, e) = {os.tcb[t].prio : t \in On(e)}
    <2>1. ASSUME NEW p \in Waiters(os, e)
          PROVE  \E t \in On(e) : p = os.tcb[t].prio
      <3>1. os.prioTbl[p] \in Live /\ os.tcb[os.prioTbl[p]].prio = p
        BY <1>2 DEF Core, Holder
      <3>2. e \in PendEvents(Waiting[os.prioTbl[p]]) /\ Listed(os.tcb[os.prioTbl[p]])
        BY <1>2, <3>1 DEF Core, TaskOK
      <3> QED
        BY <1>3, <3>1, <3>2
    <2>2. ASSUME NEW t \in On(e)
          PROVE  os.tcb[t].prio \in Waiters(os, e)
      BY <1>2, <1>3, <1>5 DEF Core, TaskOK
    <2> QED
      BY <2>1, <2>2
  <1>7. ASSUME NEW g \in FlagIds
        PROVE  os.flag[g].wait = In(g)
    <2>1. \A t \in Live : t \in os.flag[g].wait <=> t \in In(g)
      BY <1>2, <1>4 DEF Core, TaskOK
    <2>2. os.flag[g].wait \subseteq Live
      BY <1>2 DEF Core
    <2> QED
      BY <1>5, <2>1, <2>2
  <1> QED
    BY <1>6, <1>7 DEF WaitersAgree, On, In

LEMMA InvHighest ==
  ASSUME Inv PROVE HighestRuns
  <1> SUFFICES ASSUME os.running, isr = "none", os.lock = 0, pc[os.cur] = <<>>, ~Excepted
               PROVE  /\ os.prioCur = Highest(os.rdy) /\ Has(os.rdy, os.prioCur)
                      /\ os.prioTbl[os.prioCur] = os.cur /\ Cur.prio = os.prioCur
    BY DEF HighestRuns, Excepted
  <1>1. At(os.cur) = "none"
    BY DEF At
  <1>2. os.cur \in Live /\ Runnable(os.tcb[os.cur]) /\ os.tcb[os.cur].prio = os.prioCur
        /\ os.prioCur = Highest(os.rdy)
    BY <1>1 DEF Inv, TInv, Running, Stopping
  <1>3. TaskOK(os, Waiting[os.cur], os.cur)
    BY <1>2 DEF Inv, TInv, Core
  <1> QED
    BY <1>2, <1>3 DEF TaskOK, Cur, Members

(***************************************************************************)
(* The ready list holds exactly the tasks without a reason to wait,        *)
(* however the critical sections of the services, the tick and the         *)
(* handlers are interleaved (OS_EventTaskRdy, OSTimeTick, OSTaskResume,    *)
(* OSTaskChangePrio).  This and the theorems that follow are about every   *)
(* application without mutexes that keeps to the rules of Supported: above *)
(* all, where OSEventPendMulti is called no task is suspended and no       *)
(* semaphore, mailbox or queue is deleted.  No priority is changed between *)
(* the post that ends a wait and the return of the pend, and no object is  *)
(* deleted that another task has checked and not used yet.                 *)
(***************************************************************************)
THEOREM ReadyListAgrees ==
  ASSUME Ruled, ~PrioChangeOfWoken, ~DeletionRaces PROVE Spec => []ReadyAgrees
  <1>1. Init => KInv /\ Inv
    BY InitGood, InitInv
  <1>2. KInv /\ Inv /\ [Next]_vars => KInv' /\ Inv'
    BY NextInv, StepKept
  <1>3. Inv => ReadyAgrees
    BY InvReady
  <1> QED
    BY <1>1, <1>2, <1>3, PTL DEF Spec

(***************************************************************************)
(* Every wait list holds exactly the tasks that wait for its event or      *)
(* group and those that have not seen their timeout yet, so that no post   *)
(* is given to a task that does not wait (OSTCBEventPtr and the tables of  *)
(* os_core.c, the lists of os_flag.c), under the rules of ReadyListAgrees: *)
(* a pend that has checked an object finds it in its section, so that no   *)
(* creation clears a list with a waiter in it.                             *)
(***************************************************************************)
THEOREM WaitListsAgree ==
  ASSUME Ruled, ~PrioChangeOfWoken, ~DeletionRaces PROVE Spec => []WaitersAgree
  <1>1. Init => KInv /\ Inv
    BY InitGood, InitInv
  <1>2. KInv /\ Inv /\ [Next]_vars => KInv' /\ Inv'
    BY NextInv, StepKept
  <1>3. Inv => WaitersAgree
    BY InvWaiters
  <1> QED
    BY <1>1, <1>2, <1>3, PTL DEF Spec

(***************************************************************************)
(* No reschedule is forgotten: between two services the highest ready      *)
(* priority runs (OS_Sched, OSIntExit, OSStart), under the rules of        *)
(* ReadyListAgrees.                                                        *)
(***************************************************************************)
THEOREM HighestPriorityRuns ==
  ASSUME Ruled, ~PrioChangeOfWoken, ~DeletionRaces PROVE Spec => []HighestRuns
  <1>1. Init => KInv /\ Inv
    BY InitGood, InitInv
  <1>2. KInv /\ Inv /\ [Next]_vars => KInv' /\ Inv'
    BY NextInv, StepKept
  <1>3. Inv => HighestRuns
    BY InvHighest
  <1> QED
    BY <1>1, <1>2, <1>3, PTL DEF Spec

(***************************************************************************)
(* Kernel data l that has the same control blocks in use as k, the same    *)
(* memory, the same counts, messages and flags, and the same flags granted *)
(* to every task: only waits, delays and the ready list differ.            *)
(***************************************************************************)
Shape(k) ==
  /\ DOMAIN k = Fields /\ DOMAIN k.tcb = TCBs /\ DOMAIN k.event = EventIds /\ DOMAIN k.flag = FlagIds
  /\ \A t \in TCBs : DOMAIN k.tcb[t] = TCBFields
  /\ \A e \in EventIds : DOMAIN k.event[e] = ECBFields
  /\ \A g \in FlagIds : DOMAIN k.flag[g] = FlagFields

SameTasks(k, l)  == l.prioTbl = k.prioTbl /\ l.list = k.list /\ l.free = k.free
SameTypes(k, l)  == /\ l.freeEvents = k.freeEvents /\ l.freeQs = k.freeQs
                    /\ \A e \in EventIds : l.event[e].type = k.event[e].type
SameKinds(k, l)  == /\ l.freeFlags = k.freeFlags
                    /\ \A g \in FlagIds : l.flag[g].type = k.flag[g].type
SameStored(k, l) == \A e \in EventIds : l.event[e].cnt = k.event[e].cnt /\ l.event[e].ptr = k.event[e].ptr
SameNodes(k, l)  == /\ l.flag = k.flag
                    /\ \A t \in TCBs : /\ l.tcb[t].flagsRdy = k.tcb[t].flagsRdy
                                       /\ l.tcb[t].node = k.tcb[t].node

Stable(k, l)  == SameTasks(k, l) /\ SameTypes(k, l) /\ SameKinds(k, l) /\ l.mem = k.mem
Apart(k, l)   == Stable(k, l) /\ SameStored(k, l)
Inert(k, l)   == Apart(k, l) /\ SameNodes(k, l)
Shrinks(k, l) == \A e \in EventIds : Waiters(l, e) \subseteq Waiters(k, e)

LEMMA DataShape ==
  ASSUME NEW k, Data(k) PROVE Shape(k)
  BY DEF Data, Shape

LEMMA InertTrans ==
  ASSUME NEW k, NEW l, NEW m, Inert(k, l), Inert(l, m) PROVE Inert(k, m)
  BY DEF Inert, Apart, Stable, SameTasks, SameTypes, SameKinds, SameStored, SameNodes

LEMMA InertSelf ==
  ASSUME NEW k PROVE Inert(k, k)
  BY DEF Inert, Apart, Stable, SameTasks, SameTypes, SameKinds, SameStored, SameNodes

LEMMA ReadyInert ==
  ASSUME NEW k, Shape(k), NEW S, NEW l, l = MakeReady(k, S) \/ l = MakeUnready(k, S)
  PROVE  Shape(l) /\ Inert(k, l) /\ l.event = k.event
  <1>1. \A f \in Fields \ {"rdy"} : l[f] = k[f]
    BY DEF MakeReady, MakeUnready, Shape
  <1>2. DOMAIN l = Fields
    BY DEF MakeReady, MakeUnready, Shape
  <1> QED
    BY <1>1, <1>2 DEF Shape, Fields, Inert, Apart, Stable, SameTasks, SameTypes, SameKinds, SameStored, SameNodes

(* Only control blocks of tasks, the ready list and wait lists change.     *)
LEMMA InertParts ==
  ASSUME NEW k, Shape(k), NEW l, DOMAIN l = Fields,
         \A f \in Fields \ {"rdy", "tcb", "event", "lock", "cur", "prioCur", "running"} : l[f] = k[f],
         DOMAIN l.tcb = TCBs, DOMAIN l.event = EventIds,
         \A t \in TCBs : /\ DOMAIN l.tcb[t] = TCBFields
                         /\ l.tcb[t].flagsRdy = k.tcb[t].flagsRdy /\ l.tcb[t].node = k.tcb[t].node,
         \A e \in EventIds : \A f \in ECBFields \ {"wait"} :
           DOMAIN l.event[e] = ECBFields /\ l.event[e][f] = k.event[e][f]
  PROVE  Shape(l) /\ Inert(k, l)
  <1>1. \A e \in EventIds : DOMAIN l.event[e] = ECBFields /\ l.event[e].type = k.event[e].type
                            /\ l.event[e].cnt = k.event[e].cnt /\ l.event[e].ptr = k.event[e].ptr
    BY DEF ECBFields
  <1>2. l.prioTbl = k.prioTbl /\ l.list = k.list /\ l.free = k.free /\ l.freeEvents = k.freeEvents
        /\ l.freeQs = k.freeQs /\ l.freeFlags = k.freeFlags /\ l.mem = k.mem /\ l.flag = k.flag
    BY DEF Fields
  <1>3. Shape(l)
    BY <1>1, <1>2 DEF Shape
  <1> QED
    BY <1>1, <1>2, <1>3 DEF Inert, Apart, Stable, SameTasks, SameTypes, SameKinds, SameStored, SameNodes

LEMMA ExpireInert ==
  ASSUME NEW k, Shape(k), NEW S, NEW l, l = Expire(k, S)
  PROVE  Shape(l) /\ Inert(k, l) /\ l.event = k.event
  <1>1. /\ DOMAIN l = Fields /\ \A f \in Fields \ {"rdy", "tcb"} : l[f] = k[f]
        /\ l.tcb = [t \in TCBs |-> IF t \notin S THEN k.tcb[t] ELSE Expired(k.tcb[t])]
    BY DEF Expire, Expired, Shape, Fields
  <1>2. ASSUME NEW x, DOMAIN x = TCBFields
        PROVE  /\ DOMAIN Expired(x) = TCBFields
               /\ Expired(x).flagsRdy = x.flagsRdy /\ Expired(x).node = x.node
    BY <1>2 DEF Expired, TCBFields
  <1>3. \A t \in TCBs : DOMAIN l.tcb[t] = TCBFields /\ l.tcb[t].flagsRdy = k.tcb[t].flagsRdy
                        /\ l.tcb[t].node = k.tcb[t].node
    BY <1>1, <1>2 DEF Shape
  <1>4. l.event = k.event /\ DOMAIN l.tcb = TCBs
    BY <1>1 DEF Fields
  <1> QED
    BY <1>1, <1>3, <1>4, InertParts DEF Shape

LEMMA DeleteShrinks ==
  ASSUME NEW T, NEW S PROVE Members(Delete(T, S)) \subseteq Members(T)
  <1>1. \A p \in Prios : Y(p) \in RowSet
    BY Places
  <1> QED
    BY <1>1 DEF Members, Has, Delete

LEMMA RemoveInert ==
  ASSUME NEW k, Shape(k), NEW E, NEW l, l = OS_EventTaskRemoveMulti(k, E)
  PROVE  Shape(l) /\ Inert(k, l) /\ Shrinks(k, l)
  <1> DEFINE W(e) == Delete(k.event[e].wait, {k.tcb[t].prio : t \in {u \in DOMAIN E : e \in E[u]}})
  <1>1. /\ DOMAIN l = Fields /\ \A f \in Fields \ {"event"} : l[f] = k[f]
        /\ l.event = [e \in EventIds |-> [k.event[e] EXCEPT !.wait = W(e)]]
    BY DEF OS_EventTaskRemoveMulti, Shape, Fields
  <1> HIDE DEF W
  <1>2. \A e \in EventIds : \A f \in ECBFields \ {"wait"} :
          DOMAIN l.event[e] = ECBFields /\ l.event[e][f] = k.event[e][f]
    BY <1>1 DEF Shape, ECBFields
  <1>3. l.tcb = k.tcb /\ DOMAIN l.event = EventIds
    BY <1>1 DEF Fields
  <1>4. Shrinks(k, l)
    <2> SUFFICES ASSUME NEW e \in EventIds PROVE Waiters(l, e) \subseteq Waiters(k, e)
      BY DEF Shrinks
    <2>1. l.event[e].wait = W(e)
      BY <1>1 DEF Shape, ECBFields
    <2> QED
      BY <2>1, DeleteShrinks DEF W, Waiters
  <1> QED
    BY <1>1, <1>2, <1>3, <1>4, InertParts DEF Shape

(* One control block changes, but not the flags it was granted.            *)
LEMMA TCBInert ==
  ASSUME NEW k, Shape(k), NEW c \in TCBs, NEW y, DOMAIN y = TCBFields, y.flagsRdy = k.tcb[c].flagsRdy,
         y.node = k.tcb[c].node, NEW l, l = [k EXCEPT !.tcb[c] = y]
  PROVE  Shape(l) /\ Inert(k, l) /\ l.cur = k.cur /\ l.event = k.event
  <1>1. DOMAIN l = Fields /\ \A f \in Fields \ {"tcb"} : l[f] = k[f]
    BY DEF Shape, Fields
  <1>2. l.tcb = [k.tcb EXCEPT ![c] = y]
    BY DEF Shape, Fields
  <1>3. DOMAIN l.tcb = TCBs
        /\ \A t \in TCBs : DOMAIN l.tcb[t] = TCBFields /\ l.tcb[t].flagsRdy = k.tcb[t].flagsRdy
                           /\ l.tcb[t].node = k.tcb[t].node
    BY <1>2 DEF Shape
  <1>4. l.event = k.event /\ l.cur = k.cur
    BY <1>1 DEF Fields
  <1>5. DOMAIN l.event = EventIds /\ \A e \in EventIds : DOMAIN l.event[e] = ECBFields
    BY <1>4 DEF Shape
  <1> HIDE DEF Shape
  <1>6. Shape(l) /\ Inert(k, l)
    BY <1>1, <1>3, <1>4, <1>5, InertParts
  <1> QED
    BY <1>4, <1>6

LEMMA StartPendInert ==
  ASSUME NEW k, Shape(k), NEW bits, NEW timeout, NEW l, l = StartPend(k, bits, timeout),
         NEW c \in TCBs, RunsIn(k, c)
  PROVE  Shape(l) /\ Inert(k, l) /\ RunsIn(l, c) /\ l.event = k.event
  <1> DEFINE x == k.tcb[c]
             y == [x EXCEPT !.stat = @ \cup bits, !.pend = "OK", !.dly = timeout]
  <1>1. l = [k EXCEPT !.tcb[c] = y]
    BY DEF StartPend, Shape, RunsIn
  <1>2. DOMAIN y = TCBFields /\ y.flagsRdy = x.flagsRdy /\ y.node = x.node
    BY DEF Shape, TCBFields
  <1> HIDE DEF y
  <1> QED
    BY <1>1, <1>2, TCBInert DEF RunsIn

LEMMA WaitInert ==
  ASSUME NEW k, Shape(k), NEW e, NEW l, l = OS_EventTaskWait(k, e)
  PROVE  /\ Shape(l) /\ Inert(k, l)
         /\ \A d \in EventIds : d # e => Waiters(l, d) = Waiters(k, d)
  <1> DEFINE m == [k EXCEPT !.tcb[k.cur].event = e, !.event[e].wait = Insert(@, {k.tcb[k.cur].prio})]
  <1>1. DOMAIN m = Fields /\ \A f \in Fields \ {"tcb", "event"} : m[f] = k[f]
    BY DEF Shape, Fields
  <1>2. DOMAIN m.tcb = TCBs
        /\ \A t \in TCBs : DOMAIN m.tcb[t] = TCBFields /\ m.tcb[t].flagsRdy = k.tcb[t].flagsRdy
                          /\ m.tcb[t].node = k.tcb[t].node
    BY DEF Shape, Fields, TCBFields
  <1>3. DOMAIN m.event = EventIds /\ \A d \in EventIds : \A f \in ECBFields \ {"wait"} :
          DOMAIN m.event[d] = ECBFields /\ m.event[d][f] = k.event[d][f]
    BY DEF Shape, Fields, ECBFields
  <1>4. \A d \in EventIds : d # e => m.event[d] = k.event[d]
    BY DEF Shape, Fields
  <1>5. l = MakeUnready(m, {k.cur})
    BY DEF OS_EventTaskWait
  <1> HIDE DEF m
  <1>6. Shape(m) /\ Inert(k, m)
    BY <1>1, <1>2, <1>3, InertParts DEF Shape
  <1>7. Shape(l) /\ Inert(m, l) /\ l.event = m.event
    BY <1>5, <1>6, ReadyInert
  <1> QED
    BY <1>4, <1>6, <1>7, InertTrans DEF Waiters

LEMMA WaitMultiInert ==
  ASSUME NEW k, Shape(k), NEW E, NEW l, l = OS_EventTaskWaitMulti(k, E)
  PROVE  /\ Shape(l) /\ Inert(k, l)
         /\ \A d \in EventIds : d \notin E => Waiters(l, d) = Waiters(k, d)
  <1> DEFINE W(e) == Insert(k.event[e].wait, {k.tcb[k.cur].prio})
             m == [k EXCEPT !.tcb[k.cur].event = None, !.tcb[k.cur].multi = E,
                            !.event = [e \in EventIds |->
                                         IF e \in E THEN [k.event[e] EXCEPT !.wait = W(e)]
                                         ELSE k.event[e]]]
  <1>1. l = MakeUnready(m, {k.cur})
    BY DEF OS_EventTaskWaitMulti
  <1> HIDE DEF W
  <1>2. DOMAIN m = Fields /\ \A f \in Fields \ {"tcb", "event"} : m[f] = k[f]
    BY DEF Shape, Fields
  <1>3. DOMAIN m.tcb = TCBs
        /\ \A t \in TCBs : DOMAIN m.tcb[t] = TCBFields /\ m.tcb[t].flagsRdy = k.tcb[t].flagsRdy
                          /\ m.tcb[t].node = k.tcb[t].node
    BY DEF Shape, Fields, TCBFields
  <1>4. DOMAIN m.event = EventIds /\ \A d \in EventIds : \A f \in ECBFields \ {"wait"} :
          DOMAIN m.event[d] = ECBFields /\ m.event[d][f] = k.event[d][f]
    BY DEF Shape, Fields, ECBFields
  <1>5. \A d \in EventIds : d \notin E => m.event[d] = k.event[d]
    BY DEF Shape, Fields
  <1> HIDE DEF m
  <1>6. Shape(m) /\ Inert(k, m)
    BY <1>2, <1>3, <1>4, InertParts DEF Shape
  <1>7. Shape(l) /\ Inert(m, l) /\ l.event = m.event
    BY <1>1, <1>6, ReadyInert
  <1> QED
    BY <1>5, <1>6, <1>7, InertTrans DEF Waiters

LEMMA WakeInert ==
  ASSUME NEW k, Shape(k), NEW e, NEW P, NEW msg, NEW msk, NEW pend,
         NEW l, l = OS_EventTaskRdy(k, e, P, msg, msk, pend)
  PROVE  Shape(l) /\ Inert(k, l) /\ Shrinks(k, l)
  <1> DEFINE S == {Task(k, p) : p \in P}
             m == [k EXCEPT !.tcb = [t \in TCBs |->
                     IF t \notin S THEN k.tcb[t] ELSE Awake(k.tcb[t], e, msg, msk, pend)]]
             R == {t \in S : ~Suspended(k.tcb[t])}
             E == [t \in S |-> {e} \cup k.tcb[t].multi]
  <1>1. l = OS_EventTaskRemoveMulti(MakeReady(m, R), E)
    BY DEF OS_EventTaskRdy, Awake
  <1> HIDE DEF S, R, E
  <1>2. ASSUME NEW x, DOMAIN x = TCBFields
        PROVE  /\ DOMAIN Awake(x, e, msg, msk, pend) = TCBFields
               /\ Awake(x, e, msg, msk, pend).flagsRdy = x.flagsRdy
               /\ Awake(x, e, msg, msk, pend).node = x.node
    BY <1>2 DEF Awake, TCBFields
  <1>3. DOMAIN m = Fields /\ \A f \in Fields \ {"tcb"} : m[f] = k[f]
    BY DEF Shape, Fields
  <1>4. m.tcb = [t \in TCBs |-> IF t \notin S THEN k.tcb[t] ELSE Awake(k.tcb[t], e, msg, msk, pend)]
    BY DEF Shape, Fields
  <1> HIDE DEF m
  <1>5. DOMAIN m.tcb = TCBs
        /\ \A t \in TCBs : DOMAIN m.tcb[t] = TCBFields /\ m.tcb[t].flagsRdy = k.tcb[t].flagsRdy
                          /\ m.tcb[t].node = k.tcb[t].node
    BY <1>2, <1>4 DEF Shape
  <1>6. m.event = k.event
    BY <1>3 DEF Fields
  <1>7. Shape(m) /\ Inert(k, m)
    BY <1>3, <1>5, <1>6, InertParts DEF Shape
  <1>8. PICK n : n = MakeReady(m, R)
    OBVIOUS
  <1>9. Shape(n) /\ Inert(m, n)
    BY <1>7, <1>8, ReadyInert
  <1>10. Shape(l) /\ Inert(n, l) /\ Shrinks(n, l)
    BY <1>1, <1>8, <1>9, RemoveInert
  <1>11. n.event = k.event
    BY <1>6, <1>7, <1>8, ReadyInert
  <1> QED
    BY <1>7, <1>9, <1>10, <1>11, InertTrans DEF Shrinks, Waiters

LEMMA EndPendInert ==
  ASSUME NEW k, Shape(k), NEW E, NEW l, l = EndPend(k, E), NEW c \in TCBs, RunsIn(k, c)
  PROVE  Shape(l) /\ Inert(k, l) /\ Shrinks(k, l)
  <1> DEFINE m == IF k.tcb[c].pend = "TO" THEN OS_EventTaskRemoveMulti(k, [t \in {c} |-> E]) ELSE k
  <1>1. Shape(m) /\ Inert(k, m) /\ Shrinks(k, m)
    BY RemoveInert, InertSelf DEF Shrinks
  <1>2. l = [m EXCEPT !.tcb[c].stat = {}, !.tcb[c].pend = "OK", !.tcb[c].event = None,
                      !.tcb[c].multi = {}, !.tcb[c].msg = None]
    BY DEF EndPend, RunsIn
  <1> HIDE DEF m
  <1>3. DOMAIN m.tcb = TCBs /\ DOMAIN m.tcb[c] = TCBFields /\ DOMAIN m = Fields
    BY <1>1 DEF Shape
  <1>4. DOMAIN l = Fields /\ \A f \in Fields \ {"tcb"} : l[f] = m[f]
    BY <1>2, <1>3 DEF Fields
  <1>5. DOMAIN l.tcb = TCBs /\ \A t \in TCBs : t # c => l.tcb[t] = m.tcb[t]
    BY <1>2, <1>3 DEF Fields
  <1>6. DOMAIN l.tcb[c] = TCBFields /\ l.tcb[c].flagsRdy = m.tcb[c].flagsRdy
        /\ l.tcb[c].node = m.tcb[c].node
    BY <1>2, <1>3 DEF Fields, TCBFields
  <1>7. l.event = m.event
    BY <1>4 DEF Fields
  <1>8. \A t \in TCBs : DOMAIN l.tcb[t] = TCBFields /\ l.tcb[t].flagsRdy = m.tcb[t].flagsRdy
                        /\ l.tcb[t].node = m.tcb[t].node
    BY <1>1, <1>5, <1>6 DEF Shape
  <1>9. Shape(l) /\ Inert(m, l)
    BY <1>1, <1>4, <1>5, <1>7, <1>8, InertParts DEF Shape
  <1> QED
    BY <1>1, <1>7, <1>9, InertTrans DEF Shrinks, Waiters

LEMMA SwitchInert ==
  ASSUME NEW k, Shape(k), NEW l, l = Switch(k)
  PROVE  Shape(l) /\ Inert(k, l) /\ l.event = k.event
  <1>1. DOMAIN l = Fields /\ \A f \in Fields \ {"cur", "prioCur"} : l[f] = k[f]
    BY DEF Switch, Shape, Fields
  <1> QED
    BY <1>1 DEF Shape, Fields, Inert, Apart, Stable, SameTasks, SameTypes, SameKinds, SameStored, SameNodes

(* Only control blocks of tasks, the ready list and wait lists of flag     *)
(* groups change.                                                          *)
LEMMA ApartParts ==
  ASSUME NEW k, Shape(k), NEW l, DOMAIN l = Fields,
         \A f \in Fields \ {"rdy", "tcb", "flag"} : l[f] = k[f],
         DOMAIN l.tcb = TCBs, \A t \in TCBs : DOMAIN l.tcb[t] = TCBFields, DOMAIN l.flag = FlagIds,
         \A g \in FlagIds : DOMAIN l.flag[g] = FlagFields /\ l.flag[g].type = k.flag[g].type
  PROVE  Shape(l) /\ Apart(k, l) /\ l.event = k.event
  <1>1. l.prioTbl = k.prioTbl /\ l.list = k.list /\ l.free = k.free /\ l.freeEvents = k.freeEvents
        /\ l.freeQs = k.freeQs /\ l.freeFlags = k.freeFlags /\ l.mem = k.mem /\ l.event = k.event
    BY DEF Fields
  <1> QED
    BY <1>1 DEF Shape, Apart, Stable, SameTasks, SameTypes, SameKinds, SameStored

LEMMA ApartTrans ==
  ASSUME NEW k, NEW l, NEW m, Apart(k, l), Apart(l, m) PROVE Apart(k, m)
  BY DEF Apart, Stable, SameTasks, SameTypes, SameKinds, SameStored

(* Task t leaves its flag group.                                           *)
SameFlags(k, l) == \A g \in FlagIds : l.flag[g].flags = k.flag[g].flags
SameNode(k, l, t) == l.tcb[t].flagsRdy = k.tcb[t].flagsRdy /\ l.tcb[t].node = k.tcb[t].node
FewerFlags(k, l) == \A g \in FlagIds : l.flag[g].wait \subseteq k.flag[g].wait

LEMMA UnlinkApart ==
  ASSUME NEW k, Shape(k), NEW t \in TCBs, NEW l, l = OS_FlagUnlink(k, t)
  PROVE  /\ Shape(l) /\ Apart(k, l) /\ l.event = k.event
         /\ SameFlags(k, l) /\ FewerFlags(k, l) /\ \A u \in TCBs : u # t => SameNode(k, l, u)
  <1>1. CASE k.tcb[t].node = None
    BY <1>1, InertSelf DEF OS_FlagUnlink, Inert, SameFlags, FewerFlags, SameNode
  <1>2. CASE k.tcb[t].node # None
    <2> DEFINE h == k.tcb[t].node.grp
    <2>1. l = [k EXCEPT !.flag[h].wait = @ \ {t}, !.tcb[t].node = None]
      BY <1>2 DEF OS_FlagUnlink
    <2> HIDE DEF h
    <2>2. DOMAIN l = Fields /\ \A f \in Fields \ {"rdy", "tcb", "flag"} : l[f] = k[f]
      BY <2>1 DEF Shape, Fields
    <2>3. DOMAIN l.tcb = TCBs /\ \A u \in TCBs : DOMAIN l.tcb[u] = TCBFields
      BY <2>1 DEF Shape, Fields
    <2>4. \A u \in TCBs : u # t => l.tcb[u] = k.tcb[u]
      BY <2>1 DEF Shape, Fields
    <2>5. DOMAIN l.flag = FlagIds
          /\ \A g \in FlagIds : /\ DOMAIN l.flag[g] = FlagFields /\ l.flag[g].type = k.flag[g].type
                                /\ l.flag[g].flags = k.flag[g].flags
                                /\ l.flag[g].wait \subseteq k.flag[g].wait
      BY <2>1 DEF Shape, Fields, FlagFields
    <2> QED
      BY <2>2, <2>3, <2>4, <2>5, ApartParts DEF SameFlags, FewerFlags, SameNode
  <1> QED
    BY <1>1, <1>2

(* The running task c joins flag group g.                                  *)
LEMMA FlagBlockApart ==
  ASSUME Shape(os), NEW g \in FlagIds, NEW cond, NEW timeout, NEW l, l = OS_FlagBlock(g, cond, timeout),
         NEW c \in TCBs, RunsIn(os, c)
  PROVE  /\ Shape(l) /\ Apart(os, l) /\ l.event = os.event
         /\ SameFlags(os, l) /\ \A u \in TCBs : u # c => SameNode(os, l, u)
         /\ l.tcb[c].node = [grp |-> g, cond |-> cond]
         /\ \A h \in FlagIds : \A u : u \in l.flag[h].wait => u \in os.flag[h].wait \/ (h = g /\ u = c)
  <1> PICK bits : bits = {"FLAG"}
    OBVIOUS
  <1>1. PICK m : m = StartPend(os, bits, timeout)
    OBVIOUS
  <1>2. Shape(m) /\ Inert(os, m) /\ RunsIn(m, c) /\ m.event = os.event
    BY <1>1, StartPendInert
  <1> DEFINE n == [m EXCEPT !.flag[g].wait = @ \cup {c}, !.tcb[c].node = [grp |-> g, cond |-> cond]]
  <1>3. DOMAIN n = Fields /\ \A f \in Fields \ {"rdy", "tcb", "flag"} : n[f] = m[f]
    BY <1>2 DEF Shape, Fields
  <1>4. DOMAIN n.tcb = TCBs /\ \A u \in TCBs : DOMAIN n.tcb[u] = TCBFields
    BY <1>2 DEF Shape, Fields
  <1>5. n.tcb[c].node = [grp |-> g, cond |-> cond] /\ \A u \in TCBs : u # c => n.tcb[u] = m.tcb[u]
    BY <1>2 DEF Shape, Fields, TCBFields
  <1>6. DOMAIN n.flag = FlagIds
        /\ \A h \in FlagIds : /\ DOMAIN n.flag[h] = FlagFields /\ n.flag[h].type = m.flag[h].type
                              /\ n.flag[h].flags = m.flag[h].flags
                              /\ \A u : u \in n.flag[h].wait => u \in m.flag[h].wait \/ (h = g /\ u = c)
    BY <1>2 DEF Shape, Fields, FlagFields
  <1>7. l = MakeUnready(n, {c})
    BY <1>1, <1>2 DEF OS_FlagBlock, RunsIn
  <1> HIDE DEF n
  <1>8. Shape(n) /\ Apart(m, n) /\ n.event = m.event
    BY <1>2, <1>3, <1>4, <1>6, ApartParts
  <1>9. Shape(l) /\ Inert(n, l) /\ l.event = n.event
    BY <1>7, <1>8, ReadyInert
  <1>10. Apart(os, l)
    BY <1>2, <1>8, <1>9, ApartTrans DEF Inert
  <1>11. m.flag = os.flag /\ l.flag = n.flag /\ \A u \in TCBs : SameNode(os, m, u) /\ SameNode(n, l, u)
    BY <1>2, <1>9 DEF Inert, SameNodes, SameNode
  <1>12. SameFlags(os, l)
    BY <1>6, <1>11 DEF SameFlags
  <1>13. \A u \in TCBs : u # c => SameNode(os, l, u)
    BY <1>5, <1>11 DEF SameNode
  <1>14. l.tcb[c].node = [grp |-> g, cond |-> cond]
    BY <1>5, <1>11 DEF SameNode
  <1> QED
    BY <1>2, <1>6, <1>8, <1>9, <1>10, <1>11, <1>12, <1>13, <1>14

(* The tasks S get the flags rdy.                                          *)
LEMMA GrantApart ==
  ASSUME NEW k, Shape(k), NEW S, NEW rdy, NEW l, l = OS_FlagTaskRdy(k, S, rdy)
  PROVE  /\ Shape(l) /\ Apart(k, l) /\ l.event = k.event /\ SameFlags(k, l)
         /\ \A t \in TCBs \ S : SameNode(k, l, t)
         /\ \A t \in S \cap TCBs : l.tcb[t].flagsRdy = rdy[t] /\ l.tcb[t].node = None
         /\ \A g \in FlagIds : l.flag[g].wait = k.flag[g].wait \ S
  <1> DEFINE F == [t \in TCBs |-> IF t \notin S THEN k.tcb[t] ELSE Granted(k.tcb[t], rdy[t])]
             G == [g \in FlagIds |-> [k.flag[g] EXCEPT !.wait = @ \ S]]
             m == [k EXCEPT !.tcb = F, !.flag = G]
  <1>1. l = MakeReady(m, {t \in S : m.tcb[t].stat = {}})
    BY DEF OS_FlagTaskRdy, Granted
  <1>2. ASSUME NEW x, DOMAIN x = TCBFields, NEW r
        PROVE  /\ DOMAIN Granted(x, r) = TCBFields
               /\ Granted(x, r).flagsRdy = r /\ Granted(x, r).node = None
    BY <1>2 DEF Granted, TCBFields
  <1>3. \A t \in TCBs : /\ DOMAIN F[t] = TCBFields
                        /\ t \notin S => F[t] = k.tcb[t]
                        /\ t \in S => F[t].flagsRdy = rdy[t] /\ F[t].node = None
    BY <1>2 DEF Shape
  <1>4. \A g \in FlagIds : /\ DOMAIN G[g] = FlagFields /\ G[g].type = k.flag[g].type
                           /\ G[g].flags = k.flag[g].flags /\ G[g].wait = k.flag[g].wait \ S
    BY DEF Shape, FlagFields
  <1>5. DOMAIN F = TCBs /\ DOMAIN G = FlagIds
    OBVIOUS
  <1> HIDE DEF F, G
  <1>6. DOMAIN m = Fields /\ \A f \in Fields \ {"tcb", "flag"} : m[f] = k[f]
    BY DEF Shape, Fields
  <1>7. m.tcb = F /\ m.flag = G
    BY DEF Shape, Fields
  <1> HIDE DEF m
  <1>8. Shape(m) /\ Apart(k, m) /\ m.event = k.event
    BY <1>3, <1>4, <1>5, <1>6, <1>7, ApartParts
  <1>9. PICK R : R = {t \in S : m.tcb[t].stat = {}}
    OBVIOUS
  <1>10. Shape(l) /\ Inert(m, l) /\ l.event = m.event
    BY <1>1, <1>8, <1>9, ReadyInert
  <1>11. l.flag = G /\ \A t \in TCBs : l.tcb[t].flagsRdy = F[t].flagsRdy /\ l.tcb[t].node = F[t].node
    BY <1>7, <1>10 DEF Inert, SameNodes
  <1>12. Apart(k, l)
    BY <1>8, <1>10, ApartTrans DEF Inert
  <1> QED
    BY <1>3, <1>4, <1>8, <1>10, <1>11, <1>12 DEF SameFlags, SameNode

(***************************************************************************)
(* Nothing is lost: every control block that is not in use is in its free  *)
(* list or in the hands of the task that is about to use it, and the       *)
(* queues and the memory blocks add up.                                    *)
(***************************************************************************)
OnList(s, x) == \E i \in DOMAIN s : s[i] = x
TasksKept ==
  /\ \A t \in TCBs \ os.list : OnList(os.free, t) \/ \E u \in TCBs : At(u) = "link" /\ Head(pc[u]).tcb = t
  /\ \A p \in Prios : os.prioTbl[p] = Reserved =>
       \E u \in TCBs : At(u) \in CreationOps /\ Head(pc[u]).prio = p
EventsKept ==
  \A e \in EventIds : os.event[e].type = "UNUSED" =>
    OnList(os.freeEvents, e) \/ \E u \in TCBs : At(u) = "OSQCreate" /\ Head(pc[u]).event = e
GroupsKept ==
  \A g \in FlagIds : /\ os.flag[g].type \in {"UNUSED", "FLAG"}
                     /\ os.flag[g].type = "UNUSED" => OnList(os.freeFlags, g)
InUse(k) == {e \in EventIds : k.event[e].type = "Q"}
QsKept ==
  os.freeQs \in Nat /\ os.freeQs + Cardinality(InUse(os))
                         = app.freeQs + Cardinality({e \in DOMAIN app.events : app.events[e].type = "Q"})
PartOK(part) ==
  /\ part \in [free : Seq(Blocks), nFree : Nat, held : SUBSET Blocks]
  /\ Distinct(part.free) /\ Len(part.free) = part.nFree
  /\ \A b \in Blocks : OnList(part.free, b) <=> b \notin part.held
MemOK(m) ==
  /\ DOMAIN m = {"headers", "parts"} /\ m.headers \in Nat
  /\ m.parts \in Seq([free : Seq(Blocks), nFree : Nat, held : SUBSET Blocks])
  /\ \A i \in DOMAIN m.parts : PartOK(m.parts[i])
Creating == {t \in TCBs : At(t) = "OSMemCreate"}
MemKept ==
  MemOK(os.mem) /\ os.mem.headers + Len(os.mem.parts) + Cardinality(Creating) = app.mem

(***************************************************************************)
(* Nobody waits for what an event has, who was woken with flags got those  *)
(* it asked for, and nobody waits for flags that are there.  The last      *)
(* needs an application whose conditions all ask for flags that are set,   *)
(* or all for flags that are clear: a task that consumes flags of the      *)
(* other kind wakes nobody.                                                *)
(***************************************************************************)
OnePolarity == \A a \in Profiles : \A c, d \in a.conds : c.set = d.set
HasSome(ev) == \/ ev.type = "SEM" /\ ev.cnt > 0
               \/ ev.type = "MBOX" /\ ev.ptr # None
               \/ ev.type = "Q" /\ ev.ptr.entries > 0
NoneWaits == \A e \in EventIds : HasSome(os.event[e]) => Waiters(os, e) = {}
GotFlags(F, c) == F = {} \/ (F \subseteq c.flags /\ (c.any \/ F = c.flags))
FlagsKept ==
  \A t \in Live : Waiting[t].op = "flag" =>
    /\ Waiting[t].cond \in app.conds
    /\ os.tcb[t].node = None => GotFlags(os.tcb[t].flagsRdy, Waiting[t].cond)
NobodyServed ==
  \A g \in FlagIds : \A t \in os.flag[g].wait : ~Satisfied(os.flag[g].flags, os.tcb[t].node.cond)

StocksKept == TasksKept /\ EventsKept /\ GroupsKept /\ QsKept /\ MemKept
Books == StocksKept /\ NoneWaits /\ FlagsKept /\ (OnePolarity => NobodyServed)

(* No task starts or ends the step op. *)
OpSame(op) == \A t \in TCBs : /\ NextOp(pc'[t]) = op <=> At(t) = op
                              /\ At(t) = op => pc'[t] = pc[t]
StockOps == CreationOps \cup {"OSQCreate", "OSMemCreate"}

(* The type of an object changes only when an unused control block is      *)
(* taken, or in the section of a deletion that its task has checked.       *)
Deleting == isr = "none" /\ seen[os.cur].deletes /\ seen' = [seen EXCEPT ![os.cur] = NothingSeen]
TypesStay ==
  /\ \A e \in EventIds : \/ os'.event[e].type = os.event[e].type
                         \/ os.event[e].type = "UNUSED"
                         \/ Deleting /\ e \in seen[os.cur].events
  /\ \A g \in FlagIds : \/ os'.flag[g].type = os.flag[g].type
                        \/ os.flag[g].type = "UNUSED"
                        \/ Deleting /\ g \in seen[os.cur].groups
Booked == Books' /\ TypesStay

LEMMA TasksKeep ==
  ASSUME TasksKept, SameTasks(os, os'), \A op \in CreationOps : OpSame(op) PROVE TasksKept'
  <1>1. ASSUME NEW t \in TCBs \ os'.list
        PROVE  OnList(os'.free, t) \/ \E u \in TCBs : NextOp(pc'[u]) = "link" /\ Head(pc'[u]).tcb = t
    BY DEF TasksKept, SameTasks, OpSame, CreationOps
  <1>2. ASSUME NEW p \in Prios, os'.prioTbl[p] = Reserved
        PROVE  \E u \in TCBs : NextOp(pc'[u]) \in CreationOps /\ Head(pc'[u]).prio = p
    <2>1. PICK u \in TCBs : At(u) \in CreationOps /\ Head(pc[u]).prio = p
      BY <1>2 DEF TasksKept, SameTasks
    <2> QED
      BY <2>1 DEF OpSame
  <1> QED
    BY <1>1, <1>2, AtNext DEF TasksKept, At, NextOp

LEMMA EventsKeep ==
  ASSUME EventsKept, QsKept, SameTypes(os, os'), OpSame("OSQCreate"), app' = app
  PROVE  EventsKept' /\ QsKept'
  <1>1. EventsKept'
    BY DEF EventsKept, SameTypes, OpSame, At, NextOp
  <1>2. InUse(os') = InUse(os)
    BY DEF InUse, SameTypes
  <1> QED
    BY <1>1, <1>2 DEF QsKept, SameTypes

LEMMA GroupsKeep ==
  ASSUME GroupsKept, SameKinds(os, os') PROVE GroupsKept'
  BY DEF GroupsKept, SameKinds

LEMMA MemKeep ==
  ASSUME MemKept, os'.mem = os.mem, OpSame("OSMemCreate"), app' = app PROVE MemKept'
  <1>1. Creating' = Creating
    BY DEF Creating, OpSame, At, NextOp
  <1> QED
    BY <1>1 DEF MemKept

LEMMA StocksKeep ==
  ASSUME StocksKept, Stable(os, os'), \A op \in StockOps : OpSame(op), app' = app PROVE StocksKept'
  BY TasksKeep, EventsKeep, GroupsKeep, MemKeep DEF StocksKept, Stable, StockOps

(* Event e keeps what it has or gets nothing, or nobody waits for it.      *)
StaysFair(k, l, e) ==
  \/ ~HasSome(l.event[e])
  \/ Waiters(l, e) = {}
  \/ (HasSome(l.event[e]) => HasSome(k.event[e])) /\ (Waiters(k, e) = {} => Waiters(l, e) = {})
LEMMA NoneWaitsKeep ==
  ASSUME NoneWaits, \A e \in EventIds : StaysFair(os, os', e) PROVE NoneWaits'
  BY DEF NoneWaits, StaysFair, Waiters

LEMMA ShrinkFair ==
  ASSUME NEW k, NEW l, Apart(k, l), Shrinks(k, l) PROVE \A e \in EventIds : StaysFair(k, l, e)
  BY DEF StaysFair, HasSome, Apart, Stable, SameTypes, SameStored, Shrinks

(* No task starts to wait for flags. *)
FlagWaitsSame == \A t \in Live' : Waiting'[t].op = "flag" => t \in Live /\ Waiting'[t] = Waiting[t]
LEMMA FlagsKeep ==
  ASSUME FlagsKept, FlagWaitsSame, app' = app,
         \A t \in Live : Waiting[t].op = "flag" => SameNode(os, os', t)
  PROVE  FlagsKept'
  BY DEF FlagsKept, FlagWaitsSame, SameNode

LEMMA ServedKeep ==
  ASSUME NobodyServed, SameFlags(os, os'), FewerFlags(os, os'),
         \A g \in FlagIds : \A t \in os'.flag[g].wait : os'.tcb[t].node = os.tcb[t].node
  PROVE  NobodyServed'
  BY DEF NobodyServed, SameFlags, FewerFlags

(* What changes no stock, no flags and no flags a task got. *)
LEMMA BooksKeep ==
  ASSUME TInv, Books, Stable(os, os'), SameNodes(os, os'), \A op \in StockOps : OpSame(op), app' = app, FlagWaitsSame,
         \A e \in EventIds : StaysFair(os, os', e)
  PROVE  Booked
  <1>1. StocksKept' /\ NoneWaits'
    BY StocksKeep, NoneWaitsKeep DEF Books
  <1>2. Live \subseteq TCBs /\ \A g \in FlagIds : os.flag[g].wait \subseteq TCBs
    BY DEF TInv, Core
  <1>3. FlagsKept'
    BY <1>2, FlagsKeep DEF Books, SameNodes, SameNode
  <1>4. NobodyServed => NobodyServed'
    BY <1>2, ServedKeep DEF SameNodes, SameFlags, FewerFlags
  <1> QED
    BY <1>1, <1>3, <1>4 DEF Booked, Books, TypesStay, Stable, SameTypes, SameKinds

(***************************************************************************)
(* The services one by one.  Who calls one is in the middle of nothing.    *)
(***************************************************************************)
LEMMA CalledSame ==
  ASSUME KInv, TInv, NEW c, Anywhere(c), NEW l, NEW steps, Leave(l, steps), l.list = os.list,
         NextOp(steps) \notin StockOps \cup {"OS_Dummy"}
  PROVE  /\ os' = l /\ app' = app /\ Live' = Live /\ \A op \in StockOps : OpSame(op)
         /\ \A t \in TCBs : t # os.cur \/ isr # "none" => Waiting'[t] = Waiting[t]
         /\ isr = "none" => Waiting'[os.cur] = WaitOf(steps)
         /\ WaitOf(steps).op # "flag" => FlagWaitsSame
  <1>1. Continues(steps) /\ os' = l /\ DOMAIN pc = TCBs /\ os.cur \in TCBs
    BY LeaveContinues DEF TInv, Data
  <1>2. isr = "none" => At(os.cur) = "none"
    BY DEF Anywhere, AtTask, AtIsr, At
  <1>3. Live' = Live
    BY <1>1, <1>2, LiveSame
  <1>4. \A op \in StockOps : OpSame(op)
    <2> SUFFICES ASSUME NEW op \in StockOps PROVE OpSame(op)
      OBVIOUS
    <2>1. op # "none" /\ NextOp(steps) # op
      BY DEF StockOps, CreationOps
    <2> QED
      BY <1>1, <1>2, <2>1, SameOps DEF OpSame
  <1>5. app' = app /\ \A t \in TCBs : /\ t # os.cur \/ isr # "none" => Waiting'[t] = Waiting[t]
                                      /\ t = os.cur /\ isr = "none" => Waiting'[t] = WaitOf(steps)
    BY <1>1, PcAfter
  <1>6. Live \subseteq TCBs
    BY DEF TInv, Core
  <1>7. WaitOf(steps).op # "flag" => FlagWaitsSame
    BY <1>3, <1>5, <1>6 DEF FlagWaitsSame
  <1> QED
    BY <1>1, <1>3, <1>4, <1>5, <1>7

(* The running task takes the answer it waited for.                        *)
LEMMA ReturnedSame ==
  ASSUME TInv, NEW op \in WaitOps, Step(op), NEW l, Proceed(l), l.list = os.list
  PROVE  /\ os' = l /\ app' = app /\ Live' = Live /\ \A o \in StockOps : OpSame(o)
         /\ \A t \in TCBs : t # os.cur => Waiting'[t] = Waiting[t]
         /\ Waiting'[os.cur] = Sched /\ FlagWaitsSame
  <1> PICK steps : steps = Tail(pc[os.cur])
    OBVIOUS
  <1>1. Leave(l, steps)
    BY DEF Proceed
  <1>2. isr = "none" /\ At(os.cur) = op /\ os.cur \in TCBs /\ Steps(pc[os.cur]) /\ NextOp(pc[os.cur]) = op
    BY StepCaller
  <1>3. steps = <<>>
    BY <1>2, NextStep
  <1>4. NextOp(steps) = "none" /\ WaitOf(steps) = Sched
    BY <1>3, StepForms
  <1>5. Continues(steps) /\ os' = l /\ DOMAIN pc = TCBs
    BY <1>1, LeaveContinues DEF TInv
  <1>6. op \notin StockOps \cup {"OS_Dummy", "none"} /\ "none" \notin StockOps
    BY DEF WaitOps, StockOps, CreationOps
  <1>7. Live' = Live
    BY <1>2, <1>4, <1>5, <1>6, LiveSame
  <1>8. \A o \in StockOps : OpSame(o)
    <2> SUFFICES ASSUME NEW o \in StockOps PROVE OpSame(o)
      OBVIOUS
    <2> QED
      BY <1>2, <1>4, <1>5, <1>6, SameOps DEF OpSame
  <1>9. app' = app /\ \A t \in TCBs : /\ t # os.cur => Waiting'[t] = Waiting[t]
                                      /\ t = os.cur => Waiting'[t] = Sched
    BY <1>2, <1>4, <1>5, PcAfter
  <1>10. Live \subseteq TCBs /\ Sched.op # "flag"
    BY DEF TInv, Core, Sched
  <1>11. FlagWaitsSame
    BY <1>7, <1>9, <1>10 DEF FlagWaitsSame
  <1> QED
    BY <1>2, <1>5, <1>7, <1>8, <1>9, <1>11

LEMMA CalledBooks ==
  ASSUME KInv, Inv, Books, NEW c, Anywhere(c), NEW l, NEW steps, Leave(l, steps),
         NextOp(steps) \notin StockOps \cup {"OS_Dummy"}, WaitOf(steps).op # "flag",
         Stable(os, l), SameNodes(os, l), \A e \in EventIds : StaysFair(os, l, e)
  PROVE  Booked
  <1>1. l.list = os.list /\ TInv
    BY DEF Stable, SameTasks, Inv
  <1>2. os' = l /\ app' = app /\ FlagWaitsSame /\ \A op \in StockOps : OpSame(op)
    BY <1>1, CalledSame
  <1> QED
    BY <1>1, <1>2, BooksKeep

LEMMA ShortBooks ==
  ASSUME KInv, Inv, Books, NEW c, Anywhere(c), NEW l, NEW steps, Leave(l, steps),
         steps = <<>> \/ steps = <<Sched>>, Stable(os, l), SameNodes(os, l), \A e \in EventIds : StaysFair(os, l, e)
  PROVE  Booked
  <1>1. NextOp(steps) \notin StockOps \cup {"OS_Dummy"} /\ WaitOf(steps).op # "flag"
    BY StepForms DEF StockOps, CreationOps, Sched
  <1> QED
    BY <1>1, CalledBooks

LEMMA ReturnedBooks ==
  ASSUME Inv, Books, NEW op \in WaitOps, Step(op), NEW l, Proceed(l), Inert(os, l), Shrinks(os, l)
  PROVE  Booked
  <1>1. l.list = os.list /\ TInv
    BY DEF Inert, Apart, Stable, SameTasks, Inv
  <1>2. os' = l /\ app' = app /\ FlagWaitsSame /\ \A o \in StockOps : OpSame(o)
    BY <1>1, ReturnedSame
  <1>3. \A e \in EventIds : StaysFair(os, os', e)
    BY <1>2, ShrinkFair DEF Inert
  <1> QED
    BY <1>1, <1>2, <1>3, BooksKeep DEF Inert, Apart

(* The begin and the end of a wait for one event.                          *)
LEMMA WakeBooks ==
  ASSUME KInv, Inv, Books, NEW c, Anywhere(c), NEW e, NEW P, NEW msg, NEW msk, NEW pend,
         NEW steps, steps = <<>> \/ steps = <<Sched>>,
         Leave(OS_EventTaskRdy(os, e, P, msg, msk, pend), steps)
  PROVE  Booked
  <1> PICK l : l = OS_EventTaskRdy(os, e, P, msg, msk, pend)
    OBVIOUS
  <1>1. Shape(os)
    BY DataShape DEF Inv, TInv
  <1>2. Inert(os, l) /\ Shrinks(os, l)
    BY <1>1, WakeInert
  <1>3. \A d \in EventIds : StaysFair(os, l, d)
    BY <1>2, ShrinkFair DEF Inert
  <1> QED
    BY <1>2, <1>3, ShortBooks DEF Inert, Apart

LEMMA BlockBooks ==
  ASSUME KInv, Inv, Books, NEW c, AtTask(c), NEW e \in EventIds, ~HasSome(os.event[e]),
         NEW bits, NEW timeout, NEW type \in {"SEM", "MBOX", "Q", "MUTEX"},
         Leave(OS_EventTaskWait(StartPend(os, bits, timeout), e),
               <<Sched, [op |-> "pend", event |-> e, type |-> type]>>)
  PROVE  Booked
  <1>1. PICK m : m = StartPend(os, bits, timeout)
    OBVIOUS
  <1>2. PICK l : l = OS_EventTaskWait(m, e)
    OBVIOUS
  <1>3. PICK w : w = [op |-> "pend", event |-> e, type |-> type]
    OBVIOUS
  <1>4. PICK steps : steps = <<Sched, w>>
    OBVIOUS
  <1>5. w \in WaitStep /\ w.op = "pend"
    BY <1>3 DEF WaitStep, PendStep
  <1>6. NextOp(steps) = "OS_Sched" /\ WaitOf(steps) = w
    BY <1>4, <1>5, StepForms
  <1>7. Shape(os) /\ os.cur \in TCBs
    BY DataShape DEF Inv, TInv, Data
  <1>8. Shape(m) /\ Inert(os, m) /\ m.event = os.event
    BY <1>1, <1>7, StartPendInert DEF RunsIn
  <1>9. Inert(m, l) /\ \A d \in EventIds : d # e => Waiters(l, d) = Waiters(m, d)
    BY <1>2, <1>8, WaitInert
  <1>10. Inert(os, l)
    BY <1>8, <1>9, InertTrans
  <1>11. ASSUME NEW d \in EventIds PROVE StaysFair(os, l, d)
    <2>1. HasSome(l.event[d]) <=> HasSome(os.event[d])
      BY <1>10 DEF Inert, Apart, Stable, SameTypes, SameStored, HasSome
    <2>2. d # e => Waiters(l, d) = Waiters(os, d)
      BY <1>8, <1>9 DEF Waiters
    <2> QED
      BY <2>1, <2>2 DEF StaysFair
  <1>12. Leave(l, steps)
    BY <1>1, <1>2, <1>3, <1>4
  <1>13. "OS_Sched" \notin StockOps \cup {"OS_Dummy"} /\ Anywhere(c)
    BY DEF StockOps, CreationOps, Anywhere
  <1> QED
    BY <1>5, <1>6, <1>10, <1>11, <1>12, <1>13, CalledBooks DEF Inert, Apart

LEMMA EndBooks ==
  ASSUME Inv, Books, NEW op \in WaitOps, Step(op), NEW E, Proceed(EndPend(os, E))
  PROVE  Booked
  <1> PICK l : l = EndPend(os, E)
    OBVIOUS
  <1>1. Shape(os) /\ os.cur \in TCBs
    BY DataShape DEF Inv, TInv, Data
  <1>2. Inert(os, l) /\ Shrinks(os, l)
    BY <1>1, EndPendInert DEF RunsIn
  <1> QED
    BY <1>2, ReturnedBooks

(***************************************************************************)
(* Services that answer at once: what an event has changes.                *)
(***************************************************************************)
(* l is k but for the count or the message of event e.                     *)
Valued(k, l, e) ==
  /\ Stable(k, l) /\ SameNodes(k, l)
  /\ \A d \in EventIds : Waiters(l, d) = Waiters(k, d)
  /\ \A d \in EventIds : d # e => l.event[d] = k.event[d]
  /\ l.event[e].type = k.event[e].type
LEMMA ValueParts ==
  ASSUME NEW k, Shape(k), NEW e \in EventIds, NEW v, NEW l,
         l = [k EXCEPT !.event[e].cnt = v] \/ l = [k EXCEPT !.event[e].ptr = v]
  PROVE  /\ Valued(k, l, e)
         /\ l = [k EXCEPT !.event[e].cnt = v] => l.event[e].cnt = v
         /\ l = [k EXCEPT !.event[e].ptr = v] => l.event[e].ptr = v
  <1>1. \A f \in Fields \ {"event"} : l[f] = k[f]
    BY DEF Shape, Fields
  <1>2. \A d \in EventIds : d # e => l.event[d] = k.event[d]
    BY DEF Shape, Fields
  <1>3. /\ l.event[e].type = k.event[e].type /\ l.event[e].wait = k.event[e].wait
        /\ l = [k EXCEPT !.event[e].cnt = v] => l.event[e].cnt = v
        /\ l = [k EXCEPT !.event[e].ptr = v] => l.event[e].ptr = v
    BY DEF Shape, Fields, ECBFields
  <1>4. /\ l.prioTbl = k.prioTbl /\ l.list = k.list /\ l.free = k.free /\ l.freeEvents = k.freeEvents
        /\ l.freeQs = k.freeQs /\ l.freeFlags = k.freeFlags /\ l.mem = k.mem /\ l.flag = k.flag
        /\ l.tcb = k.tcb
    BY <1>1 DEF Fields
  <1>5. \A d \in EventIds : Waiters(l, d) = Waiters(k, d)
    BY <1>2, <1>3 DEF Waiters
  <1> QED
    BY <1>2, <1>3, <1>4, <1>5
    DEF Valued, Stable, SameTasks, SameTypes, SameKinds, SameNodes

LEMMA ValuedFair ==
  ASSUME NEW k, NEW l, NEW e \in EventIds, Valued(k, l, e),
         ~HasSome(l.event[e]) \/ Waiters(k, e) = {} \/ (HasSome(l.event[e]) => HasSome(k.event[e]))
  PROVE  \A d \in EventIds : StaysFair(k, l, d)
  BY DEF Valued, StaysFair

LEMMA ValueBooks ==
  ASSUME KInv, Inv, Books, NEW c, Anywhere(c), NEW e \in EventIds, NEW v, NEW l,
         l = [os EXCEPT !.event[e].cnt = v] \/ l = [os EXCEPT !.event[e].ptr = v], Leave(l, <<>>),
         ~HasSome(l.event[e]) \/ ~HasWaiter(os, e) \/ HasSome(os.event[e])
  PROVE  Booked
  <1>1. Shape(os)
    BY DataShape DEF Inv, TInv
  <1>2. Valued(os, l, e)
    BY <1>1, ValueParts
  <1>3. ~HasWaiter(os, e) => Waiters(os, e) = {}
    <2>1. os.event[e].wait \in Table /\ WellFormed(os.event[e].wait)
      BY DEF Inv, TInv, Data, KInv, Good, EventsOK
    <2> QED
      BY <2>1, EmptyIsNone DEF HasWaiter, Waiters
  <1>4. \A d \in EventIds : StaysFair(os, l, d)
    BY <1>2, <1>3, ValuedFair
  <1> QED
    BY <1>2, <1>4, ShortBooks DEF Valued

LEMMA SemBooks ==
  ASSUME KInv, Inv, Books, NEW e \in EventIds
  PROVE  /\ OSSemAccept(e) => Booked
         /\ \A cnt : OSSemSet(e, cnt) => Booked
         /\ \A timeout : OSSemPend(e, timeout) => Booked
         /\ OSSemPost(e) => Booked
         /\ \A all : OSSemPendAbort(e, all) => Booked
         /\ OSSemPend_Return => Booked
  <1>1. ASSUME NEW c, Anywhere(c), NEW v, Leave([os EXCEPT !.event[e].cnt = v], <<>>),
               ~HasWaiter(os, e) \/ HasSome(os.event[e])
        PROVE  Booked
    BY <1>1, ValueBooks
  <1>2. ASSUME IsSem(e) PROVE HasSome(os.event[e]) <=> os.event[e].cnt > 0
    BY <1>2 DEF IsSem, HasSome
  <1>3. ASSUME NEW c, Anywhere(c), IsSem(e), os.event[e].cnt > 0,
               Leave([os EXCEPT !.event[e].cnt = @ - 1], <<>>)
        PROVE  Booked
    BY <1>1, <1>2, <1>3
  <1>4. ASSUME NEW c, Anywhere(c), NEW P, NEW pend, NEW steps, steps = <<>> \/ steps = <<Sched>>,
               Leave(OS_EventTaskRdy(os, e, P, None, "SEM", pend), steps)
        PROVE  Booked
    BY <1>4, WakeBooks
  <1>5. OSSemAccept(e) => Booked
    BY <1>3 DEF OSSemAccept
  <1>6. ASSUME NEW cnt, OSSemSet(e, cnt) PROVE Booked
    BY <1>1, <1>2, <1>6 DEF OSSemSet
  <1>7. ASSUME NEW timeout, OSSemPend(e, timeout) PROVE Booked
    <2>1. AtTask("OSSemPend") /\ Anywhere("OSSemPend") /\ IsSem(e)
      BY <1>7 DEF OSSemPend, Anywhere
    <2>2. CASE /\ os.event[e].cnt > 0
               /\ Leave([os EXCEPT !.event[e].cnt = @ - 1], <<>>)
      BY <1>3, <2>1, <2>2
    <2>3. CASE /\ os.event[e].cnt = 0
               /\ Leave(OS_EventTaskWait(StartPend(os, {"SEM"}, timeout), e),
                        <<Sched, [op |-> "pend", event |-> e, type |-> "SEM"]>>)
      <3>1. ~HasSome(os.event[e])
        BY <1>2, <2>1, <2>3
      <3> QED
        BY <2>1, <2>3, <3>1, BlockBooks
    <2> QED
      BY <1>7, <2>2, <2>3 DEF OSSemPend
  <1>8. OSSemPost(e) => Booked
    BY <1>1, <1>4 DEF OSSemPost
  <1>9. ASSUME NEW all, OSSemPendAbort(e, all) PROVE Booked
    BY <1>4, <1>9 DEF OSSemPendAbort
  <1>10. ASSUME OSSemPend_Return PROVE Booked
    BY <1>10, EndBooks DEF OSSemPend_Return, WaitOps
  <1> QED
    BY <1>5, <1>6, <1>7, <1>8, <1>9, <1>10

LEMMA MboxBooks ==
  ASSUME KInv, Inv, Books, NEW e \in EventIds
  PROVE  /\ OSMboxAccept(e) => Booked
         /\ \A timeout : OSMboxPend(e, timeout) => Booked
         /\ \A msg : OSMboxPost(e, msg) => Booked
         /\ \A msg, broadcast, sched : OSMboxPostOpt(e, msg, broadcast, sched) => Booked
         /\ \A all : OSMboxPendAbort(e, all) => Booked
         /\ OSMboxPend_Return => Booked
  <1>1. ASSUME NEW c, Anywhere(c), NEW v, Leave([os EXCEPT !.event[e].ptr = v], <<>>),
               ~HasWaiter(os, e) \/ HasSome(os.event[e])
        PROVE  Booked
    BY <1>1, ValueBooks
  <1>2. ASSUME IsMbox(e) PROVE HasSome(os.event[e]) <=> os.event[e].ptr # None
    BY <1>2 DEF IsMbox, HasSome
  <1>3. ASSUME NEW c, Anywhere(c), NEW P, NEW msg, NEW pend, NEW steps, steps = <<>> \/ steps = <<Sched>>,
               Leave(OS_EventTaskRdy(os, e, P, msg, "MBOX", pend), steps)
        PROVE  Booked
    BY <1>3, WakeBooks
  <1>4. OSMboxAccept(e) => Booked
    BY <1>1, <1>2 DEF OSMboxAccept
  <1>5. ASSUME NEW timeout, OSMboxPend(e, timeout) PROVE Booked
    <2>1. AtTask("OSMboxPend") /\ Anywhere("OSMboxPend") /\ IsMbox(e)
      BY <1>5 DEF OSMboxPend, Anywhere
    <2>2. CASE os.event[e].ptr # None /\ Leave([os EXCEPT !.event[e].ptr = None], <<>>)
      BY <1>1, <1>2, <2>1, <2>2
    <2>3. CASE /\ os.event[e].ptr = None
               /\ Leave(OS_EventTaskWait(StartPend(os, {"MBOX"}, timeout), e),
                        <<Sched, [op |-> "pend", event |-> e, type |-> "MBOX"]>>)
      <3>1. ~HasSome(os.event[e])
        BY <1>2, <2>1, <2>3
      <3> QED
        BY <2>1, <2>3, <3>1, BlockBooks
    <2> QED
      BY <1>5, <2>2, <2>3 DEF OSMboxPend
  <1>6. ASSUME NEW msg, OSMboxPost(e, msg) PROVE Booked
    BY <1>1, <1>3, <1>6 DEF OSMboxPost
  <1>7. ASSUME NEW msg, NEW broadcast, NEW sched, OSMboxPostOpt(e, msg, broadcast, sched) PROVE Booked
    <2>1. Anywhere("OSMboxPostOpt")
      BY <1>7 DEF OSMboxPostOpt
    <2>2. PICK steps : steps = IF sched THEN <<Sched>> ELSE <<>>
      OBVIOUS
    <2>3. PICK P : P = IF broadcast THEN Waiters(os, e) ELSE HighestWaiter(os, e)
      OBVIOUS
    <2>4. CASE Leave(OS_EventTaskRdy(os, e, P, msg, "MBOX", "OK"), steps)
      BY <1>3, <2>1, <2>2, <2>4
    <2>5. CASE ~HasWaiter(os, e) /\ Leave([os EXCEPT !.event[e].ptr = msg], <<>>)
      BY <1>1, <2>1, <2>5
    <2> QED
      BY <1>7, <2>2, <2>3, <2>4, <2>5 DEF OSMboxPostOpt
  <1>8. ASSUME NEW all, OSMboxPendAbort(e, all) PROVE Booked
    BY <1>3, <1>8 DEF OSMboxPendAbort
  <1>9. ASSUME OSMboxPend_Return PROVE Booked
    BY <1>9, EndBooks DEF OSMboxPend_Return, WaitOps
  <1> QED
    BY <1>4, <1>5, <1>6, <1>7, <1>8, <1>9

LEMMA QBooks ==
  ASSUME KInv, Inv, Books, NEW e \in EventIds
  PROVE  /\ OSQAccept(e) => Booked
         /\ OSQFlush(e) => Booked
         /\ \A timeout : OSQPend(e, timeout) => Booked
         /\ \A msg : OSQPost(e, msg) => Booked
         /\ \A msg : OSQPostFront(e, msg) => Booked
         /\ \A msg, broadcast, front, sched : OSQPostOpt(e, msg, broadcast, front, sched) => Booked
         /\ \A all : OSQPendAbort(e, all) => Booked
         /\ OSQPend_Return => Booked
  <1>1. ASSUME NEW c, Anywhere(c), NEW v, Leave(WithQueue(e, v), <<>>),
               ~HasWaiter(os, e) \/ HasSome(os.event[e])
        PROVE  Booked
    BY <1>1, ValueBooks DEF WithQueue
  <1>2. ASSUME IsQ(e) PROVE HasSome(os.event[e]) <=> Queue(e).entries > 0
    BY <1>2 DEF IsQ, HasSome, Queue
  <1>3. ASSUME NEW c, Anywhere(c), NEW P, NEW msg, NEW pend, NEW steps, steps = <<>> \/ steps = <<Sched>>,
               Leave(OS_EventTaskRdy(os, e, P, msg, "Q", pend), steps)
        PROVE  Booked
    BY <1>3, WakeBooks
  <1>4. OSQAccept(e) => Booked
    BY <1>1, <1>2 DEF OSQAccept
  <1>5. ASSUME OSQFlush(e) PROVE Booked
    <2>1. PICK v : v = Flush(Queue(e))
      OBVIOUS
    <2>2. PICK l : l = [os EXCEPT !.event[e].ptr = v]
      OBVIOUS
    <2>3. Anywhere("OSQFlush") /\ IsQ(e) /\ Leave(l, <<>>)
      BY <1>5, <2>1, <2>2 DEF OSQFlush, WithQueue
    <2>4. Shape(os)
      BY DataShape DEF Inv, TInv
    <2>5. l.event[e].ptr = v /\ l.event[e].type = "Q"
      <3>1. l = [os EXCEPT !.event[e].cnt = v] \/ l = [os EXCEPT !.event[e].ptr = v]
        BY <2>2
      <3>2. Valued(os, l, e) /\ (l = [os EXCEPT !.event[e].ptr = v] => l.event[e].ptr = v)
        BY <2>4, <3>1, ValueParts
      <3>3. os.event[e].type = "Q"
        BY <2>3 DEF IsQ
      <3> QED
        BY <2>2, <3>2, <3>3 DEF Valued
    <2>6. ~(v.entries > 0)
      BY <2>1 DEF Flush
    <2>7. ~HasSome(l.event[e])
      BY <2>5, <2>6 DEF HasSome
    <2> QED
      BY <2>2, <2>3, <2>7, ValueBooks
  <1>6. ASSUME NEW timeout, OSQPend(e, timeout) PROVE Booked
    <2>1. AtTask("OSQPend") /\ Anywhere("OSQPend") /\ IsQ(e)
      BY <1>6 DEF OSQPend, Anywhere
    <2>2. CASE Queue(e).entries > 0 /\ Leave(WithQueue(e, Dequeue(Queue(e))), <<>>)
      BY <1>1, <1>2, <2>1, <2>2
    <2>3. CASE /\ Queue(e).entries = 0
               /\ Leave(OS_EventTaskWait(StartPend(os, {"Q"}, timeout), e),
                        <<Sched, [op |-> "pend", event |-> e, type |-> "Q"]>>)
      <3>1. ~HasSome(os.event[e])
        BY <1>2, <2>1, <2>3
      <3> QED
        BY <2>1, <2>3, <3>1, BlockBooks
    <2> QED
      BY <1>6, <2>2, <2>3 DEF OSQPend
  <1>7. ASSUME NEW msg, OSQPost(e, msg) PROVE Booked
    BY <1>1, <1>3, <1>7 DEF OSQPost
  <1>8. ASSUME NEW msg, OSQPostFront(e, msg) PROVE Booked
    BY <1>1, <1>3, <1>8 DEF OSQPostFront
  <1>9. ASSUME NEW msg, NEW broadcast, NEW front, NEW sched, OSQPostOpt(e, msg, broadcast, front, sched)
        PROVE  Booked
    <2>1. Anywhere("OSQPostOpt")
      BY <1>9 DEF OSQPostOpt
    <2>2. PICK steps : steps = IF sched THEN <<Sched>> ELSE <<>>
      OBVIOUS
    <2>3. PICK P : P = IF broadcast THEN Waiters(os, e) ELSE HighestWaiter(os, e)
      OBVIOUS
    <2>4. PICK q : q = IF front THEN EnqueueFront(Queue(e), msg) ELSE Enqueue(Queue(e), msg)
      OBVIOUS
    <2>5. CASE Leave(OS_EventTaskRdy(os, e, P, msg, "Q", "OK"), steps)
      BY <1>3, <2>1, <2>2, <2>5
    <2>6. CASE ~HasWaiter(os, e) /\ Leave(WithQueue(e, q), <<>>)
      BY <1>1, <2>1, <2>6
    <2> QED
      BY <1>9, <2>2, <2>3, <2>4, <2>5, <2>6 DEF OSQPostOpt
  <1>10. ASSUME NEW all, OSQPendAbort(e, all) PROVE Booked
    BY <1>3, <1>10 DEF OSQPendAbort
  <1>11. ASSUME OSQPend_Return PROVE Booked
    BY <1>11, EndBooks DEF OSQPend_Return, WaitOps
  <1> QED
    BY <1>4, <1>5, <1>6, <1>7, <1>8, <1>9, <1>10, <1>11

LEMMA AvailableHasSome == \A e \in EventIds : Available(e) <=> HasSome(os.event[e])
  BY DEF Available, HasSome, IsSem, IsMbox, IsQ, Queue

LEMMA MultiBooks ==
  ASSUME KInv, Inv, Books, MultiNext PROVE Booked
  <1>1. Shape(os) /\ os.cur \in TCBs
    BY DataShape DEF Inv, TInv, Data
  <1>2. ASSUME NEW E, OSEventPendMulti_Check(E), OSEventPendMulti_Take(E)
        PROVE  Booked
    <2> PICK ready : ready = {e \in E : Available(e)}
      OBVIOUS
    <2> PICK l : l = [os EXCEPT !.event = [e \in EventIds |-> IF e \in ready THEN TakeOne(e) ELSE os.event[e]]]
      OBVIOUS
    <2>1. Leave(l, <<>>) /\ Anywhere("OSEventPendMulti")
      BY <1>2 DEF OSEventPendMulti_Take, OSEventPendMulti_Check, Anywhere
    <2>2. \A f \in Fields \ {"event"} : l[f] = os[f]
      BY <1>1 DEF Shape, Fields
    <2>3. \A e \in EventIds : l.event[e] = IF e \in ready THEN TakeOne(e) ELSE os.event[e]
      BY <1>1 DEF Shape, Fields
    <2>4. ASSUME NEW e \in EventIds, e \in ready
          PROVE  TakeOne(e).type = os.event[e].type /\ TakeOne(e).wait = os.event[e].wait
      <3>1. DOMAIN os.event[e] = ECBFields /\ Available(e)
        BY <1>1, <2>4 DEF Shape
      <3>2. IsSem(e) \/ IsMbox(e) \/ IsQ(e)
        BY <3>1 DEF Available
      <3> QED
        BY <3>1, <3>2 DEF TakeOne, IsSem, IsMbox, IsQ, ECBFields
    <2>5. \A e \in EventIds : l.event[e].type = os.event[e].type /\ l.event[e].wait = os.event[e].wait
      BY <2>3, <2>4
    <2>6. \A e \in EventIds : StaysFair(os, l, e)
      BY <2>3, <2>5, AvailableHasSome DEF StaysFair, Waiters
    <2>7. /\ l.prioTbl = os.prioTbl /\ l.list = os.list /\ l.free = os.free /\ l.freeEvents = os.freeEvents
          /\ l.freeQs = os.freeQs /\ l.freeFlags = os.freeFlags /\ l.mem = os.mem /\ l.flag = os.flag
          /\ l.tcb = os.tcb
      BY <2>2 DEF Fields
    <2>8. Stable(os, l) /\ SameNodes(os, l)
      BY <2>5, <2>7 DEF Stable, SameTasks, SameTypes, SameKinds, SameNodes
    <2> QED
      BY <2>1, <2>6, <2>8, ShortBooks
  <1>3. ASSUME NEW E \in SUBSET EventIds, NEW timeout, OSEventPendMulti_Check(E), OSEventPendMulti_Wait(E, timeout)
        PROVE  Booked
    <2> PICK bits : bits = {os.event[e].type : e \in E} \cup {"MULTI"}
      OBVIOUS
    <2>1. PICK m : m = StartPend(os, bits, timeout)
      OBVIOUS
    <2>2. PICK l : l = OS_EventTaskWaitMulti(m, E)
      OBVIOUS
    <2>3. PICK w : w = [op |-> "multi", events |-> E]
      OBVIOUS
    <2>4. PICK steps : steps = <<Sched, w>>
      OBVIOUS
    <2>5. Leave(l, steps) /\ Anywhere("OSEventPendMulti") /\ \A e \in E : ~Available(e)
      BY <1>3, <2>1, <2>2, <2>3, <2>4 DEF OSEventPendMulti_Check, OSEventPendMulti_Wait, Anywhere
    <2>6. w \in WaitStep /\ w.op = "multi"
      BY <2>3 DEF WaitStep, MultiStep
    <2>7. NextOp(steps) = "OS_Sched" /\ WaitOf(steps) = w
      BY <2>4, <2>6, StepForms
    <2>8. Shape(m) /\ Inert(os, m) /\ m.event = os.event
      BY <1>1, <2>1, StartPendInert DEF RunsIn
    <2>9. Inert(m, l) /\ \A d \in EventIds : d \notin E => Waiters(l, d) = Waiters(m, d)
      BY <2>2, <2>8, WaitMultiInert
    <2>10. Inert(os, l)
      BY <2>8, <2>9, InertTrans
    <2>11. ASSUME NEW d \in EventIds PROVE StaysFair(os, l, d)
      <3>1. HasSome(l.event[d]) <=> HasSome(os.event[d])
        BY <2>10 DEF Inert, Apart, Stable, SameTypes, SameStored, HasSome
      <3>2. d \notin E => Waiters(l, d) = Waiters(os, d)
        BY <2>8, <2>9 DEF Waiters
      <3> QED
        BY <2>5, <3>1, <3>2, AvailableHasSome DEF StaysFair
    <2>12. "OS_Sched" \notin StockOps \cup {"OS_Dummy"}
      BY DEF StockOps, CreationOps
    <2> QED
      BY <2>5, <2>6, <2>7, <2>10, <2>11, <2>12, CalledBooks DEF Inert, Apart
  <1>4. ASSUME OSEventPendMulti_Return PROVE Booked
    BY <1>4, SeveralReturn, EndBooks DEF WaitOps, Inv
  <1> QED
    BY <1>2, <1>3, <1>4 DEF MultiNext, OSEventPendMulti

(***************************************************************************)
(* Suspension, delays, the tick, the scheduler and the interrupts.         *)
(***************************************************************************)
(* l is k but for the wait of tasks and the ready list. *)
LEMMA StatusBooks ==
  ASSUME KInv, Inv, Books, NEW c, Anywhere(c), NEW l, NEW steps, Leave(l, steps),
         steps = <<>> \/ steps = <<Sched>>, Inert(os, l), l.event = os.event
  PROVE  Booked
  <1>1. \A e \in EventIds : StaysFair(os, l, e)
    BY DEF StaysFair, Waiters
  <1> QED
    BY <1>1, ShortBooks DEF Inert, Apart

LEMMA DelReqBooks ==
  ASSUME KInv, Inv, Books, NEW prio \in Prios, OSTaskDelReq(prio) PROVE Booked
  <1>1. Shape(os)
    BY DataShape DEF Inv, TInv
  <1> PICK t : t = os.prioTbl[prio]
    OBVIOUS
  <1> DEFINE x == os.tcb[t]
             y == [x EXCEPT !.delReq = TRUE]
  <1>2. t \in TCBs
    BY DEF OSTaskDelReq, Exists, Inv, TInv, Data
  <1>3. PICK l : l = [os EXCEPT !.tcb[t] = y]
    OBVIOUS
  <1>4. Leave(l, <<>>) /\ Anywhere("OSTaskDelReq")
    BY <1>1, <1>2, <1>3 DEF OSTaskDelReq, Shape
  <1>5. DOMAIN y = TCBFields /\ y.flagsRdy = x.flagsRdy /\ y.node = x.node
    BY <1>1, <1>2 DEF Shape, TCBFields
  <1> HIDE DEF y
  <1>6. Inert(os, l) /\ l.event = os.event
    BY <1>1, <1>2, <1>3, <1>5, TCBInert
  <1> QED
    BY <1>4, <1>6, StatusBooks

(* The status or the delay of task t changes, and it is made ready or not. *)
LEMMA StatInert ==
  ASSUME NEW k, Shape(k), NEW t \in TCBs, NEW v, NEW l,
         l = [k EXCEPT !.tcb[t].stat = v] \/ l = [k EXCEPT !.tcb[t].dly = v]
  PROVE  Shape(l) /\ Inert(k, l) /\ l.event = k.event
  <1>1. ASSUME NEW y, DOMAIN y = TCBFields, y.flagsRdy = k.tcb[t].flagsRdy, y.node = k.tcb[t].node,
               l = [k EXCEPT !.tcb[t] = y]
        PROVE  Shape(l) /\ Inert(k, l) /\ l.event = k.event
    BY <1>1, TCBInert
  <1>2. DOMAIN k.tcb[t] = TCBFields
    BY DEF Shape
  <1>3. CASE l = [k EXCEPT !.tcb[t].stat = v]
    <2>1. PICK y : y = [k.tcb[t] EXCEPT !.stat = v]
      OBVIOUS
    <2>2. DOMAIN y = TCBFields /\ y.flagsRdy = k.tcb[t].flagsRdy /\ y.node = k.tcb[t].node
      BY <1>2, <2>1 DEF TCBFields
    <2>3. l = [k EXCEPT !.tcb[t] = y]
      BY <1>3, <2>1 DEF Shape
    <2> QED
      BY <1>1, <2>2, <2>3
  <1>4. CASE l = [k EXCEPT !.tcb[t].dly = v]
    <2>1. PICK y : y = [k.tcb[t] EXCEPT !.dly = v]
      OBVIOUS
    <2>2. DOMAIN y = TCBFields /\ y.flagsRdy = k.tcb[t].flagsRdy /\ y.node = k.tcb[t].node
      BY <1>2, <2>1 DEF TCBFields
    <2>3. l = [k EXCEPT !.tcb[t] = y]
      BY <1>4, <2>1 DEF Shape
    <2> QED
      BY <1>1, <2>2, <2>3
  <1> QED
    BY <1>3, <1>4

LEMMA SuspendBooks ==
  ASSUME Ruled, KInv, Inv, Books, NEW prio \in Prios,
         OSTaskSuspend(prio) \/ OSTaskResume(prio) \/ OSTimeDlyResume(prio)
  PROVE  Booked
  <1>1. Shape(os) /\ \A t : t = Task(os, prio) /\ Exists(prio) => t \in TCBs
    BY DataShape, TaskOf DEF Inv, TInv
  <1>2. PICK t : t = Task(os, prio)
    OBVIOUS
  <1>3. ASSUME NEW v, NEW m, m = [os EXCEPT !.tcb[t].stat = v], t \in TCBs
        PROVE  Shape(m) /\ Inert(os, m) /\ m.event = os.event
    BY <1>1, <1>3, StatInert
  <1>4. ASSUME OSTaskSuspend(prio) PROVE Booked
    <2>1. PICK v : v = os.tcb[t].stat \cup {"SUSPEND"}
      OBVIOUS
    <2>2. PICK m : m = [os EXCEPT !.tcb[t].stat = v]
      OBVIOUS
    <2>3. PICK l : l = MakeUnready(m, {t})
      OBVIOUS
    <2>4. PICK steps : steps = IF t = os.cur THEN <<Sched>> ELSE <<>>
      OBVIOUS
    <2>5. Leave(l, steps) /\ Anywhere("OSTaskSuspend") /\ Exists(prio)
      BY <1>1, <1>2, <1>4, <2>1, <2>2, <2>3, <2>4 DEF OSTaskSuspend, Anywhere, Shape
    <2>6. Shape(m) /\ Inert(os, m) /\ m.event = os.event
      BY <1>1, <1>2, <1>3, <2>2, <2>5
    <2>7. Inert(m, l) /\ l.event = m.event
      BY <2>3, <2>6, ReadyInert
    <2>8. Inert(os, l)
      BY <2>6, <2>7, InertTrans
    <2> QED
      BY <2>4, <2>5, <2>6, <2>7, <2>8, StatusBooks
  <1>5. ASSUME OSTaskResume(prio) PROVE Booked
    <2>1. PICK v : v = os.tcb[t].stat \ {"SUSPEND"}
      OBVIOUS
    <2>2. PICK m : m = [os EXCEPT !.tcb[t].stat = v]
      OBVIOUS
    <2>3. PICK l : l = MakeReady(m, {t})
      OBVIOUS
    <2>4. Anywhere("OSTaskResume") /\ Exists(prio) /\ (Leave(l, <<Sched>>) \/ Leave(m, <<>>))
      BY <1>1, <1>2, <1>5, <2>1, <2>2, <2>3 DEF OSTaskResume, Shape
    <2>5. Shape(m) /\ Inert(os, m) /\ m.event = os.event
      BY <1>1, <1>2, <1>3, <2>2, <2>4
    <2>6. Inert(m, l) /\ l.event = m.event
      BY <2>3, <2>5, ReadyInert
    <2>7. Inert(os, l)
      BY <2>5, <2>6, InertTrans
    <2> QED
      BY <2>4, <2>5, <2>6, <2>7, StatusBooks
  <1>6. ASSUME OSTimeDlyResume(prio) PROVE Booked
    <2>1. PICK l : l = Expire(os, {t})
      OBVIOUS
    <2>2. PICK steps : steps = IF Suspended(os.tcb[t]) THEN <<>> ELSE <<Sched>>
      OBVIOUS
    <2>3. Leave(l, steps) /\ Anywhere("OSTimeDlyResume")
      BY <1>2, <1>6, <2>1, <2>2 DEF OSTimeDlyResume
    <2>4. Inert(os, l) /\ l.event = os.event
      BY <1>1, <2>1, ExpireInert
    <2> QED
      BY <2>2, <2>3, <2>4, StatusBooks
  <1> QED
    BY <1>4, <1>5, <1>6

LEMMA DelayBooks ==
  ASSUME KInv, Inv, Books, NEW c, AtTask(c), NEW ticks, Delay(ticks) PROVE Booked
  <1>1. Shape(os) /\ os.cur \in TCBs
    BY DataShape DEF Inv, TInv, Data
  <1>2. PICK t : t = os.cur
    OBVIOUS
  <1>3. PICK m : m = [os EXCEPT !.tcb[t].dly = ticks]
    OBVIOUS
  <1>4. PICK l : l = MakeUnready(m, {t})
    OBVIOUS
  <1>5. Leave(l, <<Sched>>) /\ Anywhere(c)
    BY <1>2, <1>3, <1>4 DEF Delay, Anywhere
  <1>6. Shape(m) /\ Inert(os, m) /\ m.event = os.event
    BY <1>1, <1>2, <1>3, StatInert
  <1>7. Inert(m, l) /\ l.event = m.event
    BY <1>4, <1>6, ReadyInert
  <1>8. Inert(os, l)
    BY <1>6, <1>7, InertTrans
  <1> QED
    BY <1>5, <1>6, <1>7, <1>8, StatusBooks

(* A step in which no service goes on. *)
LEMMA PcSame ==
  ASSUME TInv, pc' = pc, os'.list = os.list
  PROVE  Live' = Live /\ FlagWaitsSame /\ \A op \in StockOps : OpSame(op)
  <1>1. BeingDeleted' = BeingDeleted /\ Waiting' = Waiting
    BY DEF BeingDeleted, Waiting
  <1>2. Live' = Live
    BY <1>1 DEF Live
  <1> QED
    BY <1>1, <1>2 DEF FlagWaitsSame, OpSame, At, NextOp

LEMMA IdleBooks ==
  ASSUME Inv, Books, pc' = pc, app' = app, NEW l, l = os', Inert(os, l), l.event = os.event
  PROVE  Booked
  <1>1. TInv /\ l.list = os.list
    BY DEF Inv, Inert, Apart, Stable, SameTasks
  <1>2. FlagWaitsSame /\ \A op \in StockOps : OpSame(op)
    BY <1>1, PcSame
  <1>3. \A e \in EventIds : StaysFair(os, os', e)
    BY DEF StaysFair, Waiters
  <1> QED
    BY <1>1, <1>2, <1>3, BooksKeep DEF Inert, Apart

LEMMA TickBooks ==
  ASSUME Inv, Books, OSTimeTick PROVE Booked
  <1>1. Shape(os)
    BY DataShape DEF Inv, TInv
  <1>2. PICK D : D = {t \in os.list \ {Idle} : os.tcb[t].dly # 0}
    OBVIOUS
  <1>3. PICK m : m = [os EXCEPT !.tcb = [t \in TCBs |->
                        IF t \in D THEN [os.tcb[t] EXCEPT !.dly = @ - 1] ELSE os.tcb[t]]]
    OBVIOUS
  <1>4. PICK S : S = {t \in D : m.tcb[t].dly = 0}
    OBVIOUS
  <1>5. PICK l : l = Expire(m, S)
    OBVIOUS
  <1>6. os' = l /\ pc' = pc /\ app' = app
    BY <1>2, <1>3, <1>4, <1>5 DEF OSTimeTick
  <1>7. DOMAIN m = Fields /\ \A f \in Fields \ {"tcb"} : m[f] = os[f]
    BY <1>1, <1>3 DEF Shape, Fields
  <1>8. DOMAIN m.tcb = TCBs
        /\ \A t \in TCBs : /\ DOMAIN m.tcb[t] = TCBFields
                           /\ m.tcb[t].flagsRdy = os.tcb[t].flagsRdy /\ m.tcb[t].node = os.tcb[t].node
    BY <1>1, <1>3 DEF Shape, Fields, TCBFields
  <1>9. m.event = os.event
    BY <1>7 DEF Fields
  <1>10. Shape(m) /\ Inert(os, m)
    BY <1>1, <1>7, <1>8, <1>9, InertParts DEF Shape
  <1>11. Inert(m, l) /\ l.event = m.event
    BY <1>5, <1>10, ExpireInert
  <1>12. Inert(os, l)
    BY <1>10, <1>11, InertTrans
  <1> QED
    BY <1>6, <1>9, <1>11, <1>12, IdleBooks

LEMMA IntBooks ==
  ASSUME Inv, Books, IntNext PROVE Booked
  <1>1. Shape(os)
    BY DataShape DEF Inv, TInv
  <1>2. ASSUME NEW kind, OSIntEnter(kind) PROVE Booked
    BY <1>2, InertSelf, IdleBooks DEF OSIntEnter
  <1>3. ASSUME OSIntExit PROVE Booked
    <2>1. PICK l : l = Switch(os)
      OBVIOUS
    <2>2. Inert(os, l) /\ l.event = os.event
      BY <1>1, <2>1, SwitchInert
    <2> QED
      BY <1>3, <2>1, <2>2, IdleBooks DEF OSIntExit
  <1> QED
    BY <1>2, <1>3, TickBooks DEF IntNext

LEMMA StartBooks ==
  ASSUME Inv, Books, OSStart PROVE Booked
  <1>1. Shape(os)
    BY DataShape DEF Inv, TInv
  <1>2. pc' = pc /\ app' = app /\ DOMAIN os' = Fields
        /\ \A f \in Fields \ {"rdy", "tcb", "event", "lock", "cur", "prioCur", "running"} : os'[f] = os[f]
    BY <1>1 DEF OSStart, Shape, Fields
  <1>3. os'.tcb = os.tcb /\ os'.event = os.event
    BY <1>1 DEF OSStart, Shape, Fields
  <1>4. PICK l : l = os'
    OBVIOUS
  <1>5. Inert(os, l)
    BY <1>1, <1>2, <1>3, <1>4, InertParts DEF Shape
  <1> QED
    BY <1>2, <1>3, <1>4, <1>5, IdleBooks

LEMMA SchedBooks ==
  ASSUME KInv, Inv, Books, OS_Sched PROVE Booked
  <1>1. Shape(os) /\ TInv /\ DOMAIN pc = TCBs
    BY DataShape DEF Inv, TInv
  <1>2. PICK l : l = Switch(os)
    OBVIOUS
  <1>3. PICK steps : steps = Tail(pc[os.cur])
    OBVIOUS
  <1>4. Step("OS_Sched") /\ Leave(l, steps)
    BY <1>2, <1>3 DEF OS_Sched, Proceed
  <1>5. Inert(os, l) /\ l.event = os.event
    BY <1>1, <1>2, SwitchInert
  <1>6. /\ isr = "none" /\ At(os.cur) = "OS_Sched" /\ os.cur \in TCBs
        /\ Steps(pc[os.cur]) /\ NextOp(pc[os.cur]) = "OS_Sched" /\ Waiting[os.cur] = WaitOf(pc[os.cur])
    BY <1>1, <1>4, StepCaller
  <1>7. NextOp(steps) \in WaitOps \cup {"none"} /\ WaitOf(steps) = Waiting[os.cur]
    BY <1>3, <1>6, NextStep
  <1>8. Continues(steps) /\ os' = l
    BY <1>4, LeaveContinues
  <1>9. l.list = os.list
    BY <1>5 DEF Inert, Apart, Stable, SameTasks
  <1>10. Waiting' = Waiting /\ app' = app
    BY <1>1, <1>6, <1>7, <1>8, PcAfter
  <1>11. NextOp(steps) # "OS_Dummy"
    BY <1>7 DEF WaitOps
  <1>12. Live' = Live
    BY <1>1, <1>6, <1>8, <1>9, <1>11, LiveSame
  <1>13. \A o \in StockOps : OpSame(o)
    <2> SUFFICES ASSUME NEW o \in StockOps PROVE OpSame(o)
      OBVIOUS
    <2>1. o # "none" /\ o # "OS_Sched" /\ o \notin WaitOps
      BY DEF StockOps, CreationOps, WaitOps
    <2> QED
      BY <1>1, <1>6, <1>7, <1>8, <2>1, SameOps DEF OpSame
  <1>14. FlagWaitsSame
    BY <1>10, <1>12 DEF FlagWaitsSame
  <1>15. \A e \in EventIds : StaysFair(os, os', e)
    BY <1>5, <1>8 DEF StaysFair, Waiters
  <1> QED
    BY <1>1, <1>5, <1>8, <1>10, <1>13, <1>14, <1>15, BooksKeep DEF Inert, Apart

LEMMA LockBooks ==
  ASSUME KInv, Inv, Books, OSSchedLock \/ OSSchedUnlock PROVE Booked
  <1>1. Shape(os)
    BY DataShape DEF Inv, TInv
  <1>2. PICK c, v, steps : /\ AtTask(c) /\ Leave([os EXCEPT !.lock = v], steps)
                           /\ steps = <<>> \/ steps = <<Sched>>
    <2>1. CASE OSSchedLock
      BY <2>1 DEF OSSchedLock
    <2>2. CASE OSSchedUnlock
      <3>1. PICK steps : steps = IF os.lock = 1 THEN <<Sched>> ELSE <<>>
        OBVIOUS
      <3> QED
        BY <2>2, <3>1 DEF OSSchedUnlock
    <2> QED
      BY <2>1, <2>2
  <1>3. PICK l : l = [os EXCEPT !.lock = v]
    OBVIOUS
  <1>4. DOMAIN l = Fields /\ \A f \in Fields \ {"lock"} : l[f] = os[f]
    BY <1>1, <1>3 DEF Shape, Fields
  <1>5. l.tcb = os.tcb /\ l.event = os.event
    BY <1>4 DEF Fields
  <1>6. Inert(os, l)
    BY <1>1, <1>4, <1>5, InertParts DEF Shape
  <1> QED
    BY <1>2, <1>3, <1>5, <1>6, StatusBooks DEF Anywhere

===============================================================================
