------------------------------- MODULE OsTmr -------------------------------
(***************************************************************************)
(* Software timers (os_tmr.c).  The running timers hang on a wheel of      *)
(* spokes, in the one of the tick at which they expire, as doubly linked   *)
(* lists.  OSTmr_Task waits for OSTmrSignal, advances OSTmrTime and walks  *)
(* over the spoke of the new time.                                         *)
(*                                                                         *)
(* A service runs with the scheduler locked and is one action here; so     *)
(* does the task from one pend to the next, so that meanwhile only its own *)
(* callbacks call services.  The task keeps the timer it will look at next *)
(* while a callback runs, and goes on with it whatever the callback did to *)
(* it.  Nothing in the code keeps a callback away from that timer;         *)
(* CallbackTouchesNext says whether those of the application touch it.     *)
(***************************************************************************)
EXTENDS Integers, FiniteSets

CONSTANTS
  OS_TMR_CFG_MAX,         (* the number of timer control blocks            *)
  OS_TMR_CFG_WHEEL_SIZE,  (* the number of spokes                          *)
  TimeRange,              (* OSTmrTime and OSTmrMatch count modulo this    *)
  Settings,               (* the settings of timers considered             *)
  SignalMax,              (* the largest count of OSTmrSemSignal           *)
  CallbackTouchesNext,    (* does a callback call a service for the timer  *)
                          (* after it in the spoke?                        *)
  Null

Timers == 0 .. OS_TMR_CFG_MAX - 1

ASSUME WheelAssumption ==
  /\ OS_TMR_CFG_MAX \in Nat \ {0}
  /\ OS_TMR_CFG_WHEEL_SIZE \in Nat \ {0}
  /\ TimeRange \in Nat \ {0}
  /\ TimeRange % OS_TMR_CFG_WHEEL_SIZE = 0
ASSUME SettingsAssumption ==
  \A s \in Settings : /\ s.dly \in 0 .. TimeRange - 1 /\ s.period \in 0 .. TimeRange - 1
                      /\ s.periodic => s.period > 0
                      /\ s.periodic \/ s.dly > 0
ASSUME NullAssumption ==
  Null \notin Timers /\ Null \notin Settings /\ Null \notin 0 .. TimeRange - 1
ASSUME SignalAssumption == SignalMax \in Nat
ASSUME CallbackAssumption == CallbackTouchesNext \in BOOLEAN

VARIABLES
  tmr,        (* OSTmrTbl                                                  *)
  wheel,      (* OSTmrWheelTbl                                             *)
  freeList,   (* OSTmrFreeList; the free timers are linked by next         *)
  used,       (* OSTmrUsed                                                 *)
  time,       (* OSTmrTime                                                 *)
  signals,    (* the count of OSTmrSemSignal                               *)
  task        (* where OSTmr_Task is                                       *)

vars == <<tmr, wheel, freeList, used, time, signals, task>>

Spokes   == 0 .. OS_TMR_CFG_WHEEL_SIZE - 1
Spoke(m) == m % OS_TMR_CFG_WHEEL_SIZE
NoSetting == [dly |-> 0, period |-> 0, periodic |-> FALSE]

(***************************************************************************)
(* A timer enters the list of its spoke at the head, and leaves it from    *)
(* anywhere.  k is a record of the timers and the wheel.                   *)
(***************************************************************************)
Mem == [tmr |-> tmr, wheel |-> wheel]

(* Mutant: the first delay is counted from the period.                     *)
OSTmr_Link_DlyIgnored(k, t, periodic) ==
  LET s     == k.tmr[t].setting
      match == (time + (IF periodic \/ s.period # 0 THEN s.period ELSE s.dly)) % TimeRange
      first == k.wheel[Spoke(match)].first
  IN  [tmr   |-> [u \in Timers |->
                    IF u = t THEN [k.tmr[t] EXCEPT !.state = "RUNNING", !.match = match,
                                                   !.next = first, !.prev = Null]
                    ELSE IF u = first THEN [k.tmr[u] EXCEPT !.prev = t] ELSE k.tmr[u]],
       wheel |-> [k.wheel EXCEPT ![Spoke(match)] =
                    [first |-> t, entries |-> IF first = Null THEN 1 ELSE @.entries + 1]]]
OSTmr_Link(k, t, periodic) ==
  LET s     == k.tmr[t].setting
      match == (time + (IF periodic \/ s.dly = 0 THEN s.period ELSE s.dly)) % TimeRange
      first == k.wheel[Spoke(match)].first
  IN  [tmr   |-> [u \in Timers |->
                    IF u = t THEN [k.tmr[t] EXCEPT !.state = "RUNNING", !.match = match,
                                                   !.next = first, !.prev = Null]
                    ELSE IF u = first THEN [k.tmr[u] EXCEPT !.prev = t] ELSE k.tmr[u]],
       wheel |-> [k.wheel EXCEPT ![Spoke(match)] =
                    [first |-> t, entries |-> IF first = Null THEN 1 ELSE @.entries + 1]]]

(* Mutant: the timer before it still leads to the timer taken out.         *)
OSTmr_Unlink_MiddleStays(k, t) ==
  LET spoke == Spoke(k.tmr[t].match)
      next  == k.tmr[t].next
      first == k.wheel[spoke].first = t
  IN  [tmr   |-> [u \in Timers |->
                    IF u = t THEN [k.tmr[t] EXCEPT !.state = "STOPPED", !.next = Null, !.prev = Null]
                    ELSE IF u = next THEN [k.tmr[u] EXCEPT !.prev = Null] ELSE k.tmr[u]],
       wheel |-> [k.wheel EXCEPT ![spoke].entries = @ - 1,
                                 ![spoke].first = IF first THEN next ELSE @]]
(* A timer that is in no list has no neighbours: then the code writes      *)
(* through the null pointer, to no timer, and counts one off all the same  *)
(* (-1 stands for the largest INT16U).                                     *)
OSTmr_Unlink(k, t) ==
  LET spoke == Spoke(k.tmr[t].match)
      prev  == k.tmr[t].prev
      next  == k.tmr[t].next
      first == k.wheel[spoke].first = t
  IN  [tmr   |-> [u \in Timers |->
                    IF u = t THEN [k.tmr[t] EXCEPT !.state = "STOPPED", !.next = Null, !.prev = Null]
                    ELSE [k.tmr[u] EXCEPT
                            !.next = IF u = prev /\ ~first THEN next ELSE @,
                            !.prev = IF u = next THEN (IF first THEN Null ELSE prev) ELSE @]],
       wheel |-> [k.wheel EXCEPT ![spoke].entries = @ - 1,
                                 ![spoke].first = IF first THEN next ELSE @]]

Into(k) == tmr' = k.tmr /\ wheel' = k.wheel

(***************************************************************************)
(* The services, from a task or from a callback.                           *)
(***************************************************************************)
MayTouch(t) ==
  task.at = "pend" \/ (task.at = "callback" /\ (CallbackTouchesNext \/ t # task.next))

OSTmr_Alloc ==
  /\ freeList # Null
  /\ freeList' = tmr[freeList].next
  /\ used' = used + 1

OSTmrCreate(s) ==
  /\ task.at # "walk"
  /\ OSTmr_Alloc
  /\ tmr' = [tmr EXCEPT ![freeList] = [@ EXCEPT !.state = "STOPPED", !.setting = s,
                                                !.next = Null, !.prev = Null]]
  /\ UNCHANGED <<wheel, time, signals, task>>

(* OSTmrDly keeps its value; nobody reads it before OSTmrCreate sets it.   *)
OSTmr_Free(k, t) ==
  /\ tmr' = [k.tmr EXCEPT ![t] = [@ EXCEPT !.state = "UNUSED", !.setting = NoSetting,
                                           !.match = 0, !.prev = Null, !.next = freeList]]
  /\ wheel' = k.wheel
  /\ freeList' = t
  /\ used' = used - 1

(* Mutant: a running timer is not taken off the wheel.                     *)
OSTmrDel_StillLinked(t) ==
  /\ MayTouch(t)
  /\ tmr[t].state # "UNUSED"
  /\ OSTmr_Free(Mem, t)
  /\ UNCHANGED <<time, signals, task>>
OSTmrDel(t) ==
  /\ MayTouch(t)
  /\ tmr[t].state # "UNUSED"
  /\ OSTmr_Free(IF tmr[t].state = "RUNNING" THEN OSTmr_Unlink(Mem, t) ELSE Mem, t)
  /\ UNCHANGED <<time, signals, task>>

OSTmrStart(t) ==
  /\ MayTouch(t)
  /\ \/ tmr[t].state = "RUNNING" /\ Into(OSTmr_Link(OSTmr_Unlink(Mem, t), t, FALSE))
     \/ tmr[t].state \in {"STOPPED", "COMPLETED"} /\ Into(OSTmr_Link(Mem, t, FALSE))
  /\ UNCHANGED <<freeList, used, time, signals, task>>

OSTmrStop(t) ==
  /\ MayTouch(t)
  /\ tmr[t].state = "RUNNING"
  /\ Into(OSTmr_Unlink(Mem, t))
  /\ UNCHANGED <<freeList, used, time, signals, task>>

OSTmrStateGet(t) == tmr[t].state

OSTmrRemainGet(t) ==
  LET s == tmr[t].setting
  IN  CASE tmr[t].state = "RUNNING" -> (tmr[t].match - time) % TimeRange
        [] tmr[t].state = "STOPPED" -> IF s.periodic /\ s.dly = 0 THEN s.period ELSE s.dly
        [] OTHER                    -> 0

(* By a tick handler or a task. *)
OSTmrSignal ==
  /\ signals < SignalMax
  /\ signals' = signals + 1
  /\ UNCHANGED <<tmr, wheel, freeList, used, time, task>>

(***************************************************************************)
(* OSTmr_Task: the pend, one timer of the walk with its callback, the end. *)
(***************************************************************************)
(* Mutant: the time wraps one tick late.                                   *)
OSTmr_Task_Tick_LateWrap ==
  /\ task.at = "pend"
  /\ signals > 0
  /\ signals' = signals - 1
  /\ time' = IF time = TimeRange THEN 0 ELSE time + 1
  /\ task' = [at |-> "walk", ptmr |-> wheel[Spoke(time')].first, next |-> Null]
  /\ UNCHANGED <<tmr, wheel, freeList, used>>
OSTmr_Task_Tick ==
  /\ task.at = "pend"
  /\ signals > 0
  /\ signals' = signals - 1
  /\ time' = (time + 1) % TimeRange
  /\ task' = [at |-> "walk", ptmr |-> wheel[Spoke(time')].first, next |-> Null]
  /\ UNCHANGED <<tmr, wheel, freeList, used>>

OSTmr_Task_Look ==
  LET t    == task.ptmr
      off  == OSTmr_Unlink(Mem, t)
      over == IF tmr[t].setting.periodic THEN OSTmr_Link(off, t, TRUE)
              ELSE [off EXCEPT !.tmr[t].state = "COMPLETED"]
  IN  /\ task.at = "walk"
      /\ t # Null
      /\ IF time = tmr[t].match
           THEN Into(over) /\ task' = [task EXCEPT !.at = "callback", !.next = tmr[t].next]
           ELSE /\ task' = [task EXCEPT !.ptmr = tmr[t].next]
                /\ UNCHANGED <<tmr, wheel>>
      /\ UNCHANGED <<freeList, used, time, signals>>

(* Mutant: the walk goes on with the link the timer has after the callback. *)
OSTmr_Task_CallbackReturns_Reread ==
  /\ task.at = "callback"
  /\ task' = [at |-> "walk", ptmr |-> tmr[task.ptmr].next, next |-> Null]
  /\ UNCHANGED <<tmr, wheel, freeList, used, time, signals>>
OSTmr_Task_CallbackReturns ==
  /\ task.at = "callback"
  /\ task' = [at |-> "walk", ptmr |-> task.next, next |-> Null]
  /\ UNCHANGED <<tmr, wheel, freeList, used, time, signals>>

OSTmr_Task_Unlock ==
  /\ task.at = "walk"
  /\ task.ptmr = Null
  /\ task' = [task EXCEPT !.at = "pend"]
  /\ UNCHANGED <<tmr, wheel, freeList, used, time, signals>>

OSTmr_Task == \/ OSTmr_Task_Tick \/ OSTmr_Task_Look
              \/ OSTmr_Task_CallbackReturns \/ OSTmr_Task_Unlock

(* All timers are free, linked in the order of the table.                  *)
OSTmr_Init ==
  /\ tmr = [t \in Timers |->
       [state |-> "UNUSED", setting |-> NoSetting, match |-> 0, prev |-> Null,
        next |-> IF t + 1 \in Timers THEN t + 1 ELSE Null]]
  /\ freeList = 0
  /\ wheel = [s \in Spokes |-> [first |-> Null, entries |-> 0]]
  /\ used = 0 /\ time = 0 /\ signals = 0

OSTmr_InitTask == task = [at |-> "pend", ptmr |-> Null, next |-> Null]

Init == OSTmr_Init /\ OSTmr_InitTask

Next == \/ \E s \in Settings : OSTmrCreate(s)
        \/ \E t \in Timers : OSTmrDel(t) \/ OSTmrStart(t) \/ OSTmrStop(t)
        \/ OSTmrSignal
        \/ OSTmr_Task

Spec == Init /\ [][Next]_vars

(***************************************************************************)
(* Signals keep coming, and the task, which has nearly the highest         *)
(* priority, runs when it has something to do and leaves its callbacks.    *)
(***************************************************************************)
FairSpec == Spec /\ WF_vars(OSTmrSignal) /\ WF_vars(OSTmr_Task)

(***************************************************************************)
(* Types.                                                                  *)
(***************************************************************************)
Ptr    == Timers \cup {Null}
States == {"UNUSED", "STOPPED", "COMPLETED", "RUNNING"}

TypeOK ==
  /\ tmr \in [Timers -> [state : States, setting : Settings \cup {NoSetting},
                         match : 0 .. TimeRange - 1, prev : Ptr, next : Ptr]]
  /\ wheel \in [Spokes -> [first : Ptr, entries : Int]]
  /\ freeList \in Ptr
  /\ used \in Int
  /\ time \in 0 .. TimeRange - 1
  /\ signals \in 0 .. SignalMax
  /\ task \in [at : {"pend", "walk", "callback"}, ptmr : Ptr, next : Ptr]

(***************************************************************************)
(* The lists of the wheel of k lead back as they lead forward, and hold    *)
(* running timers of their own spoke.                                      *)
(***************************************************************************)
On(k, t, s) == t \in Timers /\ k.tmr[t].state = "RUNNING" /\ Spoke(k.tmr[t].match) = s

Linked(k) ==
  /\ \A s \in Spokes : LET first == k.wheel[s].first
                       IN  first # Null => On(k, first, s) /\ k.tmr[first].prev = Null
  /\ \A s \in Spokes : \A t \in Timers : On(k, t, s) =>
       LET prev == k.tmr[t].prev
           next == k.tmr[t].next
       IN  /\ IF prev = Null THEN k.wheel[s].first = t ELSE On(k, prev, s) /\ k.tmr[prev].next = t
           /\ next # Null => On(k, next, s) /\ k.tmr[next].prev = t

Unused(t)  == t \in Timers /\ tmr[t].state = "UNUSED"
FreeLinked == /\ freeList # Null => Unused(freeList)
              /\ \A t \in Timers : Unused(t) /\ tmr[t].next # Null =>
                   /\ Unused(tmr[t].next) /\ tmr[t].next # freeList
                   /\ \A u \in Timers : Unused(u) /\ u # t => tmr[u].next # tmr[t].next

(***************************************************************************)
(* No service or callback breaks a list: the neighbours of each running    *)
(* timer lead to it, no two free timers to the same one, and the timer the *)
(* walk of OSTmr_Task goes on with still hangs in the spoke it walks over, *)
(* whatever other timers the callback relinked (OSTmr_Unlink, OSTmr_Task). *)
(***************************************************************************)
LinksOK ==
  /\ Linked(Mem)
  /\ FreeLinked
  /\ task.at = "walk" /\ task.ptmr # Null => On(Mem, task.ptmr, Spoke(time))
  /\ task.at = "callback" /\ task.next # Null => On(Mem, task.next, Spoke(time))

(* The timers of the list that begins at head, and the end of it after as  *)
(* many steps as there are timers.                                         *)
After(head) ==
  LET f[n \in 0 .. OS_TMR_CFG_MAX] ==
        IF n = 0 THEN head ELSE IF f[n - 1] = Null THEN Null ELSE tmr[f[n - 1]].next
  IN  f
Chain(head) == {After(head)[n] : n \in 0 .. OS_TMR_CFG_MAX} \ {Null}
Ends(head)  == After(head)[OS_TMR_CFG_MAX] = Null

(***************************************************************************)
(* Every running timer can be reached in the list of its spoke, every      *)
(* unused one in the free list and no other one, no list runs in a circle, *)
(* and the counts tell how many they are.                                  *)
(***************************************************************************)
WheelOK ==
  /\ \A s \in Spokes :
       /\ Ends(wheel[s].first)
       /\ Chain(wheel[s].first) =
            {t \in Timers : tmr[t].state = "RUNNING" /\ Spoke(tmr[t].match) = s}
       /\ wheel[s].entries = Cardinality(Chain(wheel[s].first))
  /\ Ends(freeList)
  /\ Chain(freeList) = {t \in Timers : tmr[t].state = "UNUSED"}
  /\ used = OS_TMR_CFG_MAX - Cardinality(Chain(freeList))

(***************************************************************************)
(* The timers go off when Alarms says they must: no expiry is missed, late *)
(* or doubled, whatever callbacks do to timers other than the one the walk *)
(* goes on with, and wherever OSTmrTime wraps.                             *)
(***************************************************************************)
Al == INSTANCE Alarms WITH
        Off <- Null,
        setting <- [t \in Timers |-> IF tmr[t].state = "UNUSED" THEN Null ELSE tmr[t].setting],
        left <- [t \in Timers |-> IF tmr[t].state = "RUNNING" THEN OSTmrRemainGet(t) ELSE Null],
        gone <- IF task.at = "callback" THEN task.ptmr ELSE Null

AlarmsSpec == Al!Spec

(***************************************************************************)
(* Only a running timer goes off (OSTmrStop: "to stop a timer").           *)
(***************************************************************************)
StoppedStaysOff ==
  [][task.at = "walk" /\ task'.at = "callback" => tmr[task.ptmr].state = "RUNNING"]_vars

(***************************************************************************)
(* Each walk over a spoke comes to its end although timers of the spoke    *)
(* other than its next one are relinked under it, and the task can take    *)
(* the next signal.                                                        *)
(***************************************************************************)
WalkEnds == (task.at # "pend") ~> (task.at = "pend")
=============================================================================
