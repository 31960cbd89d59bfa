------------------------------- MODULE MCTasks -------------------------------
(***************************************************************************)
(* Applications of two tasks around one semaphore, each with the services  *)
(* of task management and time that its name says.                         *)
(***************************************************************************)
EXTENDS Kernel, TLC

MCClocks == {[h |-> 0, m |-> 0, s |-> 0, ms |-> ms] : ms \in {4, 10}}

Base == [tasks |-> <<1, 2>>, events |-> 0 :> NewSem(0), calls |-> {}, isr |-> {},
         maxLock |-> 1, noSched |-> FALSE, flags |-> <<>>, conds |-> {}, freeQs |-> 0,
         mem |-> 0]

Suspending ==
  [Base EXCEPT !.calls = {"OSTimeDly", "OSSemPend", "OSSemPost", "OSTaskSuspend", "OSTaskResume"},
               !.isr = {"OSSemPost", "OSTaskResume", "OSTimeDlyResume"}]
Prioritising ==
  [Base EXCEPT !.calls = {"OSTimeDly", "OSSemPend", "OSSemPost", "OSTaskChangePrio",
                          "OSSchedLock", "OSSchedUnlock"},
               !.isr = {"OSSemPost"}]
Creating ==
  [Base EXCEPT !.calls = {"OSTimeDlyHMSM", "OSSemPend", "OSTaskCreate", "OSTaskCreateExt", "OSTaskDel",
                          "OSTaskDelReq"},
               !.isr = {"OSSemPost"}]

MCWoken    == {Prioritising}
MCProfiles == {Suspending, Prioritising, Creating}

ASSUME ProfilesSupported == \A a \in Profiles : Supported(a)
=============================================================================
