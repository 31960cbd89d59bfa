------------------------------- MODULE MCEvents -------------------------------
(***************************************************************************)
(* Applications of one to three tasks and a device handler, one for every  *)
(* kind of kernel object.                                                  *)
(***************************************************************************)
EXTENDS Kernel, TLC

MCClocks == {}

Base == [tasks |-> <<1, 2>>, events |-> <<>>, calls |-> {}, isr |-> {},
         maxLock |-> 0, noSched |-> FALSE, flags |-> <<>>, conds |-> {}, freeQs |-> 0,
         mem |-> 0]

BothOf(set) == [flags |-> FlagBits, set |-> set, any |-> FALSE]
OneOf(set)  == [flags |-> FlagBits, set |-> set, any |-> TRUE]

Semaphores ==
  [Base EXCEPT !.events = 0 :> NewSem(0), !.tasks = <<1, 2, 3>>,
               !.calls = {"OSSemPend", "OSSemPost", "OSSemAccept", "OSSemDel"},
               !.isr = {"OSSemPost", "OSSemPendAbort", "OSSemSet"}]
Mailboxes ==
  [Base EXCEPT !.events = 0 :> NewMbox(None), !.noSched = TRUE,
               !.calls = {"OSMboxPend", "OSMboxPost", "OSMboxDel", "OSMboxCreate"},
               !.isr = {"OSMboxPostOpt", "OSMboxAccept", "OSMboxPendAbort"}]
Queues ==
  [Base EXCEPT !.events = 0 :> NewQ, !.noSched = TRUE,
               !.calls = {"OSQPend", "OSQPost"},
               !.isr = {"OSQAccept", "OSQPostFront", "OSQPostOpt", "OSQPendAbort", "OSQFlush"}]
Several ==
  [Base EXCEPT !.events = 0 :> NewSem(0) @@ 1 :> NewMbox(None),
               !.calls = {"OSEventPendMulti", "OSSemPost", "OSMboxPost", "OSSemPend"},
               !.isr = {"OSSemPost", "OSMboxPost"}]
SeveralQueues ==
  [Base EXCEPT !.events = 0 :> NewQ @@ 1 :> NewSem(0), !.tasks = <<1>>,
               !.calls = {"OSEventPendMulti"},
               !.isr = {"OSSemPost", "OSQPost"}]
SeveralReaders ==
  [Base EXCEPT !.events = 0 :> NewQ,
               !.calls = {"OSEventPendMulti"}, !.isr = {"OSQPost"}]
FlagsSet ==
  [Base EXCEPT !.flags = 0 :> NewFlag({}), !.conds = {BothOf(TRUE), OneOf(TRUE)},
               !.calls = {"OSFlagPend"}, !.isr = {"OSFlagPost"}]
FlagsClear ==
  [Base EXCEPT !.flags = 0 :> NewFlag({}), !.conds = {BothOf(FALSE)},
               !.calls = {"OSFlagPend", "OSFlagDel", "OSFlagCreate"},
               !.isr = {"OSFlagPost", "OSFlagAccept"}]
Mutexes ==
  [Base EXCEPT !.events = 0 :> NewMutex(0), !.tasks = <<1, 2, 3>>,
               !.calls = {"OSMutexPend", "OSMutexPost", "OSMutexAccept", "OSTimeDly"}]
Objects ==
  [Base EXCEPT !.calls = {"OSQCreate", "OSQDel", "OSSemCreate", "OSSemDel", "OSMutexCreate",
                          "OSMutexDel", "OSMutexAccept"},
               !.freeQs = 1]
Partitions ==
  [Base EXCEPT !.mem = 1, !.calls = {"OSMemCreate", "OSMemGet", "OSMemPut"},
               !.isr = {"OSMemGet", "OSMemPut"}]

MCProfiles == {Semaphores, Mailboxes, Queues, Several, SeveralQueues, SeveralReaders,
               FlagsSet, FlagsClear, Mutexes, Objects, Partitions}
Symmetry == Permutations(Msgs)

(* A mailbox that one task deletes while another one uses it.              *)
MCDeleted  == {Mailboxes}

ASSUME ProfilesSupported == \A a \in Profiles : Supported(a)
=============================================================================
