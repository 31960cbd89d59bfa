------------------------------- MODULE OsMulti -------------------------------
(***************************************************************************)
(* Waiting for several semaphores, mailboxes and queues at once            *)
(* (OSEventPendMulti of os_core.c).  The caller gets something from every  *)
(* event that has it; if none has, it waits for the first post to any.     *)
(***************************************************************************)
EXTENDS OsSem, OsMbox, OsQ

Available(e) ==
  \/ IsSem(e)  /\ os.event[e].cnt > 0
  \/ IsMbox(e) /\ os.event[e].ptr # None
  \/ IsQ(e)    /\ Queue(e).entries > 0

TakeOne(e) ==
  CASE IsSem(e)  -> [os.event[e] EXCEPT !.cnt = @ - 1]
    [] IsMbox(e) -> [os.event[e] EXCEPT !.ptr = None]
    [] IsQ(e)    -> [os.event[e] EXCEPT !.ptr = Dequeue(@)]

MessageOf(e) ==
  CASE IsSem(e)  -> Signal
    [] IsMbox(e) -> os.event[e].ptr
    [] IsQ(e)    -> Next1(Queue(e))

SeveralTypes == {"SEM", "MBOX", "Q"}
SeveralEvents(E) == [NothingSeen EXCEPT !.types = SeveralTypes, !.events = E]

OSEventPendMulti_CheckType(E) ==
  /\ E # {}
  /\ \A e \in E : os.event[e].type \in SeveralTypes
  /\ CheckType({"OSEventPendMulti"}, SeveralEvents(E))

OSEventPendMulti_Check(E) ==
  /\ AtTask("OSEventPendMulti")
  /\ E # {}
  /\ \A e \in E : os.event[e].type \in SeveralTypes
  /\ Checked(SeveralEvents(E))
  /\ os.lock = 0

OSEventPendMulti_Take(E) ==
  LET ready == {e \in E : Available(e)}
  IN  /\ ready # {}
      /\ Leave([os EXCEPT !.event = [e \in EventIds |->
                  IF e \in ready THEN TakeOne(e) ELSE os.event[e]]], <<>>)
      /\ io' = [e \in EventIds |->
                  IF e \in ready THEN [act |-> "got", msg |-> MessageOf(e)]
                  ELSE [act |-> "none"]]

OSEventPendMulti_Wait(E, timeout) ==
  /\ \A e \in E : ~Available(e)
  /\ Leave(OS_EventTaskWaitMulti(
             StartPend(os, {os.event[e].type : e \in E} \cup {"MULTI"}, timeout), E),
           <<Sched, [op |-> "multi", events |-> E]>>)
  /\ io' = NoIO

OSEventPendMulti(E, timeout) ==
  /\ OSEventPendMulti_Check(E)
  /\ OSEventPendMulti_Take(E) \/ OSEventPendMulti_Wait(E, timeout)

(* OSTCBEventPtr is the event of the post that woke the task, or of the    *)
(* deletion: then the type is wrong, and the code returns OS_ERR_EVENT_TYPE *)
(* before it clears anything.                                              *)
OSEventPendMulti_Return ==
  /\ Step("multi")
  /\ IF Cur.pend = "OK" /\ os.event[Cur.event].type \notin SeveralTypes
       THEN Proceed(os) /\ io' = NoIO
       ELSE /\ Proceed(EndPend(os, Now.events))
            /\ io' = IF Cur.pend = "OK"
                       THEN Told(Cur.event, [act |-> "got", msg |-> Cur.msg]) ELSE NoIO

MultiNext ==
  \/ \E E \in SUBSET EventIds, timeout \in Timeouts : OSEventPendMulti(E, timeout)
  \/ OSEventPendMulti_Return
=============================================================================
