-------------------------------- MODULE OsQ --------------------------------
(***************************************************************************)
(* Message queues (os_q.c).  OSEventPtr of the control block is the OS_Q   *)
(* with the circular buffer, which comes from a free list of its own.      *)
(***************************************************************************)
EXTENDS OsCore

CONSTANT OSQSize         (* the size of the application's queues          *)
ASSUME QueueAssumption == OSQSize \in Nat \ {0}

INSTANCE OsRing WITH Slot <- Msgs \cup {None}

NewQ   == [UnusedEvent EXCEPT !.type = "Q", !.ptr = NewRing(OSQSize, None)]
IsQ(e) == os.event[e].type = "Q"
Queue(e) == os.event[e].ptr
WithQueue(e, q) == [os EXCEPT !.event[e].ptr = q]
Queued(act, m, n) == [act |-> act, msg |-> m, n |-> n]
Q(e, deletes) == Event("Q", e, deletes)

OSQ_CheckType(e, deletes) ==
  /\ IsQ(e)
  /\ CheckType(IF deletes THEN {"OSQDel"}
               ELSE {"OSQAccept", "OSQFlush", "OSQPend", "OSQPendAbort", "OSQPost", "OSQPostFront",
                     "OSQPostOpt"},
               Q(e, deletes))

(***************************************************************************)
(* Creation takes an event control block and then, in a critical section   *)
(* of its own, an OS_Q; without one the event control block goes back.     *)
(***************************************************************************)
OSQCreate ==
  /\ AtTask("OSQCreate")
  /\ os.freeEvents # <<>>
  /\ Leave([os EXCEPT !.freeEvents = Tail(@)],
           <<[op |-> "OSQCreate", event |-> Head(os.freeEvents)]>>)
  /\ io' = NoIO

(* Mutant: without a queue control block the event control block is lost.  *)
OSQCreate_Q_EventLost ==
  /\ Step("OSQCreate")
  /\ IF os.freeQs > 0
       THEN Leave([os EXCEPT !.freeQs = @ - 1, !.event[Now.event] = NewQ], <<>>)
       ELSE Leave(os, <<>>)
  /\ io' = Told(Now.event, [act |-> "clear"])
OSQCreate_Q ==
  /\ Step("OSQCreate")
  /\ IF os.freeQs > 0
       THEN Leave([os EXCEPT !.freeQs = @ - 1, !.event[Now.event] = NewQ], <<>>)
       ELSE Leave([os EXCEPT !.freeEvents = <<Now.event>> \o @], <<>>)
  /\ io' = Told(Now.event, [act |-> "clear"])

OSQDel(e, always) ==
  /\ AtTask("OSQDel")
  /\ IsQ(e)
  /\ Checked(Q(e, TRUE))
  /\ HasWaiter(os, e) => always
  /\ Leave([FreeEvent(OS_EventTaskRdy(os, e, Waiters(os, e), None, "Q", "OK"), e)
              EXCEPT !.freeQs = @ + 1],
           IF HasWaiter(os, e) THEN <<Sched>> ELSE <<>>)
  /\ io' = Told(e, [act |-> "clear"])

OSQAccept(e) ==
  /\ Anywhere("OSQAccept")
  /\ IsQ(e)
  /\ Checked(Q(e, FALSE))
  /\ Queue(e).entries > 0
  /\ Leave(WithQueue(e, Dequeue(Queue(e))), <<>>)
  /\ io' = Told(e, [act |-> "got", msg |-> Next1(Queue(e))])

OSQFlush(e) ==
  /\ Anywhere("OSQFlush")
  /\ IsQ(e)
  /\ Checked(Q(e, FALSE))
  /\ Leave(WithQueue(e, Flush(Queue(e))), <<>>)
  /\ io' = Told(e, [act |-> "clear"])

OSQPend(e, timeout) ==
  /\ AtTask("OSQPend")
  /\ IsQ(e)
  /\ Checked(Q(e, FALSE))
  /\ os.lock = 0
  /\ \/ /\ Queue(e).entries > 0
        /\ Leave(WithQueue(e, Dequeue(Queue(e))), <<>>)
        /\ io' = Told(e, [act |-> "got", msg |-> Next1(Queue(e))])
     \/ /\ Queue(e).entries = 0
        /\ Leave(OS_EventTaskWait(StartPend(os, {"Q"}, timeout), e),
                 <<Sched, [op |-> "pend", event |-> e, type |-> "Q"]>>)
        /\ io' = NoIO

OSQPend_Return ==
  /\ Step("pend") /\ Now.type = "Q"
  /\ Proceed(EndPend(os, {Now.event}))
  /\ io' = IF Cur.pend = "OK" THEN Told(Now.event, [act |-> "got", msg |-> Cur.msg]) ELSE NoIO

OSQPendAbort(e, all) ==
  /\ Anywhere("OSQPendAbort")
  /\ IsQ(e)
  /\ Checked(Q(e, FALSE))
  /\ HasWaiter(os, e)
  /\ Leave(OS_EventTaskRdy(os, e, IF all THEN Waiters(os, e) ELSE HighestWaiter(os, e),
                           None, "Q", "ABORT"), <<Sched>>)
  /\ io' = NoIO

OSQPost(e, msg) ==
  /\ Anywhere("OSQPost")
  /\ IsQ(e)
  /\ Checked(Q(e, FALSE))
  /\ \/ /\ HasWaiter(os, e)
        /\ Leave(OS_EventTaskRdy(os, e, HighestWaiter(os, e), msg, "Q", "OK"), <<Sched>>)
     \/ /\ ~HasWaiter(os, e)
        /\ ~IsFull(Queue(e))
        /\ Leave(WithQueue(e, Enqueue(Queue(e), msg)), <<>>)
  /\ io' = Told(e, Queued("put", msg, 1))

OSQPostFront(e, msg) ==
  /\ Anywhere("OSQPostFront")
  /\ IsQ(e)
  /\ Checked(Q(e, FALSE))
  /\ \/ /\ HasWaiter(os, e)
        /\ Leave(OS_EventTaskRdy(os, e, HighestWaiter(os, e), msg, "Q", "OK"), <<Sched>>)
     \/ /\ ~HasWaiter(os, e)
        /\ ~IsFull(Queue(e))
        /\ Leave(WithQueue(e, EnqueueFront(Queue(e), msg)), <<>>)
  /\ io' = Told(e, Queued("front", msg, 1))

OSQPostOpt(e, msg, broadcast, front, sched) ==
  /\ Anywhere("OSQPostOpt")
  /\ IsQ(e)
  /\ Checked(Q(e, FALSE))
  /\ ~sched => app.noSched
  /\ \/ LET to == IF broadcast THEN Waiters(os, e) ELSE HighestWaiter(os, e)
        IN  /\ HasWaiter(os, e)
            /\ Leave(OS_EventTaskRdy(os, e, to, msg, "Q", "OK"),
                     IF sched THEN <<Sched>> ELSE <<>>)
            /\ io' = Told(e, Queued("put", msg, Cardinality(to)))
     \/ /\ ~HasWaiter(os, e)
        /\ ~IsFull(Queue(e))
        /\ Leave(WithQueue(e, IF front THEN EnqueueFront(Queue(e), msg)
                              ELSE Enqueue(Queue(e), msg)), <<>>)
        /\ io' = Told(e, Queued(IF front THEN "front" ELSE "put", msg, 1))

QNext ==
  \/ OSQCreate \/ OSQCreate_Q
  \/ \E e \in EventIds :
       \/ OSQAccept(e) \/ OSQFlush(e)
       \/ \E all \in BOOLEAN : OSQDel(e, all) \/ OSQPendAbort(e, all)
       \/ \E timeout \in Timeouts : OSQPend(e, timeout)
       \/ \E msg \in Msgs :
            \/ OSQPost(e, msg) \/ OSQPostFront(e, msg)
            \/ \E broadcast, front, sched \in BOOLEAN :
                 OSQPostOpt(e, msg, broadcast, front, sched)
  \/ OSQPend_Return
=============================================================================
