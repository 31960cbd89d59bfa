------------------------------- MODULE OsMbox -------------------------------
(***************************************************************************)
(* Mailboxes (os_mbox.c): OSEventPtr of the control block holds at most    *)
(* one message.                                                            *)
(***************************************************************************)
EXTENDS OsCore

NewMbox(msg) == [UnusedEvent EXCEPT !.type = "MBOX", !.ptr = msg]
IsMbox(e)    == os.event[e].type = "MBOX"
Posted(m, n) == [act |-> "put", msg |-> m, n |-> n]
Mbox(e, deletes) == Event("MBOX", e, deletes)

(* Mutant: only the pointer is checked, not the type.                      *)
OSMbox_CheckType_AnyType(e, deletes) ==
  /\ e \in EventIds
  /\ CheckType(IF deletes THEN {"OSMboxDel"}
               ELSE {"OSMboxAccept", "OSMboxPend", "OSMboxPendAbort", "OSMboxPost", "OSMboxPostOpt"},
               Mbox(e, deletes))
OSMbox_CheckType(e, deletes) ==
  /\ IsMbox(e)
  /\ CheckType(IF deletes THEN {"OSMboxDel"}
               ELSE {"OSMboxAccept", "OSMboxPend", "OSMboxPendAbort", "OSMboxPost", "OSMboxPostOpt"},
               Mbox(e, deletes))

OSMboxCreate(msg) ==
  /\ AtTask("OSMboxCreate")
  /\ os.freeEvents # <<>>
  /\ Leave(NewEvent(os, NewMbox(msg)), <<>>)
  /\ io' = Told(Head(os.freeEvents), [act |-> "clear"])

OSMboxDel(e, always) ==
  /\ AtTask("OSMboxDel")
  /\ IsMbox(e)
  /\ Checked(Mbox(e, TRUE))
  /\ HasWaiter(os, e) => always
  /\ Leave(FreeEvent(OS_EventTaskRdy(os, e, Waiters(os, e), None, "MBOX", "OK"), e),
           IF HasWaiter(os, e) THEN <<Sched>> ELSE <<>>)
  /\ io' = Told(e, [act |-> "clear"])

OSMboxAccept(e) ==
  /\ Anywhere("OSMboxAccept")
  /\ IsMbox(e)
  /\ Checked(Mbox(e, FALSE))
  /\ os.event[e].ptr # None
  /\ Leave([os EXCEPT !.event[e].ptr = None], <<>>)
  /\ io' = Told(e, [act |-> "got", msg |-> os.event[e].ptr])

OSMboxPend(e, timeout) ==
  /\ AtTask("OSMboxPend")
  /\ IsMbox(e)
  /\ Checked(Mbox(e, FALSE))
  /\ os.lock = 0
  /\ \/ /\ os.event[e].ptr # None
        /\ Leave([os EXCEPT !.event[e].ptr = None], <<>>)
        /\ io' = Told(e, [act |-> "got", msg |-> os.event[e].ptr])
     \/ /\ os.event[e].ptr = None
        /\ Leave(OS_EventTaskWait(StartPend(os, {"MBOX"}, timeout), e),
                 <<Sched, [op |-> "pend", event |-> e, type |-> "MBOX"]>>)
        /\ io' = NoIO

OSMboxPend_Return ==
  /\ Step("pend") /\ Now.type = "MBOX"
  /\ Proceed(EndPend(os, {Now.event}))
  /\ io' = IF Cur.pend = "OK" THEN Told(Now.event, [act |-> "got", msg |-> Cur.msg]) ELSE NoIO

OSMboxPendAbort(e, all) ==
  /\ Anywhere("OSMboxPendAbort")
  /\ IsMbox(e)
  /\ Checked(Mbox(e, FALSE))
  /\ HasWaiter(os, e)
  /\ Leave(OS_EventTaskRdy(os, e, IF all THEN Waiters(os, e) ELSE HighestWaiter(os, e),
                           None, "MBOX", "ABORT"), <<Sched>>)
  /\ io' = NoIO

OSMboxPost(e, msg) ==
  /\ Anywhere("OSMboxPost")
  /\ IsMbox(e)
  /\ Checked(Mbox(e, FALSE))
  /\ \/ /\ HasWaiter(os, e)
        /\ Leave(OS_EventTaskRdy(os, e, HighestWaiter(os, e), msg, "MBOX", "OK"), <<Sched>>)
     \/ /\ ~HasWaiter(os, e)
        /\ os.event[e].ptr = None
        /\ Leave([os EXCEPT !.event[e].ptr = msg], <<>>)
  /\ io' = Told(e, Posted(msg, 1))

(* To all waiters if broadcast, and without a switch if ~sched. *)
OSMboxPostOpt(e, msg, broadcast, sched) ==
  /\ Anywhere("OSMboxPostOpt")
  /\ IsMbox(e)
  /\ Checked(Mbox(e, FALSE))
  /\ ~sched => app.noSched
  /\ \/ LET to == IF broadcast THEN Waiters(os, e) ELSE HighestWaiter(os, e)
        IN  /\ HasWaiter(os, e)
            /\ Leave(OS_EventTaskRdy(os, e, to, msg, "MBOX", "OK"),
                     IF sched THEN <<Sched>> ELSE <<>>)
            /\ io' = Told(e, Posted(msg, Cardinality(to)))
     \/ /\ ~HasWaiter(os, e)
        /\ os.event[e].ptr = None
        /\ Leave([os EXCEPT !.event[e].ptr = msg], <<>>)
        /\ io' = Told(e, Posted(msg, 1))

MboxNext ==
  \/ \E msg \in Msgs \cup {None} : OSMboxCreate(msg)
  \/ \E e \in EventIds :
       \/ OSMboxAccept(e)
       \/ \E all \in BOOLEAN : OSMboxDel(e, all) \/ OSMboxPendAbort(e, all)
       \/ \E timeout \in Timeouts : OSMboxPend(e, timeout)
       \/ \E msg \in Msgs :
            \/ OSMboxPost(e, msg)
            \/ \E broadcast, sched \in BOOLEAN : OSMboxPostOpt(e, msg, broadcast, sched)
  \/ OSMboxPend_Return
=============================================================================
