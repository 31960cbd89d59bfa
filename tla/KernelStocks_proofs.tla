------------------------- MODULE KernelStocks_proofs --------------------------
(***************************************************************************)
(* Nothing is lost and nobody waits for what is there, for any number of   *)
(* tasks, priorities, objects and messages: what every free list and count *)
(* adds up to, what an event has while somebody waits for it, and what a   *)
(* task was granted of the flags it asked for.  Then the types of the      *)
(* data: every control block, every count, every queue and every flag      *)
(* group, whatever service changes it.  Services are taken one by one as   *)
(* in KernelLists_proofs, whose invariant these rest on.                   *)
(***************************************************************************)
EXTENDS KernelLists_proofs

(***************************************************************************)
(* Event flag groups.                                                      *)
(***************************************************************************)
LEMMA FlagBooksKeep ==
  ASSUME Books, Apart(os, os'), os'.event = os.event, \A op \in StockOps : OpSame(op), app' = app,
         FlagsKept', OnePolarity /\ NobodyServed => NobodyServed'
  PROVE  Booked
  <1>1. StocksKept'
    BY StocksKeep DEF Books, Apart
  <1>2. \A e \in EventIds : StaysFair(os, os', e)
    BY DEF StaysFair, Waiters
  <1> QED
    BY <1>1, <1>2, NoneWaitsKeep DEF Booked, Books, TypesStay, Apart, Stable, SameTypes, SameKinds

(* Who is in the list of group g. *)
LEMMA FlagWaiter ==
  ASSUME TInv, NEW g \in FlagIds, NEW t \in os.flag[g].wait
  PROVE  /\ t \in Live /\ t \in TCBs /\ Waiting[t].op = "flag" /\ Waiting[t] \in FlagStep
         /\ os.tcb[t].node = [grp |-> g, cond |-> Waiting[t].cond]
         /\ os.tcb[t].node.cond = Waiting[t].cond
  <1>1. t \in Live /\ t \in TCBs /\ TaskOK(os, Waiting[t], t)
    BY DEF TInv, Core
  <1>2. Waiting[t].op = "flag" /\ Waiting[t].grp = g /\ Listed(os.tcb[t]) /\ Waiting[t] \in WaitStep \cup {Sched}
    BY <1>1 DEF TaskOK
  <1>3. os.tcb[t].node = [grp |-> g, cond |-> Waiting[t].cond]
    BY <1>1, <1>2 DEF TaskOK, Local
  <1>4. Waiting[t] \in FlagStep
    BY <1>2 DEF WaitStep, PendStep, MultiStep, Sched
  <1> QED
    BY <1>1, <1>2, <1>3, <1>4

(* Flags that are consumed satisfy nobody who asks for flags of the same   *)
(* kind.                                                                   *)
LEMMA ConsumedLess ==
  ASSUME NEW F, NEW rdy, NEW c, NEW d, c.set = d.set, ~Satisfied(F, d)
  PROVE  ~Satisfied(Consumed(F, rdy, c), d)
  <1>1. FlagsRdy(Consumed(F, rdy, c), d) \subseteq FlagsRdy(F, d)
    BY DEF FlagsRdy, Consumed
  <1>2. FlagsRdy(F, d) \subseteq d.flags
    BY DEF FlagsRdy
  <1> HIDE DEF FlagsRdy, Consumed
  <1> QED
    BY <1>1, <1>2 DEF Satisfied

LEMMA ConsumedServed ==
  ASSUME Inv, Books, OnePolarity, NobodyServed, NEW g \in FlagIds, NEW c \in app.conds, NEW rdy,
         FewerFlags(os, os'), \A h \in FlagIds : h # g => os'.flag[h].flags = os.flag[h].flags,
         os'.flag[g].flags = Consumed(os.flag[g].flags, rdy, c),
         \A h \in FlagIds : \A t \in os'.flag[h].wait : os'.tcb[t].node = os.tcb[t].node
  PROVE  NobodyServed'
  <1> SUFFICES ASSUME NEW h \in FlagIds, NEW t \in os'.flag[h].wait
               PROVE  ~Satisfied(os'.flag[h].flags, os'.tcb[t].node.cond)
    BY DEF NobodyServed
  <1>1. t \in os.flag[h].wait /\ os'.tcb[t].node = os.tcb[t].node
    BY DEF FewerFlags
  <1>2. ~Satisfied(os.flag[h].flags, os.tcb[t].node.cond)
    BY <1>1 DEF NobodyServed
  <1>3. PICK d : d = os.tcb[t].node.cond
    OBVIOUS
  <1>4. t \in Live /\ Waiting[t].op = "flag" /\ d = Waiting[t].cond
    BY <1>1, <1>3, FlagWaiter DEF Inv
  <1>5. d \in app.conds
    BY <1>4 DEF Books, FlagsKept
  <1>6. c.set = d.set
    BY <1>5 DEF OnePolarity, Inv, Rules
  <1>7. CASE h = g
    <2>1. ~Satisfied(Consumed(os.flag[g].flags, rdy, c), d)
      BY <1>2, <1>3, <1>6, <1>7, ConsumedLess
    <2> QED
      BY <1>1, <1>3, <1>7, <2>1
  <1>8. CASE h # g
    BY <1>1, <1>2, <1>8
  <1> QED
    BY <1>7, <1>8

(* The flags of group g become v. *)
Reflagged(k, l, g, v) ==
  /\ Shape(l) /\ Apart(k, l) /\ l.event = k.event /\ l.tcb = k.tcb
  /\ \A h \in FlagIds : l.flag[h].wait = k.flag[h].wait
  /\ \A h \in FlagIds : h # g => l.flag[h].flags = k.flag[h].flags
  /\ l.flag[g].flags = v
LEMMA ReflagParts ==
  ASSUME NEW k, Shape(k), NEW g \in FlagIds, NEW v, NEW l, l = [k EXCEPT !.flag[g].flags = v]
  PROVE  Reflagged(k, l, g, v)
  <1>1. DOMAIN l = Fields /\ \A f \in Fields \ {"flag"} : l[f] = k[f]
    BY DEF Shape, Fields
  <1>2. l.tcb = k.tcb
    BY <1>1 DEF Fields
  <1>3. DOMAIN l.flag = FlagIds
        /\ \A h \in FlagIds : /\ DOMAIN l.flag[h] = FlagFields /\ l.flag[h].type = k.flag[h].type
                              /\ l.flag[h].wait = k.flag[h].wait
                              /\ h # g => l.flag[h].flags = k.flag[h].flags
        /\ l.flag[g].flags = v
    BY DEF Shape, Fields, FlagFields
  <1>4. \A f \in Fields \ {"rdy", "tcb", "flag"} : l[f] = k[f]
    BY <1>1
  <1>5. DOMAIN l.tcb = TCBs /\ \A t \in TCBs : DOMAIN l.tcb[t] = TCBFields
    BY <1>2 DEF Shape
  <1>6. DOMAIN l.flag = FlagIds
        /\ \A h \in FlagIds : DOMAIN l.flag[h] = FlagFields /\ l.flag[h].type = k.flag[h].type
    BY <1>3
  <1>7. l.prioTbl = k.prioTbl /\ l.list = k.list /\ l.free = k.free /\ l.freeEvents = k.freeEvents
        /\ l.freeQs = k.freeQs /\ l.freeFlags = k.freeFlags /\ l.mem = k.mem /\ l.event = k.event
    BY <1>4 DEF Fields
  <1>8. Shape(l)
    BY <1>1, <1>5, <1>6, <1>7 DEF Shape
  <1>9. Apart(k, l)
    BY <1>6, <1>7 DEF Apart, Stable, SameTasks, SameTypes, SameKinds, SameStored
  <1> QED
    BY <1>2, <1>3, <1>7, <1>8, <1>9 DEF Reflagged

(* The running task c is told what flags it got. *)
LEMMA RdyParts ==
  ASSUME NEW k, Shape(k), NEW c \in TCBs, NEW v, NEW l, l = [k EXCEPT !.tcb[c].flagsRdy = v]
  PROVE  /\ Shape(l) /\ Apart(k, l) /\ l.event = k.event /\ l.flag = k.flag
         /\ \A t \in TCBs : l.tcb[t].node = k.tcb[t].node
         /\ \A t \in TCBs : t # c => SameNode(k, l, t)
  <1>1. DOMAIN l = Fields /\ \A f \in Fields \ {"tcb"} : l[f] = k[f]
    BY DEF Shape, Fields
  <1>2. l.flag = k.flag
    BY <1>1 DEF Fields
  <1>3. DOMAIN l.tcb = TCBs /\ \A t \in TCBs : /\ DOMAIN l.tcb[t] = TCBFields
                                               /\ l.tcb[t].node = k.tcb[t].node
                                               /\ t # c => l.tcb[t].flagsRdy = k.tcb[t].flagsRdy
    BY DEF Shape, Fields, TCBFields
  <1>4. \A f \in Fields \ {"rdy", "tcb", "flag"} : l[f] = k[f]
    BY <1>1
  <1>5. DOMAIN l.tcb = TCBs /\ \A t \in TCBs : DOMAIN l.tcb[t] = TCBFields
    BY <1>3
  <1>6. DOMAIN l.flag = FlagIds
        /\ \A h \in FlagIds : DOMAIN l.flag[h] = FlagFields /\ l.flag[h].type = k.flag[h].type
    BY <1>2 DEF Shape
  <1>7. l.prioTbl = k.prioTbl /\ l.list = k.list /\ l.free = k.free /\ l.freeEvents = k.freeEvents
        /\ l.freeQs = k.freeQs /\ l.freeFlags = k.freeFlags /\ l.mem = k.mem /\ l.event = k.event
    BY <1>4 DEF Fields
  <1>8. Shape(l)
    BY <1>1, <1>5, <1>6, <1>7 DEF Shape
  <1>9. Apart(k, l)
    BY <1>6, <1>7 DEF Apart, Stable, SameTasks, SameTypes, SameKinds, SameStored
  <1> QED
    BY <1>2, <1>3, <1>7, <1>8, <1>9 DEF SameNode

(* Flags are taken from group g, or not: no wait begins or ends.           *)
LEMMA TakenBooks ==
  ASSUME Inv, Books, Apart(os, os'), os'.event = os.event, FlagWaitsSame, app' = app,
         \A op \in StockOps : OpSame(op),
         NEW g \in FlagIds, NEW d \in app.conds, NEW rdy,
         \A h \in FlagIds : os'.flag[h].wait = os.flag[h].wait,
         \A h \in FlagIds : h # g => os'.flag[h].flags = os.flag[h].flags,
         \/ os'.flag[g].flags = os.flag[g].flags
         \/ os'.flag[g].flags = Consumed(os.flag[g].flags, rdy, d),
         \A t \in TCBs : os'.tcb[t].node = os.tcb[t].node,
         \A t \in Live' : Waiting'[t].op = "flag" => os'.tcb[t].flagsRdy = os.tcb[t].flagsRdy
  PROVE  Booked
  <1>1. FewerFlags(os, os')
    BY DEF FewerFlags
  <1>2. Live \subseteq TCBs /\ \A h \in FlagIds : os.flag[h].wait \subseteq TCBs
    BY DEF Inv, TInv, Core
  <1>3. FlagsKept'
    BY <1>2 DEF Books, FlagsKept, FlagWaitsSame
  <1>4. \A h \in FlagIds : \A t \in os'.flag[h].wait : os'.tcb[t].node = os.tcb[t].node
    BY <1>2
  <1>5. ASSUME OnePolarity, NobodyServed PROVE NobodyServed'
    <2>1. CASE os'.flag[g].flags = os.flag[g].flags
      <3>1. SameFlags(os, os')
        BY <2>1 DEF SameFlags
      <3> QED
        BY <1>1, <1>4, <1>5, <3>1, ServedKeep
    <2>2. CASE os'.flag[g].flags = Consumed(os.flag[g].flags, rdy, d)
      BY <1>1, <1>4, <1>5, <2>2, ConsumedServed
    <2> QED
      BY <2>1, <2>2
  <1> QED
    BY <1>3, <1>5, FlagBooksKeep

(* The group after a task took its flags. *)
LEMMA TakeParts ==
  ASSUME Shape(os), NEW g \in FlagIds, NEW d, NEW consume \in BOOLEAN, NEW m, m = Take(g, d, consume)
  PROVE  /\ Shape(m) /\ Apart(os, m) /\ m.event = os.event /\ m.tcb = os.tcb
         /\ \A h \in FlagIds : m.flag[h].wait = os.flag[h].wait
         /\ \A h \in FlagIds : h # g => m.flag[h].flags = os.flag[h].flags
         /\ \/ m.flag[g].flags = os.flag[g].flags
            \/ m.flag[g].flags = Consumed(os.flag[g].flags, FlagsRdy(os.flag[g].flags, d), d)
  <1>1. CASE ~consume
    <2>1. m = os
      BY <1>1 DEF Take
    <2> QED
      BY <2>1, InertSelf DEF Inert
  <1>2. CASE consume
    <2>1. PICK v : v = Consumed(os.flag[g].flags, FlagsRdy(os.flag[g].flags, d), d)
      OBVIOUS
    <2>2. m = [os EXCEPT !.flag[g].flags = v]
      BY <1>2, <2>1 DEF Take
    <2>3. Reflagged(os, m, g, v)
      BY <2>2, ReflagParts
    <2> QED
      BY <2>1, <2>3 DEF Reflagged
  <1> QED
    BY <1>1, <1>2

LEMMA FlagAcceptBooks ==
  ASSUME KInv, Inv, Books, NEW g \in FlagIds, NEW d \in app.conds, NEW consume \in BOOLEAN,
         OSFlagAccept(g, d, consume)
  PROVE  Booked
  <1>1. Shape(os) /\ TInv
    BY DataShape DEF Inv, TInv
  <1>2. PICK m : m = Take(g, d, consume)
    OBVIOUS
  <1>3. PICK rdy : rdy = FlagsRdy(os.flag[g].flags, d)
    OBVIOUS
  <1>4. Leave(m, <<>>) /\ Anywhere("OSFlagAccept")
    BY <1>2 DEF OSFlagAccept
  <1>5. /\ Shape(m) /\ Apart(os, m) /\ m.event = os.event /\ m.tcb = os.tcb
        /\ \A h \in FlagIds : m.flag[h].wait = os.flag[h].wait
        /\ \A h \in FlagIds : h # g => m.flag[h].flags = os.flag[h].flags
        /\ \/ m.flag[g].flags = os.flag[g].flags
           \/ m.flag[g].flags = Consumed(os.flag[g].flags, rdy, d)
    BY <1>1, <1>2, <1>3, TakeParts
  <1>6. m.list = os.list
    BY <1>5 DEF Apart, Stable, SameTasks
  <1>7. NextOp(<<>>) \notin StockOps \cup {"OS_Dummy"} /\ WaitOf(<<>>).op # "flag"
    BY StepForms DEF StockOps, CreationOps, Sched
  <1>8. os' = m /\ app' = app /\ FlagWaitsSame /\ \A op \in StockOps : OpSame(op)
    BY <1>1, <1>4, <1>6, <1>7, CalledSame
  <1> QED
    BY <1>5, <1>8, TakenBooks

LEMMA FlagTakeBooks ==
  ASSUME KInv, Inv, Books, NEW g \in FlagIds, NEW d \in app.conds, NEW consume \in BOOLEAN, NEW timeout,
         OSFlagPend(g, d, consume, timeout), Satisfied(os.flag[g].flags, d)
  PROVE  Booked
  <1>1. Shape(os) /\ TInv
    BY DataShape DEF Inv, TInv
  <1>2. PICK m : m = Take(g, d, consume)
    OBVIOUS
  <1>3. PICK rdy : rdy = FlagsRdy(os.flag[g].flags, d)
    OBVIOUS
  <1>4. PICK c : c = os.cur
    OBVIOUS
  <1>5. PICK l : l = [m EXCEPT !.tcb[c].flagsRdy = rdy]
    OBVIOUS
  <1>6. Leave(l, <<>>) /\ AtTask("OSFlagPend") /\ Anywhere("OSFlagPend")
    BY <1>2, <1>3, <1>4, <1>5 DEF OSFlagPend, Anywhere
  <1>7. c \in TCBs /\ isr = "none"
    BY <1>1, <1>4, <1>6, TaskCaller
  <1>8. /\ Shape(m) /\ Apart(os, m) /\ m.event = os.event /\ m.tcb = os.tcb
        /\ \A h \in FlagIds : m.flag[h].wait = os.flag[h].wait
        /\ \A h \in FlagIds : h # g => m.flag[h].flags = os.flag[h].flags
        /\ \/ m.flag[g].flags = os.flag[g].flags
           \/ m.flag[g].flags = Consumed(os.flag[g].flags, rdy, d)
    BY <1>1, <1>2, <1>3, TakeParts
  <1>9. /\ Apart(m, l) /\ l.event = m.event /\ l.flag = m.flag
        /\ \A t \in TCBs : l.tcb[t].node = m.tcb[t].node
        /\ \A t \in TCBs : t # c => SameNode(m, l, t)
    BY <1>5, <1>7, <1>8, RdyParts
  <1>10. Apart(os, l) /\ l.list = os.list
    BY <1>8, <1>9, ApartTrans DEF Apart, Stable, SameTasks
  <1>11. NextOp(<<>>) \notin StockOps \cup {"OS_Dummy"} /\ WaitOf(<<>>).op # "flag"
    BY StepForms DEF StockOps, CreationOps, Sched
  <1>12. /\ os' = l /\ app' = app /\ FlagWaitsSame /\ \A op \in StockOps : OpSame(op)
         /\ Waiting'[c].op # "flag"
    BY <1>1, <1>4, <1>6, <1>7, <1>10, <1>11, CalledSame
  <1>13. Live' \subseteq TCBs
    BY <1>1, <1>6, <1>10, <1>11, CalledSame DEF TInv, Core
  <1>14. \A t \in Live' : Waiting'[t].op = "flag" => os'.tcb[t].flagsRdy = os.tcb[t].flagsRdy
    BY <1>8, <1>9, <1>12, <1>13 DEF SameNode
  <1> QED
    BY <1>8, <1>9, <1>10, <1>12, <1>14, TakenBooks

LEMMA FlagBlockBooks ==
  ASSUME Ruled, KInv, Inv, Books, NEW g \in FlagIds, NEW d \in app.conds, NEW consume \in BOOLEAN, NEW timeout,
         OSFlagPend(g, d, consume, timeout), ~Satisfied(os.flag[g].flags, d)
  PROVE  Booked
  <1>1. Shape(os) /\ TInv
    BY DataShape DEF Inv, TInv
  <1>2. PICK l : l = OS_FlagBlock(g, d, timeout)
    OBVIOUS
  <1>3. PICK w : w = [op |-> "flag", grp |-> g, cond |-> d, consume |-> consume]
    OBVIOUS
  <1>4. PICK steps : steps = <<Sched, w>>
    OBVIOUS
  <1>5. PICK n : n = [grp |-> g, cond |-> d]
    OBVIOUS
  <1>6. d \in Conditions
    BY DEF Ruled, Supported, Inv, Rules
  <1>7. w \in WaitStep /\ w.op = "flag" /\ w.cond = d /\ n.cond = d /\ n # None
    BY <1>3, <1>5, <1>6, NodeAssumption DEF WaitStep, FlagStep
  <1>8. Leave(l, steps) /\ AtTask("OSFlagPend") /\ Anywhere("OSFlagPend")
    BY <1>2, <1>3, <1>4 DEF OSFlagPend, Anywhere
  <1>9. PICK c : c = os.cur
    OBVIOUS
  <1>10. c \in TCBs /\ isr = "none" /\ Waiting[c] = Sched
    BY <1>1, <1>8, <1>9, TaskCaller
  <1>11. /\ Apart(os, l) /\ l.event = os.event
         /\ SameFlags(os, l) /\ \A u \in TCBs : u # c => SameNode(os, l, u)
         /\ l.tcb[c].node = n
         /\ \A h \in FlagIds : \A u : u \in l.flag[h].wait => u \in os.flag[h].wait \/ (h = g /\ u = c)
    BY <1>1, <1>2, <1>5, <1>9, <1>10, FlagBlockApart DEF RunsIn
  <1>12. l.list = os.list
    BY <1>11 DEF Apart, Stable, SameTasks
  <1>13. NextOp(steps) = "OS_Sched" /\ WaitOf(steps) = w
    BY <1>4, <1>7, StepForms
  <1>14. "OS_Sched" \notin StockOps \cup {"OS_Dummy"}
    BY DEF StockOps, CreationOps
  <1>15. /\ os' = l /\ app' = app /\ Live' = Live /\ \A op \in StockOps : OpSame(op)
         /\ \A t \in TCBs : t # c => Waiting'[t] = Waiting[t]
         /\ Waiting'[c] = w
    BY <1>1, <1>8, <1>9, <1>10, <1>12, <1>13, <1>14, CalledSame
  <1>16. Live \subseteq TCBs
    BY <1>1 DEF TInv, Core
  <1>17. FlagsKept'
    <2> SUFFICES ASSUME NEW t \in Live, Waiting'[t].op = "flag"
                 PROVE  /\ Waiting'[t].cond \in app.conds
                        /\ l.tcb[t].node = None => GotFlags(l.tcb[t].flagsRdy, Waiting'[t].cond)
      BY <1>15 DEF FlagsKept
    <2>1. CASE t = c
      BY <1>7, <1>11, <1>15, <2>1
    <2>2. CASE t # c
      BY <1>11, <1>15, <1>16, <2>2 DEF Books, FlagsKept, SameNode
    <2> QED
      BY <2>1, <2>2
  <1>18. ASSUME NobodyServed PROVE NobodyServed'
    <2> SUFFICES ASSUME NEW h \in FlagIds, NEW t \in l.flag[h].wait
                 PROVE  ~Satisfied(l.flag[h].flags, l.tcb[t].node.cond)
      BY <1>15 DEF NobodyServed
    <2>1. l.flag[h].flags = os.flag[h].flags
      BY <1>11 DEF SameFlags
    <2>2. CASE t \in os.flag[h].wait
      <3>1. t \in TCBs /\ Waiting[t].op = "flag"
        BY <1>1, <2>2, FlagWaiter
      <3>2. t # c
        BY <1>10, <3>1 DEF Sched
      <3>3. l.tcb[t].node = os.tcb[t].node
        BY <1>11, <3>1, <3>2 DEF SameNode
      <3> QED
        BY <1>18, <2>1, <2>2, <3>3 DEF NobodyServed
    <2>3. CASE h = g /\ t = c
      BY <1>7, <1>11, <2>1, <2>3
    <2> QED
      BY <1>11, <2>2, <2>3
  <1> QED
    BY <1>11, <1>15, <1>17, <1>18, FlagBooksKeep

LEMMA FlagReturnBooks ==
  ASSUME KInv, Inv, Books, TInv', OSFlagPend_Return PROVE Booked
  <1>1. Shape(os) /\ TInv
    BY DataShape DEF Inv, TInv
  <1>2. PICK c : c = os.cur
    OBVIOUS
  <1>3. Step("flag") /\ "flag" \in WaitOps
    BY DEF OSFlagPend_Return, WaitOps
  <1>4. /\ isr = "none" /\ At(os.cur) = "flag" /\ c \in TCBs
        /\ Steps(pc[os.cur]) /\ NextOp(pc[os.cur]) = "flag" /\ Now = Head(pc[os.cur])
        /\ Waiting[os.cur] = WaitOf(pc[os.cur]) /\ os.running
    BY <1>1, <1>2, <1>3, StepCaller
  <1>5. Waiting[c] = Now /\ Now.op = "flag" /\ Now \in WaitStep
    BY <1>2, <1>3, <1>4, NextStep DEF NextOp
  <1>6. Now.grp \in FlagIds /\ c \in Live
    <2>1. c \in Live
      BY <1>1, <1>2, <1>4, OrdinaryRunning
    <2> QED
      BY <1>5, <2>1, WaitTypes
  <1>7. PICK d : d = Now.cond
    OBVIOUS
  <1>8. d \in app.conds
    BY <1>5, <1>6, <1>7 DEF Books, FlagsKept
  <1>9. ASSUME Cur.pend # "OK" PROVE Booked
    <2>1. PICK m : m = OS_FlagUnlink(os, c)
      OBVIOUS
    <2>2. PICK l : l = [m EXCEPT !.tcb[c].pend = "OK", !.tcb[c].stat = {}]
      OBVIOUS
    <2>3. Proceed(l)
      BY <1>2, <1>9, <2>1, <2>2 DEF OSFlagPend_Return
    <2>4. /\ Shape(m) /\ Apart(os, m) /\ m.event = os.event
          /\ SameFlags(os, m) /\ FewerFlags(os, m) /\ \A u \in TCBs : u # c => SameNode(os, m, u)
      BY <1>1, <1>4, <2>1, UnlinkApart
    <2>5. PICK y : y = [m.tcb[c] EXCEPT !.pend = "OK", !.stat = {}]
      OBVIOUS
    <2>6. DOMAIN y = TCBFields /\ y.flagsRdy = m.tcb[c].flagsRdy /\ y.node = m.tcb[c].node
      BY <1>4, <2>4, <2>5 DEF Shape, TCBFields
    <2>7. l = [m EXCEPT !.tcb[c] = y]
      BY <1>4, <2>2, <2>4, <2>5 DEF Shape, Fields
    <2>8. Inert(m, l) /\ l.event = m.event
      BY <1>4, <2>4, <2>6, <2>7, TCBInert
    <2>9. Apart(os, l)
      BY <2>4, <2>8, ApartTrans DEF Inert
    <2>10. SameFlags(os, l) /\ FewerFlags(os, l) /\ \A u \in TCBs : u # c => SameNode(os, l, u)
      BY <2>4, <2>8 DEF Inert, SameNodes, SameFlags, FewerFlags, SameNode
    <2>11. l.list = os.list
      BY <2>9 DEF Apart, Stable, SameTasks
    <2>12. /\ os' = l /\ app' = app /\ Live' = Live /\ \A o \in StockOps : OpSame(o)
           /\ \A t \in TCBs : t # c => Waiting'[t] = Waiting[t]
           /\ Waiting'[c] = Sched /\ FlagWaitsSame
      BY <1>1, <1>2, <1>3, <2>3, <2>11, ReturnedSame
    <2>13. Live \subseteq TCBs /\ Sched.op # "flag"
      BY <1>1 DEF TInv, Core, Sched
    <2>14. FlagsKept'
      <3> SUFFICES ASSUME NEW t \in Live, Waiting'[t].op = "flag"
                   PROVE  /\ Waiting'[t].cond \in app.conds
                          /\ l.tcb[t].node = None => GotFlags(l.tcb[t].flagsRdy, Waiting'[t].cond)
        BY <2>12 DEF FlagsKept
      <3>1. t # c /\ t \in TCBs
        BY <2>12, <2>13
      <3> QED
        BY <2>10, <2>12, <3>1 DEF Books, FlagsKept, SameNode
    <2>15. \A h \in FlagIds : \A t \in os'.flag[h].wait : t # c /\ t \in TCBs
      <3> SUFFICES ASSUME NEW h \in FlagIds, NEW t \in os'.flag[h].wait PROVE t # c /\ t \in TCBs
        OBVIOUS
      <3>1. t \in Live' /\ TaskOK(os', Waiting'[t], t)
        BY DEF TInv, Core
      <3>2. Waiting'[t].op = "flag"
        BY <3>1 DEF TaskOK
      <3> QED
        BY <2>12, <2>13, <3>1, <3>2
    <2>16. \A h \in FlagIds : \A t \in os'.flag[h].wait : os'.tcb[t].node = os.tcb[t].node
      BY <2>10, <2>12, <2>15 DEF SameNode
    <2>17. NobodyServed => NobodyServed'
      BY <2>10, <2>12, <2>16, ServedKeep
    <2> QED
      BY <2>4, <2>8, <2>9, <2>12, <2>14, <2>17, FlagBooksKeep
  <1>10. ASSUME Cur.pend = "OK", Now.consume PROVE Booked
    <2>1. PICK g : g = Now.grp
      OBVIOUS
    <2>2. PICK rdy : rdy = Cur.flagsRdy
      OBVIOUS
    <2>3. PICK v : v = Consumed(os.flag[g].flags, rdy, d)
      OBVIOUS
    <2>4. PICK l : l = [os EXCEPT !.flag[g].flags = v]
      OBVIOUS
    <2>5. Proceed(l) /\ g \in FlagIds
      BY <1>6, <1>7, <1>10, <2>1, <2>2, <2>3, <2>4 DEF OSFlagPend_Return
    <2>6. Reflagged(os, l, g, v)
      BY <1>1, <2>4, <2>5, ReflagParts
    <2>7. l.list = os.list
      BY <2>6 DEF Reflagged, Apart, Stable, SameTasks
    <2>8. os' = l /\ app' = app /\ FlagWaitsSame /\ \A o \in StockOps : OpSame(o)
      BY <1>1, <1>3, <2>5, <2>7, ReturnedSame
    <2> QED
      BY <1>8, <2>3, <2>5, <2>6, <2>8, TakenBooks DEF Reflagged
  <1>11. ASSUME Cur.pend = "OK", ~Now.consume PROVE Booked
    <2>1. PICK l : l = os
      OBVIOUS
    <2>2. Proceed(l)
      BY <1>11, <2>1 DEF OSFlagPend_Return
    <2>3. Inert(os, l) /\ Shrinks(os, l)
      BY <2>1, InertSelf DEF Shrinks
    <2> QED
      BY <1>3, <2>2, <2>3, ReturnedBooks
  <1> QED
    BY <1>9, <1>10, <1>11

(* Whose condition holds gets the flags it asked for.                      *)
LEMMA SatisfiedGot ==
  ASSUME NEW F, NEW c, Satisfied(F, c) PROVE GotFlags(FlagsRdy(F, c), c)
  <1>1. FlagsRdy(F, c) \subseteq c.flags
    BY DEF FlagsRdy
  <1> HIDE DEF FlagsRdy
  <1> QED
    BY <1>1 DEF Satisfied, GotFlags

LEMMA FlagPostBooks ==
  ASSUME KInv, Inv, Books, NEW g \in FlagIds, NEW flags, NEW set, OSFlagPost(g, flags, set)
  PROVE  Booked
  <1>1. Shape(os) /\ TInv
    BY DataShape DEF Inv, TInv
  <1>2. PICK F : F = IF set THEN os.flag[g].flags \cup flags ELSE os.flag[g].flags \ flags
    OBVIOUS
  <1>3. PICK S : S = {t \in os.flag[g].wait : Satisfied(F, os.tcb[t].node.cond)}
    OBVIOUS
  <1>4. PICK m : m = [os EXCEPT !.flag[g].flags = F]
    OBVIOUS
  <1>5. PICK R : R = [t \in S |-> FlagsRdy(F, os.tcb[t].node.cond)]
    OBVIOUS
  <1>6. PICK l : l = OS_FlagTaskRdy(m, S, R)
    OBVIOUS
  <1>7. PICK steps : steps = IF \E t \in S : l.tcb[t].stat = {} THEN <<Sched>> ELSE <<>>
    OBVIOUS
  <1>8. Leave(l, steps) /\ Anywhere("OSFlagPost")
    BY <1>2, <1>3, <1>4, <1>5, <1>6, <1>7 DEF OSFlagPost
  <1>9. Reflagged(os, m, g, F)
    BY <1>1, <1>4, ReflagParts
  <1>10. /\ Apart(m, l) /\ l.event = m.event /\ SameFlags(m, l)
         /\ \A t \in TCBs \ S : SameNode(m, l, t)
         /\ \A t \in S \cap TCBs : l.tcb[t].flagsRdy = R[t] /\ l.tcb[t].node = None
         /\ \A h \in FlagIds : l.flag[h].wait = m.flag[h].wait \ S
    BY <1>6, <1>9, GrantApart DEF Reflagged
  <1>11. Apart(os, l) /\ l.event = os.event /\ l.list = os.list
    BY <1>9, <1>10, ApartTrans DEF Reflagged, Apart, Stable, SameTasks
  <1>12. steps = <<>> \/ steps = <<Sched>>
    BY <1>7
  <1>13. NextOp(steps) \notin StockOps \cup {"OS_Dummy"} /\ WaitOf(steps).op # "flag"
    BY <1>12, StepForms DEF StockOps, CreationOps, Sched
  <1>14. os' = l /\ app' = app /\ Live' = Live /\ FlagWaitsSame /\ \A op \in StockOps : OpSame(op)
    BY <1>1, <1>8, <1>11, <1>13, CalledSame
  <1>15. Live \subseteq TCBs
    BY <1>1 DEF TInv, Core
  <1>16. FlagsKept'
    <2> SUFFICES ASSUME NEW t \in Live, Waiting'[t].op = "flag"
                 PROVE  /\ Waiting'[t].cond \in app.conds
                        /\ l.tcb[t].node = None => GotFlags(l.tcb[t].flagsRdy, Waiting'[t].cond)
      BY <1>14 DEF FlagsKept
    <2>1. Waiting'[t] = Waiting[t] /\ t \in TCBs /\ Waiting[t].cond \in app.conds
      BY <1>14, <1>15 DEF FlagWaitsSame, Books, FlagsKept
    <2>2. CASE t \in S
      <3>1. os.tcb[t].node.cond = Waiting[t].cond
        BY <1>1, <1>3, <2>2, FlagWaiter
      <3>2. Satisfied(F, Waiting[t].cond) /\ R[t] = FlagsRdy(F, Waiting[t].cond)
        BY <1>3, <1>5, <2>2, <3>1
      <3>3. GotFlags(R[t], Waiting[t].cond)
        BY <3>2, SatisfiedGot
      <3> QED
        BY <1>10, <2>1, <2>2, <3>3
    <2>3. CASE t \notin S
      <3>1. SameNode(os, l, t)
        BY <1>9, <1>10, <2>1, <2>3 DEF Reflagged, SameNode
      <3> QED
        BY <2>1, <3>1 DEF Books, FlagsKept, SameNode
    <2> QED
      BY <2>2, <2>3
  <1>17. ASSUME NobodyServed PROVE NobodyServed'
    <2> SUFFICES ASSUME NEW h \in FlagIds, NEW t \in l.flag[h].wait
                 PROVE  ~Satisfied(l.flag[h].flags, l.tcb[t].node.cond)
      BY <1>14 DEF NobodyServed
    <2>1. t \in os.flag[h].wait /\ t \notin S
      BY <1>9, <1>10 DEF Reflagged
    <2>2. t \in TCBs
      BY <1>1, <2>1, FlagWaiter
    <2>3. l.tcb[t].node = os.tcb[t].node
      BY <1>9, <1>10, <2>1, <2>2 DEF Reflagged, SameNode
    <2>4. CASE h = g
      <3>1. l.flag[h].flags = F
        BY <1>9, <1>10, <2>4 DEF Reflagged, SameFlags
      <3>2. ~Satisfied(F, os.tcb[t].node.cond)
        BY <1>3, <2>1, <2>4
      <3> QED
        BY <2>3, <3>1, <3>2
    <2>5. CASE h # g
      <3>1. l.flag[h].flags = os.flag[h].flags
        BY <1>9, <1>10, <2>5 DEF Reflagged, SameFlags
      <3> QED
        BY <1>17, <2>1, <2>3, <3>1 DEF NobodyServed
    <2> QED
      BY <2>4, <2>5
  <1> QED
    BY <1>11, <1>14, <1>16, <1>17, FlagBooksKeep

(* The lists of free control blocks. *)
LEMMA PushList ==
  ASSUME NEW S, NEW s \in Seq(S), NEW x \in S PROVE \A y : OnList(<<x>> \o s, y) <=> y = x \/ OnList(s, y)
  <1> DEFINE r == <<x>> \o s
  <1>1. Len(r) = Len(s) + 1 /\ DOMAIN r = 1 .. Len(s) + 1 /\ DOMAIN s = 1 .. Len(s) /\ Len(s) \in Nat
    OBVIOUS
  <1>2. r[1] = x /\ \A i \in 1 .. Len(s) : r[i + 1] = s[i]
    OBVIOUS
  <1> HIDE DEF r
  <1>3. ASSUME NEW y, OnList(r, y) PROVE y = x \/ OnList(s, y)
    <2>1. PICK i \in DOMAIN r : r[i] = y
      BY <1>3 DEF OnList
    <2>2. CASE i = 1
      BY <1>2, <2>1, <2>2
    <2>3. CASE i # 1
      <3>1. i - 1 \in 1 .. Len(s) /\ (i - 1) + 1 = i
        BY <1>1, <2>3
      <3>2. s[i - 1] = y
        BY <1>2, <2>1, <3>1
      <3> QED
        BY <1>1, <3>1, <3>2 DEF OnList
    <2> QED
      BY <2>2, <2>3
  <1>4. ASSUME NEW y, y = x \/ OnList(s, y) PROVE OnList(r, y)
    <2>1. CASE y = x
      <3>1. 1 \in DOMAIN r
        BY <1>1
      <3> QED
        BY <1>2, <2>1, <3>1 DEF OnList
    <2>2. CASE OnList(s, y)
      <3>1. PICK i \in DOMAIN s : s[i] = y
        BY <2>2 DEF OnList
      <3>2. i + 1 \in DOMAIN r /\ r[i + 1] = y
        BY <1>1, <1>2, <3>1
      <3> QED
        BY <3>2 DEF OnList
    <2> QED
      BY <1>4, <2>1, <2>2
  <1> QED
    BY <1>3, <1>4 DEF r

LEMMA PopList ==
  ASSUME NEW S, NEW s \in Seq(S), s # <<>>
  PROVE  Head(s) \in S /\ Tail(s) \in Seq(S) /\ \A y : OnList(s, y) <=> y = Head(s) \/ OnList(Tail(s), y)
  <1>1. Head(s) \in S /\ Tail(s) \in Seq(S) /\ s = <<Head(s)>> \o Tail(s)
    OBVIOUS
  <1> QED
    BY <1>1, PushList

(* A flag group comes or goes. *)
LEMMA GroupBooks ==
  ASSUME Books, SameTasks(os, os'), SameTypes(os, os'), os'.mem = os.mem, os'.event = os.event,
         \A op \in StockOps : OpSame(op), app' = app, GroupsKept', FlagsKept',
         OnePolarity /\ NobodyServed => NobodyServed'
  PROVE  Books'
  <1>1. TasksKept' /\ EventsKept' /\ QsKept' /\ MemKept'
    BY TasksKeep, EventsKeep, MemKeep DEF Books, StocksKept, StockOps
  <1>2. \A e \in EventIds : StaysFair(os, os', e)
    BY DEF StaysFair, Waiters
  <1> QED
    BY <1>1, <1>2, NoneWaitsKeep DEF Books, StocksKept

LEMMA FlagDelBooks ==
  ASSUME KInv, Inv, Books, NEW g \in FlagIds, NEW always, OSFlagDel(g, always) PROVE Booked
  <1>1. Shape(os) /\ TInv
    BY DataShape DEF Inv, TInv
  <1>2. PICK S : S = os.flag[g].wait
    OBVIOUS
  <1>3. PICK R : R = [t \in S |-> {}]
    OBVIOUS
  <1>4. PICK m : m = OS_FlagTaskRdy(os, S, R)
    OBVIOUS
  <1>5. PICK u : u = UnusedFlag
    OBVIOUS
  <1>6. PICK s : s = <<g>> \o os.freeFlags
    OBVIOUS
  <1>7. PICK steps : steps = IF S # {} THEN <<Sched>> ELSE <<>>
    OBVIOUS
  <1>8. /\ Shape(m) /\ Apart(os, m) /\ m.event = os.event /\ SameFlags(os, m)
        /\ \A t \in TCBs \ S : SameNode(os, m, t)
        /\ \A t \in S \cap TCBs : m.tcb[t].flagsRdy = R[t] /\ m.tcb[t].node = None
        /\ \A h \in FlagIds : m.flag[h].wait = os.flag[h].wait \ S
    BY <1>1, <1>4, GrantApart
  <1>9. m.freeFlags = os.freeFlags
    BY <1>8 DEF Apart, Stable, SameKinds
  <1>10. PICK l : l = [m EXCEPT !.flag[g] = u, !.freeFlags = s]
    OBVIOUS
  <1>11. Leave(l, steps) /\ Anywhere("OSFlagDel")
    BY <1>2, <1>3, <1>4, <1>5, <1>6, <1>7, <1>8, <1>9, <1>10 DEF OSFlagDel, Anywhere, Shape, Fields
  <1>12. DOMAIN l = Fields /\ (\A f \in Fields \ {"flag", "freeFlags"} : l[f] = m[f]) /\ l.freeFlags = s
         /\ l.flag[g] = u /\ \A h \in FlagIds : h # g => l.flag[h] = m.flag[h]
    BY <1>8, <1>10 DEF Shape, Fields
  <1>13. l.tcb = m.tcb /\ l.event = os.event /\ l.mem = m.mem /\ l.list = m.list /\ l.free = m.free
         /\ l.prioTbl = m.prioTbl /\ l.freeEvents = m.freeEvents /\ l.freeQs = m.freeQs
    BY <1>8, <1>12 DEF Fields
  <1>14. SameTasks(os, l) /\ SameTypes(os, l) /\ l.mem = os.mem /\ l.list = os.list
    BY <1>8, <1>13 DEF Apart, Stable, SameTasks, SameTypes
  <1>15. steps = <<>> \/ steps = <<Sched>>
    BY <1>7
  <1>16. NextOp(steps) \notin StockOps \cup {"OS_Dummy"} /\ WaitOf(steps).op # "flag"
    BY <1>15, StepForms DEF StockOps, CreationOps, Sched
  <1>17. os' = l /\ app' = app /\ Live' = Live /\ FlagWaitsSame /\ \A op \in StockOps : OpSame(op)
    BY <1>1, <1>11, <1>14, <1>16, CalledSame
  <1>18. Live \subseteq TCBs
    BY <1>1 DEF TInv, Core
  <1>19. u.type = "UNUSED" /\ u.wait = {}
    BY <1>5 DEF UnusedFlag
  <1>20. GroupsKept'
    <2>1. os.freeFlags \in Seq(FlagIds)
      BY <1>1 DEF TInv, Pools
    <2>2. \A y : OnList(s, y) <=> y = g \/ OnList(os.freeFlags, y)
      BY <1>6, <2>1, PushList
    <2>3. \A h \in FlagIds : m.flag[h].type = os.flag[h].type
      BY <1>8 DEF Apart, Stable, SameKinds
    <2> QED
      BY <1>12, <1>17, <1>19, <2>2, <2>3 DEF Books, StocksKept, GroupsKept
  <1>21. FlagsKept'
    <2> SUFFICES ASSUME NEW t \in Live, Waiting'[t].op = "flag"
                 PROVE  /\ Waiting'[t].cond \in app.conds
                        /\ l.tcb[t].node = None => GotFlags(l.tcb[t].flagsRdy, Waiting'[t].cond)
      BY <1>17 DEF FlagsKept
    <2>1. Waiting'[t] = Waiting[t] /\ t \in TCBs /\ Waiting[t].cond \in app.conds
      BY <1>17, <1>18 DEF FlagWaitsSame, Books, FlagsKept
    <2>2. CASE t \in S
      BY <1>3, <1>8, <1>13, <2>1, <2>2 DEF GotFlags
    <2>3. CASE t \notin S
      <3>1. SameNode(os, l, t)
        BY <1>8, <1>13, <2>1, <2>3 DEF SameNode
      <3> QED
        BY <2>1, <3>1 DEF Books, FlagsKept, SameNode
    <2> QED
      BY <2>2, <2>3
  <1>22. ASSUME NobodyServed PROVE NobodyServed'
    <2> SUFFICES ASSUME NEW h \in FlagIds, NEW t \in l.flag[h].wait
                 PROVE  ~Satisfied(l.flag[h].flags, l.tcb[t].node.cond)
      BY <1>17 DEF NobodyServed
    <2>1. h # g
      BY <1>12, <1>19
    <2>2. t \in os.flag[h].wait /\ t \notin S /\ l.flag[h].flags = os.flag[h].flags
      BY <1>8, <1>12, <2>1 DEF SameFlags
    <2>3. t \in TCBs
      BY <1>1, <2>2, FlagWaiter
    <2>4. l.tcb[t].node = os.tcb[t].node
      BY <1>8, <1>13, <2>2, <2>3 DEF SameNode
    <2> QED
      BY <1>22, <2>2, <2>4 DEF NobodyServed
  <1>23. TypesStay
    <2>1. Deleting /\ g \in seen[os.cur].groups
      BY <1>11 DEF OSFlagDel, AtTask, Checked, Group, NothingSeen, Leave, Deleting
    <2>2. \A h \in FlagIds : h # g => l.flag[h].type = os.flag[h].type
      BY <1>8, <1>12 DEF Apart, Stable, SameKinds
    <2> QED
      BY <1>13, <1>17, <2>1, <2>2 DEF TypesStay
  <1> QED
    BY <1>13, <1>14, <1>17, <1>20, <1>21, <1>22, <1>23, GroupBooks DEF Booked

LEMMA FlagCreateBooks ==
  ASSUME KInv, Inv, Books, NEW flags, OSFlagCreate(flags) PROVE Booked
  <1>1. Shape(os) /\ TInv /\ os.freeFlags # <<>> /\ os.freeFlags \in Seq(FlagIds)
    BY DataShape DEF Inv, TInv, Pools, OSFlagCreate
  <1>2. PICK g : g = Head(os.freeFlags)
    OBVIOUS
  <1>3. PICK s : s = Tail(os.freeFlags)
    OBVIOUS
  <1>4. PICK u : u = NewFlag(flags)
    OBVIOUS
  <1>5. PICK l : l = [os EXCEPT !.flag[g] = u, !.freeFlags = s]
    OBVIOUS
  <1>6. Leave(l, <<>>) /\ Anywhere("OSFlagCreate")
    BY <1>1, <1>2, <1>3, <1>4, <1>5 DEF OSFlagCreate, Anywhere, Shape, Fields
  <1>7. g \in FlagIds /\ \A y : OnList(os.freeFlags, y) <=> y = g \/ OnList(s, y)
    BY <1>1, <1>2, <1>3, PopList
  <1>8. DOMAIN l = Fields /\ (\A f \in Fields \ {"flag", "freeFlags"} : l[f] = os[f]) /\ l.freeFlags = s
        /\ l.flag[g] = u /\ \A h \in FlagIds : h # g => l.flag[h] = os.flag[h]
    BY <1>1, <1>5, <1>7 DEF Shape, Fields
  <1>9. l.tcb = os.tcb /\ l.event = os.event /\ l.mem = os.mem /\ l.list = os.list /\ l.free = os.free
        /\ l.prioTbl = os.prioTbl /\ l.freeEvents = os.freeEvents /\ l.freeQs = os.freeQs
    BY <1>8 DEF Fields
  <1>10. NextOp(<<>>) \notin StockOps \cup {"OS_Dummy"} /\ WaitOf(<<>>).op # "flag"
    BY StepForms DEF StockOps, CreationOps, Sched
  <1>11. os' = l /\ app' = app /\ Live' = Live /\ FlagWaitsSame /\ \A op \in StockOps : OpSame(op)
    BY <1>1, <1>6, <1>9, <1>10, CalledSame
  <1>12. u.type = "FLAG" /\ u.wait = {}
    BY <1>4 DEF NewFlag
  <1>13. GroupsKept'
    BY <1>7, <1>8, <1>11, <1>12 DEF Books, StocksKept, GroupsKept
  <1>14. FlagsKept'
    BY <1>9, <1>11 DEF Books, FlagsKept, FlagWaitsSame
  <1>15. NobodyServed => NobodyServed'
    BY <1>8, <1>9, <1>11, <1>12 DEF NobodyServed
  <1>16. SameTasks(os, l) /\ SameTypes(os, l)
    BY <1>9 DEF SameTasks, SameTypes
  <1>17. TypesStay
    <2>1. os.flag[g].type = "UNUSED"
      BY <1>1, <1>2 DEF TInv, Pools
    <2> QED
      BY <1>8, <1>9, <1>11, <2>1 DEF TypesStay
  <1> QED
    BY <1>9, <1>11, <1>13, <1>14, <1>15, <1>16, <1>17, GroupBooks DEF Booked

LEMMA FlagBooks ==
  ASSUME Ruled, KInv, Inv, Books, Inv', FlagNext PROVE Booked
  <1>1. ASSUME NEW g \in FlagIds, NEW d \in app.conds, NEW consume \in BOOLEAN, NEW timeout,
               OSFlagPend(g, d, consume, timeout)
        PROVE  Booked
    BY <1>1, FlagTakeBooks, FlagBlockBooks
  <1> QED
    BY <1>1, FlagCreateBooks, FlagDelBooks, FlagAcceptBooks, FlagPostBooks, FlagReturnBooks
    DEF FlagNext, Inv

(***************************************************************************)
(* Creation and deletion of tasks, and the change of a priority.           *)
(***************************************************************************)
LEMMA TasksAfter ==
  ASSUME \A t \in TCBs \ os'.list :
           OnList(os'.free, t) \/ \E u \in TCBs : NextOp(pc'[u]) = "link" /\ Head(pc'[u]).tcb = t,
         \A p \in Prios : os'.prioTbl[p] = Reserved =>
           \E u \in TCBs : NextOp(pc'[u]) \in CreationOps /\ Head(pc'[u]).prio = p
  PROVE  TasksKept'
  BY DEF TasksKept, At, NextOp

(* The running task, which comes back from no wait, goes on with steps.    *)
LEMMA RunnerSame ==
  ASSUME TInv, isr = "none", Waiting[os.cur] = Sched, At(os.cur) # "OS_Dummy",
         NEW l, NEW steps, Leave(l, steps), l.list = os.list,
         WaitOf(steps) = Sched, NextOp(steps) # "OS_Dummy"
  PROVE  /\ os' = l /\ app' = app /\ Live' = Live /\ Waiting' = Waiting /\ FlagWaitsSame
         /\ \A op \in StockOps : op # At(os.cur) /\ op # NextOp(steps) => OpSame(op)
         /\ pc'[os.cur] = steps /\ NextOp(pc'[os.cur]) = NextOp(steps)
         /\ \A u \in TCBs : u # os.cur => pc'[u] = pc[u] /\ NextOp(pc'[u]) = At(u)
  <1>1. Continues(steps) /\ os' = l /\ DOMAIN pc = TCBs /\ os.cur \in TCBs
    BY LeaveContinues DEF TInv, Data
  <1>2. Live' = Live
    BY <1>1, LiveSame
  <1>3. /\ app' = app /\ pc'[os.cur] = steps /\ Waiting' = Waiting
        /\ \A u \in TCBs : u # os.cur => pc'[u] = pc[u] /\ NextOp(pc'[u]) = At(u)
    BY <1>1, PcAfter
  <1>4. ASSUME NEW op \in StockOps, op # At(os.cur), op # NextOp(steps) PROVE OpSame(op)
    <2>1. op # "none"
      BY DEF StockOps, CreationOps
    <2> QED
      BY <1>1, <1>4, <2>1, SameOps DEF OpSame
  <1>5. FlagWaitsSame
    BY <1>2, <1>3 DEF FlagWaitsSame
  <1> QED
    BY <1>1, <1>2, <1>3, <1>4, <1>5

(* Neither events, groups nor memory change, nor the flags that a task got. *)
LEMMA TaskStockBooks ==
  ASSUME Books, TasksKept', SameTypes(os, os'), SameKinds(os, os'), os'.mem = os.mem,
         OpSame("OSQCreate"), OpSame("OSMemCreate"), app' = app, FlagWaitsSame,
         \A t \in Live' : Waiting'[t].op = "flag" => SameNode(os, os', t),
         SameFlags(os, os'), FewerFlags(os, os'),
         \A g \in FlagIds : \A t \in os'.flag[g].wait : os'.tcb[t].node = os.tcb[t].node,
         \A e \in EventIds : StaysFair(os, os', e)
  PROVE  Booked
  <1>1. EventsKept' /\ QsKept' /\ GroupsKept' /\ MemKept'
    BY EventsKeep, GroupsKeep, MemKeep DEF Books, StocksKept
  <1>2. NoneWaits'
    BY NoneWaitsKeep DEF Books
  <1>3. FlagsKept'
    BY DEF Books, FlagsKept, FlagWaitsSame, SameNode
  <1>4. NobodyServed => NobodyServed'
    BY ServedKeep
  <1> QED
    BY <1>1, <1>2, <1>3, <1>4 DEF Booked, Books, StocksKept, TypesStay, SameTypes, SameKinds

(* Only task control blocks that are not in use, their lists and the       *)
(* priority table change.                                                  *)
LEMMA TaskListBooks ==
  ASSUME TInv, Books, TasksKept', NEW l, l = os', DOMAIN l = Fields,
         \A f \in Fields \ {"tcb", "prioTbl", "rdy", "list", "free", "lock"} : l[f] = os[f],
         \A t \in Live : l.tcb[t] = os.tcb[t], Live' \subseteq Live \/ \A t \in TCBs : l.tcb[t] = os.tcb[t],
         OpSame("OSQCreate"), OpSame("OSMemCreate"), app' = app, FlagWaitsSame
  PROVE  Booked
  <1>1. l.event = os.event /\ l.flag = os.flag /\ l.mem = os.mem /\ l.freeEvents = os.freeEvents
        /\ l.freeFlags = os.freeFlags /\ l.freeQs = os.freeQs
    BY DEF Fields
  <1>2. SameTypes(os, l) /\ SameKinds(os, l) /\ SameFlags(os, l) /\ FewerFlags(os, l)
    BY <1>1 DEF SameTypes, SameKinds, SameFlags, FewerFlags
  <1>3. \A e \in EventIds : StaysFair(os, l, e)
    BY <1>1 DEF StaysFair, Waiters
  <1>4. \A t \in Live' : Waiting'[t].op = "flag" => SameNode(os, l, t)
    BY DEF FlagWaitsSame, SameNode
  <1>5. \A g \in FlagIds : os.flag[g].wait \subseteq Live
    BY DEF TInv, Core
  <1>6. \A g \in FlagIds : \A t \in l.flag[g].wait : l.tcb[t].node = os.tcb[t].node
    BY <1>1, <1>5
  <1> QED
    BY <1>1, <1>2, <1>3, <1>4, <1>6, TaskStockBooks

LEMMA CreateBooks ==
  ASSUME Inv, Books, NEW c, AtTask(c), NEW prio \in Prios, Create(prio) PROVE Booked
  <1>1. TInv /\ DOMAIN os = Fields /\ DOMAIN os.prioTbl = Prios
    BY DEF Inv, TInv, Data
  <1>2. isr = "none" /\ Waiting[os.cur] = Sched /\ At(os.cur) = "none" /\ os.cur \in TCBs
    BY <1>1, TaskCaller
  <1>3. PICK steps : steps = <<[op |-> "OS_TCBInit", prio |-> prio]>>
    OBVIOUS
  <1>4. NextOp(steps) = "OS_TCBInit" /\ WaitOf(steps) = Sched /\ Head(steps).prio = prio
    BY <1>3, OtherSteps
  <1>5. PICK l : l = [os EXCEPT !.prioTbl[prio] = Reserved]
    OBVIOUS
  <1>6. Leave(l, steps)
    BY <1>3, <1>5 DEF Create
  <1>7. /\ DOMAIN l = Fields /\ \A f \in Fields \ {"prioTbl"} : l[f] = os[f]
        /\ \A q \in Prios : q # prio => l.prioTbl[q] = os.prioTbl[q]
    BY <1>1, <1>5 DEF Fields
  <1>8. l.list = os.list /\ l.free = os.free /\ l.tcb = os.tcb
    BY <1>7 DEF Fields
  <1>9. /\ os' = l /\ app' = app /\ Live' = Live /\ Waiting' = Waiting /\ FlagWaitsSame
        /\ \A op \in StockOps : op # At(os.cur) /\ op # NextOp(steps) => OpSame(op)
        /\ pc'[os.cur] = steps /\ NextOp(pc'[os.cur]) = NextOp(steps)
        /\ \A u \in TCBs : u # os.cur => pc'[u] = pc[u] /\ NextOp(pc'[u]) = At(u)
    BY <1>1, <1>2, <1>4, <1>6, <1>8, RunnerSame
  <1>10. OpSame("OSQCreate") /\ OpSame("OSMemCreate")
    BY <1>2, <1>4, <1>9 DEF StockOps, CreationOps
  <1>11. TasksKept'
    <2>1. ASSUME NEW t \in TCBs \ l.list
          PROVE  OnList(l.free, t) \/ \E u \in TCBs : NextOp(pc'[u]) = "link" /\ Head(pc'[u]).tcb = t
      BY <1>2, <1>8, <1>9, <2>1 DEF Books, StocksKept, TasksKept
    <2>2. ASSUME NEW p \in Prios, l.prioTbl[p] = Reserved
          PROVE  \E u \in TCBs : NextOp(pc'[u]) \in CreationOps /\ Head(pc'[u]).prio = p
      <3>1. CASE p = prio
        BY <1>2, <1>4, <1>9, <3>1 DEF CreationOps
      <3>2. CASE p # prio
        BY <1>2, <1>7, <1>9, <2>2, <3>2 DEF Books, StocksKept, TasksKept, CreationOps
      <3> QED
        BY <3>1, <3>2
    <2> QED
      BY <1>9, <2>1, <2>2, TasksAfter
  <1> QED
    BY <1>1, <1>7, <1>8, <1>9, <1>10, <1>11, TaskListBooks

LEMMA RollbackBooks ==
  ASSUME Inv, Books, OSTaskCreate_Failed PROVE Booked
  <1>1. TInv /\ DOMAIN os = Fields /\ DOMAIN os.prioTbl = Prios /\ Step("rollback")
    BY DEF Inv, TInv, Data, OSTaskCreate_Failed
  <1>2. /\ isr = "none" /\ At(os.cur) = "rollback" /\ os.cur \in TCBs /\ Steps(pc[os.cur])
        /\ NextOp(pc[os.cur]) = "rollback" /\ Now = Head(pc[os.cur]) /\ Waiting[os.cur] = WaitOf(pc[os.cur])
    BY <1>1, StepCaller
  <1>3. Now.prio \in Prios /\ Waiting[os.cur] = Sched
    BY <1>2, NextStep DEF CreationOps
  <1>4. NextOp(<<>>) = "none" /\ WaitOf(<<>>) = Sched
    BY StepForms
  <1>5. PICK prio \in Prios : prio = Now.prio
    BY <1>3
  <1>6. PICK l : l = [os EXCEPT !.prioTbl[prio] = None]
    OBVIOUS
  <1>7. Leave(l, <<>>)
    BY <1>5, <1>6 DEF OSTaskCreate_Failed
  <1>8. /\ DOMAIN l = Fields /\ \A f \in Fields \ {"prioTbl"} : l[f] = os[f]
        /\ l.prioTbl[prio] = None /\ \A q \in Prios : q # prio => l.prioTbl[q] = os.prioTbl[q]
    BY <1>1, <1>6 DEF Fields
  <1>9. l.list = os.list /\ l.free = os.free /\ l.tcb = os.tcb
    BY <1>8 DEF Fields
  <1>10. /\ os' = l /\ app' = app /\ Live' = Live /\ Waiting' = Waiting /\ FlagWaitsSame
         /\ \A op \in StockOps : op # At(os.cur) /\ op # NextOp(<<>>) => OpSame(op)
         /\ \A u \in TCBs : u # os.cur => pc'[u] = pc[u] /\ NextOp(pc'[u]) = At(u)
    BY <1>1, <1>2, <1>3, <1>4, <1>7, <1>9, RunnerSame
  <1>11. OpSame("OSQCreate") /\ OpSame("OSMemCreate") /\ OpSame("link")
    BY <1>2, <1>4, <1>10 DEF StockOps, CreationOps
  <1>12. TasksKept'
    <2>1. ASSUME NEW t \in TCBs \ l.list
          PROVE  OnList(l.free, t) \/ \E u \in TCBs : NextOp(pc'[u]) = "link" /\ Head(pc'[u]).tcb = t
      BY <1>9, <1>11, <2>1 DEF Books, StocksKept, TasksKept, OpSame
    <2>2. ASSUME NEW p \in Prios, l.prioTbl[p] = Reserved
          PROVE  \E u \in TCBs : NextOp(pc'[u]) \in CreationOps /\ Head(pc'[u]).prio = p
      <3>1. p # prio
        BY <1>8, <2>2, NullAssumption
      <3>2. PICK u \in TCBs : At(u) \in CreationOps /\ Head(pc[u]).prio = p
        BY <1>8, <2>2, <3>1 DEF Books, StocksKept, TasksKept
      <3>3. u # os.cur
        BY <1>2, <1>5, <3>1, <3>2
      <3> QED
        BY <1>10, <3>2, <3>3
    <2> QED
      BY <1>10, <2>1, <2>2, TasksAfter
  <1> QED
    BY <1>1, <1>8, <1>9, <1>10, <1>11, <1>12, TaskListBooks

LEMMA TCBInitBooks ==
  ASSUME Inv, Books, OS_TCBInit PROVE Booked
  <1>1. /\ TInv /\ DOMAIN os = Fields /\ DOMAIN os.tcb = TCBs /\ Step("OS_TCBInit")
        /\ Live \subseteq os.list /\ os.free \in Seq(TCBs \ os.list)
    BY DEF Inv, TInv, Data, Creations, OS_TCBInit, Live
  <1>2. /\ isr = "none" /\ At(os.cur) = "OS_TCBInit" /\ os.cur \in TCBs /\ Steps(pc[os.cur])
        /\ NextOp(pc[os.cur]) = "OS_TCBInit" /\ Now = Head(pc[os.cur]) /\ Waiting[os.cur] = WaitOf(pc[os.cur])
    BY <1>1, StepCaller
  <1>3. Now.prio \in Prios /\ Waiting[os.cur] = Sched
    BY <1>2, NextStep DEF CreationOps
  <1>4. PICK p \in Prios : p = Now.prio
    BY <1>3
  <1>5. PICK s : s = os.free
    OBVIOUS
  <1>6. PICK t : t = Head(s)
    OBVIOUS
  <1>7. PICK steps : steps = IF s = <<>> THEN <<[op |-> "rollback", prio |-> p]>>
                             ELSE <<[op |-> "link", tcb |-> t, prio |-> p]>>
    OBVIOUS
  <1>8. PICK rest : rest = Tail(s)
    OBVIOUS
  <1>9. PICK y : y = [NewTCB(p) EXCEPT !.flagsRdy = os.tcb[t].flagsRdy]
    OBVIOUS
  <1>10. PICK l : l = IF s = <<>> THEN os ELSE [os EXCEPT !.free = rest, !.tcb[t] = y]
    OBVIOUS
  <1>11. Leave(l, steps)
    <2>1. CASE s = <<>>
      BY <1>4, <1>5, <1>7, <1>10, <2>1 DEF OS_TCBInit
    <2>2. CASE s # <<>>
      BY <1>1, <1>4, <1>5, <1>6, <1>7, <1>8, <1>9, <1>10, <2>2 DEF OS_TCBInit
    <2> QED
      BY <2>1, <2>2
  <1>12. /\ s # <<>> => /\ t \in TCBs \ os.list
                        /\ \A x : OnList(s, x) <=> x = t \/ OnList(rest, x)
    BY <1>1, <1>5, <1>6, <1>8, PopList
  <1>13. /\ NextOp(steps) \in {"rollback", "link"} /\ WaitOf(steps) = Sched /\ Head(steps).prio = p
         /\ s # <<>> => NextOp(steps) = "link" /\ Head(steps).tcb = t
    BY <1>4, <1>7, <1>12, OtherSteps
  <1>14. /\ DOMAIN l = Fields /\ \A f \in Fields \ {"tcb", "free"} : l[f] = os[f]
         /\ \A u \in TCBs : s = <<>> \/ u # t => l.tcb[u] = os.tcb[u]
         /\ s = <<>> => l.free = s
         /\ s # <<>> => l.free = rest
    <2>1. CASE s = <<>>
      BY <1>1, <1>5, <1>10, <2>1
    <2>2. CASE s # <<>>
      BY <1>1, <1>10, <2>2 DEF Fields
    <2> QED
      BY <2>1, <2>2
  <1>15. l.list = os.list /\ l.prioTbl = os.prioTbl
    BY <1>14 DEF Fields
  <1>16. /\ os' = l /\ app' = app /\ Live' = Live /\ Waiting' = Waiting /\ FlagWaitsSame
         /\ \A op \in StockOps : op # At(os.cur) /\ op # NextOp(steps) => OpSame(op)
         /\ pc'[os.cur] = steps /\ NextOp(pc'[os.cur]) = NextOp(steps)
         /\ \A u \in TCBs : u # os.cur => pc'[u] = pc[u] /\ NextOp(pc'[u]) = At(u)
    BY <1>1, <1>2, <1>3, <1>11, <1>13, <1>15, RunnerSame
  <1>17. OpSame("OSQCreate") /\ OpSame("OSMemCreate")
    BY <1>2, <1>13, <1>16 DEF StockOps, CreationOps
  <1>18. TasksKept'
    <2>1. ASSUME NEW x \in TCBs \ l.list
          PROVE  OnList(l.free, x) \/ \E u \in TCBs : NextOp(pc'[u]) = "link" /\ Head(pc'[u]).tcb = x
      <3>1. OnList(s, x) \/ \E u \in TCBs : At(u) = "link" /\ Head(pc[u]).tcb = x
        BY <1>5, <1>15, <2>1 DEF Books, StocksKept, TasksKept
      <3>2. CASE \E u \in TCBs : At(u) = "link" /\ Head(pc[u]).tcb = x
        BY <1>2, <1>16, <3>2
      <3>3. CASE OnList(s, x) /\ s # <<>>
        BY <1>2, <1>12, <1>13, <1>14, <1>16, <3>3
      <3>4. CASE OnList(s, x) /\ s = <<>>
        BY <1>14, <3>4
      <3> QED
        BY <3>1, <3>2, <3>3, <3>4
    <2>2. ASSUME NEW q \in Prios, l.prioTbl[q] = Reserved
          PROVE  \E u \in TCBs : NextOp(pc'[u]) \in CreationOps /\ Head(pc'[u]).prio = q
      <3>1. PICK u \in TCBs : At(u) \in CreationOps /\ Head(pc[u]).prio = q
        BY <1>15, <2>2 DEF Books, StocksKept, TasksKept
      <3>2. CASE u = os.cur
        BY <1>2, <1>4, <1>13, <1>16, <3>1, <3>2 DEF CreationOps
      <3>3. CASE u # os.cur
        BY <1>16, <3>1, <3>3
      <3> QED
        BY <3>2, <3>3
    <2> QED
      BY <1>16, <2>1, <2>2, TasksAfter
  <1>19. \A u \in Live : l.tcb[u] = os.tcb[u]
    <2>1. Live \subseteq TCBs
      BY <1>1 DEF TInv, Core
    <2> QED
      BY <1>1, <1>12, <1>14, <2>1
  <1> QED
    BY <1>1, <1>14, <1>16, <1>17, <1>18, <1>19, TaskListBooks

LEMMA LinkBooks ==
  ASSUME Inv, Books, Inv', OS_TCBInit_Link PROVE Booked
  <1>1. /\ TInv /\ DOMAIN os = Fields /\ DOMAIN os.prioTbl = Prios /\ DOMAIN pc = TCBs /\ Step("link")
    BY DEF Inv, TInv, Data, OS_TCBInit_Link
  <1>2. /\ isr = "none" /\ At(os.cur) = "link" /\ os.cur \in TCBs /\ Steps(pc[os.cur])
        /\ NextOp(pc[os.cur]) = "link" /\ Now = Head(pc[os.cur]) /\ Waiting[os.cur] = WaitOf(pc[os.cur])
    BY <1>1, StepCaller
  <1>3. Now.prio \in Prios /\ Now.tcb \in TCBs
    BY <1>2, NextStep DEF CreationOps
  <1>4. PICK p \in Prios : p = Now.prio
    BY <1>3
  <1>5. PICK t \in TCBs : t = Now.tcb
    BY <1>3
  <1>6. t \notin os.list /\ At(t) \in {"none", "OS_Sched"}
    <2>1. t \in TCBs \ os.list
      BY <1>1, <1>2, <1>5 DEF TInv, Creations
    <2> QED
      BY <1>1, <2>1 DEF TInv, Lists
  <1>7. PICK m : m = [os EXCEPT !.prioTbl[p] = t, !.list = @ \cup {t}]
    OBVIOUS
  <1>8. PICK l : l = MakeReady(m, {t})
    OBVIOUS
  <1>9. os' = l /\ app' = app /\ pc' = [pc EXCEPT ![os.cur] = <<Sched>>, ![t] = <<>>]
    BY <1>4, <1>5, <1>7, <1>8 DEF OS_TCBInit_Link
  <1>10. t # os.cur
    BY <1>2, <1>6
  <1>11. /\ pc'[os.cur] = <<Sched>> /\ pc'[t] = <<>>
         /\ \A u \in TCBs : u # os.cur /\ u # t => pc'[u] = pc[u] /\ NextOp(pc'[u]) = At(u)
    BY <1>1, <1>2, <1>9, <1>10, AtNext
  <1>12. /\ DOMAIN m = Fields /\ \A f \in Fields \ {"prioTbl", "list"} : m[f] = os[f]
         /\ m.list = os.list \cup {t} /\ m.prioTbl = [os.prioTbl EXCEPT ![p] = t]
    BY <1>1, <1>7 DEF Fields
  <1>13. /\ DOMAIN l = Fields /\ \A f \in Fields \ {"rdy"} : l[f] = m[f]
    BY <1>8, <1>12 DEF MakeReady, Fields
  <1>14. /\ l.list = os.list \cup {t} /\ l.prioTbl = [os.prioTbl EXCEPT ![p] = t]
         /\ l.free = os.free /\ l.tcb = os.tcb
    BY <1>12, <1>13 DEF Fields
  <1>15. /\ l.prioTbl[p] = t /\ \A q \in Prios : q # p => l.prioTbl[q] = os.prioTbl[q]
    BY <1>1, <1>14
  <1>16. NextOp(<<Sched>>) = "OS_Sched" /\ WaitOf(<<Sched>>) = Sched /\ NextOp(<<>>) = "none" /\ WaitOf(<<>>) = Sched
    BY StepForms
  <1>17. OpSame("OSQCreate") /\ OpSame("OSMemCreate")
    BY <1>2, <1>6, <1>11, <1>16 DEF OpSame
  <1>18. \A u \in TCBs : Waiting'[u].op = "flag" => u # t /\ u # os.cur /\ Waiting'[u] = Waiting[u]
    BY <1>11, <1>16 DEF Waiting, Sched
  <1>19. \A u \in TCBs : u \in Live' => u \in Live \/ u = t
    <2>1. ASSUME NEW u \in BeingDeleted PROVE u \in BeingDeleted'
      <3>1. PICK v \in TCBs : At(v) = "OS_Dummy" /\ Head(pc[v]).tcb = u
        BY <2>1, DummyTasks
      <3>2. v # os.cur /\ v # t
        BY <1>2, <1>6, <3>1
      <3>3. pc'[v] = pc[v] /\ NextOp(pc'[v]) = "OS_Dummy"
        BY <1>11, <3>1, <3>2
      <3>4. u \in TCBs
        BY <2>1 DEF BeingDeleted
      <3> QED
        BY <3>1, <3>3, <3>4 DEF BeingDeleted, NextOp
    <2> QED
      BY <1>9, <1>14, <2>1 DEF Live
  <1>20. FlagWaitsSame
    <2>1. Live' \subseteq TCBs
      BY DEF Inv, TInv, Core
    <2> QED
      BY <1>18, <1>19, <2>1 DEF FlagWaitsSame
  <1>21. TasksKept'
    <2>1. ASSUME NEW x \in TCBs \ l.list
          PROVE  OnList(l.free, x) \/ \E u \in TCBs : NextOp(pc'[u]) = "link" /\ Head(pc'[u]).tcb = x
      <3>1. x \in TCBs \ os.list /\ x # t
        BY <1>14, <2>1
      <3>2. OnList(os.free, x) \/ \E u \in TCBs : At(u) = "link" /\ Head(pc[u]).tcb = x
        BY <3>1 DEF Books, StocksKept, TasksKept
      <3>3. ASSUME NEW u \in TCBs, At(u) = "link", Head(pc[u]).tcb = x
            PROVE  NextOp(pc'[u]) = "link" /\ Head(pc'[u]).tcb = x
        BY <1>2, <1>5, <1>6, <1>11, <3>1, <3>3
      <3> QED
        BY <1>14, <3>2, <3>3
    <2>2. ASSUME NEW q \in Prios, l.prioTbl[q] = Reserved
          PROVE  \E u \in TCBs : NextOp(pc'[u]) \in CreationOps /\ Head(pc'[u]).prio = q
      <3>1. q # p
        BY <1>15, <2>2, NullAssumption
      <3>2. PICK u \in TCBs : At(u) \in CreationOps /\ Head(pc[u]).prio = q
        BY <1>15, <2>2, <3>1 DEF Books, StocksKept, TasksKept
      <3>3. u # os.cur /\ u # t
        BY <1>2, <1>4, <1>6, <3>1, <3>2 DEF CreationOps
      <3> QED
        BY <1>11, <3>2, <3>3
    <2> QED
      BY <1>9, <2>1, <2>2, TasksAfter
  <1>22. \A f \in Fields \ {"tcb", "prioTbl", "rdy", "list", "free", "lock"} : l[f] = os[f]
    BY <1>12, <1>13
  <1> QED
    BY <1>1, <1>9, <1>13, <1>14, <1>17, <1>20, <1>21, <1>22, TaskListBooks

LEMMA DropApart ==
  ASSUME NEW k, Shape(k), NEW t \in TCBs, NEW l, l = DelIn(k, t)
  PROVE  /\ Shape(l) /\ Apart(k, l) /\ Shrinks(k, l) /\ SameFlags(k, l) /\ FewerFlags(k, l)
         /\ \A u \in TCBs : u # t => SameNode(k, l, u)
  <1>1. PICK E : E = [u \in {t} |-> k.tcb[t].multi \cup ({k.tcb[t].event} \ {None})]
    OBVIOUS
  <1>2. PICK a : a = MakeUnready(k, {t})
    OBVIOUS
  <1>3. PICK b : b = OS_EventTaskRemoveMulti(a, E)
    OBVIOUS
  <1>4. PICK c : c = OS_FlagUnlink(b, t)
    OBVIOUS
  <1>5. PICK m : m = [c EXCEPT !.tcb[t].dly = 0, !.tcb[t].stat = {}, !.tcb[t].pend = "OK"]
    OBVIOUS
  <1>6. l = [m EXCEPT !.lock = @ + 1]
    BY <1>1, <1>2, <1>3, <1>4, <1>5 DEF DelIn, Drop
  <1>7. Shape(a) /\ Inert(k, a) /\ a.event = k.event
    BY <1>2, ReadyInert
  <1>8. Shape(b) /\ Inert(a, b) /\ Shrinks(a, b)
    BY <1>3, <1>7, RemoveInert
  <1>9. /\ Shape(c) /\ Apart(b, c) /\ c.event = b.event
        /\ SameFlags(b, c) /\ FewerFlags(b, c) /\ \A u \in TCBs : u # t => SameNode(b, c, u)
    BY <1>4, <1>8, UnlinkApart
  <1>10. PICK x : x = c.tcb[t]
    OBVIOUS
  <1>11. PICK y : y = [x EXCEPT !.dly = 0, !.stat = {}, !.pend = "OK"]
    OBVIOUS
  <1>12. m = [c EXCEPT !.tcb[t] = y] /\ DOMAIN x = TCBFields
    BY <1>5, <1>9, <1>10, <1>11 DEF Shape, TCBFields, Fields
  <1>13. DOMAIN y = TCBFields /\ y.flagsRdy = x.flagsRdy /\ y.node = x.node
    BY <1>11, <1>12 DEF TCBFields
  <1>14. Shape(m) /\ Inert(c, m) /\ m.event = c.event
    BY <1>9, <1>10, <1>12, <1>13, TCBInert
  <1>15. DOMAIN l = Fields /\ \A f \in Fields \ {"lock"} : l[f] = m[f]
    BY <1>6, <1>14 DEF Shape, Fields
  <1>16. l.tcb = m.tcb /\ l.event = m.event
    BY <1>15 DEF Fields
  <1>17. Shape(l) /\ Inert(m, l)
    <2>1. /\ DOMAIN l.tcb = TCBs /\ DOMAIN l.event = EventIds
          /\ \A u \in TCBs : /\ DOMAIN l.tcb[u] = TCBFields
                             /\ l.tcb[u].flagsRdy = m.tcb[u].flagsRdy /\ l.tcb[u].node = m.tcb[u].node
          /\ \A e \in EventIds : \A f \in ECBFields \ {"wait"} :
               DOMAIN l.event[e] = ECBFields /\ l.event[e][f] = m.event[e][f]
      BY <1>14, <1>16 DEF Shape
    <2>2. \A f \in Fields \ {"rdy", "tcb", "event", "lock", "cur", "prioCur", "running"} : l[f] = m[f]
      BY <1>15
    <2> QED
      BY <1>14, <1>15, <2>1, <2>2, InertParts
  <1>18. Inert(k, b) /\ Inert(c, l)
    BY <1>7, <1>8, <1>14, <1>17, InertTrans
  <1>19. Apart(k, b) /\ Apart(b, c) /\ Apart(c, l)
    BY <1>9, <1>18 DEF Inert
  <1>20. Apart(k, l)
    BY <1>19, ApartTrans
  <1>21. Shrinks(k, l)
    BY <1>7, <1>8, <1>9, <1>14, <1>16 DEF Shrinks, Waiters
  <1>22. SameFlags(k, l) /\ FewerFlags(k, l) /\ \A u \in TCBs : u # t => SameNode(k, l, u)
    BY <1>9, <1>18 DEF Inert, SameNodes, SameFlags, FewerFlags, SameNode
  <1> QED
    BY <1>17, <1>20, <1>21, <1>22

LEMMA DelBooks ==
  ASSUME Inv, Books, Inv', NEW prio \in Prios, OSTaskDel(prio) PROVE Booked
  <1> PICK t : t = Task(os, prio)
    OBVIOUS
  <1>1. Shape(os) /\ TInv /\ DOMAIN os = Fields /\ DOMAIN pc = TCBs
    BY DataShape DEF Inv, TInv, Data
  <1>2. PICK steps : steps = <<[op |-> "OS_Dummy", tcb |-> t, prio |-> prio]>>
    OBVIOUS
  <1>3. PICK l : l = DelIn(os, t)
    OBVIOUS
  <1>4. AtTask("OSTaskDel") /\ Exists(prio) /\ Leave(l, steps)
    <2>1. /\ AtTask("OSTaskDel") /\ Exists(prio)
          /\ Leave(DelIn(os, Task(os, prio)), <<[op |-> "OS_Dummy", tcb |-> Task(os, prio), prio |-> prio]>>)
      BY <1>1, DelInIs DEF OSTaskDel
    <2> QED
      BY <1>2, <1>3, <2>1
  <1>5. /\ isr = "none" /\ At(os.cur) = "none" /\ os.cur \in TCBs /\ Waiting[os.cur] = Sched
        /\ BeingDeleted = {} /\ Live = os.list
    BY <1>1, <1>4, TaskCaller
  <1>6. t \in TCBs
    BY <1>4 DEF Exists, Task, Inv, TInv, Data
  <1>7. NextOp(steps) = "OS_Dummy" /\ WaitOf(steps) = Sched /\ Head(steps).tcb = t
    BY <1>2, <1>6, OtherSteps
  <1>8. /\ Apart(os, l) /\ Shrinks(os, l) /\ SameFlags(os, l) /\ FewerFlags(os, l)
        /\ \A u \in TCBs : u # t => SameNode(os, l, u)
    BY <1>1, <1>3, <1>6, DropApart
  <1>9. Continues(steps) /\ os' = l
    BY <1>4, LeaveContinues
  <1>10. /\ app' = app /\ pc'[os.cur] = steps /\ Waiting' = Waiting
         /\ \A u \in TCBs : u # os.cur => pc'[u] = pc[u]
    BY <1>1, <1>5, <1>7, <1>9, PcAfter
  <1>11. \A op \in StockOps : OpSame(op)
    <2> SUFFICES ASSUME NEW op \in StockOps PROVE OpSame(op)
      OBVIOUS
    <2>1. op # "none" /\ op # "OS_Dummy"
      BY DEF StockOps, CreationOps
    <2> QED
      BY <1>1, <1>5, <1>7, <1>9, <2>1, SameOps DEF OpSame
  <1>12. t \in BeingDeleted'
    BY <1>5, <1>6, <1>7, <1>10 DEF BeingDeleted, NextOp
  <1>13. l.list = os.list
    BY <1>8 DEF Apart, Stable, SameTasks
  <1>14. \A u \in Live' : u # t /\ u \in Live /\ u \in TCBs
    <2>1. Live' \subseteq TCBs
      BY DEF Inv, TInv, Core
    <2> QED
      BY <1>5, <1>9, <1>12, <1>13, <2>1 DEF Live
  <1>15. FlagWaitsSame
    BY <1>10, <1>14 DEF FlagWaitsSame
  <1>16. TasksKept'
    BY <1>8, <1>9, <1>11, TasksKeep DEF Apart, Stable, Books, StocksKept, StockOps
  <1>17. \A u \in Live' : SameNode(os, l, u)
    BY <1>8, <1>14
  <1>18. \A g \in FlagIds : \A u \in l.flag[g].wait : l.tcb[u].node = os.tcb[u].node
    <2>1. \A g \in FlagIds : l.flag[g].wait \subseteq Live'
      BY <1>9 DEF Inv, TInv, Core
    <2> QED
      BY <1>17, <2>1 DEF SameNode
  <1>19. \A e \in EventIds : StaysFair(os, l, e)
    BY <1>8, ShrinkFair
  <1> QED
    BY <1>8, <1>9, <1>10, <1>11, <1>15, <1>16, <1>17, <1>18, <1>19, TaskStockBooks
    DEF Apart, Stable, StockOps

LEMMA FreeBooks ==
  ASSUME Inv, Books, Inv', OSTaskDel_Free PROVE Booked
  <1>1. /\ TInv /\ DOMAIN os = Fields /\ DOMAIN os.prioTbl = Prios /\ DOMAIN pc = TCBs /\ Step("OS_Dummy")
        /\ os.free \in Seq(TCBs) /\ os.list \subseteq TCBs
    BY DEF Inv, TInv, Data, Creations, OSTaskDel_Free
  <1>2. /\ isr = "none" /\ At(os.cur) = "OS_Dummy" /\ os.cur \in TCBs /\ Steps(pc[os.cur])
        /\ NextOp(pc[os.cur]) = "OS_Dummy" /\ Now = Head(pc[os.cur]) /\ Waiting[os.cur] = WaitOf(pc[os.cur])
    BY <1>1, StepCaller
  <1>3. Now.prio \in Prios /\ Now.tcb \in TCBs
    BY <1>2, NextStep
  <1>4. PICK p \in Prios : p = Now.prio
    BY <1>3
  <1>5. PICK t \in TCBs : t = Now.tcb
    BY <1>3
  <1>6. PICK s : s = <<t>> \o os.free
    OBVIOUS
  <1>7. PICK l : l = [os EXCEPT !.lock = @ - 1, !.prioTbl[p] = None, !.list = @ \ {t}, !.free = s]
    OBVIOUS
  <1>8. os' = l /\ app' = app /\ pc' = [[pc EXCEPT ![t] = <<>>] EXCEPT ![os.cur] = <<Sched>>]
    BY <1>1, <1>4, <1>5, <1>6, <1>7 DEF OSTaskDel_Free, Fields
  <1>9. /\ t # os.cur => At(t) \in {"none", "OS_Sched"} \cup WaitOps
        /\ \A u \in TCBs : At(u) = "OS_Dummy" => u = os.cur
    BY <1>1, <1>2, <1>5 DEF TInv, Lists
  <1>10. /\ pc'[os.cur] = <<Sched>> /\ (t # os.cur => pc'[t] = <<>>)
         /\ \A u \in TCBs : u # os.cur /\ u # t => pc'[u] = pc[u] /\ NextOp(pc'[u]) = At(u)
    BY <1>1, <1>2, <1>8, AtNext
  <1>11. /\ DOMAIN l = Fields
         /\ \A f \in Fields \ {"tcb", "prioTbl", "rdy", "list", "free", "lock"} : l[f] = os[f]
         /\ l.tcb = os.tcb /\ l.list = os.list \ {t} /\ l.free = s
         /\ l.prioTbl = [os.prioTbl EXCEPT ![p] = None]
    BY <1>1, <1>7 DEF Fields
  <1>12. l.prioTbl[p] = None /\ \A q \in Prios : q # p => l.prioTbl[q] = os.prioTbl[q]
    BY <1>1, <1>11
  <1>13. NextOp(<<Sched>>) = "OS_Sched" /\ WaitOf(<<Sched>>) = Sched /\ NextOp(<<>>) = "none" /\ WaitOf(<<>>) = Sched
    BY StepForms
  <1>14. \A u \in TCBs : \/ NextOp(pc'[u]) = At(u) /\ pc'[u] = pc[u]
                         \/ NextOp(pc'[u]) \in {"none", "OS_Sched"} /\ At(u) \notin StockOps
    BY <1>2, <1>9, <1>10, <1>13 DEF StockOps, CreationOps, WaitOps
  <1>15. \A op \in StockOps : OpSame(op)
    <2>1. "none" \notin StockOps /\ "OS_Sched" \notin StockOps
      BY DEF StockOps, CreationOps
    <2> QED
      BY <1>14, <2>1 DEF OpSame
  <1>16. \A u \in Live' : u \in Live
    <2>1. \A u : u \in BeingDeleted => u = t
      BY <1>2, <1>5, <1>9, DummyTasks
    <2> QED
      BY <1>8, <1>11, <2>1 DEF Live
  <1>17. FlagWaitsSame
    <2>1. ASSUME NEW u \in Live', Waiting'[u].op = "flag" PROVE u \in Live /\ Waiting'[u] = Waiting[u]
      <3>1. u \in TCBs
        BY DEF Inv, TInv, Core
      <3>2. u # os.cur /\ u # t
        BY <1>10, <1>13, <2>1, <3>1 DEF Waiting, Sched
      <3> QED
        BY <1>10, <1>16, <3>1, <3>2 DEF Waiting
    <2> QED
      BY <2>1 DEF FlagWaitsSame
  <1>18. TasksKept'
    <2>1. ASSUME NEW x \in TCBs \ l.list
          PROVE  OnList(l.free, x) \/ \E u \in TCBs : NextOp(pc'[u]) = "link" /\ Head(pc'[u]).tcb = x
      <3>1. \A y : OnList(s, y) <=> y = t \/ OnList(os.free, y)
        BY <1>1, <1>6, PushList
      <3>2. CASE x = t
        BY <1>11, <3>1, <3>2
      <3>3. CASE x # t
        BY <1>11, <1>15, <2>1, <3>1, <3>3 DEF Books, StocksKept, TasksKept, OpSame, StockOps, CreationOps
      <3> QED
        BY <3>2, <3>3
    <2>2. ASSUME NEW q \in Prios, l.prioTbl[q] = Reserved
          PROVE  \E u \in TCBs : NextOp(pc'[u]) \in CreationOps /\ Head(pc'[u]).prio = q
      <3>1. os.prioTbl[q] = Reserved
        BY <1>12, <2>2, NullAssumption
      <3>2. PICK u \in TCBs : At(u) \in CreationOps /\ Head(pc[u]).prio = q
        BY <3>1 DEF Books, StocksKept, TasksKept
      <3> QED
        BY <1>15, <3>2 DEF OpSame, StockOps
    <2> QED
      BY <1>8, <2>1, <2>2, TasksAfter
  <1> QED
    BY <1>1, <1>8, <1>11, <1>15, <1>17, <1>18, TaskListBooks DEF StockOps

LEMMA ChangePrioSame ==
  ASSUME NEW k, Shape(k), NEW t \in TCBs, NEW new, NEW l, l = ChangePrio(k, t, new)
  PROVE  /\ SameTypes(k, l) /\ SameKinds(k, l) /\ SameStored(k, l) /\ SameNodes(k, l)
         /\ l.mem = k.mem /\ l.list = k.list /\ l.free = k.free
  <1> DEFINE old == k.tcb[t].prio
             E   == k.tcb[t].multi \cup ({k.tcb[t].event} \ {None})
             F   == [e \in EventIds |-> IF e \in E THEN [k.event[e] EXCEPT !.wait = Moved(@, old, new)]
                                        ELSE k.event[e]]
             T   == [k.prioTbl EXCEPT ![old] = None, ![new] = t]
             R   == IF Has(k.rdy, old) THEN Moved(k.rdy, old, new) ELSE k.rdy
  <1>1. l = [k EXCEPT !.prioTbl = T, !.rdy = R, !.event = F, !.tcb[t].prio = new]
    BY DEF ChangePrio, Shape, Fields
  <1>2. \A e \in EventIds : \A f \in ECBFields \ {"wait"} : F[e][f] = k.event[e][f]
    BY DEF Shape, ECBFields
  <1> HIDE DEF old, E, F, T, R
  <1>3. /\ \A f \in Fields \ {"prioTbl", "rdy", "event", "tcb"} : l[f] = k[f]
        /\ l.event = F /\ l.tcb = [k.tcb EXCEPT ![t].prio = new]
    BY <1>1 DEF Shape, Fields
  <1>4. \A u \in TCBs : l.tcb[u].flagsRdy = k.tcb[u].flagsRdy /\ l.tcb[u].node = k.tcb[u].node
    BY <1>3 DEF Shape, TCBFields
  <1>5. \A e \in EventIds : l.event[e].type = k.event[e].type /\ l.event[e].cnt = k.event[e].cnt
                            /\ l.event[e].ptr = k.event[e].ptr
    BY <1>2, <1>3 DEF ECBFields
  <1>6. l.freeEvents = k.freeEvents /\ l.freeQs = k.freeQs /\ l.freeFlags = k.freeFlags /\ l.mem = k.mem
        /\ l.flag = k.flag /\ l.list = k.list /\ l.free = k.free
    BY <1>3 DEF Fields
  <1> QED
    BY <1>4, <1>5, <1>6 DEF SameTypes, SameKinds, SameStored, SameNodes

LEMMA ChangePrioBooks ==
  ASSUME Ruled, ~PrioChangeOfWoken, KInv, Inv, Books, NEW old \in Prios, NEW new \in Prios,
         OSTaskChangePrio(old, new)
  PROVE  Booked
  <1> PICK t : t = Task(os, old)
    OBVIOUS
  <1>1. /\ Shape(os) /\ TInv /\ Data(os) /\ Core(os, Live, Waiting)
    BY DataShape DEF Inv, TInv
  <1>2. /\ Anywhere("OSTaskChangePrio") /\ old # OS_TASK_IDLE_PRIO /\ os.prioTbl[new] = None /\ Exists(old)
        /\ ~Woken(t)
    BY DEF OSTaskChangePrio
  <1>3. PICK l : l = ChangePrio(os, t, new)
    OBVIOUS
  <1>4. Leave(l, <<Sched>>)
    BY <1>3 DEF OSTaskChangePrio
  <1>5. AtTask("OSTaskChangePrio")
    BY <1>2 DEF Anywhere, AtIsr, Ruled, Supported, Inv, Rules
  <1>6. /\ isr = "none" /\ At(os.cur) = "none" /\ os.cur \in TCBs /\ BeingDeleted = {}
        /\ Live = os.list /\ Waiting[os.cur] = Sched
    BY <1>1, <1>5, TaskCaller
  <1>7. t \in TCBs /\ t \in Live /\ os.tcb[t].prio = old
    BY <1>2, <1>6, TaskOf
  <1>8. PrioChanged(os, l, t, old, new)
    <2>1. os.tcb[t].event # None \/ os.tcb[t].multi # {} => \E e \in EventIds : old \in Waiters(os, e)
      BY <1>2, <1>7 DEF Woken
    <2> QED
      BY <1>1, <1>2, <1>3, <1>7, <2>1, ChangePrioCore
  <1>9. /\ SameTypes(os, l) /\ SameKinds(os, l) /\ SameStored(os, l) /\ SameNodes(os, l)
        /\ l.mem = os.mem /\ l.list = os.list /\ l.free = os.free
    BY <1>1, <1>3, <1>7, ChangePrioSame
  <1>10. NextOp(<<Sched>>) = "OS_Sched" /\ WaitOf(<<Sched>>) = Sched
    BY StepForms
  <1>11. /\ os' = l /\ app' = app /\ Live' = Live /\ FlagWaitsSame
         /\ \A op \in StockOps : op # At(os.cur) /\ op # NextOp(<<Sched>>) => OpSame(op)
    BY <1>1, <1>4, <1>6, <1>9, <1>10, RunnerSame
  <1>12. \A op \in StockOps : OpSame(op)
    BY <1>6, <1>10, <1>11 DEF StockOps, CreationOps
  <1>13. TasksKept'
    <2>1. ASSUME NEW x \in TCBs \ l.list
          PROVE  OnList(l.free, x) \/ \E u \in TCBs : NextOp(pc'[u]) = "link" /\ Head(pc'[u]).tcb = x
      BY <1>9, <1>12, <2>1 DEF Books, StocksKept, TasksKept, OpSame, StockOps, CreationOps
    <2>2. ASSUME NEW q \in Prios, l.prioTbl[q] = Reserved
          PROVE  \E u \in TCBs : NextOp(pc'[u]) \in CreationOps /\ Head(pc'[u]).prio = q
      <3>1. os.prioTbl[q] = Reserved
        BY <1>7, <1>8, <2>2, NullAssumption DEF PrioChanged
      <3>2. PICK u \in TCBs : At(u) \in CreationOps /\ Head(pc[u]).prio = q
        BY <3>1 DEF Books, StocksKept, TasksKept
      <3> QED
        BY <1>12, <3>2 DEF OpSame, StockOps
    <2> QED
      BY <1>11, <2>1, <2>2, TasksAfter
  <1>14. \A e \in EventIds : StaysFair(os, l, e)
    <2> SUFFICES ASSUME NEW e \in EventIds PROVE StaysFair(os, l, e)
      OBVIOUS
    <2>1. HasSome(l.event[e]) <=> HasSome(os.event[e])
      BY <1>9 DEF HasSome, SameTypes, SameStored
    <2>2. Waiters(os, e) = {} => Waiters(l, e) = {}
      <3>1. Waiters(l, e) \subseteq Prios
        BY MembersPrios DEF Waiters
      <3> QED
        BY <1>8, <3>1 DEF PrioChanged
    <2> QED
      BY <2>1, <2>2 DEF StaysFair
  <1>15. Live \subseteq TCBs /\ \A g \in FlagIds : os.flag[g].wait \subseteq TCBs
    BY <1>1 DEF Core
  <1>16. SameFlags(os, l) /\ FewerFlags(os, l) /\ (\A u \in TCBs : SameNode(os, l, u))
         /\ \A g \in FlagIds : \A u \in l.flag[g].wait : l.tcb[u].node = os.tcb[u].node
    BY <1>9, <1>15 DEF SameNodes, SameFlags, FewerFlags, SameNode
  <1> QED
    BY <1>9, <1>11, <1>12, <1>13, <1>14, <1>15, <1>16, TaskStockBooks DEF StockOps

LEMMA TaskBooks ==
  ASSUME Ruled, ~PrioChangeOfWoken, KInv, Inv, Books, Inv', TaskNext PROVE Booked
  <1>1. ASSUME NEW old \in Prios, NEW new \in Prios, OSTaskChangePrio(old, new) PROVE Booked
    BY <1>1, ChangePrioBooks
  <1>2. ASSUME NEW prio \in Prios, OSTaskCreate(prio) \/ OSTaskCreateExt(prio) PROVE Booked
    BY <1>2, CreateBooks DEF OSTaskCreate, OSTaskCreateExt
  <1>3. ASSUME NEW prio \in Prios, OSTaskDel(prio) PROVE Booked
    BY <1>3, DelBooks
  <1>4. ASSUME NEW prio \in Prios \ {OS_TASK_IDLE_PRIO},
               OSTaskDelReq(prio) \/ OSTaskSuspend(prio) \/ OSTaskResume(prio) \/ OSTimeDlyResume(prio)
        PROVE  Booked
    BY <1>4, DelReqBooks, SuspendBooks
  <1>5. ASSUME OS_TCBInit \/ OS_TCBInit_Link \/ OSTaskCreate_Failed \/ OSTaskDel_Free PROVE Booked
    BY <1>5, TCBInitBooks, LinkBooks, RollbackBooks, FreeBooks
  <1>6. ASSUME OS_TaskReturn PROVE Booked
    <2>1. Cur.prio \in Prios
      BY DEF Inv, TInv, Data, Cur
    <2> QED
      BY <1>3, <1>6, <2>1 DEF OS_TaskReturn
  <1>7. ASSUME NEW ticks, OSTimeDly(ticks) PROVE Booked
    BY <1>7, DelayBooks DEF OSTimeDly
  <1>8. ASSUME NEW c, OSTimeDlyHMSM(c) PROVE Booked
    BY <1>8, DelayBooks DEF OSTimeDlyHMSM
  <1>9. \A prio \in Prios \ {OS_TASK_IDLE_PRIO} : prio \in Prios
    OBVIOUS
  <1> QED
    BY <1>1, <1>2, <1>3, <1>4, <1>5, <1>6, <1>7, <1>8, <1>9, Zenon DEF TaskNext

(***************************************************************************)
(* Creation and deletion of events.                                        *)
(***************************************************************************)
(* Neither tasks, groups nor memory change, nor the flags that a task got. *)
LEMMA EventStockBooks ==
  ASSUME TInv, Books, EventsKept', QsKept', SameTasks(os, os'), SameKinds(os, os'), SameNodes(os, os'),
         os'.mem = os.mem, \A op \in StockOps : op # "OSQCreate" => OpSame(op), app' = app, FlagWaitsSame,
         \A e \in EventIds : StaysFair(os, os', e)
  PROVE  Books'
  <1>1. TasksKept' /\ GroupsKept' /\ MemKept'
    BY TasksKeep, GroupsKeep, MemKeep DEF Books, StocksKept, StockOps, CreationOps
  <1>2. NoneWaits'
    BY NoneWaitsKeep DEF Books
  <1>3. Live \subseteq TCBs /\ \A g \in FlagIds : os.flag[g].wait \subseteq TCBs
    BY DEF TInv, Core
  <1>4. FlagsKept'
    BY <1>3, FlagsKeep DEF Books, SameNodes, SameNode
  <1>5. NobodyServed => NobodyServed'
    BY <1>3, ServedKeep DEF SameNodes, SameFlags, FewerFlags
  <1> QED
    BY <1>1, <1>2, <1>4, <1>5 DEF Books, StocksKept

LEMMA QueuesFinite ==
  ASSUME NEW k PROVE IsFiniteSet(InUse(k)) /\ Cardinality(InUse(k)) \in Nat
  <1>1. IsFiniteSet(EventIds)
    BY FS_Interval, SizesAssumption DEF EventIds
  <1>2. InUse(k) \in SUBSET EventIds
    BY DEF InUse
  <1> HIDE DEF InUse
  <1>3. IsFiniteSet(InUse(k))
    BY <1>1, <1>2, FS_Subset
  <1> QED
    BY <1>3, FS_CardinalityType

LEMMA NewEventBooks ==
  ASSUME Inv, Books, NEW c, AtTask(c), os.freeEvents # <<>>,
         NEW ecb, ecb.wait = EmptyTable, ecb.type \in {"SEM", "MBOX"}, Leave(NewEvent(os, ecb), <<>>)
  PROVE  Booked
  <1>1. Shape(os) /\ TInv /\ os.freeEvents \in Seq(EventIds)
    BY DataShape DEF Inv, TInv, Pools
  <1>2. PICK e : e = Head(os.freeEvents)
    OBVIOUS
  <1>3. PICK s : s = Tail(os.freeEvents)
    OBVIOUS
  <1>4. /\ e \in EventIds /\ os.event[e].type = "UNUSED"
    BY <1>1, <1>2, FirstFree
  <1>5. \A x : OnList(os.freeEvents, x) <=> x = e \/ OnList(s, x)
    BY <1>1, <1>2, <1>3, PopList
  <1>6. PICK l : l = [os EXCEPT !.event[e] = ecb, !.freeEvents = s]
    OBVIOUS
  <1>7. Leave(l, <<>>)
    BY <1>1, <1>2, <1>3, <1>6 DEF NewEvent, Shape, Fields
  <1>8. /\ \A f \in Fields \ {"event", "freeEvents"} : l[f] = os[f]
        /\ l.freeEvents = s /\ l.event[e] = ecb /\ \A f \in EventIds : f # e => l.event[f] = os.event[f]
    BY <1>1, <1>4, <1>6 DEF Shape, Fields
  <1>9. l.tcb = os.tcb /\ l.flag = os.flag /\ l.mem = os.mem /\ l.list = os.list /\ l.free = os.free
        /\ l.prioTbl = os.prioTbl /\ l.freeFlags = os.freeFlags /\ l.freeQs = os.freeQs
    BY <1>8 DEF Fields
  <1>10. isr = "none" /\ Waiting[os.cur] = Sched /\ At(os.cur) = "none"
    BY <1>1, TaskCaller
  <1>11. NextOp(<<>>) = "none" /\ WaitOf(<<>>) = Sched
    BY StepForms
  <1>12. /\ os' = l /\ app' = app /\ FlagWaitsSame
         /\ \A op \in StockOps : op # At(os.cur) /\ op # NextOp(<<>>) => OpSame(op)
    BY <1>1, <1>7, <1>9, <1>10, <1>11, RunnerSame
  <1>13. \A op \in StockOps : OpSame(op)
    BY <1>10, <1>11, <1>12 DEF StockOps, CreationOps
  <1>14. EventsKept'
    <2>1. ASSUME NEW f \in EventIds, l.event[f].type = "UNUSED"
          PROVE  OnList(s, f) \/ \E u \in TCBs : NextOp(pc'[u]) = "OSQCreate" /\ Head(pc'[u]).event = f
      <3>1. f # e
        BY <1>8, <2>1
      <3> QED
        BY <1>5, <1>8, <1>13, <2>1, <3>1 DEF Books, StocksKept, EventsKept, OpSame, StockOps
    <2> QED
      BY <1>8, <1>12, <2>1 DEF EventsKept, At, NextOp
  <1>15. InUse(l) = InUse(os)
    BY <1>4, <1>8 DEF InUse
  <1>16. QsKept'
    BY <1>9, <1>12, <1>15 DEF Books, StocksKept, QsKept
  <1>17. \A f \in EventIds : StaysFair(os, l, f)
    BY <1>4, <1>8, EmptyMembers DEF StaysFair, Waiters
  <1>18. TypesStay
    BY <1>4, <1>8, <1>9, <1>12 DEF TypesStay
  <1>19. Books'
    BY <1>1, <1>9, <1>12, <1>13, <1>14, <1>16, <1>17, EventStockBooks DEF SameTasks, SameKinds, SameNodes
  <1> QED
    BY <1>18, <1>19 DEF Booked

LEMMA QCreateBooks ==
  ASSUME Inv, Books, OSQCreate PROVE Booked
  <1>1. Shape(os) /\ TInv /\ os.freeEvents \in Seq(EventIds) /\ os.freeEvents # <<>> /\ AtTask("OSQCreate")
    BY DataShape DEF Inv, TInv, Pools, OSQCreate
  <1>2. PICK e : e = Head(os.freeEvents)
    OBVIOUS
  <1>3. PICK s : s = Tail(os.freeEvents)
    OBVIOUS
  <1>4. \A x : OnList(os.freeEvents, x) <=> x = e \/ OnList(s, x)
    BY <1>1, <1>2, <1>3, PopList
  <1>5. PICK l : l = [os EXCEPT !.freeEvents = s]
    OBVIOUS
  <1>6. PICK steps : steps = <<[op |-> "OSQCreate", event |-> e]>>
    OBVIOUS
  <1>7. Leave(l, steps)
    BY <1>1, <1>2, <1>3, <1>5, <1>6 DEF OSQCreate, Shape, Fields
  <1>8. (\A f \in Fields \ {"freeEvents"} : l[f] = os[f]) /\ l.freeEvents = s
    BY <1>1, <1>5 DEF Shape, Fields
  <1>9. l.tcb = os.tcb /\ l.flag = os.flag /\ l.mem = os.mem /\ l.list = os.list /\ l.free = os.free
        /\ l.prioTbl = os.prioTbl /\ l.freeFlags = os.freeFlags /\ l.freeQs = os.freeQs /\ l.event = os.event
    BY <1>8 DEF Fields
  <1>10. isr = "none" /\ Waiting[os.cur] = Sched /\ At(os.cur) = "none" /\ os.cur \in TCBs
    BY <1>1, TaskCaller
  <1>11. NextOp(steps) = "OSQCreate" /\ WaitOf(steps) = Sched /\ Head(steps).event = e
    BY <1>6 DEF NextOp, WaitOf, WaitOps
  <1>12. /\ os' = l /\ app' = app /\ FlagWaitsSame
         /\ \A op \in StockOps : op # At(os.cur) /\ op # NextOp(steps) => OpSame(op)
         /\ pc'[os.cur] = steps /\ NextOp(pc'[os.cur]) = NextOp(steps)
         /\ \A u \in TCBs : u # os.cur => pc'[u] = pc[u] /\ NextOp(pc'[u]) = At(u)
    BY <1>1, <1>7, <1>9, <1>10, <1>11, RunnerSame
  <1>13. \A op \in StockOps : op # "OSQCreate" => OpSame(op)
    BY <1>10, <1>11, <1>12 DEF StockOps, CreationOps
  <1>14. EventsKept'
    <2>1. ASSUME NEW f \in EventIds, l.event[f].type = "UNUSED"
          PROVE  OnList(s, f) \/ \E u \in TCBs : NextOp(pc'[u]) = "OSQCreate" /\ Head(pc'[u]).event = f
      <3>1. OnList(os.freeEvents, f) \/ \E u \in TCBs : At(u) = "OSQCreate" /\ Head(pc[u]).event = f
        BY <1>9, <2>1 DEF Books, StocksKept, EventsKept
      <3>2. CASE OnList(os.freeEvents, f)
        BY <1>4, <1>10, <1>11, <1>12, <3>2
      <3>3. CASE \E u \in TCBs : At(u) = "OSQCreate" /\ Head(pc[u]).event = f
        BY <1>10, <1>12, <3>3
      <3> QED
        BY <3>1, <3>2, <3>3
    <2> QED
      BY <1>8, <1>12, <2>1 DEF EventsKept, At, NextOp
  <1>15. QsKept'
    BY <1>9, <1>12 DEF Books, StocksKept, QsKept, InUse
  <1>16. \A f \in EventIds : StaysFair(os, l, f)
    BY <1>9 DEF StaysFair, Waiters
  <1>17. TypesStay
    BY <1>9, <1>12 DEF TypesStay
  <1>18. Books'
    BY <1>1, <1>9, <1>12, <1>13, <1>14, <1>15, <1>16, EventStockBooks DEF SameTasks, SameKinds, SameNodes
  <1> QED
    BY <1>17, <1>18 DEF Booked

LEMMA QLinkBooks ==
  ASSUME Inv, Books, OSQCreate_Q PROVE Booked
  <1>1. Shape(os) /\ TInv /\ os.freeEvents \in Seq(EventIds) /\ Step("OSQCreate")
    BY DataShape DEF Inv, TInv, Pools, OSQCreate_Q
  <1>2. /\ isr = "none" /\ At(os.cur) = "OSQCreate" /\ os.cur \in TCBs /\ Steps(pc[os.cur])
        /\ NextOp(pc[os.cur]) = "OSQCreate" /\ Now = Head(pc[os.cur]) /\ Waiting[os.cur] = WaitOf(pc[os.cur])
    BY <1>1, StepCaller
  <1>3. Now.event \in EventIds /\ Waiting[os.cur] = Sched
    BY <1>2, NextStep
  <1>4. PICK e \in EventIds : e = Now.event
    BY <1>3
  <1>5. os.event[e].type = "UNUSED"
    BY <1>1, <1>2, <1>4 DEF TInv, Pools
  <1>6. PICK s : s = <<e>> \o os.freeEvents
    OBVIOUS
  <1>7. PICK q : q = NewQ
    OBVIOUS
  <1>8. PICK l : l = IF os.freeQs > 0 THEN [os EXCEPT !.freeQs = @ - 1, !.event[e] = q]
                     ELSE [os EXCEPT !.freeEvents = s]
    OBVIOUS
  <1>9. Leave(l, <<>>)
    <2>1. CASE os.freeQs > 0
      BY <1>1, <1>4, <1>7, <1>8, <2>1 DEF OSQCreate_Q
    <2>2. CASE ~(os.freeQs > 0)
      BY <1>1, <1>4, <1>6, <1>8, <2>2 DEF OSQCreate_Q, Shape, Fields
    <2> QED
      BY <2>1, <2>2
  <1>10. /\ \A f \in Fields \ {"freeQs", "event", "freeEvents"} : l[f] = os[f]
         /\ \A f \in EventIds : f # e => l.event[f] = os.event[f]
         /\ os.freeQs > 0 => l.freeQs = os.freeQs - 1 /\ l.event[e] = q /\ l.freeEvents = os.freeEvents
         /\ ~(os.freeQs > 0) => l.freeQs = os.freeQs /\ l.event = os.event /\ l.freeEvents = s
    <2>1. CASE os.freeQs > 0
      BY <1>1, <1>8, <2>1 DEF Shape, Fields
    <2>2. CASE ~(os.freeQs > 0)
      BY <1>1, <1>8, <2>2 DEF Shape, Fields
    <2> QED
      BY <2>1, <2>2
  <1>11. l.tcb = os.tcb /\ l.flag = os.flag /\ l.mem = os.mem /\ l.list = os.list /\ l.free = os.free
         /\ l.prioTbl = os.prioTbl /\ l.freeFlags = os.freeFlags
    BY <1>10 DEF Fields
  <1>12. NextOp(<<>>) = "none" /\ WaitOf(<<>>) = Sched
    BY StepForms
  <1>13. /\ os' = l /\ app' = app /\ FlagWaitsSame
         /\ \A op \in StockOps : op # At(os.cur) /\ op # NextOp(<<>>) => OpSame(op)
         /\ \A u \in TCBs : u # os.cur => pc'[u] = pc[u] /\ NextOp(pc'[u]) = At(u)
    BY <1>1, <1>2, <1>3, <1>9, <1>11, <1>12, RunnerSame
  <1>14. \A op \in StockOps : op # "OSQCreate" => OpSame(op)
    BY <1>2, <1>12, <1>13 DEF StockOps, CreationOps
  <1>15. q.type = "Q" /\ q.wait = EmptyTable
    BY <1>7 DEF NewQ, UnusedEvent
  <1>16. EventsKept'
    <2>1. ASSUME NEW f \in EventIds, l.event[f].type = "UNUSED"
          PROVE  OnList(l.freeEvents, f) \/ \E u \in TCBs : NextOp(pc'[u]) = "OSQCreate" /\ Head(pc'[u]).event = f
      <3>1. \A x : OnList(s, x) <=> x = e \/ OnList(os.freeEvents, x)
        BY <1>1, <1>6, PushList
      <3>2. CASE f = e
        BY <1>10, <1>15, <2>1, <3>1, <3>2
      <3>3. CASE f # e
        <4>1. OnList(os.freeEvents, f) \/ \E u \in TCBs : At(u) = "OSQCreate" /\ Head(pc[u]).event = f
          BY <1>10, <2>1, <3>3 DEF Books, StocksKept, EventsKept
        <4>2. CASE OnList(os.freeEvents, f)
          BY <1>10, <3>1, <4>2
        <4>3. CASE \E u \in TCBs : At(u) = "OSQCreate" /\ Head(pc[u]).event = f
          BY <1>2, <1>4, <1>13, <3>3, <4>3
        <4> QED
          BY <4>1, <4>2, <4>3
      <3> QED
        BY <3>2, <3>3
    <2> QED
      BY <1>13, <2>1 DEF EventsKept, At, NextOp
  <1>17. QsKept'
    <2>1. os.freeQs \in Nat
      BY DEF Books, StocksKept, QsKept
    <2>2. CASE os.freeQs > 0
      <3>1. InUse(l) = InUse(os) \cup {e} /\ e \notin InUse(os)
        BY <1>5, <1>10, <1>15, <2>2 DEF InUse
      <3>2. IsFiniteSet(InUse(os)) /\ Cardinality(InUse(os)) \in Nat
        BY QueuesFinite
      <3> HIDE DEF InUse
      <3>3. Cardinality(InUse(l)) = Cardinality(InUse(os)) + 1
        BY <3>1, <3>2, FS_AddElement
      <3>4. l.freeQs \in Nat /\ l.freeQs + Cardinality(InUse(l)) = os.freeQs + Cardinality(InUse(os))
        BY <1>10, <2>1, <2>2, <3>2, <3>3
      <3> QED
        BY <1>13, <3>4 DEF Books, StocksKept, QsKept
    <2>3. CASE ~(os.freeQs > 0)
      BY <1>10, <1>13, <2>3 DEF Books, StocksKept, QsKept, InUse
    <2> QED
      BY <2>2, <2>3
  <1>18. \A f \in EventIds : StaysFair(os, l, f)
    <2>1. CASE os.freeQs > 0
      BY <1>10, <1>15, <2>1, EmptyMembers DEF StaysFair, Waiters
    <2>2. CASE ~(os.freeQs > 0)
      BY <1>10, <2>2 DEF StaysFair, Waiters
    <2> QED
      BY <2>1, <2>2
  <1>19. TypesStay
    BY <1>5, <1>10, <1>11, <1>13 DEF TypesStay
  <1>20. Books'
    BY <1>1, <1>11, <1>13, <1>14, <1>16, <1>17, <1>18, EventStockBooks DEF SameTasks, SameKinds, SameNodes
  <1> QED
    BY <1>19, <1>20 DEF Booked

(* The control block e goes back to the free list, a queue's buffer too.   *)
LEMMA FreedRest ==
  ASSUME NEW m, Shape(m), NEW e \in EventIds,
         NEW l, l = FreeEvent(m, e) \/ l = [FreeEvent(m, e) EXCEPT !.freeQs = @ + 1]
  PROVE  /\ l.mem = m.mem
         /\ l = FreeEvent(m, e) => l.freeQs = m.freeQs
         /\ l = [FreeEvent(m, e) EXCEPT !.freeQs = @ + 1] => l.freeQs = m.freeQs + 1
  <1> PICK k : k = FreeEvent(m, e)
    OBVIOUS
  <1>1. DOMAIN k = Fields /\ k.mem = m.mem /\ k.freeQs = m.freeQs
    BY DEF FreeEvent, Shape, Fields
  <1> QED
    BY <1>1 DEF Fields

(* A deletion has checked what it deletes. *)
LEMMA DelCaller ==
  ASSUME NEW c, AtTask(c), NEW type, NEW e, Checked(Event(type, e, TRUE)), NEW l, NEW steps, Leave(l, steps)
  PROVE  Deleting /\ e \in seen[os.cur].events
  BY DEF AtTask, Checked, Event, NothingSeen, Leave, Deleting

LEMMA EventDelBooks ==
  ASSUME Inv, Books, NEW c, AtTask(c), NEW e \in EventIds, Deleting, e \in seen[os.cur].events,
         NEW msk \in {"SEM", "MBOX", "Q"}, os.event[e].type = msk,
         NEW m, m = OS_EventTaskRdy(os, e, Waiters(os, e), None, msk, "OK"),
         NEW steps, steps = <<>> \/ steps = <<Sched>>,
         NEW l, \/ msk # "Q" /\ l = FreeEvent(m, e)
                \/ msk = "Q" /\ l = [FreeEvent(m, e) EXCEPT !.freeQs = @ + 1],
         Leave(l, steps)
  PROVE  Booked
  <1>1. Shape(os) /\ TInv /\ Data(os) /\ Core(os, Live, Waiting) /\ os.freeEvents \in Seq(EventIds)
    BY DataShape DEF Inv, TInv, Pools
  <1>2. Shape(m) /\ Inert(os, m) /\ Shrinks(os, m)
    BY <1>1, WakeInert
  <1>3. Data(m)
    <2>1. msk \in EventKinds /\ "OK" \in Answers /\ Waiters(os, e) \in SUBSET Waiters(os, e)
      BY DEF EventKinds, Answers
    <2>2. WakeDone(os, m, Live, Waiting, e, Waiters(os, e))
      BY <1>1, <2>1, WakeCore
    <2> QED
      BY <2>2 DEF WakeDone
  <1>4. /\ l.tcb = m.tcb /\ l.prioTbl = m.prioTbl /\ l.list = m.list /\ l.free = m.free
        /\ l.flag = m.flag /\ l.freeFlags = m.freeFlags
        /\ l.freeEvents = <<e>> \o m.freeEvents
        /\ (\A f \in EventIds : f # e => l.event[f] = m.event[f]) /\ l.event[e].type = "UNUSED"
    BY <1>3, FreedShape
  <1>5. /\ l.mem = m.mem
        /\ msk # "Q" => l.freeQs = m.freeQs
        /\ msk = "Q" => l.freeQs = m.freeQs + 1
    BY <1>2, FreedRest
  <1>6. SameTasks(os, l) /\ SameKinds(os, l) /\ SameNodes(os, l) /\ l.mem = os.mem
    BY <1>2, <1>4, <1>5 DEF Inert, Apart, Stable, SameTasks, SameKinds, SameNodes
  <1>7. isr = "none" /\ Waiting[os.cur] = Sched /\ At(os.cur) = "none"
    BY <1>1, TaskCaller
  <1>8. NextOp(steps) \in {"none", "OS_Sched"} /\ WaitOf(steps) = Sched
    BY StepForms
  <1>9. /\ os' = l /\ app' = app /\ FlagWaitsSame
        /\ \A op \in StockOps : op # At(os.cur) /\ op # NextOp(steps) => OpSame(op)
    BY <1>1, <1>6, <1>7, <1>8, RunnerSame DEF SameTasks
  <1>10. \A op \in StockOps : OpSame(op)
    BY <1>7, <1>8, <1>9 DEF StockOps, CreationOps
  <1>11. /\ m.freeEvents = os.freeEvents /\ m.freeQs = os.freeQs
         /\ \A f \in EventIds : m.event[f].type = os.event[f].type
    BY <1>2 DEF Inert, Apart, Stable, SameTypes
  <1>12. EventsKept'
    <2>1. ASSUME NEW f \in EventIds, l.event[f].type = "UNUSED"
          PROVE  OnList(l.freeEvents, f) \/ \E u \in TCBs : NextOp(pc'[u]) = "OSQCreate" /\ Head(pc'[u]).event = f
      <3>1. PICK s : s = <<e>> \o os.freeEvents
        OBVIOUS
      <3>2. \A x : OnList(s, x) <=> x = e \/ OnList(os.freeEvents, x)
        BY <1>1, <3>1, PushList
      <3>3. l.freeEvents = s
        BY <1>4, <1>11, <3>1
      <3>4. CASE f = e
        BY <3>2, <3>3, <3>4
      <3>5. CASE f # e
        <4>1. OnList(os.freeEvents, f) \/ \E u \in TCBs : At(u) = "OSQCreate" /\ Head(pc[u]).event = f
          BY <1>4, <1>11, <2>1, <3>5 DEF Books, StocksKept, EventsKept
        <4>2. CASE OnList(os.freeEvents, f)
          BY <3>2, <3>3, <4>2
        <4>3. CASE \E u \in TCBs : At(u) = "OSQCreate" /\ Head(pc[u]).event = f
          BY <1>10, <4>3 DEF OpSame, StockOps
        <4> QED
          BY <4>1, <4>2, <4>3
      <3> QED
        BY <3>4, <3>5
    <2> QED
      BY <1>9, <2>1 DEF EventsKept, At, NextOp
  <1>13. QsKept'
    <2>1. os.freeQs \in Nat
      BY DEF Books, StocksKept, QsKept
    <2>2. CASE msk = "Q"
      <3>1. InUse(l) = InUse(os) \ {e} /\ e \in InUse(os)
        BY <1>4, <1>11, <2>2 DEF InUse
      <3>2. IsFiniteSet(InUse(os)) /\ Cardinality(InUse(os)) \in Nat
        BY QueuesFinite
      <3> HIDE DEF InUse
      <3>3. Cardinality(InUse(l)) = Cardinality(InUse(os)) - 1
        BY <3>1, <3>2, FS_RemoveElement
      <3>4. l.freeQs \in Nat /\ l.freeQs + Cardinality(InUse(l)) = os.freeQs + Cardinality(InUse(os))
        BY <1>5, <1>11, <2>1, <2>2, <3>2, <3>3
      <3> QED
        BY <1>9, <3>4 DEF Books, StocksKept, QsKept
    <2>3. CASE msk # "Q"
      <3>1. InUse(l) = InUse(os)
        BY <1>4, <1>11, <2>3 DEF InUse
      <3> QED
        BY <1>5, <1>9, <1>11, <2>3, <3>1 DEF Books, StocksKept, QsKept
    <2> QED
      BY <2>2, <2>3
  <1>14. \A f \in EventIds : StaysFair(os, l, f)
    <2> SUFFICES ASSUME NEW f \in EventIds PROVE StaysFair(os, l, f)
      OBVIOUS
    <2>1. CASE f = e
      BY <1>4, <2>1 DEF StaysFair, HasSome
    <2>2. CASE f # e
      <3>1. StaysFair(os, m, f)
        BY <1>2, ShrinkFair DEF Inert
      <3> QED
        BY <1>4, <2>2, <3>1 DEF StaysFair, Waiters
    <2> QED
      BY <2>1, <2>2
  <1>15. TypesStay
    BY <1>4, <1>6, <1>9, <1>11 DEF TypesStay, SameKinds
  <1>16. Books'
    BY <1>1, <1>6, <1>9, <1>10, <1>12, <1>13, <1>14, EventStockBooks
  <1> QED
    BY <1>15, <1>16 DEF Booked

LEMMA DelsBooks ==
  ASSUME Inv, Books, NEW e \in EventIds, NEW always
  PROVE  /\ OSSemDel(e, always) => Booked
         /\ OSMboxDel(e, always) => Booked
         /\ OSQDel(e, always) => Booked
  <1> PICK steps : steps = IF HasWaiter(os, e) THEN <<Sched>> ELSE <<>>
    OBVIOUS
  <1>1. steps = <<>> \/ steps = <<Sched>>
    OBVIOUS
  <1>2. ASSUME OSSemDel(e, always) PROVE Booked
    <2>1. PICK m : m = OS_EventTaskRdy(os, e, Waiters(os, e), None, "SEM", "OK")
      OBVIOUS
    <2>2. PICK l : l = FreeEvent(m, e)
      OBVIOUS
    <2>3. AtTask("OSSemDel") /\ os.event[e].type = "SEM" /\ Leave(l, steps)
      BY <1>2, <2>1, <2>2 DEF OSSemDel, IsSem
    <2>4. Checked(Event("SEM", e, TRUE))
      BY <1>2 DEF OSSemDel, Sem
    <2>5. Deleting /\ e \in seen[os.cur].events
      BY <2>3, <2>4, DelCaller
    <2> QED
      BY <1>1, <2>1, <2>2, <2>3, <2>5, EventDelBooks
  <1>3. ASSUME OSMboxDel(e, always) PROVE Booked
    <2>1. PICK m : m = OS_EventTaskRdy(os, e, Waiters(os, e), None, "MBOX", "OK")
      OBVIOUS
    <2>2. PICK l : l = FreeEvent(m, e)
      OBVIOUS
    <2>3. AtTask("OSMboxDel") /\ os.event[e].type = "MBOX" /\ Leave(l, steps)
      BY <1>3, <2>1, <2>2 DEF OSMboxDel, IsMbox
    <2>4. Checked(Event("MBOX", e, TRUE))
      BY <1>3 DEF OSMboxDel, Mbox
    <2>5. Deleting /\ e \in seen[os.cur].events
      BY <2>3, <2>4, DelCaller
    <2> QED
      BY <1>1, <2>1, <2>2, <2>3, <2>5, EventDelBooks
  <1>4. ASSUME OSQDel(e, always) PROVE Booked
    <2>1. PICK m : m = OS_EventTaskRdy(os, e, Waiters(os, e), None, "Q", "OK")
      OBVIOUS
    <2>2. PICK l : l = [FreeEvent(m, e) EXCEPT !.freeQs = @ + 1]
      OBVIOUS
    <2>3. AtTask("OSQDel") /\ os.event[e].type = "Q" /\ Leave(l, steps)
      BY <1>4, <2>1, <2>2 DEF OSQDel, IsQ
    <2>4. Checked(Event("Q", e, TRUE))
      BY <1>4 DEF OSQDel, Q
    <2>5. Deleting /\ e \in seen[os.cur].events
      BY <2>3, <2>4, DelCaller
    <2> QED
      BY <1>1, <2>1, <2>2, <2>3, <2>5, EventDelBooks
  <1> QED
    BY <1>2, <1>3, <1>4

LEMMA EventBooks ==
  ASSUME KInv, Inv, Books, SemNext \/ MboxNext \/ QNext PROVE Booked
  <1>1. ASSUME NEW cnt, OSSemCreate(cnt) PROVE Booked
    <2>1. PICK u : u = NewSem(cnt)
      OBVIOUS
    <2>2. u.wait = EmptyTable /\ u.type \in {"SEM", "MBOX"}
      BY <2>1 DEF NewSem, UnusedEvent
    <2>3. AtTask("OSSemCreate") /\ os.freeEvents # <<>> /\ Leave(NewEvent(os, u), <<>>)
      BY <1>1, <2>1 DEF OSSemCreate
    <2> QED
      BY <2>2, <2>3, NewEventBooks
  <1>2. ASSUME NEW msg, OSMboxCreate(msg) PROVE Booked
    <2>1. PICK u : u = NewMbox(msg)
      OBVIOUS
    <2>2. u.wait = EmptyTable /\ u.type \in {"SEM", "MBOX"}
      BY <2>1 DEF NewMbox, UnusedEvent
    <2>3. AtTask("OSMboxCreate") /\ os.freeEvents # <<>> /\ Leave(NewEvent(os, u), <<>>)
      BY <1>2, <2>1 DEF OSMboxCreate
    <2> QED
      BY <2>2, <2>3, NewEventBooks
  <1>3. ASSUME OSSemPend_Return \/ OSMboxPend_Return \/ OSQPend_Return PROVE Booked
    <2>1. PICK E : E = {Now.event}
      OBVIOUS
    <2>2. Step("pend") /\ Proceed(EndPend(os, E))
      BY <1>3, <2>1 DEF OSSemPend_Return, OSMboxPend_Return, OSQPend_Return
    <2> QED
      BY <2>2, EndBooks DEF WaitOps
  <1>4. CASE SemNext
    <2>1. ASSUME NEW e \in EventIds, NEW always, OSSemDel(e, always) \/ OSSemPendAbort(e, always) PROVE Booked
      BY <2>1, SemBooks, DelsBooks
    <2>2. ASSUME NEW e \in EventIds, OSSemAccept(e) \/ OSSemPost(e) PROVE Booked
      BY <2>2, SemBooks
    <2>3. ASSUME NEW e \in EventIds, NEW timeout, OSSemPend(e, timeout) PROVE Booked
      BY <2>3, SemBooks
    <2>4. ASSUME NEW e \in EventIds, NEW cnt, OSSemSet(e, cnt) PROVE Booked
      BY <2>4, SemBooks
    <2> QED
      BY <1>1, <1>3, <1>4, <2>1, <2>2, <2>3, <2>4 DEF SemNext
  <1>5. CASE MboxNext
    <2>1. ASSUME NEW e \in EventIds, NEW all, OSMboxDel(e, all) \/ OSMboxPendAbort(e, all) PROVE Booked
      BY <2>1, MboxBooks, DelsBooks
    <2>2. ASSUME NEW e \in EventIds, OSMboxAccept(e) PROVE Booked
      BY <2>2, MboxBooks
    <2>3. ASSUME NEW e \in EventIds, NEW timeout, OSMboxPend(e, timeout) PROVE Booked
      BY <2>3, MboxBooks
    <2>4. ASSUME NEW e \in EventIds, NEW msg, OSMboxPost(e, msg) PROVE Booked
      BY <2>4, MboxBooks
    <2>5. ASSUME NEW e \in EventIds, NEW msg, NEW broadcast, NEW sched, OSMboxPostOpt(e, msg, broadcast, sched)
          PROVE  Booked
      BY <2>5, MboxBooks
    <2> QED
      BY <1>2, <1>3, <1>5, <2>1, <2>2, <2>3, <2>4, <2>5 DEF MboxNext
  <1>6. CASE QNext
    <2>1. ASSUME NEW e \in EventIds, NEW all, OSQDel(e, all) \/ OSQPendAbort(e, all) PROVE Booked
      BY <2>1, QBooks, DelsBooks
    <2>2. ASSUME NEW e \in EventIds, OSQAccept(e) \/ OSQFlush(e) PROVE Booked
      BY <2>2, QBooks
    <2>3. ASSUME NEW e \in EventIds, NEW timeout, OSQPend(e, timeout) PROVE Booked
      BY <2>3, QBooks
    <2>4. ASSUME NEW e \in EventIds, NEW msg, OSQPost(e, msg) \/ OSQPostFront(e, msg) PROVE Booked
      BY <2>4, QBooks
    <2>5. ASSUME NEW e \in EventIds, NEW msg, NEW broadcast, NEW front, NEW sched,
                 OSQPostOpt(e, msg, broadcast, front, sched)
          PROVE  Booked
      BY <2>5, QBooks
    <2> QED
      BY <1>3, <1>6, <2>1, <2>2, <2>3, <2>4, <2>5, QCreateBooks, QLinkBooks DEF QNext
  <1> QED
    BY <1>4, <1>5, <1>6

(***************************************************************************)
(* Memory partitions.                                                      *)
(***************************************************************************)
LEMMA MemStockBooks ==
  ASSUME TInv, Books, MemKept', NEW l, os' = l, DOMAIN os = Fields,
         \A f \in Fields \ {"mem"} : l[f] = os[f],
         \A op \in StockOps : op # "OSMemCreate" => OpSame(op), app' = app, FlagWaitsSame
  PROVE  Booked
  <1>1. l.tcb = os.tcb /\ l.flag = os.flag /\ l.event = os.event /\ l.list = os.list /\ l.free = os.free
        /\ l.prioTbl = os.prioTbl /\ l.freeFlags = os.freeFlags /\ l.freeQs = os.freeQs
        /\ l.freeEvents = os.freeEvents
    BY DEF Fields
  <1>2. SameTasks(os, os') /\ SameTypes(os, os') /\ SameKinds(os, os') /\ SameNodes(os, os')
    BY <1>1 DEF SameTasks, SameTypes, SameKinds, SameNodes
  <1>3. TasksKept' /\ EventsKept' /\ QsKept' /\ GroupsKept'
    BY <1>2, TasksKeep, EventsKeep, GroupsKeep DEF Books, StocksKept, StockOps, CreationOps
  <1>4. NoneWaits'
    BY <1>1 DEF Books, NoneWaits, Waiters
  <1>5. Live \subseteq TCBs /\ \A g \in FlagIds : os.flag[g].wait \subseteq TCBs
    BY DEF TInv, Core
  <1>6. FlagsKept'
    BY <1>2, <1>5, FlagsKeep DEF Books, SameNodes, SameNode
  <1>7. NobodyServed => NobodyServed'
    BY <1>1 DEF NobodyServed
  <1> QED
    BY <1>1, <1>3, <1>4, <1>6, <1>7 DEF Booked, Books, StocksKept, TypesStay

LEMMA CreatingFinite == IsFiniteSet(Creating) /\ Cardinality(Creating) \in Nat
  <1>1. IsFiniteSet(TCBs)
    BY FS_Interval, SizesAssumption DEF TCBs
  <1>2. Creating \in SUBSET TCBs
    BY DEF Creating
  <1> HIDE DEF Creating
  <1>3. IsFiniteSet(Creating)
    BY <1>1, <1>2, FS_Subset
  <1> QED
    BY <1>3, FS_CardinalityType

LEMMA MemCreateBooks ==
  ASSUME Inv, Books, OSMemCreate PROVE Booked
  <1>1. Shape(os) /\ TInv /\ MemKept /\ AtTask("OSMemCreate") /\ os.mem.headers > 0
    BY DataShape DEF Inv, TInv, Books, StocksKept, OSMemCreate
  <1>2. PICK m : m = [os.mem EXCEPT !.headers = @ - 1]
    OBVIOUS
  <1>3. PICK l : l = [os EXCEPT !.mem = m]
    OBVIOUS
  <1>4. PICK steps : steps = <<[op |-> "OSMemCreate"]>>
    OBVIOUS
  <1>5. Leave(l, steps)
    BY <1>1, <1>2, <1>3, <1>4 DEF OSMemCreate, Shape, Fields
  <1>6. (\A f \in Fields \ {"mem"} : l[f] = os[f]) /\ l.mem = m /\ DOMAIN os = Fields
    BY <1>1, <1>3 DEF Shape, Fields
  <1>7. l.tcb = os.tcb /\ l.list = os.list
    BY <1>6 DEF Fields
  <1>8. isr = "none" /\ Waiting[os.cur] = Sched /\ At(os.cur) = "none" /\ os.cur \in TCBs
    BY <1>1, TaskCaller
  <1>9. NextOp(steps) = "OSMemCreate" /\ WaitOf(steps) = Sched
    BY <1>4 DEF NextOp, WaitOf, WaitOps
  <1>10. /\ os' = l /\ app' = app /\ FlagWaitsSame
         /\ \A op \in StockOps : op # At(os.cur) /\ op # NextOp(steps) => OpSame(op)
         /\ NextOp(pc'[os.cur]) = NextOp(steps)
         /\ \A u \in TCBs : u # os.cur => NextOp(pc'[u]) = At(u)
    BY <1>1, <1>5, <1>7, <1>8, <1>9, RunnerSame
  <1>11. \A op \in StockOps : op # "OSMemCreate" => OpSame(op)
    BY <1>8, <1>9, <1>10 DEF StockOps, CreationOps
  <1>12. PICK c : c = os.cur
    OBVIOUS
  <1>13. Creating' = Creating \cup {c} /\ c \notin Creating
    <2>1. Creating' = {u \in TCBs : NextOp(pc'[u]) = "OSMemCreate"}
      BY DEF Creating, At, NextOp
    <2> QED
      BY <1>8, <1>9, <1>10, <1>12, <2>1 DEF Creating
  <1>14. MemKept'
    <2> PICK N : N = Creating'
      OBVIOUS
    <2>1. Cardinality(Creating') = Cardinality(Creating) + 1 /\ Cardinality(Creating) \in Nat
      <3>1. IsFiniteSet(Creating) /\ Cardinality(Creating) \in Nat
        BY CreatingFinite
      <3>2. N = Creating \cup {c} /\ c \notin Creating
        BY <1>13
      <3> HIDE DEF Creating
      <3>3. Cardinality(N) = Cardinality(Creating) + 1
        BY <3>1, <3>2, FS_AddElement
      <3> QED
        BY <3>1, <3>3
    <2>2. /\ DOMAIN m = {"headers", "parts"} /\ m.headers = os.mem.headers - 1 /\ m.parts = os.mem.parts
          /\ os.mem.headers \in Nat
      BY <1>1, <1>2 DEF MemKept, MemOK
    <2>3. MemOK(m)
      BY <1>1, <2>2 DEF MemKept, MemOK
    <2>4. Len(m.parts) \in Nat
      BY <2>3 DEF MemOK
    <2>5. PICK h \in Nat, n \in Nat, k \in Nat :
            h = os.mem.headers /\ n = Len(os.mem.parts) /\ k = Cardinality(Creating)
      BY <2>1, <2>2, <2>4
    <2>6. h + n + k = app.mem
      BY <1>1, <2>5 DEF MemKept
    <2>7. m.headers + Len(m.parts) + (Cardinality(Creating) + 1) = app.mem
      <3>1. (h - 1) + n + (k + 1) = h + n + k
        OBVIOUS
      <3> QED
        BY <2>2, <2>5, <2>6, <3>1
    <2> QED
      BY <1>6, <1>10, <2>1, <2>3, <2>7 DEF MemKept
  <1> QED
    BY <1>1, <1>6, <1>10, <1>11, <1>14, MemStockBooks

LEMMA PartitionOK == PartOK(Partition)
  <1> PICK part : part = Partition
    OBVIOUS
  <1>1. part.free = [i \in Blocks |-> i] /\ part.nFree = OSMemNBlks /\ part.held = {}
        /\ part = [free |-> part.free, nFree |-> part.nFree, held |-> part.held]
    BY DEF Partition
  <1>2. part.free \in Seq(Blocks) /\ Len(part.free) = OSMemNBlks /\ DOMAIN part.free = Blocks
    BY <1>1, BlocksAssumption DEF Blocks
  <1>3. \A i \in DOMAIN part.free : part.free[i] = i
    BY <1>1
  <1>4. Distinct(part.free) /\ \A b \in Blocks : OnList(part.free, b)
    BY <1>2, <1>3 DEF Distinct, OnList
  <1>5. part \in [free : Seq(Blocks), nFree : Nat, held : SUBSET Blocks]
    BY <1>1, <1>2, BlocksAssumption
  <1>6. PartOK(part)
    BY <1>1, <1>2, <1>4, <1>5 DEF PartOK
  <1> QED
    BY <1>6

LEMMA MemLinkBooks ==
  ASSUME Inv, Books, OSMemCreate_Link PROVE Booked
  <1>1. Shape(os) /\ TInv /\ MemKept /\ Step("OSMemCreate")
    BY DataShape DEF Inv, TInv, Books, StocksKept, OSMemCreate_Link
  <1>2. PICK part : part = Partition
    OBVIOUS
  <1>3. PICK s : s = Append(os.mem.parts, part)
    OBVIOUS
  <1>4. PICK m : m = [os.mem EXCEPT !.parts = s]
    OBVIOUS
  <1>5. PICK l : l = [os EXCEPT !.mem = m]
    OBVIOUS
  <1>6. Leave(l, <<>>)
    BY <1>1, <1>2, <1>3, <1>4, <1>5 DEF OSMemCreate_Link, Shape, Fields
  <1>7. (\A f \in Fields \ {"mem"} : l[f] = os[f]) /\ l.mem = m /\ DOMAIN os = Fields
    BY <1>1, <1>5 DEF Shape, Fields
  <1>8. l.list = os.list
    BY <1>7 DEF Fields
  <1>9. /\ isr = "none" /\ At(os.cur) = "OSMemCreate" /\ os.cur \in TCBs /\ Steps(pc[os.cur])
        /\ NextOp(pc[os.cur]) = "OSMemCreate" /\ Waiting[os.cur] = WaitOf(pc[os.cur])
    BY <1>1, StepCaller
  <1>10. Waiting[os.cur] = Sched /\ NextOp(<<>>) = "none" /\ WaitOf(<<>>) = Sched
    BY <1>9, NextStep, StepForms
  <1>11. /\ os' = l /\ app' = app /\ FlagWaitsSame
         /\ \A op \in StockOps : op # At(os.cur) /\ op # NextOp(<<>>) => OpSame(op)
         /\ NextOp(pc'[os.cur]) = NextOp(<<>>)
         /\ \A u \in TCBs : u # os.cur => NextOp(pc'[u]) = At(u)
    BY <1>1, <1>6, <1>8, <1>9, <1>10, RunnerSame
  <1>12. \A op \in StockOps : op # "OSMemCreate" => OpSame(op)
    BY <1>9, <1>10, <1>11 DEF StockOps, CreationOps
  <1>13. PICK c : c = os.cur
    OBVIOUS
  <1>14. Creating' = Creating \ {c} /\ c \in Creating
    <2>1. Creating' = {u \in TCBs : NextOp(pc'[u]) = "OSMemCreate"}
      BY DEF Creating, At, NextOp
    <2> QED
      BY <1>9, <1>10, <1>11, <1>13, <2>1 DEF Creating
  <1>15. MemKept'
    <2> PICK N : N = Creating'
      OBVIOUS
    <2>1. Cardinality(Creating') = Cardinality(Creating) - 1 /\ Cardinality(Creating) \in Nat
      <3>1. IsFiniteSet(Creating) /\ Cardinality(Creating) \in Nat
        BY CreatingFinite
      <3>2. N = Creating \ {c} /\ c \in Creating
        BY <1>14
      <3> HIDE DEF Creating
      <3>3. Cardinality(N) = Cardinality(Creating) - 1
        BY <3>1, <3>2, FS_RemoveElement
      <3> QED
        BY <3>1, <3>3
    <2>2. PartOK(part) /\ part \in [free : Seq(Blocks), nFree : Nat, held : SUBSET Blocks]
      BY <1>2, PartitionOK DEF PartOK
    <2>3. /\ os.mem.parts \in Seq([free : Seq(Blocks), nFree : Nat, held : SUBSET Blocks])
          /\ \A i \in DOMAIN os.mem.parts : PartOK(os.mem.parts[i])
          /\ DOMAIN os.mem = {"headers", "parts"} /\ os.mem.headers \in Nat
      BY <1>1 DEF MemKept, MemOK
    <2>4. m.headers = os.mem.headers /\ m.parts = s /\ DOMAIN m = {"headers", "parts"}
      BY <1>4, <2>3
    <2> DEFINE P == [free : Seq(Blocks), nFree : Nat, held : SUBSET Blocks]
    <2>5. os.mem.parts \in Seq(P) /\ part \in P
      BY <2>2, <2>3
    <2> HIDE DEF P
    <2>6. /\ s \in Seq(P) /\ Len(s) = Len(os.mem.parts) + 1 /\ Len(os.mem.parts) \in Nat
          /\ \A i \in DOMAIN s : s[i] = IF i \in DOMAIN os.mem.parts THEN os.mem.parts[i] ELSE part
      BY <1>3, <2>5
    <2>7. \A i \in DOMAIN s : PartOK(s[i])
      BY <2>2, <2>3, <2>6
    <2>8. MemOK(m)
      BY <2>3, <2>4, <2>6, <2>7 DEF MemOK, P
    <2>9. PICK h \in Nat, n \in Nat, k \in Nat :
            h = os.mem.headers /\ n = Len(os.mem.parts) /\ k = Cardinality(Creating)
      BY <2>1, <2>3, <2>6
    <2>10. h + n + k = app.mem
      BY <1>1, <2>9 DEF MemKept
    <2>11. m.headers + Len(m.parts) + (Cardinality(Creating) - 1) = app.mem
      <3>1. h + (n + 1) + (k - 1) = h + n + k
        OBVIOUS
      <3> QED
        BY <2>4, <2>6, <2>9, <2>10, <3>1
    <2> QED
      BY <1>7, <1>11, <2>1, <2>8, <2>11 DEF MemKept
  <1> QED
    BY <1>1, <1>7, <1>11, <1>12, <1>15, MemStockBooks

(* A block is taken from or given back to partition p. *)
LEMMA PartBooks ==
  ASSUME KInv, Inv, Books, NEW c, Anywhere(c), NEW p \in DOMAIN os.mem.parts, NEW np, PartOK(np),
         Leave([os EXCEPT !.mem.parts[p] = np], <<>>)
  PROVE  Booked
  <1>1. Shape(os) /\ TInv /\ MemKept
    BY DataShape DEF Inv, TInv, Books, StocksKept
  <1>2. PICK s : s = [os.mem.parts EXCEPT ![p] = np]
    OBVIOUS
  <1>3. PICK m : m = [os.mem EXCEPT !.parts = s]
    OBVIOUS
  <1>4. PICK l : l = [os EXCEPT !.mem = m]
    OBVIOUS
  <1>5. /\ os.mem.parts \in Seq([free : Seq(Blocks), nFree : Nat, held : SUBSET Blocks])
        /\ \A i \in DOMAIN os.mem.parts : PartOK(os.mem.parts[i])
        /\ DOMAIN os.mem = {"headers", "parts"} /\ os.mem.headers \in Nat
    BY <1>1 DEF MemKept, MemOK
  <1>6. Leave(l, <<>>)
    BY <1>1, <1>2, <1>3, <1>4, <1>5 DEF Shape, Fields
  <1>7. (\A f \in Fields \ {"mem"} : l[f] = os[f]) /\ l.mem = m /\ DOMAIN os = Fields
    BY <1>1, <1>4 DEF Shape, Fields
  <1>8. l.list = os.list
    BY <1>7 DEF Fields
  <1>9. NextOp(<<>>) = "none" /\ WaitOf(<<>>) = Sched /\ Sched.op # "flag"
        /\ NextOp(<<>>) \notin StockOps \cup {"OS_Dummy"}
    BY StepForms DEF StockOps, CreationOps, Sched
  <1>10. os' = l /\ app' = app /\ FlagWaitsSame /\ \A op \in StockOps : OpSame(op)
    BY <1>1, <1>6, <1>8, <1>9, CalledSame
  <1>11. MemKept'
    <2> DEFINE P == [free : Seq(Blocks), nFree : Nat, held : SUBSET Blocks]
    <2>1. os.mem.parts \in Seq(P) /\ np \in P
      BY <1>5 DEF PartOK
    <2> HIDE DEF P
    <2>2. /\ s \in Seq(P) /\ Len(s) = Len(os.mem.parts) /\ DOMAIN s = DOMAIN os.mem.parts
          /\ \A i \in DOMAIN s : s[i] = IF i = p THEN np ELSE os.mem.parts[i]
      BY <1>2, <2>1
    <2>3. m.headers = os.mem.headers /\ m.parts = s /\ DOMAIN m = {"headers", "parts"}
      BY <1>3, <1>5
    <2>4. \A i \in DOMAIN s : PartOK(s[i])
      BY <1>5, <2>2
    <2>5. MemOK(m)
      BY <1>5, <2>2, <2>3, <2>4 DEF MemOK, P
    <2>6. Creating' = Creating
      BY <1>10 DEF Creating, OpSame, StockOps, At, NextOp
    <2> QED
      BY <1>1, <1>7, <1>10, <2>2, <2>3, <2>5, <2>6 DEF MemKept
  <1> QED
    BY <1>1, <1>7, <1>10, <1>11, MemStockBooks

LEMMA MemGetBooks ==
  ASSUME KInv, Inv, Books, NEW p \in DOMAIN os.mem.parts, OSMemGet(p) PROVE Booked
  <1>1. PICK part : part = os.mem.parts[p]
    OBVIOUS
  <1>2. PICK np : np = [free |-> Tail(part.free), nFree |-> part.nFree - 1,
                        held |-> part.held \cup {Head(part.free)}]
    OBVIOUS
  <1>3. PartOK(part) /\ part.nFree > 0
    BY <1>1 DEF Books, StocksKept, MemKept, MemOK, OSMemGet
  <1>4. /\ part.free \in Seq(Blocks) /\ part.nFree \in Nat /\ part.held \subseteq Blocks
        /\ Distinct(part.free) /\ Len(part.free) = part.nFree
        /\ \A b \in Blocks : OnList(part.free, b) <=> b \notin part.held
    BY <1>3 DEF PartOK
  <1>5. part.free # <<>>
    BY <1>3, <1>4
  <1>6. PICK h, r : h = Head(part.free) /\ r = Tail(part.free)
    OBVIOUS
  <1>7. h \in Blocks /\ r \in Seq(Blocks) /\ Len(r) = part.nFree - 1
        /\ \A y : OnList(part.free, y) <=> y = h \/ OnList(r, y)
    BY <1>4, <1>5, <1>6, PopList
  <1>8. Distinct(r) /\ ~OnList(r, h)
    BY <1>4, <1>5, <1>6, TailFree DEF OnList
  <1>9. np.free = r /\ np.nFree = part.nFree - 1 /\ np.held = part.held \cup {h}
        /\ np \in [free : Seq(Blocks), nFree : Nat, held : SUBSET Blocks]
    BY <1>2, <1>3, <1>4, <1>6, <1>7
  <1>10. PartOK(np)
    BY <1>4, <1>7, <1>8, <1>9 DEF PartOK
  <1>11. Anywhere("OSMemGet") /\ Leave([os EXCEPT !.mem.parts[p] = np], <<>>)
    BY <1>1, <1>2 DEF OSMemGet
  <1> QED
    BY <1>10, <1>11, PartBooks

LEMMA MemPutBooks ==
  ASSUME KInv, Inv, Books, NEW p \in DOMAIN os.mem.parts, NEW b \in Blocks, OSMemPut(p, b) PROVE Booked
  <1>1. PICK part : part = os.mem.parts[p]
    OBVIOUS
  <1>2. PICK np : np = [free |-> <<b>> \o part.free, nFree |-> part.nFree + 1, held |-> part.held \ {b}]
    OBVIOUS
  <1>3. PartOK(part) /\ b \in part.held
    BY <1>1 DEF Books, StocksKept, MemKept, MemOK, OSMemPut
  <1>4. /\ part.free \in Seq(Blocks) /\ part.nFree \in Nat /\ part.held \subseteq Blocks
        /\ Distinct(part.free) /\ Len(part.free) = part.nFree
        /\ \A x \in Blocks : OnList(part.free, x) <=> x \notin part.held
    BY <1>3 DEF PartOK
  <1>5. PICK r : r = <<b>> \o part.free
    OBVIOUS
  <1>6. r \in Seq(Blocks) /\ Len(r) = part.nFree + 1 /\ \A y : OnList(r, y) <=> y = b \/ OnList(part.free, y)
    BY <1>4, <1>5, PushList
  <1>7. Distinct(r)
    <2>1. \A i \in DOMAIN part.free : part.free[i] # b
      BY <1>3, <1>4 DEF OnList
    <2> QED
      BY <1>4, <1>5, <2>1, PushFree
  <1>8. np.free = r /\ np.nFree = part.nFree + 1 /\ np.held = part.held \ {b}
        /\ np \in [free : Seq(Blocks), nFree : Nat, held : SUBSET Blocks]
    BY <1>2, <1>4, <1>5, <1>6
  <1>9. PartOK(np)
    BY <1>3, <1>4, <1>6, <1>7, <1>8 DEF PartOK
  <1>10. Anywhere("OSMemPut") /\ Leave([os EXCEPT !.mem.parts[p] = np], <<>>)
    BY <1>1, <1>2 DEF OSMemPut
  <1> QED
    BY <1>9, <1>10, PartBooks

LEMMA MemBooks ==
  ASSUME KInv, Inv, Books, MemNext PROVE Booked
  BY MemCreateBooks, MemLinkBooks, MemGetBooks, MemPutBooks DEF MemNext

(* Nobody calls a service of mutexes.                                      *)
LEMMA MutexBooks ==
  ASSUME Ruled, Inv, Books, MutexNext PROVE Booked
  <1>1. /\ \A e \in EventIds : ~IsMutex(e)
        /\ "OSMutexCreate" \notin app.calls
    BY DEF Ruled, UsesMutexes, Inv, Rules, NoMutex, IsMutex
  <1>2. ~ \E pip \in Prios : OSMutexCreate(pip)
    BY <1>1 DEF OSMutexCreate, AtTask
  <1>3. ASSUME NEW e \in EventIds
        PROVE  /\ \A always \in BOOLEAN : ~OSMutexDel(e, always)
               /\ ~OSMutexAccept(e) /\ ~OSMutexPost(e)
               /\ \A timeout \in Timeouts : ~OSMutexPend(e, timeout)
    BY <1>1, Zenon DEF OSMutexDel, OSMutexAccept, OSMutexPost, OSMutexPend
  <1>4. OSMutexPend_Return
    BY <1>2, <1>3, Zenon DEF MutexNext
  <1> DEFINE E == {Now.event}
  <1>5. Step("pend") /\ Proceed(EndPend(os, E))
    BY <1>4 DEF OSMutexPend_Return
  <1> HIDE DEF E
  <1> QED
    BY <1>5, EndBooks DEF WaitOps

LEMMA SameBooks ==
  ASSUME Inv, Books, UNCHANGED <<os, isr, pc, app>> PROVE Booked
  <1>1. os' = os /\ pc' = pc /\ app' = app
    OBVIOUS
  <1>2. Waiting' = Waiting /\ Live' = Live
    BY <1>1 DEF Waiting, Live, BeingDeleted
  <1>3. \A op \in StockOps : OpSame(op)
    BY <1>1, AtNext DEF OpSame
  <1>4. FlagWaitsSame /\ TInv
    BY <1>2 DEF FlagWaitsSame, Inv
  <1>5. \A e \in EventIds : StaysFair(os, os', e)
    BY <1>1 DEF StaysFair, Waiters
  <1> QED
    BY <1>1, <1>3, <1>4, <1>5, BooksKeep DEF Stable, SameTasks, SameTypes, SameKinds, SameNodes

LEMMA StepBooks ==
  ASSUME Ruled, ~PrioChangeOfWoken, KInv, Inv, Books, Inv', [Next]_vars PROVE Booked
  <1>1. CASE OSStart \/ IntNext \/ OS_Sched \/ OSSchedLock \/ OSSchedUnlock
    BY <1>1, StartBooks, IntBooks, SchedBooks, LockBooks
  <1>2. CASE TaskNext
    BY <1>2, TaskBooks
  <1>3. CASE SemNext \/ MboxNext \/ QNext \/ MultiNext
    BY <1>3, EventBooks, MultiBooks
  <1>4. CASE FlagNext \/ MutexNext \/ MemNext
    BY <1>4, FlagBooks, MutexBooks, MemBooks
  <1>5. CASE CheckNext \/ UNCHANGED vars
    <2>1. UNCHANGED <<os, isr, pc, app>>
      BY <1>5, CheckStutters DEF vars
    <2> QED
      BY <2>1, SameBooks
  <1> QED
    BY <1>1, <1>2, <1>3, <1>4, <1>5, Zenon DEF Next

(***************************************************************************)
(* What main leaves is in order.                                           *)
(***************************************************************************)
LEMMA FreeFromAll ==
  ASSUME NEW n \in Nat, NEW size \in Nat, n <= size, NEW x \in n .. size - 1
  PROVE  OnList(FreeFrom(n, size), x)
  <1> DEFINE f == FreeFrom(n, size)
  <1>1. DOMAIN f = 1 .. size - n /\ \A i \in DOMAIN f : f[i] = n + i - 1
    BY DEF FreeFrom
  <1>2. x - n + 1 \in DOMAIN f /\ f[x - n + 1] = x
    BY <1>1
  <1> HIDE DEF f
  <1>3. OnList(f, x)
    BY <1>2 DEF OnList
  <1> QED
    BY <1>3 DEF f

LEMMA InitBooks ==
  ASSUME Ruled, Init PROVE Books
  <1>1. /\ app \in Profiles /\ Supported(app) /\ ~UsesMutexes(app)
        /\ os = InitOS /\ pc = [t \in TCBs |-> <<>>]
    BY DEF Ruled, Init
  <1>2. /\ app.tasks \in Seq(Prios \ {OS_TASK_IDLE_PRIO}) /\ Len(app.tasks) <= OS_MAX_TASKS
        /\ app.freeQs \in Nat /\ app.mem \in Nat
    BY <1>1 DEF Supported
  <1>3. /\ os.prioTbl = InitPrioTbl /\ os.list = {Idle} \cup AppTasks
        /\ os.event = InitEvents /\ os.flag = InitFlags
        /\ os.free = FreeFrom(Len(app.tasks) + 1, OS_MAX_TASKS + 1)
        /\ os.freeEvents = FreeFrom(Cardinality(DOMAIN app.events), OS_MAX_EVENTS)
        /\ os.freeFlags = FreeFrom(Cardinality(DOMAIN app.flags), OS_MAX_FLAGS)
        /\ os.freeQs = app.freeQs /\ os.mem = InitMem
    BY <1>1 DEF InitOS
  <1>4. PICK n \in 0 .. OS_MAX_EVENTS : DOMAIN app.events = 0 .. n - 1
    BY <1>1 DEF Supported
  <1>5. PICK m \in 0 .. OS_MAX_FLAGS : DOMAIN app.flags = 0 .. m - 1
    BY <1>1 DEF Supported
  <1>6. Cardinality(DOMAIN app.events) = n /\ Cardinality(DOMAIN app.flags) = m
    BY <1>4, <1>5, SizesAssumption, FS_Interval
  <1>7. \A t \in TCBs : At(t) = "none" /\ Waiting[t] = Sched
    <2>1. \A t \in TCBs : pc[t] = <<>>
      BY <1>1
    <2> QED
      BY <2>1 DEF At, Waiting, WaitOf
  <1>8. \A e \in DOMAIN app.events : app.events[e].type \in {"SEM", "MBOX", "Q"}
                                     /\ app.events[e].wait = EmptyTable
    <2>1. DOMAIN UnusedEvent = ECBFields
      BY DEF UnusedEvent, ECBFields
    <2>2. /\ \A cnt : NewSem(cnt).type = "SEM"
          /\ \A msg : NewMbox(msg).type = "MBOX"
          /\ NewQ.type = "Q"
          /\ \A pip : NewMutex(pip).type = "MUTEX"
      BY <2>1 DEF NewSem, NewMbox, NewQ, NewMutex, ECBFields
    <2>3. \A e \in DOMAIN app.events : app.events[e].type \in {"SEM", "MBOX", "Q", "MUTEX"}
      BY <1>1, <2>2 DEF Supported, FirstEvents
    <2> QED
      BY <1>1, <2>3, ProfilesAssumption DEF UsesMutexes
  <1>9. \A e \in EventIds : /\ os.event[e].wait = EmptyTable
                            /\ e \in DOMAIN app.events => os.event[e] = app.events[e]
                            /\ e \notin DOMAIN app.events => os.event[e].type = "UNUSED"
    <2>1. UnusedEvent.wait = EmptyTable /\ UnusedEvent.type = "UNUSED"
      BY DEF UnusedEvent
    <2>2. \A e \in EventIds : os.event[e] = IF e \in DOMAIN app.events THEN app.events[e] ELSE UnusedEvent
      BY <1>3 DEF InitEvents
    <2> QED
      BY <1>8, <2>1, <2>2
  <1>10. \A g \in FlagIds : /\ os.flag[g].wait = {} /\ os.flag[g].type \in {"UNUSED", "FLAG"}
                            /\ os.flag[g].type = "UNUSED" => g \notin DOMAIN app.flags
    <2>1. UnusedFlag.wait = {} /\ UnusedFlag.type = "UNUSED"
      BY DEF UnusedFlag
    <2>2. \A g \in DOMAIN app.flags : app.flags[g].wait = {} /\ app.flags[g].type = "FLAG"
      BY <1>1 DEF Supported, NewFlag
    <2>3. \A g \in FlagIds : os.flag[g] = IF g \in DOMAIN app.flags THEN app.flags[g] ELSE UnusedFlag
      BY <1>3 DEF InitFlags
    <2> QED
      BY <2>1, <2>2, <2>3
  <1>11. TasksKept
    <2>1. ASSUME NEW t \in TCBs \ os.list PROVE OnList(os.free, t)
      <3>1. Len(app.tasks) + 1 \in Nat /\ OS_MAX_TASKS + 1 \in Nat /\ Len(app.tasks) + 1 <= OS_MAX_TASKS + 1
            /\ Len(app.tasks) \in Nat
        BY <1>2, SizesAssumption
      <3>2. t \in Len(app.tasks) + 1 .. (OS_MAX_TASKS + 1) - 1
        BY <1>3, <3>1, SizesAssumption DEF AppTasks, TCBs, Idle
      <3> PICK k \in Nat, size \in Nat : k = Len(app.tasks) + 1 /\ size = OS_MAX_TASKS + 1
        BY <3>1
      <3> QED
        BY <1>3, <3>1, <3>2, FreeFromAll
    <2>2. ASSUME NEW p \in Prios PROVE os.prioTbl[p] # Reserved
      <3>1. AppTasks \subseteq TCBs /\ Idle \in TCBs
        BY <1>2, SizesAssumption DEF AppTasks, TCBs, Idle
      <3>2. InitPrioTbl[p] \in TCBs \cup {None}
        <4>1. CASE p = OS_TASK_IDLE_PRIO
          BY <3>1, <4>1 DEF InitPrioTbl
        <4>2. CASE p # OS_TASK_IDLE_PRIO /\ \E t \in AppTasks : app.tasks[t] = p
          BY <3>1, <4>2 DEF InitPrioTbl
        <4>3. CASE p # OS_TASK_IDLE_PRIO /\ ~ \E t \in AppTasks : app.tasks[t] = p
          BY <1>8, <4>3 DEF InitPrioTbl
        <4> QED
          BY <4>1, <4>2, <4>3
      <3> QED
        BY <1>3, <3>2, NullAssumption
    <2> QED
      BY <2>1, <2>2 DEF TasksKept
  <1>12. EventsKept
    <2> SUFFICES ASSUME NEW e \in EventIds, os.event[e].type = "UNUSED" PROVE OnList(os.freeEvents, e)
      BY DEF EventsKept
    <2>1. n \in Nat /\ OS_MAX_EVENTS \in Nat /\ n <= OS_MAX_EVENTS
      BY <1>4, SizesAssumption
    <2>2. e \in n .. OS_MAX_EVENTS - 1
      BY <1>4, <1>8, <1>9, <2>1 DEF EventIds
    <2> QED
      BY <1>3, <1>6, <2>1, <2>2, FreeFromAll
  <1>13. GroupsKept
    <2> SUFFICES ASSUME NEW g \in FlagIds, os.flag[g].type = "UNUSED" PROVE OnList(os.freeFlags, g)
      BY <1>10 DEF GroupsKept
    <2>1. m \in Nat /\ OS_MAX_FLAGS \in Nat /\ m <= OS_MAX_FLAGS
      BY <1>5, SizesAssumption
    <2>2. g \in m .. OS_MAX_FLAGS - 1
      BY <1>5, <1>10, <2>1 DEF FlagIds
    <2> QED
      BY <1>3, <1>6, <2>1, <2>2, FreeFromAll
  <1>14. QsKept
    <2>1. DOMAIN app.events \subseteq EventIds
      BY <1>4, SizesAssumption DEF EventIds
    <2>2. InUse(os) = {e \in DOMAIN app.events : app.events[e].type = "Q"}
      BY <1>9, <2>1 DEF InUse
    <2> QED
      BY <1>2, <1>3, <2>2 DEF QsKept
  <1>15. MemKept
    <2>1. Creating = {}
      BY <1>7 DEF Creating
    <2>2. DOMAIN os.mem = {"headers", "parts"} /\ os.mem.headers = app.mem /\ os.mem.parts = <<>>
      BY <1>3 DEF InitMem
    <2>3. MemOK(os.mem)
      BY <1>2, <2>2 DEF MemOK
    <2> PICK h \in Nat : h = app.mem
      BY <1>2
    <2>4. h + 0 + 0 = h
      OBVIOUS
    <2>5. os.mem.headers + Len(os.mem.parts) + Cardinality(Creating) = app.mem
      BY <2>1, <2>2, <2>4, FS_EmptySet
    <2> QED
      BY <2>3, <2>5 DEF MemKept
  <1>16. NoneWaits
    BY <1>9, EmptyMembers DEF NoneWaits, Waiters
  <1>17. FlagsKept
    <2>1. Live \subseteq TCBs
      BY InitInv DEF Inv, TInv, Core
    <2> QED
      BY <1>7, <2>1 DEF FlagsKept, Sched
  <1>18. NobodyServed
    BY <1>10 DEF NobodyServed
  <1> QED
    BY <1>11, <1>12, <1>13, <1>14, <1>15, <1>16, <1>17, <1>18 DEF Books, StocksKept

(***************************************************************************)
(* What the invariants say together.                                       *)
(***************************************************************************)
LEMMA AtUnder == \A op \in StockOps \cup {"flag"} : Under(op) = {t \in TCBs : At(t) = op}
  BY DEF Under, At, StockOps, CreationOps

LEMMA BooksLost ==
  ASSUME Ruled, Inv, Books PROVE NothingLost
  <1>1. TInv /\ Lists /\ Creations /\ Pools /\ NoMutex(os) /\ \A t \in TCBs : Steps(pc[t]) /\ At(t) = NextOp(pc[t])
    BY AtNext DEF Inv, Rules, TInv
  <1>2. /\ Under("link") = {t \in TCBs : At(t) = "link"}
        /\ Under("OSQCreate") = {t \in TCBs : At(t) = "OSQCreate"}
        /\ Under("OSMemCreate") = Creating
        /\ Under("OS_TCBInit") \cup Under("link") \cup Under("rollback") = {t \in TCBs : At(t) \in CreationOps}
    BY AtUnder DEF StockOps, CreationOps, Creating
  <1>3. Distinct(os.free) /\ Distinct(os.freeEvents) /\ Distinct(os.freeFlags)
    BY <1>1 DEF Creations, Pools
  <1>4. \A s, x : x \in Elements(s) <=> OnList(s, x)
    BY DEF Elements, OnList
  <1>5. \A x : x \in InCreation <=> \E t \in TCBs : At(t) = "link" /\ x = Head(pc[t]).tcb
    BY <1>2 DEF InCreation
  <1>6. Elements(os.free) \subseteq TCBs \ os.list
    BY <1>1, <1>4 DEF Creations, OnList
  <1>7. InCreation \subseteq TCBs \ os.list
    BY <1>1, <1>5 DEF Creations
  <1>8. Elements(os.free) \cup InCreation = TCBs \ os.list
    <2>1. \A t \in TCBs \ os.list : t \in Elements(os.free) \/ t \in InCreation
      BY <1>4, <1>5 DEF Books, StocksKept, TasksKept
    <2> QED
      BY <1>6, <1>7, <2>1
  <1>9. Elements(os.free) \cap InCreation = {}
    BY <1>1, <1>4, <1>5 DEF Creations, OnList
  <1>10. \A p \in Prios : \A t \in TCBs : os.prioTbl[p] = t => t \in os.list /\ os.tcb[t].prio = p
    BY <1>1 DEF Lists, Ruled, Inv, Rules
  <1>11. \A t \in os.list : os.prioTbl[os.tcb[t].prio] = t
    BY <1>1 DEF Lists
  <1>12. ReservedPrios = {Head(pc[t]).prio : t \in {u \in TCBs : At(u) \in CreationOps}}
    <2>1. {f \in EventIds : IsMutex(f)} = {}
      BY <1>1 DEF NoMutex, IsMutex
    <2> QED
      BY <1>2, <2>1 DEF ReservedPrios
  <1>13. \A p \in Prios : os.prioTbl[p] = Reserved => p \in ReservedPrios
    BY <1>12 DEF Books, StocksKept, TasksKept
  <1>14. \A p \in ReservedPrios : os.prioTbl[p] # None
    BY <1>1, <1>12, NullAssumption DEF Creations
  <1>15. Elements(os.freeEvents) = EventIds \ UsedEvents
    <2>1. \A e \in EventIds : e \in UsedEvents <=> \/ os.event[e].type # "UNUSED"
                                                   \/ \E t \in TCBs : At(t) = "OSQCreate" /\ e = Head(pc[t]).event
      BY <1>2 DEF UsedEvents
    <2>2. ASSUME NEW e \in Elements(os.freeEvents) PROVE e \in EventIds \ UsedEvents
      <3>1. PICK i \in DOMAIN os.freeEvents : os.freeEvents[i] = e
        BY <1>4, <2>2 DEF OnList
      <3>2. e \in EventIds /\ os.event[e].type = "UNUSED"
        BY <1>1, <3>1 DEF Pools
      <3>3. ASSUME NEW t \in TCBs, At(t) = "OSQCreate" PROVE e # Head(pc[t]).event
        BY <1>1, <3>1, <3>3 DEF Pools
      <3> QED
        BY <2>1, <3>2, <3>3
    <2>3. ASSUME NEW e \in EventIds, e \notin UsedEvents PROVE e \in Elements(os.freeEvents)
      <3>1. os.event[e].type = "UNUSED" /\ ~ \E t \in TCBs : At(t) = "OSQCreate" /\ Head(pc[t]).event = e
        BY <2>1, <2>3
      <3> QED
        BY <1>4, <3>1 DEF Books, StocksKept, EventsKept
    <2> QED
      BY <2>2, <2>3
  <1>16. os.freeQs + Cardinality({e \in EventIds : IsQ(e)})
           = app.freeQs + Cardinality({e \in DOMAIN app.events : app.events[e].type = "Q"})
    BY DEF Books, StocksKept, QsKept, InUse, IsQ
  <1>17. Elements(os.freeFlags) = {g \in FlagIds : ~IsFlag(g)}
    <2>1. ASSUME NEW g \in Elements(os.freeFlags) PROVE g \in FlagIds /\ ~IsFlag(g)
      BY <1>1, <1>4, <2>1 DEF Pools, OnList, IsFlag
    <2>2. ASSUME NEW g \in FlagIds, ~IsFlag(g) PROVE g \in Elements(os.freeFlags)
      BY <1>4, <2>2 DEF Books, StocksKept, GroupsKept, IsFlag
    <2> QED
      BY <2>1, <2>2
  <1>18. \A i \in DOMAIN os.mem.parts :
           /\ Distinct(os.mem.parts[i].free) /\ Len(os.mem.parts[i].free) = os.mem.parts[i].nFree
           /\ Elements(os.mem.parts[i].free) = Blocks \ os.mem.parts[i].held
    <2> SUFFICES ASSUME NEW i \in DOMAIN os.mem.parts
                 PROVE  /\ Distinct(os.mem.parts[i].free) /\ Len(os.mem.parts[i].free) = os.mem.parts[i].nFree
                        /\ Elements(os.mem.parts[i].free) = Blocks \ os.mem.parts[i].held
      OBVIOUS
    <2> PICK part : part = os.mem.parts[i]
      OBVIOUS
    <2>1. PartOK(part)
      BY DEF Books, StocksKept, MemKept, MemOK
    <2>2. part.free \in Seq(Blocks)
      BY <2>1 DEF PartOK
    <2>3. \A x : OnList(part.free, x) => x \in Blocks
      BY <2>2 DEF OnList
    <2>4. Elements(part.free) = Blocks \ part.held
      BY <1>4, <2>1, <2>3 DEF PartOK
    <2> QED
      BY <2>1, <2>4 DEF PartOK
  <1>19. os.mem.headers + Len(os.mem.parts) + Cardinality(Under("OSMemCreate")) = app.mem
    BY <1>2 DEF Books, StocksKept, MemKept
  <1> HIDE DEF Books, Inv
  <1>20. \A i \in DOMAIN os.mem.parts :
           LET part == os.mem.parts[i]
           IN  /\ Distinct(part.free) /\ Len(part.free) = part.nFree
               /\ Elements(part.free) = Blocks \ part.held
    BY <1>18, Zenon
  <1>21. \A p \in Prios : \A t \in TCBs : os.prioTbl[p] = t =>
           t \in os.list /\ (os.tcb[t].prio = p
                             \/ \E e \in EventIds : IsMutex(e) /\ Owner(e) = t /\ os.event[e].cnt = p
                                                    /\ os.tcb[t].prio = os.event[e].pip)
    BY <1>10, Zenon
  <1> QED
    BY <1>3, <1>8, <1>9, <1>11, <1>13, <1>14, <1>15, <1>16, <1>17, <1>19, <1>20, <1>21, Zenon DEF NothingLost

LEMMA BooksServed ==
  ASSUME Inv, Books, OnePolarity PROVE AvailableMeansNoWaiter
  <1>1. \A e \in EventIds : ~IsMutex(e)
    BY DEF Inv, Rules, NoMutex, IsMutex
  <1> QED
    BY <1>1, AvailableHasSome DEF Books, NoneWaits, NobodyServed, AvailableMeansNoWaiter

LEMMA BooksGranted ==
  ASSUME Inv, Books PROVE FlagsGranted
  <1> SUFFICES ASSUME NEW t \in Under("flag") \cap Live,
                      os.tcb[t].node = None, os.tcb[t].flagsRdy # {}
               PROVE  /\ os.tcb[t].flagsRdy \subseteq Head(pc[t]).cond.flags
                      /\ Head(pc[t]).cond.any \/ os.tcb[t].flagsRdy = Head(pc[t]).cond.flags
    BY DEF FlagsGranted
  <1>1. t \in TCBs /\ At(t) = "flag" /\ Steps(pc[t]) /\ NextOp(pc[t]) = "flag"
    BY AtUnder, AtNext DEF Inv, TInv, NextOp
  <1>2. Waiting[t] = Head(pc[t]) /\ Waiting[t].op = "flag"
    BY <1>1, NextStep DEF Waiting, WaitOps, NextOp
  <1>3. GotFlags(os.tcb[t].flagsRdy, Waiting[t].cond)
    BY <1>2 DEF Books, FlagsKept
  <1> QED
    BY <1>2, <1>3 DEF GotFlags

(***************************************************************************)
(* No control block, queue or memory block is lost or used twice, whatever *)
(* other tasks and handlers do between the halves of a creation or of      *)
(* OSTaskDel, and whichever half fails (OS_TCBInit, OSTaskDel, OSQCreate,  *)
(* OSMemCreate and the free lists of os_core.c).  This and the next        *)
(* theorems keep the rules of ReadyListAgrees: events and groups are       *)
(* deleted only while no other task has checked them (CheckedStays).       *)
(***************************************************************************)
THEOREM NothingIsLost ==
  ASSUME Ruled, ~PrioChangeOfWoken, ~DeletionRaces PROVE Spec => []NothingLost
  <1>1. Init => KInv /\ Inv /\ Books
    BY InitGood, InitInv, InitBooks
  <1>2. KInv /\ Inv /\ Books /\ [Next]_vars => KInv' /\ Inv' /\ Books'
    BY NextInv, StepKept, StepBooks DEF Booked
  <1>3. Inv /\ Books => NothingLost
    BY BooksLost
  <1> QED
    BY <1>1, <1>2, <1>3, PTL DEF Spec

(***************************************************************************)
(* A task that was woken with flags got those it asked for, whatever was   *)
(* posted between the wake-up and its next turn (OSFlagPost, OSFlagPend).  *)
(***************************************************************************)
THEOREM FlagsAreGranted ==
  ASSUME Ruled, ~PrioChangeOfWoken, ~DeletionRaces PROVE Spec => []FlagsGranted
  <1>1. Init => KInv /\ Inv /\ Books
    BY InitGood, InitInv, InitBooks
  <1>2. KInv /\ Inv /\ Books /\ [Next]_vars => KInv' /\ Inv' /\ Books'
    BY NextInv, StepKept, StepBooks DEF Booked
  <1>3. Inv /\ Books => FlagsGranted
    BY BooksGranted
  <1> QED
    BY <1>1, <1>2, <1>3, PTL DEF Spec

(***************************************************************************)
(* Nobody waits for a count, a message or flags that are there, however    *)
(* posts, pends, timeouts and aborts are interleaved (OSSemPost and the    *)
(* other posts, which wake a waiter before they store), and deletions of   *)
(* what no other task has checked.  About flags this is so only if the     *)
(* conditions of the application all ask for flags that are set or all for *)
(* flags that are clear: a pend that consumes flags looks for nobody who   *)
(* waits for the opposite.                                                 *)
(***************************************************************************)
THEOREM AvailableIsTaken ==
  ASSUME Ruled, ~PrioChangeOfWoken, ~DeletionRaces, OnePolarity PROVE Spec => []AvailableMeansNoWaiter
  <1>1. Init => KInv /\ Inv /\ Books
    BY InitGood, InitInv, InitBooks
  <1>2. KInv /\ Inv /\ Books /\ [Next]_vars => KInv' /\ Inv' /\ Books'
    BY NextInv, StepKept, StepBooks DEF Booked
  <1>3. Inv /\ Books => AvailableMeansNoWaiter
    BY BooksServed
  <1> QED
    BY <1>1, <1>2, <1>3, PTL DEF Spec

(***************************************************************************)
(* What the tasks have checked.  The types are those of objects that are   *)
(* there, and nobody has checked for a deletion what another task is about *)
(* to use.                                                                 *)
(***************************************************************************)
Agreed(s) == /\ "UNUSED" \notin s.types
             /\ \A e \in s.events : os.event[e].type \in s.types
             /\ \A g \in s.groups : IsFlag(g)
SeenOK ==
  /\ DOMAIN seen = TCBs
  /\ \A t \in TCBs : "UNUSED" \notin seen[t].types /\ seen[t].events \subseteq EventIds
                     /\ seen[t].groups \subseteq FlagIds
  /\ \A t, u \in TCBs : t # u => ~Clash(seen[t], seen[u])
  /\ CheckedIsThere

(* A check reads the types of what it is about.                            *)
LEMMA CheckAgrees ==
  ASSUME CheckNext
  PROVE  \E calls, s : /\ CheckType(calls, s) /\ Agreed(s)
                       /\ s.events \subseteq EventIds /\ s.groups \subseteq FlagIds
  <1>1. ASSUME NEW e \in EventIds, NEW deletes, NEW type, type # "UNUSED", os.event[e].type = type
        PROVE  /\ Agreed(Event(type, e, deletes))
               /\ Event(type, e, deletes).events \subseteq EventIds
               /\ Event(type, e, deletes).groups \subseteq FlagIds
    BY <1>1 DEF Agreed, Event, NothingSeen
  <1>2. ASSUME NEW e \in EventIds, NEW deletes \in BOOLEAN,
               OSSem_CheckType(e, deletes) \/ OSMbox_CheckType(e, deletes) \/ OSQ_CheckType(e, deletes)
                 \/ OSMutex_CheckType(e, deletes)
        PROVE  \E calls, type : /\ CheckType(calls, Event(type, e, deletes))
                                /\ type # "UNUSED" /\ os.event[e].type = type
    <2>1. CASE OSSem_CheckType(e, deletes)
      <3>1. \E calls : CheckType(calls, Event("SEM", e, deletes))
        BY <2>1 DEF OSSem_CheckType, Sem
      <3> QED
        BY <2>1, <3>1 DEF OSSem_CheckType, IsSem
    <2>2. CASE OSMbox_CheckType(e, deletes)
      <3>1. \E calls : CheckType(calls, Event("MBOX", e, deletes))
        BY <2>2 DEF OSMbox_CheckType, Mbox
      <3> QED
        BY <2>2, <3>1 DEF OSMbox_CheckType, IsMbox
    <2>3. CASE OSQ_CheckType(e, deletes)
      <3>1. \E calls : CheckType(calls, Event("Q", e, deletes))
        BY <2>3 DEF OSQ_CheckType, Q
      <3> QED
        BY <2>3, <3>1 DEF OSQ_CheckType, IsQ
    <2>4. CASE OSMutex_CheckType(e, deletes)
      <3>1. \E calls : CheckType(calls, Event("MUTEX", e, deletes))
        BY <2>4 DEF OSMutex_CheckType, Mutex
      <3> QED
        BY <2>4, <3>1 DEF OSMutex_CheckType, IsMutex
    <2> QED
      BY <1>2, <2>1, <2>2, <2>3, <2>4
  <1>3. ASSUME NEW g \in FlagIds, NEW deletes \in BOOLEAN, OSFlag_CheckType(g, deletes)
        PROVE  /\ \E calls : CheckType(calls, Group(g, deletes))
               /\ Agreed(Group(g, deletes))
               /\ Group(g, deletes).events \subseteq EventIds /\ Group(g, deletes).groups \subseteq FlagIds
    <2>1. \E calls : CheckType(calls, Group(g, deletes))
      BY <1>3 DEF OSFlag_CheckType
    <2>2. IsFlag(g)
      BY <1>3 DEF OSFlag_CheckType
    <2> QED
      BY <2>1, <2>2 DEF Agreed, Group, NothingSeen
  <1>4. ASSUME NEW E \in SUBSET EventIds, OSEventPendMulti_CheckType(E)
        PROVE  /\ \E calls : CheckType(calls, SeveralEvents(E))
               /\ Agreed(SeveralEvents(E))
               /\ SeveralEvents(E).events \subseteq EventIds /\ SeveralEvents(E).groups \subseteq FlagIds
    <2>1. \E calls : CheckType(calls, SeveralEvents(E))
      BY <1>4 DEF OSEventPendMulti_CheckType
    <2>2. \A e \in E : os.event[e].type \in SeveralTypes
      BY <1>4 DEF OSEventPendMulti_CheckType
    <2> QED
      BY <2>1, <2>2 DEF Agreed, SeveralEvents, NothingSeen, SeveralTypes
  <1>5. CASE \E e \in EventIds, deletes \in BOOLEAN :
               OSSem_CheckType(e, deletes) \/ OSMbox_CheckType(e, deletes) \/ OSQ_CheckType(e, deletes)
                 \/ OSMutex_CheckType(e, deletes)
    <2>1. PICK e \in EventIds, deletes \in BOOLEAN :
            OSSem_CheckType(e, deletes) \/ OSMbox_CheckType(e, deletes) \/ OSQ_CheckType(e, deletes)
              \/ OSMutex_CheckType(e, deletes)
      BY <1>5
    <2>2. PICK calls, type : /\ CheckType(calls, Event(type, e, deletes))
                             /\ type # "UNUSED" /\ os.event[e].type = type
      BY <1>2, <2>1
    <2>3. PICK s : s = Event(type, e, deletes)
      OBVIOUS
    <2>4. Agreed(s) /\ s.events \subseteq EventIds /\ s.groups \subseteq FlagIds
      BY <1>1, <2>2, <2>3
    <2> QED
      BY <2>2, <2>3, <2>4
  <1> QED
    BY <1>3, <1>4, <1>5 DEF CheckNext

LEMMA CheckSeen ==
  ASSUME ~DeletionRaces, TInv, SeenOK, CheckNext PROVE SeenOK'
  <1>1. PICK calls, s : /\ CheckType(calls, s) /\ Agreed(s)
                        /\ s.events \subseteq EventIds /\ s.groups \subseteq FlagIds
    BY CheckAgrees
  <1>2. os' = os /\ seen' = [seen EXCEPT ![os.cur] = s] /\ \A t \in TCBs \ {os.cur} : ~Clash(s, seen[t])
    BY <1>1 DEF CheckType
  <1>3. os.cur \in TCBs
    BY DEF TInv, Data
  <1>4. DOMAIN seen' = TCBs /\ seen'[os.cur] = s /\ \A t \in TCBs : t # os.cur => seen'[t] = seen[t]
    BY <1>2, <1>3 DEF SeenOK
  <1>5. \A t \in TCBs : "UNUSED" \notin seen'[t].types /\ seen'[t].events \subseteq EventIds
                        /\ seen'[t].groups \subseteq FlagIds
    BY <1>1, <1>4 DEF SeenOK, Agreed
  <1>6. \A r, q : Clash(r, q) <=> Clash(q, r)
    BY DEF Clash
  <1>7. \A t, u \in TCBs : t # u => ~Clash(seen'[t], seen'[u])
    BY <1>2, <1>3, <1>4, <1>6 DEF SeenOK
  <1>8. CheckedIsThere'
    BY <1>1, <1>2, <1>3, <1>4 DEF SeenOK, CheckedIsThere, Agreed, IsFlag
  <1> QED
    BY <1>4, <1>5, <1>7, <1>8 DEF SeenOK, Clash

(* Every other step keeps what a task has checked or uses it up.           *)
LEMMA NextSeen ==
  ASSUME KInv, [Next]_vars, SeenOK PROVE CheckNext \/ SeenKept
  <1>1. seen' = seen => SeenKept
    BY DEF SeenKept
  <1>2. CASE OSStart \/ IntNext
    BY <1>1, <1>2 DEF OSStart, IntNext, OSIntEnter, OSTimeTick, OSIntExit
  <1>3. CASE OS_Sched
    BY <1>3 DEF OS_Sched, Proceed, Leave, SeenKept
  <1>4. CASE OSSchedLock \/ OSSchedUnlock
    BY <1>4, LockServes DEF KInv, Serves
  <1>5. CASE TaskNext
    BY <1>5, TaskServes DEF KInv, Serves
  <1>6. CASE SemNext \/ MboxNext \/ QNext \/ MultiNext
    BY <1>6, SemServes, MboxServes, QServes, MultiServes DEF KInv, Serves
  <1>7. CASE FlagNext \/ MutexNext \/ MemNext
    BY <1>7, FlagServes, MutexServes, MemServes DEF KInv, Serves
  <1>8. CASE UNCHANGED vars
    BY <1>1, <1>8 DEF vars
  <1> QED
    BY <1>2, <1>3, <1>4, <1>5, <1>6, <1>7, <1>8 DEF Next

LEMMA KeptSeen ==
  ASSUME TInv, SeenOK, SeenKept, TypesStay PROVE SeenOK'
  <1>1. DOMAIN seen' = TCBs /\ \A t \in TCBs : seen'[t] = seen[t] \/ seen'[t] = NothingSeen
    BY DEF SeenOK, SeenKept
  <1>2. NothingSeen.types = {} /\ NothingSeen.events = {} /\ NothingSeen.groups = {}
    BY DEF NothingSeen
  <1>3. \A r : ~Clash(NothingSeen, r) /\ ~Clash(r, NothingSeen)
    BY <1>2 DEF Clash
  <1>4. \A t \in TCBs : "UNUSED" \notin seen'[t].types /\ seen'[t].events \subseteq EventIds
                        /\ seen'[t].groups \subseteq FlagIds
    BY <1>1, <1>2 DEF SeenOK
  <1>5. \A t, u \in TCBs : t # u => ~Clash(seen'[t], seen'[u])
    BY <1>1, <1>3 DEF SeenOK
  <1>6. os.cur \in TCBs
    BY DEF TInv, Data
  <1>7. ASSUME NEW t \in TCBs, seen'[t] # NothingSeen, Deleting
        PROVE  t # os.cur /\ ~Clash(seen[os.cur], seen[t])
    <2>1. seen'[os.cur] = NothingSeen
      BY <1>6, <1>7 DEF Deleting, SeenOK
    <2> QED
      BY <1>6, <1>7, <2>1 DEF SeenOK
  <1>8. ASSUME NEW t \in TCBs, NEW e \in seen'[t].events
        PROVE  os'.event[e].type \in seen'[t].types
    <2>1. seen'[t] # NothingSeen /\ seen'[t] = seen[t]
      BY <1>1, <1>2, <1>8
    <2>2. os.event[e].type \in seen[t].types /\ os.event[e].type # "UNUSED" /\ e \in EventIds
      BY <2>1 DEF SeenOK, CheckedIsThere
    <2>3. ~(Deleting /\ e \in seen[os.cur].events)
      BY <1>7, <2>1 DEF Clash, Deleting
    <2> QED
      BY <2>1, <2>2, <2>3 DEF TypesStay
  <1>9. ASSUME NEW t \in TCBs, NEW g \in seen'[t].groups
        PROVE  os'.flag[g].type = "FLAG"
    <2>1. seen'[t] # NothingSeen /\ seen'[t] = seen[t]
      BY <1>1, <1>2, <1>9
    <2>2. os.flag[g].type = "FLAG" /\ g \in FlagIds
      BY <2>1 DEF SeenOK, CheckedIsThere, IsFlag
    <2>3. ~(Deleting /\ g \in seen[os.cur].groups)
      BY <1>7, <2>1 DEF Clash, Deleting
    <2> QED
      BY <2>2, <2>3 DEF TypesStay
  <1>10. CheckedIsThere'
    BY <1>8, <1>9 DEF CheckedIsThere, IsFlag
  <1> QED
    BY <1>1, <1>4, <1>5, <1>10 DEF SeenOK, Clash

(***************************************************************************)
(* What a task has checked is still of the type it found when it gets to   *)
(* its critical section (the tests of OSEventType and OSFlagType before    *)
(* OS_ENTER_CRITICAL), however many tasks and handlers run in between, if  *)
(* no application deletes an object that another task has checked: the     *)
(* other theorems cover everything that such an application can do.        *)
(***************************************************************************)
THEOREM CheckedStays ==
  ASSUME Ruled, ~PrioChangeOfWoken, ~DeletionRaces PROVE Spec => []CheckedIsThere
  <1>1. Init => KInv /\ Inv /\ Books /\ SeenOK
    <2>1. Init => SeenOK
      BY DEF Init, SeenOK, CheckedIsThere, Clash, NothingSeen
    <2> QED
      BY <2>1, InitGood, InitInv, InitBooks
  <1>2. KInv /\ Inv /\ Books /\ SeenOK /\ [Next]_vars => KInv' /\ Inv' /\ Books' /\ SeenOK'
    <2> SUFFICES ASSUME KInv, Inv, Books, SeenOK, [Next]_vars PROVE KInv' /\ Inv' /\ Books' /\ SeenOK'
      OBVIOUS
    <2>1. KInv' /\ Inv'
      BY NextInv, StepKept
    <2>2. Booked /\ TInv
      BY <2>1, StepBooks DEF Inv
    <2> QED
      BY <2>1, <2>2, NextSeen, CheckSeen, KeptSeen DEF Booked
  <1>3. SeenOK => CheckedIsThere
    BY DEF SeenOK
  <1> QED
    BY <1>1, <1>2, <1>3, PTL DEF Spec

(***************************************************************************)
(* Kernel data k of the right types: the control blocks of tasks, what the *)
(* events have, the flags of the groups.                                   *)
(***************************************************************************)
ValueTyped(ev) == /\ ev.type = "SEM" => ev.cnt \in 0 .. OS_SEM_MAX
                  /\ ev.type = "MBOX" => ev.ptr \in Msgs \cup {None}
                  /\ ev.type = "Q" => Ring(ev.ptr, OSQSize)
TasksTyped(k)  == \A t \in TCBs : k.tcb[t] \in TCB
ValuesTyped(k) == \A e \in EventIds : ValueTyped(k.event[e])
FlagsTyped(k)  == \A g \in FlagIds : k.flag[g].flags \subseteq FlagBits
Typed(k) == TasksTyped(k) /\ ValuesTyped(k) /\ FlagsTyped(k)

(* The tasks but S keep their control blocks. *)
SameBlocks(k, l, S) == \A t \in TCBs : t \notin S => l.tcb[t] = k.tcb[t]

LEMMA ApartTyped ==
  ASSUME NEW k, NEW l, Typed(k), Apart(k, l), SameFlags(k, l), TasksTyped(l) PROVE Typed(l)
  BY DEF Typed, ValuesTyped, ValueTyped, FlagsTyped, SameFlags, Apart, Stable, SameTypes, SameStored

LEMMA InertTyped ==
  ASSUME NEW k, NEW l, Typed(k), Inert(k, l), TasksTyped(l) PROVE Typed(l)
  <1>1. SameFlags(k, l) /\ Apart(k, l)
    BY DEF Inert, SameNodes, SameFlags
  <1> QED
    BY <1>1, ApartTyped

LEMMA ReadyTyped ==
  ASSUME NEW k, Shape(k), NEW S, NEW l, l = MakeReady(k, S) \/ l = MakeUnready(k, S)
  PROVE  l.tcb = k.tcb
  BY DEF MakeReady, MakeUnready, Shape, Fields

LEMMA RemoveTyped ==
  ASSUME NEW k, Shape(k), NEW E, NEW l, l = OS_EventTaskRemoveMulti(k, E)
  PROVE  l.tcb = k.tcb
  BY DEF OS_EventTaskRemoveMulti, Shape, Fields

(* One control block becomes y. *)
LEMMA OneBlock ==
  ASSUME NEW k, Shape(k), NEW c \in TCBs, NEW y, NEW l, l = [k EXCEPT !.tcb[c] = y]
  PROVE  l.tcb[c] = y /\ SameBlocks(k, l, Only(c)) /\ (TasksTyped(k) /\ y \in TCB => TasksTyped(l))
  <1>1. l.tcb[c] = y /\ \A t \in TCBs : t # c => l.tcb[t] = k.tcb[t]
    BY DEF Shape, Fields
  <1> QED
    BY <1>1 DEF SameBlocks, Only, TasksTyped

(* What a wait makes of a control block. *)
Begun(x, bits, timeout) == [x EXCEPT !.stat = @ \cup bits, !.pend = "OK", !.dly = timeout]
Ended(x) == [x EXCEPT !.stat = {}, !.pend = "OK", !.event = None, !.multi = {}, !.msg = None]
Placed(x, e, E) == [x EXCEPT !.event = e, !.multi = E]

LEMMA BlocksTyped ==
  ASSUME NEW x \in TCB
  PROVE  /\ \A bits \in SUBSET StatBits, timeout \in Nat : Begun(x, bits, timeout) \in TCB
         /\ Ended(x) \in TCB /\ Expired(x) \in TCB
         /\ \A rdy \in SUBSET FlagBits : Granted(x, rdy) \in TCB
  <1>1. \A bits \in SUBSET StatBits, timeout \in Nat : Begun(x, bits, timeout) \in TCB
    BY DEF Begun, TCB
  <1>2. Ended(x) \in TCB
    BY DEF Ended, TCB
  <1>3. Expired(x) \in TCB
    BY DEF Expired, TCB
  <1>4. \A rdy \in SUBSET FlagBits : Granted(x, rdy) \in TCB
    BY DEF Granted, TCB
  <1> QED
    BY <1>1, <1>2, <1>3, <1>4

LEMMA AwakeTyped ==
  ASSUME NEW x \in TCB, NEW e \in EventIds, NEW msg \in Msgs \cup {None}, NEW msk,
         NEW pend, pend = "OK" \/ pend = "ABORT"
  PROVE  Awake(x, e, msg, msk, pend) \in TCB
  <1> PICK v : v = IF x.multi # {} THEN e ELSE x.event
    OBVIOUS
  <1> PICK s : s = x.stat \ {msk}
    OBVIOUS
  <1>1. v \in EventIds \cup {None} /\ s \subseteq StatBits
    BY DEF TCB
  <1>2. Awake(x, e, msg, msk, pend) = [x EXCEPT !.dly = 0, !.msg = msg, !.stat = s, !.pend = pend, !.event = v]
    BY DEF Awake, TCB
  <1>3. [x EXCEPT !.dly = 0, !.msg = msg, !.stat = s, !.pend = pend, !.event = v] \in TCB
    BY <1>1 DEF TCB
  <1> QED
    BY <1>2, <1>3

LEMMA StartPendTyped ==
  ASSUME NEW k, Shape(k), NEW bits, NEW timeout, NEW l, l = StartPend(k, bits, timeout),
         NEW c \in TCBs, RunsIn(k, c)
  PROVE  /\ l.tcb[c] = Begun(k.tcb[c], bits, timeout) /\ SameBlocks(k, l, Only(c))
         /\ TasksTyped(k) /\ bits \subseteq StatBits /\ timeout \in Nat => TasksTyped(l)
  <1>1. PICK y : y = Begun(k.tcb[c], bits, timeout)
    OBVIOUS
  <1>2. l = [k EXCEPT !.tcb[c] = y]
    BY <1>1 DEF StartPend, Begun, Shape, RunsIn
  <1>3. TasksTyped(k) /\ bits \subseteq StatBits /\ timeout \in Nat => y \in TCB
    BY <1>1, BlocksTyped DEF TasksTyped
  <1> QED
    BY <1>1, <1>2, <1>3, OneBlock

LEMMA WaitTyped ==
  ASSUME NEW k, Shape(k), NEW e, NEW l, l = OS_EventTaskWait(k, e), NEW c \in TCBs, RunsIn(k, c)
  PROVE  /\ l.tcb[c] = Placed(k.tcb[c], e, k.tcb[c].multi) /\ SameBlocks(k, l, Only(c))
         /\ TasksTyped(k) /\ e \in EventIds => TasksTyped(l)
  <1> PICK m : m = [k EXCEPT !.tcb[c].event = e, !.event[e].wait = Insert(@, {k.tcb[k.cur].prio})]
    OBVIOUS
  <1>1. l = MakeUnready(m, {c})
    BY DEF OS_EventTaskWait, RunsIn
  <1>2. l.tcb = m.tcb
    BY <1>1 DEF MakeUnready, Shape, Fields
  <1>3. m.tcb[c] = [k.tcb[c] EXCEPT !.event = e] /\ \A t \in TCBs : t # c => m.tcb[t] = k.tcb[t]
    BY DEF Shape, Fields
  <1>4. k.tcb[c] \in TCB /\ e \in EventIds => [k.tcb[c] EXCEPT !.event = e] \in TCB
    BY DEF TCB
  <1>5. [k.tcb[c] EXCEPT !.event = e] = Placed(k.tcb[c], e, k.tcb[c].multi)
    BY DEF Placed, Shape, TCBFields
  <1> QED
    BY <1>2, <1>3, <1>4, <1>5 DEF SameBlocks, Only, TasksTyped

LEMMA WaitMultiTyped ==
  ASSUME NEW k, Shape(k), NEW E, NEW l, l = OS_EventTaskWaitMulti(k, E), NEW c \in TCBs, RunsIn(k, c)
  PROVE  /\ l.tcb[c] = Placed(k.tcb[c], None, E) /\ SameBlocks(k, l, Only(c))
         /\ TasksTyped(k) /\ E \subseteq EventIds => TasksTyped(l)
  <1> DEFINE F == [e \in EventIds |->
                     IF e \in E THEN [k.event[e] EXCEPT !.wait = Insert(@, {k.tcb[k.cur].prio})]
                     ELSE k.event[e]]
             m == [k EXCEPT !.tcb[c].event = None, !.tcb[c].multi = E, !.event = F]
  <1>1. l = MakeUnready(m, {c})
    BY DEF OS_EventTaskWaitMulti, RunsIn
  <1> HIDE DEF F
  <1>2. l.tcb = m.tcb
    BY <1>1 DEF MakeUnready, Shape, Fields
  <1>3. /\ m.tcb[c] = [k.tcb[c] EXCEPT !.event = None, !.multi = E]
        /\ \A t \in TCBs : t # c => m.tcb[t] = k.tcb[t]
    BY DEF Shape, Fields
  <1>4. k.tcb[c] \in TCB /\ E \subseteq EventIds => [k.tcb[c] EXCEPT !.event = None, !.multi = E] \in TCB
    BY DEF TCB
  <1> HIDE DEF m
  <1> QED
    BY <1>2, <1>3, <1>4 DEF SameBlocks, Only, TasksTyped, Placed

LEMMA WakeTyped ==
  ASSUME NEW k, Shape(k), NEW e, NEW P, NEW msg, NEW msk, NEW pend,
         NEW l, l = OS_EventTaskRdy(k, e, P, msg, msk, pend)
  PROVE  /\ SameBlocks(k, l, Woke(k, P))
         /\ \A t \in TCBs : t \in Woke(k, P) => l.tcb[t] = Awake(k.tcb[t], e, msg, msk, pend)
         /\ TasksTyped(k) /\ e \in EventIds /\ msg \in Msgs \cup {None}
              /\ (pend = "OK" \/ pend = "ABORT") => TasksTyped(l)
  <1> DEFINE S == Woke(k, P)
             m == [k EXCEPT !.tcb = [t \in TCBs |->
                     IF t \notin S THEN k.tcb[t] ELSE Awake(k.tcb[t], e, msg, msk, pend)]]
             R == {t \in S : ~Suspended(k.tcb[t])}
             E == [t \in S |-> {e} \cup k.tcb[t].multi]
  <1>1. l = OS_EventTaskRemoveMulti(MakeReady(m, R), E)
    BY DEF OS_EventTaskRdy, Awake, Woke
  <1> HIDE DEF S, R, E
  <1>2. m.tcb = [t \in TCBs |-> IF t \notin S THEN k.tcb[t] ELSE Awake(k.tcb[t], e, msg, msk, pend)]
    BY DEF Shape, Fields
  <1>3. DOMAIN m = Fields
    BY DEF Shape, Fields
  <1> HIDE DEF m
  <1>4. l.tcb = m.tcb
    BY <1>1, <1>3 DEF OS_EventTaskRemoveMulti, MakeReady, Fields
  <1>5. \A t \in TCBs : l.tcb[t] = IF t \notin S THEN k.tcb[t] ELSE Awake(k.tcb[t], e, msg, msk, pend)
    BY <1>2, <1>4
  <1>6. ASSUME TasksTyped(k), e \in EventIds, msg \in Msgs \cup {None}, pend = "OK" \/ pend = "ABORT", NEW t \in TCBs
        PROVE  l.tcb[t] \in TCB
    <2>1. k.tcb[t] \in TCB
      BY <1>6 DEF TasksTyped
    <2>2. Awake(k.tcb[t], e, msg, msk, pend) \in TCB
      BY <1>6, <2>1, AwakeTyped
    <2> QED
      BY <1>5, <2>1, <2>2
  <1> QED
    BY <1>5, <1>6 DEF S, SameBlocks, TasksTyped

LEMMA EndPendTyped ==
  ASSUME NEW k, Shape(k), NEW E, NEW l, l = EndPend(k, E), NEW c \in TCBs, RunsIn(k, c)
  PROVE  /\ l.tcb[c] = Ended(k.tcb[c]) /\ SameBlocks(k, l, Only(c)) /\ (TasksTyped(k) => TasksTyped(l))
  <1> DEFINE m == IF k.tcb[c].pend = "TO" THEN OS_EventTaskRemoveMulti(k, [t \in {c} |-> E]) ELSE k
  <1>1. Shape(m) /\ m.tcb = k.tcb
    BY RemoveInert, RemoveTyped
  <1>2. l = [m EXCEPT !.tcb[c].stat = {}, !.tcb[c].pend = "OK", !.tcb[c].event = None,
                      !.tcb[c].multi = {}, !.tcb[c].msg = None]
    BY DEF EndPend, RunsIn
  <1> HIDE DEF m
  <1>3. l = [m EXCEPT !.tcb[c] = Ended(m.tcb[c])]
    <2> DEFINE x  == m.tcb[c]
               m1 == [m EXCEPT !.tcb[c].stat = {}]
               m2 == [m1 EXCEPT !.tcb[c].pend = "OK"]
               m3 == [m2 EXCEPT !.tcb[c].event = None]
               m4 == [m3 EXCEPT !.tcb[c].multi = {}]
               x1 == [x EXCEPT !.stat = {}]
               x2 == [x1 EXCEPT !.pend = "OK"]
               x3 == [x2 EXCEPT !.event = None]
               x4 == [x3 EXCEPT !.multi = {}]
               x5 == [x4 EXCEPT !.msg = None]
    <2>1. DOMAIN m = Fields /\ DOMAIN m.tcb = TCBs /\ "tcb" \in Fields
      BY <1>1 DEF Shape, Fields
    <2>2. l = [m4 EXCEPT !.tcb[c].msg = None]
      BY <1>2
    <2> HIDE DEF x1, x2, x3, x4, x5
    <2>3. m1 = [m EXCEPT !.tcb[c] = x1]
      BY <2>1 DEF x1
    <2> HIDE DEF m1
    <2>4. m2 = [m EXCEPT !.tcb[c] = x2]
      BY <2>1, <2>3 DEF x2
    <2> HIDE DEF m2
    <2>5. m3 = [m EXCEPT !.tcb[c] = x3]
      BY <2>1, <2>4 DEF x3
    <2> HIDE DEF m3
    <2>6. m4 = [m EXCEPT !.tcb[c] = x4]
      BY <2>1, <2>5 DEF x4
    <2> HIDE DEF m4
    <2>7. l = [m EXCEPT !.tcb[c] = x5]
      BY <2>1, <2>2, <2>6 DEF x5
    <2>8. x5 = Ended(x)
      BY DEF Ended, x1, x2, x3, x4, x5
    <2> QED
      BY <2>7, <2>8
  <1>4. l.tcb[c] = Ended(m.tcb[c]) /\ SameBlocks(m, l, Only(c))
    BY <1>1, <1>3, OneBlock
  <1> QED
    BY <1>1, <1>4, BlocksTyped DEF SameBlocks, Only, TasksTyped

LEMMA ExpireTyped ==
  ASSUME NEW k, Shape(k), NEW D, NEW l, l = Expire(k, D)
  PROVE  /\ SameBlocks(k, l, D) /\ \A t \in TCBs : t \in D => l.tcb[t] = Expired(k.tcb[t])
         /\ TasksTyped(k) => TasksTyped(l)
  <1>1. l.tcb = [t \in TCBs |-> IF t \notin D THEN k.tcb[t] ELSE Expired(k.tcb[t])]
    BY DEF Expire, Expired, Shape, Fields
  <1> QED
    BY <1>1, BlocksTyped DEF SameBlocks, TasksTyped

(* The same for flag groups.                                               *)
LEMMA UnlinkTyped ==
  ASSUME NEW k, Shape(k), NEW t \in TCBs, NEW l, l = OS_FlagUnlink(k, t)
  PROVE  SameBlocks(k, l, Only(t)) /\ (TasksTyped(k) => TasksTyped(l))
  <1>1. CASE k.tcb[t].node = None
    BY <1>1 DEF OS_FlagUnlink, SameBlocks
  <1>2. CASE k.tcb[t].node # None
    <2> DEFINE h == k.tcb[t].node.grp
    <2>1. l = [k EXCEPT !.flag[h].wait = @ \ {t}, !.tcb[t].node = None]
      BY <1>2 DEF OS_FlagUnlink
    <2> HIDE DEF h
    <2>2. l.tcb[t] = [k.tcb[t] EXCEPT !.node = None] /\ \A u \in TCBs : u # t => l.tcb[u] = k.tcb[u]
      BY <2>1 DEF Shape, Fields
    <2>3. k.tcb[t] \in TCB => [k.tcb[t] EXCEPT !.node = None] \in TCB
      BY DEF TCB
    <2> QED
      BY <2>2, <2>3 DEF SameBlocks, Only, TasksTyped
  <1> QED
    BY <1>1, <1>2

LEMMA GrantTyped ==
  ASSUME NEW k, Shape(k), NEW S, NEW rdy, NEW l, l = OS_FlagTaskRdy(k, S, rdy)
  PROVE  /\ SameBlocks(k, l, S)
         /\ TasksTyped(k) /\ (\A t \in TCBs : t \in S => rdy[t] \subseteq FlagBits) => TasksTyped(l)
  <1> DEFINE F == [g \in FlagIds |-> [k.flag[g] EXCEPT !.wait = @ \ S]]
             T == [t \in TCBs |-> IF t \notin S THEN k.tcb[t] ELSE Granted(k.tcb[t], rdy[t])]
             m == [k EXCEPT !.tcb = T, !.flag = F]
             R == {t \in S : m.tcb[t].stat = {}}
  <1>1. l = MakeReady(m, R)
    BY DEF OS_FlagTaskRdy, Granted
  <1> HIDE DEF T, F, R
  <1>2. m.tcb = T
    BY DEF Shape, Fields
  <1>3. DOMAIN m = Fields
    BY DEF Shape
  <1> HIDE DEF m
  <1>4. l.tcb = T
    BY <1>1, <1>2, <1>3 DEF MakeReady, Fields
  <1>5. \A t \in TCBs : l.tcb[t] = IF t \notin S THEN k.tcb[t] ELSE Granted(k.tcb[t], rdy[t])
    BY <1>4 DEF T
  <1> QED
    BY <1>5, BlocksTyped DEF SameBlocks, TasksTyped

LEMMA FlagBlockTyped ==
  ASSUME Shape(os), NEW g \in FlagIds, NEW cond, NEW timeout, NEW l, l = OS_FlagBlock(g, cond, timeout),
         NEW c \in TCBs, RunsIn(os, c)
  PROVE  /\ SameBlocks(os, l, Only(c))
         /\ TasksTyped(os) /\ cond \in Conditions /\ timeout \in Nat => TasksTyped(l)
  <1>1. PICK bits : bits = {"FLAG"}
    OBVIOUS
  <1>2. PICK m : m = StartPend(os, bits, timeout)
    OBVIOUS
  <1>3. PICK node : node = [grp |-> g, cond |-> cond]
    OBVIOUS
  <1>4. PICK n : n = [m EXCEPT !.flag[g].wait = @ \cup {c}, !.tcb[c].node = node]
    OBVIOUS
  <1>5. l = MakeUnready(n, {c})
    BY <1>1, <1>2, <1>3, <1>4 DEF OS_FlagBlock, RunsIn
  <1>6. /\ SameBlocks(os, m, Only(c)) /\ m.tcb[c] = Begun(os.tcb[c], bits, timeout)
        /\ TasksTyped(os) /\ bits \subseteq StatBits /\ timeout \in Nat => TasksTyped(m)
    BY <1>2, StartPendTyped
  <1>7. Shape(m)
    BY <1>2, StartPendInert
  <1>8. DOMAIN n = Fields
    BY <1>4, <1>7 DEF Shape
  <1>9. l.tcb = n.tcb
    BY <1>5, <1>8 DEF MakeUnready, Fields
  <1>10. n.tcb[c] = [m.tcb[c] EXCEPT !.node = node] /\ \A u \in TCBs : u # c => n.tcb[u] = m.tcb[u]
    BY <1>4, <1>7 DEF Shape, Fields
  <1>11. bits \subseteq StatBits
    BY <1>1 DEF StatBits, OS_STAT_PEND_ANY
  <1>12. m.tcb[c] \in TCB /\ cond \in Conditions => [m.tcb[c] EXCEPT !.node = node] \in TCB
    BY <1>3 DEF TCB
  <1> QED
    BY <1>6, <1>9, <1>10, <1>11, <1>12 DEF SameBlocks, Only, TasksTyped

LEMMA SwitchTyped ==
  ASSUME NEW k, Shape(k), NEW l, l = Switch(k) PROVE l.tcb = k.tcb
  BY DEF Switch, Shape, Fields

(* The count of event e becomes v, or its message.                         *)
WithCount(k, e, v)   == [k EXCEPT !.event[e].cnt = v]
WithPointer(k, e, v) == [k EXCEPT !.event[e].ptr = v]
LEMMA CountTypes ==
  ASSUME NEW k, Shape(k), NEW e \in EventIds, NEW v, NEW l, l = WithCount(k, e, v)
  PROVE  /\ l.tcb = k.tcb /\ Valued(k, l, e)
         /\ l.event[e].cnt = v /\ l.event[e].ptr = k.event[e].ptr
         /\ Typed(k) /\ ValueTyped(l.event[e]) => Typed(l)
  <1>1. \A f \in Fields \ {"event"} : l[f] = k[f]
    BY DEF Shape, Fields, WithCount
  <1>2. l.tcb = k.tcb /\ l.flag = k.flag
    BY <1>1 DEF Fields
  <1>3. Valued(k, l, e)
    BY ValueParts DEF WithCount
  <1>4. l.event[e].cnt = v /\ l.event[e].ptr = k.event[e].ptr
    BY DEF Shape, Fields, ECBFields, WithCount
  <1> QED
    BY <1>2, <1>3, <1>4 DEF Valued, Typed, TasksTyped, ValuesTyped, FlagsTyped

LEMMA PointerTypes ==
  ASSUME NEW k, Shape(k), NEW e \in EventIds, NEW v, NEW l, l = WithPointer(k, e, v)
  PROVE  /\ l.tcb = k.tcb /\ Valued(k, l, e)
         /\ l.event[e].ptr = v /\ l.event[e].cnt = k.event[e].cnt
         /\ Typed(k) /\ ValueTyped(l.event[e]) => Typed(l)
  <1>1. \A f \in Fields \ {"event"} : l[f] = k[f]
    BY DEF Shape, Fields, WithPointer
  <1>2. l.tcb = k.tcb /\ l.flag = k.flag
    BY <1>1 DEF Fields
  <1>3. Valued(k, l, e)
    BY ValueParts DEF WithPointer
  <1>4. l.event[e].ptr = v /\ l.event[e].cnt = k.event[e].cnt
    BY DEF Shape, Fields, ECBFields, WithPointer
  <1> QED
    BY <1>2, <1>3, <1>4 DEF Valued, Typed, TasksTyped, ValuesTyped, FlagsTyped

(***************************************************************************)
(* The services of events: every step leaves data of the right types.      *)
(***************************************************************************)
LEMMA WakeLeft ==
  ASSUME TInv, Typed(os), NEW e \in EventIds, NEW P, NEW msg \in Msgs \cup {None}, NEW msk, NEW pend,
         pend = "OK" \/ pend = "ABORT", NEW steps, Leave(OS_EventTaskRdy(os, e, P, msg, msk, pend), steps)
  PROVE  Typed(os')
  <1> PICK l : l = OS_EventTaskRdy(os, e, P, msg, msk, pend)
    OBVIOUS
  <1>1. Shape(os)
    BY DataShape DEF TInv
  <1>2. Inert(os, l)
    BY <1>1, WakeInert
  <1>3. TasksTyped(l)
    BY <1>1, WakeTyped DEF Typed
  <1>4. os' = l
    BY DEF Leave
  <1> QED
    BY <1>2, <1>3, <1>4, InertTyped

LEMMA BlockLeft ==
  ASSUME TInv, Typed(os), NEW e \in EventIds, NEW bits, bits \subseteq StatBits, NEW timeout \in Nat,
         NEW steps, Leave(OS_EventTaskWait(StartPend(os, bits, timeout), e), steps)
  PROVE  Typed(os')
  <1> PICK m : m = StartPend(os, bits, timeout)
    OBVIOUS
  <1> PICK l : l = OS_EventTaskWait(m, e)
    OBVIOUS
  <1> PICK c : c = os.cur
    OBVIOUS
  <1>1. Shape(os) /\ c \in TCBs /\ RunsIn(os, c)
    BY DataShape DEF TInv, Data, RunsIn
  <1>2. Shape(m) /\ Inert(os, m) /\ TasksTyped(m)
    BY <1>1, StartPendInert, StartPendTyped DEF Typed
  <1>3. m.cur = os.cur
    BY <1>1 DEF StartPend, Shape, Fields
  <1>4. RunsIn(m, c)
    BY <1>3, <1>1 DEF RunsIn
  <1>5. Inert(m, l) /\ TasksTyped(l)
    BY <1>2, <1>4, <1>1, WaitInert, WaitTyped
  <1>6. Inert(os, l)
    BY <1>2, <1>5, InertTrans
  <1>7. os' = l
    BY DEF Leave
  <1> QED
    BY <1>5, <1>6, <1>7, InertTyped

LEMMA EndLeft ==
  ASSUME TInv, Typed(os), NEW E, Proceed(EndPend(os, E)) PROVE Typed(os')
  <1> PICK l : l = EndPend(os, E)
    OBVIOUS
  <1> PICK c : c = os.cur
    OBVIOUS
  <1>1. Shape(os) /\ c \in TCBs /\ RunsIn(os, c)
    BY DataShape DEF TInv, Data, RunsIn
  <1>2. Inert(os, l) /\ TasksTyped(l)
    BY <1>1, EndPendInert, EndPendTyped DEF Typed
  <1>3. os' = l
    BY DEF Proceed, Leave
  <1> QED
    BY <1>2, <1>3, InertTyped

LEMMA CountLeft ==
  ASSUME TInv, Typed(os), NEW e \in EventIds, IsSem(e), NEW v \in 0 .. OS_SEM_MAX, NEW steps,
         Leave([os EXCEPT !.event[e].cnt = v], steps)
  PROVE  Typed(os')
  <1> PICK l : l = WithCount(os, e, v)
    OBVIOUS
  <1>1. Shape(os)
    BY DataShape DEF TInv
  <1>2. l.event[e].type = "SEM" /\ l.event[e].cnt = v /\ (ValueTyped(l.event[e]) => Typed(l))
    BY <1>1, CountTypes DEF IsSem, Valued
  <1>3. os' = l
    BY DEF Leave, WithCount
  <1> QED
    BY <1>2, <1>3 DEF ValueTyped

LEMMA PointerLeft ==
  ASSUME TInv, Typed(os), NEW e \in EventIds, NEW v,
         (IsMbox(e) /\ v \in Msgs \cup {None}) \/ (IsQ(e) /\ Ring(v, OSQSize)), NEW steps,
         Leave([os EXCEPT !.event[e].ptr = v], steps)
  PROVE  Typed(os')
  <1> PICK l : l = WithPointer(os, e, v)
    OBVIOUS
  <1>1. Shape(os)
    BY DataShape DEF TInv
  <1>2. l.event[e].type = os.event[e].type /\ l.event[e].ptr = v /\ (ValueTyped(l.event[e]) => Typed(l))
    BY <1>1, PointerTypes DEF Valued
  <1>3. os' = l
    BY DEF Leave, WithPointer
  <1>4. ValueTyped(l.event[e])
    BY <1>2 DEF ValueTyped, IsMbox, IsQ
  <1> QED
    BY <1>2, <1>3, <1>4

LEMMA SemTypes ==
  ASSUME TInv, Typed(os), NEW e \in EventIds
  PROVE  /\ OSSemAccept(e) => Typed(os')
         /\ \A cnt \in 0 .. OS_SEM_MAX : OSSemSet(e, cnt) => Typed(os')
         /\ \A timeout \in Timeouts : OSSemPend(e, timeout) => Typed(os')
         /\ OSSemPost(e) => Typed(os')
         /\ \A all : OSSemPendAbort(e, all) => Typed(os')
         /\ OSSemPend_Return => Typed(os')
  <1>1. ASSUME IsSem(e), os.event[e].cnt > 0, Leave([os EXCEPT !.event[e].cnt = @ - 1], <<>>)
        PROVE  Typed(os')
    <2>1. os.event[e].cnt \in 0 .. OS_SEM_MAX
      BY <1>1 DEF Typed, ValuesTyped, ValueTyped, IsSem
    <2>2. os.event[e].cnt - 1 \in 0 .. OS_SEM_MAX
      BY <1>1, <2>1, CountAssumption
    <2> QED
      BY <1>1, <2>2, CountLeft
  <1>2. ASSUME NEW P, NEW pend, pend = "OK" \/ pend = "ABORT", NEW steps,
               Leave(OS_EventTaskRdy(os, e, P, None, "SEM", pend), steps)
        PROVE  Typed(os')
    BY <1>2, WakeLeft
  <1>3. OSSemAccept(e) => Typed(os')
    BY <1>1 DEF OSSemAccept
  <1>4. ASSUME NEW cnt \in 0 .. OS_SEM_MAX, OSSemSet(e, cnt) PROVE Typed(os')
    BY <1>4, CountLeft DEF OSSemSet
  <1>5. ASSUME NEW timeout \in Timeouts, OSSemPend(e, timeout) PROVE Typed(os')
    <2>1. timeout \in Nat /\ IsSem(e)
      BY <1>5, TimeoutsAssumption DEF OSSemPend
    <2>2. PICK bits : bits = {"SEM"}
      OBVIOUS
    <2>3. bits \subseteq StatBits
      BY <2>2 DEF StatBits, OS_STAT_PEND_ANY
    <2>4. CASE os.event[e].cnt > 0 /\ Leave([os EXCEPT !.event[e].cnt = @ - 1], <<>>)
      BY <1>1, <2>1, <2>4
    <2>5. CASE Leave(OS_EventTaskWait(StartPend(os, bits, timeout), e),
                     <<Sched, [op |-> "pend", event |-> e, type |-> "SEM"]>>)
      BY <2>1, <2>3, <2>5, BlockLeft
    <2> QED
      BY <1>5, <2>2, <2>4, <2>5 DEF OSSemPend
  <1>6. ASSUME OSSemPost(e) PROVE Typed(os')
    <2>1. CASE os.event[e].cnt < OS_SEM_MAX /\ Leave([os EXCEPT !.event[e].cnt = @ + 1], <<>>)
      <3>1. IsSem(e)
        BY <1>6 DEF OSSemPost
      <3>2. os.event[e].cnt \in 0 .. OS_SEM_MAX
        BY <3>1 DEF Typed, ValuesTyped, ValueTyped, IsSem
      <3>3. os.event[e].cnt + 1 \in 0 .. OS_SEM_MAX
        BY <2>1, <3>2, CountAssumption
      <3> QED
        BY <2>1, <3>1, <3>3, CountLeft
    <2>2. CASE Leave(OS_EventTaskRdy(os, e, HighestWaiter(os, e), None, "SEM", "OK"), <<Sched>>)
      BY <1>2, <2>2
    <2> QED
      BY <1>6, <2>1, <2>2 DEF OSSemPost
  <1>7. ASSUME NEW all, OSSemPendAbort(e, all) PROVE Typed(os')
    BY <1>2, <1>7 DEF OSSemPendAbort
  <1>8. ASSUME OSSemPend_Return PROVE Typed(os')
    BY <1>8, EndLeft DEF OSSemPend_Return
  <1> QED
    BY <1>3, <1>4, <1>5, <1>6, <1>7, <1>8

LEMMA MboxTypes ==
  ASSUME TInv, Typed(os), NEW e \in EventIds
  PROVE  /\ OSMboxAccept(e) => Typed(os')
         /\ \A timeout \in Timeouts : OSMboxPend(e, timeout) => Typed(os')
         /\ \A msg \in Msgs : OSMboxPost(e, msg) => Typed(os')
         /\ \A msg \in Msgs : \A broadcast, sched : OSMboxPostOpt(e, msg, broadcast, sched) => Typed(os')
         /\ \A all : OSMboxPendAbort(e, all) => Typed(os')
         /\ OSMboxPend_Return => Typed(os')
  <1>1. ASSUME IsMbox(e), NEW v \in Msgs \cup {None}, Leave([os EXCEPT !.event[e].ptr = v], <<>>)
        PROVE  Typed(os')
    <2>1. IsMbox(e) /\ v \in Msgs \cup {None}
      BY <1>1
    <2> QED
      BY <1>1, <2>1, PointerLeft
  <1>2. ASSUME NEW P, NEW msg \in Msgs \cup {None}, NEW pend, pend = "OK" \/ pend = "ABORT", NEW steps,
               Leave(OS_EventTaskRdy(os, e, P, msg, "MBOX", pend), steps)
        PROVE  Typed(os')
    BY <1>2, WakeLeft
  <1>3. OSMboxAccept(e) => Typed(os')
    BY <1>1 DEF OSMboxAccept
  <1>4. ASSUME NEW timeout \in Timeouts, OSMboxPend(e, timeout) PROVE Typed(os')
    <2>1. timeout \in Nat /\ IsMbox(e)
      BY <1>4, TimeoutsAssumption DEF OSMboxPend
    <2>2. PICK bits : bits = {"MBOX"}
      OBVIOUS
    <2>3. bits \subseteq StatBits
      BY <2>2 DEF StatBits, OS_STAT_PEND_ANY
    <2>4. CASE Leave([os EXCEPT !.event[e].ptr = None], <<>>)
      BY <1>1, <2>1, <2>4
    <2>5. CASE Leave(OS_EventTaskWait(StartPend(os, bits, timeout), e),
                     <<Sched, [op |-> "pend", event |-> e, type |-> "MBOX"]>>)
      BY <2>1, <2>3, <2>5, BlockLeft
    <2> QED
      BY <1>4, <2>2, <2>4, <2>5 DEF OSMboxPend
  <1>5. ASSUME NEW msg \in Msgs, OSMboxPost(e, msg) PROVE Typed(os')
    BY <1>1, <1>2, <1>5 DEF OSMboxPost
  <1>6. ASSUME NEW msg \in Msgs, NEW broadcast, NEW sched, OSMboxPostOpt(e, msg, broadcast, sched)
        PROVE  Typed(os')
    <2>1. PICK steps : steps = IF sched THEN <<Sched>> ELSE <<>>
      OBVIOUS
    <2>2. PICK P : P = IF broadcast THEN Waiters(os, e) ELSE HighestWaiter(os, e)
      OBVIOUS
    <2>3. CASE Leave(OS_EventTaskRdy(os, e, P, msg, "MBOX", "OK"), steps)
      BY <1>2, <2>3
    <2>4. CASE IsMbox(e) /\ Leave([os EXCEPT !.event[e].ptr = msg], <<>>)
      BY <1>1, <2>4
    <2> QED
      BY <1>6, <2>1, <2>2, <2>3, <2>4 DEF OSMboxPostOpt
  <1>7. ASSUME NEW all, OSMboxPendAbort(e, all) PROVE Typed(os')
    BY <1>2, <1>7 DEF OSMboxPendAbort
  <1>8. ASSUME OSMboxPend_Return PROVE Typed(os')
    BY <1>8, EndLeft DEF OSMboxPend_Return
  <1> QED
    BY <1>3, <1>4, <1>5, <1>6, <1>7, <1>8

LEMMA QTypes ==
  ASSUME TInv, Typed(os), NEW e \in EventIds
  PROVE  /\ OSQAccept(e) => Typed(os')
         /\ OSQFlush(e) => Typed(os')
         /\ \A timeout \in Timeouts : OSQPend(e, timeout) => Typed(os')
         /\ \A msg \in Msgs : OSQPost(e, msg) => Typed(os')
         /\ \A msg \in Msgs : OSQPostFront(e, msg) => Typed(os')
         /\ \A msg \in Msgs : \A broadcast, front, sched : OSQPostOpt(e, msg, broadcast, front, sched) => Typed(os')
         /\ \A all : OSQPendAbort(e, all) => Typed(os')
         /\ OSQPend_Return => Typed(os')
  <1>1. ASSUME IsQ(e), NEW v, Ring(v, OSQSize), Leave(WithQueue(e, v), <<>>)
        PROVE  Typed(os')
    <2>1. (IsMbox(e) /\ v \in Msgs \cup {None}) \/ (IsQ(e) /\ Ring(v, OSQSize))
      BY <1>1
    <2> QED
      BY <1>1, <2>1, PointerLeft DEF WithQueue
  <1>2. ASSUME NEW P, NEW msg \in Msgs \cup {None}, NEW pend, pend = "OK" \/ pend = "ABORT", NEW steps,
               Leave(OS_EventTaskRdy(os, e, P, msg, "Q", pend), steps)
        PROVE  Typed(os')
    BY <1>2, WakeLeft
  <1>3. ASSUME IsQ(e) PROVE Ring(Queue(e), OSQSize)
    BY <1>3 DEF IsQ, Queue, Typed, ValuesTyped, ValueTyped
  <1>4. ASSUME IsQ(e), Queue(e).entries > 0 PROVE Ring(Dequeue(Queue(e)), OSQSize)
    BY <1>3, <1>4, QueueAssumption, DequeueTakesFirst
  <1>5. ASSUME IsQ(e), ~IsFull(Queue(e)), NEW msg \in Msgs
        PROVE  Ring(Enqueue(Queue(e), msg), OSQSize) /\ Ring(EnqueueFront(Queue(e), msg), OSQSize)
    <2>1. msg \in Slot
      BY DEF Slot
    <2> QED
      BY <1>3, <1>5, <2>1, QueueAssumption, EnqueueAppends, EnqueueFrontPrepends
  <1>6. OSQAccept(e) => Typed(os')
    BY <1>1, <1>4 DEF OSQAccept
  <1>7. OSQFlush(e) => Typed(os')
    BY <1>1, <1>3, QueueAssumption, FlushEmpties DEF OSQFlush
  <1>8. ASSUME NEW timeout \in Timeouts, OSQPend(e, timeout) PROVE Typed(os')
    <2>1. timeout \in Nat /\ IsQ(e)
      BY <1>8, TimeoutsAssumption DEF OSQPend
    <2>2. PICK bits : bits = {"Q"}
      OBVIOUS
    <2>3. bits \subseteq StatBits
      BY <2>2 DEF StatBits, OS_STAT_PEND_ANY
    <2>4. CASE Queue(e).entries > 0 /\ Leave(WithQueue(e, Dequeue(Queue(e))), <<>>)
      BY <1>1, <1>4, <2>1, <2>4
    <2>5. CASE Leave(OS_EventTaskWait(StartPend(os, bits, timeout), e),
                     <<Sched, [op |-> "pend", event |-> e, type |-> "Q"]>>)
      BY <2>1, <2>3, <2>5, BlockLeft
    <2> QED
      BY <1>8, <2>2, <2>4, <2>5 DEF OSQPend
  <1>9. ASSUME NEW msg \in Msgs, OSQPost(e, msg) PROVE Typed(os')
    BY <1>1, <1>2, <1>5, <1>9 DEF OSQPost
  <1>10. ASSUME NEW msg \in Msgs, OSQPostFront(e, msg) PROVE Typed(os')
    BY <1>1, <1>2, <1>5, <1>10 DEF OSQPostFront
  <1>11. ASSUME NEW msg \in Msgs, NEW broadcast, NEW front, NEW sched, OSQPostOpt(e, msg, broadcast, front, sched)
         PROVE  Typed(os')
    <2>1. PICK steps : steps = IF sched THEN <<Sched>> ELSE <<>>
      OBVIOUS
    <2>2. PICK P : P = IF broadcast THEN Waiters(os, e) ELSE HighestWaiter(os, e)
      OBVIOUS
    <2>3. PICK q : q = IF front THEN EnqueueFront(Queue(e), msg) ELSE Enqueue(Queue(e), msg)
      OBVIOUS
    <2>4. CASE Leave(OS_EventTaskRdy(os, e, P, msg, "Q", "OK"), steps)
      BY <1>2, <2>4
    <2>5. CASE ~IsFull(Queue(e)) /\ Leave(WithQueue(e, q), <<>>)
      <3>1. IsQ(e)
        BY <1>11 DEF OSQPostOpt
      <3>2. Ring(q, OSQSize)
        BY <1>5, <2>3, <2>5, <3>1
      <3> QED
        BY <1>1, <2>5, <3>1, <3>2
    <2> QED
      BY <1>11, <2>1, <2>2, <2>3, <2>4, <2>5 DEF OSQPostOpt
  <1>12. ASSUME NEW all, OSQPendAbort(e, all) PROVE Typed(os')
    BY <1>2, <1>12 DEF OSQPendAbort
  <1>13. ASSUME OSQPend_Return PROVE Typed(os')
    BY <1>13, EndLeft DEF OSQPend_Return
  <1> QED
    BY <1>6, <1>7, <1>8, <1>9, <1>10, <1>11, <1>12, <1>13

LEMMA MultiTypes ==
  ASSUME TInv, Typed(os), MultiNext PROVE Typed(os')
  <1>1. Shape(os) /\ os.cur \in TCBs
    BY DataShape DEF TInv, Data
  <1>2. ASSUME NEW E, OSEventPendMulti_Take(E) PROVE Typed(os')
    <2> PICK ready : ready = {e \in E : Available(e)}
      OBVIOUS
    <2> PICK l : l = [os EXCEPT !.event = [e \in EventIds |-> IF e \in ready THEN TakeOne(e) ELSE os.event[e]]]
      OBVIOUS
    <2>1. os' = l
      BY <1>2 DEF OSEventPendMulti_Take, Leave
    <2>2. \A f \in Fields \ {"event"} : l[f] = os[f]
      BY <1>1 DEF Shape, Fields
    <2>3. \A e \in EventIds : l.event[e] = IF e \in ready THEN TakeOne(e) ELSE os.event[e]
      BY <1>1 DEF Shape, Fields
    <2>4. ASSUME NEW e \in EventIds, e \in ready PROVE ValueTyped(TakeOne(e))
      <3>1. DOMAIN os.event[e] = ECBFields /\ Available(e) /\ ValueTyped(os.event[e])
        BY <1>1, <2>4 DEF Shape, Typed, ValuesTyped
      <3>2. CASE IsSem(e)
        <4>1. os.event[e].cnt > 0 /\ os.event[e].cnt \in 0 .. OS_SEM_MAX
          BY <3>1, <3>2 DEF Available, IsSem, IsMbox, IsQ, ValueTyped
        <4>2. os.event[e].cnt - 1 \in 0 .. OS_SEM_MAX
          BY <4>1, CountAssumption
        <4>3. TakeOne(e).type = "SEM" /\ TakeOne(e).cnt = os.event[e].cnt - 1
          BY <3>1, <3>2 DEF TakeOne, IsSem, IsMbox, IsQ, ECBFields
        <4> QED
          BY <4>2, <4>3 DEF ValueTyped
      <3>3. CASE IsMbox(e)
        BY <3>1, <3>3 DEF TakeOne, IsSem, IsMbox, IsQ, ECBFields, ValueTyped
      <3>4. CASE IsQ(e)
        <4>1. Ring(Queue(e), OSQSize) /\ Queue(e).entries > 0
          BY <3>1, <3>4 DEF Available, IsSem, IsMbox, IsQ, ValueTyped, Queue
        <4>2. Ring(Dequeue(Queue(e)), OSQSize)
          BY <4>1, QueueAssumption, DequeueTakesFirst
        <4>3. PICK v : v = Dequeue(Queue(e))
          OBVIOUS
        <4>4. TakeOne(e) = [os.event[e] EXCEPT !.ptr = v]
          BY <3>4, <4>3 DEF TakeOne, IsSem, IsMbox, IsQ, Queue
        <4>5. TakeOne(e).type = "Q" /\ TakeOne(e).ptr = v
          BY <3>1, <3>4, <4>4 DEF IsQ, ECBFields
        <4> QED
          BY <4>2, <4>3, <4>5 DEF ValueTyped
      <3> QED
        BY <3>1, <3>2, <3>3, <3>4 DEF Available
    <2>5. l.tcb = os.tcb /\ l.flag = os.flag
      BY <2>2 DEF Fields
    <2> QED
      BY <2>1, <2>3, <2>4, <2>5 DEF Typed, ValuesTyped, TasksTyped, FlagsTyped
  <1>3. ASSUME NEW E \in SUBSET EventIds, NEW timeout \in Timeouts, OSEventPendMulti_Check(E),
               OSEventPendMulti_Wait(E, timeout)
        PROVE  Typed(os')
    <2>10. PICK bits : bits = {os.event[e].type : e \in E} \cup {"MULTI"}
      OBVIOUS
    <2>11. PICK m : m = StartPend(os, bits, timeout)
      OBVIOUS
    <2> PICK l : l = OS_EventTaskWaitMulti(m, E)
      OBVIOUS
    <2> PICK c : c = os.cur
      OBVIOUS
    <2>1. c \in TCBs /\ RunsIn(os, c)
      BY <1>1 DEF RunsIn
    <2>2. bits \subseteq StatBits
      <3>1. \A e \in E : os.event[e].type \in StatBits
        BY <1>3, <2>10 DEF OSEventPendMulti_Check, SeveralTypes, StatBits, OS_STAT_PEND_ANY
      <3>2. "MULTI" \in StatBits
        BY DEF StatBits
      <3> QED
        BY <2>10, <3>1, <3>2
    <2>3. timeout \in Nat
      BY TimeoutsAssumption
    <2>4. Shape(m) /\ Inert(os, m) /\ TasksTyped(m)
      BY <1>1, <2>1, <2>2, <2>3, <2>11, StartPendInert, StartPendTyped DEF Typed
    <2>5. m.cur = os.cur
      BY <1>1, <2>11 DEF StartPend, Shape, Fields
    <2>6. RunsIn(m, c)
      BY <2>1, <2>5 DEF RunsIn
    <2>7. Inert(m, l) /\ TasksTyped(l)
      BY <2>1, <2>4, <2>6, WaitMultiInert, WaitMultiTyped
    <2>8. Inert(os, l)
      BY <2>4, <2>7, InertTrans
    <2>9. os' = l
      BY <1>3, <2>10, <2>11 DEF OSEventPendMulti_Wait, Leave
    <2> QED
      BY <2>7, <2>8, <2>9, InertTyped
  <1>4. ASSUME OSEventPendMulti_Return PROVE Typed(os')
    <2>1. Proceed(os) \/ Proceed(EndPend(os, Now.events))
      BY <1>4 DEF OSEventPendMulti_Return
    <2> QED
      BY <2>1, EndLeft DEF Proceed, Leave
  <1> QED
    BY <1>2, <1>3, <1>4 DEF MultiNext, OSEventPendMulti

(* Event control blocks come and go. *)
LEMMA NewTyped ==
  /\ \A cnt \in 0 .. OS_SEM_MAX : ValueTyped(NewSem(cnt))
  /\ \A msg \in Msgs \cup {None} : ValueTyped(NewMbox(msg))
  /\ ValueTyped(NewQ)
  <1>1. \A cnt \in 0 .. OS_SEM_MAX : ValueTyped(NewSem(cnt))
    BY DEF NewSem, UnusedEvent, ValueTyped
  <1>2. \A msg \in Msgs \cup {None} : ValueTyped(NewMbox(msg))
    BY DEF NewMbox, UnusedEvent, ValueTyped
  <1>3. ValueTyped(NewQ)
    <2>1. PICK q : q = NewRing(OSQSize, None)
      OBVIOUS
    <2>2. None \in Slot
      BY DEF Slot
    <2>3. Ring(q, OSQSize)
      BY <2>1, <2>2, QueueAssumption, NewRingEmpty
    <2>4. NewQ = [UnusedEvent EXCEPT !.type = "Q", !.ptr = q]
      BY <2>1 DEF NewQ
    <2>5. NewQ.type = "Q" /\ NewQ.ptr = q
      BY <2>4 DEF UnusedEvent
    <2> QED
      BY <2>3, <2>5 DEF ValueTyped
  <1> QED
    BY <1>1, <1>2, <1>3

LEMMA CreateLeft ==
  ASSUME TInv, Typed(os), os.freeEvents # <<>>, NEW ecb, ValueTyped(ecb), NEW steps,
         Leave(NewEvent(os, ecb), steps)
  PROVE  Typed(os')
  <1>1. Shape(os)
    BY DataShape DEF TInv
  <1>2. PICK e : e = Head(os.freeEvents)
    OBVIOUS
  <1>3. PICK s : s = Tail(os.freeEvents)
    OBVIOUS
  <1>4. e \in EventIds
    BY <1>2, FirstFree
  <1>5. PICK l : l = [os EXCEPT !.event[e] = ecb, !.freeEvents = s]
    OBVIOUS
  <1>6. os' = l
    BY <1>1, <1>2, <1>3, <1>5 DEF Leave, NewEvent, Shape, Fields
  <1>7. /\ \A f \in Fields \ {"event", "freeEvents"} : l[f] = os[f]
        /\ l.event[e] = ecb /\ \A f \in EventIds : f # e => l.event[f] = os.event[f]
    BY <1>1, <1>4, <1>5 DEF Shape, Fields
  <1>8. l.tcb = os.tcb /\ l.flag = os.flag
    BY <1>7 DEF Fields
  <1> QED
    BY <1>6, <1>7, <1>8 DEF Typed, TasksTyped, ValuesTyped, FlagsTyped

LEMMA DeleteLeft ==
  ASSUME TInv, KInv, Typed(os), NEW c, AtTask(c), NEW e \in EventIds, NEW msk \in {"SEM", "MBOX", "Q"},
         os.event[e].type = msk,
         NEW m, m = OS_EventTaskRdy(os, e, Waiters(os, e), None, msk, "OK"),
         NEW l, \/ msk # "Q" /\ l = FreeEvent(m, e)
                \/ msk = "Q" /\ l = [FreeEvent(m, e) EXCEPT !.freeQs = @ + 1],
         NEW steps, Leave(l, steps)
  PROVE  Typed(os')
  <1>1. Shape(os) /\ Data(os) /\ Core(os, Live, Waiting)
    BY DataShape DEF TInv
  <1>2. Inert(os, m)
    BY <1>1, WakeInert
  <1>3. TasksTyped(m)
    BY <1>1, WakeTyped DEF Typed
  <1>4. Typed(m)
    BY <1>2, <1>3, InertTyped
  <1>5. Data(m)
    <2>1. msk \in EventKinds /\ "OK" \in Answers /\ Waiters(os, e) \in SUBSET Waiters(os, e)
      BY DEF EventKinds, Answers
    <2>2. WakeDone(os, m, Live, Waiting, e, Waiters(os, e))
      BY <1>1, <2>1, WakeCore
    <2> QED
      BY <2>2 DEF WakeDone
  <1>6. /\ l.tcb = m.tcb /\ l.prioTbl = m.prioTbl /\ l.list = m.list /\ l.free = m.free
        /\ l.flag = m.flag /\ l.freeFlags = m.freeFlags
        /\ l.freeEvents = <<e>> \o m.freeEvents
        /\ (\A f \in EventIds : f # e => l.event[f] = m.event[f]) /\ l.event[e].type = "UNUSED"
    BY <1>5, FreedShape
  <1>7. os' = l
    BY DEF Leave
  <1> QED
    BY <1>4, <1>6, <1>7 DEF Typed, TasksTyped, ValuesTyped, ValueTyped, FlagsTyped

LEMMA DelTypes ==
  ASSUME TInv, KInv, Typed(os), NEW e \in EventIds, NEW always,
         OSSemDel(e, always) \/ OSMboxDel(e, always) \/ OSQDel(e, always)
  PROVE  Typed(os')
  <1> PICK steps : steps = IF HasWaiter(os, e) THEN <<Sched>> ELSE <<>>
    OBVIOUS
  <1>1. CASE OSSemDel(e, always)
    <2>1. PICK m : m = OS_EventTaskRdy(os, e, Waiters(os, e), None, "SEM", "OK")
      OBVIOUS
    <2>2. PICK l : l = FreeEvent(m, e)
      OBVIOUS
    <2>3. AtTask("OSSemDel") /\ os.event[e].type = "SEM" /\ Leave(l, steps)
      BY <1>1, <2>1, <2>2 DEF OSSemDel, IsSem
    <2> QED
      BY <2>1, <2>2, <2>3, DeleteLeft
  <1>2. CASE OSMboxDel(e, always)
    <2>1. PICK m : m = OS_EventTaskRdy(os, e, Waiters(os, e), None, "MBOX", "OK")
      OBVIOUS
    <2>2. PICK l : l = FreeEvent(m, e)
      OBVIOUS
    <2>3. AtTask("OSMboxDel") /\ os.event[e].type = "MBOX" /\ Leave(l, steps)
      BY <1>2, <2>1, <2>2 DEF OSMboxDel, IsMbox
    <2> QED
      BY <2>1, <2>2, <2>3, DeleteLeft
  <1>3. CASE OSQDel(e, always)
    <2>1. PICK m : m = OS_EventTaskRdy(os, e, Waiters(os, e), None, "Q", "OK")
      OBVIOUS
    <2>2. PICK l : l = [FreeEvent(m, e) EXCEPT !.freeQs = @ + 1]
      OBVIOUS
    <2>3. AtTask("OSQDel") /\ os.event[e].type = "Q" /\ Leave(l, steps)
      BY <1>3, <2>1, <2>2 DEF OSQDel, IsQ
    <2> QED
      BY <2>1, <2>2, <2>3, DeleteLeft
  <1> QED
    BY <1>1, <1>2, <1>3

LEMMA QCreateTypes ==
  ASSUME TInv, Typed(os), OSQCreate \/ OSQCreate_Q PROVE Typed(os')
  <1>1. Shape(os)
    BY DataShape DEF TInv
  <1>2. CASE OSQCreate
    <2>1. PICK s : s = Tail(os.freeEvents)
      OBVIOUS
    <2>2. PICK l : l = [os EXCEPT !.freeEvents = s]
      OBVIOUS
    <2>3. os' = l
      BY <1>1, <1>2, <2>1, <2>2 DEF OSQCreate, Leave, Shape, Fields
    <2>4. \A f \in Fields \ {"freeEvents"} : l[f] = os[f]
      BY <1>1, <2>2 DEF Shape, Fields
    <2>5. l.tcb = os.tcb /\ l.flag = os.flag /\ l.event = os.event
      BY <2>4 DEF Fields
    <2> QED
      BY <2>3, <2>5 DEF Typed, TasksTyped, ValuesTyped, FlagsTyped
  <1>3. CASE OSQCreate_Q
    <2>1. PICK e : e = Now.event
      OBVIOUS
    <2>2. PICK q : q = NewQ
      OBVIOUS
    <2>3. PICK s : s = <<e>> \o os.freeEvents
      OBVIOUS
    <2>4. PICK l : l = IF os.freeQs > 0 THEN [os EXCEPT !.freeQs = @ - 1, !.event[e] = q]
                       ELSE [os EXCEPT !.freeEvents = s]
      OBVIOUS
    <2>5. os' = l
      <3>1. CASE os.freeQs > 0
        BY <1>1, <1>3, <2>1, <2>2, <2>4, <3>1 DEF OSQCreate_Q, Leave
      <3>2. CASE ~(os.freeQs > 0)
        BY <1>1, <1>3, <2>1, <2>3, <2>4, <3>2 DEF OSQCreate_Q, Leave, Shape, Fields
      <3> QED
        BY <3>1, <3>2
    <2>6. /\ \A f \in Fields \ {"freeQs", "event", "freeEvents"} : l[f] = os[f]
          /\ \A f \in EventIds : l.event[f] = os.event[f] \/ l.event[f] = q
      <3>1. CASE os.freeQs > 0
        BY <1>1, <2>4, <3>1 DEF Shape, Fields
      <3>2. CASE ~(os.freeQs > 0)
        BY <1>1, <2>4, <3>2 DEF Shape, Fields
      <3> QED
        BY <3>1, <3>2
    <2>7. l.tcb = os.tcb /\ l.flag = os.flag
      BY <2>6 DEF Fields
    <2>8. ValueTyped(q)
      BY <2>2, NewTyped
    <2> QED
      BY <2>5, <2>6, <2>7, <2>8 DEF Typed, TasksTyped, ValuesTyped, FlagsTyped
  <1> QED
    BY <1>2, <1>3

LEMMA EventTypes ==
  ASSUME TInv, KInv, Typed(os), SemNext \/ MboxNext \/ QNext PROVE Typed(os')
  <1>1. ASSUME NEW cnt \in 0 .. OS_SEM_MAX, OSSemCreate(cnt) PROVE Typed(os')
    BY <1>1, NewTyped, CreateLeft DEF OSSemCreate
  <1>2. ASSUME NEW msg \in Msgs \cup {None}, OSMboxCreate(msg) PROVE Typed(os')
    BY <1>2, NewTyped, CreateLeft DEF OSMboxCreate
  <1>3. ASSUME OSSemPend_Return \/ OSMboxPend_Return \/ OSQPend_Return PROVE Typed(os')
    BY <1>3, EndLeft DEF OSSemPend_Return, OSMboxPend_Return, OSQPend_Return
  <1>4. CASE SemNext
    <2>1. ASSUME NEW e \in EventIds, NEW all, OSSemDel(e, all) \/ OSSemPendAbort(e, all) PROVE Typed(os')
      BY <2>1, SemTypes, DelTypes
    <2>2. ASSUME NEW e \in EventIds, OSSemAccept(e) \/ OSSemPost(e) PROVE Typed(os')
      BY <2>2, SemTypes
    <2>3. ASSUME NEW e \in EventIds, NEW timeout \in Timeouts, OSSemPend(e, timeout) PROVE Typed(os')
      BY <2>3, SemTypes
    <2>4. ASSUME NEW e \in EventIds, NEW cnt \in 0 .. OS_SEM_MAX, OSSemSet(e, cnt) PROVE Typed(os')
      BY <2>4, SemTypes
    <2> QED
      BY <1>1, <1>3, <1>4, <2>1, <2>2, <2>3, <2>4 DEF SemNext
  <1>5. CASE MboxNext
    <2>1. ASSUME NEW e \in EventIds, NEW all, OSMboxDel(e, all) \/ OSMboxPendAbort(e, all) PROVE Typed(os')
      BY <2>1, MboxTypes, DelTypes
    <2>2. ASSUME NEW e \in EventIds, OSMboxAccept(e) PROVE Typed(os')
      BY <2>2, MboxTypes
    <2>3. ASSUME NEW e \in EventIds, NEW timeout \in Timeouts, OSMboxPend(e, timeout) PROVE Typed(os')
      BY <2>3, MboxTypes
    <2>4. ASSUME NEW e \in EventIds, NEW msg \in Msgs, OSMboxPost(e, msg) PROVE Typed(os')
      BY <2>4, MboxTypes
    <2>5. ASSUME NEW e \in EventIds, NEW msg \in Msgs, NEW broadcast, NEW sched,
                 OSMboxPostOpt(e, msg, broadcast, sched)
          PROVE  Typed(os')
      BY <2>5, MboxTypes
    <2> QED
      BY <1>2, <1>3, <1>5, <2>1, <2>2, <2>3, <2>4, <2>5 DEF MboxNext
  <1>6. CASE QNext
    <2>1. ASSUME NEW e \in EventIds, NEW all, OSQDel(e, all) \/ OSQPendAbort(e, all) PROVE Typed(os')
      BY <2>1, QTypes, DelTypes
    <2>2. ASSUME NEW e \in EventIds, OSQAccept(e) \/ OSQFlush(e) PROVE Typed(os')
      BY <2>2, QTypes
    <2>3. ASSUME NEW e \in EventIds, NEW timeout \in Timeouts, OSQPend(e, timeout) PROVE Typed(os')
      BY <2>3, QTypes
    <2>4. ASSUME NEW e \in EventIds, NEW msg \in Msgs, OSQPost(e, msg) \/ OSQPostFront(e, msg) PROVE Typed(os')
      BY <2>4, QTypes
    <2>5. ASSUME NEW e \in EventIds, NEW msg \in Msgs, NEW broadcast, NEW front, NEW sched,
                 OSQPostOpt(e, msg, broadcast, front, sched)
          PROVE  Typed(os')
      BY <2>5, QTypes
    <2> QED
      BY <1>3, <1>6, <2>1, <2>2, <2>3, <2>4, <2>5, QCreateTypes DEF QNext
  <1> QED
    BY <1>4, <1>5, <1>6

(***************************************************************************)
(* Event flag groups.                                                      *)
(***************************************************************************)
LEMMA FlagsRdyTyped ==
  ASSUME NEW F, F \subseteq FlagBits, NEW d \in Conditions PROVE FlagsRdy(F, d) \subseteq FlagBits
  <1>1. d.flags \subseteq FlagBits
    BY DEF Conditions
  <1> QED
    BY <1>1 DEF FlagsRdy

LEMMA ConsumedTyped ==
  ASSUME NEW F, F \subseteq FlagBits, NEW rdy, rdy \subseteq FlagBits, NEW d PROVE Consumed(F, rdy, d) \subseteq FlagBits
  BY DEF Consumed

(* Control blocks of tasks and flag groups change, events do not. *)
LEMMA FlagsLeft ==
  ASSUME NEW k, NEW l, Typed(k), l.event = k.event, TasksTyped(l), FlagsTyped(l) PROVE Typed(l)
  BY DEF Typed, ValuesTyped

LEMMA TakeTyped ==
  ASSUME Shape(os), Typed(os), NEW g \in FlagIds, NEW d \in Conditions, NEW consume \in BOOLEAN,
         NEW m, m = Take(g, d, consume)
  PROVE  Shape(m) /\ Typed(m)
  <1>1. PICK rdy : rdy = FlagsRdy(os.flag[g].flags, d)
    OBVIOUS
  <1>2. os.flag[g].flags \subseteq FlagBits
    BY DEF Typed, FlagsTyped
  <1>3. rdy \subseteq FlagBits
    BY <1>1, <1>2, FlagsRdyTyped
  <1>4. Consumed(os.flag[g].flags, rdy, d) \subseteq FlagBits
    BY <1>2, <1>3, ConsumedTyped
  <1>5. /\ Shape(m) /\ m.event = os.event /\ m.tcb = os.tcb
        /\ \A h \in FlagIds : h # g => m.flag[h].flags = os.flag[h].flags
        /\ \/ m.flag[g].flags = os.flag[g].flags
           \/ m.flag[g].flags = Consumed(os.flag[g].flags, rdy, d)
    BY <1>1, TakeParts
  <1>6. FlagsTyped(m)
    <2> SUFFICES ASSUME NEW h \in FlagIds PROVE m.flag[h].flags \subseteq FlagBits
      BY DEF FlagsTyped
    <2>1. os.flag[h].flags \subseteq FlagBits
      BY DEF Typed, FlagsTyped
    <2> QED
      BY <1>4, <1>5, <2>1
  <1> QED
    BY <1>5, <1>6, FlagsLeft DEF Typed, TasksTyped

LEMMA FlagPendTypes ==
  ASSUME TInv, Typed(os), NEW g \in FlagIds, NEW d \in Conditions, NEW consume \in BOOLEAN,
         NEW timeout \in Timeouts, OSFlagPend(g, d, consume, timeout)
  PROVE  Typed(os')
  <1>1. Shape(os)
    BY DataShape DEF TInv
  <1>2. PICK c : c = os.cur
    OBVIOUS
  <1>3. c \in TCBs /\ RunsIn(os, c)
    BY <1>2 DEF TInv, Data, RunsIn
  <1>4. CASE Satisfied(os.flag[g].flags, d)
    <2>1. PICK m : m = Take(g, d, consume)
      OBVIOUS
    <2>2. PICK rdy : rdy = FlagsRdy(os.flag[g].flags, d)
      OBVIOUS
    <2>3. PICK y : y = [m.tcb[c] EXCEPT !.flagsRdy = rdy]
      OBVIOUS
    <2>4. Shape(m) /\ Typed(m)
      BY <1>1, <2>1, TakeTyped
    <2>5. PICK l : l = [m EXCEPT !.tcb[c] = y]
      OBVIOUS
    <2>6. os' = l
      BY <1>2, <1>3, <1>4, <2>1, <2>2, <2>3, <2>4, <2>5 DEF OSFlagPend, Leave, Shape
    <2>7. rdy \subseteq FlagBits
      BY <2>2, FlagsRdyTyped DEF Typed, FlagsTyped
    <2>8. m.tcb[c] \in TCB
      BY <1>3, <2>4 DEF Typed, TasksTyped
    <2>9. y \in TCB
      BY <2>3, <2>7, <2>8 DEF TCB
    <2>10. TasksTyped(l)
      BY <1>3, <2>4, <2>5, <2>9, OneBlock DEF Typed
    <2>11. l.event = m.event /\ l.flag = m.flag
      BY <2>4, <2>5 DEF Shape, Fields
    <2> QED
      BY <2>4, <2>6, <2>10, <2>11, FlagsLeft DEF Typed, FlagsTyped
  <1>5. CASE ~Satisfied(os.flag[g].flags, d)
    <2>1. PICK l : l = OS_FlagBlock(g, d, timeout)
      OBVIOUS
    <2>2. os' = l
      BY <1>5, <2>1 DEF OSFlagPend, Leave
    <2>3. Apart(os, l) /\ SameFlags(os, l)
      BY <1>1, <1>3, <2>1, FlagBlockApart
    <2>4. timeout \in Nat
      BY TimeoutsAssumption
    <2>5. TasksTyped(l)
      BY <1>1, <1>3, <2>1, <2>4, FlagBlockTyped DEF Typed
    <2> QED
      BY <2>2, <2>3, <2>5, ApartTyped
  <1> QED
    BY <1>4, <1>5

LEMMA FlagReturnTypes ==
  ASSUME TInv, Typed(os), OSFlagPend_Return PROVE Typed(os')
  <1>1. Shape(os)
    BY DataShape DEF TInv
  <1>2. PICK c : c = os.cur
    OBVIOUS
  <1>3. Step("flag") /\ "flag" \in WaitOps
    BY DEF OSFlagPend_Return, WaitOps
  <1>4. /\ isr = "none" /\ At(os.cur) = "flag" /\ c \in TCBs
        /\ Steps(pc[os.cur]) /\ NextOp(pc[os.cur]) = "flag" /\ Now = Head(pc[os.cur])
        /\ Waiting[os.cur] = WaitOf(pc[os.cur]) /\ os.running
    BY <1>2, <1>3, StepCaller
  <1>5. Waiting[c] = Now /\ Now.op = "flag" /\ Now \in WaitStep
    BY <1>2, <1>3, <1>4, NextStep DEF NextOp
  <1>6. Now.grp \in FlagIds
    <2>1. c \in Live
      BY <1>2, <1>4, OrdinaryRunning
    <2> QED
      BY <1>5, <2>1, WaitTypes
  <1>7. CASE Cur.pend # "OK"
    <2>1. PICK m : m = OS_FlagUnlink(os, c)
      OBVIOUS
    <2>2. PICK x : x = m.tcb[c]
      OBVIOUS
    <2>3. PICK y : y = [x EXCEPT !.pend = "OK", !.stat = {}]
      OBVIOUS
    <2>4. PICK l : l = [m EXCEPT !.tcb[c] = y]
      OBVIOUS
    <2>5. Shape(m) /\ Apart(os, m) /\ SameFlags(os, m) /\ TasksTyped(m)
      BY <1>1, <1>4, <2>1, UnlinkApart, UnlinkTyped DEF Typed
    <2>6. l = [m EXCEPT !.tcb[c].pend = "OK", !.tcb[c].stat = {}]
      BY <1>4, <2>2, <2>3, <2>4, <2>5 DEF Shape, Fields
    <2>7. os' = l
      BY <1>2, <1>7, <2>1, <2>6 DEF OSFlagPend_Return, Proceed, Leave
    <2>8. x \in TCB
      BY <1>4, <2>2, <2>5 DEF TasksTyped
    <2>9. y \in TCB
      BY <2>3, <2>8 DEF TCB
    <2>10. TasksTyped(l)
      BY <1>4, <2>4, <2>5, <2>9, OneBlock
    <2>11. l.event = m.event /\ l.flag = m.flag
      BY <2>4, <2>5 DEF Shape, Fields
    <2>12. Typed(m)
      BY <2>5, ApartTyped
    <2> QED
      BY <2>7, <2>10, <2>11, <2>12, FlagsLeft DEF Typed, FlagsTyped
  <1>8. CASE Cur.pend = "OK" /\ Now.consume
    <2>1. PICK g : g = Now.grp
      OBVIOUS
    <2>2. PICK rdy : rdy = Cur.flagsRdy
      OBVIOUS
    <2>3. PICK d : d = Now.cond
      OBVIOUS
    <2>4. PICK v : v = Consumed(os.flag[g].flags, rdy, d)
      OBVIOUS
    <2>5. PICK l : l = [os EXCEPT !.flag[g].flags = v]
      OBVIOUS
    <2>6. os' = l /\ g \in FlagIds
      BY <1>6, <1>8, <2>1, <2>2, <2>3, <2>4, <2>5 DEF OSFlagPend_Return, Proceed, Leave
    <2>7. Reflagged(os, l, g, v)
      BY <1>1, <2>5, <2>6, ReflagParts
    <2>8. os.tcb[c] \in TCB
      BY <1>4 DEF Typed, TasksTyped
    <2>9. rdy \subseteq FlagBits
      BY <1>2, <2>2, <2>8 DEF Cur, TCB
    <2>10. os.flag[g].flags \subseteq FlagBits
      BY <2>6 DEF Typed, FlagsTyped
    <2>11. v \subseteq FlagBits
      BY <2>4, <2>9, <2>10, ConsumedTyped
    <2>12. FlagsTyped(l)
      BY <2>7, <2>11 DEF Reflagged, Typed, FlagsTyped
    <2> QED
      BY <2>6, <2>7, <2>12, FlagsLeft DEF Reflagged, Typed, TasksTyped
  <1>9. CASE Cur.pend = "OK" /\ ~Now.consume
    BY <1>9 DEF OSFlagPend_Return, Proceed, Leave
  <1> QED
    BY <1>7, <1>8, <1>9

LEMMA FlagPostTypes ==
  ASSUME TInv, Typed(os), NEW g \in FlagIds, NEW flags \in SUBSET FlagBits, NEW set, OSFlagPost(g, flags, set)
  PROVE  Typed(os')
  <1>1. Shape(os)
    BY DataShape DEF TInv
  <1>2. PICK F : F = IF set THEN os.flag[g].flags \cup flags ELSE os.flag[g].flags \ flags
    OBVIOUS
  <1>3. PICK S : S = {t \in os.flag[g].wait : Satisfied(F, os.tcb[t].node.cond)}
    OBVIOUS
  <1>4. PICK m : m = [os EXCEPT !.flag[g].flags = F]
    OBVIOUS
  <1>5. PICK R : R = [t \in S |-> FlagsRdy(F, os.tcb[t].node.cond)]
    OBVIOUS
  <1>6. PICK l : l = OS_FlagTaskRdy(m, S, R)
    OBVIOUS
  <1>7. os' = l
    BY <1>2, <1>3, <1>4, <1>5, <1>6 DEF OSFlagPost, Leave
  <1>8. os.flag[g].flags \subseteq FlagBits
    BY DEF Typed, FlagsTyped
  <1>9. F \subseteq FlagBits
    BY <1>2, <1>8
  <1>10. Reflagged(os, m, g, F)
    BY <1>1, <1>4, ReflagParts
  <1>11. FlagsTyped(m)
    BY <1>9, <1>10 DEF Reflagged, Typed, FlagsTyped
  <1>12. Typed(m) /\ Shape(m)
    BY <1>10, <1>11, FlagsLeft DEF Reflagged, Typed, TasksTyped
  <1>13. Apart(m, l) /\ SameFlags(m, l)
    BY <1>6, <1>12, GrantApart
  <1>14. \A t \in TCBs : t \in S => R[t] \subseteq FlagBits
    <2> SUFFICES ASSUME NEW t \in S PROVE R[t] \subseteq FlagBits
      OBVIOUS
    <2>1. Waiting[t] \in FlagStep /\ os.tcb[t].node.cond = Waiting[t].cond
      BY <1>3, FlagWaiter
    <2>2. Waiting[t].cond \in Conditions
      BY <2>1 DEF FlagStep
    <2> QED
      BY <1>5, <1>9, <2>1, <2>2, FlagsRdyTyped
  <1>15. TasksTyped(l)
    BY <1>6, <1>12, <1>14, GrantTyped DEF Typed
  <1> QED
    BY <1>7, <1>12, <1>13, <1>15, ApartTyped

LEMMA FlagGroupTypes ==
  ASSUME TInv, Typed(os)
  PROVE  /\ \A flags \in SUBSET FlagBits : OSFlagCreate(flags) => Typed(os')
         /\ \A g \in FlagIds : \A always : OSFlagDel(g, always) => Typed(os')
  <1>1. Shape(os)
    BY DataShape DEF TInv
  (* A group that is new or unused. *)
  <1>2. ASSUME NEW m, Shape(m), Typed(m), NEW g, NEW u, u.flags \subseteq FlagBits, NEW s,
               NEW l, l = [m EXCEPT !.flag[g] = u, !.freeFlags = s]
        PROVE  Typed(l)
    <2>1. \A f \in Fields \ {"flag", "freeFlags"} : l[f] = m[f]
      BY <1>2 DEF Shape, Fields
    <2>2. \A h \in FlagIds : l.flag[h] = m.flag[h] \/ l.flag[h] = u
      BY <1>2 DEF Shape, Fields
    <2>3. l.tcb = m.tcb /\ l.event = m.event
      BY <2>1 DEF Fields
    <2> QED
      BY <1>2, <2>2, <2>3 DEF Typed, TasksTyped, ValuesTyped, FlagsTyped
  <1>3. ASSUME NEW flags \in SUBSET FlagBits, OSFlagCreate(flags) PROVE Typed(os')
    <2>1. PICK g : g = Head(os.freeFlags)
      OBVIOUS
    <2>2. PICK s : s = Tail(os.freeFlags)
      OBVIOUS
    <2>3. PICK u : u = NewFlag(flags)
      OBVIOUS
    <2>4. PICK l : l = [os EXCEPT !.flag[g] = u, !.freeFlags = s]
      OBVIOUS
    <2>5. os' = l
      BY <1>1, <1>3, <2>1, <2>2, <2>3, <2>4 DEF OSFlagCreate, Leave, Shape, Fields
    <2>6. u.flags \subseteq FlagBits
      BY <2>3 DEF NewFlag
    <2> QED
      BY <1>1, <1>2, <2>4, <2>5, <2>6
  <1>4. ASSUME NEW g \in FlagIds, NEW always, OSFlagDel(g, always) PROVE Typed(os')
    <2>1. PICK S : S = os.flag[g].wait
      OBVIOUS
    <2>2. PICK R : R = [t \in S |-> {}]
      OBVIOUS
    <2>3. PICK m : m = OS_FlagTaskRdy(os, S, R)
      OBVIOUS
    <2>4. PICK u : u = UnusedFlag
      OBVIOUS
    <2>5. PICK s : s = <<g>> \o m.freeFlags
      OBVIOUS
    <2>6. PICK l : l = [m EXCEPT !.flag[g] = u, !.freeFlags = s]
      OBVIOUS
    <2>7. Shape(m) /\ Apart(os, m) /\ SameFlags(os, m)
      BY <1>1, <2>3, GrantApart
    <2>8. os' = l
      BY <1>4, <2>1, <2>2, <2>3, <2>4, <2>5, <2>6, <2>7 DEF OSFlagDel, Leave, Shape, Fields
    <2>9. \A t \in TCBs : t \in S => R[t] \subseteq FlagBits
      BY <2>2
    <2>10. TasksTyped(m)
      BY <1>1, <2>3, <2>9, GrantTyped DEF Typed
    <2>11. Typed(m)
      BY <2>7, <2>10, ApartTyped
    <2>12. u.flags \subseteq FlagBits
      BY <2>4 DEF UnusedFlag
    <2> QED
      BY <1>2, <2>6, <2>7, <2>8, <2>11, <2>12
  <1> QED
    BY <1>3, <1>4

LEMMA FlagTypes ==
  ASSUME TInv, app.conds \subseteq Conditions, Typed(os), FlagNext PROVE Typed(os')
  <1>1. ASSUME NEW g \in FlagIds, NEW d \in app.conds, NEW consume \in BOOLEAN, OSFlagAccept(g, d, consume)
        PROVE  Typed(os')
    <2>1. PICK m : m = Take(g, d, consume)
      OBVIOUS
    <2>2. os' = m
      BY <1>1, <2>1 DEF OSFlagAccept, Leave
    <2>3. Shape(os) /\ d \in Conditions
      BY DataShape DEF TInv
    <2> QED
      BY <2>1, <2>2, <2>3, TakeTyped
  <1>2. ASSUME NEW g \in FlagIds, NEW d \in app.conds, NEW consume \in BOOLEAN, NEW timeout \in Timeouts,
               OSFlagPend(g, d, consume, timeout)
        PROVE  Typed(os')
    BY <1>2, FlagPendTypes
  <1>3. ASSUME NEW g \in FlagIds, NEW flags \in SUBSET FlagBits, NEW set, OSFlagPost(g, flags, set)
        PROVE  Typed(os')
    BY <1>3, FlagPostTypes
  <1> QED
    BY <1>1, <1>2, <1>3, FlagGroupTypes, FlagReturnTypes DEF FlagNext

(***************************************************************************)
(* Tasks and time.                                                         *)
(***************************************************************************)
LEMMA StatTyped ==
  ASSUME NEW k, Shape(k), Typed(k), NEW t \in TCBs, NEW v, NEW m,
         \/ m = [k EXCEPT !.tcb[t].stat = v] /\ v \subseteq StatBits
         \/ m = [k EXCEPT !.tcb[t].dly = v] /\ v \in Nat
  PROVE  Shape(m) /\ Typed(m)
  <1>1. Shape(m) /\ Inert(k, m)
    BY StatInert
  <1>2. PICK y : y = IF m = [k EXCEPT !.tcb[t].stat = v] /\ v \subseteq StatBits
                     THEN [k.tcb[t] EXCEPT !.stat = v] ELSE [k.tcb[t] EXCEPT !.dly = v]
    OBVIOUS
  <1>3. k.tcb[t] \in TCB
    BY DEF Typed, TasksTyped
  <1>4. m = [k EXCEPT !.tcb[t] = y] /\ y \in TCB
    <2>1. CASE m = [k EXCEPT !.tcb[t].stat = v] /\ v \subseteq StatBits
      BY <1>2, <1>3, <2>1 DEF Shape, TCB
    <2>2. CASE ~(m = [k EXCEPT !.tcb[t].stat = v] /\ v \subseteq StatBits)
      BY <1>2, <1>3, <2>2 DEF Shape, TCB
    <2> QED
      BY <2>1, <2>2
  <1>5. TasksTyped(m)
    BY <1>4, OneBlock DEF Typed
  <1> QED
    BY <1>1, <1>5, InertTyped

LEMMA ReadyLeft ==
  ASSUME NEW k, Shape(k), Typed(k), NEW S, NEW l, l = MakeReady(k, S) \/ l = MakeUnready(k, S)
  PROVE  Typed(l)
  <1>1. Inert(k, l) /\ l.tcb = k.tcb
    BY ReadyInert, ReadyTyped
  <1>2. TasksTyped(l)
    BY <1>1 DEF Typed, TasksTyped
  <1> QED
    BY <1>1, <1>2, InertTyped

LEMMA DelReqTypes ==
  ASSUME TInv, Typed(os), NEW prio \in Prios, OSTaskDelReq(prio) PROVE Typed(os')
  <1>1. Shape(os)
    BY DataShape DEF TInv
  <1> PICK t : t = os.prioTbl[prio]
    OBVIOUS
  <1>2. t \in TCBs
    BY DEF OSTaskDelReq, Exists, TInv, Data
  <1>3. PICK y : y = [os.tcb[t] EXCEPT !.delReq = TRUE]
    OBVIOUS
  <1>4. PICK l : l = [os EXCEPT !.tcb[t] = y]
    OBVIOUS
  <1>5. Leave(l, <<>>)
    BY <1>1, <1>2, <1>3, <1>4 DEF OSTaskDelReq, Shape
  <1>6. os' = l
    BY <1>5, LeaveContinues
  <1>7. y \in TCB
    <2>1. os.tcb[t] \in TCB
      BY <1>2 DEF Typed, TasksTyped
    <2> QED
      BY <1>3, <2>1 DEF TCB
  <1>8. Inert(os, l)
    <2>1. DOMAIN y = TCBFields /\ y.flagsRdy = os.tcb[t].flagsRdy /\ y.node = os.tcb[t].node
      BY <1>1, <1>2, <1>3 DEF Shape, TCBFields
    <2> QED
      BY <1>1, <1>2, <1>4, <2>1, TCBInert
  <1>9. TasksTyped(l)
    BY <1>1, <1>2, <1>4, <1>7, OneBlock DEF Typed
  <1> QED
    BY <1>6, <1>8, <1>9, InertTyped

LEMMA SuspendTypes ==
  ASSUME TInv, Typed(os), NEW prio \in Prios,
         OSTaskSuspend(prio) \/ OSTaskResume(prio) \/ OSTimeDlyResume(prio)
  PROVE  Typed(os')
  <1>1. Shape(os) /\ \A t : t = Task(os, prio) /\ Exists(prio) => t \in TCBs /\ os.tcb[t].stat \subseteq StatBits
    BY DataShape DEF TInv, Data, Task, Exists, Typed, TasksTyped, TCB
  <1>2. PICK t : t = Task(os, prio)
    OBVIOUS
  <1>3. ASSUME OSTaskSuspend(prio) PROVE Typed(os')
    <2>1. PICK v : v = os.tcb[t].stat \cup {"SUSPEND"}
      OBVIOUS
    <2>2. PICK m : m = [os EXCEPT !.tcb[t].stat = v]
      OBVIOUS
    <2>3. PICK l : l = MakeUnready(m, {t})
      OBVIOUS
    <2>4. PICK steps : steps = IF t = os.cur THEN <<Sched>> ELSE <<>>
      OBVIOUS
    <2>5. Leave(l, steps) /\ Exists(prio)
      BY <1>1, <1>2, <1>3, <2>1, <2>2, <2>3, <2>4 DEF OSTaskSuspend, Shape
    <2>6. os' = l
      BY <2>5, LeaveContinues
    <2>7. v \subseteq StatBits /\ t \in TCBs
      BY <1>1, <1>2, <2>1, <2>5 DEF StatBits
    <2>8. Shape(m) /\ Typed(m)
      BY <1>1, <2>2, <2>7, StatTyped
    <2> QED
      BY <2>3, <2>6, <2>8, ReadyLeft
  <1>4. ASSUME OSTaskResume(prio) PROVE Typed(os')
    <2>1. PICK v : v = os.tcb[t].stat \ {"SUSPEND"}
      OBVIOUS
    <2>2. PICK m : m = [os EXCEPT !.tcb[t].stat = v]
      OBVIOUS
    <2>3. PICK l : l = MakeReady(m, {t})
      OBVIOUS
    <2>4. Exists(prio) /\ (Leave(l, <<Sched>>) \/ Leave(m, <<>>))
      BY <1>1, <1>2, <1>4, <2>1, <2>2, <2>3 DEF OSTaskResume, Shape
    <2>5. os' = l \/ os' = m
      BY <2>4, LeaveContinues
    <2>6. v \subseteq StatBits /\ t \in TCBs
      BY <1>1, <1>2, <2>1, <2>4
    <2>7. Shape(m) /\ Typed(m)
      BY <1>1, <2>2, <2>6, StatTyped
    <2>8. Typed(l)
      BY <2>3, <2>7, ReadyLeft
    <2> QED
      BY <2>5, <2>7, <2>8
  <1>5. ASSUME OSTimeDlyResume(prio) PROVE Typed(os')
    <2>1. PICK l : l = Expire(os, {t})
      OBVIOUS
    <2>2. PICK steps : steps = IF Suspended(os.tcb[t]) THEN <<>> ELSE <<Sched>>
      OBVIOUS
    <2>3. Leave(l, steps)
      BY <1>2, <1>5, <2>1, <2>2 DEF OSTimeDlyResume
    <2>4. os' = l
      BY <2>3, LeaveContinues
    <2>5. Inert(os, l) /\ TasksTyped(l)
      BY <1>1, <2>1, ExpireInert, ExpireTyped DEF Typed
    <2> QED
      BY <2>4, <2>5, InertTyped
  <1> QED
    BY <1>3, <1>4, <1>5

LEMMA DelayTypes ==
  ASSUME TInv, Typed(os), NEW ticks \in Nat, Delay(ticks) PROVE Typed(os')
  <1>1. Shape(os) /\ os.cur \in TCBs
    BY DataShape DEF TInv, Data
  <1>2. PICK t : t = os.cur
    OBVIOUS
  <1>3. PICK m : m = [os EXCEPT !.tcb[t].dly = ticks]
    OBVIOUS
  <1>4. PICK l : l = MakeUnready(m, {t})
    OBVIOUS
  <1>5. Leave(l, <<Sched>>)
    BY <1>2, <1>3, <1>4 DEF Delay
  <1>6. os' = l
    BY <1>5, LeaveContinues
  <1>7. Shape(m) /\ Typed(m)
    BY <1>1, <1>2, <1>3, StatTyped
  <1> QED
    BY <1>4, <1>6, <1>7, ReadyLeft

(* What OSTimeDlyHMSM makes of a time is a number of ticks. *)
LEMMA TicksAreNat ==
  ASSUME NEW c \in Clocks PROVE Ticks(c) \in Nat
  <1>1. OS_TICKS_PER_SEC \in Nat /\ OS_TICKS_PER_SEC > 0
    BY ClocksAssumption
  <1>2. c.h \in Nat /\ c.m \in Nat /\ c.s \in Nat /\ c.ms \in Nat
    BY ClocksAssumption
  <1>3. \A a, b \in Nat : a * b \in Nat
    OBVIOUS
  <1>4. PICK q : q = 500 \div OS_TICKS_PER_SEC
    OBVIOUS
  <1>5. q \in Nat
    BY <1>1, <1>4
  <1>6. PICK x : x = (c.h * 3600 + c.m * 60 + c.s) * OS_TICKS_PER_SEC
    OBVIOUS
  <1>7. c.h * 3600 + c.m * 60 + c.s \in Nat /\ c.ms + q \in Nat
    BY <1>2, <1>5
  <1>8. x \in Nat
    BY <1>1, <1>3, <1>6, <1>7
  <1>9. PICK y : y = OS_TICKS_PER_SEC * (c.ms + q)
    OBVIOUS
  <1>10. y \in Nat
    BY <1>1, <1>3, <1>7, <1>9
  <1>11. y \div 1000 \in Nat
    BY <1>10
  <1>12. Ticks(c) = x + y \div 1000
    BY <1>4, <1>6, <1>9 DEF Ticks
  <1> QED
    BY <1>8, <1>11, <1>12

(* A step that leaves the control blocks, the events and the flags alone.  *)
LEMMA NothingTyped ==
  ASSUME NEW k, NEW l, Typed(k), l.tcb = k.tcb, l.event = k.event, l.flag = k.flag PROVE Typed(l)
  BY DEF Typed, TasksTyped, ValuesTyped, ValueTyped, FlagsTyped

LEMMA CreationTypes ==
  ASSUME TInv, Typed(os)
  PROVE  /\ \A prio \in Prios : Create(prio) => Typed(os')
         /\ OSTaskCreate_Failed => Typed(os')
         /\ OS_TCBInit_Link => Typed(os')
         /\ OSTaskDel_Free => Typed(os')
  <1>1. DOMAIN os = Fields
    BY DEF TInv, Data
  <1>2. ASSUME NEW prio \in Prios, Create(prio) PROVE Typed(os')
    <2>1. PICK l : l = [os EXCEPT !.prioTbl[prio] = Reserved]
      OBVIOUS
    <2>2. PICK steps : steps = <<[op |-> "OS_TCBInit", prio |-> prio]>>
      OBVIOUS
    <2>3. os' = l
      BY <1>2, <2>1, <2>2, LeaveContinues DEF Create
    <2>4. l.tcb = os.tcb /\ l.event = os.event /\ l.flag = os.flag
      BY <1>1, <2>1 DEF Fields
    <2> QED
      BY <2>3, <2>4, NothingTyped
  <1>3. ASSUME OSTaskCreate_Failed PROVE Typed(os')
    <2>1. PICK l : l = [os EXCEPT !.prioTbl[Now.prio] = None]
      OBVIOUS
    <2>2. os' = l
      BY <1>3, <2>1, LeaveContinues DEF OSTaskCreate_Failed
    <2>3. l.tcb = os.tcb /\ l.event = os.event /\ l.flag = os.flag
      BY <1>1, <2>1 DEF Fields
    <2> QED
      BY <2>2, <2>3, NothingTyped
  <1>4. ASSUME OS_TCBInit_Link PROVE Typed(os')
    <2>1. PICK t : t = Now.tcb
      OBVIOUS
    <2>2. PICK m : m = [os EXCEPT !.prioTbl[Now.prio] = t, !.list = @ \cup {t}]
      OBVIOUS
    <2>3. PICK l : l = MakeReady(m, {t})
      OBVIOUS
    <2>4. os' = l
      BY <1>4, <2>1, <2>2, <2>3 DEF OS_TCBInit_Link
    <2>5. DOMAIN m = Fields /\ m.tcb = os.tcb /\ m.event = os.event /\ m.flag = os.flag
      BY <1>1, <2>2 DEF Fields
    <2>6. l.tcb = m.tcb /\ l.event = m.event /\ l.flag = m.flag
      BY <2>3, <2>5 DEF MakeReady, Fields
    <2> QED
      BY <2>4, <2>5, <2>6, NothingTyped
  <1>5. ASSUME OSTaskDel_Free PROVE Typed(os')
    <2>1. PICK l : l = [os EXCEPT !.lock = @ - 1, !.prioTbl[Now.prio] = None, !.list = @ \ {Now.tcb},
                                  !.free = <<Now.tcb>> \o @]
      OBVIOUS
    <2>2. os' = l
      BY <1>5, <2>1 DEF OSTaskDel_Free
    <2>3. l.tcb = os.tcb /\ l.event = os.event /\ l.flag = os.flag
      BY <1>1, <2>1 DEF Fields
    <2> QED
      BY <2>2, <2>3, NothingTyped
  <1> QED
    BY <1>2, <1>3, <1>4, <1>5

LEMMA TCBInitTypes ==
  ASSUME TInv, Typed(os), OS_TCBInit PROVE Typed(os')
  <1>1. /\ Shape(os) /\ Step("OS_TCBInit") /\ os.free \in Seq(TCBs \ os.list)
    BY DataShape DEF TInv, Creations, OS_TCBInit
  <1>2. /\ isr = "none" /\ At(os.cur) = "OS_TCBInit" /\ os.cur \in TCBs /\ Steps(pc[os.cur])
        /\ NextOp(pc[os.cur]) = "OS_TCBInit" /\ Now = Head(pc[os.cur])
    BY <1>1, StepCaller
  <1>3. Now.prio \in Prios
    BY <1>2, NextStep DEF CreationOps
  <1>4. PICK p \in Prios : p = Now.prio
    BY <1>3
  <1>5. PICK s : s = os.free
    OBVIOUS
  <1>6. PICK t : t = Head(s)
    OBVIOUS
  <1>7. PICK steps : steps = IF s = <<>> THEN <<[op |-> "rollback", prio |-> p]>>
                             ELSE <<[op |-> "link", tcb |-> t, prio |-> p]>>
    OBVIOUS
  <1>8. PICK rest : rest = Tail(s)
    OBVIOUS
  <1>9. PICK y : y = [NewTCB(p) EXCEPT !.flagsRdy = os.tcb[t].flagsRdy]
    OBVIOUS
  <1>10. PICK l : l = IF s = <<>> THEN os ELSE [os EXCEPT !.free = rest, !.tcb[t] = y]
    OBVIOUS
  <1>11. Leave(l, steps)
    <2>1. CASE s = <<>>
      BY <1>4, <1>5, <1>7, <1>10, <2>1 DEF OS_TCBInit
    <2>2. CASE s # <<>>
      BY <1>1, <1>4, <1>5, <1>6, <1>7, <1>8, <1>9, <1>10, <2>2 DEF OS_TCBInit, Shape
    <2> QED
      BY <2>1, <2>2
  <1>12. os' = l
    BY <1>11, LeaveContinues
  <1>13. CASE s = <<>>
    BY <1>10, <1>12, <1>13
  <1>14. CASE s # <<>>
    <2>1. t \in TCBs
      BY <1>1, <1>5, <1>6, <1>14
    <2>2. /\ l.event = os.event /\ l.flag = os.flag
          /\ l.tcb[t] = y /\ \A u \in TCBs : u # t => l.tcb[u] = os.tcb[u]
      BY <1>1, <1>10, <1>14, <2>1 DEF Shape, Fields
    <2>3. os.tcb[t].flagsRdy \subseteq FlagBits
      BY <2>1 DEF Typed, TasksTyped, TCB
    <2>4. NewTCB(p) \in TCB
      BY DEF NewTCB, TCB
    <2>5. y \in TCB
      BY <1>9, <2>3, <2>4 DEF TCB
    <2>6. TasksTyped(l) /\ FlagsTyped(l)
      BY <2>2, <2>5 DEF Typed, TasksTyped, FlagsTyped
    <2> QED
      BY <1>12, <2>2, <2>6, FlagsLeft
  <1> QED
    BY <1>13, <1>14

LEMMA DropTyped ==
  ASSUME NEW k, Shape(k), Typed(k), NEW t \in TCBs, NEW l, l = DelIn(k, t) PROVE TasksTyped(l)
  <1>1. PICK E : E = [u \in {t} |-> k.tcb[t].multi \cup ({k.tcb[t].event} \ {None})]
    OBVIOUS
  <1>2. PICK a : a = MakeUnready(k, {t})
    OBVIOUS
  <1>3. PICK b : b = OS_EventTaskRemoveMulti(a, E)
    OBVIOUS
  <1>4. PICK c : c = OS_FlagUnlink(b, t)
    OBVIOUS
  <1>5. PICK m : m = [c EXCEPT !.tcb[t].dly = 0, !.tcb[t].stat = {}, !.tcb[t].pend = "OK"]
    OBVIOUS
  <1>6. l = [m EXCEPT !.lock = @ + 1]
    BY <1>1, <1>2, <1>3, <1>4, <1>5 DEF DelIn, Drop
  <1>7. Shape(a) /\ a.tcb = k.tcb
    BY <1>2, ReadyInert, ReadyTyped
  <1>8. Shape(b) /\ b.tcb = a.tcb
    BY <1>3, <1>7, RemoveInert, RemoveTyped
  <1>9. TasksTyped(b)
    BY <1>7, <1>8 DEF Typed, TasksTyped
  <1>10. Shape(c) /\ TasksTyped(c)
    BY <1>4, <1>8, <1>9, UnlinkApart, UnlinkTyped
  <1>11. PICK x : x = c.tcb[t]
    OBVIOUS
  <1>12. PICK y : y = [x EXCEPT !.dly = 0, !.stat = {}, !.pend = "OK"]
    OBVIOUS
  <1>13. m = [c EXCEPT !.tcb[t] = y]
    BY <1>5, <1>10, <1>11, <1>12 DEF Shape, TCBFields, Fields
  <1>14. x \in TCB
    BY <1>10, <1>11 DEF TasksTyped
  <1>15. y \in TCB
    BY <1>12, <1>14 DEF TCB
  <1>16. TasksTyped(m) /\ DOMAIN m = Fields
    BY <1>10, <1>13, <1>15, OneBlock DEF Shape
  <1>17. l.tcb = m.tcb
    BY <1>6, <1>16 DEF Fields
  <1> QED
    BY <1>16, <1>17 DEF TasksTyped

LEMMA TaskDelTypes ==
  ASSUME TInv, Typed(os), NEW prio \in Prios, OSTaskDel(prio) PROVE Typed(os')
  <1>1. Shape(os) /\ DOMAIN os = Fields
    BY DataShape DEF TInv, Data
  <1> PICK t : t = Task(os, prio)
    OBVIOUS
  <1>2. PICK steps : steps = <<[op |-> "OS_Dummy", tcb |-> t, prio |-> prio]>>
    OBVIOUS
  <1>3. PICK l : l = DelIn(os, t)
    OBVIOUS
  <1>4. Exists(prio) /\ Leave(l, steps)
    <2>1. /\ Exists(prio)
          /\ Leave(DelIn(os, Task(os, prio)), <<[op |-> "OS_Dummy", tcb |-> Task(os, prio), prio |-> prio]>>)
      BY <1>1, DelInIs DEF OSTaskDel
    <2> QED
      BY <1>2, <1>3, <2>1
  <1>5. t \in TCBs
    BY <1>4 DEF Exists, Task, TInv, Data
  <1>6. os' = l
    BY <1>4, LeaveContinues
  <1>7. Apart(os, l) /\ SameFlags(os, l)
    BY <1>1, <1>3, <1>5, DropApart
  <1>8. TasksTyped(l)
    BY <1>1, <1>3, <1>5, DropTyped
  <1> QED
    BY <1>6, <1>7, <1>8, ApartTyped

LEMMA ChangePrioTypes ==
  ASSUME TInv, Typed(os), NEW old \in Prios, NEW new \in Prios, OSTaskChangePrio(old, new) PROVE Typed(os')
  <1>1. Shape(os)
    BY DataShape DEF TInv
  <1>2. PICK t : t = Task(os, old)
    OBVIOUS
  <1>3. t \in TCBs
    BY <1>2 DEF OSTaskChangePrio, Exists, Task, TInv, Data
  <1>4. PICK l : l = ChangePrio(os, t, new)
    OBVIOUS
  <1>5. os' = l
    BY <1>2, <1>4, LeaveContinues DEF OSTaskChangePrio
  <1>6. SameTypes(os, l) /\ SameStored(os, l)
    BY <1>1, <1>3, <1>4, ChangePrioSame
  <1>7. l.tcb = [os.tcb EXCEPT ![t].prio = new] /\ l.flag = os.flag
    BY <1>1, <1>4 DEF ChangePrio, Shape, Fields
  <1>8. TasksTyped(l)
    <2>1. ASSUME NEW u \in TCBs PROVE l.tcb[u] \in TCB
      <3>1. os.tcb[u] \in TCB
        BY DEF Typed, TasksTyped
      <3>2. l.tcb[u] = os.tcb[u] \/ l.tcb[u] = [os.tcb[u] EXCEPT !.prio = new]
        BY <1>1, <1>7 DEF Shape
      <3> QED
        BY <3>1, <3>2 DEF TCB
    <2> QED
      BY <2>1 DEF TasksTyped
  <1>9. ValuesTyped(l) /\ FlagsTyped(l)
    BY <1>6, <1>7 DEF Typed, ValuesTyped, ValueTyped, FlagsTyped, SameTypes, SameStored
  <1> QED
    BY <1>5, <1>8, <1>9 DEF Typed

LEMMA TaskTypes ==
  ASSUME TInv, Typed(os), TaskNext PROVE Typed(os')
  <1>1. ASSUME NEW old \in Prios, NEW new \in Prios, OSTaskChangePrio(old, new) PROVE Typed(os')
    BY <1>1, ChangePrioTypes
  <1>2. ASSUME NEW prio \in Prios, OSTaskCreate(prio) \/ OSTaskCreateExt(prio) PROVE Typed(os')
    BY <1>2, CreationTypes DEF OSTaskCreate, OSTaskCreateExt
  <1>3. ASSUME NEW prio \in Prios, OSTaskDel(prio) PROVE Typed(os')
    BY <1>3, TaskDelTypes
  <1>4. ASSUME NEW prio \in Prios \ {OS_TASK_IDLE_PRIO},
               OSTaskDelReq(prio) \/ OSTaskSuspend(prio) \/ OSTaskResume(prio) \/ OSTimeDlyResume(prio)
        PROVE  Typed(os')
    BY <1>4, DelReqTypes, SuspendTypes
  <1>5. ASSUME OS_TCBInit \/ OS_TCBInit_Link \/ OSTaskCreate_Failed \/ OSTaskDel_Free PROVE Typed(os')
    BY <1>5, TCBInitTypes, CreationTypes
  <1>6. ASSUME OS_TaskReturn PROVE Typed(os')
    <2>1. Cur.prio \in Prios
      BY DEF TInv, Data, Cur
    <2> QED
      BY <1>3, <1>6, <2>1 DEF OS_TaskReturn
  <1>7. ASSUME NEW ticks \in Timeouts, OSTimeDly(ticks) PROVE Typed(os')
    <2>1. ticks \in Nat
      BY TimeoutsAssumption
    <2> QED
      BY <1>7, <2>1, DelayTypes DEF OSTimeDly
  <1>8. ASSUME NEW c \in Clocks, OSTimeDlyHMSM(c) PROVE Typed(os')
    <2>1. PICK ticks : ticks = Ticks(c)
      OBVIOUS
    <2>2. ticks \in Nat
      BY <2>1, TicksAreNat
    <2> QED
      BY <1>8, <2>1, <2>2, DelayTypes DEF OSTimeDlyHMSM
  <1>9. \A prio \in Prios \ {OS_TASK_IDLE_PRIO} : prio \in Prios
    OBVIOUS
  <1> QED
    BY <1>1, <1>2, <1>3, <1>4, <1>5, <1>6, <1>7, <1>8, <1>9, Zenon DEF TaskNext

LEMMA TickTypes ==
  ASSUME TInv, Typed(os), OSTimeTick PROVE Typed(os')
  <1>1. Shape(os)
    BY DataShape DEF TInv
  <1>2. PICK D : D = {t \in os.list \ {Idle} : os.tcb[t].dly # 0}
    OBVIOUS
  <1>3. PICK m : m = [os EXCEPT !.tcb = [t \in TCBs |->
                        IF t \in D THEN [os.tcb[t] EXCEPT !.dly = @ - 1] ELSE os.tcb[t]]]
    OBVIOUS
  <1>4. PICK S : S = {t \in D : m.tcb[t].dly = 0}
    OBVIOUS
  <1>5. PICK l : l = Expire(m, S)
    OBVIOUS
  <1>6. os' = l
    BY <1>2, <1>3, <1>4, <1>5 DEF OSTimeTick
  <1>7. DOMAIN m = Fields /\ \A f \in Fields \ {"tcb"} : m[f] = os[f]
    BY <1>1, <1>3 DEF Shape, Fields
  <1>8. DOMAIN m.tcb = TCBs
        /\ \A t \in TCBs : /\ DOMAIN m.tcb[t] = TCBFields
                           /\ m.tcb[t].flagsRdy = os.tcb[t].flagsRdy /\ m.tcb[t].node = os.tcb[t].node
    BY <1>1, <1>3 DEF Shape, Fields, TCBFields
  <1>9. m.event = os.event
    BY <1>7 DEF Fields
  <1>10. Shape(m) /\ Inert(os, m)
    BY <1>1, <1>7, <1>8, <1>9, InertParts DEF Shape
  <1>11. TasksTyped(m)
    <2>1. ASSUME NEW t \in TCBs PROVE m.tcb[t] \in TCB
      <3>1. os.tcb[t] \in TCB /\ os.tcb[t].dly \in Nat
        BY DEF Typed, TasksTyped, TCB
      <3>2. CASE t \in D
        <4>1. os.tcb[t].dly - 1 \in Nat
          BY <1>2, <3>1, <3>2
        <4>2. m.tcb[t] = [os.tcb[t] EXCEPT !.dly = os.tcb[t].dly - 1]
          BY <1>1, <1>3, <3>2 DEF Shape, Fields, TCBFields
        <4> QED
          BY <3>1, <4>1, <4>2 DEF TCB
      <3>3. CASE t \notin D
        BY <1>1, <1>3, <3>1, <3>3 DEF Shape, Fields
      <3> QED
        BY <3>2, <3>3
    <2> QED
      BY <2>1 DEF TasksTyped
  <1>12. Inert(m, l) /\ TasksTyped(l)
    BY <1>5, <1>10, <1>11, ExpireInert, ExpireTyped
  <1>13. Typed(m)
    BY <1>10, <1>11, InertTyped
  <1> QED
    BY <1>6, <1>12, <1>13, InertTyped

LEMMA CoreTypes ==
  ASSUME TInv, KInv, Typed(os), OSStart \/ IntNext \/ OS_Sched \/ OSSchedLock \/ OSSchedUnlock
  PROVE  Typed(os')
  <1>1. Shape(os)
    BY DataShape DEF TInv
  <1>2. CASE OSStart
    <2>1. os'.tcb = os.tcb /\ os'.event = os.event /\ os'.flag = os.flag
      BY <1>1, <1>2 DEF OSStart, Shape, Fields
    <2> QED
      BY <2>1, NothingTyped
  <1>3. ASSUME os' = Switch(os) PROVE Typed(os')
    <2>1. Inert(os, os') /\ os'.tcb = os.tcb
      BY <1>1, <1>3, SwitchInert, SwitchTyped
    <2> QED
      BY <2>1, InertTyped DEF Typed, TasksTyped
  <1>4. CASE IntNext
    <2>1. ASSUME NEW kind, OSIntEnter(kind) PROVE Typed(os')
      BY <2>1 DEF OSIntEnter
    <2>2. ASSUME OSIntExit PROVE Typed(os')
      BY <1>3, <2>2 DEF OSIntExit
    <2> QED
      BY <1>4, <2>1, <2>2, TickTypes DEF IntNext
  <1>5. CASE OS_Sched
    BY <1>3, <1>5, LeaveContinues DEF OS_Sched, Proceed
  <1>6. CASE OSSchedLock \/ OSSchedUnlock
    <2>1. PICK v, steps : Leave([os EXCEPT !.lock = v], steps)
      <3>1. CASE OSSchedLock
        BY <3>1 DEF OSSchedLock
      <3>2. CASE OSSchedUnlock
        BY <3>2 DEF OSSchedUnlock
      <3> QED
        BY <1>6, <3>1, <3>2
    <2>2. os' = [os EXCEPT !.lock = v]
      BY <2>1, LeaveContinues
    <2>3. os'.tcb = os.tcb /\ os'.event = os.event /\ os'.flag = os.flag
      BY <1>1, <2>2 DEF Shape, Fields
    <2> QED
      BY <2>3, NothingTyped
  <1> QED
    BY <1>2, <1>4, <1>5, <1>6

LEMMA MemTypes ==
  ASSUME TInv, Typed(os), MemNext PROVE Typed(os')
  <1>1. DOMAIN os = Fields
    BY DEF TInv, Data
  <1>2. ASSUME NEW v, NEW steps, Leave([os EXCEPT !.mem = v], steps) PROVE Typed(os')
    <2>1. os' = [os EXCEPT !.mem = v]
      BY <1>2, LeaveContinues
    <2>2. os'.tcb = os.tcb /\ os'.event = os.event /\ os'.flag = os.flag
      BY <1>1, <2>1 DEF Fields
    <2> QED
      BY <2>2, NothingTyped
  <1>3. ASSUME OSMemCreate PROVE Typed(os')
    <2>1. PICK v : v = [os.mem EXCEPT !.headers = @ - 1]
      OBVIOUS
    <2>2. PICK steps : steps = <<[op |-> "OSMemCreate"]>>
      OBVIOUS
    <2>3. Leave([os EXCEPT !.mem = v], steps)
      BY <1>1, <1>3, <2>1, <2>2 DEF OSMemCreate, Fields
    <2> QED
      BY <1>2, <2>3
  <1>4. ASSUME OSMemCreate_Link PROVE Typed(os')
    <2>1. PICK v : v = [os.mem EXCEPT !.parts = Append(@, Partition)]
      OBVIOUS
    <2>2. Leave([os EXCEPT !.mem = v], <<>>)
      BY <1>1, <1>4, <2>1 DEF OSMemCreate_Link, Fields
    <2> QED
      BY <1>2, <2>2
  <1>5. ASSUME NEW p, OSMemGet(p) PROVE Typed(os')
    <2>1. PICK w : w = [free |-> Tail(os.mem.parts[p].free), nFree |-> os.mem.parts[p].nFree - 1,
                        held |-> os.mem.parts[p].held \cup {Head(os.mem.parts[p].free)}]
      OBVIOUS
    <2>2. PICK v : v = [os.mem EXCEPT !.parts[p] = w]
      OBVIOUS
    <2>3. Leave([os EXCEPT !.mem = v], <<>>)
      BY <1>1, <1>5, <2>1, <2>2 DEF OSMemGet, Fields
    <2> QED
      BY <1>2, <2>3
  <1>6. ASSUME NEW p, NEW b, OSMemPut(p, b) PROVE Typed(os')
    <2>1. PICK w : w = [free |-> <<b>> \o os.mem.parts[p].free, nFree |-> os.mem.parts[p].nFree + 1,
                        held |-> os.mem.parts[p].held \ {b}]
      OBVIOUS
    <2>2. PICK v : v = [os.mem EXCEPT !.parts[p] = w]
      OBVIOUS
    <2>3. Leave([os EXCEPT !.mem = v], <<>>)
      BY <1>1, <1>6, <2>1, <2>2 DEF OSMemPut, Fields
    <2> QED
      BY <1>2, <2>3
  <1> QED
    BY <1>3, <1>4, <1>5, <1>6, Zenon DEF MemNext

LEMMA MutexTypes ==
  ASSUME Ruled, Inv, Typed(os), MutexNext PROVE Typed(os')
  <1>1. /\ \A e \in EventIds : ~IsMutex(e)
        /\ "OSMutexCreate" \notin app.calls
    BY DEF Ruled, UsesMutexes, Inv, Rules, NoMutex, IsMutex
  <1>2. ~ \E pip \in Prios : OSMutexCreate(pip)
    BY <1>1 DEF OSMutexCreate, AtTask
  <1>3. ASSUME NEW e \in EventIds
        PROVE  /\ \A always \in BOOLEAN : ~OSMutexDel(e, always)
               /\ ~OSMutexAccept(e) /\ ~OSMutexPost(e)
               /\ \A timeout \in Timeouts : ~OSMutexPend(e, timeout)
    BY <1>1, Zenon DEF OSMutexDel, OSMutexAccept, OSMutexPost, OSMutexPend
  <1>4. OSMutexPend_Return
    BY <1>2, <1>3, Zenon DEF MutexNext
  <1> DEFINE E == {Now.event}
  <1>5. Proceed(EndPend(os, E))
    BY <1>4 DEF OSMutexPend_Return
  <1> HIDE DEF E
  <1> QED
    BY <1>5, EndLeft DEF Inv

(* Every step of the kernel keeps its data of the right types.             *)
LEMMA StepTypes ==
  ASSUME Ruled, KInv, Inv, Typed(os), [Next]_vars PROVE Typed(os')
  <1>1. TInv /\ app.conds \subseteq Conditions
    BY DEF Inv, Rules, Ruled, Supported
  <1>2. CASE OSStart \/ IntNext \/ OS_Sched \/ OSSchedLock \/ OSSchedUnlock
    BY <1>1, <1>2, CoreTypes
  <1>3. CASE TaskNext
    BY <1>1, <1>3, TaskTypes
  <1>4. CASE SemNext \/ MboxNext \/ QNext \/ MultiNext
    BY <1>1, <1>4, EventTypes, MultiTypes
  <1>5. CASE FlagNext \/ MutexNext \/ MemNext
    BY <1>1, <1>5, FlagTypes, MutexTypes, MemTypes
  <1>6. CASE CheckNext \/ UNCHANGED vars
    BY <1>6, CheckStutters DEF vars
  <1> QED
    BY <1>2, <1>3, <1>4, <1>5, <1>6, Zenon DEF Next

(***************************************************************************)
(* The interrupt state, and OSPrioCur before OSStart.                      *)
(***************************************************************************)
AtRest == isr \in {"none", "tick", "device", "exit"} /\ (~os.running => os.prioCur \in Prios)

LEMMA StepAtRest ==
  ASSUME KInv, AtRest, KInv', [Next]_vars PROVE AtRest'
  <1>1. ASSUME Serves PROVE AtRest'
    BY <1>1 DEF AtRest, Serves, Keeps, KInv
  <1>2. CASE OSStart
    BY <1>2 DEF OSStart, AtRest, KInv, Good, Fields
  <1>3. ASSUME os' = Switch(os), os.running PROVE os'.running
    BY <1>3, SwitchGood DEF KInv
  <1>4. CASE IntNext
    <2>1. ASSUME NEW kind \in {"tick", "device"}, OSIntEnter(kind) PROVE AtRest'
      BY <2>1 DEF OSIntEnter, AtRest
    <2>2. CASE OSTimeTick
      BY <2>2 DEF OSTimeTick, AtRest, KInv
    <2>3. CASE OSIntExit
      BY <1>3, <2>3 DEF OSIntExit, AtRest, KInv
    <2> QED
      BY <1>4, <2>1, <2>2, <2>3 DEF IntNext
  <1>5. CASE OS_Sched
    <2>1. os' = Switch(os) /\ isr' = isr /\ os.running
      BY <1>5 DEF OS_Sched, Proceed, Leave, Step
    <2> QED
      BY <1>3, <2>1 DEF AtRest
  <1>6. CASE OSSchedLock \/ OSSchedUnlock
    BY <1>1, <1>6, LockServes DEF KInv
  <1>7. CASE TaskNext
    BY <1>1, <1>7, TaskServes DEF KInv
  <1>8. CASE SemNext \/ MboxNext \/ QNext \/ MultiNext
    BY <1>1, <1>8, SemServes, MboxServes, QServes, MultiServes DEF KInv
  <1>9. CASE FlagNext \/ MutexNext \/ MemNext
    BY <1>1, <1>9, FlagServes, MutexServes, MemServes DEF KInv
  <1>10. CASE CheckNext \/ UNCHANGED vars
    BY <1>10, CheckStutters DEF vars, AtRest
  <1> QED
    BY <1>2, <1>4, <1>5, <1>6, <1>7, <1>8, <1>9, <1>10 DEF Next

LEMMA InitTypes ==
  ASSUME Ruled, Init PROVE Typed(os) /\ AtRest
  <1>1. app \in Profiles /\ Supported(app) /\ ~UsesMutexes(app) /\ os = InitOS /\ isr = "none"
    BY DEF Ruled, Init
  <1>2. app.tasks \in Seq(Prios \ {OS_TASK_IDLE_PRIO})
    BY <1>1 DEF Supported
  <1>3. os.tcb = InitTCBs /\ os.event = InitEvents /\ os.flag = InitFlags /\ os.prioCur = 0
    BY <1>1 DEF InitOS
  <1>4. OS_TASK_IDLE_PRIO \in Prios /\ 0 \in Prios
    <2>1. 0 \in RowSet /\ 0 \in BitSet /\ 0 * Width + 0 = 0 /\ OS_LOWEST_PRIO \in Int
      BY WidthAssumption, RowsAssumption DEF RowSet, BitSet, OS_LOWEST_PRIO
    <2>2. 0 \in Prios
      BY <2>1, Places
    <2> QED
      BY <2>1, <2>2 DEF Prios, OS_TASK_IDLE_PRIO
  <1>5. TasksTyped(os)
    <2>1. \A p \in Prios : NewTCB(p) \in TCB
      BY DEF NewTCB, TCB
    <2>2. \A t \in AppTasks : app.tasks[t] \in Prios
      BY <1>2 DEF AppTasks
    <2>3. \A t \in TCBs : \E p \in Prios : InitTCBs[t] = NewTCB(p)
      BY <1>4, <2>2 DEF InitTCBs, IdleTask
    <2> QED
      BY <1>3, <2>1, <2>3 DEF TasksTyped
  <1>6. ValuesTyped(os)
    <2>1. ValueTyped(UnusedEvent)
      BY DEF ValueTyped, UnusedEvent
    <2>2. \A pip : NewMutex(pip).type = "MUTEX"
      BY DEF NewMutex, UnusedEvent
    <2>3. \A e \in DOMAIN app.events : app.events[e].type # "MUTEX" /\ app.events[e] \in FirstEvents(app)
      BY <1>1 DEF UsesMutexes, Supported
    <2>4. \A e \in DOMAIN app.events : ValueTyped(app.events[e])
      BY <2>2, <2>3, NewTyped DEF FirstEvents
    <2>5. \A e \in EventIds : os.event[e] = IF e \in DOMAIN app.events THEN app.events[e] ELSE UnusedEvent
      BY <1>3 DEF InitEvents
    <2> QED
      BY <2>1, <2>4, <2>5 DEF ValuesTyped
  <1>7. FlagsTyped(os)
    <2>1. \A g \in DOMAIN app.flags : app.flags[g].flags \subseteq FlagBits
      BY <1>1 DEF Supported, NewFlag
    <2>2. \A g \in FlagIds : os.flag[g] = IF g \in DOMAIN app.flags THEN app.flags[g] ELSE UnusedFlag
      BY <1>3 DEF InitFlags
    <2> QED
      BY <2>1, <2>2 DEF FlagsTyped, UnusedFlag
  <1> QED
    BY <1>1, <1>3, <1>4, <1>5, <1>6, <1>7 DEF Typed, AtRest

LEMMA TypesOK ==
  ASSUME KInv, Inv, Typed(os), AtRest PROVE TypeOK
  <1>1. TInv /\ Data(os) /\ NoMutex(os)
    BY DEF Inv, TInv, Rules
  <1>2. os.tcb \in [TCBs -> TCB]
    BY DEF Typed, TasksTyped, KInv, Good, IsMap
  <1>3. os.prioTbl \in [Prios -> TCBs \cup {None, Reserved}]
    BY <1>1 DEF Data, KInv, Good, IsMap
  <1>4. \A e \in EventIds : /\ os.event[e].wait \in Table
                            /\ IsSem(e) => os.event[e].cnt \in 0 .. OS_SEM_MAX
                            /\ IsMbox(e) => os.event[e].ptr \in Msgs \cup {None}
                            /\ IsQ(e) => Queue(e) \in Rings(OSQSize) /\ RingOK(Queue(e))
                            /\ ~IsMutex(e)
    BY <1>1 DEF Data, Typed, ValuesTyped, ValueTyped, NoMutex, IsSem, IsMbox, IsQ, IsMutex, Queue, Ring
  <1>5. \A g \in FlagIds : os.flag[g].flags \subseteq FlagBits /\ os.flag[g].wait \subseteq TCBs
    BY <1>1 DEF Typed, FlagsTyped, TInv, Core
  <1>6. os.prioCur \in Prios
    <2>1. CASE ~os.running
      BY <2>1 DEF AtRest
    <2>2. CASE os.running
      BY <1>1, <2>2 DEF TInv, Running, Data
    <2> QED
      BY <2>1, <2>2
  <1> QED
    BY <1>1, <1>2, <1>3, <1>4, <1>5, <1>6 DEF TypeOK, Data, TInv, AtRest

(***************************************************************************)
(* The data of the kernel always has its types: every control block, every *)
(* count within OS_SEM_MAX, every queue a ring whose two places and number *)
(* of messages agree, the flags of a group among those there are, and a    *)
(* scheduler that is never unlocked more often than it was locked          *)
(* (OSSemPost, OSQPost, OSSchedUnlock, OSTimeTick).                        *)
(***************************************************************************)
THEOREM DataIsTyped ==
  ASSUME Ruled, ~PrioChangeOfWoken, ~DeletionRaces PROVE Spec => []TypeOK
  <1>1. Init => KInv /\ Inv /\ Typed(os) /\ AtRest
    BY InitGood, InitInv, InitTypes
  <1>2. KInv /\ Inv /\ Typed(os) /\ AtRest /\ [Next]_vars => KInv' /\ Inv' /\ Typed(os)' /\ AtRest'
    <2> SUFFICES ASSUME KInv, Inv, Typed(os), AtRest, [Next]_vars
                 PROVE  KInv' /\ Inv' /\ Typed(os)' /\ AtRest'
      OBVIOUS
    <2>1. KInv'
      BY NextInv
    <2>2. Inv'
      BY <2>1, StepKept
    <2>3. Typed(os')
      BY StepTypes
    <2> QED
      BY <2>1, <2>2, <2>3, StepAtRest
  <1>3. KInv /\ Inv /\ Typed(os) /\ AtRest => TypeOK
    BY TypesOK
  <1> QED
    BY <1>1, <1>2, <1>3, PTL DEF Spec

===============================================================================
