------------------------ MODULE KernelChannels_proofs -------------------------
(***************************************************************************)
(* Every step of the kernel is one that Channel allows, for any number of  *)
(* tasks, priorities, objects and messages.  What an event has handed out  *)
(* is what the tasks hold that it woke and that have not returned yet; a   *)
(* step changes it for the tasks it wakes, for the task that returns and   *)
(* for one that is deleted, and for nobody else.                           *)
(***************************************************************************)
EXTENDS KernelStocks_proofs

(***************************************************************************)
(* The tasks that event e has given something, and what it has handed out. *)
(***************************************************************************)
Given(x, w, e) == /\ e \in PendEvents(w) /\ x.pend = "OK" /\ ~Waits(x)
                  /\ x.multi # {} => x.event = e
Taker(t, e)    == t \in Live /\ Given(os.tcb[t], Waiting[t], e)
Takers(e, m)   == {t \in TCBs : Taker(t, e) /\ os.tcb[t].msg = m}
Hand(e) == [m \in Msgs \cup {None} |-> Cardinality(Takers(e, m))]
HandedIs == \A e \in EventIds : Handed(e) = Hand(e)

LEMMA AnsweredTakes ==
  ASSUME \A t \in TCBs : Steps(pc[t]), NEW e \in EventIds, NEW t \in TCBs
  PROVE  t \in Answered(e) <=> Taker(t, e)
  <1>1. PendsOn(t) = PendEvents(Waiting[t])
    BY PendsOnWaits
  <1>2. StillWaits(t) <=> Waits(os.tcb[t])
    BY DEF StillWaits, Waits
  <1>3. e \in PendEvents(Waiting[t]) => pc[t] # <<>>
    BY DEF Waiting, WaitOf, PendEvents, Sched
  <1> QED
    BY <1>1, <1>2, <1>3 DEF Answered, Taker, Given

LEMMA HandedTakers ==
  TInv => HandedIs
  <1> SUFFICES ASSUME TInv, NEW e \in EventIds PROVE Handed(e) = Hand(e)
    BY DEF HandedIs
  <1>1. \A t \in TCBs : t \in Answered(e) <=> Taker(t, e)
    BY AnsweredTakes DEF TInv
  <1>2. \A m : {t \in Answered(e) : os.tcb[t].msg = m} = Takers(e, m)
    BY <1>1 DEF Answered, Takers
  <1> QED
    BY <1>2 DEF Handed, Hand

LEMMA HandedAfter == TInv' => HandedIs'
  BY HandedTakers, PTL

(* What an event has stored. *)
StoredIn(ev) ==
  IF ev.type = "SEM" THEN [i \in 1 .. ev.cnt |-> Signal]
  ELSE IF ev.type = "MBOX" THEN IF ev.ptr = None THEN <<>> ELSE <<ev.ptr>>
  ELSE IF ev.type = "Q" THEN Contents(ev.ptr)
  ELSE <<>>
StoredIs == \A e \in EventIds : Stored(e) = StoredIn(os.event[e])

LEMMA StoredTypes == NoMutex(os) => StoredIs
  BY DEF NoMutex, StoredIs, Stored, StoredIn, IsSem, IsMbox, IsQ, IsMutex, Queue

LEMMA StoredAfter == NoMutex(os)' => StoredIs'
  BY StoredTypes, PTL

(* What a step does to a channel that has s stored and h handed out before *)
(* it and u and g after it.                                                *)
More(h, g, m, n) == g = [h EXCEPT ![m] = @ + n]
DoesTo(a, s, u, h, g) ==
  \/ /\ a.act = "put"
     /\ \/ a.n = 1 /\ u = Append(s, a.msg) /\ g = h
        \/ s = <<>> /\ More(h, g, a.msg, a.n) /\ u = s
  \/ /\ a.act = "front"
     /\ \/ a.n = 1 /\ u = <<a.msg>> \o s /\ g = h
        \/ s = <<>> /\ More(h, g, a.msg, a.n) /\ u = s
  \/ /\ a.act = "got"
     /\ \/ s # <<>> /\ a.msg = Head(s) /\ u = Tail(s) /\ g = h
        \/ h[a.msg] > 0 /\ More(h, g, a.msg, -1) /\ u = s
  \/ a.act = "clear" /\ \A m \in Msgs \cup {None} : g[m] >= h[m]
  \/ a.act = "gone" /\ u = s /\ \A m \in Msgs \cup {None} : g[m] <= h[m]
  \/ a.act = "none" /\ u = s /\ g = h
Promised == \A e \in EventIds : DoesTo(io'[e], StoredIn(os.event[e]), StoredIn(os'.event[e]), Hand(e), Hand(e)')

LEMMA PromiseKept ==
  ASSUME TInv, NoMutex(os), TInv', NoMutex(os'), Promised PROVE Ch!Next
  <1>1. HandedIs /\ HandedIs'
    BY HandedTakers, HandedAfter
  <1>2. StoredIs /\ StoredIs'
    BY StoredTypes, StoredAfter DEF NoMutex
  <1> SUFFICES ASSUME NEW e \in EventIds PROVE Ch!Does(e, io'[e])
    BY DEF Ch!Next
  <1>3. Handed(e) = Hand(e) /\ Handed(e)' = Hand(e)'
    BY <1>1 DEF HandedIs
  <1>4. Stored(e) = StoredIn(os.event[e]) /\ Stored(e)' = StoredIn(os'.event[e])
    BY <1>2 DEF StoredIs
  <1>5. DoesTo(io'[e], Stored(e), Stored(e)', Handed(e), Handed(e)')
    BY <1>3, <1>4 DEF Promised
  <1> HIDE DEF Promised
  <1> QED
    BY <1>5 DEF DoesTo, More, Ch!Does, Ch!Put, Ch!PutFront, Ch!Get, Ch!HandedMore, Ch!Clear, Ch!Gone, Ch!Quiet

(***************************************************************************)
(* What becomes of what an event has handed out.                           *)
(***************************************************************************)
(* Task t holds what it held of event e, or still nothing. *)
Holds(t, e)  == /\ Taker(t, e)' <=> Taker(t, e)
                /\ Taker(t, e) => os'.tcb[t].msg = os.tcb[t].msg /\ Waiting'[t] = Waiting[t]
HoldsAll(t)  == \A e \in EventIds : Holds(t, e)
Takes(t, e, m) == ~Taker(t, e) /\ Taker(t, e)' /\ os'.tcb[t].msg = m
Drops(t, e, m) == Taker(t, e) /\ os.tcb[t].msg = m /\ ~Taker(t, e)'

LEMMA TakersFinite ==
  ASSUME NEW e, NEW m PROVE IsFiniteSet(Takers(e, m)) /\ Cardinality(Takers(e, m)) \in Nat
  <1>1. IsFiniteSet(TCBs)
    BY SizesAssumption, FS_Interval DEF TCBs
  <1>2. Takers(e, m) \in SUBSET TCBs
    BY DEF Takers
  <1>3. IsFiniteSet(Takers(e, m))
    BY <1>1, <1>2, FS_Subset
  <1> QED
    BY <1>3, FS_CardinalityType

LEMMA TakersFiniteAfter ==
  ASSUME NEW e, NEW m PROVE IsFiniteSet(Takers(e, m)') /\ Cardinality(Takers(e, m)') \in Nat
  <1>1. IsFiniteSet(TCBs)
    BY SizesAssumption, FS_Interval DEF TCBs
  <1>2. Takers(e, m)' \in SUBSET TCBs
    BY DEF Takers
  <1>3. IsFiniteSet(Takers(e, m)')
    BY <1>1, <1>2, FS_Subset
  <1> QED
    BY <1>3, FS_CardinalityType

LEMMA TakersAre ==
  ASSUME NEW e, NEW m, NEW t
  PROVE  /\ t \in Takers(e, m) <=> t \in TCBs /\ Taker(t, e) /\ os.tcb[t].msg = m
         /\ t \in Takers(e, m)' <=> t \in TCBs /\ Taker(t, e)' /\ os'.tcb[t].msg = m
  BY DEF Takers

LEMMA HandKept ==
  ASSUME NEW e, \A t \in TCBs : Holds(t, e) PROVE Hand(e)' = Hand(e)
  <1>1. \A m : Takers(e, m)' = Takers(e, m)
    <2> SUFFICES ASSUME NEW m PROVE Takers(e, m)' = Takers(e, m)
      OBVIOUS
    <2>1. ASSUME NEW t PROVE t \in Takers(e, m)' <=> t \in Takers(e, m)
      BY TakersAre DEF Holds
    <2> QED
      BY <2>1
  <1> QED
    BY <1>1 DEF Hand

LEMMA HandIs ==
  ASSUME NEW e, NEW m \in Msgs \cup {None}
  PROVE  Hand(e)[m] = Cardinality(Takers(e, m)) /\ Hand(e)'[m] = Cardinality(Takers(e, m)')
  BY DEF Hand

LEMMA HandMore ==
  ASSUME NEW e, NEW m \in Msgs \cup {None}, NEW S \in SUBSET TCBs,
         \A t \in S : Takes(t, e, m), \A t \in TCBs : t \notin S => Holds(t, e)
  PROVE  More(Hand(e), Hand(e)', m, Cardinality(S))
  <1>1. Takers(e, m)' = Takers(e, m) \cup S
    BY TakersAre DEF Holds, Takes
  <1>2. Takers(e, m) \cap S = {}
    BY TakersAre DEF Takes
  <1>3. \A n : n # m => Takers(e, n)' = Takers(e, n)
    BY TakersAre DEF Holds, Takes
  <1>4. IsFiniteSet(S) /\ Cardinality(S) \in Nat
    <2>1. IsFiniteSet(TCBs)
      BY SizesAssumption, FS_Interval DEF TCBs
    <2>2. IsFiniteSet(S)
      BY <2>1, FS_Subset
    <2> QED
      BY <2>2, FS_CardinalityType
  <1>5. Cardinality(Takers(e, m)') = Cardinality(Takers(e, m)) + Cardinality(S)
    <2>1. Cardinality(Takers(e, m) \cup S) = Cardinality(Takers(e, m)) + Cardinality(S) - Cardinality({})
      BY <1>2, <1>4, TakersFinite, FS_Union
    <2> QED
      BY <1>1, <1>4, <2>1, TakersFinite, FS_EmptySet
  <1> QED
    BY <1>3, <1>5 DEF More, Hand

LEMMA HandLess ==
  ASSUME NEW e, NEW m \in Msgs \cup {None}, NEW t \in TCBs, Drops(t, e, m),
         \A u \in TCBs : u # t => Holds(u, e)
  PROVE  Hand(e)[m] > 0 /\ More(Hand(e), Hand(e)', m, -1)
  <1>1. Takers(e, m)' = Takers(e, m) \ {t} /\ t \in Takers(e, m)
    BY TakersAre DEF Holds, Drops
  <1>2. \A n : n # m => Takers(e, n)' = Takers(e, n)
    <2> SUFFICES ASSUME NEW n, n # m PROVE Takers(e, n)' = Takers(e, n)
      OBVIOUS
    <2>1. ASSUME NEW u PROVE u \in Takers(e, n)' <=> u \in Takers(e, n)
      BY TakersAre DEF Holds, Drops
    <2> QED
      BY <2>1
  <1>3. Cardinality(Takers(e, m)') = Cardinality(Takers(e, m)) - 1
    BY <1>1, TakersFinite, FS_RemoveElement
  <1>4. Cardinality(Takers(e, m)) > 0 /\ Cardinality(Takers(e, m)') = Cardinality(Takers(e, m)) + -1
    BY <1>3, TakersFinite, TakersFiniteAfter
  <1> QED
    BY <1>2, <1>4 DEF More, Hand

LEMMA HandGrown ==
  ASSUME NEW e, \A t \in TCBs : Taker(t, e) => Taker(t, e)' /\ os'.tcb[t].msg = os.tcb[t].msg
  PROVE  \A m \in Msgs \cup {None} : Hand(e)'[m] >= Hand(e)[m]
  <1> SUFFICES ASSUME NEW m \in Msgs \cup {None} PROVE Cardinality(Takers(e, m)') >= Cardinality(Takers(e, m))
    BY HandIs
  <1>1. Takers(e, m) \in SUBSET Takers(e, m)'
    BY TakersAre
  <1>2. Cardinality(Takers(e, m)) <= Cardinality(Takers(e, m)')
    BY <1>1, TakersFiniteAfter, FS_Subset
  <1> QED
    BY <1>2, TakersFinite, TakersFiniteAfter

LEMMA HandShrunk ==
  ASSUME NEW e, \A t \in TCBs : Taker(t, e)' => Taker(t, e) /\ os'.tcb[t].msg = os.tcb[t].msg
  PROVE  \A m \in Msgs \cup {None} : Hand(e)'[m] <= Hand(e)[m]
  <1> SUFFICES ASSUME NEW m \in Msgs \cup {None} PROVE Cardinality(Takers(e, m)') <= Cardinality(Takers(e, m))
    BY HandIs
  <1>1. Takers(e, m)' \in SUBSET Takers(e, m)
    BY TakersAre
  <1> QED
    BY <1>1, TakersFinite, FS_Subset

(***************************************************************************)
(* Who keeps what it holds.                                                *)
(***************************************************************************)
(* A task that gets nothing of any event. *)
Handless(t) == \A e \in EventIds : ~Taker(t, e)
(* Control block y is x but for what decides no answer. *)
SameAnswer(x, y) == /\ y.pend = x.pend /\ y.msg = x.msg /\ y.event = x.event /\ y.multi = x.multi
                    /\ Waits(y) <=> Waits(x)

LEMMA TakerIs ==
  ASSUME NEW t, NEW e
  PROVE  /\ Taker(t, e) <=> t \in Live /\ Given(os.tcb[t], Waiting[t], e)
         /\ Taker(t, e)' <=> t \in Live' /\ Given(os'.tcb[t], Waiting'[t], e)
  BY DEF Taker

LEMMA KeepsHands ==
  ASSUME NEW t, t \in Live' <=> t \in Live, Waiting'[t] = Waiting[t], SameAnswer(os.tcb[t], os'.tcb[t])
  PROVE  HoldsAll(t)
  BY TakerIs DEF HoldsAll, Holds, SameAnswer, Given

(* Who waits for no event, or still waits, or was told something else,     *)
(* gets nothing.                                                           *)
LEMMA GetsNothing ==
  ASSUME NEW t, t \in Live => Waiting[t].op \notin {"pend", "multi"} \/ os.tcb[t].pend # "OK" \/ Waits(os.tcb[t])
  PROVE  Handless(t)
  BY TakerIs DEF Handless, Given, PendEvents

LEMMA GotNothing ==
  ASSUME NEW t, t \in Live' => Waiting'[t].op \notin {"pend", "multi"} \/ os'.tcb[t].pend # "OK" \/ Waits(os'.tcb[t])
  PROVE  Handless(t)'
  BY TakerIs DEF Handless, Given, PendEvents

LEMMA HandlessHolds ==
  ASSUME NEW t, Handless(t), Handless(t)' PROVE HoldsAll(t)
  BY DEF Handless, HoldsAll, Holds

(***************************************************************************)
(* A semaphore is given without a message, and so is what a task that pends *)
(* for one takes.                                                          *)
(***************************************************************************)
Silent(w)  == w.op = "pend" /\ w.type \in {"SEM", "MUTEX"}
SignalOnly == \A t \in TCBs, e \in EventIds : Taker(t, e) /\ Silent(Waiting[t]) => os.tcb[t].msg = None

LEMMA SignalsKept ==
  ASSUME SignalOnly,
         \A t \in TCBs, e \in EventIds :
           \/ Holds(t, e) \/ ~Taker(t, e)'
           \/ ~Silent(Waiting'[t]) \/ os'.tcb[t].msg = None
  PROVE  SignalOnly'
  <1> SUFFICES ASSUME NEW t \in TCBs, NEW e \in EventIds, Taker(t, e)', Silent(Waiting'[t])
               PROVE  os'.tcb[t].msg = None
    BY DEF SignalOnly
  <1>1. CASE Holds(t, e)
    BY <1>1 DEF Holds, SignalOnly
  <1> QED
    BY <1>1

(* What every step comes to. *)
Delivers == Promised /\ SignalOnly'

LEMMA QuietDelivers ==
  ASSUME SignalOnly, io' = NoIO, \A t \in TCBs : HoldsAll(t),
         \A e \in EventIds : StoredIn(os'.event[e]) = StoredIn(os.event[e])
  PROVE  Delivers
  <1>1. \A e \in EventIds : \A t \in TCBs : Holds(t, e)
    BY DEF HoldsAll
  <1>2. SignalOnly'
    BY <1>1, SignalsKept
  <1>3. \A e \in EventIds : io'[e].act = "none"
    BY DEF NoIO
  <1>4. \A e \in EventIds : Hand(e)' = Hand(e)
    BY <1>1, HandKept
  <1> QED
    BY <1>2, <1>3, <1>4 DEF Delivers, Promised, DoesTo

LEMMA OneDelivers ==
  ASSUME NEW e \in EventIds, NEW a, io' = Told(e, a), SignalOnly',
         \A f \in EventIds : f # e => /\ StoredIn(os'.event[f]) = StoredIn(os.event[f])
                                      /\ \A t \in TCBs : Holds(t, f),
         DoesTo(a, StoredIn(os.event[e]), StoredIn(os'.event[e]), Hand(e), Hand(e)')
  PROVE  Delivers
  <1>1. io'[e] = a /\ \A f \in EventIds : f # e => io'[f].act = "none"
    BY DEF Told, NoIO
  <1>2. \A f \in EventIds : f # e => Hand(f)' = Hand(f)
    BY HandKept
  <1>3. ASSUME NEW f \in EventIds
        PROVE  DoesTo(io'[f], StoredIn(os.event[f]), StoredIn(os'.event[f]), Hand(f), Hand(f)')
    BY <1>1, <1>2 DEF DoesTo
  <1> QED
    BY <1>3 DEF Delivers, Promised

(* The event gives or takes at once.                                       *)
LEMMA StockDelivers ==
  ASSUME SignalOnly, NEW e \in EventIds, NEW a, io' = Told(e, a), \A t \in TCBs : HoldsAll(t),
         \A f \in EventIds : f # e => StoredIn(os'.event[f]) = StoredIn(os.event[f]),
         DoesTo(a, StoredIn(os.event[e]), StoredIn(os'.event[e]), Hand(e), Hand(e))
  PROVE  Delivers
  <1>1. \A f \in EventIds : \A t \in TCBs : Holds(t, f)
    BY DEF HoldsAll
  <1>2. SignalOnly'
    BY <1>1, SignalsKept
  <1>3. Hand(e)' = Hand(e)
    BY <1>1, HandKept
  <1> QED
    BY <1>1, <1>2, <1>3, OneDelivers

LEMMA StoredSame ==
  ASSUME NEW k, NEW l, \A e \in EventIds : l.event[e].type = k.event[e].type, SameStored(k, l)
  PROVE  \A e \in EventIds : StoredIn(l.event[e]) = StoredIn(k.event[e])
  BY DEF SameStored, StoredIn

LEMMA CalledWaits ==
  ASSUME KInv, TInv, NEW c, Anywhere(c), NEW l, NEW steps, Leave(l, steps), l.list = os.list,
         steps = <<>> \/ steps = <<Sched>>
  PROVE  /\ os' = l /\ Live' = Live /\ \A t \in TCBs : Waiting'[t] = Waiting[t]
         /\ os.cur \in TCBs /\ (isr = "none" => Waiting[os.cur] = Sched)
  <1>1. NextOp(steps) \notin StockOps \cup {"OS_Dummy"} /\ WaitOf(steps) = Sched
    BY StepForms DEF StockOps, CreationOps
  <1>2. os.cur \in TCBs
    BY DEF TInv, Data
  <1>3. isr = "none" => Waiting[os.cur] = Sched
    BY Caller
  <1> QED
    BY <1>1, <1>2, <1>3, CalledSame

(* A service that is called and tells nothing, with what every task keeps. *)
LEMMA CalledHands ==
  ASSUME KInv, TInv, NEW c, Anywhere(c), NEW l, NEW steps, Leave(l, steps), l.list = os.list,
         steps = <<>> \/ steps = <<Sched>>, NEW t \in TCBs, SameAnswer(os.tcb[t], l.tcb[t])
  PROVE  HoldsAll(t)
  BY CalledWaits, KeepsHands

LEMMA CalledQuiet ==
  ASSUME KInv, TInv, SignalOnly, NEW c, Anywhere(c), NEW l, NEW steps, Leave(l, steps), l.list = os.list,
         steps = <<>> \/ steps = <<Sched>>, \A t \in TCBs : SameAnswer(os.tcb[t], l.tcb[t]),
         \A e \in EventIds : l.event[e].type = os.event[e].type, SameStored(os, l), io' = NoIO
  PROVE  Delivers
  <1>1. os' = l
    BY CalledWaits
  <1>2. \A t \in TCBs : HoldsAll(t)
    BY CalledHands
  <1> QED
    BY <1>1, <1>2, StoredSame, QuietDelivers

LEMMA SameBlockAnswers ==
  ASSUME NEW x, NEW y, y = x PROVE SameAnswer(x, y)
  BY DEF SameAnswer

(* Control blocks whose status or delay changes.                           *)
LEMMA StatusAnswers ==
  ASSUME NEW x, DOMAIN x = TCBFields, NEW v
  PROVE  /\ SameAnswer(x, [x EXCEPT !.dly = v]) /\ SameAnswer(x, [x EXCEPT !.delReq = v])
         /\ SameAnswer(x, [x EXCEPT !.flagsRdy = v])
         /\ (\A b \in OS_STAT_PEND_ANY : b \in v <=> b \in x.stat) => SameAnswer(x, [x EXCEPT !.stat = v])
  BY DEF TCBFields, SameAnswer, Waits

(***************************************************************************)
(* Tasks and time.                                                         *)
(***************************************************************************)
(* Whose delay ends was given nothing, and is not given anything then.     *)
LEMMA ExpiredHolds ==
  ASSUME TInv, NEW t \in TCBs, os.tcb[t].dly # 0, Live' = Live, Waiting'[t] = Waiting[t],
         os'.tcb[t].pend = IF os.tcb[t].stat \cap OS_STAT_PEND_ANY # {} THEN "TO" ELSE "OK"
  PROVE  HoldsAll(t)
  <1>1. t \in Live => Waiting[t].op \notin {"pend", "multi"} \/ Waits(os.tcb[t])
    BY DEF TInv, Core, TaskOK, Local
  <1>2. Waits(os.tcb[t]) => os'.tcb[t].pend # "OK"
    BY DEF Waits
  <1>3. Handless(t)
    BY <1>1, GetsNothing
  <1>4. Handless(t)'
    BY <1>1, <1>2, GotNothing
  <1> QED
    BY <1>3, <1>4, HandlessHolds

LEMMA StatBlocks ==
  ASSUME NEW k, Shape(k), NEW t \in TCBs, NEW v, NEW m,
         \/ m = [k EXCEPT !.tcb[t].stat = v] /\ \A b \in OS_STAT_PEND_ANY : b \in v <=> b \in k.tcb[t].stat
         \/ m = [k EXCEPT !.tcb[t].dly = v] \/ m = [k EXCEPT !.tcb[t].delReq = v]
  PROVE  \A u \in TCBs : SameAnswer(k.tcb[u], m.tcb[u])
  <1>1. PICK x : x = k.tcb[t]
    OBVIOUS
  <1>2. DOMAIN x = TCBFields
    BY <1>1 DEF Shape
  <1>3. CASE m = [k EXCEPT !.tcb[t].stat = v] /\ \A b \in OS_STAT_PEND_ANY : b \in v <=> b \in k.tcb[t].stat
    <2>1. PICK y : y = [x EXCEPT !.stat = v]
      OBVIOUS
    <2>2. m = [k EXCEPT !.tcb[t] = y]
      BY <1>1, <1>3, <2>1
    <2>3. SameAnswer(x, y)
      BY <1>1, <1>2, <1>3, <2>1, StatusAnswers
    <2> QED
      BY <1>1, <2>2, <2>3, OneBlock, SameBlockAnswers DEF SameBlocks, Only
  <1>4. CASE m = [k EXCEPT !.tcb[t].dly = v]
    <2>1. PICK y : y = [x EXCEPT !.dly = v]
      OBVIOUS
    <2>2. m = [k EXCEPT !.tcb[t] = y]
      BY <1>1, <1>4, <2>1
    <2>3. SameAnswer(x, y)
      BY <1>2, <2>1, StatusAnswers
    <2> QED
      BY <1>1, <2>2, <2>3, OneBlock, SameBlockAnswers DEF SameBlocks, Only
  <1>5. CASE m = [k EXCEPT !.tcb[t].delReq = v]
    <2>1. PICK y : y = [x EXCEPT !.delReq = v]
      OBVIOUS
    <2>2. m = [k EXCEPT !.tcb[t] = y]
      BY <1>1, <1>5, <2>1
    <2>3. SameAnswer(x, y)
      BY <1>2, <2>1, StatusAnswers
    <2> QED
      BY <1>1, <2>2, <2>3, OneBlock, SameBlockAnswers DEF SameBlocks, Only
  <1> QED
    BY <1>3, <1>4, <1>5

LEMMA DelReqDelivers ==
  ASSUME KInv, TInv, SignalOnly, NEW prio \in Prios, OSTaskDelReq(prio) PROVE Delivers
  <1>1. Shape(os)
    BY DataShape DEF TInv
  <1>2. PICK t : t = os.prioTbl[prio]
    OBVIOUS
  <1>3. t \in TCBs
    BY <1>2 DEF OSTaskDelReq, Exists, TInv, Data
  <1>4. PICK l : l = [os EXCEPT !.tcb[t].delReq = TRUE]
    OBVIOUS
  <1>5. Anywhere("OSTaskDelReq") /\ Leave(l, <<>>) /\ io' = NoIO
    BY <1>2, <1>4 DEF OSTaskDelReq
  <1>6. \A u \in TCBs : SameAnswer(os.tcb[u], l.tcb[u])
    BY <1>1, <1>3, <1>4, StatBlocks
  <1>7. l.event = os.event /\ l.list = os.list
    BY <1>1, <1>4 DEF Shape, Fields
  <1> QED
    BY <1>5, <1>6, <1>7, CalledQuiet DEF SameStored

LEMMA SuspendDelivers ==
  ASSUME KInv, TInv, SignalOnly, NEW prio \in Prios,
         OSTaskSuspend(prio) \/ OSTaskResume(prio) \/ OSTimeDlyResume(prio)
  PROVE  Delivers
  <1>1. Shape(os)
    BY DataShape DEF TInv
  <1>2. PICK t : t = Task(os, prio)
    OBVIOUS
  <1>3. t \in TCBs
    BY <1>2 DEF OSTaskSuspend, OSTaskResume, OSTimeDlyResume, Exists, Task, TInv, Data
  <1>4. ASSUME OSTaskSuspend(prio) PROVE Delivers
    <2>1. PICK v : v = os.tcb[t].stat \cup {"SUSPEND"}
      OBVIOUS
    <2>2. PICK m : m = [os EXCEPT !.tcb[t].stat = v]
      OBVIOUS
    <2>3. PICK l : l = MakeUnready(m, {t})
      OBVIOUS
    <2>4. PICK steps : steps = IF t = os.cur THEN <<Sched>> ELSE <<>>
      OBVIOUS
    <2>5. Anywhere("OSTaskSuspend") /\ Leave(l, steps) /\ io' = NoIO
      BY <1>1, <1>2, <1>3, <1>4, <2>1, <2>2, <2>3, <2>4 DEF OSTaskSuspend, Shape, Anywhere
    <2>6. \A b \in OS_STAT_PEND_ANY : b \in v <=> b \in os.tcb[t].stat
      BY <2>1 DEF OS_STAT_PEND_ANY
    <2>7. \A u \in TCBs : SameAnswer(os.tcb[u], m.tcb[u])
      BY <1>1, <1>3, <2>2, <2>6, StatBlocks
    <2>8. Shape(m) /\ Inert(os, m)
      BY <1>1, <1>3, <2>2, StatInert
    <2>9. l.tcb = m.tcb /\ Inert(m, l)
      BY <2>3, <2>8, ReadyTyped, ReadyInert
    <2>10. Inert(os, l)
      BY <2>8, <2>9, InertTrans
    <2> QED
      BY <2>4, <2>5, <2>7, <2>9, <2>10, CalledQuiet DEF Inert, Apart, Stable, SameTypes, SameTasks
  <1>5. ASSUME OSTaskResume(prio) PROVE Delivers
    <2>1. PICK v : v = os.tcb[t].stat \ {"SUSPEND"}
      OBVIOUS
    <2>2. PICK m : m = [os EXCEPT !.tcb[t].stat = v]
      OBVIOUS
    <2>3. PICK l : l = MakeReady(m, {t})
      OBVIOUS
    <2>4. Anywhere("OSTaskResume") /\ (Leave(l, <<Sched>>) \/ Leave(m, <<>>)) /\ io' = NoIO
      BY <1>1, <1>2, <1>3, <1>5, <2>1, <2>2, <2>3 DEF OSTaskResume, Shape
    <2>6. \A b \in OS_STAT_PEND_ANY : b \in v <=> b \in os.tcb[t].stat
      BY <2>1 DEF OS_STAT_PEND_ANY
    <2>7. \A u \in TCBs : SameAnswer(os.tcb[u], m.tcb[u])
      BY <1>1, <1>3, <2>2, <2>6, StatBlocks
    <2>8. Shape(m) /\ Inert(os, m)
      BY <1>1, <1>3, <2>2, StatInert
    <2>9. l.tcb = m.tcb /\ Inert(m, l)
      BY <2>3, <2>8, ReadyTyped, ReadyInert
    <2>10. Inert(os, l)
      BY <2>8, <2>9, InertTrans
    <2>11. CASE Leave(l, <<Sched>>)
      BY <2>4, <2>7, <2>9, <2>10, <2>11, CalledQuiet DEF Inert, Apart, Stable, SameTypes, SameTasks
    <2>12. CASE Leave(m, <<>>)
      BY <2>4, <2>7, <2>8, <2>12, CalledQuiet DEF Inert, Apart, Stable, SameTypes, SameTasks
    <2> QED
      BY <2>4, <2>11, <2>12
  <1>6. ASSUME OSTimeDlyResume(prio) PROVE Delivers
    <2>1. PICK l : l = Expire(os, {t})
      OBVIOUS
    <2>2. PICK steps : steps = IF Suspended(os.tcb[t]) THEN <<>> ELSE <<Sched>>
      OBVIOUS
    <2>3. Anywhere("OSTimeDlyResume") /\ Leave(l, steps) /\ os.tcb[t].dly # 0 /\ io' = NoIO
      BY <1>2, <1>6, <2>1, <2>2 DEF OSTimeDlyResume
    <2>4. PICK D : D = {t}
      OBVIOUS
    <2>5. Inert(os, l) /\ SameBlocks(os, l, D) /\ l.tcb[t] = Expired(os.tcb[t])
      BY <1>1, <1>3, <2>1, <2>4, ExpireInert, ExpireTyped
    <2>6. l.list = os.list /\ \A e \in EventIds : l.event[e].type = os.event[e].type
      BY <2>5 DEF Inert, Apart, Stable, SameTypes, SameTasks
    <2>7. os' = l /\ Live' = Live /\ \A u \in TCBs : Waiting'[u] = Waiting[u]
      BY <2>2, <2>3, <2>6, CalledWaits
    <2>8. DOMAIN os.tcb[t] = TCBFields
      BY <1>1, <1>3 DEF Shape
    <2>9. l.tcb[t].pend = IF os.tcb[t].stat \cap OS_STAT_PEND_ANY # {} THEN "TO" ELSE "OK"
      BY <2>5, <2>8, ExpiredFields
    <2>10. HoldsAll(t)
      BY <1>3, <2>3, <2>7, <2>9, ExpiredHolds
    <2>11. ASSUME NEW u \in TCBs, u # t PROVE HoldsAll(u)
      <3>1. l.tcb[u] = os.tcb[u]
        BY <2>4, <2>5, <2>11 DEF SameBlocks
      <3> QED
        BY <2>7, <3>1, SameBlockAnswers, KeepsHands
    <2>12. \A u \in TCBs : HoldsAll(u)
      BY <2>10, <2>11
    <2>13. \A e \in EventIds : StoredIn(l.event[e]) = StoredIn(os.event[e])
      BY <2>5, <2>6, StoredSame DEF Inert, Apart
    <2> QED
      BY <2>3, <2>7, <2>12, <2>13, QuietDelivers
  <1> QED
    BY <1>4, <1>5, <1>6

LEMMA DelayDelivers ==
  ASSUME KInv, TInv, SignalOnly, NEW c, AtTask(c), NEW ticks, Delay(ticks) PROVE Delivers
  <1>1. Shape(os) /\ os.cur \in TCBs
    BY DataShape DEF TInv, Data
  <1>2. PICK t : t = os.cur
    OBVIOUS
  <1>3. PICK m : m = [os EXCEPT !.tcb[t].dly = ticks]
    OBVIOUS
  <1>4. PICK l : l = MakeUnready(m, {t})
    OBVIOUS
  <1>5. Anywhere(c) /\ Leave(l, <<Sched>>) /\ io' = NoIO
    BY <1>2, <1>3, <1>4 DEF Delay, Anywhere
  <1>6. \A u \in TCBs : SameAnswer(os.tcb[u], m.tcb[u])
    BY <1>1, <1>2, <1>3, StatBlocks
  <1>7. Shape(m) /\ Inert(os, m)
    BY <1>1, <1>2, <1>3, StatInert
  <1>8. l.tcb = m.tcb /\ Inert(m, l)
    BY <1>4, <1>7, ReadyTyped, ReadyInert
  <1>9. Inert(os, l)
    BY <1>7, <1>8, InertTrans
  <1> QED
    BY <1>5, <1>6, <1>8, <1>9, CalledQuiet DEF Inert, Apart, Stable, SameTypes, SameTasks

LEMMA ChangePrioDelivers ==
  ASSUME KInv, TInv, SignalOnly, NEW old \in Prios, NEW new \in Prios, OSTaskChangePrio(old, new)
  PROVE  Delivers
  <1>1. Shape(os)
    BY DataShape DEF TInv
  <1>2. PICK t : t = Task(os, old)
    OBVIOUS
  <1>3. t \in TCBs
    BY <1>2 DEF OSTaskChangePrio, Exists, Task, TInv, Data
  <1>4. PICK l : l = ChangePrio(os, t, new)
    OBVIOUS
  <1>5. Anywhere("OSTaskChangePrio") /\ Leave(l, <<Sched>>) /\ io' = NoIO
    BY <1>2, <1>4 DEF OSTaskChangePrio
  <1>6. SameTypes(os, l) /\ SameStored(os, l)
    BY <1>1, <1>3, <1>4, ChangePrioSame
  <1>7. l.tcb = [os.tcb EXCEPT ![t].prio = new] /\ l.list = os.list
    BY <1>1, <1>4 DEF ChangePrio, Shape, Fields
  <1>8. ASSUME NEW u \in TCBs PROVE SameAnswer(os.tcb[u], l.tcb[u])
    <2>1. l.tcb[u] = os.tcb[u] \/ l.tcb[u] = [os.tcb[u] EXCEPT !.prio = new]
      BY <1>1, <1>7 DEF Shape
    <2>2. DOMAIN os.tcb[u] = TCBFields
      BY <1>1 DEF Shape
    <2> QED
      BY <2>1, <2>2 DEF SameAnswer, Waits, TCBFields
  <1> QED
    BY <1>5, <1>6, <1>7, <1>8, CalledQuiet DEF SameTypes

(* A step of the running task that starts no wait and deletes nobody.      *)
LEMMA KeepsLive ==
  ASSUME NEW t, t \in Live' <=> t \in Live,
         t \in Live => Waiting'[t] = Waiting[t] /\ SameAnswer(os.tcb[t], os'.tcb[t])
  PROVE  HoldsAll(t)
  BY TakerIs DEF HoldsAll, Holds, SameAnswer, Given

LEMMA PlainWaits ==
  ASSUME TInv, isr = "none", Waiting[os.cur] = Sched, At(os.cur) # "OS_Dummy",
         NEW l, NEW steps, Leave(l, steps), l.list = os.list, NextOp(steps) # "OS_Dummy", WaitOf(steps) = Sched
  PROVE  os' = l /\ Live' = Live /\ \A t \in TCBs : Waiting'[t] = Waiting[t]
  <1>1. Continues(steps) /\ os' = l
    BY LeaveContinues
  <1>2. DOMAIN pc = TCBs /\ os.cur \in TCBs
    BY DEF TInv, Data
  <1>3. Live' = Live
    BY <1>1, <1>2, LiveSame
  <1>4. \A t \in TCBs : Waiting'[t] = Waiting[t]
    BY <1>1, <1>2, PcAfter
  <1> QED
    BY <1>1, <1>3, <1>4

LEMMA PlainHands ==
  ASSUME TInv, isr = "none", Waiting[os.cur] = Sched, At(os.cur) # "OS_Dummy",
         NEW l, NEW steps, Leave(l, steps), l.list = os.list, NextOp(steps) # "OS_Dummy", WaitOf(steps) = Sched,
         \A t \in TCBs : t \in Live => SameAnswer(os.tcb[t], l.tcb[t])
  PROVE  os' = l /\ \A t \in TCBs : HoldsAll(t)
  BY PlainWaits, KeepsLive

LEMMA PlainQuiet ==
  ASSUME TInv, SignalOnly, isr = "none", Waiting[os.cur] = Sched, At(os.cur) # "OS_Dummy",
         NEW l, NEW steps, Leave(l, steps), l.list = os.list, NextOp(steps) # "OS_Dummy", WaitOf(steps) = Sched,
         \A t \in TCBs : t \in Live => SameAnswer(os.tcb[t], l.tcb[t]), l.event = os.event, io' = NoIO
  PROVE  Delivers
  <1>1. os' = l /\ \A t \in TCBs : HoldsAll(t)
    BY PlainHands
  <1> QED
    BY <1>1, QuietDelivers

(* Who goes on with what is neither a wait nor a call of OS_Sched.         *)
LEMMA OtherCaller ==
  ASSUME TInv, NEW op \in CreationOps \cup {"OSQCreate", "OSMemCreate"}, Step(op)
  PROVE  /\ isr = "none" /\ Waiting[os.cur] = Sched /\ At(os.cur) # "OS_Dummy" /\ os.cur \in TCBs
         /\ At(os.cur) = op /\ Now = Head(pc[os.cur])
  <1>1. isr = "none" /\ At(os.cur) = op /\ Waiting[os.cur] = WaitOf(pc[os.cur]) /\ os.cur \in TCBs
        /\ Steps(pc[os.cur]) /\ NextOp(pc[os.cur]) = op /\ Now = Head(pc[os.cur])
    BY StepCaller
  <1>2. WaitOf(pc[os.cur]) = Sched
    BY <1>1, NextStep
  <1> QED
    BY <1>1, <1>2 DEF CreationOps

LEMMA CreateDelivers ==
  ASSUME TInv, SignalOnly, NEW c, AtTask(c), NEW prio \in Prios, Create(prio) PROVE Delivers
  <1>1. DOMAIN os = Fields
    BY DEF TInv, Data
  <1>2. PICK l : l = [os EXCEPT !.prioTbl[prio] = Reserved]
    OBVIOUS
  <1>3. PICK steps : steps = <<[op |-> "OS_TCBInit", prio |-> prio]>>
    OBVIOUS
  <1>4. Leave(l, steps) /\ io' = NoIO
    BY <1>2, <1>3 DEF Create
  <1>5. l.tcb = os.tcb /\ l.event = os.event /\ l.list = os.list
    BY <1>1, <1>2 DEF Fields
  <1>6. NextOp(steps) = "OS_TCBInit" /\ WaitOf(steps) = Sched
    BY <1>3, OtherSteps
  <1>7. isr = "none" /\ Waiting[os.cur] = Sched /\ At(os.cur) = "none"
    BY TaskCaller
  <1> QED
    BY <1>4, <1>5, <1>6, <1>7, SameBlockAnswers, PlainQuiet

LEMMA RollbackDelivers ==
  ASSUME TInv, SignalOnly, OSTaskCreate_Failed PROVE Delivers
  <1>1. DOMAIN os = Fields /\ Step("rollback")
    BY DEF TInv, Data, OSTaskCreate_Failed
  <1>2. PICK l : l = [os EXCEPT !.prioTbl[Now.prio] = None]
    OBVIOUS
  <1>3. Leave(l, <<>>) /\ io' = NoIO
    BY <1>2 DEF OSTaskCreate_Failed
  <1>4. l.tcb = os.tcb /\ l.event = os.event /\ l.list = os.list
    BY <1>1, <1>2 DEF Fields
  <1>5. isr = "none" /\ Waiting[os.cur] = Sched /\ At(os.cur) # "OS_Dummy"
    BY <1>1, OtherCaller DEF CreationOps
  <1>6. NextOp(<<>>) = "none" /\ WaitOf(<<>>) = Sched
    BY StepForms
  <1> QED
    BY <1>3, <1>4, <1>5, <1>6, SameBlockAnswers, PlainQuiet

LEMMA TCBInitDelivers ==
  ASSUME TInv, SignalOnly, OS_TCBInit PROVE Delivers
  <1>1. /\ Shape(os) /\ Step("OS_TCBInit") /\ os.free \in Seq(TCBs \ os.list) /\ io' = NoIO
    BY DataShape DEF TInv, Creations, OS_TCBInit
  <1>2. /\ isr = "none" /\ Waiting[os.cur] = Sched /\ At(os.cur) # "OS_Dummy" /\ os.cur \in TCBs
        /\ At(os.cur) = "OS_TCBInit" /\ Now = Head(pc[os.cur])
    BY <1>1, OtherCaller DEF CreationOps
  <1>3. Now.prio \in Prios
    <2>1. Steps(pc[os.cur]) /\ NextOp(pc[os.cur]) = "OS_TCBInit"
      BY <1>1, StepCaller
    <2> QED
      BY <1>2, <2>1, NextStep DEF CreationOps
  <1>4. PICK p \in Prios : p = Now.prio
    BY <1>3
  <1>5. PICK s : s = os.free
    OBVIOUS
  <1>6. PICK t : t = Head(s)
    OBVIOUS
  <1>7. PICK steps : steps = IF s = <<>> THEN <<[op |-> "rollback", prio |-> p]>>
                             ELSE <<[op |-> "link", tcb |-> t, prio |-> p]>>
    OBVIOUS
  <1>8. PICK rest : rest = Tail(s)
    OBVIOUS
  <1>9. PICK y : y = [NewTCB(p) EXCEPT !.flagsRdy = os.tcb[t].flagsRdy]
    OBVIOUS
  <1>10. PICK l : l = IF s = <<>> THEN os ELSE [os EXCEPT !.free = rest, !.tcb[t] = y]
    OBVIOUS
  <1>11. Leave(l, steps)
    <2>1. CASE s = <<>>
      BY <1>4, <1>5, <1>7, <1>10, <2>1 DEF OS_TCBInit
    <2>2. CASE s # <<>>
      BY <1>1, <1>4, <1>5, <1>6, <1>7, <1>8, <1>9, <1>10, <2>2 DEF OS_TCBInit, Shape
    <2> QED
      BY <2>1, <2>2
  <1>12. CASE s = <<>>
    <2>1. NextOp(steps) = "rollback" /\ WaitOf(steps) = Sched
      BY <1>7, <1>12, OtherSteps
    <2>2. l = os
      BY <1>10, <1>12
    <2> QED
      BY <1>1, <1>2, <1>11, <2>1, <2>2, SameBlockAnswers, PlainQuiet
  <1>13. CASE s # <<>>
    <2>1. t \in TCBs /\ t \notin os.list
      BY <1>1, <1>5, <1>6, <1>13
    <2>2. NextOp(steps) = "link" /\ WaitOf(steps) = Sched
      BY <1>7, <1>13, <2>1, OtherSteps
    <2>3. l.event = os.event /\ l.list = os.list /\ \A u \in TCBs : u # t => l.tcb[u] = os.tcb[u]
      BY <1>1, <1>10, <1>13, <2>1 DEF Shape, Fields
    <2>4. \A u \in TCBs : u \in Live => SameAnswer(os.tcb[u], l.tcb[u])
      BY <2>1, <2>3, SameBlockAnswers DEF Live
    <2> QED
      BY <1>1, <1>2, <1>11, <2>2, <2>3, <2>4, PlainQuiet
  <1> QED
    BY <1>12, <1>13

LEMMA LinkDelivers ==
  ASSUME TInv, SignalOnly, OS_TCBInit_Link PROVE Delivers
  <1> DEFINE p == Now.prio
             t == Now.tcb
  <1>1. Data(os) /\ DOMAIN pc = TCBs /\ \A u \in TCBs : Steps(pc[u])
    BY DEF TInv
  <1>2. /\ Step("link") /\ os' = LinkIn(os, t, p) /\ io' = NoIO
        /\ pc' = [pc EXCEPT ![os.cur] = <<Sched>>, ![t] = <<>>]
    BY DEF OS_TCBInit_Link, LinkIn
  <1>3. /\ os.running /\ isr = "none" /\ At(os.cur) = "link" /\ os.cur \in TCBs /\ os.cur # Idle
        /\ Steps(pc[os.cur]) /\ NextOp(pc[os.cur]) = "link" /\ Now = Head(pc[os.cur])
        /\ Waiting[os.cur] = WaitOf(pc[os.cur])
    BY <1>2, StepCaller
  <1>4. "link" \in CreationOps
    BY DEF CreationOps
  <1>5. p \in Prios /\ t \in TCBs /\ Waiting[os.cur] = Sched
    BY <1>3, <1>4, NextStep
  <1>6. t \notin os.list /\ os.tcb[t].prio = p
    BY <1>3, <1>4 DEF TInv, Creations
  <1> HIDE DEF p, t
  <1>7. os.cur \in os.list
    BY <1>3, OrdinaryRunning DEF Stopping
  <1>8. t # os.cur
    BY <1>6, <1>7
  <1>9. /\ pc'[os.cur] = <<Sched>> /\ pc'[t] = <<>>
        /\ \A u \in TCBs : u # os.cur /\ u # t => pc'[u] = pc[u]
    BY <1>1, <1>2, <1>3, <1>5, <1>8
  <1>10. /\ NextOp(<<>>) = "none" /\ WaitOf(<<>>) = Sched
         /\ NextOp(<<Sched>>) = "OS_Sched" /\ WaitOf(<<Sched>>) = Sched
    BY StepForms
  <1>11. \A u \in TCBs : At(u) # "OS_Dummy" /\ NextOp(pc'[u]) # "OS_Dummy"
    BY <1>3, <1>9, <1>10, AtNext DEF TInv, Lists
  <1>12. BeingDeleted = {} /\ BeingDeleted' = {}
    BY <1>11 DEF BeingDeleted, At, NextOp
  <1>13. Waiting'[t] = Sched /\ \A u \in TCBs : u # t => Waiting'[u] = Waiting[u]
    BY <1>3, <1>5, <1>9, <1>10 DEF Waiting
  <1>14. Linked(os, os', t, p)
    BY <1>1, <1>2, <1>5, <1>6, LinkShape
  <1>15. /\ os'.tcb = os.tcb /\ os'.event = os.event
         /\ \A u : u \in os'.list <=> u \in os.list \/ u = t
    BY <1>14 DEF Linked
  <1>16. t \notin Live /\ \A u : u # t => (u \in Live' <=> u \in Live)
    BY <1>6, <1>12, <1>15 DEF Live
  <1>17. ASSUME NEW u \in TCBs, u = t PROVE HoldsAll(u)
    <2>1. Handless(u)
      BY <1>16, <1>17, GetsNothing
    <2>2. Handless(u)'
      BY <1>13, <1>17, GotNothing DEF Sched
    <2> QED
      BY <2>1, <2>2, HandlessHolds
  <1>18. ASSUME NEW u \in TCBs, u # t PROVE HoldsAll(u)
    BY <1>13, <1>15, <1>16, <1>18, KeepsHands, SameBlockAnswers
  <1>19. \A u \in TCBs : HoldsAll(u)
    BY <1>17, <1>18
  <1> QED
    BY <1>2, <1>15, <1>19, QuietDelivers

LEMMA FreeDelivers ==
  ASSUME TInv, SignalOnly, OSTaskDel_Free PROVE Delivers
  <1> DEFINE t == Now.tcb
             p == Now.prio
             l == [os EXCEPT !.lock = @ - 1, !.prioTbl[p] = None, !.list = @ \ {t}, !.free = <<t>> \o @]
  <1>1. DOMAIN pc = TCBs /\ DOMAIN os = Fields /\ \A u \in TCBs : Steps(pc[u])
    BY DEF TInv, Data
  <1>2. /\ Step("OS_Dummy") /\ os' = l /\ io' = NoIO
        /\ pc' = [[pc EXCEPT ![t] = <<>>] EXCEPT ![os.cur] = <<Sched>>]
    BY DEF OSTaskDel_Free
  <1>3. /\ os.running /\ isr = "none" /\ At(os.cur) = "OS_Dummy" /\ os.cur \in TCBs /\ os.cur # Idle
        /\ Steps(pc[os.cur]) /\ NextOp(pc[os.cur]) = "OS_Dummy" /\ Now = Head(pc[os.cur])
        /\ Waiting[os.cur] = WaitOf(pc[os.cur])
    BY <1>1, <1>2, StepCaller
  <1>4. t \in TCBs /\ Waiting[os.cur] = Sched
    BY <1>3, NextStep
  <1>5. \A u \in TCBs : At(u) = "OS_Dummy" => u = os.cur
    BY <1>1, <1>3 DEF TInv, Lists
  <1>6. Head(pc[os.cur]).tcb = t
    BY <1>3
  <1> HIDE DEF t, p
  <1>7. /\ pc'[os.cur] = <<Sched>> /\ (t # os.cur => pc'[t] = <<>>)
        /\ \A u \in TCBs : u # os.cur /\ u # t => pc'[u] = pc[u]
    BY <1>1, <1>2, <1>3, <1>4
  <1>8. /\ NextOp(<<>>) = "none" /\ WaitOf(<<>>) = Sched
        /\ NextOp(<<Sched>>) = "OS_Sched" /\ WaitOf(<<Sched>>) = Sched
    BY StepForms
  <1>9. \A u \in TCBs : NextOp(pc'[u]) # "OS_Dummy"
    BY <1>5, <1>7, <1>8, AtNext
  <1>10. BeingDeleted' = {} /\ \A u : u \in BeingDeleted <=> u = t
    <2>1. BeingDeleted' = {}
      BY <1>9 DEF BeingDeleted, NextOp
    <2>2. \A u : u \in BeingDeleted <=> u = t
      BY <1>3, <1>4, <1>5, <1>6, DummyTasks
    <2> QED
      BY <2>1, <2>2
  <1>11. l.tcb = os.tcb /\ l.list = os.list \ {t} /\ l.event = os.event
    BY <1>1 DEF Fields
  <1> HIDE DEF l
  <1>12. Live' = Live /\ t \notin Live
    BY <1>2, <1>10, <1>11 DEF Live
  <1>13. \A u \in TCBs : u # t => Waiting'[u] = Waiting[u]
    BY <1>3, <1>4, <1>7, <1>8 DEF Waiting
  <1>14. ASSUME NEW u \in TCBs PROVE HoldsAll(u)
    <2>1. u \in Live => Waiting'[u] = Waiting[u] /\ SameAnswer(os.tcb[u], os'.tcb[u])
      BY <1>2, <1>11, <1>12, <1>13, SameBlockAnswers
    <2> QED
      BY <1>12, <2>1, KeepsLive
  <1> QED
    BY <1>2, <1>11, <1>14, QuietDelivers

LEMMA DropBlocks ==
  ASSUME NEW k, Shape(k), NEW t \in TCBs, NEW l, l = DelIn(k, t) PROVE SameBlocks(k, l, Only(t))
  <1>1. PICK E : E = [u \in {t} |-> k.tcb[t].multi \cup ({k.tcb[t].event} \ {None})]
    OBVIOUS
  <1>2. PICK a : a = MakeUnready(k, {t})
    OBVIOUS
  <1>3. PICK b : b = OS_EventTaskRemoveMulti(a, E)
    OBVIOUS
  <1>4. PICK c : c = OS_FlagUnlink(b, t)
    OBVIOUS
  <1>5. PICK m : m = [c EXCEPT !.tcb[t].dly = 0, !.tcb[t].stat = {}, !.tcb[t].pend = "OK"]
    OBVIOUS
  <1>6. l = [m EXCEPT !.lock = @ + 1]
    BY <1>1, <1>2, <1>3, <1>4, <1>5 DEF DelIn, Drop
  <1>7. Shape(a) /\ a.tcb = k.tcb
    BY <1>2, ReadyInert, ReadyTyped
  <1>8. Shape(b) /\ b.tcb = a.tcb
    BY <1>3, <1>7, RemoveInert, RemoveTyped
  <1>9. Shape(c) /\ SameBlocks(b, c, Only(t))
    BY <1>4, <1>8, UnlinkApart, UnlinkTyped
  <1>10. PICK x : x = c.tcb[t]
    OBVIOUS
  <1>11. PICK y : y = [x EXCEPT !.dly = 0, !.stat = {}, !.pend = "OK"]
    OBVIOUS
  <1>12. m = [c EXCEPT !.tcb[t] = y]
    BY <1>5, <1>9, <1>10, <1>11 DEF Shape, TCBFields, Fields
  <1>13. SameBlocks(c, m, Only(t)) /\ DOMAIN m = Fields
    BY <1>9, <1>12, OneBlock DEF Shape
  <1>14. l.tcb = m.tcb
    BY <1>6, <1>13 DEF Fields
  <1> QED
    BY <1>7, <1>8, <1>9, <1>13, <1>14 DEF SameBlocks

LEMMA DelDelivers ==
  ASSUME Ruled, Inv, SignalOnly, NEW prio \in Prios, OSTaskDel(prio) PROVE Delivers
  <1>1. PICK t : t = Task(os, prio)
    OBVIOUS
  <1>2. PICK l : l = DelIn(os, t)
    OBVIOUS
  <1>3. PICK steps : steps = <<[op |-> "OS_Dummy", tcb |-> t, prio |-> prio]>>
    OBVIOUS
  <1>4. /\ TInv /\ Data(os) /\ Shape(os) /\ DOMAIN pc = TCBs /\ DOMAIN os = Fields
        /\ \A u \in TCBs : Steps(pc[u])
    BY DataShape DEF Inv, TInv, Data
  <1>5. /\ AtTask("OSTaskDel") /\ Exists(prio) /\ Leave(l, steps)
        /\ io' = [e \in EventIds |-> [act |-> IF e \in PendsOn(t) THEN "gone" ELSE "none"]]
    <2> DEFINE d == Task(os, prio)
    <2>1. /\ AtTask("OSTaskDel") /\ Exists(prio)
          /\ Leave(DelIn(os, d), <<[op |-> "OS_Dummy", tcb |-> d, prio |-> prio]>>)
      BY <1>4, DelInIs DEF OSTaskDel
    <2>2. io' = [e \in EventIds |-> [act |-> IF e \in PendsOn(d) THEN "gone" ELSE "none"]]
      BY DEF OSTaskDel
    <2>3. t = d
      BY <1>1
    <2> HIDE DEF d
    <2> QED
      BY <1>2, <1>3, <2>1, <2>2, <2>3
  <1>6. /\ os.running /\ isr = "none" /\ At(os.cur) = "none" /\ os.cur \in TCBs
        /\ BeingDeleted = {} /\ Live = os.list /\ Waiting[os.cur] = Sched
    BY <1>4, <1>5, TaskCaller
  <1>7. t \in TCBs
    BY <1>1, <1>5, TaskOf
  <1>8. NextOp(steps) = "OS_Dummy" /\ WaitOf(steps) = Sched /\ Head(steps).tcb = t
    BY <1>3, <1>7, OtherSteps
  <1>9. os' = l /\ pc'[os.cur] = steps /\ \A u \in TCBs : u # os.cur => pc'[u] = pc[u]
    BY <1>4, <1>5, <1>6 DEF Leave
  <1>10. \A u \in TCBs : NextOp(pc'[u]) = "OS_Dummy" <=> u = os.cur
    BY <1>4, <1>6, <1>8, <1>9, AtNext DEF TInv, Lists
  <1>11. \A u : u \in BeingDeleted' <=> u = t
    <2>1. BeingDeleted' = {v \in TCBs : \E u \in TCBs : NextOp(pc'[u]) = "OS_Dummy" /\ Head(pc'[u]).tcb = v}
      BY DEF BeingDeleted, NextOp
    <2> QED
      BY <1>6, <1>7, <1>8, <1>9, <1>10, <2>1
  <1>12. \A u \in TCBs : Waiting'[u] = Waiting[u]
    BY <1>6, <1>8, <1>9 DEF Waiting
  <1>13. Apart(os, l) /\ SameBlocks(os, l, Only(t))
    BY <1>2, <1>4, <1>7, DropApart, DropBlocks
  <1>14. \A u : u \in Live' <=> u \in Live /\ u # t
    BY <1>6, <1>9, <1>11, <1>13 DEF Live, Apart, Stable, SameTasks
  <1>15. ASSUME NEW u \in TCBs, u # t PROVE HoldsAll(u) /\ os'.tcb[u] = os.tcb[u]
    <2>1. os'.tcb[u] = os.tcb[u]
      BY <1>9, <1>13, <1>15 DEF SameBlocks, Only
    <2> QED
      BY <1>12, <1>14, <1>15, <2>1, KeepsHands, SameBlockAnswers
  <1>16. ASSUME NEW u \in TCBs, u = t, NEW e \in EventIds
         PROVE  ~Taker(u, e)' /\ (e \notin PendsOn(t) => ~Taker(u, e))
    <2>1. PendsOn(t) = PendEvents(Waiting[t])
      BY <1>4, <1>7, PendsOnWaits
    <2> QED
      BY <1>14, <1>16, <2>1, TakerIs DEF Given
  <1>17. \A e \in EventIds : StoredIn(os'.event[e]) = StoredIn(os.event[e])
    BY <1>9, <1>13, StoredSame DEF Apart, Stable, SameTypes
  <1>18. ASSUME NEW e \in EventIds
         PROVE  DoesTo(io'[e], StoredIn(os.event[e]), StoredIn(os'.event[e]), Hand(e), Hand(e)')
    <2>1. CASE e \in PendsOn(t)
      <3>1. io'[e].act = "gone"
        BY <1>5, <2>1
      <3>2. \A u \in TCBs : Taker(u, e)' => Taker(u, e) /\ os'.tcb[u].msg = os.tcb[u].msg
        BY <1>15, <1>16 DEF HoldsAll, Holds
      <3>3. \A m \in Msgs \cup {None} : Hand(e)'[m] <= Hand(e)[m]
        BY <3>2, HandShrunk
      <3> QED
        BY <1>17, <3>1, <3>3 DEF DoesTo
    <2>2. CASE e \notin PendsOn(t)
      <3>1. io'[e].act = "none"
        BY <1>5, <2>2
      <3>2. ASSUME NEW u \in TCBs PROVE Holds(u, e)
        <4>1. CASE u = t
          BY <1>16, <2>2, <4>1 DEF Holds
        <4>2. CASE u # t
          BY <1>15, <4>2 DEF HoldsAll
        <4> QED
          BY <4>1, <4>2
      <3>3. Hand(e)' = Hand(e)
        BY <3>2, HandKept
      <3> QED
        BY <1>17, <3>1, <3>3 DEF DoesTo
    <2> QED
      BY <2>1, <2>2
  <1>19. SignalOnly'
    <2>1. ASSUME NEW u \in TCBs, NEW e \in EventIds PROVE Holds(u, e) \/ ~Taker(u, e)'
      BY <1>15, <1>16 DEF HoldsAll
    <2> QED
      BY <2>1, SignalsKept
  <1> QED
    BY <1>18, <1>19 DEF Delivers, Promised

LEMMA TaskDelivers ==
  ASSUME Ruled, KInv, Inv, SignalOnly, TaskNext PROVE Delivers
  <1>0. TInv
    BY DEF Inv
  <1>1. ASSUME NEW old \in Prios, NEW new \in Prios, OSTaskChangePrio(old, new) PROVE Delivers
    BY <1>0, <1>1, ChangePrioDelivers
  <1>2. ASSUME NEW prio \in Prios, OSTaskCreate(prio) \/ OSTaskCreateExt(prio) PROVE Delivers
    BY <1>0, <1>2, CreateDelivers DEF OSTaskCreate, OSTaskCreateExt
  <1>3. ASSUME NEW prio \in Prios, OSTaskDel(prio) PROVE Delivers
    BY <1>3, DelDelivers
  <1>4. ASSUME NEW prio \in Prios \ {OS_TASK_IDLE_PRIO},
               OSTaskDelReq(prio) \/ OSTaskSuspend(prio) \/ OSTaskResume(prio) \/ OSTimeDlyResume(prio)
        PROVE  Delivers
    BY <1>0, <1>4, DelReqDelivers, SuspendDelivers
  <1>5. ASSUME OS_TCBInit \/ OS_TCBInit_Link \/ OSTaskCreate_Failed \/ OSTaskDel_Free PROVE Delivers
    BY <1>0, <1>5, TCBInitDelivers, LinkDelivers, RollbackDelivers, FreeDelivers
  <1>6. ASSUME OS_TaskReturn PROVE Delivers
    <2>1. Cur.prio \in Prios
      BY <1>0 DEF TInv, Data, Cur
    <2> QED
      BY <1>3, <1>6, <2>1 DEF OS_TaskReturn
  <1>7. ASSUME NEW ticks \in Timeouts, OSTimeDly(ticks) PROVE Delivers
    BY <1>0, <1>7, DelayDelivers DEF OSTimeDly
  <1>8. ASSUME NEW c \in Clocks, OSTimeDlyHMSM(c) PROVE Delivers
    <2>1. PICK ticks : ticks = Ticks(c)
      OBVIOUS
    <2> QED
      BY <1>0, <1>8, <2>1, DelayDelivers DEF OSTimeDlyHMSM
  <1>9. \A prio \in Prios \ {OS_TASK_IDLE_PRIO} : prio \in Prios
    OBVIOUS
  <1> QED
    BY <1>1, <1>2, <1>3, <1>4, <1>5, <1>6, <1>7, <1>8, <1>9, Zenon DEF TaskNext

(***************************************************************************)
(* Scheduling and interrupts.                                              *)
(***************************************************************************)
LEMMA PcDelivers ==
  ASSUME TInv, SignalOnly, pc' = pc, os'.list = os.list, io' = NoIO,
         \A t \in TCBs : SameAnswer(os.tcb[t], os'.tcb[t]), os'.event = os.event
  PROVE  Delivers
  <1>1. Live' = Live
    BY PcSame
  <1>2. \A t \in TCBs : Waiting'[t] = Waiting[t]
    BY DEF Waiting
  <1>3. \A t \in TCBs : HoldsAll(t)
    BY <1>1, <1>2, KeepsHands
  <1> QED
    BY <1>3, QuietDelivers

LEMMA SchedDelivers ==
  ASSUME TInv, SignalOnly, OS_Sched PROVE Delivers
  <1>1. Shape(os) /\ DOMAIN pc = TCBs
    BY DataShape DEF TInv
  <1>2. PICK l : l = Switch(os)
    OBVIOUS
  <1>3. PICK steps : steps = Tail(pc[os.cur])
    OBVIOUS
  <1>4. Step("OS_Sched") /\ Leave(l, steps) /\ io' = NoIO
    BY <1>2, <1>3 DEF OS_Sched, Proceed
  <1>5. Inert(os, l) /\ l.event = os.event /\ l.tcb = os.tcb
    BY <1>1, <1>2, SwitchInert, SwitchTyped
  <1>6. /\ isr = "none" /\ At(os.cur) = "OS_Sched" /\ os.cur \in TCBs
        /\ Steps(pc[os.cur]) /\ NextOp(pc[os.cur]) = "OS_Sched" /\ Waiting[os.cur] = WaitOf(pc[os.cur])
    BY <1>4, StepCaller
  <1>7. NextOp(steps) \in WaitOps \cup {"none"} /\ WaitOf(steps) = Waiting[os.cur]
    BY <1>3, <1>6, NextStep
  <1>8. Continues(steps) /\ os' = l
    BY <1>4, LeaveContinues
  <1>9. l.list = os.list
    BY <1>5 DEF Inert, Apart, Stable, SameTasks
  <1>10. Waiting' = Waiting
    BY <1>1, <1>6, <1>7, <1>8, PcAfter
  <1>11. NextOp(steps) # "OS_Dummy"
    BY <1>7 DEF WaitOps
  <1>12. Live' = Live
    BY <1>1, <1>6, <1>8, <1>9, <1>11, LiveSame
  <1>13. \A t \in TCBs : HoldsAll(t)
    BY <1>5, <1>8, <1>10, <1>12, KeepsHands, SameBlockAnswers
  <1> QED
    BY <1>4, <1>5, <1>8, <1>13, QuietDelivers

LEMMA LockDelivers ==
  ASSUME KInv, TInv, SignalOnly, OSSchedLock \/ OSSchedUnlock PROVE Delivers
  <1>1. DOMAIN os = Fields
    BY DEF TInv, Data
  <1>2. PICK l : l = [os EXCEPT !.lock = @ + 1]
    OBVIOUS
  <1>3. PICK m : m = [os EXCEPT !.lock = @ - 1]
    OBVIOUS
  <1>4. /\ l.list = os.list /\ l.tcb = os.tcb /\ l.event = os.event
        /\ m.list = os.list /\ m.tcb = os.tcb /\ m.event = os.event
    BY <1>1, <1>2, <1>3 DEF Fields
  <1>5. \A t \in TCBs : SameAnswer(os.tcb[t], l.tcb[t]) /\ SameAnswer(os.tcb[t], m.tcb[t])
    BY <1>4, SameBlockAnswers
  <1>6. SameStored(os, l) /\ SameStored(os, m)
    BY <1>4 DEF SameStored
  <1>7. CASE OSSchedLock
    <2>1. Anywhere("OSSchedLock") /\ Leave(l, <<>>) /\ io' = NoIO
      BY <1>2, <1>7 DEF OSSchedLock, Anywhere
    <2> QED
      BY <1>4, <1>5, <1>6, <2>1, CalledQuiet
  <1>8. CASE OSSchedUnlock
    <2>1. PICK steps : steps = IF os.lock = 1 THEN <<Sched>> ELSE <<>>
      OBVIOUS
    <2>2. Anywhere("OSSchedUnlock") /\ Leave(m, steps) /\ io' = NoIO
      BY <1>3, <1>8, <2>1 DEF OSSchedUnlock, Anywhere
    <2>3. steps = <<>> \/ steps = <<Sched>>
      BY <2>1
    <2> QED
      BY <1>4, <1>5, <1>6, <2>2, <2>3, CalledQuiet
  <1> QED
    BY <1>7, <1>8

LEMMA TickDelivers ==
  ASSUME TInv, SignalOnly, OSTimeTick PROVE Delivers
  <1>1. Shape(os)
    BY DataShape DEF TInv
  <1>2. PICK D : D = {t \in os.list \ {Idle} : os.tcb[t].dly # 0}
    OBVIOUS
  <1>3. PICK m : m = [os EXCEPT !.tcb = [t \in TCBs |->
                        IF t \in D THEN [os.tcb[t] EXCEPT !.dly = @ - 1] ELSE os.tcb[t]]]
    OBVIOUS
  <1>4. PICK S : S = {t \in D : m.tcb[t].dly = 0}
    OBVIOUS
  <1>5. PICK l : l = Expire(m, S)
    OBVIOUS
  <1>6. os' = l /\ pc' = pc /\ io' = NoIO
    BY <1>2, <1>3, <1>4, <1>5 DEF OSTimeTick
  <1>7. DOMAIN m = Fields /\ \A f \in Fields \ {"tcb"} : m[f] = os[f]
    BY <1>1, <1>3 DEF Shape, Fields
  <1>8. DOMAIN m.tcb = TCBs
        /\ \A t \in TCBs : /\ DOMAIN m.tcb[t] = TCBFields
                           /\ m.tcb[t].flagsRdy = os.tcb[t].flagsRdy /\ m.tcb[t].node = os.tcb[t].node
    BY <1>1, <1>3 DEF Shape, Fields, TCBFields
  <1>9. m.event = os.event
    BY <1>7 DEF Fields
  <1>10. Shape(m) /\ Inert(os, m)
    BY <1>1, <1>7, <1>8, <1>9, InertParts DEF Shape
  <1>11. /\ Inert(m, l) /\ SameBlocks(m, l, S)
         /\ \A t \in TCBs : t \in S => l.tcb[t] = Expired(m.tcb[t])
    BY <1>5, <1>10, ExpireInert, ExpireTyped
  <1>12. l.list = os.list
    BY <1>10, <1>11 DEF Inert, Apart, Stable, SameTasks
  <1>13. Live' = Live /\ \A t \in TCBs : Waiting'[t] = Waiting[t]
    BY <1>6, <1>12, PcSame DEF Waiting
  <1>14. ASSUME NEW t \in TCBs PROVE SameAnswer(os.tcb[t], m.tcb[t]) /\ m.tcb[t].stat = os.tcb[t].stat
    <2>1. CASE t \in D
      <3>1. PICK x : x = os.tcb[t]
        OBVIOUS
      <3>2. PICK v : v = x.dly - 1
        OBVIOUS
      <3>3. m.tcb[t] = [x EXCEPT !.dly = v] /\ DOMAIN x = TCBFields
        BY <1>1, <1>3, <2>1, <3>1, <3>2 DEF Shape, Fields, TCBFields
      <3>4. PICK y : y = m.tcb[t]
        OBVIOUS
      <3>5. y = [x EXCEPT !.dly = v]
        BY <3>3, <3>4
      <3>6. SameAnswer(x, y)
        BY <3>3, <3>5, StatusAnswers
      <3>7. y.stat = x.stat
        BY <3>3, <3>5 DEF TCBFields
      <3> QED
        BY <3>1, <3>4, <3>6, <3>7
    <2>2. CASE t \notin D
      <3>1. m.tcb[t] = os.tcb[t]
        BY <1>1, <1>3, <2>2 DEF Shape, Fields
      <3> QED
        BY <3>1, SameBlockAnswers
    <2> QED
      BY <2>1, <2>2
  <1>15. ASSUME NEW t \in TCBs PROVE HoldsAll(t)
    <2>1. CASE t \in S
      <3>1. os.tcb[t].dly # 0
        BY <1>2, <1>4, <2>1
      <3>2. l.tcb[t] = Expired(m.tcb[t]) /\ DOMAIN m.tcb[t] = TCBFields
        BY <1>8, <1>11, <2>1
      <3>3. l.tcb[t].pend = IF m.tcb[t].stat \cap OS_STAT_PEND_ANY # {} THEN "TO" ELSE "OK"
        BY <3>2 DEF Expired, TCBFields
      <3> QED
        BY <1>6, <1>13, <1>14, <3>1, <3>3, ExpiredHolds
    <2>2. CASE t \notin S
      <3>1. l.tcb[t] = m.tcb[t]
        BY <1>11, <2>2 DEF SameBlocks
      <3> QED
        BY <1>6, <1>13, <1>14, <3>1, KeepsHands
    <2> QED
      BY <2>1, <2>2
  <1>16. \A e \in EventIds : StoredIn(os'.event[e]) = StoredIn(os.event[e])
    <2>1. \A e \in EventIds : l.event[e].type = os.event[e].type
      BY <1>9, <1>11 DEF Inert, Apart, Stable, SameTypes
    <2>2. SameStored(os, l)
      BY <1>9, <1>11 DEF Inert, Apart, SameStored
    <2> QED
      BY <1>6, <2>1, <2>2, StoredSame
  <1> QED
    BY <1>6, <1>15, <1>16, QuietDelivers

LEMMA RunDelivers ==
  ASSUME KInv, TInv, SignalOnly, OSStart \/ IntNext \/ OS_Sched \/ OSSchedLock \/ OSSchedUnlock
  PROVE  Delivers
  <1>1. Shape(os) /\ DOMAIN os = Fields
    BY DataShape DEF TInv, Shape
  <1>2. CASE OSStart
    <2>1. PICK high : high = Highest(os.rdy)
      OBVIOUS
    <2>2. PICK l : l = [os EXCEPT !.cur = Task(os, high), !.prioCur = high, !.running = TRUE]
      OBVIOUS
    <2>3. os' = l /\ pc' = pc /\ io' = NoIO
      BY <1>2, <2>1, <2>2 DEF OSStart
    <2>4. l.list = os.list /\ l.tcb = os.tcb /\ l.event = os.event
      BY <1>1, <2>2 DEF Fields
    <2> QED
      BY <2>3, <2>4, PcDelivers, SameBlockAnswers
  <1>3. CASE \E kind \in {"tick", "device"} : OSIntEnter(kind)
    <2>1. os' = os /\ pc' = pc /\ io' = NoIO
      BY <1>3 DEF OSIntEnter
    <2> QED
      BY <2>1, PcDelivers, SameBlockAnswers
  <1>4. CASE OSIntExit
    <2>1. os' = Switch(os) /\ pc' = pc /\ io' = NoIO
      BY <1>4 DEF OSIntExit
    <2>2. Inert(os, os') /\ os'.event = os.event /\ os'.tcb = os.tcb
      BY <1>1, <2>1, SwitchInert, SwitchTyped
    <2>3. os'.list = os.list
      BY <2>2 DEF Inert, Apart, Stable, SameTasks
    <2> QED
      BY <2>1, <2>2, <2>3, PcDelivers, SameBlockAnswers
  <1> QED
    BY <1>2, <1>3, <1>4, TickDelivers, SchedDelivers, LockDelivers DEF IntNext

(***************************************************************************)
(* Memory.                                                                 *)
(***************************************************************************)
LEMMA MemDelivers ==
  ASSUME KInv, TInv, SignalOnly, MemNext PROVE Delivers
  <1>1. DOMAIN os = Fields
    BY DEF TInv, Data
  <1>2. ASSUME NEW v, NEW l, l = [os EXCEPT !.mem = v]
        PROVE  l.list = os.list /\ l.tcb = os.tcb /\ l.event = os.event
    BY <1>1, <1>2 DEF Fields
  <1>3. ASSUME NEW v, NEW c, Anywhere(c), Leave([os EXCEPT !.mem = v], <<>>), io' = NoIO PROVE Delivers
    <2>1. PICK l : l = [os EXCEPT !.mem = v]
      OBVIOUS
    <2>2. l.list = os.list /\ l.tcb = os.tcb /\ l.event = os.event
      BY <1>2, <2>1
    <2>3. SameStored(os, l) /\ \A t \in TCBs : SameAnswer(os.tcb[t], l.tcb[t])
      BY <2>2, SameBlockAnswers DEF SameStored
    <2>4. Leave(l, <<>>)
      BY <1>3, <2>1
    <2> QED
      BY <1>3, <2>2, <2>3, <2>4, CalledQuiet
  <1>4. ASSUME NEW v, NEW steps, Leave([os EXCEPT !.mem = v], steps), io' = NoIO,
               isr = "none", Waiting[os.cur] = Sched, At(os.cur) # "OS_Dummy",
               NextOp(steps) # "OS_Dummy", WaitOf(steps) = Sched
        PROVE  Delivers
    <2>1. PICK l : l = [os EXCEPT !.mem = v]
      OBVIOUS
    <2>2. l.list = os.list /\ l.tcb = os.tcb /\ l.event = os.event
      BY <1>2, <2>1
    <2>3. \A t \in TCBs : t \in Live => SameAnswer(os.tcb[t], l.tcb[t])
      BY <2>2, SameBlockAnswers
    <2>4. Leave(l, steps)
      BY <1>4, <2>1
    <2> QED
      BY <1>4, <2>2, <2>3, <2>4, PlainQuiet
  <1>5. ASSUME OSMemCreate PROVE Delivers
    <2>1. PICK v : v = [os.mem EXCEPT !.headers = @ - 1]
      OBVIOUS
    <2>2. PICK steps : steps = <<[op |-> "OSMemCreate"]>>
      OBVIOUS
    <2>3. Leave([os EXCEPT !.mem = v], steps) /\ AtTask("OSMemCreate") /\ io' = NoIO
      BY <1>1, <1>5, <2>1, <2>2 DEF OSMemCreate, Fields
    <2>4. isr = "none" /\ Waiting[os.cur] = Sched /\ At(os.cur) = "none"
      BY <2>3, TaskCaller
    <2>5. NextOp(steps) = "OSMemCreate" /\ WaitOf(steps) = Sched
      BY <2>2 DEF NextOp, WaitOf, WaitOps
    <2> QED
      BY <1>4, <2>3, <2>4, <2>5
  <1>6. ASSUME OSMemCreate_Link PROVE Delivers
    <2>1. PICK v : v = [os.mem EXCEPT !.parts = Append(@, Partition)]
      OBVIOUS
    <2>2. Leave([os EXCEPT !.mem = v], <<>>) /\ Step("OSMemCreate") /\ io' = NoIO
      BY <1>1, <1>6, <2>1 DEF OSMemCreate_Link, Fields
    <2>3. isr = "none" /\ Waiting[os.cur] = Sched /\ At(os.cur) # "OS_Dummy"
      BY <2>2, OtherCaller
    <2>4. NextOp(<<>>) = "none" /\ WaitOf(<<>>) = Sched
      BY StepForms
    <2> QED
      BY <1>4, <2>2, <2>3, <2>4
  <1>7. ASSUME NEW p, OSMemGet(p) PROVE Delivers
    <2>1. PICK w : w = [free |-> Tail(os.mem.parts[p].free), nFree |-> os.mem.parts[p].nFree - 1,
                        held |-> os.mem.parts[p].held \cup {Head(os.mem.parts[p].free)}]
      OBVIOUS
    <2>2. PICK v : v = [os.mem EXCEPT !.parts[p] = w]
      OBVIOUS
    <2>3. Leave([os EXCEPT !.mem = v], <<>>) /\ Anywhere("OSMemGet") /\ io' = NoIO
      BY <1>1, <1>7, <2>1, <2>2 DEF OSMemGet, Fields
    <2> QED
      BY <1>3, <2>3
  <1>8. ASSUME NEW p, NEW b, OSMemPut(p, b) PROVE Delivers
    <2>1. PICK w : w = [free |-> <<b>> \o os.mem.parts[p].free, nFree |-> os.mem.parts[p].nFree + 1,
                        held |-> os.mem.parts[p].held \ {b}]
      OBVIOUS
    <2>2. PICK v : v = [os.mem EXCEPT !.parts[p] = w]
      OBVIOUS
    <2>3. Leave([os EXCEPT !.mem = v], <<>>) /\ Anywhere("OSMemPut") /\ io' = NoIO
      BY <1>1, <1>8, <2>1, <2>2 DEF OSMemPut, Fields
    <2> QED
      BY <1>3, <2>3
  <1> QED
    BY <1>5, <1>6, <1>7, <1>8, Zenon DEF MemNext

(***************************************************************************)
(* Flags.  Who waits for flags gets nothing from an event.                 *)
(***************************************************************************)
LEMMA FlagsSilent ==
  ASSUME KInv, TInv, SignalOnly, NEW c, Anywhere(c), NEW l, NEW steps, Leave(l, steps), l.list = os.list,
         steps = <<>> \/ steps = <<Sched>>, NEW S, \A t \in S : Waiting[t].op = "flag",
         \A t \in TCBs : t \notin S => SameAnswer(os.tcb[t], l.tcb[t]), l.event = os.event, io' = NoIO
  PROVE  Delivers
  <1>1. os' = l
    BY CalledWaits
  <1>3. \A t \in TCBs : Waiting'[t] = Waiting[t]
    BY CalledWaits
  <1>2. ASSUME NEW t \in TCBs PROVE HoldsAll(t)
    <2>1. CASE t \in S
      <3>1. Waiting[t].op = "flag" /\ Waiting'[t].op = "flag"
        BY <1>3, <2>1
      <3>2. Handless(t)
        BY <3>1, GetsNothing
      <3>3. Handless(t)'
        BY <3>1, GotNothing
      <3> QED
        BY <3>2, <3>3, HandlessHolds
    <2>2. CASE t \notin S
      BY <2>2, CalledHands
    <2> QED
      BY <2>1, <2>2
  <1> QED
    BY <1>1, <1>2, QuietDelivers

LEMMA NobodyWaits == \A t \in Nobody : Waiting[t].op = "flag"
  BY DEF Nobody

(* Who starts to wait was given nothing.                                   *)
LEMMA BlockHands ==
  ASSUME KInv, Inv, NEW c, AtTask(c), NEW v \in WaitStep, NEW l, Leave(l, <<Sched, v>>),
         l.list = os.list, SameBlocks(os, l, Only(os.cur)),
         v.op = "flag" \/ Waits(l.tcb[os.cur])
  PROVE  os' = l /\ \A t \in TCBs : HoldsAll(t)
  <1>1. PICK steps : steps = <<Sched, v>>
    OBVIOUS
  <1>2. TInv /\ Leave(l, steps)
    BY <1>1 DEF Inv
  <1>3. NextOp(steps) = "OS_Sched" /\ WaitOf(steps) = v
    BY <1>1, StepForms
  <1>4. "OS_Sched" \notin StockOps \cup {"OS_Dummy"} /\ Anywhere(c)
    BY DEF StockOps, CreationOps, Anywhere
  <1>5. isr = "none" /\ os.cur \in TCBs /\ Waiting[os.cur] = Sched
    BY <1>2, TaskCaller
  <1>6. /\ os' = l /\ Live' = Live /\ Waiting'[os.cur] = v
        /\ \A t \in TCBs : t # os.cur => Waiting'[t] = Waiting[t]
    BY <1>2, <1>3, <1>4, <1>5, CalledSame
  <1>7. ASSUME NEW t \in TCBs, t = os.cur PROVE HoldsAll(t)
    <2>1. Handless(t)
      BY <1>5, <1>7, GetsNothing DEF Sched
    <2>2. Handless(t)'
      BY <1>6, <1>7, GotNothing
    <2> QED
      BY <2>1, <2>2, HandlessHolds
  <1>8. ASSUME NEW t \in TCBs, t # os.cur PROVE HoldsAll(t)
    <2>1. l.tcb[t] = os.tcb[t]
      BY <1>8 DEF SameBlocks, Only
    <2> QED
      BY <1>6, <1>8, <2>1, KeepsHands, SameBlockAnswers
  <1> QED
    BY <1>6, <1>7, <1>8

LEMMA FlagPendDelivers ==
  ASSUME KInv, Inv, SignalOnly, NEW g \in FlagIds, NEW d \in Conditions, NEW consume \in BOOLEAN,
         NEW timeout \in Timeouts, OSFlagPend(g, d, consume, timeout)
  PROVE  Delivers
  <1>1. Shape(os) /\ TInv
    BY DataShape DEF Inv, TInv
  <1>2. PICK c : c = os.cur
    OBVIOUS
  <1>3. c \in TCBs /\ RunsIn(os, c) /\ AtTask("OSFlagPend") /\ Anywhere("OSFlagPend") /\ io' = NoIO
    BY <1>1, <1>2 DEF TInv, Data, RunsIn, OSFlagPend, Anywhere
  <1>4. CASE Satisfied(os.flag[g].flags, d)
    <2>1. PICK m : m = Take(g, d, consume)
      OBVIOUS
    <2>2. PICK rdy : rdy = FlagsRdy(os.flag[g].flags, d)
      OBVIOUS
    <2>3. PICK y : y = [m.tcb[c] EXCEPT !.flagsRdy = rdy]
      OBVIOUS
    <2>4. Shape(m) /\ Apart(os, m) /\ m.event = os.event /\ m.tcb = os.tcb
      BY <1>1, <2>1, TakeParts
    <2>5. PICK l : l = [m EXCEPT !.tcb[c] = y]
      OBVIOUS
    <2>6. Leave(l, <<>>)
      BY <1>2, <1>3, <1>4, <2>1, <2>2, <2>3, <2>4, <2>5 DEF OSFlagPend, Shape
    <2>7. SameBlocks(m, l, Only(c)) /\ l.tcb[c] = y
      BY <1>3, <2>4, <2>5, OneBlock
    <2>8. l.list = m.list /\ l.event = m.event
      BY <2>4, <2>5 DEF Shape, Fields
    <2>9. l.list = os.list
      BY <2>4, <2>8 DEF Apart, Stable, SameTasks
    <2>10. SameAnswer(m.tcb[c], y)
      BY <1>3, <2>3, <2>4, StatusAnswers DEF Shape
    <2>11. \A t \in TCBs : t \notin Nobody => SameAnswer(os.tcb[t], l.tcb[t])
      BY <2>4, <2>7, <2>10, SameBlockAnswers DEF SameBlocks, Only
    <2> QED
      BY <1>1, <1>3, <2>4, <2>6, <2>8, <2>9, <2>11, NobodyWaits, FlagsSilent
  <1>5. CASE ~Satisfied(os.flag[g].flags, d)
    <2>1. PICK l : l = OS_FlagBlock(g, d, timeout)
      OBVIOUS
    <2>2. PICK v : v = [op |-> "flag", grp |-> g, cond |-> d, consume |-> consume]
      OBVIOUS
    <2>3. v \in WaitStep /\ v.op = "flag"
      BY <2>2 DEF WaitStep, FlagStep
    <2>4. Leave(l, <<Sched, v>>)
      BY <1>5, <2>1, <2>2 DEF OSFlagPend
    <2>9. Shape(os) /\ c \in TCBs /\ RunsIn(os, c)
      BY <1>1, <1>3
    <2>5. Apart(os, l)
      BY <2>1, <2>9, FlagBlockApart
    <2>6. SameBlocks(os, l, Only(os.cur))
      BY <1>1, <1>2, <1>3, <2>1, FlagBlockTyped
    <2>7. l.list = os.list
      BY <2>5 DEF Apart, Stable, SameTasks
    <2>8. os' = l /\ \A t \in TCBs : HoldsAll(t)
      BY <1>3, <2>3, <2>4, <2>6, <2>7, BlockHands
    <2>10. \A e \in EventIds : StoredIn(l.event[e]) = StoredIn(os.event[e])
      BY <2>5, StoredSame DEF Apart, Stable, SameTypes
    <2> QED
      BY <1>3, <2>8, <2>10, QuietDelivers
  <1> QED
    BY <1>4, <1>5

(* Who has waited for flags goes on.                                       *)
LEMMA FlagBackDelivers ==
  ASSUME TInv, SignalOnly, OSFlagPend_Return PROVE Delivers
  <1>1. Shape(os)
    BY DataShape DEF TInv
  <1>2. PICK c : c = os.cur
    OBVIOUS
  <1>3. Step("flag") /\ "flag" \in WaitOps /\ io' = NoIO
    BY DEF OSFlagPend_Return, WaitOps
  <1>4. /\ isr = "none" /\ At(os.cur) = "flag" /\ c \in TCBs
        /\ Steps(pc[os.cur]) /\ NextOp(pc[os.cur]) = "flag" /\ Now = Head(pc[os.cur])
        /\ Waiting[os.cur] = WaitOf(pc[os.cur]) /\ os.running
    BY <1>2, <1>3, StepCaller
  <1>5. Waiting[c] = Now /\ Now.op = "flag" /\ Now \in WaitStep
    BY <1>2, <1>3, <1>4, NextStep DEF NextOp
  <1>6. PICK l : Proceed(l) /\ l.list = os.list /\ l.event = os.event /\ SameBlocks(os, l, Only(c))
    <2>1. CASE Cur.pend # "OK"
      <3>1. PICK m : m = OS_FlagUnlink(os, c)
        OBVIOUS
      <3>2. PICK y : y = [m.tcb[c] EXCEPT !.pend = "OK", !.stat = {}]
        OBVIOUS
      <3>3. PICK l : l = [m EXCEPT !.tcb[c] = y]
        OBVIOUS
      <3>4. Shape(m) /\ Apart(os, m) /\ m.event = os.event /\ SameBlocks(os, m, Only(c))
        BY <1>1, <1>4, <3>1, UnlinkApart, UnlinkTyped
      <3>5. l = [m EXCEPT !.tcb[c].pend = "OK", !.tcb[c].stat = {}]
        BY <1>4, <3>2, <3>3, <3>4 DEF Shape, Fields
      <3>6. Proceed(l)
        BY <1>2, <2>1, <3>1, <3>5 DEF OSFlagPend_Return
      <3>7. SameBlocks(m, l, Only(c))
        BY <1>4, <3>3, <3>4, OneBlock
      <3>8. l.event = m.event /\ l.list = m.list
        BY <3>3, <3>4 DEF Shape, Fields
      <3>9. m.list = os.list
        BY <3>4 DEF Apart, Stable, SameTasks
      <3> QED
        BY <3>4, <3>6, <3>7, <3>8, <3>9 DEF SameBlocks
    <2>2. CASE Cur.pend = "OK" /\ Now.consume
      <3>1. PICK v : v = Consumed(os.flag[Now.grp].flags, Cur.flagsRdy, Now.cond)
        OBVIOUS
      <3>2. PICK l : l = [os EXCEPT !.flag[Now.grp].flags = v]
        OBVIOUS
      <3>3. Now.grp \in FlagIds
        <4>1. c \in Live
          BY <1>2, <1>4, OrdinaryRunning
        <4> QED
          BY <1>4, <1>5, <4>1, WaitTypes
      <3>4. Proceed(l)
        BY <2>2, <3>1, <3>2, <3>3 DEF OSFlagPend_Return
      <3>5. l.list = os.list /\ l.event = os.event /\ l.tcb = os.tcb
        BY <1>1, <3>2 DEF Shape, Fields
      <3> QED
        BY <3>4, <3>5 DEF SameBlocks
    <2>3. CASE Cur.pend = "OK" /\ ~Now.consume
      <3>1. Proceed(os)
        BY <2>3 DEF OSFlagPend_Return
      <3> QED
        BY <3>1 DEF SameBlocks
    <2> QED
      BY <2>1, <2>2, <2>3
  <1>7. /\ os' = l /\ Live' = Live /\ \A t \in TCBs : t # c => Waiting'[t] = Waiting[t]
        /\ Waiting'[c] = Sched
    BY <1>2, <1>3, <1>6, ReturnedSame
  <1>8. ASSUME NEW t \in TCBs PROVE HoldsAll(t)
    <2>1. CASE t = c
      <3>1. Handless(t)
        BY <1>5, <2>1, GetsNothing
      <3>2. Handless(t)'
        BY <1>7, <2>1, GotNothing DEF Sched
      <3> QED
        BY <3>1, <3>2, HandlessHolds
    <2>2. CASE t # c
      <3>1. l.tcb[t] = os.tcb[t]
        BY <1>6, <2>2 DEF SameBlocks, Only
      <3> QED
        BY <1>7, <2>2, <3>1, KeepsHands, SameBlockAnswers
    <2> QED
      BY <2>1, <2>2
  <1> QED
    BY <1>3, <1>6, <1>7, <1>8, QuietDelivers

LEMMA FlagPostDelivers ==
  ASSUME KInv, TInv, SignalOnly, NEW g \in FlagIds, NEW flags, NEW set, OSFlagPost(g, flags, set)
  PROVE  Delivers
  <1>1. Shape(os)
    BY DataShape DEF TInv
  <1>2. PICK F : F = IF set THEN os.flag[g].flags \cup flags ELSE os.flag[g].flags \ flags
    OBVIOUS
  <1>3. PICK S : S = {t \in os.flag[g].wait : Satisfied(F, os.tcb[t].node.cond)}
    OBVIOUS
  <1>4. PICK m : m = [os EXCEPT !.flag[g].flags = F]
    OBVIOUS
  <1>5. PICK R : R = [t \in S |-> FlagsRdy(F, os.tcb[t].node.cond)]
    OBVIOUS
  <1>6. PICK l : l = OS_FlagTaskRdy(m, S, R)
    OBVIOUS
  <1>7. PICK steps : steps = IF \E t \in S : l.tcb[t].stat = {} THEN <<Sched>> ELSE <<>>
    OBVIOUS
  <1>8. Leave(l, steps) /\ Anywhere("OSFlagPost") /\ io' = NoIO
    BY <1>2, <1>3, <1>4, <1>5, <1>6, <1>7 DEF OSFlagPost
  <1>9. steps = <<>> \/ steps = <<Sched>>
    BY <1>7
  <1>10. Shape(m) /\ Apart(os, m) /\ m.event = os.event /\ m.tcb = os.tcb
    BY <1>1, <1>4, ReflagParts DEF Reflagged
  <1>11. Apart(m, l) /\ l.event = m.event /\ SameBlocks(m, l, S)
    BY <1>6, <1>10, GrantApart, GrantTyped
  <1>12. l.list = os.list
    BY <1>10, <1>11 DEF Apart, Stable, SameTasks
  <1>13. \A t \in S : Waiting[t].op = "flag"
    BY <1>3, FlagWaiter
  <1>14. \A t \in TCBs : t \notin S => SameAnswer(os.tcb[t], l.tcb[t])
    BY <1>10, <1>11, SameBlockAnswers DEF SameBlocks
  <1> QED
    BY <1>8, <1>9, <1>10, <1>11, <1>12, <1>13, <1>14, FlagsSilent

LEMMA FlagGroupDelivers ==
  ASSUME KInv, TInv, SignalOnly
  PROVE  /\ \A flags \in SUBSET FlagBits : OSFlagCreate(flags) => Delivers
         /\ \A g \in FlagIds : \A always : OSFlagDel(g, always) => Delivers
  <1>1. Shape(os)
    BY DataShape DEF TInv
  <1>2. ASSUME NEW flags \in SUBSET FlagBits, OSFlagCreate(flags) PROVE Delivers
    <2>1. PICK g : g = Head(os.freeFlags)
      OBVIOUS
    <2>2. PICK s : s = Tail(os.freeFlags)
      OBVIOUS
    <2>3. PICK u : u = NewFlag(flags)
      OBVIOUS
    <2>4. PICK l : l = [os EXCEPT !.flag[g] = u, !.freeFlags = s]
      OBVIOUS
    <2>5. Leave(l, <<>>) /\ Anywhere("OSFlagCreate") /\ io' = NoIO
      BY <1>1, <1>2, <2>1, <2>2, <2>3, <2>4 DEF OSFlagCreate, Shape, Fields, Anywhere
    <2>6. l.list = os.list /\ l.event = os.event /\ l.tcb = os.tcb
      BY <1>1, <2>4 DEF Shape, Fields
    <2>7. \A t \in TCBs : t \notin Nobody => SameAnswer(os.tcb[t], l.tcb[t])
      BY <2>6, SameBlockAnswers
    <2> QED
      BY <2>5, <2>6, <2>7, NobodyWaits, FlagsSilent
  <1>3. ASSUME NEW g \in FlagIds, NEW always, OSFlagDel(g, always) PROVE Delivers
    <2>1. PICK S : S = os.flag[g].wait
      OBVIOUS
    <2>2. PICK R : R = [t \in S |-> {}]
      OBVIOUS
    <2>3. PICK m : m = OS_FlagTaskRdy(os, S, R)
      OBVIOUS
    <2>4. PICK u : u = UnusedFlag
      OBVIOUS
    <2>5. PICK s : s = <<g>> \o m.freeFlags
      OBVIOUS
    <2>6. PICK l : l = [m EXCEPT !.flag[g] = u, !.freeFlags = s]
      OBVIOUS
    <2>7. PICK steps : steps = IF S # {} THEN <<Sched>> ELSE <<>>
      OBVIOUS
    <2>8. Shape(m) /\ Apart(os, m) /\ m.event = os.event /\ SameBlocks(os, m, S)
      BY <1>1, <2>3, GrantApart, GrantTyped
    <2>9. Leave(l, steps) /\ Anywhere("OSFlagDel") /\ io' = NoIO
      BY <1>3, <2>1, <2>2, <2>3, <2>4, <2>5, <2>6, <2>7, <2>8 DEF OSFlagDel, Shape, Fields, Anywhere
    <2>10. steps = <<>> \/ steps = <<Sched>>
      BY <2>7
    <2>11. l.list = m.list /\ l.event = m.event /\ l.tcb = m.tcb
      BY <2>6, <2>8 DEF Shape, Fields
    <2>12. l.list = os.list
      BY <2>8, <2>11 DEF Apart, Stable, SameTasks
    <2>13. \A t \in S : Waiting[t].op = "flag"
      BY <2>1, FlagWaiter
    <2>14. \A t \in TCBs : t \notin S => SameAnswer(os.tcb[t], l.tcb[t])
      BY <2>8, <2>11, SameBlockAnswers DEF SameBlocks
    <2> QED
      BY <2>8, <2>9, <2>10, <2>11, <2>12, <2>13, <2>14, FlagsSilent
  <1> QED
    BY <1>2, <1>3

LEMMA FlagDelivers ==
  ASSUME KInv, Inv, app.conds \subseteq Conditions, SignalOnly, FlagNext PROVE Delivers
  <1>1. TInv /\ Shape(os)
    BY DataShape DEF Inv, TInv
  <1>2. ASSUME NEW g \in FlagIds, NEW d \in app.conds, NEW consume \in BOOLEAN, OSFlagAccept(g, d, consume)
        PROVE  Delivers
    <2>1. PICK m : m = Take(g, d, consume)
      OBVIOUS
    <2>2. Leave(m, <<>>) /\ Anywhere("OSFlagAccept") /\ io' = NoIO
      BY <1>2, <2>1 DEF OSFlagAccept
    <2>3. Apart(os, m) /\ m.event = os.event /\ m.tcb = os.tcb
      BY <1>1, <2>1, TakeParts
    <2>4. m.list = os.list /\ \A t \in TCBs : t \notin Nobody => SameAnswer(os.tcb[t], m.tcb[t])
      BY <2>3, SameBlockAnswers DEF Apart, Stable, SameTasks
    <2> QED
      BY <1>1, <2>2, <2>3, <2>4, NobodyWaits, FlagsSilent
  <1>3. ASSUME NEW g \in FlagIds, NEW d \in app.conds, NEW consume \in BOOLEAN, NEW timeout \in Timeouts,
               OSFlagPend(g, d, consume, timeout)
        PROVE  Delivers
    BY <1>3, FlagPendDelivers
  <1>4. ASSUME NEW g \in FlagIds, NEW flags \in SUBSET FlagBits, NEW set, OSFlagPost(g, flags, set)
        PROVE  Delivers
    BY <1>1, <1>4, FlagPostDelivers
  <1> QED
    BY <1>1, <1>2, <1>3, <1>4, FlagGroupDelivers, FlagBackDelivers DEF FlagNext

(***************************************************************************)
(* Events: who is told.                                                    *)
(***************************************************************************)
LEMMA AwakeMessage ==
  ASSUME NEW x, DOMAIN x = TCBFields, NEW e, NEW msg, NEW msk, NEW pend, NEW y,
         y = Awake(x, e, msg, msk, pend)
  PROVE  y.msg = msg
  BY DEF Awake, TCBFields

(* A waiter of e that is told pend.                                        *)
LEMMA WaiterTold ==
  ASSUME NEW x, DOMAIN x = TCBFields, NEW w, NEW e \in EventIds, NEW msg, NEW msk, NEW pend, NEW y,
         y = Awake(x, e, msg, msk, pend), Local(x, w), Listed(x), e \in PendEvents(w),
         w.op = "pend" => w.type = msk
  PROVE  /\ \A f : ~Given(x, w, f)
         /\ y.msg = msg
         /\ pend = "OK" => Given(y, w, e)
         /\ \A f : f # e \/ pend # "OK" => ~Given(y, w, f)
  <1>1. \A f : ~Given(x, w, f)
    BY DEF Given, Listed
  <1>2. /\ \A b : b \in y.stat <=> b \in x.stat /\ b # msk
        /\ y.pend = pend /\ y.multi = x.multi /\ y.event = IF x.multi # {} THEN e ELSE x.event
    BY AwakeFields
  <1>3. y.msg = msg
    BY AwakeMessage
  <1>4. w.op = "pend" \/ w.op = "multi"
    BY DEF PendEvents
  <1>5. e # None
    BY NullAssumption
  <1>6. CASE w.op = "pend"
    <2>1. x.multi = {} /\ x.stat \subseteq {msk, "SUSPEND"} /\ w.event = e
      BY <1>6 DEF Local, PendEvents
    <2>2. ~Waits(y)
      BY <1>2, <2>1 DEF Waits, OS_STAT_PEND_ANY
    <2>3. PendEvents(w) = {e}
      BY <1>6, <2>1 DEF PendEvents
    <2> QED
      BY <1>1, <1>2, <1>3, <2>1, <2>2, <2>3 DEF Given
  <1>7. CASE w.op = "multi"
    <2>1. x.multi # {}
      BY <1>7 DEF Local
    <2>2. y.multi # {} /\ y.event = e
      BY <1>2, <2>1
    <2>3. ~Waits(y)
      BY <1>5, <2>2 DEF Waits
    <2> QED
      BY <1>1, <1>2, <1>3, <2>2, <2>3 DEF Given
  <1> QED
    BY <1>4, <1>6, <1>7

LEMMA WokenIsTold ==
  ASSUME TInv, NEW e \in EventIds, NEW P \in SUBSET Waiters(os, e), NEW t \in Woke(os, P)
  PROVE  /\ t \in TCBs /\ t \in Live /\ Listed(os.tcb[t]) /\ e \in PendEvents(Waiting[t])
         /\ Local(os.tcb[t], Waiting[t])
         /\ Waiting[t].op = "pend" => Waiting[t].type = os.event[e].type
  <1>1. PICK p \in P : t = os.prioTbl[p]
    BY DEF Woke, Task
  <1>2. Core(os, Live, Waiting)
    BY DEF TInv
  <1>3. p \in Waiters(os, e)
    BY <1>1
  <1>4. t \in Live /\ t \in TCBs /\ os.tcb[t].prio = p
    BY <1>1, <1>2, <1>3 DEF Core, Holder
  <1>5. PICK w : w = Waiting[t]
    OBVIOUS
  <1>6. TaskOK(os, w, t)
    BY <1>2, <1>4, <1>5 DEF Core
  <1>7. e \in PendEvents(w) /\ Listed(os.tcb[t]) /\ Local(os.tcb[t], w)
    BY <1>3, <1>4, <1>6 DEF TaskOK
  <1>8. w.op = "pend" => w.event = e /\ os.event[w.event].type = w.type
    BY <1>6, <1>7 DEF TaskOK, PendEvents
  <1> QED
    BY <1>4, <1>5, <1>7, <1>8

WakeTold(P, e, msg, msk, pend) ==
  /\ \A t \in TCBs : t \notin Woke(os, P) \/ pend # "OK" => HoldsAll(t)
  /\ pend = "OK" => \A t \in TCBs : t \in Woke(os, P) =>
       /\ Takes(t, e, msg) /\ \A f \in EventIds : f # e => Holds(t, f)
       /\ Silent(Waiting'[t]) => msk \in {"SEM", "MUTEX"}
LEMMA WakeHands ==
  ASSUME TInv, NEW e \in EventIds, NEW P \in SUBSET Waiters(os, e), NEW msg, NEW pend, NEW msk,
         msk = os.event[e].type, NEW k, k = OS_EventTaskRdy(os, e, P, msg, msk, pend),
         Live' = Live, \A t \in TCBs : Waiting'[t] = Waiting[t], \A t \in TCBs : os'.tcb[t] = k.tcb[t]
  PROVE  WakeTold(P, e, msg, msk, pend)
  <1>1. Shape(os)
    BY DataShape DEF TInv
  <1>2. /\ SameBlocks(os, k, Woke(os, P))
        /\ \A t \in TCBs : t \in Woke(os, P) => k.tcb[t] = Awake(os.tcb[t], e, msg, msk, pend)
    BY <1>1, WakeTyped
  <1>3. ASSUME NEW t \in TCBs, t \notin Woke(os, P) PROVE HoldsAll(t)
    <2>1. os'.tcb[t] = os.tcb[t]
      BY <1>2, <1>3 DEF SameBlocks
    <2> QED
      BY <2>1, KeepsHands, SameBlockAnswers
  <1>4. ASSUME NEW t \in TCBs, t \in Woke(os, P)
        PROVE  /\ pend # "OK" => HoldsAll(t)
               /\ pend = "OK" => /\ Takes(t, e, msg) /\ \A f \in EventIds : f # e => Holds(t, f)
                                 /\ Silent(Waiting'[t]) => msk \in {"SEM", "MUTEX"}
    <2>1. PICK x : x = os.tcb[t]
      OBVIOUS
    <2>2. PICK w : w = Waiting[t]
      OBVIOUS
    <2>3. PICK y : y = k.tcb[t]
      OBVIOUS
    <2>4. /\ t \in Live /\ Listed(x) /\ e \in PendEvents(w) /\ Local(x, w)
          /\ w.op = "pend" => w.type = msk
      BY <1>4, <2>1, <2>2, WokenIsTold
    <2>5. DOMAIN x = TCBFields
      BY <1>1, <2>1 DEF Shape
    <2>6. y = Awake(x, e, msg, msk, pend)
      BY <1>2, <1>4, <2>1, <2>3
    <2>7. /\ \A f : ~Given(x, w, f)
          /\ y.msg = msg
          /\ pend = "OK" => Given(y, w, e)
          /\ \A f : f # e \/ pend # "OK" => ~Given(y, w, f)
      BY <2>4, <2>5, <2>6, WaiterTold
    <2>8. t \in Live' /\ Waiting'[t] = w /\ os'.tcb[t] = y
      BY <2>2, <2>3, <2>4
    <2>9. \A f \in EventIds : ~Taker(t, f) /\ (Taker(t, f)' <=> Given(y, w, f))
      BY <2>1, <2>2, <2>7, <2>8, TakerIs
    <2>10. Silent(w) => msk \in {"SEM", "MUTEX"}
      BY <2>4 DEF Silent
    <2> QED
      BY <2>7, <2>8, <2>9, <2>10 DEF HoldsAll, Holds, Takes
  <1> QED
    BY <1>3, <1>4 DEF WakeTold

(* As many tasks are woken as there are priorities.                        *)
LEMMA WokeCount ==
  ASSUME TInv, NEW e \in EventIds, NEW P \in SUBSET Waiters(os, e)
  PROVE  Woke(os, P) \in SUBSET TCBs /\ Cardinality(Woke(os, P)) = Cardinality(P)
  <1> DEFINE f == [p \in P |-> os.prioTbl[p]]
  <1>1. \A p \in P : os.prioTbl[p] \in TCBs /\ os.tcb[os.prioTbl[p]].prio = p
    BY DEF TInv, Core, Holder
  <1>2. Woke(os, P) \in SUBSET TCBs
    BY <1>1 DEF Woke, Task
  <1>3. IsFiniteSet(P)
    <2>1. P \in SUBSET Prios
      BY MembersPrios DEF Waiters
    <2>2. IsFiniteSet(Prios)
      BY WidthAssumption, RowsAssumption, FS_Interval DEF Prios, OS_LOWEST_PRIO
    <2> QED
      BY <2>1, <2>2, FS_Subset
  <1>4. f \in Bijection(P, Woke(os, P))
    <2>1. f \in [P -> Woke(os, P)]
      BY DEF Woke, Task
    <2>2. \A p, q \in P : f[p] = f[q] => p = q
      BY <1>1
    <2>3. \A t \in Woke(os, P) : \E p \in P : f[p] = t
      BY DEF Woke, Task
    <2> QED
      BY <2>1, <2>2, <2>3 DEF Bijection, Injection, Surjection, IsInjective
  <1>5. ExistsBijection(P, Woke(os, P))
    BY <1>4 DEF ExistsBijection
  <1> QED
    BY <1>2, <1>3, <1>5, FS_Bijection

LEMMA HighestIsOne ==
  ASSUME NEW e PROVE Cardinality(HighestWaiter(os, e)) = 1
  BY FS_Singleton DEF HighestWaiter

(* An event that somebody waits for has stored nothing.                    *)
LEMMA NothingStored ==
  ASSUME KInv, TInv, Typed(os), NoneWaits, NEW e \in EventIds, HasWaiter(os, e)
  PROVE  StoredIn(os.event[e]) = <<>>
  <1>1. Waiters(os, e) # {}
    <2>1. os.event[e].wait \in Table /\ WellFormed(os.event[e].wait)
      BY DEF KInv, Good, EventsOK, TInv, Data
    <2> QED
      BY <2>1, EmptyIsNone DEF HasWaiter, Waiters
  <1>2. ~HasSome(os.event[e])
    BY <1>1 DEF NoneWaits
  <1>3. ValueTyped(os.event[e])
    BY DEF Typed, ValuesTyped
  <1> PICK v : v = os.event[e]
    OBVIOUS
  <1>4. CASE v.type = "SEM"
    <2>1. v.cnt \in 0 .. OS_SEM_MAX
      BY <1>3, <1>4 DEF ValueTyped
    <2>2. v.cnt = 0
      BY <1>2, <1>4, <2>1, CountAssumption DEF HasSome
    <2> QED
      BY <1>4, <2>2 DEF StoredIn
  <1>5. CASE v.type = "MBOX"
    BY <1>2, <1>5 DEF HasSome, StoredIn
  <1>6. CASE v.type = "Q"
    <2>1. v.ptr.entries \in Nat
      BY <1>3, <1>6, QueueAssumption DEF ValueTyped, Ring, Rings
    <2>2. v.ptr.entries = 0
      BY <1>2, <1>6, <2>1 DEF HasSome
    <2> QED
      BY <1>6, <2>2 DEF StoredIn, Contents
  <1> QED
    BY <1>4, <1>5, <1>6 DEF StoredIn

(* A message to those who wait for e.                                      *)
LEMMA WakeDelivers ==
  ASSUME KInv, TInv, SignalOnly, Typed(os), NoneWaits, NEW c, Anywhere(c), NEW e \in EventIds, HasWaiter(os, e),
         NEW P \in SUBSET Waiters(os, e), NEW msg \in Msgs \cup {None},
         NEW msk, msk = os.event[e].type, msk \in {"SEM", "MUTEX"} => msg = None,
         NEW k, k = OS_EventTaskRdy(os, e, P, msg, msk, "OK"),
         NEW steps, steps = <<>> \/ steps = <<Sched>>, Leave(k, steps),
         NEW a, a.act \in {"put", "front"}, a.msg = msg, a.n = Cardinality(P), io' = Told(e, a)
  PROVE  Delivers
  <1>1. Shape(os)
    BY DataShape DEF TInv
  <1>2. Inert(os, k)
    BY <1>1, WakeInert
  <1>3. k.list = os.list /\ SameStored(os, k) /\ \A f \in EventIds : k.event[f].type = os.event[f].type
    BY <1>2 DEF Inert, Apart, Stable, SameTypes, SameTasks
  <1>4. os' = k /\ Live' = Live /\ \A t \in TCBs : Waiting'[t] = Waiting[t]
    BY <1>3, CalledWaits
  <1>5. \A f \in EventIds : StoredIn(os'.event[f]) = StoredIn(os.event[f])
    BY <1>3, <1>4, StoredSame
  <1>6. StoredIn(os.event[e]) = <<>>
    BY NothingStored
  <1> PICK S : S = Woke(os, P)
    OBVIOUS
  <1>7. S \in SUBSET TCBs /\ Cardinality(S) = Cardinality(P)
    BY WokeCount
  <1>8. /\ \A t \in TCBs : t \notin S => HoldsAll(t)
        /\ \A t \in TCBs : t \in S => /\ Takes(t, e, msg) /\ \A f \in EventIds : f # e => Holds(t, f)
                                      /\ Silent(Waiting'[t]) => msk \in {"SEM", "MUTEX"}
    <2>1. \A t \in TCBs : os'.tcb[t] = k.tcb[t]
      BY <1>4
    <2>2. WakeTold(P, e, msg, msk, "OK")
      BY <1>4, <2>1, WakeHands
    <2> QED
      BY <2>2 DEF WakeTold
  <1>9. \A f \in EventIds : f # e => \A t \in TCBs : Holds(t, f)
    BY <1>8 DEF HoldsAll
  <1>10. More(Hand(e), Hand(e)', msg, Cardinality(S))
    <2>1. \A t \in S : Takes(t, e, msg)
      BY <1>7, <1>8
    <2>2. \A t \in TCBs : t \notin S => Holds(t, e)
      BY <1>8 DEF HoldsAll
    <2> QED
      BY <1>7, <2>1, <2>2, HandMore
  <1>11. SignalOnly'
    <2>1. ASSUME NEW t \in TCBs, NEW f \in EventIds
          PROVE  Holds(t, f) \/ ~Taker(t, f)' \/ ~Silent(Waiting'[t]) \/ os'.tcb[t].msg = None
      BY <1>8 DEF HoldsAll, Takes
    <2> QED
      BY <2>1, SignalsKept
  <1>12. DoesTo(a, StoredIn(os.event[e]), StoredIn(os'.event[e]), Hand(e), Hand(e)')
    BY <1>5, <1>6, <1>7, <1>10 DEF DoesTo
  <1> QED
    BY <1>5, <1>9, <1>11, <1>12, OneDelivers

(* Who waits for e is told to wait no longer.                              *)
LEMMA AbortDelivers ==
  ASSUME KInv, TInv, SignalOnly, NEW c, Anywhere(c), NEW e \in EventIds,
         NEW P \in SUBSET Waiters(os, e), NEW msg, NEW msk, msk = os.event[e].type,
         NEW k, k = OS_EventTaskRdy(os, e, P, msg, msk, "ABORT"),
         NEW steps, steps = <<>> \/ steps = <<Sched>>, Leave(k, steps), io' = NoIO
  PROVE  Delivers
  <1>1. Shape(os)
    BY DataShape DEF TInv
  <1>2. Inert(os, k)
    BY <1>1, WakeInert
  <1>3. k.list = os.list /\ SameStored(os, k) /\ \A f \in EventIds : k.event[f].type = os.event[f].type
    BY <1>2 DEF Inert, Apart, Stable, SameTypes, SameTasks
  <1>4. os' = k /\ Live' = Live /\ \A t \in TCBs : Waiting'[t] = Waiting[t]
    BY <1>3, CalledWaits
  <1>5. \A f \in EventIds : StoredIn(os'.event[f]) = StoredIn(os.event[f])
    BY <1>3, <1>4, StoredSame
  <1>7. \A t \in TCBs : HoldsAll(t)
    <2>1. \A t \in TCBs : os'.tcb[t] = k.tcb[t]
      BY <1>4
    <2>2. WakeTold(P, e, msg, msk, "ABORT")
      BY <1>4, <2>1, WakeHands
    <2> QED
      BY <2>2 DEF WakeTold
  <1> QED
    BY <1>5, <1>7, QuietDelivers

(* The event is deleted: who waited gets an answer without a message.      *)
Freed(m, l, e) == l.tcb = m.tcb /\ l.list = m.list /\ \A f \in EventIds : f # e => l.event[f] = m.event[f]
LEMMA FreedParts ==
  ASSUME NEW m, Data(m), NEW e \in EventIds,
         NEW l, l = FreeEvent(m, e) \/ l = [FreeEvent(m, e) EXCEPT !.freeQs = @ + 1]
  PROVE  Freed(m, l, e)
  <1>1. PICK k : k = FreeEvent(m, e)
    OBVIOUS
  <1>2. \A f \in Fields \ {"event", "freeEvents"} : k[f] = m[f]
    BY <1>1 DEF FreeEvent, Data, Fields
  <1>3. DOMAIN k = Fields
    BY <1>1 DEF FreeEvent, Data
  <1>4. \A f \in EventIds : f # e => k.event[f] = m.event[f]
    BY <1>1 DEF FreeEvent, Data, Fields
  <1>5. CASE l = k
    BY <1>2, <1>4, <1>5 DEF Freed, Fields
  <1>6. CASE l = [k EXCEPT !.freeQs = @ + 1]
    <2>1. l.tcb = k.tcb /\ l.list = k.list /\ l.event = k.event
      BY <1>3, <1>6 DEF Fields
    <2> QED
      BY <1>2, <1>4, <2>1 DEF Freed, Fields
  <1> QED
    BY <1>1, <1>5, <1>6

LEMMA DeleteDelivers ==
  ASSUME KInv, TInv, SignalOnly, NEW c, AtTask(c), NEW e \in EventIds, NEW msk \in {"SEM", "MBOX", "Q"},
         os.event[e].type = msk,
         NEW m, m = OS_EventTaskRdy(os, e, Waiters(os, e), None, msk, "OK"),
         NEW l, Data(m) => Freed(m, l, e),
         NEW steps, steps = <<>> \/ steps = <<Sched>>, Leave(l, steps), io' = Told(e, [act |-> "clear"])
  PROVE  Delivers
  <1>1. Shape(os) /\ Data(os) /\ Core(os, Live, Waiting)
    BY DataShape DEF TInv
  <1>2. Inert(os, m)
    BY <1>1, WakeInert
  <1>3. m.list = os.list /\ SameStored(os, m) /\ \A f \in EventIds : m.event[f].type = os.event[f].type
    BY <1>2 DEF Inert, Apart, Stable, SameTypes, SameTasks
  <1>4. Data(m)
    <2>1. msk \in EventKinds /\ "OK" \in Answers /\ Waiters(os, e) \in SUBSET Waiters(os, e)
      BY DEF EventKinds, Answers
    <2>2. WakeDone(os, m, Live, Waiting, e, Waiters(os, e))
      BY <1>1, <2>1, WakeCore
    <2> QED
      BY <2>2 DEF WakeDone
  <1>5. l.tcb = m.tcb /\ l.list = m.list /\ \A f \in EventIds : f # e => l.event[f] = m.event[f]
    BY <1>4 DEF Freed
  <1>6. Anywhere(c) /\ l.list = os.list
    BY <1>3, <1>5 DEF Anywhere
  <1>7. os' = l /\ Live' = Live /\ \A t \in TCBs : Waiting'[t] = Waiting[t]
    BY <1>6, CalledWaits
  <1>8. \A f \in EventIds : StoredIn(m.event[f]) = StoredIn(os.event[f])
    BY <1>3, StoredSame
  <1> PICK P : P = Waiters(os, e)
    OBVIOUS
  <1> PICK S : S = Woke(os, P)
    OBVIOUS
  <1>9. /\ \A t \in TCBs : t \notin S => HoldsAll(t)
        /\ \A t \in TCBs : t \in S => /\ Takes(t, e, None) /\ \A f \in EventIds : f # e => Holds(t, f)
                                      /\ Silent(Waiting'[t]) => msk \in {"SEM", "MUTEX"}
    <2>1. \A t \in TCBs : os'.tcb[t] = m.tcb[t]
      BY <1>5, <1>7
    <2>2. P \in SUBSET Waiters(os, e)
      OBVIOUS
    <2>3. m = OS_EventTaskRdy(os, e, P, None, msk, "OK")
      OBVIOUS
    <2>4. msk = os.event[e].type
      OBVIOUS
    <2>5. WakeTold(P, e, None, msk, "OK")
      BY <1>7, <2>1, <2>2, <2>3, <2>4, WakeHands
    <2> QED
      BY <2>5 DEF WakeTold
  <1>10. \A f \in EventIds : f # e => \A t \in TCBs : Holds(t, f)
    BY <1>9 DEF HoldsAll
  <1>11. \A t \in TCBs : Taker(t, e) => Taker(t, e)' /\ os'.tcb[t].msg = os.tcb[t].msg
    BY <1>9 DEF HoldsAll, Holds, Takes
  <1>12. \A n \in Msgs \cup {None} : Hand(e)'[n] >= Hand(e)[n]
    BY <1>11, HandGrown
  <1>13. SignalOnly'
    <2>1. ASSUME NEW t \in TCBs, NEW f \in EventIds
          PROVE  Holds(t, f) \/ ~Taker(t, f)' \/ ~Silent(Waiting'[t]) \/ os'.tcb[t].msg = None
      BY <1>9 DEF HoldsAll, Takes
    <2> QED
      BY <2>1, SignalsKept
  <1> PICK a : a = [act |-> "clear"]
    OBVIOUS
  <1>14. DoesTo(a, StoredIn(os.event[e]), StoredIn(os'.event[e]), Hand(e), Hand(e)')
    BY <1>12 DEF DoesTo
  <1>15. \A f \in EventIds : f # e => StoredIn(os'.event[f]) = StoredIn(os.event[f])
    BY <1>5, <1>7, <1>8
  <1> QED
    BY <1>10, <1>13, <1>14, <1>15, OneDelivers

(***************************************************************************)
(* A task starts to wait, and takes its answer.                            *)
(***************************************************************************)
LEMMA PendBlockDelivers ==
  ASSUME KInv, Inv, SignalOnly, NEW c, AtTask(c), NEW e \in EventIds, NEW kind \in {"SEM", "MBOX", "Q"},
         NEW timeout, NEW m, m = StartPend(os, Only(kind), timeout), NEW l, l = OS_EventTaskWait(m, e),
         NEW v \in PendStep, Leave(l, <<Sched, v>>), io' = NoIO
  PROVE  Delivers
  <1> PICK d : d = os.cur
    OBVIOUS
  <1>1. TInv /\ Shape(os) /\ d \in TCBs /\ RunsIn(os, d)
    BY DataShape DEF Inv, TInv, Data, RunsIn
  <1>2. Shape(m) /\ Inert(os, m) /\ RunsIn(m, d)
    BY <1>1, StartPendInert
  <1>3. m.tcb[d] = Begun(os.tcb[d], Only(kind), timeout) /\ SameBlocks(os, m, Only(d))
    BY <1>1, StartPendTyped
  <1>4. Inert(m, l)
    BY <1>2, WaitInert
  <1> PICK z : z = Placed(m.tcb[d], e, m.tcb[d].multi)
    OBVIOUS
  <1>5. l.tcb[d] = z /\ SameBlocks(m, l, Only(d))
    BY <1>1, <1>2, WaitTyped
  <1>6. Inert(os, l)
    BY <1>2, <1>4, InertTrans
  <1>7. SameBlocks(os, l, Only(d))
    BY <1>3, <1>5 DEF SameBlocks
  <1>8. l.list = os.list /\ SameStored(os, l) /\ \A f \in EventIds : l.event[f].type = os.event[f].type
    BY <1>6 DEF Inert, Apart, Stable, SameTypes, SameTasks
  <1>9. Waits(l.tcb[d])
    <2>1. PICK x : x = os.tcb[d]
      OBVIOUS
    <2>2. PICK y : y = m.tcb[d]
      OBVIOUS
    <2>3. DOMAIN x = TCBFields /\ DOMAIN y = TCBFields
      BY <1>1, <1>2, <2>1, <2>2 DEF Shape
    <2>4. x.multi = {}
      <3>1. Waiting[d] = Sched /\ d \in Live
        BY <1>1, TaskCaller
      <3>2. Local(x, Waiting[d])
        BY <1>1, <2>1, <3>1 DEF TInv, Core, TaskOK
      <3>3. PICK w : w = Waiting[d]
        OBVIOUS
      <3>4. w.op \notin WaitOps
        BY <3>1, <3>3 DEF Sched, WaitOps
      <3> QED
        BY <3>2, <3>3, <3>4 DEF Local
    <2>5. y = Begun(x, Only(kind), timeout)
      BY <1>3, <2>1, <2>2
    <2>6. kind \in y.stat /\ y.multi = {}
      BY <2>3, <2>4, <2>5 DEF Begun, TCBFields, Only
    <2>8. z.stat = y.stat /\ z.multi = y.multi
      BY <2>2, <2>3 DEF Placed, TCBFields
    <2>9. Waits(z)
      BY <2>6, <2>8 DEF Waits, OS_STAT_PEND_ANY
    <2> QED
      BY <1>5, <2>9
  <1>10. v \in WaitStep
    BY DEF WaitStep
  <1>11. os' = l /\ \A t \in TCBs : HoldsAll(t)
    BY <1>7, <1>8, <1>9, <1>10, BlockHands
  <1> QED
    BY <1>8, <1>11, StoredSame, QuietDelivers

LEMMA MultiBlockDelivers ==
  ASSUME KInv, Inv, SignalOnly, NEW c, AtTask(c), NEW E \in SUBSET EventIds, NEW kind \in {"SEM", "MBOX", "Q"},
         NEW bits, kind \in bits, NEW timeout, NEW m, m = StartPend(os, bits, timeout),
         NEW l, l = OS_EventTaskWaitMulti(m, E), NEW v \in MultiStep, Leave(l, <<Sched, v>>), io' = NoIO
  PROVE  Delivers
  <1> PICK d : d = os.cur
    OBVIOUS
  <1>1. TInv /\ Shape(os) /\ d \in TCBs /\ RunsIn(os, d)
    BY DataShape DEF Inv, TInv, Data, RunsIn
  <1>2. Shape(m) /\ Inert(os, m) /\ RunsIn(m, d)
    BY <1>1, StartPendInert
  <1>3. m.tcb[d] = Begun(os.tcb[d], bits, timeout) /\ SameBlocks(os, m, Only(d))
    BY <1>1, StartPendTyped
  <1>4. Inert(m, l)
    BY <1>2, WaitMultiInert
  <1> PICK z : z = Placed(m.tcb[d], None, E)
    OBVIOUS
  <1>5. l.tcb[d] = z /\ SameBlocks(m, l, Only(d))
    BY <1>1, <1>2, WaitMultiTyped
  <1>6. Inert(os, l)
    BY <1>2, <1>4, InertTrans
  <1>7. SameBlocks(os, l, Only(d))
    BY <1>3, <1>5 DEF SameBlocks
  <1>8. l.list = os.list /\ SameStored(os, l) /\ \A f \in EventIds : l.event[f].type = os.event[f].type
    BY <1>6 DEF Inert, Apart, Stable, SameTypes, SameTasks
  <1>9. Waits(l.tcb[d])
    <2>1. PICK x : x = os.tcb[d]
      OBVIOUS
    <2>2. PICK y : y = m.tcb[d]
      OBVIOUS
    <2>3. DOMAIN x = TCBFields /\ DOMAIN y = TCBFields
      BY <1>1, <1>2, <2>1, <2>2 DEF Shape
    <2>4. y = Begun(x, bits, timeout)
      BY <1>3, <2>1, <2>2
    <2>5. kind \in y.stat
      BY <2>3, <2>4 DEF Begun, TCBFields
    <2>7. z.stat = y.stat /\ z.event = None
      BY <2>2, <2>3 DEF Placed, TCBFields
    <2>8. Waits(z)
      BY <2>5, <2>7 DEF Waits, OS_STAT_PEND_ANY
    <2> QED
      BY <1>5, <2>8
  <1>10. v \in WaitStep
    BY DEF WaitStep
  <1>11. os' = l /\ \A t \in TCBs : HoldsAll(t)
    BY <1>7, <1>8, <1>9, <1>10, BlockHands
  <1> QED
    BY <1>8, <1>11, StoredSame, QuietDelivers

(* The answer is what was held, and goes with it. *)
LEMMA BackDelivers ==
  ASSUME KInv, Inv, SignalOnly, Typed(os), NEW op \in {"pend", "multi"}, Step(op), NEW E, NEW l, l = EndPend(os, E),
         Proceed(l), NEW e, Now.op = "pend" => e = Now.event, Now.op = "multi" => e = Cur.event,
         NEW m, Silent(Now) \/ m = Cur.msg, Silent(Now) => m = None,
         NEW a, a.act = "got", a.msg = m,
         io' = IF Cur.pend = "OK" THEN Told(e, a) ELSE NoIO
  PROVE  Delivers
  <1> PICK c : c = os.cur
    OBVIOUS
  <1> PICK x : x = os.tcb[c]
    OBVIOUS
  <1> PICK w : w = Now
    OBVIOUS
  <1>1. TInv /\ Shape(os) /\ c \in TCBs /\ RunsIn(os, c)
    BY DataShape DEF Inv, TInv, Data, RunsIn
  <1>2. op \in WaitOps
    BY DEF WaitOps
  <1>3. /\ Core(os, Live, Waiting) /\ c \in Live /\ Waiting[c] = w /\ w \in WaitStep /\ w.op = op
        /\ Runnable(x)
    BY <1>2, BackWaits
  <1>4. Local(x, w) /\ ~Waits(x)
    BY <1>3 DEF Core, TaskOK, Runnable
  <1>5. Inert(os, l)
    BY <1>1, EndPendInert
  <1>6. SameBlocks(os, l, Only(c))
    BY <1>1, EndPendTyped
  <1>7. l.list = os.list /\ SameStored(os, l) /\ \A f \in EventIds : l.event[f].type = os.event[f].type
    BY <1>5 DEF Inert, Apart, Stable, SameTypes, SameTasks
  <1>8. /\ os' = l /\ Live' = Live /\ \A t \in TCBs : t # c => Waiting'[t] = Waiting[t]
        /\ Waiting'[c] = Sched
    BY <1>1, <1>2, <1>7, ReturnedSame
  <1>9. ASSUME NEW t \in TCBs, t # c PROVE HoldsAll(t)
    <2>1. l.tcb[t] = os.tcb[t]
      BY <1>6, <1>9 DEF SameBlocks, Only
    <2> QED
      BY <1>8, <1>9, <2>1, KeepsHands, SameBlockAnswers
  <1>10. ASSUME NEW t \in TCBs, t = c PROVE Handless(t)'
    BY <1>8, <1>10, GotNothing DEF Sched
  <1>11. \A f \in EventIds : StoredIn(os'.event[f]) = StoredIn(os.event[f])
    BY <1>7, <1>8, StoredSame
  <1>12. CASE x.pend # "OK"
    <2>1. ASSUME NEW t \in TCBs, t = c PROVE HoldsAll(t)
      <3>1. Handless(t)
        BY <1>12, <2>1, GetsNothing
      <3> QED
        BY <1>10, <2>1, <3>1, HandlessHolds
    <2>2. io' = NoIO
      BY <1>12 DEF Cur
    <2> QED
      BY <1>9, <1>11, <2>1, <2>2, QuietDelivers
  <1>13. CASE x.pend = "OK"
    <2>1. e \in EventIds /\ \A f \in EventIds : Taker(c, f) <=> f = e
      <3>1. CASE w.op = "pend"
        <4>1. x.multi = {} /\ w.event \in EventIds /\ e = w.event
          BY <1>3, <1>4, <3>1 DEF Local, WaitStep, PendStep, MultiStep, FlagStep
        <4>2. \A f : f \in PendEvents(w) <=> f = e
          BY <3>1, <4>1 DEF PendEvents
        <4> QED
          BY <1>3, <1>4, <1>13, <4>1, <4>2 DEF Taker, Given
      <3>2. CASE w.op = "multi"
        <4>1. x.multi = w.events /\ w.events # {} /\ x.event \in w.events \cup {None} /\ x.event # None
          BY <1>4, <1>13, <3>2 DEF Local, Listed
        <4>2. w.events \in SUBSET EventIds /\ e = x.event
          BY <1>3, <3>2 DEF WaitStep, PendStep, MultiStep, FlagStep, Cur
        <4>3. PendEvents(w) = w.events
          BY <3>2 DEF PendEvents
        <4> QED
          BY <1>3, <1>4, <1>13, <4>1, <4>2, <4>3 DEF Taker, Given
      <3> QED
        BY <1>3, <3>1, <3>2
    <2>2. m = x.msg
      <3>1. Silent(w) => x.msg = None
        BY <1>1, <1>3, <2>1 DEF SignalOnly
      <3> QED
        BY <3>1 DEF Cur
    <2>3. m \in Msgs \cup {None}
      BY <1>1, <2>2 DEF Typed, TasksTyped, TCB
    <2>4. io' = Told(e, a)
      BY <1>13 DEF Cur
    <2>5. ASSUME NEW t \in TCBs, t = c PROVE Drops(t, e, m) /\ \A f \in EventIds : f # e => Holds(t, f)
      BY <1>10, <2>1, <2>2, <2>5 DEF Handless, Drops, Holds
    <2>6. Hand(e)[m] > 0 /\ More(Hand(e), Hand(e)', m, -1)
      <3>1. \A u \in TCBs : u # c => Holds(u, e)
        BY <1>9, <2>1 DEF HoldsAll
      <3>2. ASSUME NEW t \in TCBs, t = c PROVE Hand(e)[m] > 0 /\ More(Hand(e), Hand(e)', m, -1)
        BY <2>3, <2>5, <3>1, <3>2, HandLess
      <3> QED
        BY <1>1, <3>2
    <2>7. \A f \in EventIds : f # e => \A t \in TCBs : Holds(t, f)
      BY <1>9, <2>5 DEF HoldsAll
    <2>8. SignalOnly'
      <3>1. ASSUME NEW t \in TCBs, NEW f \in EventIds PROVE Holds(t, f) \/ ~Taker(t, f)'
        BY <1>9, <1>10 DEF HoldsAll, Handless
      <3> QED
        BY <3>1, SignalsKept
    <2>9. DoesTo(a, StoredIn(os.event[e]), StoredIn(os'.event[e]), Hand(e), Hand(e)')
      BY <1>11, <2>1, <2>6 DEF DoesTo
    <2> QED
      BY <1>11, <2>1, <2>4, <2>7, <2>8, <2>9, OneDelivers
  <1> QED
    BY <1>12, <1>13

(***************************************************************************)
(* Services that give and take at once.                                    *)
(***************************************************************************)
LEMMA ValueDelivers ==
  ASSUME KInv, TInv, SignalOnly, NEW c, Anywhere(c), NEW e \in EventIds, NEW l, l.list = os.list,
         \A f \in EventIds : f # e => l.event[f] = os.event[f], l.tcb = os.tcb, Leave(l, <<>>), NEW a, io' = Told(e, a),
         DoesTo(a, StoredIn(os.event[e]), StoredIn(l.event[e]), Hand(e), Hand(e))
  PROVE  Delivers
  <1> PICK steps : steps = <<>>
    OBVIOUS
  <1>1. l.list = os.list
    OBVIOUS
  <1>2. Leave(l, steps) /\ (steps = <<>> \/ steps = <<Sched>>)
    OBVIOUS
  <1>3. os' = l
    BY <1>1, <1>2, CalledWaits
  <1>4. ASSUME NEW t \in TCBs PROVE HoldsAll(t)
    <2>1. SameAnswer(os.tcb[t], l.tcb[t])
      BY SameBlockAnswers
    <2> QED
      BY <1>1, <1>2, <2>1, CalledHands
  <1> QED
    BY <1>1, <1>3, <1>4, StockDelivers

LEMMA ClearsAlways ==
  ASSUME NEW e \in EventIds, NEW a, a.act = "clear", NEW s, NEW u PROVE DoesTo(a, s, u, Hand(e), Hand(e))
  <1>1. \A m \in Msgs \cup {None} : Hand(e)[m] >= Hand(e)[m]
    BY HandIs, TakersFinite
  <1> QED
    BY <1>1 DEF DoesTo

Signals(n) == [i \in 1 .. n |-> Signal]
LEMMA SignalSequence ==
  ASSUME NEW n \in Nat
  PROVE  /\ Append(Signals(n), Signal) = Signals(n + 1)
         /\ n > 0 => Signals(n) # <<>> /\ Head(Signals(n)) = Signal /\ Tail(Signals(n)) = Signals(n - 1)
  <1>1. Signals(n) \in Seq({Signal}) /\ Len(Signals(n)) = n
    BY DEF Signals
  <1>2. Append(Signals(n), Signal) = Signals(n + 1)
    BY <1>1 DEF Signals
  <1>3. ASSUME n > 0 PROVE Signals(n) # <<>> /\ Head(Signals(n)) = Signal
    BY <1>1, <1>3 DEF Signals
  <1>4. ASSUME n > 0 PROVE Tail(Signals(n)) = Signals(n - 1)
    BY <1>1, <1>4 DEF Signals
  <1> QED
    BY <1>2, <1>3, <1>4

LEMMA SemStored ==
  ASSUME NEW v, v.type = "SEM" PROVE StoredIn(v) = Signals(v.cnt)
  BY DEF StoredIn, Signals

(* The count becomes v: one less, one more, or set.                        *)
LEMMA CountDelivers ==
  ASSUME KInv, TInv, SignalOnly, Typed(os), NEW c, Anywhere(c), NEW e \in EventIds, IsSem(e), NEW v,
         Leave(WithCount(os, e, v), <<>>), NEW a, io' = Told(e, a),
         \/ a.act = "got" /\ a.msg = Signal /\ os.event[e].cnt > 0 /\ v = os.event[e].cnt - 1
         \/ a.act = "put" /\ a.msg = Signal /\ a.n = 1 /\ v = os.event[e].cnt + 1
         \/ a.act = "clear"
  PROVE  Delivers
  <1> PICK l : l = WithCount(os, e, v)
    OBVIOUS
  <1>1. Shape(os)
    BY DataShape DEF TInv
  <1>2. l.tcb = os.tcb /\ Valued(os, l, e) /\ l.event[e].cnt = v
    BY <1>1, CountTypes
  <1>3. l.event[e].type = "SEM" /\ os.event[e].type = "SEM"
    BY <1>2 DEF Valued, IsSem
  <1>4. PICK n : n = os.event[e].cnt
    OBVIOUS
  <1>5. n \in Nat
    BY <1>3, <1>4, CountAssumption DEF Typed, ValuesTyped, ValueTyped
  <1>6. StoredIn(os.event[e]) = Signals(n) /\ StoredIn(l.event[e]) = Signals(v)
    BY <1>2, <1>3, <1>4, SemStored
  <1>7. DoesTo(a, Signals(n), Signals(v), Hand(e), Hand(e))
    <2>1. CASE a.act = "got" /\ a.msg = Signal /\ n > 0 /\ v = n - 1
      BY <1>5, <2>1, SignalSequence DEF DoesTo
    <2>2. CASE a.act = "put" /\ a.msg = Signal /\ a.n = 1 /\ v = n + 1
      BY <1>5, <2>2, SignalSequence DEF DoesTo
    <2>3. CASE a.act = "clear"
      BY <2>3, ClearsAlways
    <2> QED
      BY <1>4, <2>1, <2>2, <2>3
  <1>8. Leave(l, <<>>) /\ l.list = os.list /\ \A f \in EventIds : f # e => l.event[f] = os.event[f]
    BY <1>2 DEF Valued, Stable, SameTasks
  <1> QED
    BY <1>2, <1>6, <1>7, <1>8, ValueDelivers

(* A new event.                                                            *)
LEMMA NewEventDelivers ==
  ASSUME KInv, TInv, SignalOnly, NEW c, AtTask(c), os.freeEvents # <<>>, NEW ecb,
         Leave(NewEvent(os, ecb), <<>>), NEW a, a.act = "clear", io' = Told(Head(os.freeEvents), a)
  PROVE  Delivers
  <1>1. Shape(os)
    BY DataShape DEF TInv
  <1>2. PICK e : e = Head(os.freeEvents)
    OBVIOUS
  <1>3. PICK s : s = Tail(os.freeEvents)
    OBVIOUS
  <1>4. e \in EventIds
    BY <1>2, FirstFree
  <1>5. PICK l : l = [os EXCEPT !.event[e] = ecb, !.freeEvents = s]
    OBVIOUS
  <1>6. Leave(l, <<>>) /\ io' = Told(e, a) /\ Anywhere(c)
    BY <1>1, <1>2, <1>3, <1>5 DEF NewEvent, Shape, Fields, Anywhere
  <1>7. /\ \A f \in Fields \ {"event", "freeEvents"} : l[f] = os[f]
        /\ \A f \in EventIds : f # e => l.event[f] = os.event[f]
    BY <1>1, <1>4, <1>5 DEF Shape, Fields
  <1>8. l.tcb = os.tcb /\ l.list = os.list
    BY <1>7 DEF Fields
  <1>9. DoesTo(a, StoredIn(os.event[e]), StoredIn(l.event[e]), Hand(e), Hand(e))
    BY <1>4, ClearsAlways
  <1> QED
    BY <1>4, <1>6, <1>7, <1>8, <1>9, ValueDelivers

LEMMA SemDelivers ==
  ASSUME KInv, Inv, SignalOnly, Typed(os), NoneWaits, SemNext PROVE Delivers
  <1> PICK got : got = [act |-> "got", msg |-> Signal]
    OBVIOUS
  <1> PICK put : put = [act |-> "put", msg |-> Signal, n |-> 1]
    OBVIOUS
  <1> PICK clear : clear = [act |-> "clear"]
    OBVIOUS
  <1>1. TInv /\ Shape(os) /\ Data(os)
    BY DataShape DEF Inv, TInv
  <1>2. ASSUME NEW e \in EventIds, NEW c, Anywhere(c), IsSem(e), os.event[e].cnt > 0,
               Leave([os EXCEPT !.event[e].cnt = @ - 1], <<>>), io' = Told(e, got)
        PROVE  Delivers
    <2>1. Leave(WithCount(os, e, os.event[e].cnt - 1), <<>>)
      BY <1>1, <1>2 DEF WithCount, Shape
    <2>2. PICK v : v = os.event[e].cnt - 1
      OBVIOUS
    <2>3. Leave(WithCount(os, e, v), <<>>) /\ got.act = "got" /\ got.msg = Signal
      BY <2>1, <2>2
    <2> QED
      BY <1>1, <1>2, <2>2, <2>3, CountDelivers
  <1>3. ASSUME NEW e \in EventIds, OSSemAccept(e) PROVE Delivers
    <2>1. /\ Anywhere("OSSemAccept") /\ IsSem(e) /\ os.event[e].cnt > 0
          /\ Leave([os EXCEPT !.event[e].cnt = @ - 1], <<>>) /\ io' = Told(e, got)
      BY <1>3 DEF OSSemAccept
    <2> QED
      BY <1>2, <2>1
  <1>4. ASSUME NEW e \in EventIds, NEW timeout \in Timeouts, OSSemPend(e, timeout) PROVE Delivers
    <2>1. AtTask("OSSemPend") /\ Anywhere("OSSemPend") /\ IsSem(e)
      BY <1>4 DEF OSSemPend, Anywhere
    <2>2. PICK bits : bits = Only("SEM")
      OBVIOUS
    <2>3. PICK v : v = [op |-> "pend", event |-> e, type |-> "SEM"]
      OBVIOUS
    <2>4. CASE /\ os.event[e].cnt > 0 /\ Leave([os EXCEPT !.event[e].cnt = @ - 1], <<>>)
               /\ io' = Told(e, got)
      BY <1>2, <2>1, <2>4
    <2>5. CASE Leave(OS_EventTaskWait(StartPend(os, bits, timeout), e), <<Sched, v>>) /\ io' = NoIO
      <3>1. PICK m : m = StartPend(os, Only("SEM"), timeout)
        OBVIOUS
      <3>2. PICK l : l = OS_EventTaskWait(m, e)
        OBVIOUS
      <3>3. v \in PendStep
        BY <2>3 DEF PendStep
      <3>4. Leave(l, <<Sched, v>>) /\ io' = NoIO
        BY <2>2, <2>5, <3>1, <3>2
      <3> QED
        BY <2>1, <3>1, <3>2, <3>3, <3>4, PendBlockDelivers
    <2> QED
      BY <1>4, <2>2, <2>3, <2>4, <2>5 DEF OSSemPend, Only
  <1>5. ASSUME OSSemPend_Return PROVE Delivers
    <2>1. PICK e : e = Now.event
      OBVIOUS
    <2>2. PICK E : E = {Now.event}
      OBVIOUS
    <2>3. PICK l : l = EndPend(os, E)
      OBVIOUS
    <2>4. Step("pend") /\ Now.type = "SEM" /\ Proceed(l) /\ io' = IF Cur.pend = "OK" THEN Told(e, got) ELSE NoIO
      BY <1>5, <2>1, <2>2, <2>3 DEF OSSemPend_Return
    <2>5. Now.op = "pend" /\ Silent(Now)
      BY <2>4 DEF Step, Now, Silent
    <2>6. got.act = "got" /\ got.msg = None
      BY DEF Signal
    <2> QED
      BY <1>1, <2>1, <2>3, <2>4, <2>5, <2>6, BackDelivers
  <1>6. ASSUME NEW e \in EventIds, NEW all, OSSemPendAbort(e, all) PROVE Delivers
    <2>1. PICK P : P = IF all THEN Waiters(os, e) ELSE HighestWaiter(os, e)
      OBVIOUS
    <2>2. PICK k : k = OS_EventTaskRdy(os, e, P, None, "SEM", "ABORT")
      OBVIOUS
    <2>3. PICK steps : steps = <<Sched>>
      OBVIOUS
    <2>4. Anywhere("OSSemPendAbort") /\ os.event[e].type = "SEM" /\ HasWaiter(os, e) /\ Leave(k, steps) /\ io' = NoIO
      BY <1>6, <2>1, <2>2, <2>3 DEF OSSemPendAbort, IsSem
    <2>5. P \in SUBSET Waiters(os, e)
      BY <1>1, <2>1, <2>4, HighestIsWaiter
    <2>6. steps = <<>> \/ steps = <<Sched>>
      BY <2>3
    <2> QED
      BY <1>1, <2>2, <2>4, <2>5, <2>6, AbortDelivers
  <1>7. ASSUME NEW e \in EventIds, OSSemPost(e) PROVE Delivers
    <2>1. PICK P : P = HighestWaiter(os, e)
      OBVIOUS
    <2>2. PICK k : k = OS_EventTaskRdy(os, e, P, None, "SEM", "OK")
      OBVIOUS
    <2>3. PICK steps : steps = <<Sched>>
      OBVIOUS
    <2>4. Anywhere("OSSemPost") /\ os.event[e].type = "SEM" /\ IsSem(e) /\ io' = Told(e, put)
      BY <1>7 DEF OSSemPost, IsSem
    <2>5. put.act = "put" /\ put.msg = Signal /\ put.n = 1
      OBVIOUS
    <2>6. CASE HasWaiter(os, e) /\ Leave(k, steps)
      <3>1. P \in SUBSET Waiters(os, e) /\ Cardinality(P) = 1
        BY <1>1, <2>1, <2>6, HighestIsWaiter, HighestIsOne
      <3>2. put.act \in {"put", "front"} /\ put.msg = None /\ put.n = Cardinality(P)
        BY <2>5, <3>1 DEF Signal
      <3>3. steps = <<>> \/ steps = <<Sched>>
        BY <2>3
      <3> QED
        BY <1>1, <2>2, <2>4, <2>6, <3>1, <3>2, <3>3, WakeDelivers
    <2>7. CASE Leave([os EXCEPT !.event[e].cnt = @ + 1], <<>>)
      <3>1. PICK v : v = os.event[e].cnt + 1
        OBVIOUS
      <3>2. Leave(WithCount(os, e, v), <<>>)
        BY <1>1, <2>7, <3>1 DEF WithCount, Shape
      <3> QED
        BY <1>1, <2>4, <2>5, <3>1, <3>2, CountDelivers
    <2> QED
      BY <1>7, <2>1, <2>2, <2>3, <2>6, <2>7 DEF OSSemPost
  <1>8. ASSUME NEW e \in EventIds, NEW cnt, OSSemSet(e, cnt) PROVE Delivers
    <2>1. Anywhere("OSSemSet") /\ IsSem(e) /\ Leave(WithCount(os, e, cnt), <<>>) /\ io' = Told(e, clear)
      BY <1>8 DEF OSSemSet, WithCount
    <2>2. clear.act = "clear"
      OBVIOUS
    <2> QED
      BY <1>1, <2>1, <2>2, CountDelivers
  <1>9. ASSUME NEW cnt, OSSemCreate(cnt) PROVE Delivers
    <2>1. /\ AtTask("OSSemCreate") /\ os.freeEvents # <<>> /\ Leave(NewEvent(os, NewSem(cnt)), <<>>)
          /\ io' = Told(Head(os.freeEvents), clear)
      BY <1>9 DEF OSSemCreate
    <2>2. clear.act = "clear"
      OBVIOUS
    <2> QED
      BY <1>1, <2>1, <2>2, NewEventDelivers
  <1>10. ASSUME NEW e \in EventIds, NEW always, OSSemDel(e, always) PROVE Delivers
    <2>1. PICK m : m = OS_EventTaskRdy(os, e, Waiters(os, e), None, "SEM", "OK")
      OBVIOUS
    <2>2. PICK l : l = FreeEvent(m, e)
      OBVIOUS
    <2>3. PICK steps : steps = IF HasWaiter(os, e) THEN <<Sched>> ELSE <<>>
      OBVIOUS
    <2>4. AtTask("OSSemDel") /\ os.event[e].type = "SEM" /\ Leave(l, steps) /\ io' = Told(e, [act |-> "clear"])
      BY <1>10, <2>1, <2>2, <2>3 DEF OSSemDel, IsSem
    <2>5. steps = <<>> \/ steps = <<Sched>>
      BY <2>3
    <2>6. Data(m) => Freed(m, l, e)
      BY <2>2, FreedParts
    <2> QED
      BY <1>1, <2>1, <2>4, <2>5, <2>6, DeleteDelivers
  <1> QED
    BY <1>3, <1>4, <1>5, <1>6, <1>7, <1>8, <1>9, <1>10 DEF SemNext

(***************************************************************************)
(* Mailboxes.                                                              *)
(***************************************************************************)
(* A message waits for its taker, or is taken. *)
LEMMA PointerDelivers ==
  ASSUME KInv, TInv, SignalOnly, NEW c, Anywhere(c), NEW e \in EventIds, NEW v,
         Leave(WithPointer(os, e, v), <<>>), NEW a, io' = Told(e, a),
         NEW s, s = StoredIn(os.event[e]), NEW u,
         \A y : y.type = os.event[e].type /\ y.ptr = v /\ y.cnt = os.event[e].cnt => StoredIn(y) = u,
         DoesTo(a, s, u, Hand(e), Hand(e))
  PROVE  Delivers
  <1> PICK l : l = WithPointer(os, e, v)
    OBVIOUS
  <1>1. Shape(os)
    BY DataShape DEF TInv
  <1>2. l.tcb = os.tcb /\ Valued(os, l, e) /\ l.event[e].ptr = v /\ l.event[e].cnt = os.event[e].cnt
    BY <1>1, PointerTypes
  <1>3. PICK y : y = l.event[e]
    OBVIOUS
  <1>4. StoredIn(y) = u
    BY <1>2, <1>3 DEF Valued
  <1>5. Leave(l, <<>>) /\ l.list = os.list /\ \A f \in EventIds : f # e => l.event[f] = os.event[f]
    BY <1>2 DEF Valued, Stable, SameTasks
  <1>6. DoesTo(a, StoredIn(os.event[e]), StoredIn(l.event[e]), Hand(e), Hand(e))
    BY <1>3, <1>4
  <1> QED
    BY <1>2, <1>5, <1>6, ValueDelivers

LEMMA MboxTakenDelivers ==
  ASSUME KInv, TInv, SignalOnly, NEW c, Anywhere(c), NEW e \in EventIds, IsMbox(e), os.event[e].ptr # None,
         Leave([os EXCEPT !.event[e].ptr = None], <<>>), NEW a, io' = Told(e, a),
         a.act = "got", a.msg = os.event[e].ptr
  PROVE  Delivers
  <1>1. Leave(WithPointer(os, e, None), <<>>)
    BY DEF WithPointer
  <1>2. PICK s : s = StoredIn(os.event[e])
    OBVIOUS
  <1>3. PICK m : m = os.event[e].ptr
    OBVIOUS
  <1>4. s = <<m>>
    BY <1>2, <1>3 DEF StoredIn, IsMbox
  <1>5. \A y : y.type = os.event[e].type /\ y.ptr = None /\ y.cnt = os.event[e].cnt => StoredIn(y) = <<>>
    BY DEF StoredIn, IsMbox
  <1>6. DoesTo(a, s, <<>>, Hand(e), Hand(e))
    BY <1>3, <1>4 DEF DoesTo
  <1> QED
    BY <1>1, <1>2, <1>5, <1>6, PointerDelivers

LEMMA MboxPutDelivers ==
  ASSUME KInv, TInv, SignalOnly, NEW c, Anywhere(c), NEW e \in EventIds, IsMbox(e), os.event[e].ptr = None,
         NEW msg \in Msgs, Leave([os EXCEPT !.event[e].ptr = msg], <<>>), NEW a, io' = Told(e, a),
         a.act = "put", a.msg = msg, a.n = 1
  PROVE  Delivers
  <1>1. Leave(WithPointer(os, e, msg), <<>>)
    BY DEF WithPointer
  <1>2. PICK s : s = StoredIn(os.event[e])
    OBVIOUS
  <1>3. PICK u : u = <<msg>>
    OBVIOUS
  <1>4. s = <<>>
    BY <1>2 DEF StoredIn, IsMbox
  <1>5. \A y : y.type = os.event[e].type /\ y.ptr = msg /\ y.cnt = os.event[e].cnt => StoredIn(y) = u
    BY <1>3, NullAssumption DEF StoredIn, IsMbox
  <1>6. DoesTo(a, s, u, Hand(e), Hand(e))
    BY <1>3, <1>4 DEF DoesTo
  <1> QED
    BY <1>1, <1>2, <1>5, <1>6, PointerDelivers

LEMMA MboxDelivers ==
  ASSUME KInv, Inv, SignalOnly, Typed(os), NoneWaits, MboxNext PROVE Delivers
  <1> PICK clear : clear = [act |-> "clear"]
    OBVIOUS
  <1>1. TInv /\ Shape(os) /\ Data(os)
    BY DataShape DEF Inv, TInv
  <1>3. ASSUME NEW e \in EventIds, OSMboxAccept(e) PROVE Delivers
    <2>1. PICK a : a = [act |-> "got", msg |-> os.event[e].ptr]
      OBVIOUS
    <2>2. /\ Anywhere("OSMboxAccept") /\ IsMbox(e) /\ os.event[e].ptr # None
          /\ Leave([os EXCEPT !.event[e].ptr = None], <<>>) /\ io' = Told(e, a)
      BY <1>3, <2>1 DEF OSMboxAccept
    <2>3. a.act = "got" /\ a.msg = os.event[e].ptr
      BY <2>1
    <2> QED
      BY <1>1, <2>2, <2>3, MboxTakenDelivers
  <1>4. ASSUME NEW e \in EventIds, NEW timeout \in Timeouts, OSMboxPend(e, timeout) PROVE Delivers
    <2>1. AtTask("OSMboxPend") /\ Anywhere("OSMboxPend") /\ IsMbox(e)
      BY <1>4 DEF OSMboxPend, Anywhere
    <2>2. PICK bits : bits = Only("MBOX")
      OBVIOUS
    <2>3. PICK v : v = [op |-> "pend", event |-> e, type |-> "MBOX"]
      OBVIOUS
    <2>6. PICK a : a = [act |-> "got", msg |-> os.event[e].ptr]
      OBVIOUS
    <2>7. a.act = "got" /\ a.msg = os.event[e].ptr
      BY <2>6
    <2>4. CASE /\ os.event[e].ptr # None /\ Leave([os EXCEPT !.event[e].ptr = None], <<>>)
               /\ io' = Told(e, a)
      BY <1>1, <2>1, <2>4, <2>7, MboxTakenDelivers
    <2>5. CASE Leave(OS_EventTaskWait(StartPend(os, bits, timeout), e), <<Sched, v>>) /\ io' = NoIO
      <3>1. PICK m : m = StartPend(os, Only("MBOX"), timeout)
        OBVIOUS
      <3>2. PICK l : l = OS_EventTaskWait(m, e)
        OBVIOUS
      <3>3. v \in PendStep
        BY <2>3 DEF PendStep
      <3>4. Leave(l, <<Sched, v>>) /\ io' = NoIO
        BY <2>2, <2>5, <3>1, <3>2
      <3> QED
        BY <2>1, <3>1, <3>2, <3>3, <3>4, PendBlockDelivers
    <2> QED
      BY <1>4, <2>2, <2>3, <2>4, <2>5, <2>6 DEF OSMboxPend, Only
  <1>5. ASSUME OSMboxPend_Return PROVE Delivers
    <2>1. PICK e : e = Now.event
      OBVIOUS
    <2>2. PICK E : E = {Now.event}
      OBVIOUS
    <2>3. PICK l : l = EndPend(os, E)
      OBVIOUS
    <2>7. PICK m : m = Cur.msg
      OBVIOUS
    <2>8. PICK a : a = [act |-> "got", msg |-> m]
      OBVIOUS
    <2>4. Step("pend") /\ Now.type = "MBOX" /\ Proceed(l) /\ io' = IF Cur.pend = "OK" THEN Told(e, a) ELSE NoIO
      BY <1>5, <2>1, <2>2, <2>3, <2>7, <2>8 DEF OSMboxPend_Return
    <2>5. Now.op = "pend" /\ ~Silent(Now)
      BY <2>4 DEF Step, Now, Silent
    <2>6. a.act = "got" /\ a.msg = m
      BY <2>8
    <2> QED
      BY <1>1, <2>1, <2>3, <2>4, <2>5, <2>6, <2>7, BackDelivers
  <1>6. ASSUME NEW e \in EventIds, NEW all, OSMboxPendAbort(e, all) PROVE Delivers
    <2>1. PICK P : P = IF all THEN Waiters(os, e) ELSE HighestWaiter(os, e)
      OBVIOUS
    <2>2. PICK k : k = OS_EventTaskRdy(os, e, P, None, "MBOX", "ABORT")
      OBVIOUS
    <2>3. PICK steps : steps = <<Sched>>
      OBVIOUS
    <2>4. Anywhere("OSMboxPendAbort") /\ os.event[e].type = "MBOX" /\ HasWaiter(os, e) /\ Leave(k, steps) /\ io' = NoIO
      BY <1>6, <2>1, <2>2, <2>3 DEF OSMboxPendAbort, IsMbox
    <2>5. P \in SUBSET Waiters(os, e)
      BY <1>1, <2>1, <2>4, HighestIsWaiter
    <2>6. steps = <<>> \/ steps = <<Sched>>
      BY <2>3
    <2> QED
      BY <1>1, <2>2, <2>4, <2>5, <2>6, AbortDelivers
  <1>7. ASSUME NEW c, Anywhere(c), NEW e \in EventIds, IsMbox(e), HasWaiter(os, e), NEW P \in SUBSET Waiters(os, e),
               NEW msg \in Msgs, NEW steps, steps = <<>> \/ steps = <<Sched>>,
               Leave(OS_EventTaskRdy(os, e, P, msg, "MBOX", "OK"), steps),
               NEW n, n = Cardinality(P), io' = Told(e, Posted(msg, n))
        PROVE  Delivers
    <2>1. PICK k : k = OS_EventTaskRdy(os, e, P, msg, "MBOX", "OK")
      OBVIOUS
    <2>2. PICK a : a = Posted(msg, n)
      OBVIOUS
    <2>3. a.act \in {"put", "front"} /\ a.msg = msg /\ a.n = Cardinality(P)
      BY <1>7, <2>2 DEF Posted
    <2>4. msg \in Msgs \cup {None} /\ os.event[e].type = "MBOX" /\ Leave(k, steps) /\ io' = Told(e, a)
      BY <1>7, <2>1, <2>2 DEF IsMbox
    <2>5. PICK msk : msk = "MBOX"
      OBVIOUS
    <2>6. /\ msk = os.event[e].type /\ (msk \in {"SEM", "MUTEX"} => msg = None)
          /\ k = OS_EventTaskRdy(os, e, P, msg, msk, "OK")
      BY <2>1, <2>4, <2>5
    <2> QED
      BY <1>1, <1>7, <2>3, <2>4, <2>6, WakeDelivers
  <1>8. ASSUME NEW c, Anywhere(c), NEW e \in EventIds, IsMbox(e), os.event[e].ptr = None,
               NEW msg \in Msgs, Leave([os EXCEPT !.event[e].ptr = msg], <<>>), io' = Told(e, Posted(msg, 1))
        PROVE  Delivers
    <2>1. PICK a : a = Posted(msg, 1)
      OBVIOUS
    <2>2. a.act = "put" /\ a.msg = msg /\ a.n = 1 /\ io' = Told(e, a)
      BY <1>8, <2>1 DEF Posted
    <2> QED
      BY <1>1, <1>8, <2>2, MboxPutDelivers
  <1>9. ASSUME NEW e \in EventIds, NEW msg \in Msgs, OSMboxPost(e, msg) PROVE Delivers
    <2>1. PICK P : P = HighestWaiter(os, e)
      OBVIOUS
    <2>2. PICK steps : steps = <<Sched>>
      OBVIOUS
    <2>3. Anywhere("OSMboxPost") /\ IsMbox(e) /\ io' = Told(e, Posted(msg, 1))
      BY <1>9 DEF OSMboxPost
    <2>4. CASE HasWaiter(os, e) /\ Leave(OS_EventTaskRdy(os, e, P, msg, "MBOX", "OK"), steps)
      <3>1. P \in SUBSET Waiters(os, e) /\ 1 = Cardinality(P)
        BY <1>1, <2>1, <2>4, HighestIsWaiter, HighestIsOne
      <3>2. steps = <<>> \/ steps = <<Sched>>
        BY <2>2
      <3> QED
        BY <1>7, <2>3, <2>4, <3>1, <3>2
    <2>5. CASE os.event[e].ptr = None /\ Leave([os EXCEPT !.event[e].ptr = msg], <<>>)
      BY <1>8, <2>3, <2>5
    <2> QED
      BY <1>9, <2>1, <2>2, <2>4, <2>5 DEF OSMboxPost
  <1>10. ASSUME NEW e \in EventIds, NEW msg \in Msgs, NEW broadcast, NEW sched, OSMboxPostOpt(e, msg, broadcast, sched)
         PROVE  Delivers
    <2>1. PICK P : P = IF broadcast THEN Waiters(os, e) ELSE HighestWaiter(os, e)
      OBVIOUS
    <2>2. PICK steps : steps = IF sched THEN <<Sched>> ELSE <<>>
      OBVIOUS
    <2>3. Anywhere("OSMboxPostOpt") /\ IsMbox(e)
      BY <1>10 DEF OSMboxPostOpt
    <2>4. CASE /\ HasWaiter(os, e) /\ Leave(OS_EventTaskRdy(os, e, P, msg, "MBOX", "OK"), steps)
               /\ io' = Told(e, Posted(msg, Cardinality(P)))
      <3>1. P \in SUBSET Waiters(os, e)
        BY <1>1, <2>1, <2>4, HighestIsWaiter
      <3>2. steps = <<>> \/ steps = <<Sched>>
        BY <2>2
      <3> QED
        BY <1>7, <2>3, <2>4, <3>1, <3>2
    <2>5. CASE /\ os.event[e].ptr = None /\ Leave([os EXCEPT !.event[e].ptr = msg], <<>>)
               /\ io' = Told(e, Posted(msg, 1))
      BY <1>8, <2>3, <2>5
    <2> QED
      BY <1>10, <2>1, <2>2, <2>4, <2>5 DEF OSMboxPostOpt
  <1>11. ASSUME NEW msg, OSMboxCreate(msg) PROVE Delivers
    <2>1. /\ AtTask("OSMboxCreate") /\ os.freeEvents # <<>> /\ Leave(NewEvent(os, NewMbox(msg)), <<>>)
          /\ io' = Told(Head(os.freeEvents), clear)
      BY <1>11 DEF OSMboxCreate
    <2>2. clear.act = "clear"
      OBVIOUS
    <2> QED
      BY <1>1, <2>1, <2>2, NewEventDelivers
  <1>12. ASSUME NEW e \in EventIds, NEW always, OSMboxDel(e, always) PROVE Delivers
    <2>1. PICK m : m = OS_EventTaskRdy(os, e, Waiters(os, e), None, "MBOX", "OK")
      OBVIOUS
    <2>2. PICK l : l = FreeEvent(m, e)
      OBVIOUS
    <2>3. PICK steps : steps = IF HasWaiter(os, e) THEN <<Sched>> ELSE <<>>
      OBVIOUS
    <2>4. AtTask("OSMboxDel") /\ os.event[e].type = "MBOX" /\ Leave(l, steps) /\ io' = Told(e, [act |-> "clear"])
      BY <1>12, <2>1, <2>2, <2>3 DEF OSMboxDel, IsMbox
    <2>5. steps = <<>> \/ steps = <<Sched>>
      BY <2>3
    <2>6. Data(m) => Freed(m, l, e)
      BY <2>2, FreedParts
    <2> QED
      BY <1>1, <2>1, <2>4, <2>5, <2>6, DeleteDelivers
  <1> QED
    BY <1>3, <1>4, <1>5, <1>6, <1>9, <1>10, <1>11, <1>12 DEF MboxNext

(***************************************************************************)
(* Queues.                                                                 *)
(***************************************************************************)
LEMMA QueueSays ==
  ASSUME Typed(os), NEW e \in EventIds, IsQ(e)
  PROVE  /\ Ring(Queue(e), OSQSize) /\ StoredIn(os.event[e]) = Contents(Queue(e))
         /\ OSQSize \in Nat \ {0}
         /\ Queue(e).entries > 0 => Contents(Queue(e)) # <<>>
  <1>1. Ring(Queue(e), OSQSize)
    BY DEF IsQ, Queue, Typed, ValuesTyped, ValueTyped
  <1>2. StoredIn(os.event[e]) = Contents(Queue(e))
    BY DEF StoredIn, IsQ, Queue
  <1>3. PICK q : q = Queue(e)
    OBVIOUS
  <1>4. ASSUME q.entries > 0 PROVE Contents(q) # <<>>
    <2>1. q.entries \in Nat
      BY <1>1, <1>3, QueueAssumption DEF Ring, Rings
    <2>2. 1 \in DOMAIN Contents(q)
      BY <1>4, <2>1 DEF Contents
    <2> QED
      BY <2>2
  <1> QED
    BY <1>1, <1>2, <1>3, <1>4, QueueAssumption

(* The buffer becomes q.                                                   *)
LEMMA QueueDelivers ==
  ASSUME KInv, TInv, SignalOnly, Typed(os), NEW c, Anywhere(c), NEW e \in EventIds, IsQ(e), NEW q,
         Leave(WithQueue(e, q), <<>>), NEW a, io' = Told(e, a),
         DoesTo(a, Contents(Queue(e)), Contents(q), Hand(e), Hand(e))
  PROVE  Delivers
  <1>1. Leave(WithPointer(os, e, q), <<>>)
    BY DEF WithPointer, WithQueue
  <1>2. PICK s : s = StoredIn(os.event[e])
    OBVIOUS
  <1>3. PICK u : u = Contents(q)
    OBVIOUS
  <1>4. \A y : y.type = os.event[e].type /\ y.ptr = q /\ y.cnt = os.event[e].cnt => StoredIn(y) = u
    BY <1>3 DEF StoredIn, IsQ
  <1>5. DoesTo(a, s, u, Hand(e), Hand(e))
    BY <1>2, <1>3, QueueSays
  <1> QED
    BY <1>1, <1>2, <1>4, <1>5, PointerDelivers

LEMMA QTakenDelivers ==
  ASSUME KInv, TInv, SignalOnly, Typed(os), NEW c, Anywhere(c), NEW e \in EventIds, IsQ(e), Queue(e).entries > 0,
         Leave(WithQueue(e, Dequeue(Queue(e))), <<>>), NEW a, io' = Told(e, a),
         a.act = "got", a.msg = Next1(Queue(e))
  PROVE  Delivers
  <1>1. PICK q : q = Queue(e)
    OBVIOUS
  <1>2. Ring(q, OSQSize) /\ OSQSize \in Nat \ {0} /\ Contents(q) # <<>>
    BY <1>1, QueueSays
  <1>3. Next1(q) = Head(Contents(q)) /\ Contents(Dequeue(q)) = Tail(Contents(q))
    BY <1>1, <1>2, DequeueTakesFirst
  <1>4. DoesTo(a, Contents(Queue(e)), Contents(Dequeue(Queue(e))), Hand(e), Hand(e))
    BY <1>1, <1>2, <1>3 DEF DoesTo
  <1> QED
    BY <1>4, QueueDelivers

LEMMA QPutDelivers ==
  ASSUME KInv, TInv, SignalOnly, Typed(os), NEW c, Anywhere(c), NEW e \in EventIds, IsQ(e), ~IsFull(Queue(e)),
         NEW msg \in Msgs, NEW front \in BOOLEAN, NEW q,
         q = IF front THEN EnqueueFront(Queue(e), msg) ELSE Enqueue(Queue(e), msg),
         Leave(WithQueue(e, q), <<>>), NEW a, io' = Told(e, a),
         front => a.act = "front", ~front => a.act = "put", a.msg = msg, a.n = 1
  PROVE  Delivers
  <1>1. PICK r : r = Queue(e)
    OBVIOUS
  <1>2. Ring(r, OSQSize) /\ OSQSize \in Nat \ {0} /\ msg \in Slot
    BY <1>1, QueueSays DEF Slot
  <1>3. CASE front
    <2>1. Contents(q) = <<msg>> \o Contents(r)
      BY <1>1, <1>2, <1>3, EnqueueFrontPrepends
    <2>2. DoesTo(a, Contents(Queue(e)), Contents(q), Hand(e), Hand(e))
      BY <1>1, <1>3, <2>1 DEF DoesTo
    <2> QED
      BY <2>2, QueueDelivers
  <1>4. CASE ~front
    <2>1. Contents(q) = Append(Contents(r), msg)
      BY <1>1, <1>2, <1>4, EnqueueAppends
    <2>2. DoesTo(a, Contents(Queue(e)), Contents(q), Hand(e), Hand(e))
      BY <1>1, <1>4, <2>1 DEF DoesTo
    <2> QED
      BY <2>2, QueueDelivers
  <1> QED
    BY <1>3, <1>4

(* A queue is created in two steps.                                        *)
LEMMA QStartDelivers ==
  ASSUME TInv, SignalOnly, OSQCreate PROVE Delivers
  <1>1. Shape(os) /\ AtTask("OSQCreate") /\ os.freeEvents # <<>>
    BY DataShape DEF TInv, OSQCreate
  <1>2. PICK e : e = Head(os.freeEvents)
    OBVIOUS
  <1>3. PICK s : s = Tail(os.freeEvents)
    OBVIOUS
  <1>4. PICK l : l = [os EXCEPT !.freeEvents = s]
    OBVIOUS
  <1>5. PICK w : w = [op |-> "OSQCreate", event |-> e]
    OBVIOUS
  <1>6. PICK steps : steps = <<w>>
    OBVIOUS
  <1>7. Leave(l, steps) /\ io' = NoIO
    BY <1>1, <1>2, <1>3, <1>4, <1>5, <1>6 DEF OSQCreate, Shape, Fields
  <1>8. l.tcb = os.tcb /\ l.event = os.event /\ l.list = os.list
    BY <1>1, <1>4 DEF Shape, Fields
  <1>9. w \in OtherStep /\ w.op = "OSQCreate"
    <2>1. e \in EventIds
      BY <1>1, <1>2, FirstFree
    <2> QED
      BY <1>5, <2>1 DEF OtherStep
  <1>10. NextOp(steps) = "OSQCreate" /\ WaitOf(steps) = Sched
    BY <1>6, <1>9, StepForms
  <1>11. isr = "none" /\ Waiting[os.cur] = Sched /\ At(os.cur) = "none"
    BY <1>1, TaskCaller
  <1> QED
    BY <1>7, <1>8, <1>10, <1>11, SameBlockAnswers, PlainQuiet

LEMMA QEndDelivers ==
  ASSUME TInv, SignalOnly, OSQCreate_Q PROVE Delivers
  <1>1. Shape(os) /\ Step("OSQCreate")
    BY DataShape DEF TInv, OSQCreate_Q
  <1>2. PICK e : e = Now.event
    OBVIOUS
  <1>3. e \in EventIds
    <2>1. Steps(pc[os.cur]) /\ NextOp(pc[os.cur]) = "OSQCreate" /\ Now = Head(pc[os.cur])
      BY <1>1, StepCaller
    <2> QED
      BY <1>2, <2>1, NextStep
  <1>4. PICK q : q = NewQ
    OBVIOUS
  <1>5. PICK s : s = <<e>> \o os.freeEvents
    OBVIOUS
  <1>6. PICK a : a = [act |-> "clear"]
    OBVIOUS
  <1>7. PICK l : /\ Leave(l, <<>>) /\ l.tcb = os.tcb /\ l.list = os.list
                 /\ \A f \in EventIds : f # e => l.event[f] = os.event[f]
    <2>1. CASE os.freeQs > 0
      <3>1. PICK l : l = [os EXCEPT !.freeQs = @ - 1, !.event[e] = q]
        OBVIOUS
      <3>2. Leave(l, <<>>)
        BY <1>1, <1>2, <1>4, <2>1, <3>1 DEF OSQCreate_Q
      <3>3. /\ \A f \in Fields \ {"freeQs", "event"} : l[f] = os[f]
            /\ \A f \in EventIds : f # e => l.event[f] = os.event[f]
        BY <1>1, <3>1 DEF Shape, Fields
      <3> QED
        BY <3>2, <3>3 DEF Fields
    <2>2. CASE ~(os.freeQs > 0)
      <3>1. PICK l : l = [os EXCEPT !.freeEvents = s]
        OBVIOUS
      <3>2. Leave(l, <<>>)
        BY <1>1, <1>2, <1>5, <2>2, <3>1 DEF OSQCreate_Q, Shape, Fields
      <3>3. l.tcb = os.tcb /\ l.list = os.list /\ l.event = os.event
        BY <1>1, <3>1 DEF Shape, Fields
      <3> QED
        BY <3>2, <3>3
    <2> QED
      BY <2>1, <2>2
  <1>8. isr = "none" /\ Waiting[os.cur] = Sched /\ At(os.cur) # "OS_Dummy"
    BY <1>1, OtherCaller
  <1>9. NextOp(<<>>) = "none" /\ WaitOf(<<>>) = Sched
    BY StepForms
  <1>10. os' = l /\ \A t \in TCBs : HoldsAll(t)
    BY <1>7, <1>8, <1>9, SameBlockAnswers, PlainHands
  <1>11. io' = Told(e, a)
    BY <1>2, <1>6 DEF OSQCreate_Q
  <1>12. DoesTo(a, StoredIn(os.event[e]), StoredIn(os'.event[e]), Hand(e), Hand(e))
    BY <1>3, <1>6, ClearsAlways
  <1> QED
    BY <1>3, <1>7, <1>10, <1>11, <1>12, StockDelivers

LEMMA QDelivers ==
  ASSUME KInv, Inv, SignalOnly, Typed(os), NoneWaits, QNext PROVE Delivers
  <1> PICK clear : clear = [act |-> "clear"]
    OBVIOUS
  <1>1. TInv /\ Shape(os) /\ Data(os)
    BY DataShape DEF Inv, TInv
  <1>3. ASSUME NEW e \in EventIds, OSQAccept(e) PROVE Delivers
    <2>1. PICK a : a = [act |-> "got", msg |-> Next1(Queue(e))]
      OBVIOUS
    <2>2. /\ Anywhere("OSQAccept") /\ IsQ(e) /\ Queue(e).entries > 0
          /\ Leave(WithQueue(e, Dequeue(Queue(e))), <<>>) /\ io' = Told(e, a)
      BY <1>3, <2>1 DEF OSQAccept
    <2>3. a.act = "got" /\ a.msg = Next1(Queue(e))
      BY <2>1
    <2> QED
      BY <1>1, <2>2, <2>3, QTakenDelivers
  <1>4. ASSUME NEW e \in EventIds, NEW timeout \in Timeouts, OSQPend(e, timeout) PROVE Delivers
    <2>1. AtTask("OSQPend") /\ Anywhere("OSQPend") /\ IsQ(e)
      BY <1>4 DEF OSQPend, Anywhere
    <2>2. PICK bits : bits = Only("Q")
      OBVIOUS
    <2>3. PICK v : v = [op |-> "pend", event |-> e, type |-> "Q"]
      OBVIOUS
    <2>6. PICK a : a = [act |-> "got", msg |-> Next1(Queue(e))]
      OBVIOUS
    <2>7. a.act = "got" /\ a.msg = Next1(Queue(e))
      BY <2>6
    <2>4. CASE /\ Queue(e).entries > 0 /\ Leave(WithQueue(e, Dequeue(Queue(e))), <<>>)
               /\ io' = Told(e, a)
      BY <1>1, <2>1, <2>4, <2>7, QTakenDelivers
    <2>5. CASE Leave(OS_EventTaskWait(StartPend(os, bits, timeout), e), <<Sched, v>>) /\ io' = NoIO
      <3>1. PICK m : m = StartPend(os, Only("Q"), timeout)
        OBVIOUS
      <3>2. PICK l : l = OS_EventTaskWait(m, e)
        OBVIOUS
      <3>3. v \in PendStep
        BY <2>3 DEF PendStep
      <3>4. Leave(l, <<Sched, v>>) /\ io' = NoIO
        BY <2>2, <2>5, <3>1, <3>2
      <3> QED
        BY <2>1, <3>1, <3>2, <3>3, <3>4, PendBlockDelivers
    <2> QED
      BY <1>4, <2>2, <2>3, <2>4, <2>5, <2>6 DEF OSQPend, Only
  <1>5. ASSUME OSQPend_Return PROVE Delivers
    <2>1. PICK e : e = Now.event
      OBVIOUS
    <2>2. PICK E : E = {Now.event}
      OBVIOUS
    <2>3. PICK l : l = EndPend(os, E)
      OBVIOUS
    <2>7. PICK m : m = Cur.msg
      OBVIOUS
    <2>8. PICK a : a = [act |-> "got", msg |-> m]
      OBVIOUS
    <2>4. Step("pend") /\ Now.type = "Q" /\ Proceed(l) /\ io' = IF Cur.pend = "OK" THEN Told(e, a) ELSE NoIO
      BY <1>5, <2>1, <2>2, <2>3, <2>7, <2>8 DEF OSQPend_Return
    <2>5. Now.op = "pend" /\ ~Silent(Now)
      BY <2>4 DEF Step, Now, Silent
    <2>6. a.act = "got" /\ a.msg = m
      BY <2>8
    <2> QED
      BY <1>1, <2>1, <2>3, <2>4, <2>5, <2>6, <2>7, BackDelivers
  <1>6. ASSUME NEW e \in EventIds, NEW all, OSQPendAbort(e, all) PROVE Delivers
    <2>1. PICK P : P = IF all THEN Waiters(os, e) ELSE HighestWaiter(os, e)
      OBVIOUS
    <2>2. PICK k : k = OS_EventTaskRdy(os, e, P, None, "Q", "ABORT")
      OBVIOUS
    <2>3. PICK steps : steps = <<Sched>>
      OBVIOUS
    <2>4. Anywhere("OSQPendAbort") /\ os.event[e].type = "Q" /\ HasWaiter(os, e) /\ Leave(k, steps) /\ io' = NoIO
      BY <1>6, <2>1, <2>2, <2>3 DEF OSQPendAbort, IsQ
    <2>5. P \in SUBSET Waiters(os, e)
      BY <1>1, <2>1, <2>4, HighestIsWaiter
    <2>6. steps = <<>> \/ steps = <<Sched>>
      BY <2>3
    <2> QED
      BY <1>1, <2>2, <2>4, <2>5, <2>6, AbortDelivers
  <1>7. ASSUME NEW c, Anywhere(c), NEW e \in EventIds, IsQ(e), HasWaiter(os, e), NEW P \in SUBSET Waiters(os, e),
               NEW msg \in Msgs, NEW steps, steps = <<>> \/ steps = <<Sched>>,
               Leave(OS_EventTaskRdy(os, e, P, msg, "Q", "OK"), steps), NEW act \in {"put", "front"},
               NEW n, n = Cardinality(P), io' = Told(e, Queued(act, msg, n))
        PROVE  Delivers
    <2>1. PICK k : k = OS_EventTaskRdy(os, e, P, msg, "Q", "OK")
      OBVIOUS
    <2>2. PICK a : a = Queued(act, msg, n)
      OBVIOUS
    <2>3. a.act \in {"put", "front"} /\ a.msg = msg /\ a.n = Cardinality(P)
      BY <1>7, <2>2 DEF Queued
    <2>4. msg \in Msgs \cup {None} /\ os.event[e].type = "Q" /\ Leave(k, steps) /\ io' = Told(e, a)
      BY <1>7, <2>1, <2>2 DEF IsQ
    <2>5. PICK msk : msk = "Q"
      OBVIOUS
    <2>6. /\ msk = os.event[e].type /\ (msk \in {"SEM", "MUTEX"} => msg = None)
          /\ k = OS_EventTaskRdy(os, e, P, msg, msk, "OK")
      BY <2>1, <2>4, <2>5
    <2> QED
      BY <1>1, <1>7, <2>3, <2>4, <2>6, WakeDelivers
  <1>8. ASSUME NEW c, Anywhere(c), NEW e \in EventIds, IsQ(e), ~IsFull(Queue(e)), NEW msg \in Msgs,
               NEW front \in BOOLEAN, NEW q,
               q = IF front THEN EnqueueFront(Queue(e), msg) ELSE Enqueue(Queue(e), msg),
               Leave(WithQueue(e, q), <<>>), NEW act, front => act = "front", ~front => act = "put",
               io' = Told(e, Queued(act, msg, 1))
        PROVE  Delivers
    <2>1. PICK a : a = Queued(act, msg, 1)
      OBVIOUS
    <2>2. a.act = act /\ a.msg = msg /\ a.n = 1 /\ io' = Told(e, a)
      BY <1>8, <2>1 DEF Queued
    <2>3. (front => a.act = "front") /\ (~front => a.act = "put")
      BY <1>8, <2>2
    <2> QED
      BY <1>1, <1>8, <2>2, <2>3, QPutDelivers
  <1>9. ASSUME NEW e \in EventIds, NEW msg \in Msgs, OSQPost(e, msg) PROVE Delivers
    <2>1. PICK P : P = HighestWaiter(os, e)
      OBVIOUS
    <2>2. PICK steps : steps = <<Sched>>
      OBVIOUS
    <2>3. Anywhere("OSQPost") /\ IsQ(e) /\ io' = Told(e, Queued("put", msg, 1))
      BY <1>9 DEF OSQPost
    <2>4. CASE HasWaiter(os, e) /\ Leave(OS_EventTaskRdy(os, e, P, msg, "Q", "OK"), steps)
      <3>1. P \in SUBSET Waiters(os, e) /\ 1 = Cardinality(P)
        BY <1>1, <2>1, <2>4, HighestIsWaiter, HighestIsOne
      <3>2. (steps = <<>> \/ steps = <<Sched>>) /\ "put" \in {"put", "front"}
        BY <2>2
      <3> QED
        BY <1>7, <2>3, <2>4, <3>1, <3>2
    <2>5. CASE ~IsFull(Queue(e)) /\ Leave(WithQueue(e, Enqueue(Queue(e), msg)), <<>>)
      <3>1. PICK q : q = IF FALSE THEN EnqueueFront(Queue(e), msg) ELSE Enqueue(Queue(e), msg)
        OBVIOUS
      <3>2. Leave(WithQueue(e, q), <<>>) /\ FALSE \in BOOLEAN
        BY <2>5, <3>1
      <3> QED
        BY <1>8, <2>3, <2>5, <3>1, <3>2
    <2> QED
      BY <1>9, <2>1, <2>2, <2>4, <2>5 DEF OSQPost
  <1>13. ASSUME NEW e \in EventIds, NEW msg \in Msgs, OSQPostFront(e, msg) PROVE Delivers
    <2>1. PICK P : P = HighestWaiter(os, e)
      OBVIOUS
    <2>2. PICK steps : steps = <<Sched>>
      OBVIOUS
    <2>3. Anywhere("OSQPostFront") /\ IsQ(e) /\ io' = Told(e, Queued("front", msg, 1))
      BY <1>13 DEF OSQPostFront
    <2>4. CASE HasWaiter(os, e) /\ Leave(OS_EventTaskRdy(os, e, P, msg, "Q", "OK"), steps)
      <3>1. P \in SUBSET Waiters(os, e) /\ 1 = Cardinality(P)
        BY <1>1, <2>1, <2>4, HighestIsWaiter, HighestIsOne
      <3>2. (steps = <<>> \/ steps = <<Sched>>) /\ "front" \in {"put", "front"}
        BY <2>2
      <3> QED
        BY <1>7, <2>3, <2>4, <3>1, <3>2
    <2>5. CASE ~IsFull(Queue(e)) /\ Leave(WithQueue(e, EnqueueFront(Queue(e), msg)), <<>>)
      <3>1. PICK q : q = IF TRUE THEN EnqueueFront(Queue(e), msg) ELSE Enqueue(Queue(e), msg)
        OBVIOUS
      <3>2. Leave(WithQueue(e, q), <<>>) /\ TRUE \in BOOLEAN
        BY <2>5, <3>1
      <3> QED
        BY <1>8, <2>3, <2>5, <3>1, <3>2
    <2> QED
      BY <1>13, <2>1, <2>2, <2>4, <2>5 DEF OSQPostFront
  <1>10. ASSUME NEW e \in EventIds, NEW msg \in Msgs, NEW broadcast, NEW front \in BOOLEAN, NEW sched,
                OSQPostOpt(e, msg, broadcast, front, sched)
         PROVE  Delivers
    <2>1. PICK P : P = IF broadcast THEN Waiters(os, e) ELSE HighestWaiter(os, e)
      OBVIOUS
    <2>2. PICK steps : steps = IF sched THEN <<Sched>> ELSE <<>>
      OBVIOUS
    <2>6. PICK q : q = IF front THEN EnqueueFront(Queue(e), msg) ELSE Enqueue(Queue(e), msg)
      OBVIOUS
    <2>7. PICK act : act = IF front THEN "front" ELSE "put"
      OBVIOUS
    <2>3. Anywhere("OSQPostOpt") /\ IsQ(e)
      BY <1>10 DEF OSQPostOpt
    <2>4. CASE /\ HasWaiter(os, e) /\ Leave(OS_EventTaskRdy(os, e, P, msg, "Q", "OK"), steps)
               /\ io' = Told(e, Queued("put", msg, Cardinality(P)))
      <3>1. P \in SUBSET Waiters(os, e)
        BY <1>1, <2>1, <2>4, HighestIsWaiter
      <3>2. (steps = <<>> \/ steps = <<Sched>>) /\ "put" \in {"put", "front"}
        BY <2>2
      <3> QED
        BY <1>7, <2>3, <2>4, <3>1, <3>2
    <2>5. CASE /\ ~IsFull(Queue(e)) /\ Leave(WithQueue(e, q), <<>>)
               /\ io' = Told(e, Queued(act, msg, 1))
      <3>1. (front => act = "front") /\ (~front => act = "put")
        BY <2>7
      <3> QED
        BY <1>8, <2>3, <2>5, <2>6, <3>1
    <2> QED
      BY <1>10, <2>1, <2>2, <2>4, <2>5, <2>6, <2>7 DEF OSQPostOpt
  <1>11. ASSUME NEW e \in EventIds, OSQFlush(e) PROVE Delivers
    <2>1. PICK q : q = Flush(Queue(e))
      OBVIOUS
    <2>2. Anywhere("OSQFlush") /\ IsQ(e) /\ Leave(WithQueue(e, q), <<>>) /\ io' = Told(e, clear)
      BY <1>11, <2>1 DEF OSQFlush
    <2>3. clear.act = "clear"
      OBVIOUS
    <2>4. DoesTo(clear, Contents(Queue(e)), Contents(q), Hand(e), Hand(e))
      BY <2>3, ClearsAlways
    <2> QED
      BY <1>1, <2>2, <2>4, QueueDelivers
  <1>12. ASSUME NEW e \in EventIds, NEW always, OSQDel(e, always) PROVE Delivers
    <2>1. PICK m : m = OS_EventTaskRdy(os, e, Waiters(os, e), None, "Q", "OK")
      OBVIOUS
    <2>2. PICK l : l = [FreeEvent(m, e) EXCEPT !.freeQs = @ + 1]
      OBVIOUS
    <2>3. PICK steps : steps = IF HasWaiter(os, e) THEN <<Sched>> ELSE <<>>
      OBVIOUS
    <2>4. AtTask("OSQDel") /\ os.event[e].type = "Q" /\ Leave(l, steps) /\ io' = Told(e, [act |-> "clear"])
      BY <1>12, <2>1, <2>2, <2>3 DEF OSQDel, IsQ
    <2>5. steps = <<>> \/ steps = <<Sched>>
      BY <2>3
    <2>6. Data(m) => Freed(m, l, e)
      BY <2>2, FreedParts
    <2> QED
      BY <1>1, <2>1, <2>4, <2>5, <2>6, DeleteDelivers
  <1> QED
    BY <1>1, <1>3, <1>4, <1>5, <1>6, <1>9, <1>10, <1>11, <1>12, <1>13, QStartDelivers, QEndDelivers DEF QNext

(***************************************************************************)
(* Several events at once.                                                 *)
(***************************************************************************)
LEMMA OneTaken ==
  ASSUME Typed(os), NEW e \in EventIds, DOMAIN os.event[e] = ECBFields, Available(e),
         NEW v, v = TakeOne(e), NEW a, a.act = "got", a.msg = MessageOf(e)
  PROVE  DoesTo(a, StoredIn(os.event[e]), StoredIn(v), Hand(e), Hand(e))
  <1>1. PICK s : s = StoredIn(os.event[e])
    OBVIOUS
  <1>2. PICK u : u = StoredIn(v)
    OBVIOUS
  <1>3. s # <<>> /\ a.msg = Head(s) /\ u = Tail(s)
    <2>1. CASE IsSem(e)
      <3>1. os.event[e].cnt > 0 /\ os.event[e].cnt \in Nat
        BY <2>1, CountAssumption DEF Available, IsSem, IsMbox, IsQ, Typed, ValuesTyped, ValueTyped
      <3>2. v.type = "SEM" /\ v.cnt = os.event[e].cnt - 1 /\ a.msg = Signal
        BY <2>1 DEF TakeOne, MessageOf, IsSem, IsMbox, IsQ, ECBFields
      <3>3. s = Signals(os.event[e].cnt) /\ u = Signals(os.event[e].cnt - 1)
        BY <1>1, <1>2, <2>1, <3>2, SemStored DEF IsSem
      <3> QED
        BY <3>1, <3>2, <3>3, SignalSequence
    <2>2. CASE IsMbox(e)
      <3>1. os.event[e].ptr # None
        BY <2>2 DEF Available, IsSem, IsMbox, IsQ
      <3>2. v.type = "MBOX" /\ v.ptr = None /\ a.msg = os.event[e].ptr
        BY <2>2 DEF TakeOne, MessageOf, IsSem, IsMbox, IsQ, ECBFields
      <3>3. s = <<os.event[e].ptr>> /\ u = <<>>
        BY <1>1, <1>2, <2>2, <3>1, <3>2 DEF StoredIn, IsMbox
      <3> QED
        BY <3>2, <3>3
    <2>3. CASE IsQ(e)
      <3>1. PICK q : q = Queue(e)
        OBVIOUS
      <3>2. q.entries > 0
        BY <2>3, <3>1 DEF Available, IsSem, IsMbox, IsQ
      <3>3. Ring(q, OSQSize) /\ OSQSize \in Nat \ {0} /\ Contents(q) # <<>> /\ s = Contents(q)
        BY <1>1, <2>3, <3>1, <3>2, QueueSays
      <3>4. Next1(q) = Head(Contents(q)) /\ Contents(Dequeue(q)) = Tail(Contents(q))
        BY <3>2, <3>3, DequeueTakesFirst
      <3>5. PICK r : r = Dequeue(q)
        OBVIOUS
      <3>6. v = [os.event[e] EXCEPT !.ptr = r] /\ a.msg = Next1(q)
        BY <2>3, <3>1, <3>5 DEF TakeOne, MessageOf, IsSem, IsMbox, IsQ, Queue
      <3>7. v.type = "Q" /\ v.ptr = r
        BY <2>3, <3>6 DEF IsQ, ECBFields
      <3>8. u = Contents(r)
        BY <1>2, <3>7 DEF StoredIn
      <3> QED
        BY <3>3, <3>4, <3>5, <3>6, <3>8
    <2> QED
      BY <2>1, <2>2, <2>3 DEF Available
  <1> QED
    BY <1>1, <1>2, <1>3 DEF DoesTo

LEMMA TakesDeliver ==
  ASSUME KInv, TInv, SignalOnly, Typed(os), NEW E \in SUBSET EventIds, AtTask("OSEventPendMulti"),
         OSEventPendMulti_Take(E)
  PROVE  Delivers
  <1>1. Shape(os)
    BY DataShape DEF TInv, Data
  <1> PICK ready : ready = {e \in E : Available(e)}
    OBVIOUS
  <1> PICK l : l = [os EXCEPT !.event = [e \in EventIds |-> IF e \in ready THEN TakeOne(e) ELSE os.event[e]]]
    OBVIOUS
  <1>2. Leave(l, <<>>) /\ os' = l
    BY DEF OSEventPendMulti_Take, Leave
  <1>3. \A f \in Fields \ {"event"} : l[f] = os[f]
    BY <1>1 DEF Shape, Fields
  <1>4. \A e \in EventIds : l.event[e] = IF e \in ready THEN TakeOne(e) ELSE os.event[e]
    BY <1>1 DEF Shape, Fields
  <1>5. l.tcb = os.tcb /\ l.list = os.list
    BY <1>3 DEF Fields
  <1>6. ASSUME NEW t \in TCBs PROVE HoldsAll(t)
    <2>1. SameAnswer(os.tcb[t], l.tcb[t])
      BY <1>5, SameBlockAnswers
    <2>2. Anywhere("OSEventPendMulti")
      BY DEF Anywhere
    <2>3. PICK steps : steps = <<>>
      OBVIOUS
    <2>4. Leave(l, steps) /\ (steps = <<>> \/ steps = <<Sched>>)
      BY <1>2, <2>3
    <2> QED
      BY <1>5, <2>1, <2>2, <2>4, CalledHands
  <1>7. SignalOnly'
    BY <1>6, SignalsKept DEF HoldsAll
  <1>8. ASSUME NEW e \in EventIds PROVE Hand(e)' = Hand(e)
    BY <1>6, HandKept DEF HoldsAll
  <1>9. ASSUME NEW e \in EventIds
        PROVE  DoesTo(io'[e], StoredIn(os.event[e]), StoredIn(os'.event[e]), Hand(e), Hand(e)')
    <2>1. PICK a : a = io'[e]
      OBVIOUS
    <2>2. PICK h : h = Hand(e)
      OBVIOUS
    <2>3. h = Hand(e)'
      BY <1>8, <2>2
    <2>4. DoesTo(a, StoredIn(os.event[e]), StoredIn(l.event[e]), h, h)
      <3>1. CASE e \in ready
        <4>1. a.act = "got" /\ a.msg = MessageOf(e)
          BY <2>1, <3>1 DEF OSEventPendMulti_Take
        <4>2. Available(e) /\ l.event[e] = TakeOne(e) /\ DOMAIN os.event[e] = ECBFields
          BY <1>1, <1>4, <3>1 DEF Shape
        <4> QED
          BY <2>2, <4>1, <4>2, OneTaken
      <3>2. CASE e \notin ready
        <4>1. a.act = "none"
          BY <2>1, <3>2 DEF OSEventPendMulti_Take
        <4>2. l.event[e] = os.event[e]
          BY <1>4, <3>2
        <4> QED
          BY <4>1, <4>2 DEF DoesTo
      <3> QED
        BY <3>1, <3>2
    <2> QED
      BY <1>2, <2>1, <2>2, <2>3, <2>4
  <1> QED
    BY <1>7, <1>9 DEF Delivers, Promised

LEMMA MultiDelivers ==
  ASSUME KInv, Inv, SignalOnly, Typed(os), MultiNext PROVE Delivers
  <1>1. TInv
    BY DEF Inv
  <1>2. ASSUME NEW E \in SUBSET EventIds, NEW timeout \in Timeouts, OSEventPendMulti_Check(E),
               OSEventPendMulti_Wait(E, timeout)
        PROVE  Delivers
    <2>1. PICK e0 \in E : TRUE
      BY <1>2 DEF OSEventPendMulti_Check
    <2>2. PICK kind : kind = os.event[e0].type
      OBVIOUS
    <2>3. PICK bits : bits = {os.event[e].type : e \in E} \cup {"MULTI"}
      OBVIOUS
    <2>4. kind \in bits /\ kind \in {"SEM", "MBOX", "Q"} /\ AtTask("OSEventPendMulti")
      BY <1>2, <2>1, <2>2, <2>3 DEF OSEventPendMulti_Check, SeveralTypes
    <2>5. PICK m : m = StartPend(os, bits, timeout)
      OBVIOUS
    <2>6. PICK l : l = OS_EventTaskWaitMulti(m, E)
      OBVIOUS
    <2>7. PICK v : v = [op |-> "multi", events |-> E]
      OBVIOUS
    <2>8. v \in MultiStep
      BY <2>7 DEF MultiStep
    <2>9. Leave(l, <<Sched, v>>) /\ io' = NoIO
      BY <1>2, <2>3, <2>5, <2>6, <2>7 DEF OSEventPendMulti_Wait
    <2> QED
      BY <2>4, <2>5, <2>6, <2>8, <2>9, MultiBlockDelivers
  <1>3. ASSUME OSEventPendMulti_Return PROVE Delivers
    <2>1. Step("multi") /\ Now.op = "multi"
      BY <1>3, SeveralReturn DEF Step, Now
    <2>2. ~Silent(Now)
      BY <2>1 DEF Silent
    <2>3. PICK e : e = Cur.event
      OBVIOUS
    <2>4. PICK m : m = Cur.msg
      OBVIOUS
    <2>5. PICK a : a = [act |-> "got", msg |-> m]
      OBVIOUS
    <2>6. PICK E : E = Now.events
      OBVIOUS
    <2>7. PICK l : l = EndPend(os, E)
      OBVIOUS
    <2>8. Proceed(l) /\ io' = IF Cur.pend = "OK" THEN Told(e, a) ELSE NoIO
      BY <1>3, <2>3, <2>4, <2>5, <2>6, <2>7, SeveralReturn
    <2>9. a.act = "got" /\ a.msg = m /\ (Now.op = "pend" => e = Now.event)
      BY <2>1, <2>5
    <2> QED
      BY <2>1, <2>2, <2>3, <2>4, <2>7, <2>8, <2>9, BackDelivers
  <1>4. ASSUME NEW E \in SUBSET EventIds, OSEventPendMulti_Check(E), OSEventPendMulti_Take(E) PROVE Delivers
    BY <1>1, <1>4, TakesDeliver DEF OSEventPendMulti_Check
  <1> QED
    BY <1>2, <1>3, <1>4, Zenon DEF MultiNext, OSEventPendMulti

(* No event is a mutex.                                                    *)
LEMMA MutexDelivers ==
  ASSUME Ruled, KInv, Inv, SignalOnly, Typed(os), MutexNext PROVE Delivers
  <1>1. /\ \A e \in EventIds : ~IsMutex(e)
        /\ "OSMutexCreate" \notin app.calls
    BY DEF Ruled, UsesMutexes, Inv, Rules, NoMutex, IsMutex
  <1>2. ~ \E pip \in Prios : OSMutexCreate(pip)
    BY <1>1 DEF OSMutexCreate, AtTask
  <1>3. ASSUME NEW e \in EventIds
        PROVE  /\ \A always \in BOOLEAN : ~OSMutexDel(e, always)
               /\ ~OSMutexAccept(e) /\ ~OSMutexPost(e)
               /\ \A timeout \in Timeouts : ~OSMutexPend(e, timeout)
    BY <1>1, Zenon DEF OSMutexDel, OSMutexAccept, OSMutexPost, OSMutexPend
  <1>4. OSMutexPend_Return
    BY <1>2, <1>3, Zenon DEF MutexNext
  <1>5. PICK e : e = Now.event
    OBVIOUS
  <1>6. PICK E : E = {Now.event}
    OBVIOUS
  <1>7. PICK l : l = EndPend(os, E)
    OBVIOUS
  <1>8. PICK a : a = Token("got")
    OBVIOUS
  <1>9. Step("pend") /\ Now.type = "MUTEX" /\ Proceed(l) /\ io' = IF Cur.pend = "OK" THEN Told(e, a) ELSE NoIO
    BY <1>4, <1>5, <1>6, <1>7, <1>8 DEF OSMutexPend_Return
  <1>10. Now.op = "pend" /\ Silent(Now)
    BY <1>9 DEF Step, Now, Silent
  <1>11. a.act = "got" /\ a.msg = None
    BY <1>8 DEF Token
  <1> QED
    BY <1>5, <1>7, <1>9, <1>10, <1>11, BackDelivers

LEMMA StepDelivers ==
  ASSUME Ruled, KInv, Inv, Books, SignalOnly, Typed(os), Next PROVE Delivers
  <1>1. TInv /\ NoneWaits /\ app.conds \subseteq Conditions
    BY DEF Inv, Rules, Ruled, Supported, Books
  <1>2. CASE OSStart \/ IntNext \/ OS_Sched \/ OSSchedLock \/ OSSchedUnlock
    BY <1>1, <1>2, RunDelivers
  <1>3. CASE TaskNext
    BY <1>3, TaskDelivers
  <1>4. CASE SemNext \/ MboxNext \/ QNext
    BY <1>1, <1>4, SemDelivers, MboxDelivers, QDelivers
  <1>5. CASE MultiNext \/ MutexNext
    BY <1>5, MultiDelivers, MutexDelivers
  <1>6. CASE FlagNext \/ MemNext
    BY <1>1, <1>6, FlagDelivers, MemDelivers
  <1>7. CASE CheckNext
    <2>1. os' = os /\ pc' = pc /\ io' = NoIO
      BY <1>7, CheckStutters
    <2> QED
      BY <1>1, <2>1, PcDelivers, SameBlockAnswers
  <1> QED
    BY <1>2, <1>3, <1>4, <1>5, <1>6, <1>7, Zenon DEF Next

(***************************************************************************)
(* What the events have stored and handed out, as the Channel sees it.     *)
(***************************************************************************)
AllStored == [e \in EventIds |-> Stored(e)]
AllHanded == [e \in EventIds |-> Handed(e)]

LEMMA NothingMoves ==
  ASSUME TInv, NoMutex(os), TInv', NoMutex(os'), UNCHANGED vars
  PROVE  UNCHANGED <<AllStored, AllHanded, io>> /\ (SignalOnly => SignalOnly')
  <1>1. os' = os /\ pc' = pc /\ io' = io
    BY DEF vars
  <1>2. \A t \in TCBs : Waiting'[t] = Waiting[t]
    BY <1>1 DEF Waiting
  <1>3. ASSUME NEW t \in TCBs, NEW e PROVE Holds(t, e)
    <2>1. Live' = Live
      BY <1>1 DEF Live, BeingDeleted, At
    <2>2. os'.tcb[t] = os.tcb[t] /\ Waiting'[t] = Waiting[t]
      BY <1>1, <1>2
    <2>3. Taker(t, e)' <=> Taker(t, e)
      BY <2>1, <2>2, TakerIs
    <2> QED
      BY <2>2, <2>3 DEF Holds
  <1>4. \A e \in EventIds : Hand(e)' = Hand(e)
    BY <1>3, HandKept
  <1>5. HandedIs /\ HandedIs' /\ StoredIs /\ StoredIs'
    BY HandedTakers, HandedAfter, StoredTypes, StoredAfter DEF NoMutex
  <1>6. \A e \in EventIds : Handed(e)' = Handed(e) /\ Stored(e)' = Stored(e)
    BY <1>1, <1>4, <1>5 DEF HandedIs, StoredIs
  <1>7. SignalOnly => SignalOnly'
    BY <1>3, SignalsKept
  <1> QED
    BY <1>1, <1>6, <1>7 DEF AllStored, AllHanded

LEMMA InitDelivers ==
  ASSUME Ruled, Init PROVE SignalOnly /\ Ch!Init
  <1>1. Inv
    BY InitInv
  <1>2. TInv /\ HandedIs
    BY <1>1, HandedTakers DEF Inv
  <1>3. \A t \in TCBs : pc[t] = <<>>
    BY DEF Init
  <1>4. \A t \in TCBs : Waiting[t] = Sched
    BY <1>3 DEF Waiting, WaitOf
  <1>5. \A t \in TCBs, e \in EventIds : ~Taker(t, e)
    BY <1>4 DEF Taker, Given, PendEvents, Sched
  <1>6. SignalOnly
    BY <1>5 DEF SignalOnly
  <1>7. ASSUME NEW e \in EventIds, NEW m PROVE Cardinality(Takers(e, m)) = 0
    <2>1. Takers(e, m) = {}
      BY <1>5 DEF Takers
    <2> QED
      BY <2>1, FS_EmptySet
  <1>8. \A e \in EventIds : Handed(e) = [m \in Msgs \cup {None} |-> 0]
    BY <1>2, <1>7 DEF HandedIs, Hand
  <1> QED
    BY <1>6, <1>8 DEF Ch!Init

(***************************************************************************)
(* Semaphores, mailboxes and queues are first-in first-out channels, for   *)
(* any number of tasks, events and messages: what is posted is stored last *)
(* (or first, OSQPostFront) or, when nothing is stored, handed to a task   *)
(* that waits; what OSSemPend, OSMboxPend, OSQPend and OSEventPendMulti    *)
(* return is what was stored first or handed to their caller, and neither  *)
(* a timeout nor an abort, another task or an interrupt in between loses   *)
(* or doubles it.  A deletion empties the channel.  The rules are those of *)
(* ReadyListAgrees: nothing is deleted that another task has checked, and  *)
(* where OSEventPendMulti is called no event is deleted at all.            *)
(***************************************************************************)
THEOREM ChannelImplemented ==
  ASSUME Ruled, ~PrioChangeOfWoken, ~DeletionRaces PROVE Spec => ChannelSpec
  <1> DEFINE Sound == KInv /\ Inv /\ Books /\ Typed(os) /\ SignalOnly
  <1>1. Init => Sound /\ Ch!Init
    BY InitGood, InitInv, InitBooks, InitTypes, InitDelivers
  <1>2. Sound /\ [Next]_vars => Sound' /\ [Ch!Next]_<<AllStored, AllHanded, io>>
    <2> SUFFICES ASSUME Sound, [Next]_vars PROVE Sound' /\ [Ch!Next]_<<AllStored, AllHanded, io>>
      OBVIOUS
    <2>1. KInv'
      BY NextInv
    <2>2. Inv'
      BY <2>1, StepKept
    <2>3. Books' /\ Typed(os')
      BY <2>2, StepBooks, StepTypes DEF Booked
    <2>4. TInv /\ NoMutex(os) /\ TInv' /\ NoMutex(os')
      BY <2>2 DEF Inv, Rules, NoMutex
    <2>5. CASE Next
      <3>1. Promised /\ SignalOnly'
        BY <2>5, StepDelivers DEF Delivers
      <3>2. Ch!Next
        BY <2>4, <3>1, PromiseKept
      <3> QED
        BY <2>1, <2>2, <2>3, <3>1, <3>2
    <2>6. CASE UNCHANGED vars
      BY <2>1, <2>2, <2>3, <2>4, <2>6, NothingMoves
    <2> QED
      BY <2>5, <2>6
  <1> HIDE DEF Sound
  <1> QED
    BY <1>1, <1>2, PTL DEF Spec, ChannelSpec, Ch!Spec, AllStored, AllHanded

===============================================================================
