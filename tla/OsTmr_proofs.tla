---------------------------- MODULE OsTmr_proofs ----------------------------
(***************************************************************************)
(* Proofs about the software timers for any number of timers and spokes,   *)
(* any settings and any range of the time.  The lists are argued about     *)
(* link by link: linking a timer that is in no list and unlinking one that *)
(* is in a list keep every other list as it is.  Then ranks that order the *)
(* timers of each list show which timers a list leads to and which ones    *)
(* OSTmr_Task still has before it.                                         *)
(***************************************************************************)
EXTENDS OsTmr, TLAPS, FiniteSetTheorems, WellFoundedInduction

AllSettings == Settings \cup {NoSetting}
TMR   == [state : States, setting : AllSettings, match : 0 .. TimeRange - 1,
          prev : Ptr, next : Ptr]
SPOKE == [first : Ptr, entries : Int]

(* A record of timers and wheel, as Mem. *)
Typed(k) == k.tmr \in [Timers -> TMR] /\ k.wheel \in [Spokes -> SPOKE]

(* The lists do not run in a circle: the timers can be ranked so that each *)
(* list goes up.                                                           *)
Ranks(k, r) ==
  /\ r \in [Timers -> Int]
  /\ \A t \in Timers : k.tmr[t].state = "RUNNING" /\ k.tmr[t].next # Null =>
       r[t] < r[k.tmr[t].next]
Ranked(k) == \E r : Ranks(k, r)

LEMMA ModRange == \A a \in Int, b \in Nat \ {0} : a % b \in 0 .. b - 1
  OBVIOUS

LEMMA SpokeRange == \A m \in 0 .. TimeRange - 1 : Spoke(m) \in Spokes
  BY ModRange, WheelAssumption DEF Spoke, Spokes

LEMMA SettingRange ==
  ASSUME NEW s \in AllSettings PROVE s.dly \in Int /\ s.period \in Int
  BY SettingsAssumption, WheelAssumption DEF AllSettings, NoSetting

LEMMA NullRange == Null \notin Timers
  BY NullAssumption

(***************************************************************************)
(* Linking.                                                                *)
(***************************************************************************)
(* Timer t at the head of spoke m. *)
AtHead(k, t, m) ==
  LET first == k.wheel[Spoke(m)].first
  IN  [tmr   |-> [u \in Timers |->
                    IF u = t THEN [k.tmr[t] EXCEPT !.state = "RUNNING", !.match = m,
                                                   !.next = first, !.prev = Null]
                    ELSE IF u = first THEN [k.tmr[u] EXCEPT !.prev = t] ELSE k.tmr[u]],
       wheel |-> [k.wheel EXCEPT ![Spoke(m)] =
                    [first |-> t, entries |-> IF first = Null THEN 1 ELSE @.entries + 1]]]

LEMMA LinkIsHead ==
  ASSUME NEW k, Typed(k), NEW t \in Timers, NEW periodic \in BOOLEAN, time \in 0 .. TimeRange - 1
  PROVE  \E m \in 0 .. TimeRange - 1 : OSTmr_Link(k, t, periodic) = AtHead(k, t, m)
  <1> DEFINE s == k.tmr[t].setting
             d == IF periodic \/ s.dly = 0 THEN s.period ELSE s.dly
  <1>1. s \in AllSettings
    BY DEF Typed, TMR
  <1>2. d \in Int
    BY <1>1, SettingRange
  <1>3. (time + d) % TimeRange \in 0 .. TimeRange - 1
    <2> HIDE DEF d
    <2> QED
      BY <1>2, ModRange, WheelAssumption
  <1>4. OSTmr_Link(k, t, periodic) = AtHead(k, t, (time + d) % TimeRange)
    BY DEF OSTmr_Link, AtHead
  <1> QED
    BY <1>3, <1>4

LEMMA HeadParts ==
  ASSUME NEW k, Typed(k), NEW t \in Timers, NEW m \in 0 .. TimeRange - 1
  PROVE  LET l     == AtHead(k, t, m)
             first == k.wheel[Spoke(m)].first
         IN  /\ Typed(l)
             /\ l.tmr[t].state = "RUNNING" /\ l.tmr[t].match = m
             /\ l.tmr[t].next = first /\ l.tmr[t].prev = Null
             /\ \A u \in Timers \ {t} :
                  /\ l.tmr[u].state = k.tmr[u].state /\ l.tmr[u].match = k.tmr[u].match
                  /\ l.tmr[u].next = k.tmr[u].next
                  /\ l.tmr[u].prev = IF u = first THEN t ELSE k.tmr[u].prev
             /\ l.wheel[Spoke(m)].first = t
             /\ \A s \in Spokes \ {Spoke(m)} : l.wheel[s].first = k.wheel[s].first
  <1> DEFINE first == k.wheel[Spoke(m)].first
             node  == [k.tmr[t] EXCEPT !.state = "RUNNING", !.match = m, !.next = first,
                                       !.prev = Null]
             tmrs  == [u \in Timers |-> IF u = t THEN node
                         ELSE IF u = first THEN [k.tmr[u] EXCEPT !.prev = t] ELSE k.tmr[u]]
             w     == [k.wheel EXCEPT ![Spoke(m)] =
                         [first |-> t, entries |-> IF first = Null THEN 1 ELSE @.entries + 1]]
  <1>1. Spoke(m) \in Spokes
    BY SpokeRange
  <1>2. first \in Ptr /\ t \in Ptr /\ Null \in Ptr
    BY <1>1 DEF Typed, SPOKE, Ptr
  <1>3. node \in TMR /\ node.state = "RUNNING" /\ node.match = m /\ node.next = first
          /\ node.prev = Null
    BY <1>2 DEF Typed, TMR, States
  <1>4. \A u \in Timers : LET x == [k.tmr[u] EXCEPT !.prev = t]
                         IN  x \in TMR /\ x.state = k.tmr[u].state /\ x.match = k.tmr[u].match
                               /\ x.next = k.tmr[u].next /\ x.prev = t
    BY <1>2 DEF Typed, TMR
  <1>5. w \in [Spokes -> SPOKE] /\ w[Spoke(m)].first = t
          /\ \A s \in Spokes \ {Spoke(m)} : w[s].first = k.wheel[s].first
    BY <1>1, <1>2 DEF Typed, SPOKE
  <1>6. AtHead(k, t, m) = [tmr |-> tmrs, wheel |-> w]
    BY DEF AtHead
  <1>7. tmrs \in [Timers -> TMR] /\ tmrs[t] = node
          /\ \A u \in Timers \ {t} :
               /\ tmrs[u].state = k.tmr[u].state /\ tmrs[u].match = k.tmr[u].match
               /\ tmrs[u].next = k.tmr[u].next
               /\ tmrs[u].prev = IF u = first THEN t ELSE k.tmr[u].prev
    <2> HIDE DEF node, first
    <2> QED
      BY <1>3, <1>4 DEF Typed
  <1> HIDE DEF tmrs, w, node, first
  <1>8. /\ Typed(AtHead(k, t, m))
        /\ AtHead(k, t, m).tmr = tmrs /\ AtHead(k, t, m).wheel = w
    BY <1>5, <1>6, <1>7 DEF Typed
  <1> QED
    BY <1>3, <1>5, <1>7, <1>8 DEF first

LEMMA LinkOK ==
  ASSUME NEW k, Typed(k), Linked(k), NEW t \in Timers, k.tmr[t].state # "RUNNING",
         NEW m \in 0 .. TimeRange - 1
  PROVE  /\ Typed(AtHead(k, t, m)) /\ Linked(AtHead(k, t, m))
         /\ \A u \in Timers \ {t} : \A s : On(AtHead(k, t, m), u, s) <=> On(k, u, s)
  <1> DEFINE l     == AtHead(k, t, m)
             first == k.wheel[Spoke(m)].first
  <1>1. /\ Typed(l)
        /\ l.tmr[t].state = "RUNNING" /\ l.tmr[t].match = m
        /\ l.tmr[t].next = first /\ l.tmr[t].prev = Null
        /\ \A u \in Timers \ {t} :
             /\ l.tmr[u].state = k.tmr[u].state /\ l.tmr[u].match = k.tmr[u].match
             /\ l.tmr[u].next = k.tmr[u].next
             /\ l.tmr[u].prev = IF u = first THEN t ELSE k.tmr[u].prev
        /\ l.wheel[Spoke(m)].first = t
        /\ \A s \in Spokes \ {Spoke(m)} : l.wheel[s].first = k.wheel[s].first
    BY HeadParts
  <1>2. Spoke(m) \in Spokes
    BY SpokeRange
  <1> HIDE DEF l
  <1>3. \A u \in Timers \ {t} : \A s : On(l, u, s) <=> On(k, u, s)
    BY <1>1 DEF On
  <1>4. \A s : On(l, t, s) <=> s = Spoke(m)
    BY <1>1 DEF On
  <1>5. \A s : ~On(k, t, s)
    BY DEF On
  <1>6. \A s \in Spokes : l.wheel[s].first # Null =>
          On(l, l.wheel[s].first, s) /\ l.tmr[l.wheel[s].first].prev = Null
    <2> TAKE s \in Spokes
    <2>1. CASE s = Spoke(m)
      BY <2>1, <1>1, <1>4
    <2>2. CASE s # Spoke(m)
      <3>1. l.wheel[s].first = k.wheel[s].first
        BY <2>2, <1>1
      <3> SUFFICES ASSUME k.wheel[s].first # Null
                   PROVE  On(l, k.wheel[s].first, s) /\ l.tmr[k.wheel[s].first].prev = Null
        BY <3>1
      <3>2. On(k, k.wheel[s].first, s) /\ k.tmr[k.wheel[s].first].prev = Null
        BY DEF Linked
      <3>3. k.wheel[s].first \in Timers \ {t} /\ k.wheel[s].first # first
        <4>1. first # Null => On(k, first, Spoke(m))
          BY <1>2 DEF Linked
        <4> QED
          BY <3>2, <4>1, <2>2, <1>5 DEF On
      <3> QED
        BY <3>2, <3>3, <1>1, <1>3
    <2> QED
      BY <2>1, <2>2
  <1>7. ASSUME NEW s \in Spokes, NEW u \in Timers, On(l, u, s)
        PROVE  /\ IF l.tmr[u].prev = Null THEN l.wheel[s].first = u
                  ELSE On(l, l.tmr[u].prev, s) /\ l.tmr[l.tmr[u].prev].next = u
               /\ l.tmr[u].next # Null =>
                    On(l, l.tmr[u].next, s) /\ l.tmr[l.tmr[u].next].prev = u
    <2>1. first # Null => On(k, first, Spoke(m)) /\ first # t /\ k.tmr[first].prev = Null
      BY <1>2, <1>5 DEF Linked
    <2>2. CASE u = t
      <3>1. s = Spoke(m)
        BY <2>2, <1>4, <1>7
      <3>2. l.tmr[u].prev = Null /\ l.wheel[s].first = u /\ l.tmr[u].next = first
        BY <2>2, <3>1, <1>1
      <3>3. first # Null => On(l, first, s) /\ l.tmr[first].prev = u
        BY <2>1, <2>2, <3>1, <1>1, <1>3 DEF On
      <3> QED
        BY <3>2, <3>3
    <2>3. CASE u # t
      <3>1. On(k, u, s)
        BY <2>3, <1>3, <1>7
      <3>2. /\ IF k.tmr[u].prev = Null THEN k.wheel[s].first = u
               ELSE On(k, k.tmr[u].prev, s) /\ k.tmr[k.tmr[u].prev].next = u
            /\ k.tmr[u].next # Null =>
                 On(k, k.tmr[u].next, s) /\ k.tmr[k.tmr[u].next].prev = u
        BY <3>1 DEF Linked
      <3>3. l.tmr[u].next # Null =>
              On(l, l.tmr[u].next, s) /\ l.tmr[l.tmr[u].next].prev = u
        <4> SUFFICES ASSUME l.tmr[u].next # Null
                     PROVE  On(l, l.tmr[u].next, s) /\ l.tmr[l.tmr[u].next].prev = u
          OBVIOUS
        <4>1. l.tmr[u].next = k.tmr[u].next
          BY <2>3, <1>1
        <4>2. On(k, k.tmr[u].next, s) /\ k.tmr[k.tmr[u].next].prev = u
          BY <3>2, <4>1
        <4>3. k.tmr[u].next \in Timers \ {t} /\ k.tmr[u].next # first
          BY <4>2, <1>5, <2>1, NullRange DEF On
        <4> QED
          BY <4>1, <4>2, <4>3, <1>1, <1>3
      <3>4. IF l.tmr[u].prev = Null THEN l.wheel[s].first = u
            ELSE On(l, l.tmr[u].prev, s) /\ l.tmr[l.tmr[u].prev].next = u
        <4>1. CASE u = first
          <5>1. s = Spoke(m)
            BY <4>1, <3>1, <2>1, NullRange DEF On
          <5>2. l.tmr[u].prev = t /\ t # Null
            BY <4>1, <2>3, <1>1, NullRange
          <5> QED
            BY <5>1, <5>2, <4>1, <1>1, <1>4
        <4>2. CASE u # first
          <5>1. l.tmr[u].prev = k.tmr[u].prev
            BY <4>2, <2>3, <1>1
          <5>2. CASE k.tmr[u].prev = Null
            <6>1. k.wheel[s].first = u
              BY <5>2, <3>2
            <6>2. s # Spoke(m)
              BY <6>1, <4>2
            <6> QED
              BY <6>1, <6>2, <5>1, <5>2, <1>1
          <5>3. CASE k.tmr[u].prev # Null
            <6>1. On(k, k.tmr[u].prev, s) /\ k.tmr[k.tmr[u].prev].next = u
              BY <5>3, <3>2
            <6>2. k.tmr[u].prev \in Timers \ {t}
              BY <6>1, <1>5 DEF On
            <6> QED
              BY <6>1, <6>2, <5>1, <5>3, <1>1, <1>3
          <5> QED
            BY <5>2, <5>3
        <4> QED
          BY <4>1, <4>2
      <3> QED
        BY <3>3, <3>4
    <2> QED
      BY <2>2, <2>3
  <1>8. Linked(l)
    BY <1>6, <1>7 DEF Linked
  <1> QED
    BY <1>1, <1>3, <1>8 DEF l

LEMMA LinkRanked ==
  ASSUME NEW k, Typed(k), Linked(k), Ranked(k), NEW t \in Timers, k.tmr[t].state # "RUNNING",
         NEW m \in 0 .. TimeRange - 1
  PROVE  Ranked(AtHead(k, t, m))
  <1> DEFINE l     == AtHead(k, t, m)
             first == k.wheel[Spoke(m)].first
  <1>1. PICK r : Ranks(k, r)
    BY DEF Ranked
  <1>2. l.tmr[t].next = first /\ \A u \in Timers \ {t} :
          l.tmr[u].state = k.tmr[u].state /\ l.tmr[u].next = k.tmr[u].next
    BY HeadParts
  <1>3. first # Null => first \in Timers \ {t}
    BY SpokeRange DEF Linked, On
  <1>4. \A u \in Timers \ {t} : k.tmr[u].state = "RUNNING" /\ k.tmr[u].next # Null =>
          k.tmr[u].next \in Timers \ {t}
    <2>1. \A u \in Timers : Spoke(k.tmr[u].match) \in Spokes
      BY SpokeRange DEF Typed, TMR
    <2> QED
      BY <2>1 DEF Linked, On
  (* In front of the list: below its first timer. *)
  <1> DEFINE q == [r EXCEPT ![t] = IF first = Null THEN 0 ELSE r[first] - 1]
  <1> HIDE DEF l, first
  <1>5. q \in [Timers -> Int] /\ (first # Null => q[t] < q[first])
          /\ \A u \in Timers \ {t} : q[u] = r[u]
    BY <1>1, <1>3 DEF Ranks
  <1> HIDE DEF q
  <1>6. Ranks(l, q)
    BY <1>1, <1>2, <1>4, <1>5 DEF Ranks
  <1> QED
    BY <1>6 DEF Ranked, l

(***************************************************************************)
(* Unlinking.                                                              *)
(***************************************************************************)
LEMMA UnlinkParts ==
  ASSUME NEW k, Typed(k), NEW t \in Timers
  PROVE  LET l     == OSTmr_Unlink(k, t)
             m     == Spoke(k.tmr[t].match)
             first == k.wheel[m].first = t
             prev  == k.tmr[t].prev
             next  == k.tmr[t].next
         IN  /\ Typed(l)
             /\ l.tmr[t].state = "STOPPED"
             /\ \A u \in Timers \ {t} :
                  /\ l.tmr[u].state = k.tmr[u].state /\ l.tmr[u].match = k.tmr[u].match
                  /\ l.tmr[u].next = IF u = prev /\ ~first THEN next ELSE k.tmr[u].next
                  /\ l.tmr[u].prev = IF u = next THEN (IF first THEN Null ELSE prev)
                                     ELSE k.tmr[u].prev
             /\ l.wheel[m].first = IF first THEN next ELSE k.wheel[m].first
             /\ \A s \in Spokes \ {m} : l.wheel[s].first = k.wheel[s].first
  <1> DEFINE m     == Spoke(k.tmr[t].match)
             first == k.wheel[m].first = t
             prev  == k.tmr[t].prev
             next  == k.tmr[t].next
             node  == [k.tmr[t] EXCEPT !.state = "STOPPED", !.next = Null, !.prev = Null]
             other(u) == [k.tmr[u] EXCEPT
                            !.next = IF u = prev /\ ~first THEN next ELSE @,
                            !.prev = IF u = next THEN (IF first THEN Null ELSE prev) ELSE @]
             tmrs  == [u \in Timers |-> IF u = t THEN node ELSE other(u)]
             w     == [k.wheel EXCEPT ![m].entries = @ - 1, ![m].first = IF first THEN next ELSE @]
  <1>1. m \in Spokes
    BY SpokeRange DEF Typed, TMR
  <1>2. prev \in Ptr /\ next \in Ptr /\ Null \in Ptr
    BY DEF Typed, TMR, Ptr
  <1>3. node \in TMR /\ node.state = "STOPPED"
    BY <1>2 DEF Typed, TMR, States
  <1>4. \A u \in Timers :
          other(u) \in TMR /\ other(u).state = k.tmr[u].state /\ other(u).match = k.tmr[u].match
            /\ other(u).next = (IF u = prev /\ ~first THEN next ELSE k.tmr[u].next)
            /\ other(u).prev = (IF u = next THEN (IF first THEN Null ELSE prev) ELSE k.tmr[u].prev)
    <2> HIDE DEF first, prev, next
    <2> QED
      BY <1>2 DEF Typed, TMR
  <1>5. w \in [Spokes -> SPOKE] /\ w[m].first = (IF first THEN next ELSE k.wheel[m].first)
          /\ \A s \in Spokes \ {m} : w[s].first = k.wheel[s].first
    <2> HIDE DEF m, next
    <2> QED
      BY <1>1, <1>2 DEF Typed, SPOKE
  <1>6. OSTmr_Unlink(k, t) = [tmr |-> tmrs, wheel |-> w]
    BY DEF OSTmr_Unlink
  <1>7. tmrs \in [Timers -> TMR] /\ tmrs[t] = node /\ \A u \in Timers \ {t} : tmrs[u] = other(u)
    <2> HIDE DEF node, other
    <2> QED
      BY <1>3, <1>4
  <1>8. \A u \in Timers \ {t} :
          /\ tmrs[u].state = k.tmr[u].state /\ tmrs[u].match = k.tmr[u].match
          /\ tmrs[u].next = (IF u = prev /\ ~first THEN next ELSE k.tmr[u].next)
          /\ tmrs[u].prev = (IF u = next THEN (IF first THEN Null ELSE prev) ELSE k.tmr[u].prev)
    <2> HIDE DEF tmrs, other, first, prev, next
    <2> QED
      BY <1>4, <1>7
  <1> DEFINE l == OSTmr_Unlink(k, t)
  <1>9. l.tmr = tmrs /\ l.wheel = w
    <2> HIDE DEF tmrs, w
    <2> QED
      BY <1>6
  <1>10. Typed(l)
    <2>1. tmrs \in [Timers -> TMR] /\ w \in [Spokes -> SPOKE]
      BY <1>5, <1>7
    <2> HIDE DEF tmrs, w, l
    <2> QED
      BY <2>1, <1>9 DEF Typed
  <1>11. /\ l.tmr[t].state = "STOPPED"
         /\ l.wheel[m].first = (IF first THEN next ELSE k.wheel[m].first)
         /\ \A s \in Spokes \ {m} : l.wheel[s].first = k.wheel[s].first
    <2> HIDE DEF tmrs, w, l, node, m, first, next
    <2> QED
      BY <1>3, <1>5, <1>7, <1>9
  <1>12. \A u \in Timers \ {t} :
          /\ l.tmr[u].state = k.tmr[u].state /\ l.tmr[u].match = k.tmr[u].match
          /\ l.tmr[u].next = (IF u = prev /\ ~first THEN next ELSE k.tmr[u].next)
          /\ l.tmr[u].prev = (IF u = next THEN (IF first THEN Null ELSE prev) ELSE k.tmr[u].prev)
    <2> HIDE DEF tmrs, w, l
    <2> QED
      BY <1>8, <1>9
  <1> HIDE DEF l
  <1> QED
    BY <1>10, <1>11, <1>12 DEF l

LEMMA UnlinkOK ==
  ASSUME NEW k, Typed(k), Linked(k), NEW t \in Timers, k.tmr[t].state = "RUNNING"
  PROVE  /\ Typed(OSTmr_Unlink(k, t)) /\ Linked(OSTmr_Unlink(k, t))
         /\ OSTmr_Unlink(k, t).tmr[t].state = "STOPPED"
         /\ \A u \in Timers \ {t} : \A s : On(OSTmr_Unlink(k, t), u, s) <=> On(k, u, s)
  <1> DEFINE l     == OSTmr_Unlink(k, t)
             m     == Spoke(k.tmr[t].match)
             first == k.wheel[m].first = t
             prev  == k.tmr[t].prev
             next  == k.tmr[t].next
  <1>1. /\ Typed(l)
        /\ l.tmr[t].state = "STOPPED"
        /\ \A u \in Timers \ {t} :
             /\ l.tmr[u].state = k.tmr[u].state /\ l.tmr[u].match = k.tmr[u].match
             /\ l.tmr[u].next = IF u = prev /\ ~first THEN next ELSE k.tmr[u].next
             /\ l.tmr[u].prev = IF u = next THEN (IF first THEN Null ELSE prev)
                                ELSE k.tmr[u].prev
        /\ l.wheel[m].first = IF first THEN next ELSE k.wheel[m].first
        /\ \A s \in Spokes \ {m} : l.wheel[s].first = k.wheel[s].first
    BY UnlinkParts
  <1>2. m \in Spokes
    BY SpokeRange DEF Typed, TMR
  <1> HIDE DEF l
  <1>3. \A u \in Timers \ {t} : \A s : On(l, u, s) <=> On(k, u, s)
    BY <1>1 DEF On
  <1>4. \A s : ~On(l, t, s)
    BY <1>1 DEF On
  <1>5. On(k, t, m) /\ \A s : On(k, t, s) => s = m
    BY DEF On
  (* t was in the list of m: what is known of its neighbours. *)
  <1>6. /\ IF prev = Null THEN first ELSE On(k, prev, m) /\ k.tmr[prev].next = t
        /\ next # Null => On(k, next, m) /\ k.tmr[next].prev = t
        /\ first => prev = Null
    <2>1. first => prev = Null
      BY <1>2, NullRange DEF Linked
    <2>2. prev # Null => On(k, prev, m) /\ k.tmr[prev].next = t
      <3> HIDE DEF m
      <3> QED
        BY <1>2, <1>5 DEF Linked
    <2>3. next # Null => On(k, next, m) /\ k.tmr[next].prev = t
      <3> HIDE DEF m
      <3> QED
        BY <1>2, <1>5 DEF Linked
    <2>4. prev = Null => first
      <3> HIDE DEF m
      <3> QED
        BY <1>2, <1>5 DEF Linked
    <2> QED
      BY <2>1, <2>2, <2>3, <2>4
  (* Only the neighbours lead to t. *)
  <1>7. \A u \in Timers \ {t} : \A s : On(k, u, s) =>
          /\ (k.tmr[u].next = t => u = prev)
          /\ (k.tmr[u].prev = t => u = next)
    <2> SUFFICES ASSUME NEW u \in Timers \ {t}, NEW s, On(k, u, s)
                 PROVE  (k.tmr[u].next = t => u = prev) /\ (k.tmr[u].prev = t => u = next)
      OBVIOUS
    <2>1. s \in Spokes
      BY SpokeRange DEF On, Typed, TMR
    <2>2. k.tmr[u].next = t => k.tmr[t].prev = u
      BY <2>1, NullRange DEF Linked
    <2>3. k.tmr[u].prev = t => k.tmr[t].next = u
      BY <2>1, NullRange DEF Linked
    <2> QED
      BY <2>2, <2>3
  <1>8. ASSUME NEW s \in Spokes, l.wheel[s].first # Null
        PROVE  On(l, l.wheel[s].first, s) /\ l.tmr[l.wheel[s].first].prev = Null
    <2>1. CASE s = m /\ first
      <3>1. l.wheel[s].first = next /\ next # Null
        BY <2>1, <1>1, <1>8
      <3>2. On(k, next, m) /\ k.tmr[next].prev = t
        BY <3>1, <1>6
      <3>3. next \in Timers \ {t}
        BY <3>2, <2>1, <1>6, NullRange DEF On
      <3> QED
        BY <2>1, <3>1, <3>2, <3>3, <1>1, <1>3
    <2>2. CASE ~(s = m /\ first)
      <3>1. l.wheel[s].first = k.wheel[s].first
        BY <2>2, <1>1
      <3>2. On(k, k.wheel[s].first, s) /\ k.tmr[k.wheel[s].first].prev = Null
        BY <3>1, <1>8 DEF Linked
      <3>3. k.wheel[s].first \in Timers \ {t}
        BY <3>2, <2>2, <1>5 DEF On
      <3>4. k.wheel[s].first # next
        BY <3>2, <1>6, NullRange DEF On
      <3> QED
        BY <3>1, <3>2, <3>3, <3>4, <1>1, <1>3
    <2> QED
      BY <2>1, <2>2
  <1>9. ASSUME NEW s \in Spokes, NEW u \in Timers, On(l, u, s)
        PROVE  /\ IF l.tmr[u].prev = Null THEN l.wheel[s].first = u
                  ELSE On(l, l.tmr[u].prev, s) /\ l.tmr[l.tmr[u].prev].next = u
               /\ l.tmr[u].next # Null =>
                    On(l, l.tmr[u].next, s) /\ l.tmr[l.tmr[u].next].prev = u
    <2>1. u # t /\ On(k, u, s)
      BY <1>3, <1>4, <1>9
    <2>2. /\ IF k.tmr[u].prev = Null THEN k.wheel[s].first = u
             ELSE On(k, k.tmr[u].prev, s) /\ k.tmr[k.tmr[u].prev].next = u
          /\ k.tmr[u].next # Null => On(k, k.tmr[u].next, s) /\ k.tmr[k.tmr[u].next].prev = u
      BY <2>1 DEF Linked
    <2>3. l.tmr[u].next # Null => On(l, l.tmr[u].next, s) /\ l.tmr[l.tmr[u].next].prev = u
      <3> SUFFICES ASSUME l.tmr[u].next # Null
                   PROVE  On(l, l.tmr[u].next, s) /\ l.tmr[l.tmr[u].next].prev = u
        OBVIOUS
      <3>1. CASE u = prev /\ ~first
        <4>1. l.tmr[u].next = next /\ next # Null
          BY <2>1, <3>1, <1>1
        <4>2. On(k, next, m) /\ next # t /\ s = m
          <5>1. On(k, next, m) /\ k.tmr[next].prev = t
            BY <4>1, <1>6
          <5>2. On(k, prev, m)
            BY <3>1, <1>6
          <5>3. next # t
            BY <5>1, <3>1, <2>1
          <5> QED
            BY <5>1, <5>2, <5>3, <3>1, <2>1 DEF On
        <4>3. l.tmr[next].prev = prev
          BY <4>2, <3>1, <1>1 DEF On
        <4> QED
          BY <4>1, <4>2, <4>3, <3>1, <1>3 DEF On
      <3>2. CASE ~(u = prev /\ ~first)
        <4>1. l.tmr[u].next = k.tmr[u].next
          BY <2>1, <3>2, <1>1
        <4>2. On(k, k.tmr[u].next, s) /\ k.tmr[k.tmr[u].next].prev = u
          BY <4>1, <2>2
        <4>3. k.tmr[u].next # t
          <5>1. k.tmr[u].next = t => u = prev /\ first
            BY <1>7, <2>1, <3>2
          <5>2. u # Null
            BY NullRange
          <5> QED
            BY <5>1, <5>2, <1>6
        <4>4. k.tmr[u].next # next
          <5>1. k.tmr[u].next # Null
            BY <4>2, NullRange DEF On
          <5>2. k.tmr[u].next = next => u = t
            BY <5>1, <4>2, <1>6
          <5> QED
            BY <5>2, <2>1
        <4> QED
          BY <4>1, <4>2, <4>3, <4>4, <1>1, <1>3 DEF On
      <3> QED
        BY <3>1, <3>2
    <2>4. IF l.tmr[u].prev = Null THEN l.wheel[s].first = u
          ELSE On(l, l.tmr[u].prev, s) /\ l.tmr[l.tmr[u].prev].next = u
      <3>1. CASE u = next
        <4>1. On(k, next, m) /\ k.tmr[next].prev = t /\ s = m
          BY <3>1, <2>1, <1>6, NullRange DEF On
        <4>2. CASE first
          BY <4>1, <4>2, <3>1, <2>1, <1>1
        <4>3. CASE ~first
          <5>1. On(k, prev, m) /\ prev # Null
            BY <4>3, <1>6, NullRange
          <5>2. prev # t
            <6>1. k.tmr[prev].next = t
              BY <5>1, <1>6
            <6> QED
              BY <6>1, <3>1, <2>1
          <5>3. l.tmr[u].prev = prev /\ l.tmr[prev].next = next
            BY <4>3, <5>1, <5>2, <3>1, <2>1, <1>1 DEF On
          <5> QED
            BY <5>1, <5>2, <5>3, <4>1, <3>1, <1>3 DEF On
        <4> QED
          BY <4>2, <4>3
      <3>2. CASE u # next
        <4>1. l.tmr[u].prev = k.tmr[u].prev /\ k.tmr[u].prev # t
          BY <3>2, <2>1, <1>1, <1>7
        <4>2. CASE k.tmr[u].prev = Null
          <5>1. k.wheel[s].first = u
            BY <4>2, <2>2
          <5>2. l.wheel[s].first = u
            BY <5>1, <2>1, <1>1
          <5> QED
            BY <4>1, <4>2, <5>2
        <4>3. CASE k.tmr[u].prev # Null
          <5>1. On(k, k.tmr[u].prev, s) /\ k.tmr[k.tmr[u].prev].next = u
            BY <4>3, <2>2
          <5>2. k.tmr[u].prev # prev \/ first
            <6>1. k.tmr[u].prev = prev /\ ~first => u = t
              BY <5>1, <4>3, <1>6
            <6> QED
              BY <6>1, <2>1
          <5>3. k.tmr[u].prev \in Timers \ {t}
            BY <5>1, <4>1 DEF On
          <5>4. l.tmr[k.tmr[u].prev].next = u
            BY <5>1, <5>2, <5>3, <1>1
          <5>5. On(l, k.tmr[u].prev, s)
            BY <5>1, <5>3, <1>3
          <5> QED
            BY <4>1, <4>3, <5>4, <5>5
        <4> QED
          BY <4>2, <4>3
      <3> QED
        BY <3>1, <3>2
    <2> QED
      BY <2>3, <2>4
  <1>10. Linked(l)
    BY <1>8, <1>9 DEF Linked
  <1> QED
    BY <1>1, <1>3, <1>10 DEF l

LEMMA UnlinkRanked ==
  ASSUME NEW k, Typed(k), Linked(k), Ranked(k), NEW t \in Timers, k.tmr[t].state = "RUNNING"
  PROVE  Ranked(OSTmr_Unlink(k, t))
  <1> DEFINE l    == OSTmr_Unlink(k, t)
             m    == Spoke(k.tmr[t].match)
             prev == k.tmr[t].prev
             next == k.tmr[t].next
  <1>1. PICK r : Ranks(k, r)
    BY DEF Ranked
  <1>2. /\ l.tmr[t].state = "STOPPED"
        /\ \A u \in Timers \ {t} :
             /\ l.tmr[u].state = k.tmr[u].state
             /\ l.tmr[u].next = k.tmr[u].next \/ (u = prev /\ l.tmr[u].next = next)
    BY UnlinkParts
  <1>3. m \in Spokes /\ On(k, t, m)
    BY SpokeRange DEF On, Typed, TMR
  <1>4. prev # Null => On(k, prev, m) /\ k.tmr[prev].next = t
    <2> HIDE DEF m
    <2> QED
      BY <1>3 DEF Linked
  <1>5. next # Null => On(k, next, m)
    <2> HIDE DEF m
    <2> QED
      BY <1>3 DEF Linked
  <1>6. next # Null => r[t] < r[next] /\ r[t] \in Int /\ r[next] \in Int
    BY <1>1, <1>5 DEF Ranks, On
  <1>7. \A u \in Timers : u = prev => r[u] < r[t] /\ r[u] \in Int
    BY <1>1, <1>4, NullRange DEF Ranks, On
  <1> HIDE DEF l
  <1>8. \A u \in Timers \ {t} : l.tmr[u].state = "RUNNING" /\ l.tmr[u].next # Null =>
          r[u] < r[l.tmr[u].next]
    <2> HIDE DEF m, prev, next
    <2> QED
      BY <1>1, <1>2, <1>6, <1>7 DEF Ranks
  <1>9. Ranks(l, r)
    BY <1>1, <1>2, <1>8 DEF Ranks
  <1> QED
    BY <1>9 DEF Ranked, l

(***************************************************************************)
(* The free list and the walk.  Same says that k differs from the state in *)
(* no unused timer, and in no running one but t.                           *)
(***************************************************************************)
Same(k, t) ==
  /\ \A u \in Timers : /\ k.tmr[u].state = "UNUSED" <=> tmr[u].state = "UNUSED"
                       /\ tmr[u].state = "UNUSED" => k.tmr[u].next = tmr[u].next
  /\ \A u \in Timers \ {t} : \A s : On(Mem, u, s) => On(k, u, s)

(* Part of the invariant is the rule that the callbacks keep.              *)
IInv == TypeOK /\ LinksOK /\ Ranked(Mem) /\ ~CallbackTouchesNext

LEMMA MemTyped ==
  ASSUME IInv
  PROVE  Typed(Mem) /\ Linked(Mem) /\ Ranked(Mem) /\ time \in 0 .. TimeRange - 1
  BY DEF IInv, TypeOK, LinksOK, Typed, Mem, TMR, AllSettings, SPOKE

LEMMA UnlinkSame ==
  ASSUME Typed(Mem), Linked(Mem), NEW t \in Timers, tmr[t].state = "RUNNING"
  PROVE  Same(OSTmr_Unlink(Mem, t), t)
  <1> DEFINE l == OSTmr_Unlink(Mem, t)
             m == Spoke(tmr[t].match)
  <1>1. /\ l.tmr[t].state = "STOPPED"
        /\ \A u \in Timers \ {t} :
             /\ l.tmr[u].state = tmr[u].state
             /\ u # tmr[t].prev => l.tmr[u].next = tmr[u].next
    BY UnlinkParts DEF Mem
  <1>2. \A u \in Timers \ {t} : \A s : On(l, u, s) <=> On(Mem, u, s)
    BY UnlinkOK DEF Mem
  <1>3. tmr[t].prev \in Timers => tmr[tmr[t].prev].state = "RUNNING"
    <2>1. m \in Spokes /\ On(Mem, t, m)
      BY SpokeRange DEF On, Typed, TMR, Mem
    <2> HIDE DEF m
    <2> QED
      BY <2>1, NullRange DEF Linked, Mem, On
  <1> HIDE DEF l
  <1>4. Same(l, t)
    BY <1>1, <1>2, <1>3 DEF Same
  <1> QED
    BY <1>4 DEF l

(* Starting a timer: it is linked after it has been unlinked. *)
LEMMA AtHeadSame ==
  ASSUME NEW k, Typed(k), Linked(k), NEW t \in Timers, Same(k, t),
         k.tmr[t].state \notin {"UNUSED", "RUNNING"}, NEW m \in 0 .. TimeRange - 1
  PROVE  Same(AtHead(k, t, m), t)
  <1> DEFINE l == AtHead(k, t, m)
  <1>1. l.tmr[t].state = "RUNNING" /\ \A u \in Timers \ {t} :
          l.tmr[u].state = k.tmr[u].state /\ l.tmr[u].next = k.tmr[u].next
    BY HeadParts
  <1>2. \A u \in Timers \ {t} : \A s : On(l, u, s) <=> On(k, u, s)
    BY LinkOK
  <1> HIDE DEF l
  <1>3. Same(l, t)
    BY <1>1, <1>2 DEF Same
  <1> QED
    BY <1>3 DEF l

(* A step to k that leaves the free list and the task alone. *)
LEMMA IntoOK ==
  ASSUME IInv, NEW k, Typed(k), Linked(k), Ranked(k), NEW t \in Timers, Same(k, t), Into(k),
         task.at = "callback" => t # task.next, task.at = "walk" => task.ptmr = Null,
         UNCHANGED <<freeList, used, time, signals, task>>
  PROVE  IInv'
  <1>1. TypeOK'
    BY DEF IInv, TypeOK, Typed, Into, TMR, AllSettings, SPOKE
  <1>2. Linked(Mem)'
    BY DEF Linked, Mem, On, Into
  <1>3. FreeLinked'
    BY DEF IInv, LinksOK, FreeLinked, Unused, Into, Same
  <1>4. /\ (task.at = "walk" /\ task.ptmr # Null => On(Mem, task.ptmr, Spoke(time)))'
        /\ (task.at = "callback" /\ task.next # Null => On(Mem, task.next, Spoke(time)))'
    <2>1. task.at = "callback" /\ task.next # Null => On(k, task.next, Spoke(time))
      BY DEF IInv, LinksOK, Same, On
    <2> QED
      BY <2>1 DEF On, Mem, Into
  <1>5. Ranked(Mem)'
    BY DEF Ranked, Ranks, Mem, Into
  <1> QED
    BY <1>1, <1>2, <1>3, <1>4, <1>5 DEF IInv, LinksOK

(* A timer that is in no list changes. *)
LEMMA OffList ==
  ASSUME NEW k, Linked(k), NEW n, NEW t, n.wheel = k.wheel,
         \A u \in Timers \ {t} : n.tmr[u] = k.tmr[u],
         k.tmr[t].state # "RUNNING", n.tmr[t].state # "RUNNING"
  PROVE  /\ Linked(n) /\ \A u, s : On(n, u, s) <=> On(k, u, s)
         /\ Ranked(k) => Ranked(n)
  <1>1. \A u, s : On(n, u, s) <=> On(k, u, s)
    BY DEF On
  <1>2. \A u, s : On(k, u, s) => n.tmr[u] = k.tmr[u]
    BY DEF On
  <1>3. \A s \in Spokes : n.wheel[s].first # Null =>
          On(n, n.wheel[s].first, s) /\ n.tmr[n.wheel[s].first].prev = Null
    BY <1>1, <1>2 DEF Linked
  <1>4. ASSUME NEW s \in Spokes, NEW u \in Timers, On(n, u, s)
        PROVE  /\ IF n.tmr[u].prev = Null THEN n.wheel[s].first = u
                  ELSE On(n, n.tmr[u].prev, s) /\ n.tmr[n.tmr[u].prev].next = u
               /\ n.tmr[u].next # Null =>
                    On(n, n.tmr[u].next, s) /\ n.tmr[n.tmr[u].next].prev = u
    <2>1. On(k, u, s) /\ n.tmr[u] = k.tmr[u]
      BY <1>1, <1>2, <1>4
    <2>2. /\ IF k.tmr[u].prev = Null THEN k.wheel[s].first = u
             ELSE On(k, k.tmr[u].prev, s) /\ k.tmr[k.tmr[u].prev].next = u
          /\ k.tmr[u].next # Null => On(k, k.tmr[u].next, s) /\ k.tmr[k.tmr[u].next].prev = u
      BY <2>1 DEF Linked
    <2> QED
      BY <2>1, <2>2, <1>1, <1>2
  <1>5. \A r : Ranks(k, r) => Ranks(n, r)
    BY DEF Ranks
  <1> QED
    BY <1>1, <1>3, <1>4, <1>5 DEF Linked, Ranked

LEMMA FreeOK ==
  ASSUME IInv, NEW k, Typed(k), Linked(k), Ranked(k), NEW t \in Timers, Same(k, t),
         k.tmr[t].state # "RUNNING", tmr[t].state # "UNUSED", OSTmr_Free(k, t), MayTouch(t),
         UNCHANGED <<time, signals, task>>
  PROVE  IInv'
  <1> DEFINE node == [k.tmr[t] EXCEPT !.state = "UNUSED", !.setting = NoSetting, !.match = 0,
                                      !.prev = Null, !.next = freeList]
             n    == [tmr |-> [k.tmr EXCEPT ![t] = node], wheel |-> k.wheel]
  <1>1. freeList \in Ptr /\ 0 \in 0 .. TimeRange - 1
    BY WheelAssumption DEF IInv, TypeOK
  <1>2. node \in TMR /\ node.state = "UNUSED" /\ node.next = freeList
    BY <1>1 DEF Typed, TMR, States, AllSettings, Ptr
  <1>3. tmr' = n.tmr /\ wheel' = n.wheel /\ freeList' = t /\ used' = used - 1
    BY DEF OSTmr_Free
  <1> HIDE DEF node
  <1>4. n.tmr[t] = node /\ \A u \in Timers \ {t} : n.tmr[u] = k.tmr[u]
    BY DEF Typed
  <1>5. Typed(n) /\ n.wheel = k.wheel
    BY <1>2 DEF Typed
  <1> HIDE DEF n
  <1>6. Linked(n) /\ Ranked(n) /\ \A u, s : On(n, u, s) <=> On(k, u, s)
    BY <1>2, <1>4, <1>5, OffList
  <1>7. TypeOK'
    BY <1>3, <1>5 DEF IInv, TypeOK, Typed, TMR, AllSettings, SPOKE, Ptr
  <1>8. Linked(Mem)'
    BY <1>3, <1>6 DEF Linked, Mem, On
  <1>9. FreeLinked'
    <2>1. \A u \in Timers \ {t} : /\ tmr'[u].state = "UNUSED" <=> tmr[u].state = "UNUSED"
                                  /\ tmr[u].state = "UNUSED" => tmr'[u].next = tmr[u].next
      BY <1>3, <1>4 DEF Same
    <2>2. tmr'[t].state = "UNUSED" /\ tmr'[t].next = freeList
      BY <1>2, <1>3, <1>4
    <2>3. FreeLinked
      BY DEF IInv, LinksOK
    <2> QED
      BY <2>1, <2>2, <2>3, <1>3, NullRange DEF FreeLinked, Unused
  <1>10. /\ (task.at = "walk" /\ task.ptmr # Null => On(Mem, task.ptmr, Spoke(time)))'
         /\ (task.at = "callback" /\ task.next # Null => On(Mem, task.next, Spoke(time)))'
    <2>1. task.at = "callback" /\ task.next # Null => On(n, task.next, Spoke(time))
      <3> SUFFICES ASSUME task.at = "callback", task.next # Null
                   PROVE  On(n, task.next, Spoke(time))
        OBVIOUS
      <3>1. On(Mem, task.next, Spoke(time)) /\ t # task.next
        BY DEF IInv, LinksOK, MayTouch
      <3>2. task.next \in Timers \ {t}
        BY <3>1 DEF On
      <3>3. On(k, task.next, Spoke(time))
        BY <3>1, <3>2 DEF Same
      <3> QED
        BY <3>3, <1>6
    <2> QED
      BY <2>1, <1>3 DEF On, Mem, MayTouch
  <1>11. Ranked(Mem)'
    BY <1>3, <1>6 DEF Ranked, Ranks, Mem
  <1> QED
    BY <1>7, <1>8, <1>9, <1>10, <1>11 DEF IInv, LinksOK

(***************************************************************************)
(* The services.                                                           *)
(***************************************************************************)
LEMMA CreateOK ==
  ASSUME IInv, NEW s \in Settings, OSTmrCreate(s) PROVE IInv'
  <1> DEFINE t    == freeList
             node == [tmr[t] EXCEPT !.state = "STOPPED", !.setting = s, !.next = Null,
                                    !.prev = Null]
             n    == [tmr |-> [tmr EXCEPT ![t] = node], wheel |-> wheel]
  <1>1. t \in Timers /\ tmr[t].state = "UNUSED"
    BY DEF OSTmrCreate, OSTmr_Alloc, IInv, LinksOK, FreeLinked, Unused
  <1>2. node \in TMR /\ node.state = "STOPPED"
    BY <1>1 DEF IInv, TypeOK, TMR, States, AllSettings, Ptr
  <1>3. tmr' = n.tmr /\ wheel' = n.wheel /\ freeList' = tmr[t].next /\ used' = used + 1
          /\ UNCHANGED <<time, signals, task>> /\ task.at # "walk"
    BY DEF OSTmrCreate, OSTmr_Alloc
  <1> HIDE DEF node
  <1>4. n.tmr[t] = node /\ \A u \in Timers \ {t} : n.tmr[u] = tmr[u]
    BY <1>1 DEF IInv, TypeOK
  <1>5. Typed(n) /\ n.wheel = wheel
    BY <1>2, MemTyped DEF Typed, Mem
  <1> HIDE DEF n
  <1>6. Linked(n) /\ Ranked(n) /\ \A u, m : On(n, u, m) <=> On(Mem, u, m)
    BY <1>1, <1>2, <1>4, <1>5, MemTyped, OffList DEF Mem
  <1>7. TypeOK'
    <2>1. tmr[t].next \in Ptr
      BY <1>1 DEF IInv, TypeOK
    <2> QED
      BY <2>1, <1>3, <1>5 DEF IInv, TypeOK, Typed, TMR, AllSettings, SPOKE
  <1>8. Linked(Mem)'
    BY <1>3, <1>6 DEF Linked, Mem, On
  <1>9. FreeLinked'
    <2>1. \A u \in Timers \ {t} : tmr'[u] = tmr[u]
      BY <1>3, <1>4
    <2>2. tmr'[t].state = "STOPPED"
      BY <1>2, <1>3, <1>4
    <2>3. FreeLinked
      BY DEF IInv, LinksOK
    <2> QED
      BY <2>1, <2>2, <2>3, <1>1, <1>3 DEF FreeLinked, Unused
  <1>10. /\ (task.at = "walk" /\ task.ptmr # Null => On(Mem, task.ptmr, Spoke(time)))'
         /\ (task.at = "callback" /\ task.next # Null => On(Mem, task.next, Spoke(time)))'
    <2>1. task.at = "callback" /\ task.next # Null => On(n, task.next, Spoke(time))
      BY <1>6 DEF IInv, LinksOK
    <2> QED
      BY <2>1, <1>3 DEF On, Mem
  <1>11. Ranked(Mem)'
    BY <1>3, <1>6 DEF Ranked, Ranks, Mem
  <1> QED
    BY <1>7, <1>8, <1>9, <1>10, <1>11 DEF IInv, LinksOK

LEMMA SameMem == \A t : Same(Mem, t)
  BY DEF Same, Mem

LEMMA DelOK ==
  ASSUME IInv, NEW t \in Timers, OSTmrDel(t) PROVE IInv'
  <1> DEFINE k == IF tmr[t].state = "RUNNING" THEN OSTmr_Unlink(Mem, t) ELSE Mem
  <1>1. Typed(k) /\ Linked(k) /\ Ranked(k) /\ Same(k, t) /\ k.tmr[t].state # "RUNNING"
    <2>1. Typed(Mem) /\ Linked(Mem) /\ Ranked(Mem)
      BY MemTyped
    <2>2. CASE tmr[t].state = "RUNNING"
      BY <2>1, <2>2, UnlinkOK, UnlinkRanked, UnlinkSame DEF Mem
    <2>3. CASE tmr[t].state # "RUNNING"
      BY <2>1, <2>3, SameMem DEF Mem
    <2> QED
      BY <2>2, <2>3
  <1>2. OSTmr_Free(k, t) /\ MayTouch(t) /\ tmr[t].state # "UNUSED"
          /\ UNCHANGED <<time, signals, task>>
    BY DEF OSTmrDel
  <1> HIDE DEF k
  <1> QED
    BY <1>1, <1>2, FreeOK

(* A timer that is in no list is linked. *)
LEMMA LinkSame ==
  ASSUME NEW k, Typed(k), Linked(k), Ranked(k), NEW t \in Timers, Same(k, t),
         NEW periodic \in BOOLEAN,
         k.tmr[t].state \notin {"UNUSED", "RUNNING"}, time \in 0 .. TimeRange - 1
  PROVE  /\ Typed(OSTmr_Link(k, t, periodic)) /\ Linked(OSTmr_Link(k, t, periodic))
         /\ Ranked(OSTmr_Link(k, t, periodic)) /\ Same(OSTmr_Link(k, t, periodic), t)
  <1>1. PICK m \in 0 .. TimeRange - 1 : OSTmr_Link(k, t, periodic) = AtHead(k, t, m)
    BY LinkIsHead
  <1> QED
    BY <1>1, LinkOK, LinkRanked, AtHeadSame

LEMMA StartOK ==
  ASSUME IInv, NEW t \in Timers, OSTmrStart(t) \/ OSTmrStop(t) PROVE IInv'
  <1> DEFINE off   == OSTmr_Unlink(Mem, t)
             again == OSTmr_Link(off, t, FALSE)
             anew  == OSTmr_Link(Mem, t, FALSE)
  <1>1. Typed(Mem) /\ Linked(Mem) /\ Ranked(Mem) /\ time \in 0 .. TimeRange - 1
    BY MemTyped
  <1>2. tmr[t].state = "RUNNING" =>
          Typed(off) /\ Linked(off) /\ Ranked(off) /\ Same(off, t) /\ off.tmr[t].state = "STOPPED"
    BY <1>1, UnlinkOK, UnlinkRanked, UnlinkSame DEF Mem
  <1>3. tmr[t].state = "RUNNING" => Typed(again) /\ Linked(again) /\ Ranked(again) /\ Same(again, t)
    <2> HIDE DEF off
    <2> QED
      BY <1>1, <1>2, LinkSame
  <1>4. tmr[t].state \in {"STOPPED", "COMPLETED"} =>
          Typed(anew) /\ Linked(anew) /\ Ranked(anew) /\ Same(anew, t)
    BY <1>1, SameMem, LinkSame DEF Mem
  <1>5. /\ MayTouch(t) /\ UNCHANGED <<freeList, used, time, signals, task>>
        /\ \/ tmr[t].state = "RUNNING" /\ (Into(off) \/ Into(again))
           \/ tmr[t].state \in {"STOPPED", "COMPLETED"} /\ Into(anew)
    BY DEF OSTmrStart, OSTmrStop
  <1> HIDE DEF off, again, anew
  <1>6. (task.at = "callback" => t # task.next) /\ (task.at = "walk" => task.ptmr = Null)
    BY <1>5 DEF MayTouch, IInv
  <1> QED
    BY <1>2, <1>3, <1>4, <1>5, <1>6, IntoOK

(***************************************************************************)
(* OSTmr_Task.                                                             *)
(***************************************************************************)
(* A step that changes neither the timers nor the lists. *)
LEMMA QuietOK ==
  ASSUME IInv, UNCHANGED <<tmr, wheel, freeList, used>>
  PROVE  Linked(Mem)' /\ FreeLinked' /\ Ranked(Mem)'
  BY DEF IInv, LinksOK, Linked, FreeLinked, Unused, Mem, On, Ranked, Ranks

LEMMA TickOK ==
  ASSUME IInv, OSTmr_Task_Tick PROVE IInv'
  <1>1. time' \in 0 .. TimeRange - 1
    BY ModRange, WheelAssumption DEF OSTmr_Task_Tick, IInv, TypeOK
  <1>2. Spoke(time') \in Spokes
    BY <1>1, SpokeRange
  <1>3. task' = [at |-> "walk", ptmr |-> wheel[Spoke(time')].first, next |-> Null]
          /\ UNCHANGED <<tmr, wheel, freeList, used>>
    BY DEF OSTmr_Task_Tick
  <1>4. wheel[Spoke(time')].first \in Ptr
    BY <1>2 DEF IInv, TypeOK
  <1>5. signals' \in 0 .. SignalMax
    BY SignalAssumption DEF OSTmr_Task_Tick, IInv, TypeOK
  <1>6. TypeOK'
    BY <1>1, <1>3, <1>4, <1>5 DEF IInv, TypeOK, Ptr
  <1>7. wheel[Spoke(time')].first # Null => On(Mem, wheel[Spoke(time')].first, Spoke(time'))
    BY <1>2 DEF IInv, LinksOK, Linked, Mem
  <1>8. (task.at = "walk" /\ task.ptmr # Null => On(Mem, task.ptmr, Spoke(time)))'
    BY <1>3, <1>7 DEF On, Mem
  <1>9. task'.at # "callback"
    BY <1>3
  <1> QED
    BY <1>3, <1>6, <1>8, <1>9, QuietOK DEF IInv, LinksOK

LEMMA LookOK ==
  ASSUME IInv, OSTmr_Task_Look PROVE IInv'
  <1> DEFINE t    == task.ptmr
             off  == OSTmr_Unlink(Mem, t)
             again == OSTmr_Link(off, t, TRUE)
             over == [off EXCEPT !.tmr[t].state = "COMPLETED"]
  <1>1. t \in Timers /\ tmr[t].state = "RUNNING" /\ Spoke(tmr[t].match) = Spoke(time)
    BY DEF OSTmr_Task_Look, IInv, LinksOK, On, Mem
  <1>2. tmr[t].next # Null => On(Mem, tmr[t].next, Spoke(time))
    <2>1. Spoke(time) \in Spokes
      BY SpokeRange, MemTyped
    <2> QED
      BY <1>1, <2>1 DEF IInv, LinksOK, Linked, Mem, On
  <1>3. tmr[t].next \in Ptr
    BY <1>1 DEF IInv, TypeOK, TMR
  <1>4. CASE time # tmr[t].match
    <2>1. task' = [task EXCEPT !.ptmr = tmr[t].next] /\ task.at = "walk"
            /\ UNCHANGED <<tmr, wheel, freeList, used, time, signals>>
      BY <1>4 DEF OSTmr_Task_Look
    <2>2. TypeOK'
      BY <1>3, <2>1 DEF IInv, TypeOK
    <2>3. task'.at = "walk" /\ task'.ptmr = tmr[t].next
      BY <2>1 DEF IInv, TypeOK
    <2>4. (task.at = "walk" /\ task.ptmr # Null => On(Mem, task.ptmr, Spoke(time)))'
      BY <1>2, <2>1, <2>3 DEF On, Mem
    <2> QED
      BY <2>1, <2>2, <2>3, <2>4, QuietOK DEF IInv, LinksOK
  <1>5. CASE time = tmr[t].match
    <2> DEFINE k == IF tmr[t].setting.periodic THEN again ELSE over
    <2>1. Typed(Mem) /\ Linked(Mem) /\ Ranked(Mem) /\ time \in 0 .. TimeRange - 1
      BY MemTyped
    <2>2. Typed(off) /\ Linked(off) /\ Ranked(off) /\ Same(off, t) /\ off.tmr[t].state = "STOPPED"
      BY <1>1, <2>1, UnlinkOK, UnlinkRanked, UnlinkSame DEF Mem
    <2>3. Typed(again) /\ Linked(again) /\ Ranked(again) /\ Same(again, t)
      <3> HIDE DEF off
      <3> QED
        BY <1>1, <2>1, <2>2, LinkSame
    <2>4. Typed(over) /\ Linked(over) /\ Ranked(over) /\ Same(over, t)
      <3>1. over.wheel = off.wheel /\ over.tmr = [off.tmr EXCEPT ![t].state = "COMPLETED"]
        BY DEF OSTmr_Unlink
      <3> HIDE DEF off, over
      <3>2. over.tmr \in [Timers -> TMR] /\ over.tmr[t].state = "COMPLETED"
              /\ \A u \in Timers \ {t} : over.tmr[u] = off.tmr[u]
        BY <1>1, <2>2, <3>1 DEF Typed, TMR, States
      <3>3. Typed(over)
        BY <2>2, <3>1, <3>2 DEF Typed
      <3>4. Linked(over) /\ Ranked(over) /\ \A u, s : On(over, u, s) <=> On(off, u, s)
        BY <2>2, <3>1, <3>2, OffList
      <3>5. Same(over, t)
        BY <1>1, <2>2, <3>2, <3>4 DEF Same
      <3> QED
        BY <3>3, <3>4, <3>5
    <2>5. Into(k) /\ task' = [task EXCEPT !.at = "callback", !.next = tmr[t].next]
            /\ UNCHANGED <<freeList, used, time, signals>>
      BY <1>5 DEF OSTmr_Task_Look
    <2>6. Typed(k) /\ Linked(k) /\ Ranked(k) /\ Same(k, t)
      BY <2>3, <2>4
    <2> HIDE DEF k, off, again, over
    <2>7. task'.at = "callback" /\ task'.next = tmr[t].next /\ task'.ptmr = t
      BY <2>5 DEF IInv, TypeOK
    <2>8. task' \in [at : {"pend", "walk", "callback"}, ptmr : Ptr, next : Ptr]
      BY <2>5, <1>3 DEF IInv, TypeOK
    <2>9. TypeOK'
      BY <2>5, <2>6, <2>8 DEF IInv, TypeOK, Typed, Into, TMR, AllSettings, SPOKE
    <2>10. Linked(Mem)'
      BY <2>5, <2>6 DEF Linked, Mem, On, Into
    <2>11. FreeLinked'
      BY <2>5, <2>6 DEF IInv, LinksOK, FreeLinked, Unused, Into, Same
    <2>12. tmr[t].next # t
      <3>1. PICK r : Ranks(Mem, r)
        BY <2>1 DEF Ranked
      <3> QED
        BY <3>1, <1>1, NullRange DEF Ranks, Mem
    <2>13. (task.at = "callback" /\ task.next # Null => On(Mem, task.next, Spoke(time)))'
      <3>1. tmr[t].next # Null => On(k, tmr[t].next, Spoke(time))
        BY <1>2, <2>6, <2>12 DEF Same, On
      <3> QED
        BY <3>1, <2>5, <2>7 DEF On, Mem, Into
    <2>14. Ranked(Mem)'
      BY <2>5, <2>6 DEF Ranked, Ranks, Mem, Into
    <2> QED
      BY <2>7, <2>9, <2>10, <2>11, <2>13, <2>14 DEF IInv, LinksOK
  <1> QED
    BY <1>4, <1>5

LEMMA WalkOK ==
  ASSUME IInv, OSTmr_Task_CallbackReturns \/ OSTmr_Task_Unlock \/ OSTmrSignal \/ UNCHANGED vars
  PROVE  IInv'
  <1>1. UNCHANGED <<tmr, wheel, freeList, used, time>> /\ signals' \in 0 .. SignalMax
    BY SignalAssumption
      DEF OSTmr_Task_CallbackReturns, OSTmr_Task_Unlock, OSTmrSignal, vars, IInv, TypeOK
  <1>2. CASE OSTmr_Task_CallbackReturns
    <2>1. task' = [at |-> "walk", ptmr |-> task.next, next |-> Null] /\ task.at = "callback"
      BY <1>2 DEF OSTmr_Task_CallbackReturns
    <2>2. TypeOK'
      BY <1>1, <2>1 DEF IInv, TypeOK, Ptr
    <2> QED
      BY <1>1, <2>1, <2>2, QuietOK DEF IInv, LinksOK, On, Mem
  <1>3. CASE OSTmr_Task_Unlock
    <2>1. task' = [task EXCEPT !.at = "pend"]
      BY <1>3 DEF OSTmr_Task_Unlock
    <2>2. TypeOK' /\ task'.at = "pend"
      BY <1>1, <2>1 DEF IInv, TypeOK
    <2> QED
      BY <1>1, <2>2, QuietOK DEF IInv, LinksOK
  <1>4. CASE OSTmrSignal \/ UNCHANGED vars
    <2>1. task' = task
      BY <1>4 DEF OSTmrSignal, vars
    <2>2. TypeOK'
      BY <1>1, <2>1 DEF IInv, TypeOK
    <2> QED
      BY <1>1, <2>1, <2>2, QuietOK DEF IInv, LinksOK, On, Mem
  <1> QED
    BY <1>2, <1>3, <1>4

LEMMA InitOK ==
  ASSUME Init, ~CallbackTouchesNext PROVE IInv
  <1>1. 0 \in Timers /\ 0 \in 0 .. TimeRange - 1
    BY WheelAssumption DEF Timers
  <1>2. \A t \in Timers :
          [state |-> "UNUSED", setting |-> NoSetting, match |-> 0, prev |-> Null,
           next |-> IF t + 1 \in Timers THEN t + 1 ELSE Null]
            \in [state : States, setting : Settings \cup {NoSetting},
                 match : 0 .. TimeRange - 1, prev : Ptr, next : Ptr]
    BY <1>1 DEF States, Ptr
  <1>3. TypeOK
    BY <1>1, <1>2, SignalAssumption DEF Init, OSTmr_Init, OSTmr_InitTask, TypeOK, Ptr
  <1>4. /\ \A t \in Timers : /\ tmr[t].state = "UNUSED"
                             /\ tmr[t].next = IF t + 1 \in Timers THEN t + 1 ELSE Null
        /\ \A s \in Spokes : wheel[s].first = Null
        /\ freeList = 0 /\ task.at = "pend"
    BY DEF Init, OSTmr_Init, OSTmr_InitTask
  <1>5. Linked(Mem)
    BY <1>4 DEF Linked, On, Mem
  <1>6. FreeLinked
    <2>1. \A t \in Timers : t \in Nat
      BY DEF Timers
    <2> QED
      BY <1>1, <1>4, <2>1, NullRange DEF FreeLinked, Unused
  <1>7. Ranked(Mem)
    <2>1. Ranks(Mem, [t \in Timers |-> 0])
      BY <1>4 DEF Ranks, Mem
    <2> QED
      BY <2>1 DEF Ranked
  <1> QED
    BY <1>3, <1>4, <1>5, <1>6, <1>7 DEF IInv, LinksOK

LEMMA NextOK ==
  ASSUME IInv, [Next]_vars PROVE IInv'
  BY CreateOK, DelOK, StartOK, TickOK, LookOK, WalkOK DEF Next, OSTmr_Task

(***************************************************************************)
(* Timers, lists, time and the task's variables keep their types: the time *)
(* wraps inside its range and no timer gets a match time outside of it     *)
(* (OSTmr_Task, OSTmr_Link).  Here and below callbacks leave the timer the *)
(* walk goes on with alone.                                                *)
(***************************************************************************)
THEOREM TypeCorrect ==
  ASSUME ~CallbackTouchesNext PROVE Spec => []TypeOK
  <1>1. Init => IInv
    BY InitOK
  <1>2. IInv /\ [Next]_vars => IInv'
    BY NextOK
  <1>3. IInv => TypeOK
    BY DEF IInv
  <1> QED
    BY <1>1, <1>2, <1>3, PTL DEF Spec

(***************************************************************************)
(* The doubly linked lists of the wheel and the free list stay intact, and *)
(* the walk of OSTmr_Task continues in the spoke it began in, while its    *)
(* callbacks create, delete, start or stop any timers but the one the walk *)
(* goes on with (OSTmr_Unlink, OSTmr_Task).  Without that exception it is  *)
(* false, see StoppedStaysOff.                                             *)
(***************************************************************************)
THEOREM LinksHold ==
  ASSUME ~CallbackTouchesNext PROVE Spec => []LinksOK
  <1>1. Init => IInv
    BY InitOK
  <1>2. IInv /\ [Next]_vars => IInv'
    BY NextOK
  <1>3. IInv => LinksOK
    BY DEF IInv
  <1> QED
    BY <1>1, <1>2, <1>3, PTL DEF Spec

(***************************************************************************)
(* No list of the wheel ever runs in a circle, so that each walk over the  *)
(* links of a spoke is finite (OSTmr_Link, OSTmr_Unlink).                  *)
(***************************************************************************)
THEOREM NoCircle ==
  ASSUME ~CallbackTouchesNext PROVE Spec => []Ranked(Mem)
  <1>1. Init => IInv
    BY InitOK
  <1>2. IInv /\ [Next]_vars => IInv'
    BY NextOK
  <1>3. IInv => Ranked(Mem)
    BY DEF IInv
  <1> QED
    BY <1>1, <1>2, <1>3, PTL DEF Spec

(***************************************************************************)
(* Lists as orders.  The timers S are, linked by next of T from head h to  *)
(* a null pointer, in the order of their ranks r.                          *)
(***************************************************************************)
Sorted(T, S, h, r) ==
  /\ h = Null <=> S = {}
  /\ h # Null => h \in S /\ \A t \in S : r[h] <= r[t]
  /\ \A t \in S : T[t].next # Null => T[t].next \in S /\ r[t] < r[T[t].next]
  /\ \A t, u \in S : r[t] < r[u] => T[t].next # Null /\ r[T[t].next] <= r[u]
  /\ \A t, u \in S : r[t] = r[u] => t = u

LEMMA SortedSame ==
  ASSUME NEW T, NEW V, NEW S, NEW h, NEW r, NEW q, Sorted(T, S, h, r),
         \A t \in S : V[t].next = T[t].next /\ q[t] = r[t]
  PROVE  Sorted(V, S, h, q)
  BY DEF Sorted

(* A timer is put in front. *)
LEMMA SortedPush ==
  ASSUME NEW T, NEW V, NEW S, S \subseteq Timers, NEW h, NEW r \in [Timers -> Int], Sorted(T, S, h, r),
         NEW t \in Timers \ S, NEW q \in [Timers -> Int], V[t].next = h,
         h # Null => q[t] < r[h],
         \A u \in S : V[u].next = T[u].next /\ q[u] = r[u]
  PROVE  Sorted(V, S \cup {t}, t, q)
  <1>1. t # Null
    BY NullRange
  <1>2. \A u \in S : r[u] \in Int /\ q[u] \in Int /\ q[t] \in Int /\ u # t
    OBVIOUS
  <1>3. \A u \in S : q[t] < q[u]
    BY <1>2 DEF Sorted
  <1>4. \A u \in S \cup {t} : q[t] <= q[u]
    BY <1>2, <1>3
  <1>5. ASSUME NEW u \in S \cup {t}, V[u].next # Null
        PROVE  V[u].next \in S \cup {t} /\ q[u] < q[V[u].next]
    <2>1. CASE u = t
      BY <1>5, <2>1 DEF Sorted
    <2>2. CASE u \in S
      BY <1>5, <2>2 DEF Sorted
    <2> QED
      BY <2>1, <2>2
  <1>6. ASSUME NEW u \in S \cup {t}, NEW v \in S \cup {t}, q[u] < q[v]
        PROVE  V[u].next # Null /\ q[V[u].next] <= q[v]
    <2>1. v \in S
      BY <1>2, <1>3, <1>6
    <2>2. CASE u = t
      BY <2>1, <2>2 DEF Sorted
    <2>3. CASE u \in S
      <3>1. r[u] < r[v]
        BY <1>6, <2>1, <2>3
      <3> QED
        BY <2>1, <2>3, <3>1 DEF Sorted
    <2> QED
      BY <2>2, <2>3
  <1>7. \A u, v \in S \cup {t} : q[u] = q[v] => u = v
    BY <1>2, <1>3 DEF Sorted
  <1> QED
    BY <1>1, <1>4, <1>5, <1>6, <1>7 DEF Sorted

(* A timer is taken out. *)
LEMMA SortedTake ==
  ASSUME NEW T, NEW V, NEW S, S \subseteq Timers, NEW h, NEW r \in [Timers -> Int], Sorted(T, S, h, r),
         NEW t \in S,
         \A u \in S \ {t} : V[u].next = IF T[u].next = t THEN T[t].next ELSE T[u].next
  PROVE  Sorted(V, S \ {t}, IF h = t THEN T[t].next ELSE h, r)
  <1> DEFINE M == S \ {t}
             n == T[t].next
             g == IF h = t THEN n ELSE h
  <1>1. \A u \in S : r[u] \in Int /\ u # Null
    BY NullRange
  <1>2. \A u \in S : r[t] = r[u] => u = t
    BY DEF Sorted
  <1>3. n # Null => n \in M /\ r[t] < r[n]
    BY <1>1 DEF Sorted
  <1>4. \A u \in M : r[t] < r[u] => n # Null /\ r[n] <= r[u]
    BY DEF Sorted
  <1>5. h \in S /\ \A u \in S : r[h] <= r[u]
    BY DEF Sorted
  <1>6. ASSUME g # Null PROVE g \in M /\ \A u \in M : r[g] <= r[u]
    <2>1. CASE h = t
      <3>1. \A u \in M : r[t] < r[u]
        BY <1>1, <1>2, <1>5, <2>1
      <3> QED
        BY <1>3, <1>4, <1>6, <2>1, <3>1
    <2>2. CASE h # t
      BY <1>5, <2>2
    <2> QED
      BY <2>1, <2>2
  <1>7. ASSUME g = Null PROVE M = {}
    <2>1. h = t
      BY <1>1, <1>5, <1>7
    <2>2. \A u \in M : r[t] < r[u]
      BY <1>1, <1>2, <1>5, <2>1
    <2> QED
      BY <1>4, <1>7, <2>1, <2>2
  <1>8. ASSUME NEW u \in M, V[u].next # Null
        PROVE  V[u].next \in M /\ r[u] < r[V[u].next]
    <2>1. CASE T[u].next = t
      <3>1. V[u].next = n /\ r[u] < r[t]
        BY <1>1, <2>1 DEF Sorted
      <3> QED
        BY <1>1, <1>3, <1>8, <3>1
    <2>2. CASE T[u].next # t
      <3>1. V[u].next = T[u].next
        BY <2>2
      <3> QED
        BY <1>8, <2>2, <3>1 DEF Sorted
    <2> QED
      BY <2>1, <2>2
  <1>9. ASSUME NEW u \in M, NEW v \in M, r[u] < r[v]
        PROVE  V[u].next # Null /\ r[V[u].next] <= r[v]
    <2>1. T[u].next # Null /\ r[T[u].next] <= r[v]
      BY <1>9 DEF Sorted
    <2>2. CASE T[u].next = t
      <3>1. V[u].next = n /\ r[t] < r[v]
        BY <1>1, <1>2, <2>1, <2>2
      <3> QED
        BY <1>4, <3>1
    <2>3. CASE T[u].next # t
      BY <2>1, <2>3
    <2> QED
      BY <2>2, <2>3
  <1>10. \A u, v \in M : r[u] = r[v] => u = v
    BY DEF Sorted
  <1>11. g = Null <=> M = {}
    BY <1>6, <1>7
  <1> HIDE DEF M, g
  <1>12. Sorted(V, M, g, r)
    BY <1>6, <1>8, <1>9, <1>10, <1>11 DEF Sorted
  <1> QED
    BY <1>12 DEF M, g

(***************************************************************************)
(* After follows the links: its recursion has a solution.                  *)
(***************************************************************************)
LEMMA Least ==
  ASSUME NEW T, T \subseteq Nat, T # {} PROVE \E x \in T : \A y \in T : x <= y
  <1> DEFINE R == OpToRel(<, Nat)
  <1>1. IsWellFoundedOn(R, Nat)
    BY NatLessThanWellFounded
  <1>2. \A x, y \in Nat : y < x => <<y, x>> \in R
    BY Zenon DEF OpToRel
  <1> HIDE DEF R
  <1>3. PICK x \in T : \A y \in T : ~ (<<y, x>> \in R)
    BY <1>1, WFMin
  <1>4. \A y \in T : ~ (y < x)
    BY <1>2, <1>3, Zenon
  <1>5. x \in Nat /\ \A y \in T : y \in Nat
    OBVIOUS
  <1> QED
    BY <1>4, <1>5

Follow(p) == IF p = Null THEN Null ELSE tmr[p].next

LEMMA PathExists ==
  ASSUME NEW head, NEW m \in Nat
  PROVE  \E g : g = [n \in 0 .. m |-> IF n = 0 THEN head ELSE Follow(g[n - 1])]
  <1> DEFINE P(k) == \E g : g = [n \in 0 .. k |-> IF n = 0 THEN head ELSE Follow(g[n - 1])]
             T == {k \in Nat : ~P(k)}
  <1>1. P(0)
    <2> DEFINE g == [n \in 0 .. 0 |-> head]
    <2>1. \A n \in 0 .. 0 : n = 0
      OBVIOUS
    <2>2. g = [n \in 0 .. 0 |-> IF n = 0 THEN head ELSE Follow(g[n - 1])]
      BY <2>1
    <2> QED
      BY <2>2
  <1>2. ASSUME NEW k \in Nat, P(k) PROVE P(k + 1)
    <2> HIDE DEF P
    <2>1. PICK f : f = [n \in 0 .. k |-> IF n = 0 THEN head ELSE Follow(f[n - 1])]
      BY <1>2 DEF P
    <2> DEFINE g == [n \in 0 .. k + 1 |-> IF n = k + 1 THEN Follow(f[k]) ELSE f[n]]
    <2>2. \A n \in 0 .. k + 1 : n # 0 => n - 1 \in 0 .. k /\ n - 1 # k + 1 /\ n - 1 \in 0 .. k + 1
      OBVIOUS
    <2>3. \A n \in 0 .. k : n # k + 1 /\ n \in 0 .. k + 1
      OBVIOUS
    <2>4. \A n \in 0 .. k : f[n] = IF n = 0 THEN head ELSE Follow(f[n - 1])
      BY <2>1
    <2>5. \A n \in 0 .. k : g[n] = f[n]
      BY <2>3
    <2>6. k + 1 # 0 /\ k + 1 \in 0 .. k + 1 /\ k \in 0 .. k /\ k + 1 - 1 = k
      OBVIOUS
    <2>7. g[k + 1] = Follow(f[k])
      BY <2>6
    <2>8. ASSUME NEW n \in 0 .. k + 1
          PROVE  g[n] = IF n = 0 THEN head ELSE Follow(g[n - 1])
      <3> HIDE DEF g
      <3>1. CASE n = k + 1
        BY <2>5, <2>6, <2>7, <3>1
      <3>2. CASE n # k + 1
        <4>1. n \in 0 .. k
          BY <3>2
        <4>2. n # 0 => n - 1 \in 0 .. k
          BY <2>2
        <4> QED
          BY <2>4, <2>5, <4>1, <4>2
      <3> QED
        BY <3>1, <3>2
    <2>9. g = [n \in 0 .. k + 1 |-> g[n]]
      OBVIOUS
    <2> HIDE DEF g
    <2>10. g = [n \in 0 .. k + 1 |-> IF n = 0 THEN head ELSE Follow(g[n - 1])]
      BY <2>8, <2>9
    <2> QED
      BY <2>10 DEF P
  <1> HIDE DEF P
  <1>3. ASSUME T # {} PROVE FALSE
    <2>1. T \subseteq Nat
      OBVIOUS
    <2>2. PICK k \in T : \A j \in T : k <= j
      BY <1>3, <2>1, Least
    <2>3. k # 0
      BY <1>1
    <2>4. k - 1 \in Nat /\ ~(k <= k - 1) /\ (k - 1) + 1 = k
      BY <2>3
    <2>5. P(k - 1)
      BY <2>2, <2>4
    <2>6. P((k - 1) + 1)
      BY <1>2, <2>4, <2>5
    <2> QED
      BY <2>4, <2>6
  <1>4. P(m)
    BY <1>3
  <1> QED
    BY <1>4 DEF P

LEMMA AfterIs ==
  ASSUME NEW head
  PROVE  /\ After(head)[0] = head
         /\ \A n \in 1 .. OS_TMR_CFG_MAX : After(head)[n] = Follow(After(head)[n - 1])
  <1> DEFINE Path(g) == g = [n \in 0 .. OS_TMR_CFG_MAX |-> IF n = 0 THEN head ELSE Follow(g[n - 1])]
  <1>1. OS_TMR_CFG_MAX \in Nat
    BY WheelAssumption
  <1>2. \E g : Path(g)
    BY <1>1, PathExists
  <1>3. After(head) = CHOOSE g : Path(g)
    BY DEF After, Follow
  <1>4. Path(After(head))
    <2> HIDE DEF Path
    <2> QED
      BY <1>2, <1>3
  <1> DEFINE f == After(head)
  <1> HIDE DEF f
  <1>5. f = [n \in 0 .. OS_TMR_CFG_MAX |-> IF n = 0 THEN head ELSE Follow(f[n - 1])]
    BY <1>4 DEF f
  <1>6. \A n \in 1 .. OS_TMR_CFG_MAX : n \in 0 .. OS_TMR_CFG_MAX /\ n # 0
    OBVIOUS
  <1>7. 0 \in 0 .. OS_TMR_CFG_MAX
    BY <1>1
  <1>8. f[0] = head /\ \A n \in 1 .. OS_TMR_CFG_MAX : f[n] = Follow(f[n - 1])
    BY <1>5, <1>6, <1>7
  <1> QED
    BY <1>8 DEF f

LEMMA Induct ==
  ASSUME NEW T, 0 \in T, \A k \in Nat : k \in T => k + 1 \in T PROVE \A k \in Nat : k \in T
  <1> DEFINE B == {k \in Nat : k \notin T}
  <1>1. ASSUME B # {} PROVE FALSE
    <2>1. PICK k \in B : \A j \in B : k <= j
      BY <1>1, Least
    <2>2. k # 0 /\ k - 1 \in Nat /\ ~(k <= k - 1) /\ (k - 1) + 1 = k
      BY <2>1
    <2> QED
      BY <2>1, <2>2
  <1> QED
    BY <1>1

(***************************************************************************)
(* A sorted list leads to all of its timers and ends.                      *)
(***************************************************************************)
LEMMA SortedChain ==
  ASSUME NEW S, S \subseteq Timers, NEW h, NEW r \in [Timers -> Int], Sorted(tmr, S, h, r)
  PROVE  Chain(h) = S /\ Ends(h)
  <1> DEFINE f == After(h)
             M == OS_TMR_CFG_MAX
  <1>1. M \in Nat /\ Null \notin Timers
    BY WheelAssumption, NullRange
  <1>2. f[0] = h /\ \A n \in 1 .. M : f[n] = Follow(f[n - 1])
    BY AfterIs
  <1> HIDE DEF f
  <1>3. \A u \in S : r[u] \in Int /\ u # Null
    BY <1>1
  <1>4. ASSUME NEW n \in Nat, n + 1 <= M
        PROVE  f[n + 1] = IF f[n] = Null THEN Null ELSE tmr[f[n]].next
    <2>1. n + 1 \in 1 .. M /\ (n + 1) - 1 = n
      BY <1>1, <1>4
    <2> QED
      BY <1>2, <2>1 DEF Follow
  <1>5. \A n \in 0 .. M : f[n] \in S \cup {Null}
    <2> DEFINE T == {n \in Nat : n <= M => f[n] \in S \cup {Null}}
    <2>1. 0 \in T
      BY <1>2 DEF Sorted
    <2>2. ASSUME NEW n \in Nat, n \in T PROVE n + 1 \in T
      <3> SUFFICES ASSUME n + 1 <= M PROVE f[n + 1] \in S \cup {Null}
        OBVIOUS
      <3>1. f[n] \in S \cup {Null} /\ f[n + 1] = IF f[n] = Null THEN Null ELSE tmr[f[n]].next
        BY <1>1, <1>4, <2>2
      <3> QED
        BY <3>1 DEF Sorted
    <2> HIDE DEF T
    <2>3. \A n \in Nat : n \in T
      BY <2>1, <2>2, Induct
    <2> QED
      BY <2>3 DEF T
  <1>6. ASSUME f[M] # Null PROVE FALSE
    (* Then the steps are all different. *)
    <2> DEFINE T == {n \in Nat : n <= M => f[M - n] # Null}
    <2>1. 0 \in T
      BY <1>1, <1>6
    <2>2. ASSUME NEW n \in Nat, n \in T PROVE n + 1 \in T
      <3> SUFFICES ASSUME n + 1 <= M, f[M - (n + 1)] = Null PROVE FALSE
        OBVIOUS
      <3>1. M - (n + 1) \in Nat /\ (M - (n + 1)) + 1 = M - n /\ M - n <= M /\ n <= M
        BY <1>1
      <3> QED
        BY <1>4, <2>2, <3>1
    <2>3. \A n \in Nat : n \in T
      <3> HIDE DEF T
      <3> QED
        BY <2>1, <2>2, Induct
    <2>4. ASSUME NEW n \in 0 .. M PROVE f[n] \in S
      <3>1. M - n \in Nat /\ M - n <= M /\ M - (M - n) = n
        BY <1>1
      <3> QED
        BY <1>5, <2>3, <3>1
    <2> HIDE DEF T
    <2> DEFINE U == {n \in Nat : n <= M => \A i \in 0 .. n - 1 : r[f[i]] < r[f[n]]}
    <2>5. 0 \in U
      OBVIOUS
    <2>6. ASSUME NEW n \in Nat, n \in U PROVE n + 1 \in U
      <3> SUFFICES ASSUME n + 1 <= M, NEW i \in 0 .. (n + 1) - 1 PROVE r[f[i]] < r[f[n + 1]]
        OBVIOUS
      <3>1. n \in 0 .. M /\ n + 1 \in 0 .. M /\ i \in 0 .. M /\ (i = n \/ i \in 0 .. n - 1) /\ n <= M
        BY <1>1
      <3>2. f[n] \in S /\ f[n + 1] \in S /\ f[i] \in S
        BY <2>4, <3>1
      <3>3. f[n + 1] = tmr[f[n]].next
        BY <1>3, <1>4, <3>2
      <3>4. r[f[n]] < r[f[n + 1]]
        BY <1>3, <3>2, <3>3 DEF Sorted
      <3>5. i \in 0 .. n - 1 => r[f[i]] < r[f[n]]
        BY <2>6, <3>1
      <3> QED
        BY <1>3, <3>1, <3>2, <3>4, <3>5
    <2>7. \A n \in Nat : n \in U
      <3> HIDE DEF U
      <3> QED
        BY <2>5, <2>6, Induct
    <2>8. \A n \in 0 .. M : \A i \in 0 .. n - 1 : r[f[i]] < r[f[n]]
      BY <1>1, <2>7
    <2> HIDE DEF U
    <2>9. \A i, j \in 0 .. M : i # j => f[i] # f[j]
      <3> SUFFICES ASSUME NEW i \in 0 .. M, NEW j \in 0 .. M, i # j PROVE f[i] # f[j]
        OBVIOUS
      <3>1. i \in 0 .. j - 1 \/ j \in 0 .. i - 1
        OBVIOUS
      <3>2. r[f[i]] < r[f[j]] \/ r[f[j]] < r[f[i]]
        BY <2>8, <3>1
      <3>3. r[f[i]] \in Int /\ r[f[j]] \in Int
        BY <1>3, <2>4
      <3> QED
        BY <3>2, <3>3
    <2> DEFINE g == [n \in 0 .. M |-> f[n]]
    <2>10. g \in [0 .. M -> Timers]
      BY <2>4
    <2>11. IsFiniteSet(0 .. M) /\ Cardinality(0 .. M) = M + 1
      BY <1>1, FS_Interval
    <2>12. IsFiniteSet(Timers) /\ Cardinality(Timers) = M
      <3>1. 0 .. M - 1 = Timers
        BY DEF Timers
      <3>2. M - 1 \in Int /\ 0 \in Int
        BY <1>1
      <3>3. IsFiniteSet(0 .. M - 1) /\ Cardinality(0 .. M - 1) = IF 0 > M - 1 THEN 0 ELSE (M - 1) - 0 + 1
        BY <3>2, FS_Interval
      <3> QED
        BY <1>1, <3>1, <3>3
    <2>13. Cardinality(Timers) < Cardinality(0 .. M)
      BY <1>1, <2>11, <2>12
    <2>14. \E x, y \in 0 .. M : x # y /\ g[x] = g[y]
      <3> DEFINE A == 0 .. M
      <3>1. IsFiniteSet(A) /\ IsFiniteSet(Timers) /\ Cardinality(Timers) < Cardinality(A) /\ g \in [A -> Timers]
        BY <2>10, <2>11, <2>12, <2>13
      <3> HIDE DEF g, A
      <3>2. \E x, y \in A : x # y /\ g[x] = g[y]
        BY <3>1, FS_PigeonHole
      <3> QED
        BY <3>2 DEF A
    <2> QED
      BY <2>9, <2>14
  <1>7. ASSUME NEW u \in S PROVE \E n \in 0 .. M : f[n] = u
    <2> SUFFICES ASSUME \A n \in 0 .. M : f[n] # u PROVE FALSE
      OBVIOUS
    <2> DEFINE T == {n \in Nat : n <= M => f[n] # Null /\ r[f[n]] < r[u]}
    <2>1. 0 \in T
      <3>1. h # Null /\ h \in S /\ r[h] <= r[u]
        BY DEF Sorted
      <3>2. h # u
        BY <1>1, <1>2
      <3>3. r[h] # r[u]
        BY <3>1, <3>2 DEF Sorted
      <3>4. r[h] < r[u]
        BY <1>3, <3>1, <3>3
      <3> QED
        BY <1>2, <3>1, <3>4
    <2>2. ASSUME NEW n \in Nat, n \in T PROVE n + 1 \in T
      <3> SUFFICES ASSUME n + 1 <= M PROVE f[n + 1] # Null /\ r[f[n + 1]] < r[u]
        OBVIOUS
      <3>1. n \in 0 .. M /\ n + 1 \in 0 .. M /\ n <= M
        BY <1>1
      <3>2. f[n] \in S /\ f[n] # Null /\ r[f[n]] < r[u]
        BY <1>5, <2>2, <3>1
      <3>3. f[n + 1] = tmr[f[n]].next
        BY <1>4, <3>2
      <3>4. f[n + 1] # Null /\ r[f[n + 1]] <= r[u]
        BY <3>2, <3>3 DEF Sorted
      <3>5. f[n + 1] \in S /\ f[n + 1] # u
        BY <1>5, <3>1, <3>4
      <3>6. r[f[n + 1]] # r[u]
        BY <3>5 DEF Sorted
      <3> QED
        BY <1>3, <3>4, <3>5, <3>6
    <2> HIDE DEF T
    <2>3. \A n \in Nat : n \in T
      BY <2>1, <2>2, Induct
    <2>4. f[M] # Null
      BY <1>1, <2>3 DEF T
    <2> QED
      BY <1>6, <2>4
  <1>8. {f[n] : n \in 0 .. M} \ {Null} = S
    BY <1>3, <1>5, <1>7
  <1> QED
    BY <1>6, <1>8 DEF Chain, Ends, f

(***************************************************************************)
(* The lists of the wheel and the free list are sorted, and counted.       *)
(***************************************************************************)
OnSpoke(k, s) == {t \in Timers : On(k, t, s)}
UnusedIn(k)   == {t \in Timers : k.tmr[t].state = "UNUSED"}

Order(k, free, r) ==
  /\ r \in [Timers -> Int]
  /\ \A s \in Spokes : Sorted(k.tmr, OnSpoke(k, s), k.wheel[s].first, r)
  /\ Sorted(k.tmr, UnusedIn(k), free, r)

Counts(k, n) ==
  /\ \A s \in Spokes : k.wheel[s].entries = Cardinality(OnSpoke(k, s))
  /\ n = OS_TMR_CFG_MAX - Cardinality(UnusedIn(k))

LEMMA TimersFinite ==
  /\ IsFiniteSet(Timers) /\ Cardinality(Timers) = OS_TMR_CFG_MAX
  /\ \A S \in SUBSET Timers : IsFiniteSet(S) /\ Cardinality(S) \in Nat
  <1>1. OS_TMR_CFG_MAX \in Nat \ {0}
    BY WheelAssumption
  <1> DEFINE n == OS_TMR_CFG_MAX - 1
  <1>2. n \in Int /\ 0 \in Int
    BY <1>1
  <1> HIDE DEF n
  <1>3. IsFiniteSet(0 .. n) /\ Cardinality(0 .. n) = IF 0 > n THEN 0 ELSE n - 0 + 1
    BY <1>2, FS_Interval
  <1>4. 0 .. n = Timers
    BY DEF Timers, n
  <1>5. IsFiniteSet(Timers) /\ Cardinality(Timers) = OS_TMR_CFG_MAX
    BY <1>1, <1>3, <1>4 DEF n
  <1>6. ASSUME NEW S \in SUBSET Timers PROVE IsFiniteSet(S) /\ Cardinality(S) \in Nat
    BY <1>5, FS_Subset, FS_CardinalityType
  <1> QED
    BY <1>5, <1>6

LEMMA OneMore ==
  ASSUME NEW S \in SUBSET Timers, NEW t, t \notin S
  PROVE  Cardinality(S \cup {t}) = Cardinality(S) + 1
  BY TimersFinite, FS_AddElement

LEMMA OneLess ==
  ASSUME NEW S \in SUBSET Timers, NEW t, t \in S
  PROVE  Cardinality(S \ {t}) = Cardinality(S) - 1
  BY TimersFinite, FS_RemoveElement

(* What linking and unlinking do to the number of entries. *)
LEMMA HeadEntries ==
  ASSUME NEW k, Typed(k), NEW t, NEW m \in 0 .. TimeRange - 1, NEW s \in Spokes,
         k.wheel[Spoke(m)].first = Null => k.wheel[Spoke(m)].entries = 0
  PROVE  AtHead(k, t, m).wheel[s].entries = k.wheel[s].entries + (IF s = Spoke(m) THEN 1 ELSE 0)
  <1> DEFINE first == k.wheel[Spoke(m)].first
             w     == [k.wheel EXCEPT ![Spoke(m)] =
                         [first |-> t, entries |-> IF first = Null THEN 1 ELSE @.entries + 1]]
  <1>1. Spoke(m) \in Spokes
    BY SpokeRange
  <1>2. AtHead(k, t, m).wheel = w
    BY DEF AtHead
  <1>3. w[s].entries = k.wheel[s].entries + (IF s = Spoke(m) THEN 1 ELSE 0)
    BY <1>1 DEF Typed, SPOKE
  <1> QED
    BY <1>2, <1>3

LEMMA UnlinkEntries ==
  ASSUME NEW k, Typed(k), NEW t \in Timers, NEW s \in Spokes
  PROVE  OSTmr_Unlink(k, t).wheel[s].entries
           = k.wheel[s].entries - (IF s = Spoke(k.tmr[t].match) THEN 1 ELSE 0)
  <1> DEFINE m == Spoke(k.tmr[t].match)
             w == [k.wheel EXCEPT ![m].entries = @ - 1,
                                  ![m].first = IF k.wheel[m].first = t THEN k.tmr[t].next ELSE @]
  <1>1. m \in Spokes
    BY SpokeRange DEF Typed, TMR
  <1>2. OSTmr_Unlink(k, t).wheel = w
    BY DEF OSTmr_Unlink
  <1> HIDE DEF m
  <1>3. w[s].entries = k.wheel[s].entries - (IF s = m THEN 1 ELSE 0)
    BY <1>1 DEF Typed, SPOKE
  <1> QED
    BY <1>2, <1>3 DEF m

(* No spoke and no other list holds t but its own. *)
LEMMA HeadOrder ==
  ASSUME NEW k, Typed(k), Linked(k), NEW free, NEW r, Order(k, free, r), NEW n, Counts(k, n),
         NEW t \in Timers, k.tmr[t].state \notin {"RUNNING", "UNUSED"}, NEW m \in 0 .. TimeRange - 1
  PROVE  /\ Counts(AtHead(k, t, m), n)
         /\ \E q : Order(AtHead(k, t, m), free, q) /\ \A u \in Timers \ {t} : q[u] = r[u]
  <1> DEFINE l     == AtHead(k, t, m)
             first == k.wheel[Spoke(m)].first
             q     == [r EXCEPT ![t] = IF first = Null THEN 0 ELSE r[first] - 1]
  <1>1. /\ l.tmr[t].state = "RUNNING" /\ l.tmr[t].match = m /\ l.tmr[t].next = first
        /\ \A u \in Timers \ {t} :
             /\ l.tmr[u].state = k.tmr[u].state /\ l.tmr[u].match = k.tmr[u].match
             /\ l.tmr[u].next = k.tmr[u].next
        /\ l.wheel[Spoke(m)].first = t
        /\ \A s \in Spokes \ {Spoke(m)} : l.wheel[s].first = k.wheel[s].first
    BY HeadParts
  <1>2. Spoke(m) \in Spokes
    BY SpokeRange
  <1>3. r \in [Timers -> Int]
    BY DEF Order
  <1>4. \A s \in Spokes : l.wheel[s].entries = k.wheel[s].entries + (IF s = Spoke(m) THEN 1 ELSE 0)
    <2>1. k.wheel[Spoke(m)].first = Null => OnSpoke(k, Spoke(m)) = {}
      BY <1>2 DEF Order, Sorted
    <2>2. k.wheel[Spoke(m)].first = Null => k.wheel[Spoke(m)].entries = 0
      BY <1>2, <2>1, FS_EmptySet DEF Counts
    <2> QED
      BY <2>2, HeadEntries
  <1> HIDE DEF l
  <1>5. OnSpoke(l, Spoke(m)) = OnSpoke(k, Spoke(m)) \cup {t}
    BY <1>1 DEF OnSpoke, On
  <1>6. \A s \in Spokes \ {Spoke(m)} : OnSpoke(l, s) = OnSpoke(k, s)
    BY <1>1 DEF OnSpoke, On
  <1>7. UnusedIn(l) = UnusedIn(k) /\ t \notin UnusedIn(k) /\ UnusedIn(k) \subseteq Timers
    BY <1>1 DEF UnusedIn
  <1>8. \A s : OnSpoke(k, s) \subseteq Timers /\ t \notin OnSpoke(k, s)
    BY DEF OnSpoke, On
  <1>9. first # Null => first \in OnSpoke(k, Spoke(m))
    BY <1>2 DEF Order, Sorted
  <1>10. /\ q \in [Timers -> Int] /\ (first # Null => q[t] < r[first])
         /\ \A u \in Timers \ {t} : q[u] = r[u]
    BY <1>3, <1>8, <1>9
  <1> HIDE DEF first, q
  <1>11. Sorted(l.tmr, OnSpoke(l, Spoke(m)), l.wheel[Spoke(m)].first, q)
    <2>1. Sorted(k.tmr, OnSpoke(k, Spoke(m)), first, r)
      BY <1>2 DEF Order, first
    <2>2. \A u \in OnSpoke(k, Spoke(m)) : l.tmr[u].next = k.tmr[u].next /\ q[u] = r[u]
      BY <1>1, <1>8, <1>10
    <2>3. Sorted(l.tmr, OnSpoke(k, Spoke(m)) \cup {t}, t, q)
      BY <1>1, <1>3, <1>8, <1>10, <2>1, <2>2, SortedPush
    <2> QED
      BY <1>1, <1>5, <2>3
  <1>12. ASSUME NEW s \in Spokes \ {Spoke(m)}
         PROVE  Sorted(l.tmr, OnSpoke(l, s), l.wheel[s].first, q)
    <2>1. Sorted(k.tmr, OnSpoke(k, s), k.wheel[s].first, r)
      BY DEF Order
    <2>2. \A u \in OnSpoke(k, s) : l.tmr[u].next = k.tmr[u].next /\ q[u] = r[u]
      BY <1>1, <1>8, <1>10
    <2>3. Sorted(l.tmr, OnSpoke(k, s), k.wheel[s].first, q)
      BY <2>1, <2>2, SortedSame
    <2> QED
      BY <1>1, <1>6, <2>3
  <1>13. Sorted(l.tmr, UnusedIn(l), free, q)
    <2>1. Sorted(k.tmr, UnusedIn(k), free, r)
      BY DEF Order
    <2>2. \A u \in UnusedIn(k) : l.tmr[u].next = k.tmr[u].next /\ q[u] = r[u]
      BY <1>1, <1>7, <1>10
    <2>3. Sorted(l.tmr, UnusedIn(k), free, q)
      BY <2>1, <2>2, SortedSame
    <2> QED
      BY <1>7, <2>3
  <1>14. Order(l, free, q)
    BY <1>10, <1>11, <1>12, <1>13 DEF Order
  <1>15. Counts(l, n)
    <2>1. Cardinality(OnSpoke(l, Spoke(m))) = Cardinality(OnSpoke(k, Spoke(m))) + 1
      BY <1>5, <1>8, OneMore
    <2>2. ASSUME NEW s \in Spokes PROVE l.wheel[s].entries = Cardinality(OnSpoke(l, s))
      <3>1. k.wheel[s].entries = Cardinality(OnSpoke(k, s)) /\ k.wheel[s].entries \in Int
        BY DEF Counts, Typed, SPOKE
      <3>2. CASE s = Spoke(m)
        BY <1>4, <2>1, <3>1, <3>2
      <3>3. CASE s # Spoke(m)
        BY <1>4, <1>6, <3>1, <3>3
      <3> QED
        BY <3>2, <3>3
    <2> QED
      BY <1>7, <2>2 DEF Counts
  <1> QED
    BY <1>10, <1>14, <1>15 DEF l

LEMMA UnlinkOrder ==
  ASSUME NEW k, Typed(k), Linked(k), NEW free, NEW r, Order(k, free, r), NEW n, Counts(k, n),
         NEW t \in Timers, k.tmr[t].state = "RUNNING"
  PROVE  Counts(OSTmr_Unlink(k, t), n) /\ Order(OSTmr_Unlink(k, t), free, r)
  <1> DEFINE l     == OSTmr_Unlink(k, t)
             m     == Spoke(k.tmr[t].match)
             first == k.wheel[m].first = t
             prev  == k.tmr[t].prev
             next  == k.tmr[t].next
  <1>1. /\ l.tmr[t].state = "STOPPED"
        /\ \A u \in Timers \ {t} :
             /\ l.tmr[u].state = k.tmr[u].state /\ l.tmr[u].match = k.tmr[u].match
             /\ l.tmr[u].next = IF u = prev /\ ~first THEN next ELSE k.tmr[u].next
        /\ l.wheel[m].first = IF first THEN next ELSE k.wheel[m].first
        /\ \A s \in Spokes \ {m} : l.wheel[s].first = k.wheel[s].first
    BY UnlinkParts
  <1>2. m \in Spokes /\ On(k, t, m)
    BY SpokeRange DEF On, Typed, TMR
  <1>3. \A s \in Spokes : l.wheel[s].entries = k.wheel[s].entries - (IF s = m THEN 1 ELSE 0)
    BY UnlinkEntries
  <1>4. r \in [Timers -> Int] /\ Null \notin Timers
    BY NullRange DEF Order
  <1> HIDE DEF l
  <1>5. OnSpoke(l, m) = OnSpoke(k, m) \ {t} /\ t \in OnSpoke(k, m)
    <2> HIDE DEF m, prev, next
    <2> QED
      BY <1>1, <1>2 DEF OnSpoke, On
  <1>6. ASSUME NEW s \in Spokes \ {m} PROVE OnSpoke(l, s) = OnSpoke(k, s) /\ t \notin OnSpoke(k, s)
    BY <1>1 DEF OnSpoke, On
  <1>7. UnusedIn(l) = UnusedIn(k) /\ t \notin UnusedIn(k) /\ UnusedIn(k) \subseteq Timers
    BY <1>1 DEF UnusedIn
  <1>8. \A s : OnSpoke(k, s) \subseteq Timers
    BY DEF OnSpoke
  <1>9. prev # Null => On(k, prev, m) /\ k.tmr[prev].next = t
    <2> HIDE DEF m
    <2> QED
      BY <1>2 DEF Linked
  <1>10. ASSUME NEW u \in OnSpoke(k, m), k.tmr[u].next = t PROVE u = prev /\ ~first
    <2>1. On(k, u, m) /\ u # Null /\ t # Null
      BY <1>4 DEF OnSpoke
    <2> HIDE DEF m
    <2>2. u = prev
      BY <1>2, <1>10, <2>1 DEF Linked, On
    <2>3. first => prev = Null
      BY <1>2, <1>4 DEF Linked
    <2> QED
      BY <2>1, <2>2, <2>3
  <1>11. \A u \in Timers \ {t} : (\A s : s # m => u \notin OnSpoke(k, s)) \/ u # prev
    BY <1>4, <1>9 DEF OnSpoke, On
  <1>12. \A u \in UnusedIn(k) : u # prev
    BY <1>4, <1>9 DEF UnusedIn, On
  <1> HIDE DEF m, first, prev, next
  <1>13. Sorted(l.tmr, OnSpoke(l, m), l.wheel[m].first, r)
    <2>1. Sorted(k.tmr, OnSpoke(k, m), k.wheel[m].first, r)
      BY <1>2 DEF Order
    <2>2. ASSUME NEW u \in OnSpoke(k, m) \ {t}
          PROVE  l.tmr[u].next = IF k.tmr[u].next = t THEN k.tmr[t].next ELSE k.tmr[u].next
      <3>1. u \in Timers \ {t}
        BY <1>8
      <3>2. k.tmr[u].next = t <=> u = prev /\ ~first
        BY <1>4, <1>9, <1>10, <3>1
      <3> QED
        BY <1>1, <3>1, <3>2 DEF next
    <2> DEFINE h == k.wheel[m].first
               g == IF h = t THEN k.tmr[t].next ELSE h
    <2>3. l.wheel[m].first = g
      BY <1>1 DEF first, next
    <2> HIDE DEF h, g
    <2>4. Sorted(l.tmr, OnSpoke(k, m) \ {t}, IF h = t THEN k.tmr[t].next ELSE h, r)
      BY <1>4, <1>5, <1>8, <2>1, <2>2, SortedTake DEF h
    <2> QED
      BY <1>5, <2>3, <2>4 DEF g
  <1>14. ASSUME NEW s \in Spokes \ {m}
         PROVE  Sorted(l.tmr, OnSpoke(l, s), l.wheel[s].first, r)
    <2>1. Sorted(k.tmr, OnSpoke(k, s), k.wheel[s].first, r)
      BY DEF Order
    <2>2. \A u \in OnSpoke(k, s) : l.tmr[u].next = k.tmr[u].next /\ r[u] = r[u]
      <3> TAKE u \in OnSpoke(k, s)
      <3>1. u \in Timers \ {t}
        BY <1>6, <1>8
      <3>2. u # prev
        BY <1>11, <3>1
      <3> QED
        BY <1>1, <3>1, <3>2
    <2>3. Sorted(l.tmr, OnSpoke(k, s), k.wheel[s].first, r)
      BY <2>1, <2>2, SortedSame
    <2> QED
      BY <1>1, <1>6, <2>3
  <1>15. Sorted(l.tmr, UnusedIn(l), free, r)
    <2>1. Sorted(k.tmr, UnusedIn(k), free, r)
      BY DEF Order
    <2>2. \A u \in UnusedIn(k) : l.tmr[u].next = k.tmr[u].next /\ r[u] = r[u]
      BY <1>1, <1>7, <1>12
    <2>3. Sorted(l.tmr, UnusedIn(k), free, r)
      BY <2>1, <2>2, SortedSame
    <2> QED
      BY <1>7, <2>3
  <1>16. Order(l, free, r)
    BY <1>4, <1>13, <1>14, <1>15 DEF Order
  <1>17. Counts(l, n)
    <2>1. Cardinality(OnSpoke(l, m)) = Cardinality(OnSpoke(k, m)) - 1
      BY <1>5, <1>8, OneLess
    <2>2. ASSUME NEW s \in Spokes PROVE l.wheel[s].entries = Cardinality(OnSpoke(l, s))
      <3>1. k.wheel[s].entries = Cardinality(OnSpoke(k, s)) /\ k.wheel[s].entries \in Int
        BY DEF Counts, Typed, SPOKE
      <3>2. CASE s = m
        BY <1>3, <2>1, <3>1, <3>2
      <3>3. CASE s # m
        BY <1>3, <1>6, <3>1, <3>3
      <3> QED
        BY <3>2, <3>3
    <2> QED
      BY <1>7, <2>2 DEF Counts
  <1> QED
    BY <1>16, <1>17 DEF l

(* A timer in no list changes, and stays in no list. *)
LEMMA AsideOrder ==
  ASSUME NEW k, NEW free, NEW r, Order(k, free, r), NEW n, Counts(k, n), NEW l, l.wheel = k.wheel,
         NEW t \in Timers, k.tmr[t].state \notin {"RUNNING", "UNUSED"},
         l.tmr[t].state \notin {"RUNNING", "UNUSED"}, \A u \in Timers \ {t} : l.tmr[u] = k.tmr[u]
  PROVE  Counts(l, n) /\ Order(l, free, r)
  <1>1. \A s : OnSpoke(l, s) = OnSpoke(k, s) /\ t \notin OnSpoke(k, s)
    BY DEF OnSpoke, On
  <1>2. UnusedIn(l) = UnusedIn(k) /\ t \notin UnusedIn(k)
    BY DEF UnusedIn
  <1>3. \A s : OnSpoke(k, s) \subseteq Timers
    BY DEF OnSpoke
  <1>4. \A s \in Spokes : Sorted(l.tmr, OnSpoke(l, s), l.wheel[s].first, r)
    <2> TAKE s \in Spokes
    <2>1. Sorted(k.tmr, OnSpoke(k, s), k.wheel[s].first, r)
      BY DEF Order
    <2>2. \A u \in OnSpoke(k, s) : l.tmr[u].next = k.tmr[u].next /\ r[u] = r[u]
      BY <1>1, <1>3
    <2> QED
      BY <1>1, <2>1, <2>2, SortedSame
  <1>5. Sorted(l.tmr, UnusedIn(l), free, r)
    <2>1. Sorted(k.tmr, UnusedIn(k), free, r)
      BY DEF Order
    <2>2. \A u \in UnusedIn(k) : l.tmr[u].next = k.tmr[u].next /\ r[u] = r[u]
      BY <1>2 DEF UnusedIn
    <2> QED
      BY <1>2, <2>1, <2>2, SortedSame
  <1> QED
    BY <1>1, <1>2, <1>4, <1>5 DEF Order, Counts

(* A timer goes to the head of the free list. *)
LEMMA FreeOrder ==
  ASSUME NEW k, NEW free, NEW r, Order(k, free, r), NEW n \in Int, Counts(k, n), NEW l, l.wheel = k.wheel,
         NEW t \in Timers, k.tmr[t].state \notin {"RUNNING", "UNUSED"},
         l.tmr[t].state = "UNUSED", l.tmr[t].next = free, \A u \in Timers \ {t} : l.tmr[u] = k.tmr[u]
  PROVE  /\ Counts(l, n - 1)
         /\ \E q : Order(l, t, q) /\ \A u \in Timers \ {t} : q[u] = r[u]
  <1> DEFINE q == [r EXCEPT ![t] = IF free = Null THEN 0 ELSE r[free] - 1]
  <1>1. \A s : OnSpoke(l, s) = OnSpoke(k, s) /\ t \notin OnSpoke(k, s)
    BY DEF OnSpoke, On
  <1>2. UnusedIn(l) = UnusedIn(k) \cup {t} /\ t \notin UnusedIn(k) /\ UnusedIn(k) \subseteq Timers
    BY DEF UnusedIn
  <1>3. \A s : OnSpoke(k, s) \subseteq Timers
    BY DEF OnSpoke
  <1>4. r \in [Timers -> Int] /\ (free # Null => free \in UnusedIn(k))
    BY DEF Order, Sorted
  <1>5. /\ q \in [Timers -> Int] /\ (free # Null => q[t] < r[free])
        /\ \A u \in Timers \ {t} : q[u] = r[u]
    BY <1>2, <1>4
  <1> HIDE DEF q
  <1>6. \A s \in Spokes : Sorted(l.tmr, OnSpoke(l, s), l.wheel[s].first, q)
    <2> TAKE s \in Spokes
    <2>1. Sorted(k.tmr, OnSpoke(k, s), k.wheel[s].first, r)
      BY DEF Order
    <2>2. \A u \in OnSpoke(k, s) : l.tmr[u].next = k.tmr[u].next /\ q[u] = r[u]
      BY <1>1, <1>3, <1>5
    <2> QED
      BY <1>1, <2>1, <2>2, SortedSame
  <1>7. Sorted(l.tmr, UnusedIn(l), t, q)
    <2>1. Sorted(k.tmr, UnusedIn(k), free, r)
      BY DEF Order
    <2>2. \A u \in UnusedIn(k) : l.tmr[u].next = k.tmr[u].next /\ q[u] = r[u]
      BY <1>2, <1>5
    <2>3. Sorted(l.tmr, UnusedIn(k) \cup {t}, t, q)
      BY <1>2, <1>4, <1>5, <2>1, <2>2, SortedPush
    <2> QED
      BY <1>2, <2>3
  <1>8. Counts(l, n - 1)
    <2>1. Cardinality(UnusedIn(l)) = Cardinality(UnusedIn(k)) + 1
      BY <1>2, OneMore
    <2>2. Cardinality(UnusedIn(k)) \in Nat /\ OS_TMR_CFG_MAX \in Nat
      BY <1>2, TimersFinite, WheelAssumption
    <2> QED
      BY <1>1, <2>1, <2>2 DEF Counts
  <1> QED
    BY <1>5, <1>6, <1>7, <1>8 DEF Order

(* A timer is taken from the head of the free list. *)
LEMMA AllocOrder ==
  ASSUME NEW k, NEW t, NEW r, Order(k, t, r), NEW n \in Int, Counts(k, n), NEW l, l.wheel = k.wheel,
         t \in Timers, k.tmr[t].state = "UNUSED", l.tmr[t].state = "STOPPED",
         \A u \in Timers \ {t} : l.tmr[u] = k.tmr[u]
  PROVE  Counts(l, n + 1) /\ Order(l, k.tmr[t].next, r)
  <1>1. \A s : OnSpoke(l, s) = OnSpoke(k, s) /\ t \notin OnSpoke(k, s)
    BY DEF OnSpoke, On
  <1>2. UnusedIn(l) = UnusedIn(k) \ {t} /\ t \in UnusedIn(k) /\ UnusedIn(k) \subseteq Timers
    BY DEF UnusedIn
  <1>3. \A s : OnSpoke(k, s) \subseteq Timers
    BY DEF OnSpoke
  <1>4. r \in [Timers -> Int]
    BY DEF Order
  <1>5. \A s \in Spokes : Sorted(l.tmr, OnSpoke(l, s), l.wheel[s].first, r)
    <2> TAKE s \in Spokes
    <2>1. Sorted(k.tmr, OnSpoke(k, s), k.wheel[s].first, r)
      BY DEF Order
    <2>2. \A u \in OnSpoke(k, s) : l.tmr[u].next = k.tmr[u].next /\ r[u] = r[u]
      BY <1>1, <1>3
    <2> QED
      BY <1>1, <2>1, <2>2, SortedSame
  <1>6. Sorted(l.tmr, UnusedIn(l), k.tmr[t].next, r)
    <2>1. Sorted(k.tmr, UnusedIn(k), t, r)
      BY DEF Order
    <2>2. \A u \in UnusedIn(k) \ {t} :
            l.tmr[u].next = IF k.tmr[u].next = t THEN k.tmr[t].next ELSE k.tmr[u].next
      <3> TAKE u \in UnusedIn(k) \ {t}
      <3>1. k.tmr[u].next # t
        <4>1. r[t] <= r[u] /\ r[u] \in Int /\ r[t] \in Int /\ t # Null
          BY <1>2, <1>4, <2>1, NullRange DEF Sorted
        <4>2. k.tmr[u].next # Null => r[u] < r[k.tmr[u].next]
          BY <2>1 DEF Sorted
        <4> QED
          BY <4>1, <4>2
      <3>2. l.tmr[u] = k.tmr[u]
        BY <1>2
      <3> QED
        BY <3>1, <3>2
    <2>3. Sorted(l.tmr, UnusedIn(k) \ {t}, IF t = t THEN k.tmr[t].next ELSE t, r)
      BY <1>2, <1>4, <2>1, <2>2, SortedTake
    <2> QED
      BY <1>2, <2>3
  <1>7. Counts(l, n + 1)
    <2>1. Cardinality(UnusedIn(l)) = Cardinality(UnusedIn(k)) - 1
      BY <1>2, OneLess
    <2>2. Cardinality(UnusedIn(k)) \in Nat /\ OS_TMR_CFG_MAX \in Nat
      BY <1>2, TimersFinite, WheelAssumption
    <2> QED
      BY <1>1, <2>1, <2>2 DEF Counts
  <1> QED
    BY <1>4, <1>5, <1>6, <1>7 DEF Order

(***************************************************************************)
(* Ticks.  A timer that is linked is not due now but after its delay.      *)
(***************************************************************************)
LEMMA DivUnique ==
  ASSUME NEW x \in Int, NEW d \in Nat \ {0}, NEW q \in Int, NEW r \in 0 .. d - 1, x = q * d + r
  PROVE  x % d = r
  OBVIOUS

(* The time that is d ticks after n, and d again from it. *)
LEMMA Later ==
  ASSUME NEW R \in Nat \ {0}, NEW n \in 0 .. R - 1, NEW d \in 0 .. R - 1
  PROVE  /\ (n + d) % R = IF n + d < R THEN n + d ELSE n + d - R
         /\ (((n + d) % R) - n) % R = d
  <1>1. CASE n + d < R
    <2>1. n + d = 0 * R + (n + d) /\ n + d \in 0 .. R - 1 /\ n + d \in Int /\ 0 \in Int
      BY <1>1
    <2>2. (n + d) % R = n + d
      BY <2>1, DivUnique
    <2>3. (n + d) - n = 0 * R + d /\ (n + d) - n \in Int
      OBVIOUS
    <2>4. ((n + d) - n) % R = d
      BY <2>1, <2>3, DivUnique
    <2> QED
      BY <1>1, <2>2, <2>4
  <1>2. CASE ~(n + d < R)
    <2>1. n + d = 1 * R + (n + d - R) /\ n + d - R \in 0 .. R - 1 /\ n + d \in Int /\ 1 \in Int
      BY <1>2
    <2>2. (n + d) % R = n + d - R
      BY <2>1, DivUnique
    <2>3. (n + d - R) - n = (-1) * R + d /\ (n + d - R) - n \in Int /\ -1 \in Int
      OBVIOUS
    <2>4. ((n + d - R) - n) % R = d
      BY <2>3, DivUnique
    <2> QED
      BY <1>2, <2>2, <2>4
  <1> QED
    BY <1>1, <1>2

(* The ticks that are left from n until m. *)
LEMMA Left ==
  ASSUME NEW R \in Nat \ {0}, NEW n \in 0 .. R - 1, NEW m \in 0 .. R - 1
  PROVE  (m - n) % R = IF n <= m THEN m - n ELSE m - n + R
  <1>1. CASE n <= m
    <2>1. m - n = 0 * R + (m - n) /\ m - n \in 0 .. R - 1 /\ m - n \in Int /\ 0 \in Int
      BY <1>1
    <2> QED
      BY <1>1, <2>1, DivUnique
  <1>2. CASE ~(n <= m)
    <2>1. m - n = (-1) * R + (m - n + R) /\ m - n + R \in 0 .. R - 1 /\ m - n \in Int /\ -1 \in Int
      BY <1>2
    <2> QED
      BY <1>2, <2>1, DivUnique
  <1> QED
    BY <1>1, <1>2

(* A tick takes one of them, unless none was left. *)
LEMMA OneTick ==
  ASSUME NEW R \in Nat \ {0}, NEW n \in 0 .. R - 1, NEW m \in 0 .. R - 1, m # n,
         NEW j, j = (n + 1) % R
  PROVE  (m - j) % R = ((m - n) % R) - 1
  <1>1. n + 1 < R => 1 \in 0 .. R - 1
    OBVIOUS
  <1>2. (n + 1) % R = IF n + 1 < R THEN n + 1 ELSE 0
    <2>1. 1 \in 0 .. R - 1
      OBVIOUS
    <2>2. (n + 1) % R = IF n + 1 < R THEN n + 1 ELSE n + 1 - R
      BY <2>1, Later
    <2> QED
      BY <2>2
  <1>3. j \in 0 .. R - 1
    BY <1>2
  <1>4. (m - n) % R = IF n <= m THEN m - n ELSE m - n + R
    BY Left
  <1>5. (m - j) % R = IF j <= m THEN m - j ELSE m - j + R
    BY <1>3, Left
  <1>6. j = IF n + 1 < R THEN n + 1 ELSE 0
    BY <1>2
  <1> QED
    BY <1>4, <1>5, <1>6

Settled(k) == \A t \in Timers : k.tmr[t].state # "UNUSED" => k.tmr[t].setting \in Settings
Delay(s, periodic) == IF periodic \/ s.dly = 0 THEN s.period ELSE s.dly

LEMMA LinkSoon ==
  ASSUME NEW k, NEW t \in Timers, Settled(k), k.tmr[t].state # "UNUSED", NEW periodic \in BOOLEAN,
         periodic => k.tmr[t].setting.periodic, time \in 0 .. TimeRange - 1
  PROVE  \E m \in 0 .. TimeRange - 1 :
           /\ OSTmr_Link(k, t, periodic) = AtHead(k, t, m)
           /\ m # time
           /\ (m - time) % TimeRange = Delay(k.tmr[t].setting, periodic)
  <1> DEFINE s == k.tmr[t].setting
             d == Delay(s, periodic)
             m == (time + d) % TimeRange
  <1>1. s \in Settings
    BY DEF Settled
  <1>2. d \in 1 .. TimeRange - 1
    BY <1>1, SettingsAssumption, WheelAssumption DEF Delay
  <1>3. OSTmr_Link(k, t, periodic) = AtHead(k, t, m)
    BY DEF OSTmr_Link, AtHead, Delay
  <1> HIDE DEF d
  <1>4. d \in 0 .. TimeRange - 1 /\ TimeRange \in Nat \ {0}
    BY <1>2, WheelAssumption
  <1>5. m = (IF time + d < TimeRange THEN time + d ELSE time + d - TimeRange)
          /\ (m - time) % TimeRange = d
    BY <1>4, Later
  <1>6. m \in 0 .. TimeRange - 1 /\ m # time
    <2> HIDE DEF m
    <2> QED
      BY <1>2, <1>5, WheelAssumption
  <1> QED
    BY <1>3, <1>5, <1>6 DEF d

(***************************************************************************)
(* Linking and unlinking keep the lists in order and settings as they are. *)
(***************************************************************************)
Good(k, free, n, r) ==
  Typed(k) /\ Linked(k) /\ Settled(k) /\ Order(k, free, r) /\ Counts(k, n)

(* l differs from k in t only, links apart. *)
Elsewhere(l, k, t) ==
  \A u \in Timers \ {t} : /\ l.tmr[u].state = k.tmr[u].state
                          /\ l.tmr[u].match = k.tmr[u].match
                          /\ l.tmr[u].setting = k.tmr[u].setting

LEMMA HeadSettings ==
  ASSUME NEW k, Typed(k), NEW t \in Timers, NEW m, NEW u \in Timers
  PROVE  AtHead(k, t, m).tmr[u].setting = k.tmr[u].setting
  <1> DEFINE first == k.wheel[Spoke(m)].first
             node  == [k.tmr[t] EXCEPT !.state = "RUNNING", !.match = m, !.next = first,
                                       !.prev = Null]
             other == [k.tmr[u] EXCEPT !.prev = t]
  <1>1. AtHead(k, t, m).tmr[u] = IF u = t THEN node ELSE IF u = first THEN other ELSE k.tmr[u]
    BY DEF AtHead
  <1>2. node.setting = k.tmr[t].setting /\ other.setting = k.tmr[u].setting
    BY DEF Typed, TMR
  <1> HIDE DEF node, other
  <1> QED
    BY <1>1, <1>2

LEMMA UnlinkSettings ==
  ASSUME NEW k, Typed(k), NEW t \in Timers, NEW u \in Timers
  PROVE  OSTmr_Unlink(k, t).tmr[u].setting = k.tmr[u].setting
  <1> DEFINE node  == [k.tmr[t] EXCEPT !.state = "STOPPED", !.next = Null, !.prev = Null]
             other(n, p) == [k.tmr[u] EXCEPT !.next = n, !.prev = p]
  <1>1. \E n, p : OSTmr_Unlink(k, t).tmr[u] = IF u = t THEN node ELSE other(n, p)
    BY DEF OSTmr_Unlink
  <1>2. node.setting = k.tmr[t].setting /\ \A n, p : other(n, p).setting = k.tmr[u].setting
    BY DEF Typed, TMR
  <1> HIDE DEF node, other
  <1> QED
    BY <1>1, <1>2

LEMMA LinkGood ==
  ASSUME NEW k, NEW free, NEW n, NEW r, Good(k, free, n, r), time \in 0 .. TimeRange - 1,
         NEW t \in Timers, k.tmr[t].state \notin {"RUNNING", "UNUSED"},
         NEW periodic \in BOOLEAN, periodic => k.tmr[t].setting.periodic
  PROVE  /\ \E q : Good(OSTmr_Link(k, t, periodic), free, n, q) /\ \A u \in Timers \ {t} : q[u] = r[u]
         /\ Elsewhere(OSTmr_Link(k, t, periodic), k, t)
         /\ OSTmr_Link(k, t, periodic).tmr[t].state = "RUNNING"
         /\ OSTmr_Link(k, t, periodic).tmr[t].setting = k.tmr[t].setting
         /\ OSTmr_Link(k, t, periodic).tmr[t].match # time
         /\ (OSTmr_Link(k, t, periodic).tmr[t].match - time) % TimeRange
              = Delay(k.tmr[t].setting, periodic)
  <1>1. Typed(k) /\ Linked(k) /\ Settled(k) /\ Order(k, free, r) /\ Counts(k, n)
    BY DEF Good
  <1>2. PICK m \in 0 .. TimeRange - 1 :
           /\ OSTmr_Link(k, t, periodic) = AtHead(k, t, m)
           /\ m # time
           /\ (m - time) % TimeRange = Delay(k.tmr[t].setting, periodic)
    BY <1>1, LinkSoon
  <1> DEFINE l == AtHead(k, t, m)
  <1>3. /\ l.tmr[t].state = "RUNNING" /\ l.tmr[t].match = m
        /\ \A u \in Timers \ {t} : l.tmr[u].state = k.tmr[u].state /\ l.tmr[u].match = k.tmr[u].match
    BY <1>1, HeadParts
  <1>4. Typed(l) /\ Linked(l)
    BY <1>1, LinkOK
  <1>5. \A u \in Timers : l.tmr[u].setting = k.tmr[u].setting
    BY <1>1, HeadSettings
  <1>6. Counts(l, n) /\ \E q : Order(l, free, q) /\ \A u \in Timers \ {t} : q[u] = r[u]
    BY <1>1, HeadOrder
  <1>7. OSTmr_Link(k, t, periodic) = l
    BY <1>2
  <1> HIDE DEF l
  <1>8. Settled(l)
    BY <1>1, <1>3, <1>5 DEF Settled
  <1>9. \E q : Good(l, free, n, q) /\ \A u \in Timers \ {t} : q[u] = r[u]
    BY <1>4, <1>6, <1>8 DEF Good
  <1>10. Elsewhere(l, k, t)
    BY <1>3, <1>5 DEF Elsewhere
  <1> QED
    BY <1>2, <1>3, <1>5, <1>7, <1>9, <1>10

LEMMA UnlinkGood ==
  ASSUME NEW k, NEW free, NEW n, NEW r, Good(k, free, n, r),
         NEW t \in Timers, k.tmr[t].state = "RUNNING"
  PROVE  /\ Good(OSTmr_Unlink(k, t), free, n, r)
         /\ Elsewhere(OSTmr_Unlink(k, t), k, t)
         /\ OSTmr_Unlink(k, t).tmr[t].state = "STOPPED"
         /\ OSTmr_Unlink(k, t).tmr[t].setting = k.tmr[t].setting
  <1>1. Typed(k) /\ Linked(k) /\ Settled(k) /\ Order(k, free, r) /\ Counts(k, n)
    BY DEF Good
  <1> DEFINE l == OSTmr_Unlink(k, t)
  <1>2. /\ l.tmr[t].state = "STOPPED"
        /\ \A u \in Timers \ {t} : l.tmr[u].state = k.tmr[u].state /\ l.tmr[u].match = k.tmr[u].match
    BY <1>1, UnlinkParts
  <1>3. Typed(l) /\ Linked(l)
    BY <1>1, UnlinkOK
  <1>4. \A u \in Timers : l.tmr[u].setting = k.tmr[u].setting
    BY <1>1, UnlinkSettings
  <1>5. Counts(l, n) /\ Order(l, free, r)
    BY <1>1, UnlinkOrder
  <1> HIDE DEF l
  <1>6. Settled(l)
    BY <1>1, <1>2, <1>4 DEF Settled
  <1>7. Good(l, free, n, r) /\ Elsewhere(l, k, t)
    BY <1>2, <1>3, <1>4, <1>5, <1>6 DEF Good, Elsewhere
  <1> QED
    BY <1>2, <1>4, <1>7 DEF l

(***************************************************************************)
(* The invariant.  Each running timer that is due still lies before        *)
(* OSTmr_Task, in the order of the spoke it walks over.                    *)
(***************************************************************************)
Cursor == IF task.at = "walk" THEN task.ptmr ELSE task.next

Ahead(r) == \A t \in Timers : tmr[t].state = "RUNNING" /\ tmr[t].match = time =>
              task.at # "pend" /\ Cursor # Null /\ r[Cursor] <= r[t]

WInv == /\ IInv
        /\ \E r : Good(Mem, freeList, used, r) /\ Ahead(r)
        /\ task.at = "callback" => task.ptmr \in Timers

LEMMA GoodInto ==
  ASSUME NEW l, tmr' = l.tmr, wheel' = l.wheel, NEW free, NEW n, NEW r, Good(l, free, n, r)
  PROVE  Good(Mem', free, n, r)
  <1> DEFINE M == Mem'
  <1>1. M.tmr = l.tmr /\ M.wheel = l.wheel
    BY DEF Mem
  <1> HIDE DEF M
  <1>2. \A t, s : On(M, t, s) <=> On(l, t, s)
    BY <1>1 DEF On
  <1>3. \A s : OnSpoke(M, s) = OnSpoke(l, s)
    BY <1>2 DEF OnSpoke
  <1>4. UnusedIn(M) = UnusedIn(l)
    BY <1>1 DEF UnusedIn
  <1>5. Typed(M) /\ Settled(M)
    BY <1>1 DEF Good, Typed, Settled
  <1>6. Linked(M)
    BY <1>1, <1>2 DEF Good, Linked
  <1>7. Order(M, free, r) /\ Counts(M, n)
    BY <1>1, <1>3, <1>4 DEF Good, Order, Counts
  <1>8. Good(M, free, n, r)
    BY <1>5, <1>6, <1>7 DEF Good
  <1> QED
    BY <1>8 DEF M

(* A service for timer t, which the walk does not go on with. *)
LEMMA Serve ==
  ASSUME WInv, IInv', NEW r, Good(Mem, freeList, used, r), Ahead(r), NEW t \in Timers,
         task.at # "walk", task.at = "callback" => t # task.next,
         NEW l, tmr' = l.tmr, wheel' = l.wheel,
         NEW q, Good(l, freeList', used', q), \A u \in Timers \ {t} : q[u] = r[u],
         Elsewhere(l, Mem, t), l.tmr[t].state = "RUNNING" => l.tmr[t].match # time,
         UNCHANGED <<time, task>>
  PROVE  WInv'
  <1>1. Good(Mem, freeList, used, q)'
    BY GoodInto
  <1>2. \A u \in Timers \ {t} : tmr'[u].state = tmr[u].state /\ tmr'[u].match = tmr[u].match
    BY DEF Elsewhere, Mem
  <1>3. Ahead(q)'
    <2> SUFFICES ASSUME NEW u \in Timers, tmr'[u].state = "RUNNING", tmr'[u].match = time
                 PROVE  task.at # "pend" /\ Cursor # Null /\ q[Cursor] <= q[u]
      BY DEF Ahead, Cursor
    <2>1. u # t
      OBVIOUS
    <2>2. task.at # "pend" /\ Cursor # Null /\ r[Cursor] <= r[u]
      BY <1>2, <2>1 DEF Ahead
    <2>3. Cursor = task.next
      BY DEF Cursor
    <2>4. task.at = "callback" /\ task.next \in Timers \ {t}
      BY <2>2, <2>3 DEF WInv, IInv, TypeOK, Ptr
    <2> QED
      BY <2>1, <2>2, <2>3, <2>4
  <1>4. (task.at = "callback" => task.ptmr \in Timers)'
    BY DEF WInv
  <1> QED
    BY <1>1, <1>3, <1>4 DEF WInv

(***************************************************************************)
(* What Alarms sees of the timers.                                         *)
(***************************************************************************)
AlSetting == [t \in Timers |-> IF tmr[t].state = "UNUSED" THEN Null ELSE tmr[t].setting]
AlLeft    == [t \in Timers |-> IF tmr[t].state = "RUNNING" THEN OSTmrRemainGet(t) ELSE Null]
AlGone    == IF task.at = "callback" THEN task.ptmr ELSE Null

LEMMA NullApart == Null \notin Settings /\ Null \notin 0 .. TimeRange - 1 /\ Null # 0
  BY NullAssumption, WheelAssumption

LEMMA LeftIs ==
  ASSUME NEW t \in Timers
  PROVE  AlLeft[t] = IF tmr[t].state = "RUNNING" THEN (tmr[t].match - time) % TimeRange ELSE Null
  BY DEF AlLeft, OSTmrRemainGet

(* An alarm with nothing left is a timer that is due. *)
LEMMA LeftRange ==
  ASSUME IInv, NEW t \in Timers
  PROVE  /\ tmr[t].state = "RUNNING" => AlLeft[t] \in 0 .. TimeRange - 1
         /\ AlLeft[t] = 0 <=> tmr[t].state = "RUNNING" /\ tmr[t].match = time
         /\ AlLeft[t] = Null <=> tmr[t].state # "RUNNING"
  <1> DEFINE m == tmr[t].match
  <1>1. m \in 0 .. TimeRange - 1 /\ time \in 0 .. TimeRange - 1 /\ TimeRange \in Nat \ {0}
    BY WheelAssumption DEF IInv, TypeOK
  <1> HIDE DEF m
  <1>2. (m - time) % TimeRange = IF time <= m THEN m - time ELSE m - time + TimeRange
    BY <1>1, Left
  <1>3. (m - time) % TimeRange \in 0 .. TimeRange - 1 /\ ((m - time) % TimeRange = 0 <=> m = time)
    BY <1>1, <1>2
  <1> DEFINE e == (m - time) % TimeRange
  <1>4. AlLeft[t] = IF tmr[t].state = "RUNNING" THEN e ELSE Null
    BY LeftIs DEF m
  <1> HIDE DEF e
  <1>5. e \in 0 .. TimeRange - 1 /\ (e = 0 <=> m = time)
    BY <1>3 DEF e
  <1> QED
    BY <1>4, <1>5, NullApart DEF m

LEMMA ViewElse ==
  ASSUME NEW l, tmr' = l.tmr, NEW t \in Timers, Elsewhere(l, Mem, t), time' = time,
         NEW s, s = IF l.tmr[t].state = "UNUSED" THEN Null ELSE l.tmr[t].setting,
         NEW e, e = IF l.tmr[t].state = "RUNNING" THEN (l.tmr[t].match - time) % TimeRange ELSE Null
  PROVE  /\ AlSetting' = [AlSetting EXCEPT ![t] = s]
         /\ AlLeft' = [AlLeft EXCEPT ![t] = e]
  <1>1. \A u \in Timers \ {t} : /\ tmr'[u].state = tmr[u].state
                                /\ tmr'[u].match = tmr[u].match
                                /\ tmr'[u].setting = tmr[u].setting
    BY DEF Elsewhere, Mem
  <1>2. AlSetting' = [AlSetting EXCEPT ![t] = s]
    BY <1>1 DEF AlSetting
  <1>3. AlLeft' = [u \in Timers |-> IF tmr'[u].state = "RUNNING" THEN (tmr'[u].match - time) % TimeRange
                                    ELSE Null]
    BY DEF AlLeft, OSTmrRemainGet
  <1>4. AlLeft = [u \in Timers |-> IF tmr[u].state = "RUNNING" THEN (tmr[u].match - time) % TimeRange
                                   ELSE Null]
    BY DEF AlLeft, OSTmrRemainGet
  <1>5. \A u \in Timers \ {t} : AlLeft'[u] = AlLeft[u]
    BY <1>1, <1>3, <1>4
  <1>6. AlLeft'[t] = e
    BY <1>3
  <1> QED
    BY <1>2, <1>3, <1>4, <1>5, <1>6

LEMMA AlDelete ==
  ASSUME NEW t, AlLeft[t] = 0 => AlGone # Null, AlSetting' = [AlSetting EXCEPT ![t] = Null],
         AlLeft' = [AlLeft EXCEPT ![t] = Null], AlGone' = AlGone
  PROVE  Al!Delete(t)
  BY DEF AlSetting, AlLeft, AlGone, Al!Delete, Al!MaySet, Al!Due

LEMMA AlStart ==
  ASSUME NEW t, AlLeft[t] = 0 => AlGone # Null, AlSetting[t] # Null, AlSetting' = AlSetting,
         AlLeft' = [AlLeft EXCEPT ![t] = Delay(AlSetting[t], FALSE)], AlGone' = AlGone
  PROVE  Al!Start(t)
  <1>1. Delay(AlSetting[t], FALSE) = Al!First(AlSetting[t])
    BY DEF Delay, Al!First
  <1> QED
    BY <1>1 DEF AlSetting, AlLeft, AlGone, Al!Start, Al!MaySet, Al!Due

LEMMA AlStop ==
  ASSUME NEW t, AlLeft[t] = 0 => AlGone # Null, AlSetting' = AlSetting,
         AlLeft' = [AlLeft EXCEPT ![t] = Null], AlGone' = AlGone
  PROVE  Al!Stop(t)
  BY DEF AlSetting, AlLeft, AlGone, Al!Stop, Al!MaySet, Al!Due

LEMMA AlCreate ==
  ASSUME NEW t, AlSetting[t] = Null, NEW s, AlSetting' = [AlSetting EXCEPT ![t] = s], t \in Timers,
         AlLeft' = AlLeft, AlGone' = AlGone
  PROVE  Al!Create(t)
  <1>1. AlSetting' = [AlSetting EXCEPT ![t] = AlSetting'[t]]
    BY DEF AlSetting
  <1> QED
    BY <1>1 DEF AlSetting, AlLeft, AlGone, Al!Create

LEMMA AlGoOff ==
  ASSUME NEW t, AlLeft[t] = 0, AlSetting' = AlSetting, AlGone' = t,
         AlLeft' = [AlLeft EXCEPT ![t] = IF AlSetting[t].periodic THEN AlSetting[t].period ELSE Null]
  PROVE  Al!GoOff(t)
  BY DEF AlSetting, AlLeft, AlGone, Al!GoOff, Al!Due

LEMMA AlTick ==
  ASSUME \A t \in Timers : AlLeft[t] # 0, AlSetting' = AlSetting, AlGone' = AlGone,
         AlLeft' = [t \in Timers |-> IF AlLeft[t] = Null THEN Null ELSE AlLeft[t] - 1]
  PROVE  Al!Tick
  BY DEF AlSetting, AlLeft, AlGone, Al!Tick, Al!Due

LEMMA AlHandled ==
  ASSUME AlGone' = Null, AlSetting' = AlSetting, AlLeft' = AlLeft PROVE Al!Handled
  BY DEF AlSetting, AlLeft, AlGone, Al!Handled

(***************************************************************************)
(* The services keep the invariant, and are what Alarms promises.          *)
(***************************************************************************)
LEMMA MayServe ==
  ASSUME WInv, NEW t \in Timers, task.at # "walk" PROVE AlLeft[t] = 0 => AlGone # Null
  <1> SUFFICES ASSUME AlLeft[t] = 0 PROVE AlGone # Null
    OBVIOUS
  <1>1. tmr[t].state = "RUNNING" /\ tmr[t].match = time
    BY LeftRange DEF WInv
  <1>2. task.at = "callback"
    BY <1>1 DEF WInv, Ahead, IInv, TypeOK
  <1> QED
    BY <1>2, NullRange DEF WInv, AlGone

LEMMA AsideGood ==
  ASSUME NEW k, NEW free, NEW n, NEW r, Good(k, free, n, r), NEW l, l.wheel = k.wheel,
         NEW t \in Timers, k.tmr[t].state \notin {"RUNNING", "UNUSED"},
         l.tmr \in [Timers -> TMR], \A u \in Timers \ {t} : l.tmr[u] = k.tmr[u],
         l.tmr[t].state \notin {"RUNNING", "UNUSED"}, l.tmr[t].setting \in Settings
  PROVE  Good(l, free, n, r) /\ Elsewhere(l, k, t)
  <1>1. Typed(k) /\ Linked(k) /\ Settled(k) /\ Order(k, free, r) /\ Counts(k, n)
    BY DEF Good
  <1>2. Typed(l) /\ Settled(l)
    BY <1>1 DEF Typed, Settled
  <1>3. Linked(l)
    BY <1>1, OffList
  <1>4. Counts(l, n) /\ Order(l, free, r)
    BY <1>1, AsideOrder
  <1> QED
    BY <1>2, <1>3, <1>4 DEF Good, Elsewhere

LEMMA FreeGood ==
  ASSUME NEW k, NEW free, NEW n \in Int, NEW r, Good(k, free, n, r), NEW l, l.wheel = k.wheel,
         NEW t \in Timers, k.tmr[t].state \notin {"RUNNING", "UNUSED"},
         l.tmr \in [Timers -> TMR], \A u \in Timers \ {t} : l.tmr[u] = k.tmr[u],
         l.tmr[t].state = "UNUSED", l.tmr[t].next = free
  PROVE  /\ \E q : Good(l, t, n - 1, q) /\ \A u \in Timers \ {t} : q[u] = r[u]
         /\ Elsewhere(l, k, t) /\ l.tmr[t].state = "UNUSED"
  <1>1. Typed(k) /\ Linked(k) /\ Settled(k) /\ Order(k, free, r) /\ Counts(k, n)
    BY DEF Good
  <1>2. Typed(l) /\ Settled(l)
    BY <1>1 DEF Typed, Settled
  <1>3. Linked(l)
    BY <1>1, OffList
  <1>4. Counts(l, n - 1) /\ \E q : Order(l, t, q) /\ \A u \in Timers \ {t} : q[u] = r[u]
    BY <1>1, FreeOrder
  <1> QED
    BY <1>2, <1>3, <1>4 DEF Good, Elsewhere

LEMMA MemGood ==
  ASSUME IInv, NEW r, Good(Mem, freeList, used, r)
  PROVE  /\ \A t : Elsewhere(Mem, Mem, t)
         /\ time \in 0 .. TimeRange - 1 /\ freeList \in Ptr /\ used \in Int
  BY DEF Elsewhere, IInv, TypeOK

LEMMA DelStep ==
  ASSUME WInv, NEW t \in Timers, OSTmrDel(t) PROVE WInv' /\ Al!Delete(t)
  <1> DEFINE k == IF tmr[t].state = "RUNNING" THEN OSTmr_Unlink(Mem, t) ELSE Mem
             node == [k.tmr[t] EXCEPT !.state = "UNUSED", !.setting = NoSetting, !.match = 0,
                                      !.prev = Null, !.next = freeList]
             n == [tmr |-> [k.tmr EXCEPT ![t] = node], wheel |-> k.wheel]
  <1>1. PICK r : Good(Mem, freeList, used, r) /\ Ahead(r)
    BY DEF WInv
  <1>2. IInv /\ IInv' /\ freeList \in Ptr /\ used \in Int
    BY <1>1, DelOK, MemGood DEF WInv
  <1>3. Good(k, freeList, used, r) /\ Elsewhere(k, Mem, t) /\ k.tmr[t].state \notin {"RUNNING", "UNUSED"}
    <2>1. CASE tmr[t].state = "RUNNING"
      BY <1>1, <2>1, UnlinkGood DEF Mem
    <2>2. CASE tmr[t].state # "RUNNING"
      BY <1>1, <1>2, <2>2, MemGood DEF Mem, OSTmrDel
    <2> QED
      BY <2>1, <2>2
  <1>4. /\ tmr' = n.tmr /\ wheel' = n.wheel /\ freeList' = t /\ used' = used - 1 /\ MayTouch(t)
        /\ UNCHANGED <<time, signals, task>>
    BY DEF OSTmrDel, OSTmr_Free
  <1> HIDE DEF k
  <1>5. node \in TMR /\ node.state = "UNUSED" /\ node.next = freeList
    <2>1. 0 \in 0 .. TimeRange - 1 /\ Typed(k)
      BY <1>3, WheelAssumption DEF Good
    <2> QED
      BY <1>2, <2>1 DEF Typed, TMR, States, AllSettings, Ptr
  <1> HIDE DEF node
  <1>6. /\ \E q : Good(n, t, used - 1, q) /\ \A u \in Timers \ {t} : q[u] = r[u]
        /\ Elsewhere(n, k, t) /\ n.tmr[t].state = "UNUSED"
    <2>1. /\ n.wheel = k.wheel /\ n.tmr \in [Timers -> TMR]
          /\ n.tmr[t] = node /\ \A u \in Timers \ {t} : n.tmr[u] = k.tmr[u]
      BY <1>3, <1>5 DEF Good, Typed
    <2> HIDE DEF n
    <2> QED
      BY <1>2, <1>3, <1>5, <2>1, FreeGood
  <1> HIDE DEF n
  <1>7. PICK q : Good(n, t, used - 1, q) /\ \A u \in Timers \ {t} : q[u] = r[u]
    BY <1>6
  <1>8. Elsewhere(n, Mem, t)
    BY <1>3, <1>6 DEF Elsewhere
  <1>9. task.at # "walk" /\ (task.at = "callback" => t # task.next)
    BY <1>4 DEF MayTouch, IInv, WInv
  <1>10. WInv'
    BY <1>1, <1>2, <1>4, <1>6, <1>7, <1>8, <1>9, Serve
  <1>11. Al!Delete(t)
    <2>1. AlSetting' = [AlSetting EXCEPT ![t] = Null] /\ AlLeft' = [AlLeft EXCEPT ![t] = Null]
      BY <1>4, <1>6, <1>8, ViewElse
    <2>2. AlGone' = AlGone
      BY <1>4 DEF AlGone
    <2> QED
      BY <1>9, <2>1, <2>2, MayServe, AlDelete
  <1> QED
    BY <1>10, <1>11

LEMMA StartStep ==
  ASSUME WInv, NEW t \in Timers, OSTmrStart(t) PROVE WInv' /\ Al!Start(t)
  <1> DEFINE k == IF tmr[t].state = "RUNNING" THEN OSTmr_Unlink(Mem, t) ELSE Mem
             l == OSTmr_Link(k, t, FALSE)
  <1>1. PICK r : Good(Mem, freeList, used, r) /\ Ahead(r)
    BY DEF WInv
  <1>2. IInv /\ IInv' /\ time \in 0 .. TimeRange - 1
    BY <1>1, StartOK, MemGood DEF WInv
  <1>3. /\ tmr' = l.tmr /\ wheel' = l.wheel /\ MayTouch(t) /\ tmr[t].state # "UNUSED"
        /\ UNCHANGED <<freeList, used, time, signals, task>>
    BY DEF OSTmrStart, Into
  <1>4. /\ Good(k, freeList, used, r) /\ Elsewhere(k, Mem, t)
        /\ k.tmr[t].state \notin {"RUNNING", "UNUSED"} /\ k.tmr[t].setting = tmr[t].setting
    <2>1. CASE tmr[t].state = "RUNNING"
      BY <1>1, <2>1, UnlinkGood DEF Mem
    <2>2. CASE tmr[t].state # "RUNNING"
      BY <1>1, <1>2, <1>3, <2>2, MemGood DEF Mem
    <2> QED
      BY <2>1, <2>2
  <1> HIDE DEF k
  <1>5. /\ \E q : Good(l, freeList, used, q) /\ \A u \in Timers \ {t} : q[u] = r[u]
        /\ Elsewhere(l, k, t)
        /\ l.tmr[t].state = "RUNNING" /\ l.tmr[t].setting = k.tmr[t].setting
        /\ l.tmr[t].match # time
        /\ (l.tmr[t].match - time) % TimeRange = Delay(k.tmr[t].setting, FALSE)
    <2>1. PICK no \in BOOLEAN : no = FALSE
      OBVIOUS
    <2>2. /\ \E q : Good(OSTmr_Link(k, t, no), freeList, used, q) /\ \A u \in Timers \ {t} : q[u] = r[u]
          /\ Elsewhere(OSTmr_Link(k, t, no), k, t)
          /\ OSTmr_Link(k, t, no).tmr[t].state = "RUNNING"
          /\ OSTmr_Link(k, t, no).tmr[t].setting = k.tmr[t].setting
          /\ OSTmr_Link(k, t, no).tmr[t].match # time
          /\ (OSTmr_Link(k, t, no).tmr[t].match - time) % TimeRange = Delay(k.tmr[t].setting, no)
      BY <1>2, <1>4, <2>1, LinkGood
    <2> QED
      BY <2>1, <2>2
  <1> HIDE DEF l
  <1>6. PICK q : Good(l, freeList, used, q) /\ \A u \in Timers \ {t} : q[u] = r[u]
    BY <1>5
  <1>7. Elsewhere(l, Mem, t)
    BY <1>4, <1>5 DEF Elsewhere
  <1>8. task.at # "walk" /\ (task.at = "callback" => t # task.next)
    BY <1>3 DEF MayTouch, IInv, WInv
  <1>9. WInv'
    BY <1>1, <1>2, <1>3, <1>5, <1>6, <1>7, <1>8, Serve
  <1>10. Al!Start(t)
    <2>1. tmr[t].setting \in Settings /\ AlSetting[t] = tmr[t].setting
      BY <1>1, <1>3 DEF Good, Settled, Mem, AlSetting
    <2>2. /\ AlSetting' = [AlSetting EXCEPT ![t] = tmr[t].setting]
          /\ AlLeft' = [AlLeft EXCEPT ![t] = Delay(tmr[t].setting, FALSE)]
      <3>1. l.tmr[t].setting = tmr[t].setting /\ l.tmr[t].state # "UNUSED"
              /\ (l.tmr[t].match - time) % TimeRange = Delay(tmr[t].setting, FALSE)
        BY <1>4, <1>5
      <3>2. PICK s, e : s = tmr[t].setting /\ e = Delay(tmr[t].setting, FALSE)
        OBVIOUS
      <3>3. /\ s = IF l.tmr[t].state = "UNUSED" THEN Null ELSE l.tmr[t].setting
            /\ e = IF l.tmr[t].state = "RUNNING" THEN (l.tmr[t].match - time) % TimeRange ELSE Null
        BY <1>5, <3>1, <3>2
      <3>4. AlSetting' = [AlSetting EXCEPT ![t] = s] /\ AlLeft' = [AlLeft EXCEPT ![t] = e]
        BY <1>3, <1>7, <3>3, ViewElse
      <3> QED
        BY <3>2, <3>4
    <2>3. AlSetting' = AlSetting
      BY <2>1, <2>2 DEF AlSetting
    <2>4. AlGone' = AlGone
      BY <1>3 DEF AlGone
    <2> QED
      BY <1>8, <2>1, <2>2, <2>3, <2>4, MayServe, AlStart, NullApart
  <1> QED
    BY <1>9, <1>10

LEMMA StopStep ==
  ASSUME WInv, NEW t \in Timers, OSTmrStop(t) PROVE WInv' /\ Al!Stop(t)
  <1> DEFINE l == OSTmr_Unlink(Mem, t)
  <1>1. PICK r : Good(Mem, freeList, used, r) /\ Ahead(r)
    BY DEF WInv
  <1>2. IInv /\ IInv'
    BY <1>1, StartOK DEF WInv
  <1>3. /\ tmr' = l.tmr /\ wheel' = l.wheel /\ MayTouch(t) /\ tmr[t].state = "RUNNING"
        /\ UNCHANGED <<freeList, used, time, signals, task>>
    BY DEF OSTmrStop, Into
  <1>4. /\ Good(l, freeList, used, r) /\ Elsewhere(l, Mem, t)
        /\ l.tmr[t].state = "STOPPED" /\ l.tmr[t].setting = tmr[t].setting
    BY <1>1, <1>3, UnlinkGood DEF Mem
  <1> HIDE DEF l
  <1>5. task.at # "walk" /\ (task.at = "callback" => t # task.next)
    BY <1>3 DEF MayTouch, IInv, WInv
  <1>6. WInv'
    BY <1>1, <1>2, <1>3, <1>4, <1>5, Serve
  <1>7. Al!Stop(t)
    <2>1. /\ AlSetting' = [AlSetting EXCEPT ![t] = tmr[t].setting]
          /\ AlLeft' = [AlLeft EXCEPT ![t] = Null]
      BY <1>3, <1>4, ViewElse
    <2>2. AlSetting' = AlSetting
      BY <1>3, <2>1 DEF AlSetting
    <2>3. AlGone' = AlGone
      BY <1>3 DEF AlGone
    <2> QED
      BY <1>5, <2>1, <2>2, <2>3, MayServe, AlStop
  <1> QED
    BY <1>6, <1>7

LEMMA CreateStep ==
  ASSUME WInv, NEW s \in Settings, OSTmrCreate(s) PROVE WInv' /\ \E t \in Timers : Al!Create(t)
  <1>0. PICK t : t = freeList
    OBVIOUS
  <1> DEFINE node == [tmr[t] EXCEPT !.state = "STOPPED", !.setting = s, !.next = Null,
                                    !.prev = Null]
             n    == [tmr |-> [tmr EXCEPT ![t] = node], wheel |-> wheel]
  <1>1. PICK r : Good(Mem, freeList, used, r) /\ Ahead(r)
    BY DEF WInv
  <1>2. IInv /\ IInv' /\ used \in Int
    BY <1>1, CreateOK, MemGood DEF WInv
  <1>3. t \in Timers /\ tmr[t].state = "UNUSED"
    BY <1>0, <1>2 DEF OSTmrCreate, OSTmr_Alloc, IInv, LinksOK, FreeLinked, Unused
  <1>4. node \in TMR /\ node.state = "STOPPED" /\ node.setting = s
    BY <1>2, <1>3 DEF IInv, TypeOK, TMR, States, AllSettings, Ptr
  <1>5. tmr' = n.tmr /\ wheel' = n.wheel /\ freeList' = tmr[t].next /\ used' = used + 1
          /\ UNCHANGED <<time, signals, task>> /\ task.at # "walk"
    BY <1>0 DEF OSTmrCreate, OSTmr_Alloc
  <1> HIDE DEF node
  <1>6. /\ n.wheel = wheel /\ n.tmr \in [Timers -> TMR]
        /\ n.tmr[t] = node /\ \A u \in Timers \ {t} : n.tmr[u] = tmr[u]
    BY <1>1, <1>3, <1>4 DEF Good, Typed, Mem
  <1> HIDE DEF n
  <1>7. Typed(Mem) /\ Linked(Mem) /\ Settled(Mem) /\ Order(Mem, t, r) /\ Counts(Mem, used)
    BY <1>0, <1>1 DEF Good
  <1>8. Typed(n) /\ Settled(n)
    BY <1>4, <1>6, <1>7 DEF Typed, Settled, Mem
  <1>9. Linked(n)
    BY <1>3, <1>4, <1>6, <1>7, OffList DEF Mem
  <1>10. Counts(n, used + 1) /\ Order(n, tmr[t].next, r)
    BY <1>2, <1>3, <1>4, <1>6, <1>7, AllocOrder DEF Mem
  <1>11. Good(n, tmr[t].next, used + 1, r)
    BY <1>8, <1>9, <1>10 DEF Good
  <1>12. Elsewhere(n, Mem, t)
    BY <1>6 DEF Elsewhere, Mem
  <1>13. task.at = "callback" => t # task.next
    BY <1>2, <1>3, NullRange DEF IInv, LinksOK, On, Mem
  <1>14. WInv'
    BY <1>1, <1>2, <1>3, <1>4, <1>5, <1>6, <1>11, <1>12, <1>13, Serve
  <1>15. Al!Create(t)
    <2>1. /\ AlSetting' = [AlSetting EXCEPT ![t] = s]
          /\ AlLeft' = [AlLeft EXCEPT ![t] = Null]
      BY <1>3, <1>4, <1>5, <1>6, <1>12, ViewElse
    <2>2. AlSetting[t] = Null /\ AlLeft[t] = Null
      BY <1>3 DEF AlSetting, AlLeft
    <2>3. AlLeft' = AlLeft
      BY <2>1, <2>2 DEF AlLeft
    <2>4. AlGone' = AlGone
      BY <1>5 DEF AlGone
    <2> QED
      BY <1>3, <2>1, <2>2, <2>3, <2>4, AlCreate
  <1> QED
    BY <1>3, <1>14, <1>15

(***************************************************************************)
(* OSTmr_Task and the invariant.                                           *)
(***************************************************************************)
(* A step of OSTmr_Task that leaves timers and lists alone. *)
LEMMA QuietGood ==
  ASSUME NEW r, Good(Mem, freeList, used, r), UNCHANGED <<tmr, wheel, freeList, used>>
  PROVE  Good(Mem, freeList, used, r)'
  <1>1. tmr' = Mem.tmr /\ wheel' = Mem.wheel
    BY DEF Mem
  <1>2. Good(Mem', freeList, used, r)
    BY <1>1, GoodInto
  <1> QED
    BY <1>2

LEMMA TickStep ==
  ASSUME WInv, OSTmr_Task_Tick PROVE WInv' /\ Al!Tick
  <1>1. PICK r : Good(Mem, freeList, used, r) /\ Ahead(r)
    BY DEF WInv
  <1>2. IInv /\ IInv' /\ time \in 0 .. TimeRange - 1 /\ TimeRange \in Nat \ {0}
    BY <1>1, TickOK, MemGood, WheelAssumption DEF WInv
  <1>3. /\ task.at = "pend" /\ time' = (time + 1) % TimeRange
        /\ task' = [at |-> "walk", ptmr |-> wheel[Spoke(time')].first, next |-> Null]
        /\ UNCHANGED <<tmr, wheel, freeList, used>>
    BY DEF OSTmr_Task_Tick
  <1>4. \A t \in Timers : tmr[t].state = "RUNNING" => tmr[t].match # time
    BY <1>1, <1>3 DEF Ahead
  <1>5. Good(Mem, freeList, used, r)'
    BY <1>1, <1>3, QuietGood
  <1>6. Ahead(r)'
    <2> DEFINE s == Spoke(time')
    <2>1. s \in Spokes
      BY <1>2, SpokeRange DEF IInv, TypeOK
    <2>2. Sorted(tmr, OnSpoke(Mem, s), wheel[s].first, r)
      BY <1>1, <2>1 DEF Good, Order, Mem
    <2>3. ASSUME NEW t \in Timers, tmr[t].state = "RUNNING", tmr[t].match = time'
          PROVE  wheel[s].first # Null /\ r[wheel[s].first] <= r[t]
      <3>1. t \in OnSpoke(Mem, s)
        BY <2>3 DEF OnSpoke, On, Mem
      <3> HIDE DEF s
      <3> QED
        BY <2>2, <3>1 DEF Sorted
    <2>4. task'.at = "walk" /\ Cursor' = wheel[s].first
      BY <1>3 DEF Cursor
    <2> HIDE DEF s
    <2> QED
      BY <1>3, <2>3, <2>4 DEF Ahead
  <1>7. WInv'
    BY <1>2, <1>3, <1>5, <1>6 DEF WInv
  <1>8. Al!Tick
    <2>1. \A t \in Timers : AlLeft[t] # 0
      BY <1>2, <1>4, LeftRange
    <2>2. AlSetting' = AlSetting
      BY <1>3 DEF AlSetting
    <2>3. AlGone' = AlGone
      BY <1>3 DEF AlGone
    <2>4. AlLeft' = [t \in Timers |-> IF tmr[t].state = "RUNNING" THEN (tmr[t].match - time') % TimeRange
                                      ELSE Null]
      BY <1>3 DEF AlLeft, OSTmrRemainGet
    <2>5. ASSUME NEW t \in Timers
          PROVE  (IF tmr[t].state = "RUNNING" THEN (tmr[t].match - time') % TimeRange ELSE Null)
                   = IF AlLeft[t] = Null THEN Null ELSE AlLeft[t] - 1
      <3>1. CASE tmr[t].state # "RUNNING"
        BY <3>1, LeftIs
      <3>2. CASE tmr[t].state = "RUNNING"
        <4>1. tmr[t].match \in 0 .. TimeRange - 1 /\ tmr[t].match # time
          BY <1>2, <1>4, <3>2 DEF IInv, TypeOK
        <4>2. (tmr[t].match - time') % TimeRange = ((tmr[t].match - time) % TimeRange) - 1
          BY <1>2, <1>3, <4>1, OneTick
        <4>3. AlLeft[t] = (tmr[t].match - time) % TimeRange /\ AlLeft[t] # Null
          BY <1>2, <3>2, LeftIs, LeftRange
        <4> QED
          BY <3>2, <4>2, <4>3, Zenon
      <3> QED
        BY <3>1, <3>2
    <2>6. AlLeft' = [t \in Timers |-> IF AlLeft[t] = Null THEN Null ELSE AlLeft[t] - 1]
      BY <2>4, <2>5
    <2> QED
      BY <2>1, <2>2, <2>3, <2>6, AlTick
  <1> QED
    BY <1>7, <1>8

(* A timer goes off. *)
LEMMA GoOffStep ==
  ASSUME WInv, OSTmr_Task_Look, time = tmr[task.ptmr].match
  PROVE  WInv' /\ \E t \in Timers : Al!GoOff(t)
  <1>0. PICK t : t = task.ptmr
    OBVIOUS
  <1> DEFINE off  == OSTmr_Unlink(Mem, t)
             over == [off EXCEPT !.tmr[t].state = "COMPLETED"]
             l    == IF tmr[t].setting.periodic THEN OSTmr_Link(off, t, TRUE) ELSE over
  <1>1. PICK r : Good(Mem, freeList, used, r) /\ Ahead(r)
    BY DEF WInv
  <1>2. IInv /\ IInv' /\ time \in 0 .. TimeRange - 1
    BY <1>1, LookOK, MemGood DEF WInv
  <1>3. t \in Timers /\ tmr[t].state = "RUNNING" /\ tmr[t].match = time /\ On(Mem, t, Spoke(time))
    BY <1>0, <1>2 DEF OSTmr_Task_Look, IInv, LinksOK, On, Mem
  <1>4. /\ tmr' = l.tmr /\ wheel' = l.wheel /\ task.at = "walk"
        /\ task' = [task EXCEPT !.at = "callback", !.next = tmr[t].next]
        /\ UNCHANGED <<freeList, used, time, signals>>
    BY <1>0, <1>3 DEF OSTmr_Task_Look, Into
  <1>5. tmr[t].setting \in Settings /\ AlSetting[t] = tmr[t].setting /\ AlLeft[t] = 0
    BY <1>1, <1>2, <1>3, LeftRange DEF Good, Settled, Mem, AlSetting
  <1>6. /\ Good(off, freeList, used, r) /\ Elsewhere(off, Mem, t)
        /\ off.tmr[t].state = "STOPPED" /\ off.tmr[t].setting = tmr[t].setting
    BY <1>1, <1>3, UnlinkGood DEF Mem
  <1> DEFINE s == tmr[t].setting
             e == IF s.periodic THEN s.period ELSE Null
  <1>7. /\ \E q : Good(l, freeList, used, q) /\ \A u \in Timers \ {t} : q[u] = r[u]
        /\ Elsewhere(l, off, t) /\ l.tmr[t].setting = s
        /\ l.tmr[t].state # "UNUSED" /\ (l.tmr[t].state = "RUNNING" => l.tmr[t].match # time)
        /\ e = IF l.tmr[t].state = "RUNNING" THEN (l.tmr[t].match - time) % TimeRange ELSE Null
    <2>1. CASE tmr[t].setting.periodic
      <3> HIDE DEF off
      <3>1. PICK p \in BOOLEAN : p = TRUE
        OBVIOUS
      <3> DEFINE m == OSTmr_Link(off, t, p)
      <3>2. /\ \E q : Good(m, freeList, used, q) /\ \A u \in Timers \ {t} : q[u] = r[u]
            /\ Elsewhere(m, off, t)
            /\ m.tmr[t].state = "RUNNING" /\ m.tmr[t].setting = off.tmr[t].setting
            /\ m.tmr[t].match # time
            /\ (m.tmr[t].match - time) % TimeRange = Delay(off.tmr[t].setting, p)
        BY <1>2, <1>3, <1>6, <2>1, LinkGood
      <3>3. l = m /\ Delay(s, p) = s.period
        BY <2>1, <3>1 DEF Delay
      <3> HIDE DEF m, l, s
      <3>4. s.periodic /\ off.tmr[t].setting = s
        BY <1>6, <2>1 DEF s
      <3>5. e = (m.tmr[t].match - time) % TimeRange
        BY <3>2, <3>3, <3>4
      <3> HIDE DEF e
      <3> QED
        BY <3>2, <3>3, <3>4, <3>5
    <2>2. CASE ~tmr[t].setting.periodic
      <3>1. over.wheel = off.wheel /\ over.tmr = [off.tmr EXCEPT ![t].state = "COMPLETED"]
        BY DEF OSTmr_Unlink
      <3> HIDE DEF off, over
      <3>2. /\ over.tmr \in [Timers -> TMR] /\ over.tmr[t].state = "COMPLETED"
            /\ over.tmr[t].setting = off.tmr[t].setting
            /\ \A u \in Timers \ {t} : over.tmr[u] = off.tmr[u]
        BY <1>3, <1>6, <3>1 DEF Good, Typed, TMR, States
      <3>3. Good(over, freeList, used, r) /\ Elsewhere(over, off, t)
        BY <1>3, <1>5, <1>6, <3>1, <3>2, AsideGood
      <3>4. l = over /\ e = Null
        BY <2>2
      <3> HIDE DEF l, e
      <3> QED
        BY <1>6, <3>2, <3>3, <3>4
    <2> QED
      BY <2>1, <2>2
  <1> HIDE DEF off, over, l
  <1>8. PICK q : Good(l, freeList, used, q) /\ \A u \in Timers \ {t} : q[u] = r[u]
    BY <1>7
  <1>9. Elsewhere(l, Mem, t)
    BY <1>6, <1>7 DEF Elsewhere
  <1>10. task'.at = "callback" /\ task'.ptmr = t /\ task'.next = tmr[t].next /\ Cursor' = tmr[t].next
    BY <1>0, <1>2, <1>4 DEF IInv, TypeOK, Cursor
  <1>11. Good(Mem, freeList, used, q)'
    BY <1>4, <1>8, GoodInto
  <1>12. Ahead(q)'
    <2> SUFFICES ASSUME NEW u \in Timers, tmr'[u].state = "RUNNING", tmr'[u].match = time
                 PROVE  tmr[t].next # Null /\ q[tmr[t].next] <= q[u]
      BY <1>4, <1>10 DEF Ahead
    <2>1. u # t
      BY <1>4, <1>7
    <2>2. tmr[u].state = "RUNNING" /\ tmr[u].match = time
      BY <1>4, <1>9, <2>1 DEF Elsewhere, Mem
    <2>3. r[t] <= r[u]
      BY <1>0, <1>1, <1>4, <2>2 DEF Ahead, Cursor
    <2> DEFINE S == OnSpoke(Mem, Spoke(time))
    <2>4. t \in S /\ u \in S
      BY <1>3, <2>2 DEF OnSpoke, On, Mem
    <2>5. Sorted(tmr, S, wheel[Spoke(time)].first, r) /\ r \in [Timers -> Int]
      BY <1>1, <1>2, SpokeRange DEF Good, Order, Mem
    <2>6. S \subseteq Timers
      BY DEF OnSpoke
    <2> HIDE DEF S
    <2>7. r[t] # r[u] /\ r[t] \in Int /\ r[u] \in Int
      BY <2>1, <2>4, <2>5, <2>6 DEF Sorted
    <2>8. tmr[t].next # Null /\ r[tmr[t].next] <= r[u]
      BY <2>3, <2>4, <2>5, <2>7 DEF Sorted
    <2>9. tmr[t].next \in Timers \ {t}
      <3>1. tmr[t].next \in S /\ r[t] < r[tmr[t].next]
        BY <2>4, <2>5, <2>8 DEF Sorted
      <3> QED
        BY <2>6, <2>7, <3>1
    <2> QED
      BY <1>8, <2>1, <2>8, <2>9
  <1>13. WInv'
    BY <1>2, <1>3, <1>10, <1>11, <1>12 DEF WInv
  <1>14. Al!GoOff(t)
    <2>1. PICK s0, e0 : s0 = s /\ e0 = e
      OBVIOUS
    <2>2. /\ s0 = IF l.tmr[t].state = "UNUSED" THEN Null ELSE l.tmr[t].setting
          /\ e0 = IF l.tmr[t].state = "RUNNING" THEN (l.tmr[t].match - time) % TimeRange ELSE Null
      <3> HIDE DEF s, e
      <3> QED
        BY <1>7, <2>1
    <2>3. AlSetting' = [AlSetting EXCEPT ![t] = s0] /\ AlLeft' = [AlLeft EXCEPT ![t] = e0]
      BY <1>3, <1>4, <1>9, <2>2, ViewElse
    <2>4. AlSetting' = AlSetting
      BY <1>5, <2>1, <2>3 DEF AlSetting
    <2>5. AlGone' = t
      BY <1>10 DEF AlGone
    <2>6. e0 = IF AlSetting[t].periodic THEN AlSetting[t].period ELSE Null
      BY <1>5, <2>1
    <2>7. AlLeft' = [AlLeft EXCEPT ![t] = IF AlSetting[t].periodic THEN AlSetting[t].period ELSE Null]
      BY <2>3, <2>6
    <2> QED
      BY <1>5, <2>4, <2>5, <2>7, AlGoOff
  <1> QED
    BY <1>3, <1>13, <1>14

(* The walk goes on: past a timer that is not due, after a callback, to    *)
(* the end.  Signals change nothing here.                                  *)
LEMMA WalkStep ==
  ASSUME WInv,
         \/ OSTmr_Task_Look /\ time # tmr[task.ptmr].match
         \/ OSTmr_Task_CallbackReturns \/ OSTmr_Task_Unlock \/ OSTmrSignal \/ UNCHANGED vars
  PROVE  /\ WInv'
         /\ UNCHANGED <<AlSetting, AlLeft>> /\ (AlGone' = AlGone \/ AlGone' = Null)
  <1>1. PICK r : Good(Mem, freeList, used, r) /\ Ahead(r)
    BY DEF WInv
  <1>2. IInv /\ IInv' /\ time \in 0 .. TimeRange - 1
    BY <1>1, LookOK, WalkOK, MemGood DEF WInv
  <1>3. UNCHANGED <<tmr, wheel, freeList, used, time>>
    BY DEF OSTmr_Task_Look, OSTmr_Task_CallbackReturns, OSTmr_Task_Unlock, OSTmrSignal, vars
  <1>4. Good(Mem, freeList, used, r)'
    BY <1>1, <1>3, QuietGood
  <1>5. UNCHANGED <<AlSetting, AlLeft>>
    BY <1>3 DEF AlSetting, AlLeft, OSTmrRemainGet
  <1>6. ASSUME NEW t \in Timers, tmr[t].state = "RUNNING", tmr[t].match = time
        PROVE  task.at # "pend" /\ Cursor # Null /\ r[Cursor] <= r[t]
    BY <1>1, <1>6 DEF Ahead
  <1>7. CASE OSTmr_Task_Look /\ time # tmr[task.ptmr].match
    <2>0. PICK p : p = task.ptmr
      OBVIOUS
    <2>1. /\ p \in Timers /\ task.at = "walk" /\ On(Mem, p, Spoke(time))
          /\ task' = [task EXCEPT !.ptmr = tmr[p].next] /\ time # tmr[p].match
      BY <1>2, <1>7, <2>0 DEF OSTmr_Task_Look, IInv, LinksOK, On, Mem
    <2>2. task'.at = "walk" /\ Cursor' = tmr[p].next /\ Cursor = p
      BY <1>2, <2>0, <2>1 DEF IInv, TypeOK, Cursor
    <2>3. Ahead(r)'
      <3> SUFFICES ASSUME NEW u \in Timers, tmr[u].state = "RUNNING", tmr[u].match = time
                   PROVE  tmr[p].next # Null /\ r[tmr[p].next] <= r[u]
        BY <1>3, <2>2 DEF Ahead
      <3>1. r[p] <= r[u] /\ u # p
        BY <1>6, <2>1, <2>2
      <3> DEFINE S == OnSpoke(Mem, Spoke(time))
      <3>2. p \in S /\ u \in S
        BY <2>1 DEF OnSpoke, On, Mem
      <3>3. Sorted(tmr, S, wheel[Spoke(time)].first, r) /\ r \in [Timers -> Int]
        BY <1>1, <1>2, SpokeRange DEF Good, Order, Mem
      <3>4. S \subseteq Timers
        BY DEF OnSpoke
      <3> HIDE DEF S
      <3>5. r[p] # r[u] /\ r[p] \in Int /\ r[u] \in Int
        BY <3>1, <3>2, <3>3, <3>4 DEF Sorted
      <3> QED
        BY <3>1, <3>2, <3>3, <3>5 DEF Sorted
    <2>4. AlGone' = AlGone
      BY <2>1, <2>2 DEF AlGone
    <2> QED
      BY <1>2, <1>4, <1>5, <2>2, <2>3, <2>4 DEF WInv
  <1>8. CASE OSTmr_Task_CallbackReturns
    <2>1. task.at = "callback" /\ task' = [at |-> "walk", ptmr |-> task.next, next |-> Null]
      BY <1>8 DEF OSTmr_Task_CallbackReturns
    <2>2. task'.at = "walk" /\ Cursor' = Cursor
      BY <2>1 DEF Cursor
    <2>3. Ahead(r)'
      BY <1>3, <1>6, <2>2 DEF Ahead
    <2>4. AlGone' = Null
      BY <2>1 DEF AlGone
    <2> QED
      BY <1>2, <1>4, <1>5, <2>2, <2>3, <2>4 DEF WInv
  <1>9. CASE OSTmr_Task_Unlock
    <2>1. task.at = "walk" /\ task.ptmr = Null /\ task' = [task EXCEPT !.at = "pend"]
      BY <1>9 DEF OSTmr_Task_Unlock
    <2>2. task'.at = "pend" /\ Cursor = Null
      BY <1>2, <2>1 DEF Cursor, IInv, TypeOK
    <2>3. Ahead(r)'
      BY <1>3, <1>6, <2>2 DEF Ahead
    <2>4. AlGone' = Null
      BY <2>2 DEF AlGone
    <2> QED
      BY <1>2, <1>4, <1>5, <2>2, <2>3, <2>4 DEF WInv
  <1>10. CASE OSTmrSignal \/ UNCHANGED vars
    <2>1. task' = task
      BY <1>10 DEF OSTmrSignal, vars
    <2>2. Ahead(r)'
      BY <1>3, <1>6, <2>1 DEF Ahead, Cursor
    <2>3. AlGone' = AlGone
      BY <2>1 DEF AlGone
    <2>4. (task.at = "callback" => task.ptmr \in Timers)'
      BY <2>1 DEF WInv
    <2> QED
      BY <1>2, <1>4, <1>5, <2>2, <2>3, <2>4 DEF WInv
  <1> QED
    BY <1>7, <1>8, <1>9, <1>10

LEMMA InitStep ==
  ASSUME Init, ~CallbackTouchesNext PROVE WInv /\ Al!Init
  <1>1. IInv
    BY InitOK
  <1>2. /\ \A t \in Timers : /\ tmr[t].state = "UNUSED"
                             /\ tmr[t].next = IF t + 1 \in Timers THEN t + 1 ELSE Null
        /\ \A s \in Spokes : wheel[s].first = Null /\ wheel[s].entries = 0
        /\ freeList = 0 /\ task.at = "pend" /\ used = 0
    BY DEF Init, OSTmr_Init, OSTmr_InitTask
  <1> DEFINE r == [t \in Timers |-> t]
  <1>3. /\ r \in [Timers -> Int] /\ 0 \in Timers /\ OS_TMR_CFG_MAX \in Nat
        /\ \A t \in Timers : r[t] = t /\ t \in Nat
    BY WheelAssumption DEF Timers
  <1> HIDE DEF r
  <1>4. \A s : OnSpoke(Mem, s) = {}
    BY <1>2 DEF OnSpoke, On, Mem
  <1>5. UnusedIn(Mem) = Timers
    BY <1>2 DEF UnusedIn, Mem
  <1>6. \A s \in Spokes : Sorted(tmr, {}, wheel[s].first, r)
    BY <1>2 DEF Sorted
  <1>7. Sorted(tmr, Timers, freeList, r)
    <2>1. \A t \in Timers : tmr[t].next # Null => tmr[t].next = t + 1 /\ t + 1 \in Timers
      BY <1>2
    <2>2. \A t, u \in Timers : t < u => t + 1 \in Timers /\ t + 1 <= u
      BY <1>3 DEF Timers
    <2>3. \A t, u \in Timers : r[t] < r[u] => tmr[t].next = t + 1 /\ t + 1 \in Timers /\ t + 1 <= u
      BY <1>2, <1>3, <2>2
    <2>4. \A t \in Timers : t # Null /\ 0 <= t /\ t < t + 1
      BY <1>3, NullRange
    <2>5. freeList # Null /\ freeList \in Timers /\ \A t \in Timers : r[freeList] <= r[t]
      BY <1>2, <1>3, <2>4
    <2>6. \A t \in Timers : tmr[t].next # Null => tmr[t].next \in Timers /\ r[t] < r[tmr[t].next]
      BY <1>3, <2>1, <2>4
    <2>7. \A t, u \in Timers : r[t] < r[u] => tmr[t].next # Null /\ r[tmr[t].next] <= r[u]
      BY <1>3, <2>3, <2>4
    <2> QED
      BY <1>3, <2>5, <2>6, <2>7 DEF Sorted
  <1>8. Order(Mem, freeList, r)
    BY <1>3, <1>4, <1>5, <1>6, <1>7 DEF Order, Mem
  <1>9. Counts(Mem, used)
    <2>1. Cardinality({}) = 0 /\ Cardinality(Timers) = OS_TMR_CFG_MAX
      BY FS_EmptySet, TimersFinite
    <2>2. \A s \in Spokes : Mem.wheel[s].entries = 0
      BY <1>2 DEF Mem
    <2>3. \A s \in Spokes : Mem.wheel[s].entries = Cardinality(OnSpoke(Mem, s))
      BY <1>4, <2>1, <2>2
    <2>4. used = OS_TMR_CFG_MAX - Cardinality(UnusedIn(Mem))
      BY <1>2, <1>3, <1>5, <2>1
    <2> QED
      BY <2>3, <2>4 DEF Counts
  <1>10. Settled(Mem)
    BY <1>2 DEF Settled, Mem
  <1>11. Good(Mem, freeList, used, r)
    BY <1>1, <1>8, <1>9, <1>10, MemTyped DEF Good
  <1>12. Ahead(r)
    BY <1>2 DEF Ahead
  <1>13. WInv
    BY <1>1, <1>2, <1>11, <1>12 DEF WInv
  <1>14. Al!Init
    BY <1>2 DEF Al!Init
  <1> QED
    BY <1>13, <1>14

LEMMA NextStep ==
  ASSUME WInv, [Next]_vars PROVE WInv' /\ (Al!Next \/ UNCHANGED <<AlSetting, AlLeft, AlGone>>)
  <1>1. CASE \E s \in Settings : OSTmrCreate(s)
    BY <1>1, CreateStep DEF Al!Next
  <1>2. CASE \E t \in Timers : OSTmrDel(t) \/ OSTmrStart(t) \/ OSTmrStop(t)
    BY <1>2, DelStep, StartStep, StopStep DEF Al!Next
  <1>3. CASE OSTmr_Task_Tick
    BY <1>3, TickStep DEF Al!Next
  <1>4. CASE OSTmr_Task_Look /\ time = tmr[task.ptmr].match
    BY <1>4, GoOffStep DEF Al!Next
  <1>5. CASE \/ OSTmr_Task_Look /\ time # tmr[task.ptmr].match
             \/ OSTmr_Task_CallbackReturns \/ OSTmr_Task_Unlock \/ OSTmrSignal \/ UNCHANGED vars
    <2>1. WInv' /\ UNCHANGED <<AlSetting, AlLeft>> /\ (AlGone' = AlGone \/ AlGone' = Null)
      BY <1>5, WalkStep
    <2>2. AlGone' = Null => Al!Handled
      BY <2>1, AlHandled
    <2> QED
      BY <2>1, <2>2 DEF Al!Next
  <1> QED
    BY <1>1, <1>2, <1>3, <1>4, <1>5 DEF Next, OSTmr_Task

(***************************************************************************)
(* Every running timer can be reached in the list of its spoke, every      *)
(* unused one in the free list and no other one, every list ends, and      *)
(* OSTmrUsed and the entries of the spokes count them (OSTmr_Link,         *)
(* OSTmr_Unlink, OSTmr_Alloc, OSTmr_Free).                                 *)
(***************************************************************************)
THEOREM WheelHolds ==
  ASSUME ~CallbackTouchesNext PROVE Spec => []WheelOK
  <1>1. Init => WInv
    BY InitStep
  <1>2. WInv /\ [Next]_vars => WInv'
    BY NextStep
  <1>3. WInv => WheelOK
    <2> SUFFICES ASSUME WInv PROVE WheelOK
      OBVIOUS
    <2>1. PICK r : Good(Mem, freeList, used, r)
      BY DEF WInv
    <2>2. r \in [Timers -> Int] /\ Order(Mem, freeList, r) /\ Counts(Mem, used) /\ used \in Int
      BY <2>1 DEF Good, Order, WInv, IInv, TypeOK
    <2>3. ASSUME NEW s \in Spokes
          PROVE  Chain(wheel[s].first) = OnSpoke(Mem, s) /\ Ends(wheel[s].first)
      <3>1. Sorted(tmr, OnSpoke(Mem, s), wheel[s].first, r) /\ OnSpoke(Mem, s) \subseteq Timers
        BY <2>2 DEF Order, Mem, OnSpoke
      <3> QED
        BY <2>2, <3>1, SortedChain
    <2>4. Chain(freeList) = UnusedIn(Mem) /\ Ends(freeList)
      <3>1. Sorted(tmr, UnusedIn(Mem), freeList, r) /\ UnusedIn(Mem) \subseteq Timers
        BY <2>2 DEF Order, Mem, UnusedIn
      <3> QED
        BY <2>2, <3>1, SortedChain
    <2>5. \A s \in Spokes :
            OnSpoke(Mem, s) = {t \in Timers : tmr[t].state = "RUNNING" /\ Spoke(tmr[t].match) = s}
      BY DEF OnSpoke, On, Mem
    <2>6. UnusedIn(Mem) = {t \in Timers : tmr[t].state = "UNUSED"}
      BY DEF UnusedIn, Mem
    <2>7. \A s \in Spokes : wheel[s].entries = Cardinality(OnSpoke(Mem, s))
      BY <2>2 DEF Counts, Mem
    <2>8. used = OS_TMR_CFG_MAX - Cardinality(UnusedIn(Mem))
      BY <2>2 DEF Counts
    <2> QED
      BY <2>3, <2>4, <2>5, <2>6, <2>7, <2>8 DEF WheelOK
  <1> QED
    BY <1>1, <1>2, <1>3, PTL DEF Spec

(***************************************************************************)
(* The timers go off exactly when Alarms says they must, for any number of *)
(* timers and any settings, wherever OSTmrTime wraps and whatever the      *)
(* callbacks do to timers other than the one the walk goes on with         *)
(* (OSTmr_Task, OSTmr_Link, and every service).                            *)
(***************************************************************************)
THEOREM AlarmsImplemented ==
  ASSUME ~CallbackTouchesNext PROVE Spec => AlarmsSpec
  <1>1. Init => WInv /\ Al!Init
    BY InitStep
  <1>2. WInv /\ [Next]_vars => WInv' /\ [Al!Next]_<<AlSetting, AlLeft, AlGone>>
    BY NextStep
  <1> QED
    BY <1>1, <1>2, PTL DEF Spec, AlarmsSpec, Al!Spec, AlSetting, AlLeft, AlGone
=============================================================================
