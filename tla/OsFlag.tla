------------------------------- MODULE OsFlag -------------------------------
(***************************************************************************)
(* Event flag groups (os_flag.c).  A task waits until all or any of some   *)
(* flags are set, or until they are clear, and may consume them when it    *)
(* gets them: flags that were set are cleared and the reverse.  A task     *)
(* that had to wait consumes them only when it runs again.                 *)
(***************************************************************************)
EXTENDS OsCore

Conditions == [flags : SUBSET FlagBits \ {{}}, set : BOOLEAN, any : BOOLEAN]

(* The null pointer is no entry of a wait list.                            *)
ASSUME NodeAssumption == None \notin [grp : FlagIds, cond : Conditions]

NewFlag(flags) == [type |-> "FLAG", flags |-> flags, wait |-> {}]
IsFlag(g)      == os.flag[g].type = "FLAG"
Group(g, deletes) == [NothingSeen EXCEPT !.groups = {g}, !.deletes = deletes]

OSFlag_CheckType(g, deletes) ==
  /\ IsFlag(g)
  /\ CheckType(IF deletes THEN {"OSFlagDel"} ELSE {"OSFlagAccept", "OSFlagPend", "OSFlagPost"},
               Group(g, deletes))

(* The flags of c that group flags F have as the condition c wants them.   *)
FlagsRdy(F, c)  == IF c.set THEN F \cap c.flags ELSE c.flags \ F
Satisfied(F, c) == IF c.any THEN FlagsRdy(F, c) # {} ELSE FlagsRdy(F, c) = c.flags
Consumed(F, rdy, c) == IF c.set THEN F \ rdy ELSE F \cup rdy

OSFlagCreate(flags) ==
  /\ AtTask("OSFlagCreate")
  /\ os.freeFlags # <<>>
  /\ Leave([os EXCEPT !.flag[Head(os.freeFlags)] = NewFlag(flags), !.freeFlags = Tail(@)], <<>>)
  /\ io' = NoIO

(* The tasks S of the wait list get the flags rdy[t]; who has no other     *)
(* reason to wait is ready.                                                *)
OS_FlagTaskRdy(k, S, rdy) ==
  LET woken == [k EXCEPT
        !.tcb = [t \in TCBs |->
                   IF t \notin S THEN k.tcb[t]
                   ELSE [k.tcb[t] EXCEPT !.dly = 0, !.flagsRdy = rdy[t], !.stat = @ \ {"FLAG"},
                           !.pend = "OK", !.node = None]],
        !.flag = [g \in FlagIds |-> [k.flag[g] EXCEPT !.wait = @ \ S]]]
  IN  MakeReady(woken, {t \in S : woken.tcb[t].stat = {}})

OSFlagDel(g, always) ==
  LET S    == os.flag[g].wait
      left == OS_FlagTaskRdy(os, S, [t \in S |-> {}])
  IN  /\ AtTask("OSFlagDel")
      /\ IsFlag(g)
      /\ Checked(Group(g, TRUE))
      /\ S # {} => always
      /\ Leave([left EXCEPT !.flag[g] = UnusedFlag, !.freeFlags = <<g>> \o @],
               IF S # {} THEN <<Sched>> ELSE <<>>)
      /\ io' = NoIO

(* The flags of the group after a task got those it asked for. *)
Take(g, c, consume) ==
  LET F == os.flag[g].flags
  IN  IF consume THEN [os EXCEPT !.flag[g].flags = Consumed(F, FlagsRdy(F, c), c)] ELSE os

OSFlagAccept(g, c, consume) ==
  /\ Anywhere("OSFlagAccept")
  /\ IsFlag(g)
  /\ Checked(Group(g, FALSE))
  /\ Satisfied(os.flag[g].flags, c)
  /\ Leave(Take(g, c, consume), <<>>)
  /\ io' = NoIO

OS_FlagBlock(g, c, timeout) ==
  MakeUnready([StartPend(os, {"FLAG"}, timeout) EXCEPT
                 !.flag[g].wait = @ \cup {os.cur},
                 !.tcb[os.cur].node = [grp |-> g, cond |-> c]], {os.cur})

OSFlagPend(g, c, consume, timeout) ==
  /\ AtTask("OSFlagPend")
  /\ IsFlag(g)
  /\ Checked(Group(g, FALSE))
  /\ os.lock = 0
  /\ IF Satisfied(os.flag[g].flags, c)
       THEN Leave([Take(g, c, consume) EXCEPT
                     !.tcb[os.cur].flagsRdy = FlagsRdy(os.flag[g].flags, c)], <<>>)
       ELSE Leave(OS_FlagBlock(g, c, timeout),
                  <<Sched, [op |-> "flag", grp |-> g, cond |-> c, consume |-> consume]>>)
  /\ io' = NoIO

OSFlagPend_Return ==
  LET k == [OS_FlagUnlink(os, os.cur) EXCEPT !.tcb[os.cur].pend = "OK", !.tcb[os.cur].stat = {}]
  IN  /\ Step("flag")
      /\ IF Cur.pend # "OK"
           THEN Proceed(k)
         ELSE IF Now.consume
           THEN Proceed([os EXCEPT !.flag[Now.grp].flags = Consumed(@, Cur.flagsRdy, Now.cond)])
         ELSE Proceed(os)
      /\ io' = NoIO

(* Mutant: the walk over the wait list stops at the first task it wakes.   *)
OSFlagPost_FirstOnly(g, flags, set) ==
  LET F    == IF set THEN os.flag[g].flags \cup flags ELSE os.flag[g].flags \ flags
      all  == {t \in os.flag[g].wait : Satisfied(F, os.tcb[t].node.cond)}
      S    == {t \in all : \A u \in all : t <= u}
      k    == OS_FlagTaskRdy([os EXCEPT !.flag[g].flags = F], S,
                             [t \in S |-> FlagsRdy(F, os.tcb[t].node.cond)])
  IN  /\ Anywhere("OSFlagPost")
      /\ IsFlag(g)
      /\ Checked(Group(g, FALSE))
      /\ Leave(k, IF \E t \in S : k.tcb[t].stat = {} THEN <<Sched>> ELSE <<>>)
      /\ io' = NoIO
(* Mutant: a task that waits for all of its flags is content with one.     *)
OSFlagPost_AllIsAny(g, flags, set) ==
  LET F == IF set THEN os.flag[g].flags \cup flags ELSE os.flag[g].flags \ flags
      S == {t \in os.flag[g].wait : FlagsRdy(F, os.tcb[t].node.cond) # {}}
      k == OS_FlagTaskRdy([os EXCEPT !.flag[g].flags = F], S,
                          [t \in S |-> FlagsRdy(F, os.tcb[t].node.cond)])
  IN  /\ Anywhere("OSFlagPost")
      /\ IsFlag(g)
      /\ Checked(Group(g, FALSE))
      /\ Leave(k, IF \E t \in S : k.tcb[t].stat = {} THEN <<Sched>> ELSE <<>>)
      /\ io' = NoIO
(* Sets or clears flags and wakes every task whose condition now holds.    *)
(* None of them consumes its flags here.                                   *)
OSFlagPost(g, flags, set) ==
  LET F == IF set THEN os.flag[g].flags \cup flags ELSE os.flag[g].flags \ flags
      S == {t \in os.flag[g].wait : Satisfied(F, os.tcb[t].node.cond)}
      k == OS_FlagTaskRdy([os EXCEPT !.flag[g].flags = F], S,
                          [t \in S |-> FlagsRdy(F, os.tcb[t].node.cond)])
  IN  /\ Anywhere("OSFlagPost")
      /\ IsFlag(g)
      /\ Checked(Group(g, FALSE))
      /\ Leave(k, IF \E t \in S : k.tcb[t].stat = {} THEN <<Sched>> ELSE <<>>)
      /\ io' = NoIO

FlagNext ==
  \/ \E flags \in SUBSET FlagBits : OSFlagCreate(flags)
  \/ \E g \in FlagIds :
       \/ \E always \in BOOLEAN : OSFlagDel(g, always)
       \/ \E c \in app.conds, consume \in BOOLEAN :
            OSFlagAccept(g, c, consume) \/ \E timeout \in Timeouts : OSFlagPend(g, c, consume, timeout)
       \/ \E flags \in SUBSET FlagBits \ {{}}, set \in BOOLEAN : OSFlagPost(g, flags, set)
  \/ OSFlagPend_Return
=============================================================================
