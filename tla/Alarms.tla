------------------------------- MODULE Alarms -------------------------------
(***************************************************************************)
(* What software timers promise: an alarm that is set goes off after       *)
(* exactly the ticks it was set to, and time does not go on while an alarm *)
(* that is due has not gone off.  An alarm that is due can still be        *)
(* stopped, but only by what another one that goes off makes happen.       *)
(***************************************************************************)
EXTENDS Integers

CONSTANTS Timers, Off

VARIABLES
  setting,   (* setting[t]: [dly, period, periodic], or Off before creation  *)
  left,      (* left[t]: the ticks until t goes off, or Off                  *)
  gone       (* the alarm that has just gone off, or Off                     *)

First(s)  == IF s.dly = 0 THEN s.period ELSE s.dly
Due(t)    == left[t] = 0
MaySet(t) == Due(t) => gone # Off

Create(t) == /\ setting[t] = Off
             /\ setting' = [setting EXCEPT ![t] = setting'[t]]
             /\ UNCHANGED <<left, gone>>

Delete(t) == /\ MaySet(t)
             /\ setting' = [setting EXCEPT ![t] = Off]
             /\ left' = [left EXCEPT ![t] = Off]
             /\ UNCHANGED gone

Start(t) == /\ setting[t] # Off
            /\ MaySet(t)
            /\ left' = [left EXCEPT ![t] = First(setting[t])]
            /\ UNCHANGED <<setting, gone>>

Stop(t)  == /\ MaySet(t)
            /\ left' = [left EXCEPT ![t] = Off]
            /\ UNCHANGED <<setting, gone>>

GoOff(t) == /\ Due(t)
            /\ left' = [left EXCEPT ![t] = IF setting[t].periodic THEN setting[t].period ELSE Off]
            /\ gone' = t
            /\ UNCHANGED setting

Handled  == gone' = Off /\ UNCHANGED <<setting, left>>

Tick     == /\ \A t \in Timers : ~Due(t)
            /\ left' = [t \in Timers |-> IF left[t] = Off THEN Off ELSE left[t] - 1]
            /\ UNCHANGED <<setting, gone>>

Init == /\ setting = [t \in Timers |-> Off]
        /\ left = [t \in Timers |-> Off]
        /\ gone = Off

Next == \/ Tick \/ Handled
        \/ \E t \in Timers : Create(t) \/ Delete(t) \/ Start(t) \/ Stop(t) \/ GoOff(t)

Spec == Init /\ [][Next]_<<setting, left, gone>>
=============================================================================
