------------------------------- MODULE MCTmr -------------------------------
EXTENDS OsTmr

OneShot(dly)          == [dly |-> dly, period |-> 0, periodic |-> FALSE]
Periodic(dly, period) == [dly |-> dly, period |-> period, periodic |-> TRUE]

MCSettings == {OneShot(1), Periodic(3, 2)}
=============================================================================
