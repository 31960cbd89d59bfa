----------------------------- MODULE MCOpenMIPS -----------------------------
EXTENDS OpenMIPS, TLC

I(op, rd, rs, rt, imm) == [op |-> op, rd |-> rd, rs |-> rs, rt |-> rt, imm |-> imm]

Li(r, v) == I("addiu", r, 0, 0, v)

Prog ==
  (1 :> {I("sw",0,0,0,0)}) @@
  (2 :> {I("eret",0,0,0,0)}) @@
  (4 :> {I("mfc0",2,0,0,EPC)}) @@
  (5 :> {I("addiu",2,2,0,1)}) @@
  (6 :> {I("mtc0",0,0,2,EPC)}) @@
  (7 :> {Li(2,0)}) @@
  (8 :> {I("eret",0,0,0,0)}) @@
  (10 :> {Li(1,1), Li(1,3)}) @@
  (11 :> {I("j",0,0,0,13), I("j",0,0,0,20)}) @@
  (13 :> {I("mtc0",0,0,1,STATUS)}) @@
  (14 :> {I("sw",0,0,1,0), I("div",0,0,1,0), I("teq",0,0,0,0)}) @@
  (15 :> {I("ll",2,0,0,0), I("bne",0,1,0,17)}) @@
  (16 :> {I("sc",2,0,1,0)}) @@
  (17 :> {I("j",0,0,0,14)}) @@
  (18 :> {I("lw",2,0,0,0), I("syscall",0,0,0,0)}) @@
  (20 :> {I("lw",2,1,0,0), I("ll",2,1,0,0), I("addiu",2,1,0,1)}) @@
  (21 :> {I("sw",0,1,2,0), I("bne",0,2,1,24), I("madd",0,2,1,0), I("sc",2,0,1,0)}) @@
  (22 :> {I("ri",0,0,0,0), I("jal",1,0,0,24), I("lw",1,2,0,0), I("mfhi",1,0,0,0), I("addiu",1,2,0,0)}) @@
  (23 :> {I("madd",0,1,2,0), I("addiu",1,2,0,0)}) @@
  (24 :> {I("mfhi",2,0,0,0), I("lw",2,1,0,0), I("sw",0,0,1,0)}) @@
  (25 :> {I("sw",0,1,2,0), I("bne",0,1,2,27)}) @@
  (26 :> {Nop}) @@
  (27 :> {Li(1,27)}) @@
  (28 :> {I("jr",0,1,0,0)})
MCCode == [a \in Word |-> IF a \in DOMAIN Prog THEN Prog[a] ELSE {Nop}]

(* A smaller loop for the runs with resets and with fairness.              *)
SmallProg ==
  (1 :> {I("sw",0,0,0,0)}) @@
  (2 :> {I("eret",0,0,0,0)}) @@
  (4 :> {I("mfc0",2,0,0,EPC)}) @@
  (5 :> {I("addiu",2,2,0,1)}) @@
  (6 :> {I("mtc0",0,0,2,EPC)}) @@
  (7 :> {Li(2,0)}) @@
  (8 :> {I("eret",0,0,0,0)}) @@
  (10 :> {Li(1,1)}) @@
  (11 :> {I("mtc0",0,0,1,STATUS)}) @@
  (12 :> {I("ll",2,0,0,0), I("div",0,0,1,0), I("syscall",0,0,0,0)}) @@
  (13 :> {I("sc",2,0,1,0), I("madd",0,0,0,0)}) @@
  (14 :> {I("bne",0,1,2,12)}) @@
  (15 :> {I("sw",0,0,1,0)}) @@
  (16 :> {I("j",0,0,0,12)})
SmallCode == [a \in Word |-> IF a \in DOMAIN SmallProg THEN SmallProg[a] ELSE {Nop}]
=============================================================================
