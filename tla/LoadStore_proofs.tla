-------------------------- MODULE LoadStore_proofs --------------------------
EXTENDS LoadStore, TLAPS

LEMMA WordLanes ==
  ASSUME NEW b1, NEW b2, NEW b3, NEW b4
  PROVE  /\ W(b1, b2, b3, b4) = [l \in Lane |-> W(b1, b2, b3, b4)[l]]
         /\ W(b1, b2, b3, b4)[1] = b1
         /\ W(b1, b2, b3, b4)[2] = b2
         /\ W(b1, b2, b3, b4)[3] = b3
         /\ W(b1, b2, b3, b4)[4] = b4
BY DEF W, Lane

LEMMA LoadLeftLanes ==
  ASSUME NEW low \in {0, 1, 2, 3}, NEW d \in WordVal, NEW r \in WordVal
  PROVE  LoadLeft(low, d, r) = [l \in Lane |-> IF low + l <= 4 THEN d[low + l] ELSE r[l]]
<1> DEFINE left == [l \in Lane |-> IF low + l <= 4 THEN d[low + l] ELSE r[l]]
<1>1. CASE low = 0
  <2>1. d = [l \in Lane |-> d[l]]
    BY DEF WordVal
  <2> QED
    BY <1>1, <2>1 DEF LoadLeft, Lane
<1>2. CASE low = 1
  <2>1. LoadLeft(low, d, r) = W(d[2], d[3], d[4], r[4])
    BY <1>2 DEF LoadLeft
  <2>2. \A l \in Lane : W(d[2], d[3], d[4], r[4])[l] = left[l]
    BY <1>2, WordLanes DEF Lane
  <2> QED
    BY <2>1, <2>2, WordLanes
<1>3. CASE low = 2
  <2>1. LoadLeft(low, d, r) = W(d[3], d[4], r[3], r[4])
    BY <1>3 DEF LoadLeft
  <2>2. \A l \in Lane : W(d[3], d[4], r[3], r[4])[l] = left[l]
    BY <1>3, WordLanes DEF Lane
  <2> QED
    BY <2>1, <2>2, WordLanes
<1>4. CASE low = 3
  <2>1. LoadLeft(low, d, r) = W(d[4], r[2], r[3], r[4])
    BY <1>4 DEF LoadLeft
  <2>2. \A l \in Lane : W(d[4], r[2], r[3], r[4])[l] = left[l]
    BY <1>4, WordLanes DEF Lane
  <2> QED
    BY <2>1, <2>2, WordLanes
<1> QED
  BY <1>1, <1>2, <1>3, <1>4

LEMMA LoadRightLanes ==
  ASSUME NEW low \in {0, 1, 2, 3}, NEW d \in WordVal, NEW r \in WordVal
  PROVE  LoadRight(low, d, r) = [l \in Lane |-> IF low + l >= 4 THEN d[low + l - 3] ELSE r[l]]
<1> DEFINE right == [l \in Lane |-> IF low + l >= 4 THEN d[low + l - 3] ELSE r[l]]
<1>1. CASE low = 0
  <2>1. LoadRight(low, d, r) = W(r[1], r[2], r[3], d[1])
    BY <1>1 DEF LoadRight
  <2>2. \A l \in Lane : W(r[1], r[2], r[3], d[1])[l] = right[l]
    BY <1>1, WordLanes DEF Lane
  <2> QED
    BY <2>1, <2>2, WordLanes
<1>2. CASE low = 1
  <2>1. LoadRight(low, d, r) = W(r[1], r[2], d[1], d[2])
    BY <1>2 DEF LoadRight
  <2>2. \A l \in Lane : W(r[1], r[2], d[1], d[2])[l] = right[l]
    BY <1>2, WordLanes DEF Lane
  <2> QED
    BY <2>1, <2>2, WordLanes
<1>3. CASE low = 2
  <2>1. LoadRight(low, d, r) = W(r[1], d[1], d[2], d[3])
    BY <1>3 DEF LoadRight
  <2>2. \A l \in Lane : W(r[1], d[1], d[2], d[3])[l] = right[l]
    BY <1>3, WordLanes DEF Lane
  <2> QED
    BY <2>1, <2>2, WordLanes
<1>4. CASE low = 3
  <2>1. d = [l \in Lane |-> d[l]]
    BY DEF WordVal
  <2> QED
    BY <1>4, <2>1 DEF LoadRight, Lane
<1> QED
  BY <1>1, <1>2, <1>3, <1>4

(* The number of bytes an instruction moves, but for the unaligned ones.   *)
Size(op) == Bytes!SizeOf(op)

LEMMA LoadSizeLanes ==
  ASSUME NEW op \in {"lb", "lbu", "lh", "lhu", "lw"}, NEW low \in {0, 1, 2, 3},
         NEW d \in WordVal, NEW r \in WordVal
  PROVE  LoadData(op, low, d, r) =
           [l \in Lane |-> IF low % Size(op) # 0 THEN 0
                           ELSE IF l > 4 - Size(op) THEN d[low + l - (4 - Size(op))]
                           ELSE Fill(op \in {"lb", "lh"}, d[low + 1])]
<1> DEFINE s == Size(op)
           f == Fill(op \in {"lb", "lh"}, d[low + 1])
           load == [l \in Lane |-> IF low % s # 0 THEN 0
                                   ELSE IF l > 4 - s THEN d[low + l - (4 - s)] ELSE f]
<1>1. CASE op \in {"lb", "lbu"}
  <2>1. s = 1 /\ low % s = 0
    BY <1>1 DEF Size, Bytes!SizeOf
  <2>2. (op = "lb") = (op \in {"lb", "lh"})
    BY <1>1
  <2>3. LoadData(op, low, d, r) = W(f, f, f, d[low + 1])
    BY <1>1, <2>2 DEF LoadData, LoadByte
  <2> HIDE DEF s, f
  <2>4. \A l \in Lane : W(f, f, f, d[low + 1])[l] = load[l]
    BY <2>1, WordLanes DEF Lane
  <2> QED
    BY <2>3, <2>4, WordLanes DEF s, f
<1>2. CASE op \in {"lh", "lhu"} /\ low \in {0, 2}
  <2>1. s = 2 /\ low % s = 0
    BY <1>2 DEF Size, Bytes!SizeOf
  <2>2. (op = "lh") = (op \in {"lb", "lh"})
    BY <1>2
  <2>3. LoadData(op, low, d, r) = W(f, f, d[low + 1], d[low + 2])
    BY <1>2, <2>2 DEF LoadData, LoadHalfword
  <2> HIDE DEF s, f
  <2>4. \A l \in Lane : W(f, f, d[low + 1], d[low + 2])[l] = load[l]
    BY <2>1, WordLanes DEF Lane
  <2> QED
    BY <2>3, <2>4, WordLanes DEF s, f
<1>3. CASE op = "lw" /\ low = 0
  <2>1. d = [l \in Lane |-> d[l]]
    BY DEF WordVal
  <2>2. s = 4 /\ low % s = 0
    BY <1>3 DEF Size, Bytes!SizeOf
  <2>3. LoadData(op, low, d, r) = d
    BY <1>3 DEF LoadData
  <2> QED
    BY <1>3, <2>1, <2>2, <2>3 DEF Lane
<1>4. CASE (op \in {"lh", "lhu"} /\ low \notin {0, 2}) \/ (op = "lw" /\ low # 0)
  <2>1. low % s # 0
    BY <1>4 DEF Size, Bytes!SizeOf
  <2>2. LoadData(op, low, d, r) = W(0, 0, 0, 0)
    BY <1>4 DEF LoadData
  <2>3. \A l \in Lane : W(0, 0, 0, 0)[l] = load[l]
    BY <2>1, WordLanes DEF Lane
  <2> QED
    BY <2>2, <2>3, WordLanes
<1> QED
  BY <1>1, <1>2, <1>3, <1>4

LEMMA StoreLeftLanes ==
  ASSUME NEW low \in {0, 1, 2, 3}, NEW r, NEW l \in Lane, l > low
  PROVE  StoreLeft(low, r)[l] = r[l - low]
<1>1. CASE low = 0
  BY <1>1 DEF StoreLeft, Lane
<1>2. CASE low = 1
  <2>1. StoreLeft(low, r) = W(0, r[1], r[2], r[3])
    BY <1>2 DEF StoreLeft
  <2> QED
    BY <1>2, <2>1, WordLanes DEF Lane
<1>3. CASE low = 2
  <2>1. StoreLeft(low, r) = W(0, 0, r[1], r[2])
    BY <1>3 DEF StoreLeft
  <2> QED
    BY <1>3, <2>1, WordLanes DEF Lane
<1>4. CASE low = 3
  <2>1. StoreLeft(low, r) = W(0, 0, 0, r[1])
    BY <1>4 DEF StoreLeft
  <2> QED
    BY <1>4, <2>1, WordLanes DEF Lane
<1> QED
  BY <1>1, <1>2, <1>3, <1>4

LEMMA StoreRightLanes ==
  ASSUME NEW low \in {0, 1, 2, 3}, NEW r, NEW l \in Lane, l <= low + 1
  PROVE  StoreRight(low, r)[l] = r[l + 3 - low]
<1>1. CASE low = 0
  <2>1. StoreRight(low, r) = W(r[4], 0, 0, 0)
    BY <1>1 DEF StoreRight
  <2> QED
    BY <1>1, <2>1, WordLanes DEF Lane
<1>2. CASE low = 1
  <2>1. StoreRight(low, r) = W(r[3], r[4], 0, 0)
    BY <1>2 DEF StoreRight
  <2> QED
    BY <1>2, <2>1, WordLanes DEF Lane
<1>3. CASE low = 2
  <2>1. StoreRight(low, r) = W(r[2], r[3], r[4], 0)
    BY <1>3 DEF StoreRight
  <2> QED
    BY <1>3, <2>1, WordLanes DEF Lane
<1>4. CASE low = 3
  BY <1>4 DEF StoreRight, Lane
<1> QED
  BY <1>1, <1>2, <1>3, <1>4

LEMMA StoreSizeLanes ==
  ASSUME NEW op \in {"sb", "sh", "sw"}, NEW low \in {0, 1, 2, 3}, NEW r
  PROVE  /\ Sel(op, low) = IF low % Size(op) = 0 THEN low + 1 .. low + Size(op) ELSE {}
         /\ \A l \in Sel(op, low) :
              StoreData(op, low, r)[l] = r[l - low + 4 - Size(op)]
<1>1. CASE op = "sb"
  <2>1. Size(op) = 1 /\ low % Size(op) = 0
    BY <1>1 DEF Size, Bytes!SizeOf
  <2>2. Sel(op, low) = {low + 1}
    BY <1>1 DEF Sel
  <2>3. StoreData(op, low, r) = W(r[4], r[4], r[4], r[4])
    BY <1>1 DEF StoreData
  <2>4. StoreData(op, low, r)[low + 1] = r[4]
    BY <2>3, WordLanes
  <2> QED
    BY <2>1, <2>2, <2>4
<1>2. CASE op = "sh" /\ low \in {0, 2}
  <2>1. Size(op) = 2 /\ low % Size(op) = 0
    BY <1>2 DEF Size, Bytes!SizeOf
  <2>2. Sel(op, low) = {low + 1, low + 2}
    BY <1>2 DEF Sel
  <2>3. StoreData(op, low, r) = W(r[3], r[4], r[3], r[4])
    BY <1>2 DEF StoreData
  <2>4. StoreData(op, low, r)[low + 1] = r[3] /\ StoreData(op, low, r)[low + 2] = r[4]
    BY <1>2, <2>3, WordLanes
  <2> QED
    BY <2>1, <2>2, <2>4
<1>3. CASE op = "sw" /\ low = 0
  <2>1. Size(op) = 4 /\ low % Size(op) = 0
    BY <1>3 DEF Size, Bytes!SizeOf
  <2> QED
    BY <1>3, <2>1 DEF Sel, StoreData, Lane
<1>4. CASE (op = "sh" /\ low \notin {0, 2}) \/ (op = "sw" /\ low # 0)
  <2>1. low % Size(op) # 0
    BY <1>4 DEF Size, Bytes!SizeOf
  <2> QED
    BY <1>4, <2>1 DEF Sel
<1> QED
  BY <1>1, <1>2, <1>3, <1>4

(* Byte addresses and the words and lanes they name.                       *)
LEMMA AdrSplit ==
  ASSUME NEW adr \in Adr
  PROVE  /\ adr \in Nat
         /\ adr \div 4 \in 0 .. LastWord
         /\ adr % 4 \in {0, 1, 2, 3}
         /\ adr = 4 * (adr \div 4) + (adr % 4)
BY MemAssumption, SMT DEF Adr

LEMMA AdrJoin ==
  ASSUME NEW w \in 0 .. LastWord, NEW low \in 0 .. 3
  PROVE  /\ 4 * w + low \in Adr
         /\ (4 * w + low) \div 4 = w
         /\ (4 * w + low) % 4 = low
BY MemAssumption, SMT DEF Adr

LEMMA SizeDivides ==
  ASSUME NEW adr \in Adr, NEW s \in {1, 2, 4}
  PROVE  (adr % s = 0) <=> ((adr % 4) % s = 0)
BY AdrSplit, SMT DEF Adr

LEMMA FlatLane ==
  ASSUME NEW adr \in Adr, NEW i \in Int, 0 <= (adr % 4) + i, (adr % 4) + i <= 3
  PROVE  /\ adr + i \in Adr
         /\ (adr + i) \div 4 = adr \div 4
         /\ (adr + i) % 4 = (adr % 4) + i
<1> DEFINE w == adr \div 4
           la == adr % 4
<1>1. w \in 0 .. LastWord /\ la \in {0, 1, 2, 3} /\ adr = 4 * w + la
  BY AdrSplit
<1>2. 0 <= la + i /\ la + i <= 3
  OBVIOUS
<1> HIDE DEF w, la
<1>3. w \in Int /\ la + i \in 0 .. 3 /\ adr + i = 4 * w + (la + i)
  BY <1>1, <1>2, MemAssumption
<1> DEFINE low == la + i
<1>4. low \in 0 .. 3 /\ adr + i = 4 * w + low
  BY <1>3
<1> HIDE DEF low
<1>5. /\ 4 * w + low \in Adr
      /\ (4 * w + low) \div 4 = w
      /\ (4 * w + low) % 4 = low
  BY <1>1, <1>4, AdrJoin
<1> QED
  BY <1>4, <1>5 DEF w, la, low

LEMMA OtherWord ==
  ASSUME NEW adr \in Adr, NEW i \in Adr
  PROVE  /\ i \div 4 = adr \div 4 => i - adr = (i % 4) - (adr % 4)
         /\ i \div 4 # adr \div 4 => ~((adr % 4) + (i - adr) \in 0 .. 3)
<1>1. /\ i = 4 * (i \div 4) + (i % 4) /\ i % 4 \in 0 .. 3 /\ i \div 4 \in Nat
      /\ adr = 4 * (adr \div 4) + (adr % 4) /\ adr % 4 \in 0 .. 3 /\ adr \div 4 \in Nat
  BY AdrSplit
<1> DEFINE wi == i \div 4
           wa == adr \div 4
           li == i % 4
           la == adr % 4
<1> HIDE DEF wi, wa, li, la
<1>2. /\ i = 4 * wi + li /\ li \in 0 .. 3 /\ wi \in Nat
      /\ adr = 4 * wa + la /\ la \in 0 .. 3 /\ wa \in Nat
  BY <1>1 DEF wi, wa, li, la
<1>3. /\ wi = wa => i - adr = li - la
      /\ wi # wa => ~(la + (i - adr) \in 0 .. 3)
  BY <1>2
<1> QED
  BY <1>3 DEF wi, wa, li, la

(* The word a load finds and the bytes of ByteMemory it is made of.        *)
LEMMA WordBytes ==
  ASSUME TypeOK, NEW adr \in Adr, NEW i \in Int,
         0 <= (adr % 4) + i, (adr % 4) + i <= 3
  PROVE  /\ adr + i \in Adr
         /\ [j \in Adr |-> ByteAt(ram, j)][adr + i] = ram[adr \div 4][(adr % 4) + i + 1]
BY FlatLane DEF ByteAt

LEMMA WordOfLanes ==
  ASSUME NEW adr \in Adr, NEW i \in Int, -3 <= i, i <= 3
  PROVE  adr + i \in Bytes!WordOf(adr) <=> 0 <= (adr % 4) + i /\ (adr % 4) + i <= 3
<1>1. Bytes!WordOf(adr) = {j \in Adr : j \div 4 = adr \div 4}
  BY DEF Bytes!WordOf, Bytes!ByteAdr, Adr
<1>2. ASSUME 0 <= (adr % 4) + i, (adr % 4) + i <= 3
      PROVE  adr + i \in Bytes!WordOf(adr)
  BY <1>1, <1>2, FlatLane
<1>3. ASSUME adr + i \in Bytes!WordOf(adr)
      PROVE  0 <= (adr % 4) + i /\ (adr % 4) + i <= 3
  <2>1. adr + i \in Adr /\ (adr + i) \div 4 = adr \div 4 /\ adr \in Nat
    BY <1>1, <1>3, AdrSplit
  <2>2. (adr + i) - adr = ((adr + i) % 4) - (adr % 4)
    BY <2>1, OtherWord
  <2>3. (adr + i) % 4 \in {0, 1, 2, 3} /\ adr % 4 \in {0, 1, 2, 3}
    BY <2>1, AdrSplit
  <2> DEFINE x == (adr + i) % 4
             y == adr % 4
  <2> HIDE DEF x, y
  <2>4. (adr + i) - adr = x - y /\ x \in {0, 1, 2, 3} /\ y \in {0, 1, 2, 3}
    BY <2>2, <2>3 DEF x, y
  <2>5. 0 <= y + i /\ y + i <= 3
    BY <2>1, <2>4
  <2> QED
    BY <2>5 DEF y
<1> QED
  BY <1>2, <1>3

LEMMA LoadStep ==
  ASSUME TypeOK, NEW op \in LoadOp, NEW adr \in Adr
  PROVE  Loaded(op, adr, ram, rt) = Bytes!AfterLoad(op, adr)
<1> DEFINE d   == ram[adr \div 4]
           low == adr % 4
           new == Loaded(op, adr, ram, rt)
           mem == [j \in Adr |-> ByteAt(ram, j)]
<1>1. low \in {0, 1, 2, 3} /\ d \in WordVal /\ rt \in WordVal /\ adr \in Nat
  BY AdrSplit DEF TypeOK
<1>2. new = LoadData(op, low, d, rt)
  BY DEF Loaded
<1>4. Bytes!Lane = Lane
  BY DEF Bytes!Lane, Lane
<1>5. \A i \in Int : 0 <= low + i /\ low + i <= 3 => mem[adr + i] = d[low + i + 1]
  BY WordBytes
<1>6. \A i \in Int : -3 <= i /\ i <= 3 =>
        (adr + i \in Bytes!WordOf(adr) <=> 0 <= low + i /\ low + i <= 3)
  BY WordOfLanes
<1> HIDE DEF d, low, mem, new
<1>7. CASE op = "lwl"
  <2>1. new = [l \in Lane |-> IF low + l <= 4 THEN d[low + l] ELSE rt[l]]
    BY <1>1, <1>2, <1>7, LoadLeftLanes DEF LoadData
  <2>2. ASSUME NEW l \in Lane
        PROVE  (IF low + l <= 4 THEN d[low + l] ELSE rt[l]) =
               (IF adr + l - 1 \in Bytes!WordOf(adr) THEN mem[adr + l - 1] ELSE rt[l])
    <3> DEFINE i == l - 1
    <3>1. i \in Int /\ 0 <= i /\ i <= 3 /\ l = i + 1
      BY DEF Lane
    <3>2. adr + l - 1 = adr + i /\ low + l = low + i + 1
      BY <1>1, <3>1
    <3> HIDE DEF i
    <3>3. adr + i \in Bytes!WordOf(adr) <=> low + i <= 3
      BY <1>1, <1>6, <3>1
    <3>4. low + i <= 3 => mem[adr + i] = d[low + i + 1]
      BY <1>1, <1>5, <3>1
    <3>5. low + l <= 4 <=> low + i <= 3
      BY <1>1, <3>1
    <3> QED
      BY <3>2, <3>3, <3>4, <3>5
  <2>3. new = [l \in Lane |-> IF adr + l - 1 \in Bytes!WordOf(adr) THEN mem[adr + l - 1] ELSE rt[l]]
    BY <2>1, <2>2
  <2> QED
    BY <1>4, <1>7, <2>3 DEF Bytes!AfterLoad, Bytes!LoadLeft, mem, new
<1>8. CASE op = "lwr"
  <2>1. new = [l \in Lane |-> IF low + l >= 4 THEN d[low + l - 3] ELSE rt[l]]
    BY <1>1, <1>2, <1>8, LoadRightLanes DEF LoadData
  <2>2. ASSUME NEW l \in Lane
        PROVE  (IF low + l >= 4 THEN d[low + l - 3] ELSE rt[l]) =
               (IF adr + l - 4 \in Bytes!WordOf(adr) THEN mem[adr + l - 4] ELSE rt[l])
    <3> DEFINE i == l - 4
    <3>1. i \in Int /\ -3 <= i /\ i <= 0 /\ l = i + 4
      BY DEF Lane
    <3>2. adr + l - 4 = adr + i /\ low + l - 3 = low + i + 1
      BY <1>1, <3>1
    <3> HIDE DEF i
    <3>3. adr + i \in Bytes!WordOf(adr) <=> 0 <= low + i
      BY <1>1, <1>6, <3>1
    <3>4. 0 <= low + i => mem[adr + i] = d[low + i + 1]
      BY <1>1, <1>5, <3>1
    <3>5. low + l >= 4 <=> 0 <= low + i
      BY <1>1, <3>1
    <3> QED
      BY <3>2, <3>3, <3>4, <3>5
  <2>3. new = [l \in Lane |-> IF adr + l - 4 \in Bytes!WordOf(adr) THEN mem[adr + l - 4] ELSE rt[l]]
    BY <2>1, <2>2
  <2> QED
    BY <1>4, <1>8, <2>3 DEF Bytes!AfterLoad, Bytes!LoadRight, mem, new
<1>9. CASE op \in {"lb", "lbu", "lh", "lhu", "lw"}
  <2> DEFINE s == Size(op)
             signed == (op \in {"lb", "lh"})
  <2>1. s \in {1, 2, 4} /\ signed \in BOOLEAN
    BY <1>9 DEF Size, Bytes!SizeOf
  <2>2. new = [l \in Lane |-> IF low % s # 0 THEN 0
                              ELSE IF l > 4 - s THEN d[low + l - (4 - s)]
                              ELSE Fill(signed, d[low + 1])]
    BY <1>1, <1>2, <1>9, LoadSizeLanes
  <2>3. adr % s = 0 <=> low % s = 0
    BY <2>1, SizeDivides DEF low
  <2>4. low % s = 0 => low + s <= 4
    BY <1>1, <2>1
  <2> HIDE DEF s, signed
  <2>5. mem[adr] = d[low + 1]
    <3>1. mem[adr + 0] = d[low + 0 + 1]
      BY <1>1, <1>5
    <3> QED
      BY <1>1, <3>1
  <2>6. Fill(signed, d[low + 1]) = Bytes!Extension(signed, mem[adr])
    BY <2>5 DEF Fill, Bytes!Extension
  <2>7. ASSUME NEW l \in Lane, l > 4 - s, low % s = 0
        PROVE  mem[adr + l - (4 - s) - 1] = d[low + l - (4 - s)]
    <3> DEFINE i == l - (4 - s) - 1
    <3>1. i \in Int /\ 0 <= i /\ i < s
      BY <2>1, <2>7 DEF Lane
    <3>2. adr + l - (4 - s) - 1 = adr + i /\ low + l - (4 - s) = low + i + 1
      BY <1>1, <2>1 DEF Lane
    <3>3. 0 <= low + i /\ low + i <= 3
      BY <1>1, <2>1, <2>4, <2>7, <3>1
    <3> QED
      BY <1>5, <3>1, <3>2, <3>3
  <2>8. new = [l \in Lane |-> IF adr % s # 0 THEN 0
                              ELSE IF l > 4 - s THEN mem[adr + l - (4 - s) - 1]
                              ELSE Bytes!Extension(signed, mem[adr])]
    BY <2>2, <2>3, <2>6, <2>7
  <2>9. Bytes!Load(adr, s, signed) = new
    BY <1>4, <2>8 DEF Bytes!Load, mem
  <2> QED
    BY <1>9, <2>9 DEF Bytes!AfterLoad, Size, s, signed, new
<1> QED
  BY <1>7, <1>8, <1>9 DEF LoadOp

(* The lanes a store selects and the register byte each of them receives.  *)
LEMMA StoreLanes ==
  ASSUME NEW op \in StoreOp, NEW low \in {0, 1, 2, 3}, NEW r \in WordVal
  PROVE  /\ Sel(op, low) \subseteq Lane
         /\ op \notin {"swl", "swr"} =>
              Sel(op, low) = IF low % Size(op) = 0 THEN low + 1 .. low + Size(op) ELSE {}
         /\ op = "swl" => Sel(op, low) = low + 1 .. 4
         /\ op = "swr" => Sel(op, low) = 1 .. low + 1
         /\ \A l \in Sel(op, low) :
              /\ op = "swl" => StoreData(op, low, r)[l] = r[l - low]
              /\ op = "swr" => StoreData(op, low, r)[l] = r[l + 3 - low]
              /\ op \notin {"swl", "swr"} =>
                   StoreData(op, low, r)[l] = r[l - low + 4 - Size(op)]
<1>1. CASE op = "swl"
  <2>1. Sel(op, low) = low + 1 .. 4 /\ StoreData(op, low, r) = StoreLeft(low, r)
    BY <1>1 DEF Sel, StoreData
  <2>2. \A l \in Sel(op, low) : l \in Lane /\ l > low
    BY <2>1 DEF Lane
  <2> QED
    BY <1>1, <2>1, <2>2, StoreLeftLanes
<1>2. CASE op = "swr"
  <2>1. Sel(op, low) = 1 .. low + 1 /\ StoreData(op, low, r) = StoreRight(low, r)
    BY <1>2 DEF Sel, StoreData
  <2>2. \A l \in Sel(op, low) : l \in Lane /\ l <= low + 1
    BY <2>1 DEF Lane
  <2> QED
    BY <1>2, <2>1, <2>2, StoreRightLanes
<1>3. CASE op \in {"sb", "sh", "sw"}
  <2>1. Sel(op, low) = IF low % Size(op) = 0 THEN low + 1 .. low + Size(op) ELSE {}
    BY <1>3, StoreSizeLanes
  <2>2. \A l \in Sel(op, low) : StoreData(op, low, r)[l] = r[l - low + 4 - Size(op)]
    BY <1>3, StoreSizeLanes
  <2>3. Size(op) \in {1, 2, 4} /\ (low % Size(op) = 0 => low + Size(op) <= 4)
    BY <1>3 DEF Size, Bytes!SizeOf
  <2>4. Sel(op, low) \subseteq Lane
    BY <2>1, <2>3 DEF Lane
  <2> QED
    BY <1>3, <2>1, <2>2, <2>4
<1> QED
  BY <1>1, <1>2, <1>3 DEF StoreOp

(* A store seen byte by byte: the bytes of the selected lanes of the word  *)
(* at adr change, the rest of memory does not.                             *)
LEMMA StoredBytes ==
  ASSUME NEW op \in StoreOp, NEW adr \in Adr, NEW m \in [0 .. LastWord -> WordVal],
         NEW r \in WordVal, NEW i \in Adr
  PROVE  ByteAt(Stored(op, adr, m, r), i) =
           IF i \div 4 = adr \div 4 /\ (i % 4) + 1 \in Sel(op, adr % 4)
           THEN StoreData(op, adr % 4, r)[(i % 4) + 1]
           ELSE ByteAt(m, i)
<1>1. /\ adr \div 4 \in 0 .. LastWord /\ i \div 4 \in 0 .. LastWord
      /\ (i % 4) + 1 \in Lane
  <2>1. i % 4 \in {0, 1, 2, 3}
    BY AdrSplit
  <2>2. (i % 4) + 1 \in Lane
    BY <2>1 DEF Lane
  <2> QED
    BY <2>2, AdrSplit
<1>2. DOMAIN m = 0 .. LastWord
  OBVIOUS
<1> QED
  BY <1>1, <1>2 DEF Stored, ByteAt

LEMMA StoreStep ==
  ASSUME TypeOK, NEW op \in StoreOp, NEW adr \in Adr
  PROVE  [i \in Adr |-> ByteAt(Stored(op, adr, ram, rt), i)] = Bytes!AfterStore(op, adr)
<1> DEFINE low  == adr % 4
           mem  == [j \in Adr |-> ByteAt(ram, j)]
           memp == [j \in Adr |-> ByteAt(Stored(op, adr, ram, rt), j)]
           word(i) == i \div 4
           lane(i) == i % 4
           hit(i) == word(i) = word(adr) /\ lane(i) + 1 \in Sel(op, low)
<1>1. low \in {0, 1, 2, 3} /\ rt \in WordVal /\ adr \in Nat
  BY AdrSplit DEF TypeOK
<1>3. adr \in Bytes!ByteAdr /\ Bytes!ByteAdr = Adr
  BY DEF Bytes!ByteAdr, Adr
<1>4. \A i \in Adr : mem[i] = ByteAt(ram, i)
  OBVIOUS
<1>5. \A i \in Adr : memp[i] = IF hit(i) THEN StoreData(op, low, rt)[lane(i) + 1] ELSE mem[i]
  BY <1>1, StoredBytes DEF TypeOK
<1>6. \A i \in Adr : /\ lane(i) \in {0, 1, 2, 3} /\ i \in Nat
                     /\ word(i) = word(adr) => i - adr = lane(i) - low
                     /\ word(i) # word(adr) => ~(low + (i - adr) \in 0 .. 3)
  BY AdrSplit, OtherWord
<1>7. /\ op \notin {"swl", "swr"} =>
           Sel(op, low) = IF low % Size(op) = 0 THEN low + 1 .. low + Size(op) ELSE {}
      /\ op = "swl" => Sel(op, low) = low + 1 .. 4
      /\ op = "swr" => Sel(op, low) = 1 .. low + 1
      /\ \A l \in Sel(op, low) :
           /\ op = "swl" => StoreData(op, low, rt)[l] = rt[l - low]
           /\ op = "swr" => StoreData(op, low, rt)[l] = rt[l + 3 - low]
           /\ op \notin {"swl", "swr"} =>
                StoreData(op, low, rt)[l] = rt[l - low + 4 - Size(op)]
  <2> HIDE DEF low
  <2>1. low \in {0, 1, 2, 3} /\ rt \in WordVal /\ op \in StoreOp
    BY <1>1
  <2> QED
    BY ONLY <2>1, StoreLanes
<1> HIDE DEF mem, memp, word, lane
<1>8. CASE op = "swl"
  <2>1. ASSUME NEW i \in Adr
        PROVE  memp[i] = IF i >= adr /\ i \in Bytes!WordOf(adr) THEN rt[i - adr + 1] ELSE mem[i]
    <3>1. i \in Bytes!WordOf(adr) <=> word(i) = word(adr)
      BY <1>3 DEF Bytes!WordOf, word
    <3> DEFINE x == lane(i)
    <3>2. x \in {0, 1, 2, 3} /\ i \in Nat /\ (word(i) = word(adr) => i - adr = x - low)
      BY <1>6
    <3>3. hit(i) <=> word(i) = word(adr) /\ x + 1 \in low + 1 .. 4
      BY <1>7, <1>8
    <3>4. hit(i) => memp[i] = rt[x + 1 - low]
      <4>1. hit(i) => memp[i] = StoreData(op, low, rt)[x + 1] /\ x + 1 \in Sel(op, low)
        BY <1>5
      <4>2. op = "swl"
        BY <1>8
      <4>3. x \in Int /\ low \in Int
        BY <1>1, <3>2
      <4> HIDE DEF x, low, hit
      <4> QED
        BY <1>7, <4>1, <4>2, <4>3
    <3>5. ~hit(i) => memp[i] = mem[i]
      BY <1>5
    <3> HIDE DEF x, low, hit
    <3>6. hit(i) <=> word(i) = word(adr) /\ i >= adr
      BY <1>1, <3>2, <3>3
    <3>7. hit(i) => x + 1 - low = i - adr + 1
      BY <1>1, <3>2, <3>3
    <3> QED
      BY <3>1, <3>4, <3>5, <3>6, <3>7
  <2>2. memp = [i \in Adr |-> IF i >= adr /\ i \in Bytes!WordOf(adr)
                              THEN rt[i - adr + 1] ELSE mem[i]]
    BY <2>1 DEF memp
  <2> QED
    BY <1>3, <1>8, <2>2 DEF Bytes!AfterStore, Bytes!StoreLeft, mem, memp
<1>9. CASE op = "swr"
  <2>1. ASSUME NEW i \in Adr
        PROVE  memp[i] = IF i <= adr /\ i \in Bytes!WordOf(adr) THEN rt[i - adr + 4] ELSE mem[i]
    <3>1. i \in Bytes!WordOf(adr) <=> word(i) = word(adr)
      BY <1>3 DEF Bytes!WordOf, word
    <3> DEFINE x == lane(i)
    <3>2. x \in {0, 1, 2, 3} /\ i \in Nat /\ (word(i) = word(adr) => i - adr = x - low)
      BY <1>6
    <3>3. hit(i) <=> word(i) = word(adr) /\ x + 1 \in 1 .. low + 1
      BY <1>7, <1>9
    <3>4. hit(i) => memp[i] = rt[x + 1 + 3 - low]
      <4>1. hit(i) => memp[i] = StoreData(op, low, rt)[x + 1] /\ x + 1 \in Sel(op, low)
        BY <1>5
      <4>2. op = "swr"
        BY <1>9
      <4>3. x \in Int /\ low \in Int
        BY <1>1, <3>2
      <4> HIDE DEF x, low, hit
      <4> QED
        BY <1>7, <4>1, <4>2, <4>3
    <3>5. ~hit(i) => memp[i] = mem[i]
      BY <1>5
    <3> HIDE DEF x, low, hit
    <3>6. hit(i) <=> word(i) = word(adr) /\ i <= adr
      BY <1>1, <3>2, <3>3
    <3>7. hit(i) => x + 1 + 3 - low = i - adr + 4
      BY <1>1, <3>2, <3>3
    <3> QED
      BY <3>1, <3>4, <3>5, <3>6, <3>7
  <2>2. memp = [i \in Adr |-> IF i <= adr /\ i \in Bytes!WordOf(adr)
                              THEN rt[i - adr + 4] ELSE mem[i]]
    BY <2>1 DEF memp
  <2> QED
    BY <1>3, <1>9, <2>2 DEF Bytes!AfterStore, Bytes!StoreRight, mem, memp
<1>10. CASE op \in {"sb", "sh", "sw"}
  <2> DEFINE s == Size(op)
  <2>1. s \in {1, 2, 4}
    BY <1>10 DEF Size, Bytes!SizeOf
  <2>2. adr % s = 0 <=> low % s = 0
    BY <2>1, SizeDivides
  <2>3. low % s = 0 => low + s <= 4
    BY <1>1, <2>1
  <2>4. ASSUME NEW i \in Adr
        PROVE  memp[i] = IF adr % s = 0 /\ i \in adr .. adr + s - 1
                         THEN rt[i - adr + 4 - s + 1] ELSE mem[i]
    <3> DEFINE x == lane(i)
    <3>1. /\ x \in {0, 1, 2, 3} /\ i \in Nat
          /\ word(i) = word(adr) => i - adr = x - low
          /\ word(i) # word(adr) => ~(low + (i - adr) \in 0 .. 3)
      BY <1>6
    <3>2. hit(i) <=> word(i) = word(adr) /\ low % s = 0 /\ x + 1 \in low + 1 .. low + s
      BY <1>7, <1>10
    <3>3. hit(i) => memp[i] = rt[x + 1 - low + 4 - s]
      <4>1. hit(i) => memp[i] = StoreData(op, low, rt)[x + 1] /\ x + 1 \in Sel(op, low)
        BY <1>5
      <4>2. op \notin {"swl", "swr"}
        BY <1>10
      <4>3. x \in Int /\ low \in Int
        BY <1>1, <3>1
      <4> HIDE DEF x, low, hit
      <4> QED
        BY <1>7, <4>1, <4>2, <4>3
    <3>4. ~hit(i) => memp[i] = mem[i]
      BY <1>5
    <3> HIDE DEF x, low, hit, s
    <3>5. hit(i) <=> adr % s = 0 /\ i \in adr .. adr + s - 1
      <4>1. CASE word(i) = word(adr)
        BY <1>1, <2>1, <2>2, <3>1, <3>2, <4>1
      <4>2. CASE word(i) # word(adr)
        <5>1. adr % s = 0 /\ i \in adr .. adr + s - 1 => low + (i - adr) \in 0 .. 3
          BY <1>1, <2>1, <2>2, <2>3
        <5> QED
          BY <3>1, <3>2, <4>2, <5>1
      <4> QED
        BY <4>1, <4>2
    <3>6. hit(i) => x + 1 - low + 4 - s = i - adr + 4 - s + 1
      BY <1>1, <2>1, <3>1, <3>2
    <3> QED
      BY <3>3, <3>4, <3>5, <3>6
  <2>5. memp = [i \in Adr |-> IF adr % s = 0 /\ i \in adr .. adr + s - 1
                              THEN rt[i - adr + 4 - s + 1] ELSE mem[i]]
    BY <2>4 DEF memp
  <2>6. Bytes!Store(adr, s) = memp
    BY <1>3, <2>5 DEF Bytes!Store, mem
  <2> QED
    BY <1>10, <2>6 DEF Bytes!AfterStore, Size, memp
<1> QED
  BY <1>8, <1>9, <1>10 DEF StoreOp

LEMMA LoadedTypeOK ==
  ASSUME NEW op \in LoadOp, NEW low \in {0, 1, 2, 3}, NEW d \in WordVal, NEW r \in WordVal
  PROVE  LoadData(op, low, d, r) \in WordVal
<1>1. \A l \in Lane : d[l] \in Byte /\ r[l] \in Byte
  BY DEF WordVal
<1>2. CASE op = "lwl"
  <2>1. LoadData(op, low, d, r) = [l \in Lane |-> IF low + l <= 4 THEN d[low + l] ELSE r[l]]
    BY <1>2, LoadLeftLanes DEF LoadData
  <2> QED
    BY <1>1, <2>1 DEF WordVal, Lane
<1>3. CASE op = "lwr"
  <2>1. LoadData(op, low, d, r) = [l \in Lane |-> IF low + l >= 4 THEN d[low + l - 3] ELSE r[l]]
    BY <1>3, LoadRightLanes DEF LoadData
  <2> QED
    BY <1>1, <2>1 DEF WordVal, Lane
<1>4. CASE op \in {"lb", "lbu", "lh", "lhu", "lw"}
  <2> DEFINE s == Size(op)
             f == Fill(op \in {"lb", "lh"}, d[low + 1])
  <2>1. s \in {1, 2, 4} /\ (low % s = 0 => low + s <= 4)
    BY <1>4 DEF Size, Bytes!SizeOf
  <2>2. f \in Byte /\ 0 \in Byte
    BY ByteAssumption DEF Fill
  <2>3. LoadData(op, low, d, r) = [l \in Lane |-> IF low % s # 0 THEN 0
                                                  ELSE IF l > 4 - s THEN d[low + l - (4 - s)]
                                                  ELSE f]
    BY <1>4, LoadSizeLanes
  <2> HIDE DEF s, f
  <2>4. \A l \in Lane : low % s = 0 /\ l > 4 - s => low + l - (4 - s) \in Lane
    BY <2>1 DEF Lane
  <2> QED
    BY <1>1, <2>2, <2>3, <2>4 DEF WordVal
<1> QED
  BY <1>2, <1>3, <1>4 DEF LoadOp

LEMMA StoredTypeOK ==
  ASSUME NEW op \in StoreOp, NEW low \in {0, 1, 2, 3}, NEW r \in WordVal, NEW l \in Sel(op, low)
  PROVE  StoreData(op, low, r)[l] \in Byte
<1>1. \A k \in Lane : r[k] \in Byte
  BY DEF WordVal
<1>2. l \in Lane
  BY StoreLanes
<1>3. CASE op = "swl"
  <2>1. StoreData(op, low, r)[l] = r[l - low] /\ l \in low + 1 .. 4
    BY <1>3, StoreLanes
  <2> QED
    BY <1>1, <2>1 DEF Lane
<1>4. CASE op = "swr"
  <2>1. StoreData(op, low, r)[l] = r[l + 3 - low] /\ l \in 1 .. low + 1
    BY <1>4, StoreLanes
  <2> QED
    BY <1>1, <2>1 DEF Lane
<1>5. CASE op \in {"sb", "sh", "sw"}
  <2> DEFINE s == Size(op)
  <2>1. s \in {1, 2, 4} /\ (low % s = 0 => low + s <= 4)
    BY <1>5 DEF Size, Bytes!SizeOf
  <2>2. /\ StoreData(op, low, r)[l] = r[l - low + 4 - s]
        /\ l \in IF low % s = 0 THEN low + 1 .. low + s ELSE {}
    <3>1. op \notin {"swl", "swr"}
      BY <1>5
    <3> HIDE DEF s
    <3>2. Sel(op, low) = IF low % s = 0 THEN low + 1 .. low + s ELSE {}
      BY <3>1, StoreLanes DEF s
    <3>3. StoreData(op, low, r)[l] = r[l - low + 4 - s]
      BY <3>1, StoreLanes DEF s
    <3> QED
      BY <3>2, <3>3
  <2> HIDE DEF s
  <2>3. l - low + 4 - s \in Lane
    BY <2>1, <2>2 DEF Lane
  <2> QED
    BY <1>1, <2>2, <2>3
<1> QED
  BY <1>3, <1>4, <1>5 DEF StoreOp

(* Whatever the program, registers and memory hold bytes the program put   *)
(* there, zeros or sign extensions.                                        *)
THEOREM TypeCorrect == Spec => []TypeOK
<1>1. Init => TypeOK
  BY DEF Init, TypeOK
<1>2. TypeOK /\ [Next]_vars => TypeOK'
  <2> SUFFICES ASSUME TypeOK, [Next]_vars PROVE TypeOK'
    OBVIOUS
  <2>1. CASE LoadCycle
    <3> PICK op \in LoadOp, adr \in Adr : rt' = Loaded(op, adr, ram, rt) /\ UNCHANGED ram
      BY <2>1 DEF LoadCycle
    <3>1. ram[adr \div 4] \in WordVal /\ adr % 4 \in {0, 1, 2, 3}
      BY AdrSplit DEF TypeOK
    <3> QED
      BY <3>1, LoadedTypeOK DEF Loaded, TypeOK
  <2>2. CASE StoreCycle
    <3> PICK op \in StoreOp, adr \in Adr : ram' = Stored(op, adr, ram, rt) /\ UNCHANGED rt
      BY <2>2 DEF StoreCycle
    <3>1. adr \div 4 \in 0 .. LastWord /\ adr % 4 \in {0, 1, 2, 3} /\ rt \in WordVal
      BY AdrSplit DEF TypeOK
    <3>2. \A l \in Sel(op, adr % 4) : StoreData(op, adr % 4, rt)[l] \in Byte
      BY <3>1, StoredTypeOK
    <3> QED
      BY <3>1, <3>2 DEF Stored, TypeOK, WordVal
  <2>3. CASE UNCHANGED vars
    BY <2>3 DEF vars, TypeOK
  <2> QED
    BY <2>1, <2>2, <2>3 DEF Next
<1> QED
  BY <1>1, <1>2, PTL DEF Spec

(* Each load gives and each store moves the bytes of that instruction, at  *)
(* every address of a memory of any size.                                  *)
THEOREM EachAccessHolds == Spec => []EachAccess
<1>1. TypeOK => EachAccess
  BY LoadStep, StoreStep DEF EachAccess
<1> QED
  BY <1>1, TypeCorrect, PTL

(* mem.v implements ByteMemory, for a memory of any size: a sequence of    *)
(* loads and stores is one of accesses to bytes.                           *)
THEOREM BytesImplemented == Spec => ByteSpec
<1>1. Init => Bytes!Init
  <2> SUFFICES ASSUME Init PROVE Bytes!Init
    OBVIOUS
  <2>1. \A i \in Adr : ByteAt(ram, i) \in Byte
    <3> TAKE i \in Adr
    <3>1. i \div 4 \in 0 .. LastWord /\ (i % 4) + 1 \in Lane
      BY AdrSplit DEF Lane
    <3> QED
      BY <3>1 DEF Init, ByteAt, WordVal
  <2> QED
    BY <2>1 DEF Init, WordVal, Bytes!Init, Bytes!ByteAdr, Bytes!Lane, Lane, Adr
<1>2. TypeOK /\ [Next]_vars => [Bytes!Next]_(Bytes!vars)
  <2> SUFFICES ASSUME TypeOK, [Next]_vars PROVE [Bytes!Next]_(Bytes!vars)
    OBVIOUS
  <2>1. Bytes!ByteAdr = Adr /\ Bytes!LoadOp = LoadOp /\ Bytes!StoreOp = StoreOp
    BY DEF Bytes!ByteAdr, Adr, Bytes!LoadOp, LoadOp, Bytes!StoreOp, StoreOp
  <2>2. CASE LoadCycle
    <3> PICK op \in LoadOp, adr \in Adr : rt' = Loaded(op, adr, ram, rt) /\ UNCHANGED ram
      BY <2>2 DEF LoadCycle
    <3>1. rt' = Bytes!AfterLoad(op, adr)
      BY LoadStep
    <3> QED
      BY <2>1, <3>1 DEF Bytes!Next, ByteAt
  <2>3. CASE StoreCycle
    <3> PICK op \in StoreOp, adr \in Adr : ram' = Stored(op, adr, ram, rt) /\ UNCHANGED rt
      BY <2>3 DEF StoreCycle
    <3>1. [i \in Adr |-> ByteAt(ram', i)] = Bytes!AfterStore(op, adr)
      BY StoreStep
    <3> QED
      BY <2>1, <3>1 DEF Bytes!Next, ByteAt
  <2>4. CASE UNCHANGED vars
    BY <2>4 DEF vars, Bytes!vars, ByteAt
  <2> QED
    BY <2>2, <2>3, <2>4 DEF Next
<1> QED
  BY <1>1, <1>2, TypeCorrect, PTL DEF Spec, ByteSpec, Bytes!Spec

(* SWL and SWR write, and LWL and LWR read, the four bytes of a word at    *)
(* any address, in memories of any size.                                   *)
THEOREM UnalignedWordHolds == Spec => []UnalignedWord
<1>1. TypeOK => UnalignedWord
  <2> SUFFICES ASSUME TypeOK, NEW adr \in 0 .. 4 * LastWord
               PROVE  /\ \A i \in 0 .. 3 :
                           ByteAt(Stored("swr", adr + 3, Stored("swl", adr, ram, rt), rt),
                                  adr + i) = rt[i + 1]
                      /\ Loaded("lwr", adr + 3, ram, Loaded("lwl", adr, ram, rt)) =
                           [i \in Lane |-> ByteAt(ram, adr + i - 1)]
    BY DEF UnalignedWord
  <2> DEFINE low == adr % 4
             w   == adr \div 4
             end == adr + 3
             le  == end % 4
             we  == end \div 4
  <2>1. /\ adr \in Adr /\ end \in Adr /\ adr \in Nat
        /\ low \in {0, 1, 2, 3} /\ le \in {0, 1, 2, 3}
        /\ w \in 0 .. LastWord /\ we \in 0 .. LastWord
    <3>1. adr \in Adr /\ end \in Adr /\ adr \in Nat
      BY MemAssumption DEF Adr
    <3> QED
      BY <3>1, AdrSplit
  (* The word boundary falls behind the byte low, if it falls inside. *)
  <2>2. /\ low = 0 => we = w /\ le = 3
        /\ low # 0 => we = w + 1 /\ le = low - 1
    BY <2>1, MemAssumption, SMT
  <2>3. \A i \in 0 .. 3 :
          /\ adr + i \in Adr
          /\ low + i <= 3 => (adr + i) \div 4 = w /\ (adr + i) % 4 = low + i
          /\ low + i > 3  => (adr + i) \div 4 = w + 1 /\ (adr + i) % 4 = low + i - 4
    BY <2>1, MemAssumption, SMT DEF Adr
  <2>4. ram \in [0 .. LastWord -> WordVal] /\ rt \in WordVal
    BY DEF TypeOK
  <2> HIDE DEF low, w, end, le, we
  <2>5. ASSUME NEW i \in 0 .. 3
        PROVE  ByteAt(Stored("swr", end, Stored("swl", adr, ram, rt), rt), adr + i) = rt[i + 1]
    <3> DEFINE m == Stored("swl", adr, ram, rt)
               x == (adr + i) % 4
    <3>1. m \in [0 .. LastWord -> WordVal]
      <4>1. \A l \in Sel("swl", low) : StoreData("swl", low, rt)[l] \in Byte
        BY <2>1, <2>4, StoredTypeOK DEF StoreOp
      <4> QED
        BY <2>1, <2>4, <4>1 DEF Stored, WordVal, low
    <3>2. ByteAt(m, adr + i) =
            IF (adr + i) \div 4 = w /\ x + 1 \in low + 1 .. 4
            THEN rt[x + 1 - low] ELSE ByteAt(ram, adr + i)
      <4>1. Sel("swl", low) = low + 1 .. 4
        BY DEF Sel
      <4>2. \A l \in low + 1 .. 4 : StoreData("swl", low, rt)[l] = rt[l - low]
        <5>1. StoreData("swl", low, rt) = StoreLeft(low, rt)
          BY DEF StoreData
        <5>2. ASSUME NEW l \in low + 1 .. 4
              PROVE  StoreLeft(low, rt)[l] = rt[l - low]
          <6>1. l \in Lane /\ l > low /\ low \in {0, 1, 2, 3}
            BY <2>1 DEF Lane
          <6> QED
            BY <6>1, StoreLeftLanes
        <5> QED
          BY <5>1, <5>2
      <4>3. adr + i \in Adr /\ "swl" \in StoreOp /\ x \in Int
        BY <2>1, <2>3 DEF StoreOp
      <4>4. ByteAt(m, adr + i) =
              IF (adr + i) \div 4 = w /\ x + 1 \in Sel("swl", low)
              THEN StoreData("swl", low, rt)[x + 1] ELSE ByteAt(ram, adr + i)
        BY <2>1, <2>4, <4>3, StoredBytes DEF low, w
      <4> HIDE DEF m, x
      <4>5. \A l \in low + 1 .. 4 : l = x + 1 => l - low = x + 1 - low
        BY <2>1, <4>3
      <4> QED
        BY <2>1, <4>1, <4>2, <4>3, <4>4, <4>5
    <3> HIDE DEF m
    <3>3. ByteAt(Stored("swr", end, m, rt), adr + i) =
            IF (adr + i) \div 4 = we /\ x + 1 \in 1 .. le + 1
            THEN rt[x + 1 + 3 - le] ELSE ByteAt(m, adr + i)
      <4>1. Sel("swr", le) = 1 .. le + 1
        BY DEF Sel
      <4>2. \A l \in 1 .. le + 1 : StoreData("swr", le, rt)[l] = rt[l + 3 - le]
        <5>1. StoreData("swr", le, rt) = StoreRight(le, rt)
          BY DEF StoreData
        <5>2. ASSUME NEW l \in 1 .. le + 1
              PROVE  StoreRight(le, rt)[l] = rt[l + 3 - le]
          <6>1. l \in Lane /\ l <= le + 1 /\ le \in {0, 1, 2, 3}
            BY <2>1 DEF Lane
          <6> QED
            BY <6>1, StoreRightLanes
        <5> QED
          BY <5>1, <5>2
      <4>3. adr + i \in Adr /\ "swr" \in StoreOp /\ x \in Int
        BY <2>1, <2>3 DEF StoreOp
      <4>4. ByteAt(Stored("swr", end, m, rt), adr + i) =
              IF (adr + i) \div 4 = we /\ x + 1 \in Sel("swr", le)
              THEN StoreData("swr", le, rt)[x + 1] ELSE ByteAt(m, adr + i)
        BY <2>1, <2>4, <3>1, <4>3, StoredBytes DEF le, we
      <4> HIDE DEF x
      <4> QED
        BY <2>1, <4>1, <4>2, <4>3, <4>4
    <3>4. /\ low + i <= 3 => (adr + i) \div 4 = w /\ x = low + i
          /\ low + i > 3 => (adr + i) \div 4 = w + 1 /\ x = low + i - 4
      BY <2>3
    <3> HIDE DEF x
    <3>5. CASE low = 0
      BY <2>1, <2>2, <3>3, <3>4, <3>5 DEF m
    <3>6. CASE low # 0 /\ low + i <= 3
      BY <2>1, <2>2, <3>2, <3>3, <3>4, <3>6 DEF m
    <3>7. CASE low # 0 /\ low + i > 3
      BY <2>1, <2>2, <3>3, <3>4, <3>7 DEF m
    <3> QED
      BY <2>1, <3>5, <3>6, <3>7
  <2>6. Loaded("lwr", end, ram, Loaded("lwl", adr, ram, rt)) =
          [i \in Lane |-> ByteAt(ram, adr + i - 1)]
    <3> DEFINE r == Loaded("lwl", adr, ram, rt)
    <3>1. r = [l \in Lane |-> IF low + l <= 4 THEN ram[w][low + l] ELSE rt[l]]
      <4>1. r = LoadLeft(low, ram[w], rt)
        BY DEF Loaded, LoadData, low, w
      <4>2. ram[w] \in WordVal
        BY <2>1, <2>4
      <4> QED
        BY <2>1, <2>4, <4>1, <4>2, LoadLeftLanes
    <3>2. r \in WordVal
      BY <2>1, <2>4, LoadedTypeOK DEF Loaded, LoadOp, low, w
    <3> HIDE DEF r
    <3>3. Loaded("lwr", end, ram, r) =
            [l \in Lane |-> IF le + l >= 4 THEN ram[we][le + l - 3] ELSE r[l]]
      <4>1. Loaded("lwr", end, ram, r) = LoadRight(le, ram[we], r)
        BY DEF Loaded, LoadData, le, we
      <4>2. ram[we] \in WordVal
        BY <2>1, <2>4
      <4> QED
        BY <2>1, <3>2, <4>1, <4>2, LoadRightLanes
    <3>4. ASSUME NEW l \in Lane
          PROVE  (IF le + l >= 4 THEN ram[we][le + l - 3] ELSE r[l]) = ByteAt(ram, adr + l - 1)
      <4> DEFINE i == l - 1
      <4>1. i \in 0 .. 3 /\ l = i + 1 /\ adr + l - 1 = adr + i
        BY <2>1 DEF Lane
      <4>2. ByteAt(ram, adr + i) = IF low + i <= 3 THEN ram[w][low + i + 1]
                                                  ELSE ram[w + 1][low + i - 4 + 1]
        <5> DEFINE q == (adr + i) \div 4
                   x == (adr + i) % 4
        <5>1. ByteAt(ram, adr + i) = ram[q][x + 1]
          BY DEF ByteAt
        <5>2. /\ low + i <= 3 => q = w /\ x = low + i
              /\ low + i > 3 => q = w + 1 /\ x = low + i - 4
          BY <2>3, <4>1
        <5>3. low + i \in Int
          BY <2>1, <4>1
        <5> HIDE DEF q, x, i
        <5>4. CASE low + i <= 3
          BY <5>1, <5>2, <5>4
        <5>5. CASE low + i > 3
          BY <5>1, <5>2, <5>3, <5>5
        <5> QED
          BY <5>3, <5>4, <5>5
      <4>3. r[l] = IF low + l <= 4 THEN ram[w][low + l] ELSE rt[l]
        BY <3>1
      <4> HIDE DEF i
      <4>4. CASE low = 0
        BY <2>1, <2>2, <4>1, <4>2, <4>3, <4>4
      <4>5. CASE low # 0
        BY <2>1, <2>2, <4>1, <4>2, <4>3, <4>5
      <4> QED
        BY <4>4, <4>5
    <3> QED
      BY <3>3, <3>4 DEF r
  <2> QED
    BY <2>5, <2>6 DEF end
<1> QED
  BY <1>1, TypeCorrect, PTL
=============================================================================
