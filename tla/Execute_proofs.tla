--------------------------- MODULE Execute_proofs ---------------------------
(***************************************************************************)
(* Proofs about Execute for words of any width: the results of the         *)
(* arithmetic unit are those of the integers, the division included but    *)
(* for the one deviation DivisionResult names.                             *)
(*                                                                         *)
(* Powers of two are known to the provers only as the sizes of power sets, *)
(* from which their laws are derived first; the loop of the divider is     *)
(* then an induction over its cycles.                                      *)
(***************************************************************************)
EXTENDS Execute, FiniteSets, FiniteSetTheorems, WellFoundedInduction, TLAPS

(***************************************************************************)
(* Integers: division with remainder, least elements, powers of two.       *)
(***************************************************************************)
LEMMA DivMod ==
  ASSUME NEW x \in Int, NEW d \in Nat \ {0}
  PROVE  /\ x \div d \in Int /\ x % d \in 0 .. d - 1
         /\ x = (x \div d) * d + (x % d)
  OBVIOUS

LEMMA DivUnique ==
  ASSUME NEW x \in Int, NEW d \in Nat \ {0}, NEW q \in Int, NEW r \in 0 .. d - 1, x = q * d + r
  PROVE  x \div d = q /\ x % d = r
  OBVIOUS

LEMMA ModPlus ==
  ASSUME NEW x \in Int, NEW d \in Nat \ {0}, NEW q \in Int
  PROVE  (x + q * d) % d = x % d
  <1>1. x + q * d = (x \div d + q) * d + (x % d)
    BY DivMod
  <1>2. x \div d + q \in Int /\ x % d \in 0 .. d - 1 /\ x + q * d \in Int
    BY DivMod
  <1> QED
    BY <1>1, <1>2, DivUnique

LEMMA Least ==
  ASSUME NEW T, T \subseteq Nat, T # {} PROVE \E x \in T : \A y \in T : x <= y
  <1> DEFINE R == OpToRel(<, Nat)
  <1>1. IsWellFoundedOn(R, Nat)
    BY NatLessThanWellFounded
  <1>2. \A x, y \in Nat : y < x => <<y, x>> \in R
    BY Zenon DEF OpToRel
  <1> HIDE DEF R
  <1>3. PICK x \in T : \A y \in T : ~ (<<y, x>> \in R)
    BY <1>1, WFMin
  <1>4. \A y \in T : ~ (y < x)
    BY <1>2, <1>3, Zenon
  <1>5. x \in Nat /\ \A y \in T : y \in Nat
    OBVIOUS
  <1>6. \A y \in T : x <= y
    BY <1>4, <1>5
  <1> QED
    BY <1>6

(* The subsets of 1 .. n+1 are those of 1 .. n, each without and with n+1. *)
LEMMA PowNext ==
  ASSUME NEW n \in Nat PROVE 2^n \in Nat /\ 2^(n+1) = 2 * 2^n
  <1> DEFINE S == SUBSET (1 .. n)
             T == {s \cup {n+1} : s \in S}
  <1>1. IsFiniteSet(1 .. n) /\ Cardinality(1 .. n) = n /\ IsFiniteSet(1 .. n+1) /\ Cardinality(1 .. n+1) = n+1
    BY FS_Interval
  <1>2. IsFiniteSet(S) /\ Cardinality(S) = 2^n
    BY <1>1, FS_SUBSET
  <1>3. Cardinality(SUBSET (1 .. n+1)) = 2^(n+1)
    BY <1>1, FS_SUBSET
  <1>4. SUBSET (1 .. n+1) = S \cup T
    <2>1. ASSUME NEW s \in SUBSET (1 .. n+1) PROVE s \in S \cup T
      <3>1. CASE n+1 \in s
        <4>1. s \ {n+1} \in S
          OBVIOUS
        <4>2. s = (s \ {n+1}) \cup {n+1}
          BY <3>1
        <4> QED
          BY <4>1, <4>2
      <3>2. CASE n+1 \notin s
        <4>1. s \in S
          BY <3>2
        <4> QED
          BY <4>1
      <3> QED
        BY <3>1, <3>2
    <2>2. ASSUME NEW s \in S \cup T PROVE s \in SUBSET (1 .. n+1)
      OBVIOUS
    <2> QED
      BY <2>1, <2>2
  <1>5. S \cap T = {}
    OBVIOUS
  <1>6. ExistsBijection(S, T)
    <2> DEFINE f == [s \in S |-> s \cup {n+1}]
    <2>1. f \in Bijection(S, T)
      <3>1. f \in [S -> T]
        OBVIOUS
      <3>2. \A x, y \in S : f[x] = f[y] => x = y
        <4> SUFFICES ASSUME NEW x \in S, NEW y \in S, x \cup {n+1} = y \cup {n+1} PROVE x = y
          OBVIOUS
        <4>1. n+1 \notin x /\ n+1 \notin y
          OBVIOUS
        <4> QED
          BY <4>1
      <3>3. \A t \in T : \E s \in S : f[s] = t
        OBVIOUS
      <3> HIDE DEF f, T, S
      <3> QED
        BY <3>1, <3>2, <3>3 DEF Bijection, Injection, Surjection, IsInjective
    <2> QED
      BY <2>1 DEF ExistsBijection
  <1>7. IsFiniteSet(T) /\ Cardinality(T) = Cardinality(S)
    BY <1>2, <1>6, FS_Bijection
  <1>8. Cardinality(S \cup T) = Cardinality(S) + Cardinality(T) - Cardinality(S \cap T)
    BY <1>2, <1>7, FS_Union
  <1>9. Cardinality(S \cap T) = 0 /\ Cardinality(S) \in Nat
    BY <1>5, <1>2, FS_EmptySet, FS_CardinalityType
  <1> HIDE DEF S, T
  <1>10. ASSUME NEW c \in Nat, NEW d, d = c + c - 0 PROVE d = 2 * c
    BY <1>10
  <1>11. 2^n \in Nat
    BY <1>2, <1>9
  <1>12. 2^(n+1) = 2^n + 2^n - 0
    BY <1>2, <1>3, <1>4, <1>7, <1>8, <1>9
  <1> QED
    BY <1>10, <1>11, <1>12

LEMMA Pow ==
  ASSUME NEW n \in Nat PROVE 2^n \in Nat \ {0}
  <1> DEFINE T == {m \in Nat : 2^m \notin Nat \ {0}}
  <1>1. ASSUME T # {} PROVE FALSE
    <2>1. PICK m \in T : \A k \in T : m <= k
      BY <1>1, Least
    <2>2. m # 0
      <3>1. 2^0 = 1
        OBVIOUS
      <3>2. m = 0 => 2^m = 1
        BY <3>1, Zenon
      <3> QED
        BY <3>2
    <2>3. m - 1 \in Nat /\ m - 1 \notin T
      BY <2>1, <2>2
    <2>4. 2^(m - 1 + 1) = 2 * 2^(m - 1)
      BY <2>3, PowNext
    <2>5. m - 1 + 1 = m
      OBVIOUS
    <2> QED
      BY <2>3, <2>4, <2>5
  <1> QED
    BY <1>1

LEMMA PowPlus ==
  ASSUME NEW m \in Nat, NEW n \in Nat PROVE 2^(m + n) = 2^m * 2^n
  <1> DEFINE T == {k \in Nat : 2^(m + k) # 2^m * 2^k}
  <1>1. ASSUME T # {} PROVE FALSE
    <2>1. PICK k \in T : \A j \in T : k <= j
      BY <1>1, Least
    <2>2. k # 0
      <3>1. 2^0 = 1 /\ m + 0 = m
        OBVIOUS
      <3>2. 2^m = 2^m * 1
        BY Pow
      <3> QED
        BY <3>1, <3>2
    <2>3. k - 1 \in Nat /\ k - 1 \notin T
      BY <2>1, <2>2
    <2>4. m + k = m + (k - 1) + 1 /\ k = k - 1 + 1
      OBVIOUS
    <2>5. 2^(m + (k - 1) + 1) = 2 * 2^(m + (k - 1)) /\ 2^(k - 1 + 1) = 2 * 2^(k - 1)
      BY <2>3, PowNext
    <2>6. 2^(m + (k - 1)) = 2^m * 2^(k - 1)
      BY <2>3
    <2>7. 2^m \in Nat /\ 2^(k - 1) \in Nat
      BY <2>3, Pow
    <2> DEFINE x == 2^m
               y == 2^(k - 1)
    <2>8. 2 * (x * y) = x * (2 * y)
      <3> HIDE DEF x, y
      <3> QED
        BY <2>7 DEF x, y
    <2> QED
      BY <2>4, <2>5, <2>6, <2>8
  <1> QED
    BY <1>1

(***************************************************************************)
(* Words.                                                                  *)
(***************************************************************************)
LEMMA Words == Half \in Nat /\ Half >= 2 /\ Base \in Nat /\ Base = 2 * Half
  <1>1. Width - 2 \in Nat /\ Width - 1 = Width - 2 + 1 /\ Width = Width - 1 + 1 /\ Width - 1 \in Nat
    BY WidthAssumption
  <1>2. 2^(Width - 2) \in Nat \ {0}
    BY <1>1, Pow
  <1>3. 2^(Width - 2 + 1) = 2 * 2^(Width - 2) /\ 2^(Width - 1 + 1) = 2 * 2^(Width - 1)
    BY <1>1, PowNext
  <1> QED
    BY <1>1, <1>2, <1>3 DEF Half, Base

LEMMA NegateIs ==
  ASSUME NEW x \in Word
  PROVE  Negate(x) = (IF x = 0 THEN 0 ELSE Base - x) /\ Negate(x) \in Word
  <1>1. CASE x = 0
    <2>1. Base - x = 1 * Base + 0 /\ 0 \in 0 .. Base - 1 /\ Base \in Nat \ {0} /\ Base - x \in Int
      BY <1>1, Words
    <2>2. (Base - x) % Base = 0
      BY <2>1, DivUnique
    <2> QED
      BY <1>1, <2>1, <2>2 DEF Negate, Word
  <1>2. CASE x # 0
    <2>1. Base - x = 0 * Base + (Base - x) /\ Base - x \in 0 .. Base - 1 /\ Base \in Nat \ {0}
      BY <1>2, Words DEF Word
    <2>2. (Base - x) % Base = Base - x
      BY <2>1, DivUnique
    <2> QED
      BY <1>2, <2>1, <2>2 DEF Negate, Word
  <1> QED
    BY <1>1, <1>2

(* The magnitude of a signed word is at most Half. *)
LEMMA MagnitudeIs ==
  ASSUME NEW signed \in BOOLEAN, NEW x \in Word
  PROVE  /\ Magnitude(signed, x) \in Word
         /\ Magnitude(signed, x) = IF signed /\ Sign(x) THEN Base - x ELSE x
         /\ signed => Magnitude(signed, x) <= Half
         /\ Magnitude(signed, x) = 0 <=> x = 0
  BY NegateIs, Words DEF Magnitude, Sign, Word

(***************************************************************************)
(* One step of the division on numbers: K = 2^c, the partial remainder p   *)
(* with the bits s that are still to come, and the quotient l so far; the  *)
(* next bit of the quotient is bit.                                        *)
(***************************************************************************)
LEMMA StepArithmetic ==
  ASSUME NEW K \in Nat \ {0}, NEW M \in Nat \ {0}, NEW D \in Nat, NEW p \in Nat,
         NEW s \in 0 .. M - 1, NEW l \in 0 .. K - 1, NEW bit \in {0, 1}
  PROVE  /\ (p - D * bit) * (2 * (K * M)) + (2 * (s * K + l) + bit)
              = ((p - D * bit) * M + s) * (2 * K) + (2 * l + bit)
         /\ p * M + s + l * D * (2 * M) = ((p - D * bit) * M + s) + (2 * l + bit) * D * M
         /\ 2 * l + bit \in 0 .. 2 * K - 1
         /\ s * K + l \in 0 .. K * M - 1
  <1>1. CASE bit = 0
    <2>1. p * (2 * (K * M)) + 2 * (s * K + l) = (p * M + s) * (2 * K) + 2 * l
      OBVIOUS
    <2>2. p * M + s + l * D * (2 * M) = (p * M + s) + (2 * l) * D * M
      OBVIOUS
    <2> QED
      BY <1>1, <2>1, <2>2
  <1>2. CASE bit = 1
    <2>1. (p - D) * (2 * (K * M)) + (2 * (s * K + l) + 1) = ((p - D) * M + s) * (2 * K) + (2 * l + 1)
      OBVIOUS
    <2>2. p * M + s + l * D * (2 * M) = ((p - D) * M + s) + (2 * l + 1) * D * M
      OBVIOUS
    <2> QED
      BY <1>2, <2>1, <2>2
  <1>3. s * K + l \in 0 .. K * M - 1
    <2>1. s * K <= (M - 1) * K
      OBVIOUS
    <2>2. (M - 1) * K = K * M - K
      OBVIOUS
    <2> QED
      BY <2>1, <2>2
  <1> QED
    BY <1>1, <1>2, <1>3

(***************************************************************************)
(* The loop of the division by D of the dividend N: after c steps t holds  *)
(* the remainder, the bits to come and c bits of the quotient.             *)
(***************************************************************************)
Loop(t, c, D, N) ==
  /\ t \in Double
  /\ t \div Base < D
  /\ N = t \div 2^c + (t % 2^c) * D * 2^(Width - c)

(* t with the next bit of the quotient, after D is subtracted or not. *)
Stepped(t, D, bit) == (Partial(t) - D * bit) * Base + ((t % Half) * 2 + bit)

LEMMA LoopStart ==
  ASSUME NEW D \in Nat \ {0}, NEW N \in Word PROVE Loop(N, 0, D, N)
  <1>1. N \in Double /\ N \div Base = 0
    <2>1. N = 0 * Base + N /\ N \in 0 .. Base - 1 /\ Base \in Nat \ {0} /\ N \in Int
      BY Words DEF Word
    <2>2. N \div Base = 0
      BY <2>1, DivUnique
    <2>3. Base <= Base * Base
      BY Words
    <2> QED
      BY <2>1, <2>2, <2>3 DEF Double
  <1>2. 2^0 = 1
    OBVIOUS
  <1>3. N \div 1 = N /\ N % 1 = 0
    <2>1. N = N * 1 + 0 /\ N \in Int /\ 0 \in 0 .. 1 - 1
      BY <1>1, Words DEF Double
    <2> QED
      BY <2>1, DivUnique
  <1>4. 2^(Width - 0) \in Nat
    BY WidthAssumption, Pow
  <1>5. N = N \div 1 + (N % 1) * D * 2^(Width - 0)
    BY <1>1, <1>3, <1>4, Words DEF Double
  <1> QED
    BY <1>1, <1>2, <1>5 DEF Loop

(* What the partial remainder and the rest of t are in terms of the loop.  *)
LEMMA LoopParts ==
  ASSUME NEW c \in 0 .. Width - 1, NEW t, NEW D \in Nat \ {0}, NEW N \in Word, Loop(t, c, D, N)
  PROVE  LET K == 2^c
             M == 2^(Width - 1 - c)
         IN  /\ K \in Nat \ {0} /\ M \in Nat \ {0} /\ Half = K * M
             /\ t = Partial(t) * Half + (t % Half)
             /\ \E s \in 0 .. M - 1 : \E l \in 0 .. K - 1 :
                  /\ Partial(t) \in Word /\ Partial(t) < 2 * D
                  /\ t % Half = s * K + l
                  /\ N = Partial(t) * M + s + l * D * (2 * M)
  <1> DEFINE K == 2^c
             M == 2^(Width - 1 - c)
             h == t \div K
             l == t % K
             p == h \div M
             s == h % M
  <1>1. c \in Nat /\ Width - 1 - c \in Nat /\ Width - 1 = c + (Width - 1 - c)
          /\ Width - c = Width - 1 - c + 1
    BY WidthAssumption
  <1>2. K \in Nat \ {0} /\ M \in Nat \ {0} /\ Half = K * M
    BY <1>1, Pow, PowPlus DEF Half
  <1>3. 2^(Width - c) = 2 * M
    BY <1>1, PowNext
  <1>4. t \in 0 .. Base * Base - 1 /\ t \in Nat /\ t \div Base < D /\ N = h + l * D * (2 * M)
    BY <1>3, Words DEF Loop, Double
  <1> HIDE DEF K, M
  <1>5. h \in Int /\ l \in 0 .. K - 1 /\ t = h * K + l
    <2>1. t \in Int /\ K \in Nat \ {0}
      BY <1>2, <1>4
    <2> QED
      BY <2>1, DivMod
  <1>6. h \in Nat
    <2>1. ASSUME h <= -1 PROVE FALSE
      <3>1. h * K <= -1 * K
        <4> HIDE DEF h
        <4> QED
          BY <1>2, <1>5, <2>1
      <3> QED
        BY <1>2, <1>4, <1>5, <3>1
    <2> QED
      BY <1>5, <2>1
  <1>7. p \in Int /\ s \in 0 .. M - 1 /\ h = p * M + s
    <2>1. h \in Int /\ M \in Nat \ {0}
      BY <1>2, <1>6
    <2> HIDE DEF h
    <2> QED
      BY <2>1, DivMod
  <1> HIDE DEF h, l, p, s
  <1>8. p \in Nat
    <2>1. ASSUME p <= -1 PROVE FALSE
      <3>1. p * M <= -M
        BY <1>2, <1>7, <2>1
      <3> QED
        BY <1>2, <1>6, <1>7, <3>1
    <2> QED
      BY <1>7, <2>1
  <1>9. p <= N
    <2>1. l * D * (2 * M) >= 0
      BY <1>2, <1>5
    <2>2. h >= p
      <3>1. p * M >= p
        BY <1>2, <1>8
      <3> QED
        BY <1>7, <1>8, <1>2, <3>1
    <2> QED
      BY <1>4, <1>5, <1>6, <1>8, <1>2, <2>1, <2>2
  <1>10. p \in Word
    BY <1>8, <1>9, Words DEF Word
  <1>11. s * K + l \in 0 .. Half - 1
    BY <1>2, <1>5, <1>7, <1>8, StepArithmetic
  <1>12. t = p * Half + (s * K + l)
    <2>1. (p * M + s) * K + l = p * (K * M) + (s * K + l)
      BY <1>2, <1>5, <1>7, <1>8
    <2> QED
      BY <1>2, <1>5, <1>7, <2>1
  <1>13. t \div Half = p /\ t % Half = s * K + l
    <2> DEFINE r == s * K + l
    <2>1. Half \in Nat \ {0} /\ t \in Int /\ p \in Int /\ r \in 0 .. Half - 1 /\ t = p * Half + r
      BY <1>4, <1>8, <1>11, <1>12, Words
    <2> HIDE DEF r
    <2>2. t \div Half = p /\ t % Half = r
      BY <2>1, DivUnique
    <2> QED
      BY <2>2 DEF r
  <1>14. Partial(t) = p
    <2>1. p = 0 * Base + p /\ p \in 0 .. Base - 1 /\ Base \in Nat \ {0} /\ p \in Int
      BY <1>10, Words DEF Word
    <2>2. p % Base = p
      BY <2>1, DivUnique
    <2> QED
      BY <1>13, <2>2 DEF Partial
  <1>15. p < 2 * D
    <2>1. t = (t \div Base) * Base + (t % Base) /\ t % Base < Base /\ t \div Base \in Int
            /\ t % Base \in Int
      <3>1. t \in Int /\ Base \in Nat \ {0}
        BY <1>4, Words
      <3>2. t \div Base \in Int /\ t % Base \in 0 .. Base - 1
        BY <3>1, DivMod
      <3>3. t = (t \div Base) * Base + (t % Base)
        BY <3>1, DivMod
      <3> QED
        BY <3>1, <3>2, <3>3
    <2>2. t < D * Base
      <3> DEFINE q == t \div Base
      <3>1. q + 1 <= D /\ q \in Int
        BY <1>4, <2>1
      <3> HIDE DEF q
      <3>2. (q + 1) * Base <= D * Base
        BY <3>1, Words
      <3>3. (q + 1) * Base = q * Base + Base
        BY <3>1, Words
      <3> QED
        BY <2>1, <3>2, <3>3, <1>4, <3>1, Words DEF q
    <2>3. D * Base = (2 * D) * Half
      BY Words
    <2>4. p * Half <= t
      BY <1>11, <1>12, <1>4, <1>8, Words
    <2>5. ASSUME p >= 2 * D PROVE FALSE
      <3>1. p * Half >= (2 * D) * Half
        BY <2>5, <1>8, Words
      <3> QED
        BY <2>2, <2>3, <2>4, <3>1, <1>4, <1>8, Words
    <2> QED
      BY <2>5, <1>8
  <1>16. N = p * M + s + l * D * (2 * M)
    BY <1>4, <1>7
  <1> QED
    BY <1>2, <1>5, <1>7, <1>10, <1>12, <1>13, <1>14, <1>15, <1>16 DEF K, M

LEMMA SteppedIs ==
  ASSUME NEW t \in Int, NEW D \in Nat, Partial(t) \in Word, t = Partial(t) * Half + (t % Half)
  PROVE  /\ Shifted(t) = Stepped(t, D, 0)
         /\ (Partial(t) - D) * Base + (t % Half) * 2 + 1 = Stepped(t, D, 1)
  <1> DEFINE p == Partial(t)
             r == t % Half
  <1>1. r \in 0 .. Half - 1
    BY Words, DivMod
  <1>2. p \in Word /\ t = p * Half + r
    OBVIOUS
  <1> HIDE DEF p, r
  <1>3. t * 2 = p * Base + r * 2
    BY <1>1, <1>2, Words DEF Word
  <1>4. t * 2 \in 0 .. Base * Base - 1
    <2>1. p * Base <= (Base - 1) * Base /\ p * Base >= 0
      BY <1>2, Words DEF Word
    <2>2. (Base - 1) * Base = Base * Base - Base
      BY Words
    <2> QED
      BY <1>1, <1>2, <1>3, <2>1, <2>2, Words DEF Word
  <1>5. (t * 2) % (Base * Base) = t * 2
    <2> DEFINE B2 == Base * Base
               v  == t * 2
    <2>1. B2 \in Nat \ {0} /\ v \in Int /\ v \in 0 .. B2 - 1
      BY <1>4, Words
    <2> HIDE DEF B2, v
    <2>2. v = 0 * B2 + v
      BY <2>1
    <2>3. v % B2 = v
      BY <2>1, <2>2, DivUnique
    <2> QED
      BY <2>3 DEF B2, v
  <1>6. D * 0 = 0 /\ D * 1 = D
    OBVIOUS
  <1>7. Shifted(t) = (p - 0) * Base + (r * 2 + 0)
    BY <1>1, <1>2, <1>3, <1>5, Words DEF Shifted, Word
  <1>8. (p - D) * Base + r * 2 + 1 = (p - D) * Base + (r * 2 + 1)
    BY <1>1, <1>2, Words DEF Word
  <1> QED
    BY <1>6, <1>7, <1>8 DEF Stepped, p, r

LEMMA LoopStep ==
  ASSUME NEW c \in 0 .. Width - 2, NEW t, NEW D \in Nat \ {0}, NEW N \in Word, Loop(t, c, D, N),
         NEW bit \in {0, 1}, bit = 1 <=> Partial(t) >= D
  PROVE  Loop(Stepped(t, D, bit), c + 1, D, N)
  <1> DEFINE K == 2^c
             M == 2^(Width - 1 - c)
             m == 2^(Width - 1 - (c + 1))
             p == Partial(t)
             R == p - D * bit
             u == Stepped(t, D, bit)
  <1>1. c \in 0 .. Width - 1 /\ c \in Nat /\ Width - 1 - (c + 1) \in Nat
          /\ Width - 1 - c = Width - 1 - (c + 1) + 1 /\ Width - (c + 1) = Width - 1 - c
    BY WidthAssumption
  <1>2. K \in Nat \ {0} /\ M \in Nat \ {0} /\ Half = K * M
    BY <1>1, LoopParts
  <1>3. PICK s \in 0 .. M - 1, l \in 0 .. K - 1 :
          /\ p \in Word /\ p < 2 * D
          /\ t % Half = s * K + l
          /\ N = p * M + s + l * D * (2 * M)
    BY <1>1, LoopParts
  <1>4. 2^(c + 1) = 2 * K /\ 2^(Width - (c + 1)) = M
    BY <1>1, PowNext
  <1> HIDE DEF K, M, p
  <1>5. R \in Int /\ R \in 0 .. D - 1 /\ R < Base
    <2>1. CASE bit = 0
      BY <1>3, <2>1, Words DEF Word, p
    <2>2. CASE bit = 1
      BY <1>3, <2>2, Words DEF Word, p
    <2> QED
      BY <2>1, <2>2
  <1>6. p \in Nat
    BY <1>3, Words DEF Word
  <1>7. u = R * (2 * (K * M)) + (2 * (s * K + l) + bit)
    <2>1. u = R * Base + ((s * K + l) * 2 + bit)
      BY <1>3 DEF Stepped, p
    <2>2. s * K + l \in 0 .. K * M - 1
      BY <1>2, <1>6, StepArithmetic
    <2> HIDE DEF R, u
    <2> DEFINE r == s * K + l
    <2>3. r * 2 = 2 * r
      BY <2>2
    <2> QED
      BY <1>2, <2>1, <2>3, Words
  <1>8. /\ R * (2 * (K * M)) + (2 * (s * K + l) + bit) = (R * M + s) * (2 * K) + (2 * l + bit)
        /\ p * M + s + l * D * (2 * M) = (R * M + s) + (2 * l + bit) * D * M
        /\ 2 * l + bit \in 0 .. 2 * K - 1
        /\ s * K + l \in 0 .. K * M - 1
    BY <1>2, <1>6, StepArithmetic
  <1> HIDE DEF R, u
  <1> DEFINE q == R * M + s
             r == 2 * l + bit
             d == 2 * K
  <1>9. q \in Int /\ d \in Nat \ {0} /\ r \in 0 .. d - 1 /\ u = q * d + r /\ u \in Int
    BY <1>2, <1>5, <1>7, <1>8
  <1>10. u \div d = q /\ u % d = r
    <2> HIDE DEF q, r, d
    <2> QED
      BY <1>9, DivUnique
  <1>11. N = q + r * D * M
    BY <1>3, <1>8
  <1>12. u \div Base = R /\ u \in Double
    <2> DEFINE v == 2 * (s * K + l) + bit
    <2>1. u = R * Base + v /\ v \in 0 .. Base - 1
      BY <1>2, <1>7, <1>8, Words
    <2> HIDE DEF v
    <2>2. u \div Base = R
      <3>1. R \in Int /\ Base \in Nat \ {0}
        BY <1>5, Words
      <3>2. u \in Int
        BY <1>9
      <3> QED
        BY <2>1, <3>1, <3>2, DivUnique
    <2>3. R * Base <= (Base - 1) * Base /\ R * Base >= 0
      BY <1>5, Words
    <2>4. (Base - 1) * Base = Base * Base - Base
      BY Words
    <2> QED
      BY <1>5, <1>9, <2>1, <2>2, <2>3, <2>4, Words DEF Double
  <1> HIDE DEF q, r
  <1>13. N = u \div 2^(c + 1) + (u % 2^(c + 1)) * D * 2^(Width - (c + 1))
    BY <1>4, <1>10, <1>11
  <1> QED
    BY <1>5, <1>12, <1>13 DEF Loop, u

(* The last step, in which c = Width - 1: t is the remainder p of all bits *)
(* of N but the first quotient digits l.                                   *)
LEMMA LoopEnd ==
  ASSUME NEW t, NEW D \in Nat \ {0}, NEW N \in Word, Loop(t, Width - 1, D, N)
  PROVE  /\ Partial(t) \in Word /\ Partial(t) < 2 * D
         /\ t % Half \in 0 .. Half - 1
         /\ t = Partial(t) * Half + (t % Half)
         /\ N = Partial(t) + (t % Half) * D * 2
  <1> DEFINE c == Width - 1
             K == 2^c
             M == 2^(Width - 1 - c)
  <1>1. c \in 0 .. Width - 1 /\ Width - 1 - c = 0 /\ c \in Nat
    BY WidthAssumption
  <1>2. 2^0 = 1
    OBVIOUS
  <1>3. M = 1
    BY <1>1, <1>2, Zenon
  <1>4. K = Half
    BY DEF Half
  <1>5. PICK s \in 0 .. M - 1, l \in 0 .. K - 1 :
          /\ Partial(t) \in Word /\ Partial(t) < 2 * D
          /\ t % Half = s * K + l
          /\ N = Partial(t) * M + s + l * D * (2 * M)
    <2>1. Loop(t, c, D, N) /\ c \in 0 .. Width - 1
      BY <1>1
    <2> HIDE DEF c
    <2> QED
      BY <2>1, LoopParts
  <1> HIDE DEF K, M
  <1>6. s = 0 /\ s * K + l = l /\ l \in 0 .. Half - 1
    BY <1>3, <1>4, <1>5, Words
  <1>7. Partial(t) * M + s = Partial(t) /\ l * D * (2 * M) = l * D * 2
    BY <1>3, <1>5, <1>6, Words DEF Word
  <1>8. t = Partial(t) * Half + (t % Half)
    <2>1. Loop(t, c, D, N) /\ c \in 0 .. Width - 1
      BY <1>1
    <2> HIDE DEF c
    <2> QED
      BY <2>1, LoopParts
  <1> QED
    BY <1>5, <1>6, <1>7, <1>8

(***************************************************************************)
(* The operands, and what a product or the last step of a division gives.  *)
(***************************************************************************)
LEMMA Congruent ==
  ASSUME NEW x \in Int, NEW y \in Int, NEW q \in Int, NEW d \in Nat \ {0}, x = y + q * d
  PROVE  x % d = y % d
  BY ModPlus

LEMMA ModSmall ==
  ASSUME NEW d \in Nat \ {0}, NEW x \in 0 .. d - 1 PROVE x % d = x /\ x \div d = 0
  <1>1. x = 0 * d + x /\ x \in Int /\ 0 \in Int
    OBVIOUS
  <1> QED
    BY <1>1, DivUnique

LEMMA WordProduct ==
  ASSUME NEW x \in Word, NEW y \in Word PROVE x * y \in Double
  <1>1. x \in Nat /\ y \in Nat /\ x <= Base - 1 /\ y <= Base - 1 /\ Base \in Nat /\ Base >= 4
    BY Words DEF Word
  <1>2. x * y <= x * (Base - 1) /\ x * y >= 0
    BY <1>1
  <1>3. x * (Base - 1) <= (Base - 1) * (Base - 1)
    BY <1>1
  <1>4. (Base - 1) * (Base - 1) = Base * Base - 2 * Base + 1
    BY <1>1
  <1>5. x * y \in Int /\ x * (Base - 1) \in Int /\ Base * Base \in Int
    BY <1>1
  <1> HIDE DEF Word
  <1> QED
    BY <1>1, <1>2, <1>3, <1>4, <1>5 DEF Double

LEMMA Square == Base * Base \in Nat \ {0}
  BY Words

LEMMA Negate2Is ==
  ASSUME NEW x \in Int
  PROVE  Negate2(x) \in Double /\ \E k \in Int : Negate2(x) = -x + k * (Base * Base)
  <1> DEFINE d == Base * Base
             y == d - x
  <1>1. d \in Nat \ {0} /\ y \in Int
    BY Square
  <1> HIDE DEF d, y
  <1>2. y \div d \in Int /\ y % d \in 0 .. d - 1 /\ y = (y \div d) * d + (y % d)
    BY <1>1, DivMod
  <1> DEFINE k == 1 - (y \div d)
  <1>3. k \in Int /\ k * d = d - (y \div d) * d
    BY <1>1, <1>2
  <1> HIDE DEF k
  <1>4. y = d - x
    BY DEF y
  <1>5. y % d = -x + k * d
    BY <1>1, <1>2, <1>3, <1>4
  <1> QED
    BY <1>2, <1>3, <1>5 DEF Negate2, Double, d, y

LEMMA Operands ==
  ASSUME a \in Word, b \in Word
  PROVE  /\ Dividend \in Word /\ Divisor \in Word /\ MulTemp \in Double /\ MulRes \in Double
         /\ MulTemp \in Int /\ MulRes \in Int
  <1>1. /\ (op = "div") \in BOOLEAN /\ SignedProduct \in BOOLEAN
    BY DEF SignedProduct
  <1>2. Dividend \in Word /\ Divisor \in Word
    BY <1>1, MagnitudeIs DEF Dividend, Divisor
  <1>3. Magnitude(SignedProduct, a) \in Word /\ Magnitude(SignedProduct, b) \in Word
    BY <1>1, MagnitudeIs
  <1>4. MulTemp \in Double
    BY <1>3, WordProduct DEF MulTemp
  <1>5. \A x \in Double : x \in Int
    BY DEF Double
  <1>6. MulRes \in Double
    BY <1>4, <1>5, Negate2Is DEF MulRes
  <1> QED
    BY <1>2, <1>4, <1>5, <1>6

(* A product is that of the integers modulo the width of HI,LO. *)
LEMMA ProductIs ==
  ASSUME a \in Word, b \in Word
  PROVE  ProductWanted \in Int /\ \E k \in Int : MulRes = ProductWanted + k * (Base * Base)
  <1> DEFINE x == Magnitude(SignedProduct, a)
             y == Magnitude(SignedProduct, b)
             B2 == Base * Base
  <1>1. B2 \in Nat \ {0} /\ Base \in Nat /\ 0 * B2 = 0
    BY Square, Words
  <1>2. SignedProduct \in BOOLEAN
    BY DEF SignedProduct
  <1>3. x \in Int /\ y \in Int /\ x * y \in Int
    BY <1>2, MagnitudeIs, Words DEF Word
  <1>4. a \in Int /\ b \in Int
    BY DEF Word
  <1>5. CASE ~SignedProduct
    <2>1. x = a /\ y = b
      BY <1>5 DEF Magnitude
    <2>2. MulRes = a * b /\ ProductWanted = a * b
      BY <1>5, <2>1 DEF MulRes, MulTemp, ProductWanted
    <2>3. a * b \in Int /\ a * b = a * b + 0 * B2
      BY <1>1, <1>4
    <2> QED
      BY <2>2, <2>3
  <1>6. CASE SignedProduct
    <2>1. /\ x = (IF Sign(a) THEN Base - a ELSE a)
          /\ y = (IF Sign(b) THEN Base - b ELSE b)
      BY <1>2, <1>6, MagnitudeIs
    <2>2. /\ Value(a) = (IF Sign(a) THEN -x ELSE x)
          /\ Value(b) = (IF Sign(b) THEN -y ELSE y)
      BY <1>1, <1>4, <2>1 DEF Value
    <2>3. ProductWanted = Value(a) * Value(b)
      BY <1>6 DEF ProductWanted
    <2> HIDE DEF x, y
    <2>4. CASE Sign(a) = Sign(b)
      <3>1. MulRes = x * y
        BY <2>4 DEF MulRes, MulTemp, x, y
      <3>2. Value(a) * Value(b) = x * y
        <4>1. CASE Sign(a)
          <5>1. (-x) * (-y) = x * y
            BY <1>3
          <5> QED
            BY <2>2, <2>4, <4>1, <5>1
        <4>2. CASE ~Sign(a)
          BY <2>2, <2>4, <4>2
        <4> QED
          BY <4>1, <4>2
      <3>3. x * y = x * y + 0 * B2
        BY <1>1, <1>3
      <3> QED
        BY <1>3, <2>3, <3>1, <3>2, <3>3
    <2>5. CASE Sign(a) # Sign(b)
      <3>1. MulRes = Negate2(x * y)
        BY <1>6, <2>5 DEF MulRes, MulTemp, x, y
      <3>2. Value(a) * Value(b) = -(x * y)
        <4>1. CASE Sign(a)
          <5>1. ~Sign(b)
            BY <2>5, <4>1 DEF Sign
          <5>2. (-x) * y = -(x * y)
            BY <1>3
          <5> QED
            BY <2>2, <4>1, <5>1, <5>2
        <4>2. CASE ~Sign(a)
          <5>1. Sign(b)
            BY <2>5, <4>2 DEF Sign
          <5>2. x * (-y) = -(x * y)
            BY <1>3
          <5> QED
            BY <2>2, <4>2, <5>1, <5>2
        <4> QED
          BY <4>1, <4>2
      <3>3. PICK k \in Int : Negate2(x * y) = -(x * y) + k * B2
        BY <1>3, Negate2Is
      <3>4. -(x * y) \in Int
        BY <1>3
      <3> QED
        BY <2>3, <3>1, <3>2, <3>3, <3>4
    <2> QED
      BY <2>4, <2>5
  <1> QED
    BY <1>5, <1>6

(***************************************************************************)
(* The inductive invariant.  A bubble finds the registers of ex_mem.v      *)
(* cleared, and the second cycle of an accumulation finds its product.     *)
(***************************************************************************)
BubbleIsClear == op = "nop" => cnt = 0 /\ temp = 0

SecondCycle ==
  op \in Accumulate /\ cnt > 0 =>
    temp = IF op \in {"msub", "msubu"} THEN Negate2(MulRes) ELSE MulRes

IInv == TypeOK /\ DivisionLoop /\ BubbleIsClear /\ SecondCycle

LEMMA LoopHolds ==
  ASSUME TypeOK, DivisionLoop, op \in Divisions, Divisor # 0
  PROVE  Divisor \in Nat \ {0} /\ Dividend \in Word /\ Loop(DivTemp, cnt, Divisor, Dividend)
  <1>1. a \in Word /\ b \in Word /\ cnt \in 0 .. Width - 1 /\ temp \in Double
    BY DEF TypeOK
  <1>2. Divisor \in Nat \ {0} /\ Dividend \in Word
    <2>1. Divisor \in Word /\ Dividend \in Word
      BY <1>1, Operands
    <2> QED
      BY <2>1 DEF Word
  <1>3. CASE cnt = 0
    <2>1. DivTemp = Dividend
      BY <1>3 DEF DivTemp
    <2>2. Loop(Dividend, 0, Divisor, Dividend)
      BY <1>2, LoopStart
    <2> QED
      BY <1>2, <1>3, <2>1, <2>2, Zenon
  <1>4. CASE cnt # 0
    <2>1. DivTemp = temp /\ cnt > 0
      BY <1>1, <1>4 DEF DivTemp
    <2> QED
      BY <1>1, <1>2, <2>1 DEF DivisionLoop, Loop
  <1> QED
    BY <1>3, <1>4

LEMMA IterateDivision ==
  ASSUME TypeOK, DivisionLoop, StallReqForDiv
  PROVE  Loop(DivOut, cnt + 1, Divisor, Dividend) /\ cnt \in 0 .. Width - 2
  <1>1. op \in Divisions /\ Divisor # 0 /\ cnt \in 0 .. Width - 2 /\ cnt \in 0 .. Width - 1
          /\ DivOut = DivStep
    BY WidthAssumption DEF StallReqForDiv, TypeOK, DivOut
  <1> DEFINE t == DivTemp
             D == Divisor
             N == Dividend
             bit == IF Partial(t) >= D THEN 1 ELSE 0
  <1>2. D \in Nat \ {0} /\ N \in Word /\ Loop(t, cnt, D, N)
    BY <1>1, LoopHolds
  <1>3. t \in Int
    BY <1>2 DEF Loop, Double
  <1>4. t = Partial(t) * Half + (t % Half) /\ Partial(t) \in Word
    <2> HIDE DEF t, D, N
    <2> QED
      BY <1>1, <1>2, LoopParts
  <1>5. /\ Shifted(t) = Stepped(t, D, 0)
        /\ (Partial(t) - D) * Base + (t % Half) * 2 + 1 = Stepped(t, D, 1)
    <2> HIDE DEF t, D
    <2> QED
      BY <1>2, <1>3, <1>4, SteppedIs
  <1>6. DivOut = Stepped(t, D, bit)
    <2>1. Subtracted(t) = Stepped(t, D, 1)
      BY <1>5 DEF Subtracted
    <2> QED
      BY <1>1, <1>5, <2>1 DEF DivStep
  <1>7. bit \in {0, 1} /\ (bit = 1 <=> Partial(t) >= D)
    OBVIOUS
  <1> HIDE DEF t, D, N, bit
  <1>8. Loop(Stepped(t, D, bit), cnt + 1, D, N)
    BY <1>1, <1>2, <1>7, LoopStep
  <1> QED
    BY <1>1, <1>6, <1>8 DEF D, N

LEMMA IterateType ==
  ASSUME IInv, Iterate
  PROVE  cnt' \in 0 .. Width - 1 /\ temp' \in Double
  <1>1. CASE StallReqForMadd
    <2>1. cnt' = 1 /\ 1 \in 0 .. Width - 1
      BY <1>1, WidthAssumption DEF StallReqForMadd, Iterate
    <2>2. MulRes \in Double /\ MulRes \in Int
      BY Operands DEF IInv, TypeOK
    <2>3. temp' = IF op \in {"msub", "msubu"} THEN Negate2(MulRes) ELSE MulRes
      BY <1>1 DEF Iterate, TempOut, StallReqForMadd, StallReqForDiv, Accumulate, Divisions
    <2> QED
      BY <2>1, <2>2, <2>3, Negate2Is
  <1>2. CASE StallReqForDiv /\ ~StallReqForMadd
    <2>1. Loop(DivOut, cnt + 1, Divisor, Dividend) /\ cnt \in 0 .. Width - 2
      BY <1>2, IterateDivision DEF IInv
    <2>2. temp' = DivOut /\ cnt' = cnt + 1
      BY <1>2 DEF Iterate, TempOut
    <2> QED
      BY <2>1, <2>2, WidthAssumption DEF Loop
  <1> QED
    BY <1>1, <1>2 DEF Iterate, StallReq

LEMMA InitIInv == Init => IInv
  <1> SUFFICES ASSUME Init PROVE IInv
    OBVIOUS
  <1>1. TypeOK
    BY WidthAssumption, Words, Square DEF Init, TypeOK, Word, Double
  <1> QED
    BY <1>1 DEF Init, IInv, DivisionLoop, BubbleIsClear, SecondCycle, Divisions, Accumulate

LEMMA StepIInv == IInv /\ [Next]_vars => IInv'
  <1> SUFFICES ASSUME IInv, [Next]_vars PROVE IInv'
    OBVIOUS
  <1>1. 0 \in Word /\ 0 \in Double /\ 0 \in 0 .. Width - 1
    BY Words, Square, WidthAssumption DEF Word, Double
  <1>2. CASE Issue
    <2>1. TypeOK'
      BY <1>2 DEF Issue, IInv, TypeOK, Word, Double, Base
    <2>2. cnt' = 0 /\ op' # "nop"
      BY <1>2 DEF Issue, IInv, BubbleIsClear, ExOp, Adds, Products, Accumulate, Divisions,
                  Shifts, Compares
    <2> QED
      BY <2>1, <2>2 DEF IInv, DivisionLoop, BubbleIsClear, SecondCycle
  <1>3. CASE Iterate
    <2>1. op' = op /\ a' = a /\ b' = b /\ hilo' = hilo
      BY <1>3 DEF Iterate
    <2>2. TypeOK'
      BY <1>3, <2>1, IterateType DEF IInv, TypeOK, Word, Double, Base
    <2>3. Divisor' = Divisor /\ Dividend' = Dividend /\ MulRes' = MulRes
      BY <2>1 DEF Divisor, Dividend, MulRes, MulTemp, SignedProduct, Magnitude, Sign, Negate,
                  Negate2, Base, Half
    <2>4. CASE StallReqForMadd
      <3>1. op \in Accumulate /\ op \notin Divisions /\ op # "nop"
        BY <2>4 DEF StallReqForMadd, Accumulate, Divisions
      <3>2. temp' = IF op \in {"msub", "msubu"} THEN Negate2(MulRes) ELSE MulRes
        BY <1>3, <2>4 DEF Iterate, TempOut, StallReqForMadd, StallReqForDiv, Accumulate, Divisions
      <3>3. SecondCycle'
        BY <2>1, <2>3, <3>2 DEF SecondCycle, Negate2, Base
      <3> QED
        BY <2>1, <2>2, <3>1, <3>3 DEF IInv, DivisionLoop, BubbleIsClear
    <2>5. CASE ~StallReqForMadd
      <3>1. StallReqForDiv
        BY <1>3, <2>5 DEF Iterate, StallReq
      <3>2. op \in Divisions /\ op \notin Accumulate /\ op # "nop"
        BY <3>1 DEF StallReqForDiv, Accumulate, Divisions
      <3>3. temp' = DivOut /\ cnt' = cnt + 1
        BY <1>3, <2>5, <3>1 DEF Iterate, TempOut
      <3>4. Loop(temp', cnt', Divisor', Dividend')
        BY <2>3, <3>1, <3>3, IterateDivision DEF IInv
      <3>5. DivisionLoop'
        BY <3>4 DEF Loop, DivisionLoop, Base
      <3> QED
        BY <2>1, <2>2, <3>2, <3>5 DEF IInv, BubbleIsClear, SecondCycle
    <2> QED
      BY <2>4, <2>5
  <1>4. CASE Leave \/ Flush
    <2>1. op' = "nop" /\ a' = 0 /\ b' = 0 /\ hilo' = 0 /\ cnt' = 0 /\ temp' = 0
      BY <1>4 DEF Leave, Flush, Bubble
    <2>2. TypeOK'
      BY <1>1, <2>1 DEF TypeOK, Word, Double, Base
    <2> QED
      BY <2>1, <2>2 DEF IInv, DivisionLoop, BubbleIsClear, SecondCycle, Divisions, Accumulate
  <1>5. CASE UNCHANGED vars
    <2>1. op' = op /\ a' = a /\ b' = b /\ hilo' = hilo /\ cnt' = cnt /\ temp' = temp
      BY <1>5 DEF vars
    <2>2. Divisor' = Divisor /\ Dividend' = Dividend /\ MulRes' = MulRes
      BY <2>1 DEF Divisor, Dividend, MulRes, MulTemp, SignedProduct, Magnitude, Sign, Negate,
                  Negate2, Base, Half
    <2> QED
      BY <2>1, <2>2 DEF IInv, TypeOK, DivisionLoop, BubbleIsClear, SecondCycle, Negate2, Base,
                        Word, Double
  <1> QED
    BY <1>2, <1>3, <1>4, <1>5 DEF Next

(* The unit always holds an operation, words and a step within the word.   *)
THEOREM TypeCorrect == Spec => []TypeOK
  <1>1. IInv => TypeOK
    BY DEF IInv
  <1> QED
    BY InitIInv, StepIInv, <1>1, PTL DEF Spec

(* Every cycle of the divider keeps the quotient bits found so far, their  *)
(* remainder and the bits still to come apart, whatever ran before it.     *)
THEOREM DivisionLoopHolds == Spec => []DivisionLoop
  <1>1. IInv => DivisionLoop
    BY DEF IInv
  <1> QED
    BY InitIInv, StepIInv, <1>1, PTL DEF Spec

(***************************************************************************)
(* The result of a division.                                               *)
(***************************************************************************)

(* The last cycle: the dividend is Q times the divisor plus R, and R is    *)
(* the divisor only where the comparison of that cycle should have taken   *)
(* equality.                                                               *)
LEMMA LastCycle ==
  ASSUME TypeOK, DivisionLoop, op \in Divisions, Divisor # 0, cnt = Width - 1
  PROVE  /\ QTemp \in Word /\ RTemp \in Word
         /\ RTemp <= Divisor
         /\ Dividend = QTemp * Divisor + RTemp
         /\ RTemp = 0 => QTemp % 2 = 0
         /\ RTemp = Divisor => QTemp % 2 = 0
  <1> DEFINE t == DivTemp
             D == Divisor
             N == Dividend
             p == Partial(t)
             l == t % Half
             bit == IF p > D THEN 1 ELSE 0
             R == p - D * bit
             Q == l * 2 + bit
  <1>1. D \in Nat \ {0} /\ N \in Word /\ Loop(t, Width - 1, D, N)
    BY LoopHolds
  <1>2. t \in Int
    BY <1>1 DEF Loop, Double
  <1>3. p \in Word /\ p < 2 * D /\ l \in 0 .. Half - 1 /\ t = p * Half + l /\ N = p + l * D * 2
    <2> HIDE DEF t, D, N
    <2> QED
      BY <1>1, LoopEnd
  <1>4. /\ Shifted(t) = Stepped(t, D, 0)
        /\ (Partial(t) - D) * Base + (t % Half) * 2 + 1 = Stepped(t, D, 1)
    <2> HIDE DEF t, D
    <2> QED
      BY <1>1, <1>2, <1>3, SteppedIs
  <1>5. DivOut = Stepped(t, D, bit)
    <2>1. Subtracted(t) = Stepped(t, D, 1)
      BY <1>4 DEF Subtracted
    <2>2. DivOut = DivLast
      BY WidthAssumption DEF DivOut
    <2> QED
      BY <1>4, <2>1, <2>2 DEF DivLast
  <1>6. DivOut = R * Base + Q
    BY <1>5 DEF Stepped
  <1> HIDE DEF t, p, l
  <1>7. bit \in {0, 1} /\ R \in 0 .. Base - 1 /\ Q \in 0 .. Base - 1 /\ R <= D
    BY <1>1, <1>3, Words DEF Word
  <1>8. R = 0 => bit = 0
    BY <1>1, <1>3, Words DEF Word
  <1>9. R = D => bit = 0
    BY <1>1, <1>3, Words DEF Word
  <1>10. N = Q * D + R
    <2>1. CASE p > D
      <3>1. R = p - D /\ Q = l * 2 + 1
        BY <1>1, <2>1
      <3>2. (l * 2 + 1) * D + (p - D) = p + l * D * 2
        BY <1>1, <1>3, Words DEF Word
      <3> QED
        BY <1>3, <3>1, <3>2
    <2>2. CASE ~(p > D)
      <3>1. R = p /\ Q = l * 2
        BY <1>1, <1>3, <2>2, Words DEF Word
      <3>2. (l * 2) * D + p = p + l * D * 2
        BY <1>1, <1>3, Words DEF Word
      <3> QED
        BY <1>3, <3>1, <3>2
    <2> QED
      BY <2>1, <2>2
  <1>11. bit = 0 => Q % 2 = 0
    <2> SUFFICES ASSUME bit = 0 PROVE Q % 2 = 0
      OBVIOUS
    <2>1. Q = l * 2 /\ l \in Int
      BY <1>3
    <2> QED
      BY <2>1
  <1> HIDE DEF R, Q
  <1>12. QTemp = Q /\ RTemp = R
    <2>1. Base \in Nat \ {0} /\ R \in Int /\ R * Base + Q \in Int
      BY <1>7, Words
    <2>2. (R * Base + Q) \div Base = R /\ (R * Base + Q) % Base = Q
      BY <1>7, <2>1, DivUnique
    <2> QED
      BY <1>6, <2>2 DEF QTemp, RTemp
  <1> QED
    BY <1>7, <1>8, <1>9, <1>10, <1>11, <1>12 DEF Word, D, N

(* The remainder is the divisor exactly when the division is exact and its *)
(* quotient odd.                                                           *)
LEMMA Shortfall ==
  ASSUME NEW N \in Nat, NEW D \in Nat \ {0}, NEW Q \in Nat, NEW R \in 0 .. D, N = Q * D + R,
         R = 0 => Q % 2 = 0, R = D => Q % 2 = 0
  PROVE  R = D <=> N % D = 0 /\ (N \div D) % 2 = 1
  <1>1. CASE R = D
    <2>1. N = (Q + 1) * D + 0 /\ Q + 1 \in Int /\ 0 \in 0 .. D - 1 /\ N \in Int
      BY <1>1
    <2>2. N \div D = Q + 1 /\ N % D = 0
      BY <2>1, DivUnique
    <2>3. (Q + 1) % 2 = 1
      BY <1>1
    <2> QED
      BY <1>1, <2>2, <2>3
  <1>2. CASE R # D
    <2>1. R \in 0 .. D - 1 /\ N \in Int /\ Q \in Int
      BY <1>2
    <2>2. N \div D = Q /\ N % D = R
      BY <2>1, DivUnique
    <2>3. R = 0 => (N \div D) % 2 # 1
      BY <2>2
    <2> QED
      BY <1>2, <2>2, <2>3
  <1> QED
    BY <1>1, <1>2

(* Quotient and remainder with their signs give the dividend back: SA and  *)
(* SB are the signs of the operands x and y, N and D their magnitudes.     *)
LEMMA SignedDivision ==
  ASSUME NEW x \in Word, NEW y \in Word, NEW SA \in BOOLEAN, NEW SB \in BOOLEAN,
         NEW N \in Int, NEW D \in Int, NEW Q \in Word, NEW R \in Word,
         N = (IF SA THEN Base - x ELSE x), D = (IF SB THEN Base - y ELSE y), N = Q * D + R
  PROVE  LET q == IF SA # SB THEN Negate(Q) ELSE Q
             r == IF SA THEN Negate(R) ELSE R
         IN  (q * y + r) % Base = x
  <1> DEFINE q == IF SA # SB THEN Negate(Q) ELSE Q
             r == IF SA THEN Negate(R) ELSE R
  <1>1. Base \in Nat \ {0} /\ x \in Int /\ y \in Int /\ Q \in Int /\ R \in Int /\ Base \in Int
    BY Words DEF Word
  <1>2. \E j \in Int : Negate(R) = -R + j * Base
    BY <1>1, NegateIs
  <1>3. \E k \in Int : Negate(Q) = -Q + k * Base
    BY <1>1, NegateIs
  <1>4. PICK j \in Int : Negate(R) = -R + j * Base
    BY <1>2
  <1>5. PICK k \in Int : Negate(Q) = -Q + k * Base
    BY <1>3
  <1>6. \E m \in Int : q * y + r = x + m * Base
    <2>1. CASE ~SA /\ ~SB
      <3>1. q = Q /\ r = R /\ y = D /\ N = x
        BY <1>1, <2>1
      <3>2. q * y + r = x + 0 * Base
        <4>1. q * y + r = Q * D + R
          BY <3>1, Zenon
        <4>2. 0 * Base = 0 /\ x = x + 0
          BY <1>1
        <4> QED
          BY <3>1, <4>1, <4>2, Zenon
      <3> QED
        BY <3>2
    <2>2. CASE SA /\ ~SB
      <3>1. q = -Q + k * Base /\ r = -R + j * Base /\ y = D /\ N = Base - x
        BY <1>1, <1>4, <1>5, <2>2
      <3>2. (-Q + k * Base) * D + (-R + j * Base) = -(Q * D + R) + (k * D + j) * Base
        BY <1>1
      <3>3. -(Base - x) + (k * D + j) * Base = x + (k * D + j - 1) * Base
        BY <1>1
      <3>4. q * y + r = x + (k * D + j - 1) * Base
        BY <3>1, <3>2, <3>3
      <3>5. k * D + j - 1 \in Int
        OBVIOUS
      <3> QED
        BY <3>4, <3>5
    <2>3. CASE ~SA /\ SB
      <3>1. q = -Q + k * Base /\ r = R /\ y = Base - D /\ N = x
        <4>1. SA = FALSE /\ SB = TRUE
          BY <2>3
        <4>2. q = Negate(Q) /\ r = R /\ N = x /\ D = Base - y
          BY <4>1
        <4> QED
          BY <1>1, <1>5, <4>2
      <3>2. (-Q + k * Base) * (Base - D) + R = (Q * D + R) + (k * Base - Q - k * D) * Base
        BY <1>1
      <3>3. q * y + r = x + (k * Base - Q - k * D) * Base
        BY <3>1, <3>2
      <3>4. k * Base - Q - k * D \in Int
        BY <1>1
      <3> QED
        BY <3>3, <3>4
    <2>4. CASE SA /\ SB
      <3>1. q = Q /\ r = -R + j * Base /\ y = Base - D /\ N = Base - x
        BY <1>1, <1>4, <2>4
      <3>2. Q * (Base - D) + (-R + j * Base) = -(Q * D + R) + (Q + j) * Base
        BY <1>1
      <3>3. -(Base - x) + (Q + j) * Base = x + (Q + j - 1) * Base
        BY <1>1
      <3>4. q * y + r = x + (Q + j - 1) * Base
        BY <3>1, <3>2, <3>3
      <3>5. Q + j - 1 \in Int
        BY <1>1
      <3> QED
        BY <3>4, <3>5
    <2> QED
      BY <2>1, <2>2, <2>3, <2>4
  <1>7. PICK m \in Int : q * y + r = x + m * Base
    BY <1>6
  <1>8. (x + m * Base) % Base = x % Base
    BY <1>1, ModPlus
  <1>9. x % Base = x
    BY <1>1, ModSmall DEF Word
  <1> QED
    BY <1>7, <1>8, <1>9, Zenon

LEMMA ResultOfDivision == TypeOK /\ DivisionLoop => DivisionResult
  <1> SUFFICES ASSUME TypeOK, DivisionLoop, Leaving, op \in Divisions, Divisor # 0
               PROVE  LET q == HiLoOut % Base
                          r == HiLoOut \div Base
                          m == Magnitude(op = "div", r)
                      IN  /\ (q * b + r) % Base = a
                          /\ m <= Divisor
                          /\ op = "div" /\ r # 0 => Sign(r) = Sign(a)
                          /\ m = Divisor <=> /\ Dividend % Divisor = 0
                                             /\ (Dividend \div Divisor) % 2 = 1
    BY DEF DivisionResult
  <1> DEFINE N == Dividend
             D == Divisor
             Q == QTemp
             R == RTemp
             SA == op = "div" /\ Sign(a)
             SB == op = "div" /\ Sign(b)
             q == IF SA # SB THEN Negate(Q) ELSE Q
             r == IF SA THEN Negate(R) ELSE R
  <1>1. cnt = Width - 1
    BY WidthAssumption DEF Leaving, StallReq, StallReqForDiv, TypeOK
  <1>2. a \in Word /\ b \in Word
    BY DEF TypeOK
  <1>3. N \in Word /\ D \in Word /\ D # 0
    BY <1>2, Operands
  <1>4. /\ Q \in Word /\ R \in Word /\ R <= D /\ N = Q * D + R
        /\ R = 0 => Q % 2 = 0
        /\ R = D => Q % 2 = 0
    BY <1>1, LastCycle
  <1>5. /\ N = (IF SA THEN Base - a ELSE a) /\ (op = "div" => N <= Half)
        /\ D = (IF SB THEN Base - b ELSE b) /\ (op = "div" => D <= Half)
    BY <1>2, MagnitudeIs DEF Dividend, Divisor
  <1>6. HiLoOut = r * Base + q
    <2>1. HiLoOut = DivRes
      BY DEF HiLoOut, Divisions, Accumulate
    <2> QED
      BY <2>1 DEF DivRes, Sign
  <1>7. SA \in BOOLEAN /\ SB \in BOOLEAN
    OBVIOUS
  <1>8. Base \in Nat \ {0} /\ Base = 2 * Half /\ Half \in Nat \ {0} /\ N \in Nat /\ D \in Nat \ {0}
          /\ Q \in Nat /\ R \in 0 .. D
    BY <1>3, <1>4, Words DEF Word
  <1>9. q \in Word /\ r \in Word
    BY <1>4, NegateIs
  <1>10. (q * b + r) % Base = a
    <2> HIDE DEF SA, SB, Q, R, N, D
    <2>1. N \in Int /\ D \in Int
      BY <1>8
    <2> QED
      BY <1>2, <1>4, <1>5, <1>7, <2>1, SignedDivision
  <1>11. R <= N
    <2> HIDE DEF Q, R, N, D
    <2>1. Q * D >= 0
      BY <1>8
    <2> QED
      BY <1>4, <1>8, <2>1
  <1>12. Magnitude(op = "div", r) = R
    <2>1. CASE op # "div"
      BY <2>1 DEF Magnitude
    <2>2. CASE op = "div"
      <3>1. R <= Half /\ (~Sign(a) => R < Half)
        <4> HIDE DEF Q, R, N, D
        <4> QED
          BY <1>2, <1>5, <1>8, <1>11, <2>2, Words DEF Sign, Word
      <3>2. r = (IF Sign(a) THEN IF R = 0 THEN 0 ELSE Base - R ELSE R)
        BY <1>4, <2>2, NegateIs
      <3>3. Magnitude(op = "div", r) = (IF Sign(r) THEN Base - r ELSE r)
        BY <1>9, <2>2, MagnitudeIs
      <3> HIDE DEF Q, R, N, D, r
      <3> QED
        BY <1>8, <3>1, <3>2, <3>3 DEF Sign
    <2> QED
      BY <2>1, <2>2
  <1>13. op = "div" /\ r # 0 => Sign(r) = Sign(a)
    <2> SUFFICES ASSUME op = "div", r # 0 PROVE Sign(r) = Sign(a)
      OBVIOUS
    <2>1. R <= Half /\ (~Sign(a) => R < Half)
      <3> HIDE DEF Q, R, N, D
      <3> QED
        BY <1>2, <1>5, <1>8, <1>11, Words DEF Sign, Word
    <2>2. r = (IF Sign(a) THEN IF R = 0 THEN 0 ELSE Base - R ELSE R)
      BY <1>4, NegateIs
    <2>3. Sign(r) <=> Sign(a)
      <3> HIDE DEF Q, R, N, D, r
      <3> QED
        BY <1>8, <2>1, <2>2 DEF Sign
    <2>4. Sign(r) \in BOOLEAN /\ Sign(a) \in BOOLEAN
      BY DEF Sign
    <2> QED
      BY <2>3, <2>4, Zenon
  <1>14. R = D <=> N % D = 0 /\ (N \div D) % 2 = 1
    <2> HIDE DEF Q, R, N, D
    <2> QED
      BY <1>4, <1>8, Shortfall
  <1>15. HiLoOut \div Base = r /\ HiLoOut % Base = q
    <2> HIDE DEF q, r
    <2>1. Base \in Nat \ {0} /\ r \in Int /\ q \in 0 .. Base - 1 /\ r * Base + q \in Int
      BY <1>8, <1>9 DEF Word
    <2> QED
      BY <1>6, <2>1, DivUnique
  <1> QED
    BY <1>4, <1>10, <1>12, <1>13, <1>14, <1>15

(* Whatever the operands, the smallest integer included, a division leaves *)
(* quotient and remainder that fit dividend, divisor and their signs, the  *)
(* remainder equal to the divisor only for an odd exact quotient.          *)
THEOREM DivisionResultHolds == Spec => []DivisionResult
  <1>1. IInv => DivisionResult
    BY ResultOfDivision DEF IInv
  <1> QED
    BY InitIInv, StepIInv, <1>1, PTL DEF Spec

(***************************************************************************)
(* Products, sums, comparisons and shifts.                                 *)
(***************************************************************************)
LEMMA ProductResult ==
  ASSUME IInv, Leaving, op \in Products
  PROVE  HiLoOut = HiLoWanted % (Base * Base)
  <1> DEFINE B2 == Base * Base
             W  == ProductWanted
  <1>1. a \in Word /\ b \in Word /\ B2 \in Nat \ {0}
    BY Square DEF IInv, TypeOK
  <1>2. W \in Int
    BY <1>1, ProductIs
  <1>3. PICK k \in Int : MulRes = W + k * B2
    BY <1>1, ProductIs
  <1>4. MulRes \in 0 .. B2 - 1 /\ MulRes \in Int
    BY <1>1, Operands DEF Double
  <1>5. hilo \in Int
    BY HiLoAssumption DEF IInv, TypeOK
  <1> HIDE DEF W, B2
  <1>6. CASE op \in {"mult", "multu"}
    <2>1. MulRes % B2 = W % B2
      BY <1>1, <1>2, <1>3, <1>4, Congruent
    <2>2. MulRes % B2 = MulRes
      BY <1>1, <1>4, ModSmall
    <2>3. HiLoOut = MulRes /\ HiLoWanted = W
      BY <1>6 DEF HiLoOut, HiLoWanted, Accumulate, Divisions, W
    <2> QED
      BY <2>1, <2>2, <2>3 DEF B2
  <1>7. CASE op \in Accumulate
    <2>1. cnt > 0
      BY <1>7 DEF Leaving, StallReq, StallReqForMadd, IInv, TypeOK
    <2>2. temp = IF op \in {"msub", "msubu"} THEN Negate2(MulRes) ELSE MulRes
      BY <1>7, <2>1 DEF IInv, SecondCycle
    <2>3. HiLoOut = (temp + hilo) % B2
      BY <1>7 DEF HiLoOut, Accumulate, Divisions, B2
    <2>4. CASE op \in {"madd", "maddu"}
      <3>1. HiLoWanted = hilo + W
        BY <2>4 DEF HiLoWanted, W
      <3>2. temp = W + k * B2
        BY <1>3, <2>2, <2>4
      <3> DEFINE x == temp + hilo
                 y == hilo + W
      <3>3. x = y + k * B2 /\ x \in Int /\ y \in Int
        BY <1>1, <1>2, <1>5, <3>2
      <3>4. x % B2 = y % B2
        <4> HIDE DEF x, y
        <4>1. (y + k * B2) % B2 = y % B2
          BY <1>1, <3>3, ModPlus
        <4> QED
          BY <3>3, <4>1, Zenon
      <3> QED
        BY <2>3, <3>1, <3>4 DEF B2
    <2>5. CASE op \in {"msub", "msubu"}
      <3>1. HiLoWanted = hilo - W
        BY <2>5 DEF HiLoWanted, W
      <3>2. PICK j \in Int : Negate2(MulRes) = -MulRes + j * B2
        BY <1>4, Negate2Is DEF B2
      <3>3. temp = -MulRes + j * B2
        BY <2>2, <2>5, <3>2
      <3> DEFINE x == temp + hilo
                 y == hilo - W
                 m == j - k
      <3>4. m * B2 = j * B2 - k * B2 /\ m \in Int
        BY <1>1
      <3>5. x = y + m * B2 /\ x \in Int /\ y \in Int
        <4> HIDE DEF m
        <4> QED
          BY <1>1, <1>2, <1>3, <1>4, <1>5, <3>3, <3>4
      <3>6. x % B2 = y % B2
        <4> HIDE DEF x, y, m
        <4>1. (y + m * B2) % B2 = y % B2
          BY <1>1, <3>4, <3>5, ModPlus
        <4> QED
          BY <3>5, <4>1, Zenon
      <3> QED
        BY <2>3, <3>1, <3>6 DEF B2
    <2> QED
      BY <1>7, <2>4, <2>5 DEF Accumulate
  <1> QED
    BY <1>6, <1>7 DEF Products

LEMMA SumIs ==
  ASSUME NEW x \in Word, NEW y \in Word
  PROVE  (x + y) % Base = IF x + y < Base THEN x + y ELSE x + y - Base
  <1>1. Base \in Nat \ {0} /\ x + y \in Int /\ x \in Int /\ y \in Int
    BY Words DEF Word
  <1>2. CASE x + y < Base
    <2>1. x + y \in 0 .. Base - 1
      BY <1>2, Words DEF Word
    <2> QED
      BY <1>1, <1>2, <2>1, ModSmall
  <1>3. CASE ~(x + y < Base)
    <2> DEFINE z == x + y
               r == x + y - Base
    <2>1. z = 1 * Base + r /\ r \in 0 .. Base - 1 /\ z \in Int
      BY <1>3, Words DEF Word
    <2> HIDE DEF z, r
    <2>2. z % Base = r
      BY <1>1, <2>1, DivUnique
    <2> QED
      BY <1>3, <2>2 DEF z, r
  <1> QED
    BY <1>2, <1>3

LEMMA SumResult ==
  ASSUME TypeOK, op \in Adds, ~(op = "sub" /\ b = Half)
  PROVE  /\ OvAssert = ~InRange(SumWanted)
         /\ Wdata = SumWanted % Base
  <1> DEFINE y == Reg2Mux
             s == ResultSum
  <1>1. /\ a \in Word /\ b \in Word /\ Base \in Nat \ {0} /\ Base = 2 * Half /\ Half \in Nat /\ Half >= 2
    BY Words DEF TypeOK
  <1>2. /\ y = (IF op = "sub" THEN IF b = 0 THEN 0 ELSE Base - b ELSE b)
        /\ y \in Word
    BY <1>1, NegateIs DEF Reg2Mux, Subtracts, Adds
  <1>3. s = IF a + y < Base THEN a + y ELSE a + y - Base
    BY <1>1, <1>2, SumIs DEF ResultSum
  <1>4. SumWanted = Value(a) + (IF op = "sub" THEN -Value(b) ELSE Value(b))
    BY <1>1 DEF SumWanted, Value, Adds, Word
  <1>5. (IF op = "sub" THEN -Value(b) ELSE Value(b)) = Value(y)
    <2> HIDE DEF y
    <2> QED
      BY <1>1, <1>2 DEF Value, Sign, Word
  <1>6. OvSum <=> (Sign(a) <=> Sign(y)) /\ ~(Sign(s) <=> Sign(a))
    BY DEF OvSum, Sign
  <1> HIDE DEF y, s
  <1>7. SumWanted = Value(a) + Value(y)
    BY <1>4, <1>5
  <1>8. OvSum <=> ~InRange(SumWanted)
    BY <1>1, <1>2, <1>3, <1>6, <1>7 DEF InRange, Value, Sign, Word
  <1>9. OvAssert <=> ~InRange(SumWanted)
    BY <1>8 DEF OvAssert
  <1>10. OvAssert \in BOOLEAN /\ InRange(SumWanted) \in BOOLEAN
    BY DEF OvAssert, OvSum, InRange
  <1>11. OvAssert = ~InRange(SumWanted)
    BY <1>9, <1>10, Zenon
  <1>12. Wdata = s
    BY DEF Wdata, Adds, Shifts, s
  <1>13. s \in 0 .. Base - 1 /\ \E k \in Int : SumWanted = s + k * Base
    <2>1. s \in 0 .. Base - 1 /\ SumWanted \in {s, s - Base, s - 2 * Base, s + Base}
      BY <1>1, <1>2, <1>3, <1>7 DEF Value, Sign, Word
    <2>2. /\ s = s + 0 * Base /\ s - Base = s + (-1) * Base /\ s - 2 * Base = s + (-2) * Base
          /\ s + Base = s + 1 * Base /\ 0 \in Int /\ -1 \in Int /\ -2 \in Int /\ 1 \in Int
      BY <1>1, <2>1
    <2> QED
      BY <2>1, <2>2
  <1>14. SumWanted % Base = s
    <2>1. PICK k \in Int : SumWanted = s + k * Base
      BY <1>13
    <2>2. s \in Int /\ (s + k * Base) % Base = s % Base
      BY <1>1, <1>13, ModPlus
    <2> QED
      BY <1>1, <1>13, <2>1, <2>2, ModSmall
  <1> QED
    BY <1>11, <1>12, <1>14

(* The comparisons hold for every pair of operands: overflow is accounted  *)
(* for by the signs.                                                       *)
LEMMA LessIs ==
  ASSUME TypeOK, op \in Compares PROVE Reg1LtReg2 <=> LessWanted
  <1> DEFINE y == Reg2Mux
             s == ResultSum
  <1>1. /\ a \in Word /\ b \in Word /\ Base \in Nat \ {0} /\ Base = 2 * Half /\ Half \in Nat /\ Half >= 2
    BY Words DEF TypeOK
  <1>2. CASE ~Subtracts
    BY <1>2 DEF Reg1LtReg2, LessWanted
  <1>3. CASE Subtracts
    <2>1. y = (IF b = 0 THEN 0 ELSE Base - b) /\ y \in Word
      BY <1>1, <1>3, NegateIs DEF Reg2Mux
    <2>2. s = IF a + y < Base THEN a + y ELSE a + y - Base
      BY <1>1, <2>1, SumIs DEF ResultSum
    <2>3. Reg1LtReg2 <=> \/ Sign(a) /\ ~Sign(b)
                         \/ (Sign(a) <=> Sign(b)) /\ Sign(s)
      BY <1>3 DEF Reg1LtReg2, Sign
    <2>4. LessWanted <=> Value(a) < Value(b)
      BY <1>3 DEF LessWanted
    <2> HIDE DEF y, s
    <2> QED
      BY <1>1, <2>1, <2>2, <2>3, <2>4 DEF Value, Sign, Word
  <1> QED
    BY <1>2, <1>3

LEMMA CompareResult ==
  ASSUME TypeOK, op \in Compares
  PROVE  /\ op \in {"slt", "sltu"} => Wdata = IF LessWanted THEN 1 ELSE 0
         /\ op \in {"tlt", "tltu", "tge", "tgeu"} =>
              TrapAssert = (LessWanted = (op \in {"tlt", "tltu"}))
  <1>1. Reg1LtReg2 <=> LessWanted
    BY LessIs
  <1>2. ASSUME op \in {"slt", "sltu"} PROVE Wdata = IF LessWanted THEN 1 ELSE 0
    BY <1>1, <1>2 DEF Wdata, Shifts, Adds
  <1>3. ASSUME op \in {"tlt", "tltu", "tge", "tgeu"}
        PROVE  TrapAssert = (LessWanted = (op \in {"tlt", "tltu"}))
    <2>1. TrapAssert <=> (LessWanted <=> op \in {"tlt", "tltu"})
      BY <1>1, <1>3 DEF TrapAssert
    <2>2. TrapAssert \in BOOLEAN
      BY DEF TrapAssert
    <2> DEFINE less == op \in {"tlt", "tltu"}
    <2>3. LessWanted \in BOOLEAN /\ less \in BOOLEAN
      <3>1. a \in Int /\ b \in Int /\ Value(a) \in Int /\ Value(b) \in Int
        BY Words DEF TypeOK, Word, Value
      <3>2. CASE Subtracts
        BY <3>1, <3>2 DEF LessWanted
      <3>3. CASE ~Subtracts
        BY <3>1, <3>3 DEF LessWanted
      <3> QED
        BY <3>2, <3>3
    <2>4. (LessWanted <=> less) <=> (LessWanted = less)
      <3> HIDE DEF less
      <3> QED
        BY <2>3, Zenon
    <2>5. (LessWanted = less) \in BOOLEAN
      BY Zenon
    <2>6. TrapAssert <=> (LessWanted = less)
      BY <2>1, <2>4, Zenon
    <2> HIDE DEF less
    <2>7. TrapAssert = (LessWanted = less)
      BY <2>2, <2>5, <2>6, Zenon
    <2> QED
      BY <2>7 DEF less
  <1> QED
    BY <1>2, <1>3

(* A shift to the right by n: the quotient fits the bits that remain, and  *)
(* the sign fills the bits above them.                                     *)
LEMMA ShiftRight ==
  ASSUME NEW n \in 0 .. Width - 1, NEW x \in Word
  PROVE  /\ x \div 2^n \in Word /\ (x \div 2^n) % Base = x \div 2^n
         /\ ((Base - 1) * 2^(Width - n)) % Base # Base - 1
         /\ ((x - Base) \div 2^n) % Base = (((Base - 1) * 2^(Width - n)) % Base) + x \div 2^n
  <1> DEFINE K == 2^n
             M == 2^(Width - n)
             m == 2^(Width - n - 1)
             h == x \div K
             l == x % K
  <1>1. /\ n \in Nat /\ Width - n \in Nat /\ Width - n - 1 \in Nat /\ Width - n = Width - n - 1 + 1
        /\ n + (Width - n) = Width
    BY WidthAssumption
  <1>2. K \in Nat \ {0} /\ M \in Nat \ {0} /\ m \in Nat \ {0} /\ M = 2 * m
    BY <1>1, Pow, PowNext
  <1>3. Base = K * M
    <2>1. 2^(n + (Width - n)) = K * M
      BY <1>1, PowPlus
    <2> QED
      BY <1>1, <2>1, Zenon DEF Base
  <1> HIDE DEF K, M, m
  <1>4. h \in Int /\ l \in 0 .. K - 1 /\ x = h * K + l /\ x \in 0 .. Base - 1 /\ x \in Int
    BY <1>2, DivMod DEF Word
  <1>5. Base \in Nat \ {0}
    BY Words
  <1> HIDE DEF h, l
  <1>6. h \in 0 .. M - 1
    <2>1. ASSUME h <= -1 PROVE FALSE
      <3>1. h * K <= (-1) * K
        BY <1>2, <1>4, <2>1
      <3> QED
        BY <1>2, <1>4, <3>1
    <2>2. ASSUME h >= M PROVE FALSE
      <3>1. h * K >= M * K
        BY <1>2, <1>4, <2>2
      <3> QED
        BY <1>2, <1>3, <1>4, <3>1
    <2> QED
      BY <1>2, <1>4, <2>1, <2>2
  <1>7. M <= Base /\ M >= 2
    <2>1. K * M >= M
      BY <1>2
    <2> QED
      BY <1>2, <1>3, <2>1
  <1>8. h \in Word /\ h % Base = h
    <2>1. h \in 0 .. Base - 1
      BY <1>2, <1>5, <1>6, <1>7
    <2> QED
      BY <1>5, <2>1, ModSmall DEF Word
  <1>9. ((Base - 1) * M) % Base = Base - M
    <2> DEFINE y == (Base - 1) * M
               q == M - 1
               r == Base - M
    <2>1. y = q * Base + r /\ y \in Int /\ q \in Int /\ r \in 0 .. Base - 1
      BY <1>2, <1>5, <1>7
    <2> HIDE DEF y, q, r
    <2>2. y % Base = r
      BY <1>5, <2>1, DivUnique
    <2> QED
      BY <2>2 DEF y, r
  <1>10. (x - Base) \div K = h - M
    <2> DEFINE y == x - Base
               q == h - M
    <2>1. q * K = h * K - M * K
      BY <1>2, <1>4
    <2>2. y = q * K + l /\ y \in Int /\ q \in Int
      <3> HIDE DEF q
      <3>1. y = q * K + l
        BY <1>2, <1>3, <1>4, <2>1
      <3> QED
        BY <1>2, <1>4, <1>5, <3>1 DEF q
    <2> HIDE DEF y, q
    <2>3. y \div K = q
      BY <1>2, <1>4, <2>2, DivUnique
    <2> QED
      BY <2>3 DEF y, q
  <1>11. (h - M) % Base = Base - M + h
    <2> DEFINE y == h - M
               r == Base - M + h
    <2>1. y = (-1) * Base + r /\ y \in Int /\ -1 \in Int /\ r \in 0 .. Base - 1
      BY <1>2, <1>5, <1>6, <1>7
    <2> HIDE DEF y, r
    <2>2. y % Base = r
      BY <1>5, <2>1, DivUnique
    <2> QED
      BY <2>2 DEF y, r
  <1>12. Base - M # Base - 1
    BY <1>2, <1>5, <1>7
  <1> QED
    BY <1>8, <1>9, <1>10, <1>11, <1>12 DEF K, M, h

LEMMA ShiftResult ==
  ASSUME TypeOK, op \in Shifts, a < Width
  PROVE  /\ op = "sll" => Wdata = (b * 2^a) % Base
         /\ op = "srl" => Wdata = b \div 2^a
         /\ op = "sra" => Wdata = (Value(b) \div 2^a) % Base
  <1>1. a \in 0 .. Width - 1 /\ b \in Word /\ a \in Word
    BY Words, WidthAssumption DEF TypeOK, Word
  <1>2. Wdata = ShiftRes
    BY DEF Wdata, Shifts, Adds
  <1>3. op = "sll" => Wdata = (b * 2^a) % Base
    BY <1>2 DEF ShiftRes
  <1>4. op = "srl" => Wdata = b \div 2^a
    BY <1>2 DEF ShiftRes
  <1>5. ASSUME op = "sra" PROVE Wdata = (Value(b) \div 2^a) % Base
    <2> DEFINE fill == IF Sign(b) /\ a <= Width
                         THEN ((Base - 1) * 2^(Width - a)) % Base ELSE 0
               low  == b \div 2^(a % Width)
    <2>1. Wdata = IF fill = Base - 1 THEN fill ELSE fill + low
      BY <1>2, <1>5 DEF ShiftRes
    <2>2. a % Width = a
      <3>1. Width \in Nat \ {0}
        BY WidthAssumption
      <3> QED
        BY <1>1, <3>1, ModSmall
    <2>3. low = b \div 2^a
      BY <2>2
    <2>4. /\ b \div 2^a \in Word /\ (b \div 2^a) % Base = b \div 2^a
          /\ ((Base - 1) * 2^(Width - a)) % Base # Base - 1
          /\ ((b - Base) \div 2^a) % Base = (((Base - 1) * 2^(Width - a)) % Base) + b \div 2^a
      BY <1>1, ShiftRight
    <2>5. CASE Sign(b)
      <3>1. fill = ((Base - 1) * 2^(Width - a)) % Base
        BY <1>1, <2>5, WidthAssumption
      <3>2. Value(b) = b - Base
        BY <2>5 DEF Value
      <3> HIDE DEF fill, low
      <3> QED
        BY <2>1, <2>3, <2>4, <3>1, <3>2, Zenon
    <2>6. CASE ~Sign(b)
      <3>1. fill = 0 /\ 0 # Base - 1
        BY <2>6, Words
      <3>2. Value(b) = b
        BY <2>6 DEF Value
      <3>3. b \div 2^a \in Int
        BY <2>4 DEF Word
      <3>4. 0 + b \div 2^a = b \div 2^a
        BY <3>3
      <3> HIDE DEF fill, low
      <3> QED
        BY <2>1, <2>3, <2>4, <3>1, <3>2, <3>4, Zenon
    <2> QED
      BY <2>5, <2>6
  <1> QED
    BY <1>3, <1>4, <1>5

(* Except for the two known defects, sums, products, accumulations,        *)
(* comparisons, traps and shifts give what the integers give, for words of *)
(* any width.                                                              *)
THEOREM ArithmeticResultHolds == Spec => []ArithmeticResult
  <1>1. IInv => ArithmeticResult
    <2> SUFFICES ASSUME IInv, Leaving, ~KnownDefect
                 PROVE  /\ op \in Products => HiLoOut = HiLoWanted % (Base * Base)
                        /\ op \in Adds => /\ OvAssert = ~InRange(SumWanted)
                                          /\ Wdata = SumWanted % Base
                        /\ op \in {"slt", "sltu"} => Wdata = IF LessWanted THEN 1 ELSE 0
                        /\ op \in {"tlt", "tltu", "tge", "tgeu"} =>
                             TrapAssert = (LessWanted = (op \in {"tlt", "tltu"}))
                        /\ op = "sll" => Wdata = (b * 2^a) % Base
                        /\ op = "srl" => Wdata = b \div 2^a
                        /\ op = "sra" => Wdata = (Value(b) \div 2^a) % Base
      BY DEF ArithmeticResult
    <2>1. TypeOK
      BY DEF IInv
    <2>2. op \in Products => HiLoOut = HiLoWanted % (Base * Base)
      BY ProductResult
    <2>3. op \in Adds => OvAssert = ~InRange(SumWanted) /\ Wdata = SumWanted % Base
      BY <2>1, SumResult DEF KnownDefect
    <2>4. op \in Compares =>
            /\ op \in {"slt", "sltu"} => Wdata = IF LessWanted THEN 1 ELSE 0
            /\ op \in {"tlt", "tltu", "tge", "tgeu"} =>
                 TrapAssert = (LessWanted = (op \in {"tlt", "tltu"}))
      BY <2>1, CompareResult
    <2>5. op \in Shifts =>
            /\ op = "sll" => Wdata = (b * 2^a) % Base
            /\ op = "srl" => Wdata = b \div 2^a
            /\ op = "sra" => Wdata = (Value(b) \div 2^a) % Base
      <3>1. op \in Shifts => a < Width
        BY <2>1, WidthAssumption DEF KnownDefect, TypeOK, Word
      <3> QED
        BY <2>1, <3>1, ShiftResult
    <2>6. /\ op \in {"slt", "sltu", "tlt", "tltu", "tge", "tgeu"} => op \in Compares
          /\ op \in {"sll", "srl", "sra"} => op \in Shifts
      BY DEF Compares, Shifts
    <2> QED
      BY <2>2, <2>3, <2>4, <2>5, <2>6
  <1> QED
    BY InitIInv, StepIInv, <1>1, PTL DEF Spec

=============================================================================
