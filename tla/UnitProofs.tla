----------------------------- MODULE UnitProofs -----------------------------
(***************************************************************************)
(* The divider, proved for every width, every number of quotient bits per  *)
(* clock and every pair of operands: the loop invariant of restoring       *)
(* division, and with it that the unit delivers what the reference model   *)
(* divides, clock for clock as DivContract says.                           *)
(*                                                                         *)
(* And the data memory, for every size and every width of a byte, if a     *)
(* word is four of them: behind the shifts and byte lanes of the           *)
(* load/store unit it is the byte array of the reference model.            *)
(***************************************************************************)
EXTENDS DivAlgorithm, DataMemory, ArithmeticProofs, SequenceTheorems, TLAPS

-----------------------------------------------------------------------------
(* One restoring step. *)

DState == [rem : Nat, quot : Nat]

LEMMA SizeType == Size \in Nat /\ Size > 1 /\ \E h \in Nat \ {0} : Size = 2 * h /\ Size \div 2 = h
<1>1. PICK n \in Nat : Bits = n + 1
  <2>1. Bits - 1 \in Nat /\ Bits = (Bits - 1) + 1
    BY WidthAssumption
  <2> QED
    BY <2>1
<1>2. 2 ^ Bits = 2 * 2 ^ n /\ 2 ^ n \in Nat \ {0}
  BY <1>1, PowStep, PowPositive
<1> DEFINE h == 2 ^ n
<1>3. Size = 2 * h /\ h \in Nat \ {0}
  BY <1>2 DEF Size
<1> HIDE DEF h
<1>4. (2 * h) \div 2 = h
  BY <1>3
<1> QED
  BY <1>3, <1>4

\* The dividend a, divided by d as far as its top k bits: st holds the quotient
\* in the low k bits of quot, the remainder in rem, and the rest of a above.
Divided(k, st, a, d) ==
  /\ st \in DState
  /\ st.rem < d
  /\ st.quot < Size
  /\ a = ((st.quot % 2 ^ k) * d + st.rem) * 2 ^ (Bits - k) + st.quot \div 2 ^ k
  /\ st.quot \div 2 ^ k < 2 ^ (Bits - k)

\* A shift to the left brings the top bit t of the dividend's rest into the
\* remainder.
LEMMA TopBit ==
  ASSUME NEW p \in Nat \ {0}, NEW h \in Nat \ {0}, NEW t \in {0, 1},
         NEW r \in Nat, r < h, NEW b \in Nat, b < p, Size = p * (2 * h)
  PROVE  /\ (2 * ((t * h + r) * p + b)) \div Size = t
         /\ (2 * ((t * h + r) * p + b)) % Size = r * (2 * p) + 2 * b
         /\ r * (2 * p) + 2 * b + 1 < Size
<1> DEFINE n == r * (2 * p) + 2 * b
<1>1. r * p \in Nat /\ h * p \in Nat /\ n \in Nat
  BY Times
<1>2. r * p + p <= h * p
  BY TimesLeast
<1>3. Size = 2 * (h * p)
  OBVIOUS
<1>4. r * (2 * p) = 2 * (r * p)
  OBVIOUS
<1>5. n + 1 < Size
  BY <1>1, <1>2, <1>3, <1>4
<1>6. 2 * ((t * h + r) * p + b) = t * Size + n
  <2>1. CASE t = 0
    <3>1. t * h + r = r /\ t * Size + n = n
      BY <2>1, <1>1, SizeType
    <3> QED
      BY <3>1, <1>4, <1>1
  <2>2. CASE t = 1
    <3>1. t * h + r = h + r /\ t * Size + n = Size + n
      BY <2>2, <1>1, SizeType
    <3>2. (h + r) * p = h * p + r * p
      OBVIOUS
    <3> QED
      BY <3>1, <3>2, <1>1, <1>3, <1>4
  <2> QED
    BY <2>1, <2>2
<1>7. t \in Nat /\ Size \in Nat \ {0} /\ n < Size
  BY <1>1, <1>5, SizeType
<1> HIDE DEF n
<1>8. (t * Size + n) % Size = n /\ (t * Size + n) \div Size = t
  BY <1>1, <1>7, Digits
<1> QED
  BY <1>5, <1>6, <1>8 DEF n

LEMMA StepDivides ==
  ASSUME NEW k \in 0 .. Bits - 1, NEW a, NEW d \in Word, NEW st, Divided(k, st, a, d)
  PROVE  Divided(k + 1, RestoringStep(st, d), a, d)
<1> DEFINE p == 2 ^ k
           h == 2 ^ (Bits - (k + 1))
<1>1. k \in Nat /\ k + 1 \in 0 .. Bits /\ k \in 0 .. Bits /\ Bits - (k + 1) \in Nat
  BY WidthAssumption
<1>2. /\ p \in Nat \ {0} /\ h \in Nat \ {0}
      /\ 2 ^ (k + 1) = 2 * p
  BY <1>1, PowPositive, PowStep
<1>3. 2 ^ (Bits - k) = 2 * h
  <2>1. Bits - k = (Bits - (k + 1)) + 1
    BY WidthAssumption, <1>1
  <2> QED
    BY <2>1, <1>1, PowStep
<1>4. Size = p * (2 * h)
  <2>1. Bits = k + (Bits - k) /\ Bits - k \in Nat
    BY WidthAssumption, <1>1
  <2> QED
    BY <2>1, <1>1, <1>3, PowSum DEF Size
<1>5. st \in DState /\ st.rem \in Nat /\ st.quot \in Nat /\ st.rem < d /\ d \in Nat
  BY WordAssumption DEF Divided, DState, Word
<1>6. PICK x \in Nat, b \in 0 .. p - 1 : st.quot = x * p + b
  <2> HIDE DEF p
  <2> QED
    BY <1>2, <1>5, DivMod
<1>7. st.quot < Size /\ a = (b * d + st.rem) * (2 * h) + x /\ x < 2 * h
  <2>1. (x * p + b) % p = b /\ (x * p + b) \div p = x
    <3>1. p \in Nat \ {0} /\ b \in Nat /\ b < p
      BY <1>2, <1>6
    <3> HIDE DEF p
    <3> QED
      BY <3>1, Digits
  <2>2. st.quot % 2 ^ k = b /\ st.quot \div 2 ^ k = x
    BY <1>6, <2>1
  <2> HIDE DEF p, h
  <2> QED
    BY <1>3, <2>2 DEF Divided
<1> HIDE DEF p, h
<1>8. PICK t \in {0, 1}, r \in 0 .. h - 1 : x = t * h + r
  <2>1. CASE x < h
    <3>1. x = 0 * h + x
      BY <1>2
    <3> QED
      BY <2>1, <3>1, <1>2
  <2>2. CASE x >= h
    <3>1. x = 1 * h + (x - h) /\ x - h \in 0 .. h - 1
      BY <2>2, <1>2, <1>7
    <3> QED
      BY <3>1
  <2> QED
    BY <2>1, <2>2, <1>2
<1>9. b \in Nat /\ b < p /\ r \in Nat /\ r < h
  BY <1>2, <1>6, <1>8
<1>10. /\ (2 * st.quot) \div Size = t
       /\ (2 * st.quot) % Size = r * (2 * p) + 2 * b
       /\ r * (2 * p) + 2 * b + 1 < Size
  BY <1>2, <1>4, <1>6, <1>8, <1>9, TopBit
<1>11. st.rem % Size = st.rem
  BY <1>5, SizeType, LatencyAssumption DEF Word
<1>12. PICK s \in {0, 1} : /\ s = 1 <=> 2 * st.rem + t >= d
                          /\ RestoringStep(st, d) =
                               [rem  |-> (2 * st.rem + t) - s * d,
                                quot |-> r * (2 * p) + (2 * b + s)]
  <2> DEFINE c == 2 * st.rem + t
             n == r * (2 * p) + 2 * b
  <2>1. RestoringStep(st, d) =
          IF c >= d THEN [rem |-> c - d, quot |-> n + 1] ELSE [rem |-> c, quot |-> n]
    BY <1>10, <1>11 DEF RestoringStep
  <2>2. c \in Nat
    BY <1>5
  <2>3. r * (2 * p) \in Nat /\ n \in Nat
    BY <1>2, <1>9, Times
  <2>4. n + 1 = r * (2 * p) + (2 * b + 1) /\ n = r * (2 * p) + (2 * b + 0)
    BY <2>3, <1>9
  <2>5. c - 1 * d = c - d /\ c - 0 * d = c
    BY <2>2, <1>5
  <2>6. CASE c >= d
    <3>1. RestoringStep(st, d) = [rem |-> c - 1 * d, quot |-> r * (2 * p) + (2 * b + 1)]
      BY <2>1, <2>4, <2>5, <2>6
    <3> QED
      BY <3>1, <2>6
  <2>7. CASE ~(c >= d)
    <3>1. RestoringStep(st, d) = [rem |-> c - 0 * d, quot |-> r * (2 * p) + (2 * b + 0)]
      BY <2>1, <2>4, <2>5, <2>7
    <3> QED
      BY <3>1, <2>7
  <2> QED
    BY <2>6, <2>7
<1> DEFINE new == RestoringStep(st, d)
<1>13. new.rem = (2 * st.rem + t) - s * d /\ new.quot = r * (2 * p) + (2 * b + s)
  BY <1>12
<1>14. new.rem \in Nat /\ new.rem < d
  <2>1. CASE s = 1
    BY <1>5, <1>8, <1>12, <1>13, <2>1
  <2>2. CASE s = 0
    BY <1>5, <1>8, <1>12, <1>13, <2>2
  <2> QED
    BY <2>1, <2>2
<1>15. new.quot \in Nat /\ new.quot < Size
  <2>1. r * (2 * p) \in Nat /\ s \in 0 .. 1
    BY <1>2, <1>9, Times
  <2> QED
    BY <2>1, <1>9, <1>10, <1>13, SizeType
<1>16. new \in DState
  BY <1>12, <1>13, <1>14, <1>15 DEF DState
<1> HIDE DEF new
<1>17. a = ((2 * b + s) * d + new.rem) * h + r
  <2> DEFINE e == b * d + st.rem
  <2>1. b * d \in Nat /\ e \in Nat
    BY <1>5, <1>9, Times
  <2>2. (2 * b + s) * d = 2 * (b * d) + s * d /\ s * d \in Nat
    BY <1>5, <1>9
  <2>3. (2 * b + s) * d + new.rem = 2 * e + t
    BY <1>5, <1>13, <1>14, <2>1, <2>2
  <2> HIDE DEF e
  <2>4. (2 * e + t) * h = e * (2 * h) + t * h
    BY <1>2, <2>1
  <2>5. a = e * (2 * h) + (t * h + r)
    BY <1>7, <1>8 DEF e
  <2>6. e * (2 * h) \in Nat /\ t * h \in Nat
    BY <1>2, <2>1, Times
  <2> QED
    BY <1>9, <2>3, <2>4, <2>5, <2>6
<1>18. 2 * b + s \in Nat /\ 2 * b + s < 2 * p
  BY <1>2, <1>9
<1> DEFINE b2 == 2 * b + s
<1>19. new.quot % (2 * p) = b2 /\ new.quot \div (2 * p) = r
  <2>1. 2 * p \in Nat \ {0}
    BY <1>2
  <2>2. (r * (2 * p) + b2) % (2 * p) = b2 /\ (r * (2 * p) + b2) \div (2 * p) = r
    <3> DEFINE p2 == 2 * p
    <3>1. p2 \in Nat \ {0} /\ b2 \in Nat /\ b2 < p2
      BY <2>1, <1>18
    <3> HIDE DEF p2, b2
    <3>2. (r * p2 + b2) % p2 = b2 /\ (r * p2 + b2) \div p2 = r
      BY <1>9, <3>1, Digits
    <3> QED
      BY <3>2 DEF p2
  <2> QED
    BY <1>13, <2>2
<1>20. new.quot % 2 ^ (k + 1) = b2 /\ new.quot \div 2 ^ (k + 1) = r
  BY <1>2, <1>19
<1>21. 2 ^ (Bits - (k + 1)) = h
  BY DEF h
<1> HIDE DEF b2
<1>22. a = (b2 * d + new.rem) * h + r
  BY <1>17 DEF b2
<1>23. Divided(k + 1, new, a, d)
  BY <1>9, <1>14, <1>15, <1>16, <1>20, <1>21, <1>22 DEF Divided
<1> QED
  BY <1>23 DEF new

LEMMA StepType ==
  ASSUME NEW st \in DState, NEW d \in Word
  PROVE  RestoringStep(st, d) \in DState
<1> DEFINE c == 2 * (st.rem % Size) + (2 * st.quot) \div Size
           n == (2 * st.quot) % Size
<1>1. Size \in Nat \ {0} /\ d \in Nat
  BY SizeType, LatencyAssumption, WordAssumption DEF Word
<1>2. st.rem \in Nat /\ 2 * st.quot \in Nat
  BY DEF DState
<1>3. st.rem % Size \in Nat /\ (2 * st.quot) \div Size \in Nat /\ (2 * st.quot) % Size \in Nat
  <2> DEFINE q2 == 2 * st.quot
  <2>1. q2 \in Nat
    BY <1>2
  <2> HIDE DEF q2
  <2>2. q2 \div Size \in Nat /\ q2 % Size \in Nat
    BY <1>1, <2>1
  <2>3. st.rem % Size \in Nat
    BY <1>1, <1>2
  <2> QED
    BY <2>2, <2>3 DEF q2
<1>4. c \in Nat /\ n \in Nat
  BY <1>3
<1>5. RestoringStep(st, d) =
        IF c >= d THEN [rem |-> c - d, quot |-> n + 1] ELSE [rem |-> c, quot |-> n]
  BY DEF RestoringStep
<1> HIDE DEF c, n
<1> QED
  BY <1>1, <1>4, <1>5 DEF DState

LEMMA LoopDivides ==
  ASSUME NEW n \in Nat, NEW k \in Nat, k + n <= Bits,
         NEW a, NEW d \in Word, NEW st, Divided(k, st, a, d)
  PROVE  Divided(k + n, Restoring(n, st, d), a, d)
<1> DEFINE F == [s \in DState |-> RestoringStep(s, d)]
<1>1. st \in DState /\ F \in [DState -> DState]
  BY StepType DEF Divided
<1>2. PICK f \in [0 .. n -> DState] : f[0] = st /\ \A j \in 1 .. n : f[j] = F[f[j - 1]]
  <2> HIDE DEF F
  <2>1. Orbits(DState, st, F, n) # {}
    BY <1>1, Iterated
  <2> QED
    BY <2>1 DEF Orbits
<1>3. f = [j \in 0 .. n |-> IF j = 0 THEN st ELSE RestoringStep(f[j - 1], d)]
  <2>1. ASSUME NEW j \in 0 .. n, j # 0
        PROVE  f[j] = RestoringStep(f[j - 1], d)
    <3>1. j \in 1 .. n /\ j - 1 \in 0 .. n
      BY <2>1
    <3>2. f[j - 1] \in DState /\ f[j] = F[f[j - 1]]
      BY <1>2, <3>1
    <3> QED
      BY <3>2
  <2> QED
    BY <1>2, <2>1
<1> DEFINE g == CHOOSE g : g = [j \in 0 .. n |-> IF j = 0 THEN st ELSE RestoringStep(g[j - 1], d)]
<1>4. g = [j \in 0 .. n |-> IF j = 0 THEN st ELSE RestoringStep(g[j - 1], d)]
  BY <1>3
<1>5. Restoring(n, st, d) = g[n]
  BY DEF Restoring
<1> HIDE DEF g
<1> DEFINE T == {j \in Nat : j <= n => Divided(k + j, g[j], a, d)}
<1>6. 0 \in T
  <2>1. g[0] = st /\ k + 0 = k
    BY <1>4
  <2> QED
    BY <2>1
<1>7. ASSUME NEW j \in Nat, j \in T
      PROVE  j + 1 \in T
  <2> SUFFICES ASSUME j + 1 <= n PROVE Divided(k + (j + 1), g[j + 1], a, d)
    OBVIOUS
  <2>1. Divided(k + j, g[j], a, d)
    BY <1>7
  <2>2. g[j + 1] = RestoringStep(g[j], d)
    <3>1. j + 1 \in 0 .. n /\ j + 1 # 0 /\ (j + 1) - 1 = j
      OBVIOUS
    <3> QED
      BY <1>4, <3>1
  <2>3. k + j \in 0 .. Bits - 1 /\ k + (j + 1) = (k + j) + 1
    BY WidthAssumption
  <2>4. Divided((k + j) + 1, RestoringStep(g[j], d), a, d)
    BY <2>1, <2>3, StepDivides
  <2> QED
    BY <2>2, <2>3, <2>4
<1>8. Nat \subseteq T
  <2> HIDE DEF T
  <2> QED
    BY <1>6, <1>7, SetInduction
<1> QED
  BY <1>5, <1>8

-----------------------------------------------------------------------------
(* The first state of the loop, and what the last one holds. *)

LEMMA WordFacts == Size \in Nat \ {0} /\ Word = 0 .. Size - 1 /\ Size = 2 ^ Bits
  BY SizeType, LatencyAssumption DEF Word, Size

LEMMA StartDivides ==
  ASSUME NEW a \in Word, NEW d \in Word, d # 0
  PROVE  Divided(0, [rem |-> 0, quot |-> a], a, d)
<1>1. a \in Nat /\ d \in Nat /\ a < Size /\ 0 < d
  BY WordFacts
<1>2. 2 ^ 0 = 1 /\ Bits - 0 = Bits /\ 2 ^ (Bits - 0) = Size
  BY PowStep, WidthAssumption DEF Size
<1>3. a % 1 = 0 /\ a \div 1 = a
  BY <1>1
<1>4. (0 * d + 0) * Size + a = a
  BY <1>1, WordFacts
<1> QED
  BY <1>1, <1>2, <1>3, <1>4 DEF Divided, DState

LEMMA EndDivides ==
  ASSUME NEW a, NEW d \in Word, NEW st, Divided(Bits, st, a, d)
  PROVE  /\ a \in Nat
         /\ st.quot = a \div d /\ st.quot \in Nat /\ st.quot < Size
         /\ st.rem = a % d /\ st.rem \in Nat /\ st.rem < d
<1>1. st.quot \in Nat /\ st.rem \in Nat /\ d \in Nat /\ st.rem < d /\ st.quot < Size
  BY WordFacts DEF Divided, DState
<1>2. 2 ^ Bits = Size /\ Bits - Bits = 0 /\ 2 ^ (Bits - Bits) = 1
  BY PowStep, WidthAssumption DEF Size
<1>3. st.quot % Size = st.quot /\ st.quot \div Size = 0
  <2>1. (0 * Size + st.quot) % Size = st.quot /\ (0 * Size + st.quot) \div Size = 0
    BY <1>1, WordFacts, Digits
  <2> QED
    BY <2>1, <1>1, WordFacts
<1>4. a = (st.quot * d + st.rem) * 1 + 0
  BY <1>2, <1>3 DEF Divided
<1>5. st.quot * d \in Nat
  BY <1>1, Times
<1>6. a = st.quot * d + st.rem /\ a \in Nat
  BY <1>1, <1>4, <1>5
<1>7. (st.quot * d + st.rem) % d = st.rem /\ (st.quot * d + st.rem) \div d = st.quot
  <2>1. d \in Nat \ {0}
    BY <1>1
  <2> QED
    BY <1>1, <2>1, Digits
<1> QED
  BY <1>1, <1>6, <1>7

-----------------------------------------------------------------------------
(* The Python loop takes the same steps. *)

PState == [rem : Nat, q : Nat]
AsUnit(s) == [rem |-> s.rem, quot |-> s.q]

LEMMA BitStepType ==
  ASSUME NEW s \in PState, NEW d \in Word
  PROVE  BitStep(s, d) \in PState
<1> DEFINE c == (2 * (s.rem % Size)) + ((s.q \div (Size \div 2)) % 2)
           n == Trunc(2 * s.q)
<1>1. d \in Nat /\ Size \div 2 \in Nat \ {0} /\ s.rem \in Nat /\ s.q \in Nat
  BY WordFacts, SizeType DEF PState
<1>2. s.rem % Size \in Nat /\ s.q \div (Size \div 2) \in Nat
  <2> DEFINE h == Size \div 2
  <2>1. h \in Nat \ {0}
    BY <1>1
  <2> HIDE DEF h
  <2>2. s.q \div h \in Nat
    BY <1>1, <2>1
  <2>3. s.rem % Size \in Nat
    BY <1>1, WordFacts
  <2> QED
    BY <2>2, <2>3 DEF h
<1>3. (s.q \div (Size \div 2)) % 2 \in Nat
  BY <1>2
<1>4. n \in Nat
  <2> DEFINE q2 == 2 * s.q
  <2>1. q2 \in Nat
    BY <1>1
  <2> HIDE DEF q2
  <2>2. q2 % Size \in Nat
    BY <2>1, WordFacts
  <2> QED
    BY <2>2 DEF Trunc, q2
<1>5. c \in Nat
  BY <1>2, <1>3
<1>6. BitStep(s, d) = IF c >= d THEN [rem |-> c - d, q |-> n + 1] ELSE [rem |-> c, q |-> n]
  BY DEF BitStep
<1> HIDE DEF c, n
<1> QED
  BY <1>1, <1>4, <1>5, <1>6 DEF PState

LEMMA BitStepIsStep ==
  ASSUME NEW s \in PState, s.q < Size, NEW d
  PROVE  AsUnit(BitStep(s, d)) = RestoringStep(AsUnit(s), d)
<1>1. PICK h \in Nat \ {0} : Size = 2 * h /\ Size \div 2 = h
  BY SizeType
<1>2. PICK t \in Nat, r \in 0 .. h - 1 : s.q = t * h + r /\ s.q \div h = t
  BY DivMod DEF PState
<1>3. t \in {0, 1}
  <2>1. s.q < 2 * h /\ s.q \in Nat
    BY <1>1 DEF PState
  <2>2. s.q \div h < 2
    BY <2>1, UpperDigit
  <2> QED
    BY <1>2, <2>2
<1>4. (s.q \div (Size \div 2)) % 2 = t
  BY <1>1, <1>2, <1>3
<1>5. (2 * s.q) \div Size = t
  <2>1. 2 * s.q = t * (2 * h) + 2 * r
    BY <1>2, <1>3
  <2>2. 2 * r \in Nat /\ 2 * r < 2 * h /\ 2 * h \in Nat \ {0}
    BY <1>1, <1>2
  <2>3. (t * (2 * h) + 2 * r) \div (2 * h) = t
    BY <2>2, Digits
  <2> QED
    BY <1>1, <2>1, <2>3
<1>6. Trunc(2 * s.q) = (2 * s.q) % Size
  BY DEF Trunc
<1>7. AsUnit(s).rem = s.rem /\ AsUnit(s).quot = s.q
  BY DEF AsUnit
<1> DEFINE c == 2 * (s.rem % Size) + t
           n == (2 * s.q) % Size
<1>8. BitStep(s, d) = IF c >= d THEN [rem |-> c - d, q |-> n + 1] ELSE [rem |-> c, q |-> n]
  BY <1>4, <1>6 DEF BitStep
<1>9. RestoringStep(AsUnit(s), d) =
        IF c >= d THEN [rem |-> c - d, quot |-> n + 1] ELSE [rem |-> c, quot |-> n]
  BY <1>5, <1>7 DEF RestoringStep
<1> HIDE DEF c, n
<1> QED
  BY <1>8, <1>9 DEF AsUnit

LEMMA BitStepsDivide ==
  ASSUME NEW a, NEW d \in Word, NEW s \in PState, Divided(0, AsUnit(s), a, d)
  PROVE  Divided(Bits, AsUnit(BitSteps(Bits, s, d)), a, d)
<1> DEFINE F == [x \in PState |-> BitStep(x, d)]
<1>0. Bits \in Nat
  BY WidthAssumption
<1>1. F \in [PState -> PState]
  BY BitStepType
<1>2. PICK f \in [0 .. Bits -> PState] : f[0] = s /\ \A j \in 1 .. Bits : f[j] = F[f[j - 1]]
  <2> HIDE DEF F
  <2>1. Orbits(PState, s, F, Bits) # {}
    BY <1>0, <1>1, Iterated
  <2> QED
    BY <2>1 DEF Orbits
<1>3. f = [j \in 0 .. Bits |-> IF j = 0 THEN s ELSE BitStep(f[j - 1], d)]
  <2>1. ASSUME NEW j \in 0 .. Bits, j # 0
        PROVE  f[j] = BitStep(f[j - 1], d)
    <3>1. j \in 1 .. Bits /\ j - 1 \in 0 .. Bits
      BY <1>0, <2>1
    <3>2. f[j - 1] \in PState /\ f[j] = F[f[j - 1]]
      BY <1>2, <3>1
    <3> QED
      BY <3>2
  <2> QED
    BY <1>0, <1>2, <2>1
<1> DEFINE g == CHOOSE g : g = [j \in 0 .. Bits |-> IF j = 0 THEN s ELSE BitStep(g[j - 1], d)]
<1>4. g = [j \in 0 .. Bits |-> IF j = 0 THEN s ELSE BitStep(g[j - 1], d)]
  BY <1>3
<1>5. BitSteps(Bits, s, d) = g[Bits]
  BY DEF BitSteps
<1> HIDE DEF g
<1> DEFINE T == {j \in Nat : j <= Bits => g[j] \in PState /\ Divided(j, AsUnit(g[j]), a, d)}
<1>6. 0 \in T
  BY <1>0, <1>4
<1>7. ASSUME NEW j \in Nat, j \in T
      PROVE  j + 1 \in T
  <2> SUFFICES ASSUME j + 1 <= Bits
               PROVE  g[j + 1] \in PState /\ Divided(j + 1, AsUnit(g[j + 1]), a, d)
    OBVIOUS
  <2>1. g[j] \in PState /\ Divided(j, AsUnit(g[j]), a, d)
    BY <1>0, <1>7
  <2>2. g[j + 1] = BitStep(g[j], d)
    <3>1. j + 1 \in 0 .. Bits /\ j + 1 # 0 /\ (j + 1) - 1 = j
      BY <1>0
    <3> QED
      BY <1>4, <3>1
  <2>3. g[j].q < Size
    BY <2>1 DEF Divided, AsUnit
  <2>4. AsUnit(g[j + 1]) = RestoringStep(AsUnit(g[j]), d)
    BY <2>1, <2>2, <2>3, BitStepIsStep
  <2>5. j \in 0 .. Bits - 1
    BY <1>0
  <2>6. Divided(j + 1, RestoringStep(AsUnit(g[j]), d), a, d)
    BY <2>1, <2>5, StepDivides
  <2> QED
    BY <2>1, <2>2, <2>4, <2>6, BitStepType
<1>8. Nat \subseteq T
  <2> HIDE DEF T
  <2> QED
    BY <1>6, <1>7, SetInduction
<1> QED
  BY <1>0, <1>5, <1>8

-----------------------------------------------------------------------------
(* Signs. *)

Negative(x) == x >= Size \div 2
Operand(op, x) == IF SignedOp(op) THEN AbsW(x) ELSE x

LEMMA NegModulo ==
  ASSUME NEW p \in Nat \ {0}, NEW x \in Nat, x < p
  PROVE  (-x) % p = IF x = 0 THEN 0 ELSE p - x
OBVIOUS

LEMMA NegFacts ==
  ASSUME NEW x \in Nat, x < Size
  PROVE  /\ Neg(x) = IF x = 0 THEN 0 ELSE Size - x
         /\ Neg(x) \in Word
         /\ Trunc(x) = x
<1>1. Neg(x) = IF x = 0 THEN 0 ELSE Size - x
  BY WordFacts, NegModulo DEF Neg, Trunc
<1>2. x % Size = x
  BY WordFacts
<1> QED
  BY <1>1, <1>2, WordFacts DEF Trunc

LEMMA AbsFacts ==
  ASSUME NEW a \in Word
  PROVE  /\ AbsW(a) \in Word /\ (AbsW(a) = 0 <=> a = 0)
         /\ Signed(a) = IF Negative(a) THEN -AbsW(a) ELSE AbsW(a)
         /\ Signed(a) < 0 <=> Negative(a)
         /\ Magnitude(Signed(a)) = AbsW(a)
         /\ Negative(a) => AbsW(a) = Trunc(-Signed(a))
<1>1. PICK h \in Nat \ {0} : Size = 2 * h /\ Size \div 2 = h
  BY SizeType
<1>2. a \in Nat /\ a < Size
  BY WordFacts
<1>3. CASE Negative(a)
  <2>1. AbsW(a) = Size - a /\ Signed(a) = a - Size
    <3>1. a # 0 /\ AbsW(a) = Neg(a) /\ Signed(a) = a - Size
      BY <1>1, <1>3 DEF AbsW, Signed, Negative
    <3>2. Neg(a) = Size - a
      BY <1>2, <3>1, NegFacts
    <3> QED
      BY <3>1, <3>2
  <2>2. Size - a \in Nat /\ Size - a < Size /\ Size - a # 0 /\ -(a - Size) = Size - a /\ a - Size < 0
    BY <1>1, <1>2, <1>3 DEF Negative
  <2>3. Trunc(-(a - Size)) = Size - a
    BY <2>2, NegFacts
  <2>4. Size - a \in Word /\ a # 0
    BY <1>1, <1>3, <2>2, WordFacts DEF Negative
  <2>5. Signed(a) < 0 /\ -Signed(a) = Size - a /\ Signed(a) = -(Size - a)
    BY <1>2, <2>1, <2>2, WordFacts
  <2>6. Magnitude(Signed(a)) = Size - a
    BY <2>5 DEF Magnitude
  <2> QED
    BY <1>3, <2>1, <2>2, <2>3, <2>4, <2>5, <2>6
<1>4. CASE ~Negative(a)
  <2>1. AbsW(a) = a /\ Signed(a) = a
    BY <1>4 DEF AbsW, Signed, Negative
  <2> QED
    BY <1>2, <1>4, <2>1 DEF Magnitude
<1> QED
  BY <1>3, <1>4

LEMMA SignedDivision ==
  ASSUME NEW a \in Word, NEW b \in Word, b # 0,
         NEW q \in Nat, NEW m \in Nat, AbsW(a) = q * AbsW(b) + m, m < AbsW(b)
  PROVE  LET t == TruncDiv(Signed(a), Signed(b)) IN
         /\ t = IF Negative(a) # Negative(b) THEN -q ELSE q
         /\ Signed(a) - t * Signed(b) = IF Negative(a) THEN -m ELSE m
<1> DEFINE A == AbsW(a)
           B == AbsW(b)
           x == Signed(a)
           y == Signed(b)
           t == TruncDiv(Signed(a), Signed(b))
<1>1. /\ A \in Nat /\ B \in Nat \ {0}
      /\ x = (IF Negative(a) THEN -A ELSE A) /\ (x < 0 <=> Negative(a)) /\ Magnitude(x) = A
      /\ y = (IF Negative(b) THEN -B ELSE B) /\ (y < 0 <=> Negative(b)) /\ Magnitude(y) = B
  <2>1. A \in Nat /\ B \in Nat /\ B # 0
    BY AbsFacts, WordFacts
  <2>2. x = (IF Negative(a) THEN -A ELSE A) /\ (x < 0 <=> Negative(a)) /\ Magnitude(x) = A
    BY AbsFacts
  <2>3. y = (IF Negative(b) THEN -B ELSE B) /\ (y < 0 <=> Negative(b)) /\ Magnitude(y) = B
    BY AbsFacts
  <2> QED
    BY <2>1, <2>2, <2>3
<1>2. t = IF (x < 0) # (y < 0) THEN -(A \div B) ELSE A \div B
  BY <1>1 DEF TruncDiv
<1>3. A = q * B + m /\ m < B
  OBVIOUS
<1> HIDE DEF A, B, x, y, t
<1>4. A \div B = q
  BY <1>1, <1>3, Digits
<1>0. Negative(a) \in BOOLEAN /\ Negative(b) \in BOOLEAN
  BY DEF Negative
<1>5. t = IF Negative(a) # Negative(b) THEN -q ELSE q
  <2>1. (x < 0) = Negative(a) /\ (y < 0) = Negative(b)
    BY <1>0, <1>1
  <2> QED
    BY <1>2, <1>4, <2>1
<1>6. q * B \in Nat /\ (-q) * B = -(q * B) /\ q * (-B) = -(q * B) /\ (-q) * (-B) = q * B
  BY <1>1, Times
<1>7. x - t * y = IF Negative(a) THEN -m ELSE m
  <2>1. CASE Negative(a) /\ Negative(b)
    <3>1. t = q /\ x = -A /\ y = -B
      BY <1>1, <1>5, <2>1
    <3>2. t * y = -(q * B)
      BY <1>6, <3>1
    <3> QED
      BY <1>1, <1>3, <1>6, <2>1, <3>1, <3>2
  <2>2. CASE Negative(a) /\ ~Negative(b)
    <3>1. t = -q /\ x = -A /\ y = B
      BY <1>1, <1>5, <2>2
    <3>2. t * y = -(q * B)
      BY <1>6, <3>1
    <3> QED
      BY <1>1, <1>3, <1>6, <2>2, <3>1, <3>2
  <2>3. CASE ~Negative(a) /\ Negative(b)
    <3>1. t = -q /\ x = A /\ y = -B
      BY <1>1, <1>5, <2>3
    <3>2. t * y = q * B
      BY <1>6, <3>1
    <3> QED
      BY <1>1, <1>3, <1>6, <2>3, <3>1, <3>2
  <2>4. CASE ~Negative(a) /\ ~Negative(b)
    <3>1. t = q /\ x = A /\ y = B
      BY <1>0, <1>1, <1>5, <2>4
    <3>2. t * y = q * B
      BY <1>6, <3>1
    <3> QED
      BY <1>1, <1>3, <1>6, <2>4, <3>1, <3>2
  <2> QED
    BY <2>1, <2>2, <2>3, <2>4
<1> QED
  BY <1>5, <1>7 DEF t, x, y

-----------------------------------------------------------------------------
(* What the quotient q and the remainder m of the magnitudes make of the   *)
(* instruction, and that every model in the repository agrees.             *)

Signs(op, a, b, q, m) ==
  IF op \in {"div", "divu"}
  THEN IF SignedOp(op) /\ (Negative(a) # Negative(b)) THEN Neg(q) ELSE q
  ELSE IF SignedOp(op) /\ Negative(a) THEN Neg(m) ELSE m

LEMMA OperandFacts ==
  ASSUME NEW op \in DivFn, NEW a \in Word
  PROVE  Operand(op, a) \in Word /\ (Operand(op, a) = 0 <=> a = 0)
BY AbsFacts DEF Operand

LEMMA SpecialAgrees ==
  ASSUME NEW op \in DivFn, NEW a \in Word, NEW b \in Word, b = 0 \/ Overflow(op, a, b)
  PROVE  /\ SpecialResult(op, a, b) = DivPy(op, a, b)
         /\ SpecialResult(op, a, b) = StressExpected(op, a, b)
         /\ SpecialResult(op, a, b) = RestoringPy(op, a, b)
<1>1. CASE b = 0
  BY <1>1 DEF DivFn, SpecialResult, DivPy, StressExpected, RestoringPy
<1>2. CASE b # 0 /\ op = "div"
  BY <1>2 DEF Overflow, SignedOp, SpecialResult, DivPy, StressExpected, RestoringPy
<1>3. CASE b # 0 /\ op = "rem"
  BY <1>3 DEF Overflow, SignedOp, SpecialResult, DivPy, StressExpected, RestoringPy
<1> QED
  BY <1>1, <1>2, <1>3 DEF Overflow, SignedOp

LEMMA OrdinaryAgrees ==
  ASSUME NEW op \in DivFn, NEW a \in Word, NEW b \in Word, b # 0, ~Overflow(op, a, b),
         NEW q \in Nat, NEW m \in Nat, q < Size, m < Operand(op, b),
         Operand(op, a) = q * Operand(op, b) + m
  PROVE  /\ DivPy(op, a, b) = Signs(op, a, b, q, m)
         /\ StressExpected(op, a, b) = Signs(op, a, b, q, m)
<1> DEFINE t == TruncDiv(Signed(a), Signed(b))
<1>0. /\ a \in Nat /\ b \in Nat \ {0} /\ m < Size
      /\ Negative(a) \in BOOLEAN /\ Negative(b) \in BOOLEAN
  BY WordFacts, OperandFacts DEF Negative
<1>1. Trunc(q) = q /\ Trunc(m) = m /\ Trunc(-q) = Neg(q) /\ Trunc(-m) = Neg(m)
  BY <1>0, NegFacts DEF Neg
<1>2. CASE op \in {"div", "rem"}
  <2>1. AbsW(a) = q * AbsW(b) + m /\ m < AbsW(b)
    BY <1>2 DEF Operand, SignedOp
  <2>2. /\ t = IF Negative(a) # Negative(b) THEN -q ELSE q
        /\ Signed(a) - t * Signed(b) = IF Negative(a) THEN -m ELSE m
    BY <1>0, <2>1, SignedDivision
  <2> HIDE DEF t
  <2>3. Trunc(t) = IF Negative(a) # Negative(b) THEN Neg(q) ELSE q
    BY <1>0, <1>1, <2>2
  <2>4. Trunc(Signed(a) - t * Signed(b)) = IF Negative(a) THEN Neg(m) ELSE m
    BY <1>0, <1>1, <2>2
  <2>5. CASE op = "div"
    <3>1. ~(a = Size \div 2 /\ b = Size - 1)
      BY <2>5 DEF Overflow, SignedOp
    <3>2. DivPy(op, a, b) = Trunc(t) /\ StressExpected(op, a, b) = Trunc(t)
      BY <1>0, <2>5, <3>1 DEF DivPy, StressExpected, t
    <3> QED
      BY <2>3, <2>5, <3>2 DEF Signs, SignedOp
  <2>6. CASE op = "rem"
    <3>1. ~(a = Size \div 2 /\ b = Size - 1)
      BY <2>6 DEF Overflow, SignedOp
    <3>2. /\ DivPy(op, a, b) = Trunc(Signed(a) - t * Signed(b))
          /\ StressExpected(op, a, b) = Trunc(Signed(a) - t * Signed(b))
      BY <1>0, <2>6, <3>1 DEF DivPy, StressExpected, t
    <3> QED
      BY <2>4, <2>6, <3>2 DEF Signs, SignedOp
  <2> QED
    BY <1>2, <2>5, <2>6
<1>3. CASE op \in {"divu", "remu"}
  <2>1. a = q * b + m /\ m < b
    BY <1>3 DEF Operand, SignedOp
  <2>2. a \div b = q /\ a % b = m
    BY <1>0, <2>1, Digits
  <2>3. CASE op = "divu"
    <3>1. DivPy(op, a, b) = a \div b /\ StressExpected(op, a, b) = a \div b
      BY <1>0, <2>3 DEF DivPy, StressExpected
    <3> QED
      BY <2>2, <2>3, <3>1 DEF Signs, SignedOp
  <2>4. CASE op = "remu"
    <3>1. DivPy(op, a, b) = a % b /\ StressExpected(op, a, b) = a % b
      BY <1>0, <2>4 DEF DivPy, StressExpected
    <3> QED
      BY <2>2, <2>4, <3>1 DEF Signs, SignedOp
  <2> QED
    BY <1>3, <2>3, <2>4
<1> QED
  BY <1>2, <1>3 DEF DivFn

LEMMA AllCycles == Latency * StepsPerCycle = Bits /\ StepsPerCycle \in Nat \ {0} /\ Latency \in Nat \ {0}
<1>1. Bits \in Nat /\ Latency \in Nat \ {0} /\ Latency <= Bits
  BY WidthAssumption, LatencyAssumption
<1>2. PICK s \in Nat, r \in 0 .. Latency - 1 :
        Bits = s * Latency + r /\ Bits \div Latency = s /\ Bits % Latency = r
  BY <1>1, DivMod
<1>3. r = 0 /\ s * Latency \in Nat /\ s * Latency = Latency * s
  BY <1>1, <1>2, Times, LatencyAssumption
<1>4. s # 0
  <2>1. 0 * Latency = 0
    BY <1>1
  <2> QED
    BY <1>1, <1>2, <1>3, <2>1
<1> QED
  BY <1>1, <1>2, <1>3, <1>4 DEF StepsPerCycle

LEMMA PythonAgrees ==
  ASSUME NEW op \in DivFn, NEW a \in Word, NEW b \in Word, b # 0, ~Overflow(op, a, b),
         NEW q, NEW m, q = Operand(op, a) \div Operand(op, b), m = Operand(op, a) % Operand(op, b)
  PROVE  RestoringPy(op, a, b) = Signs(op, a, b, q, m)
<1> DEFINE A == Operand(op, a)
           B == Operand(op, b)
           end == BitSteps(Bits, [rem |-> 0, q |-> A], B)
<1>1. A \in Word /\ B \in Word /\ B # 0
  BY OperandFacts
<1>2. Divided(Bits, AsUnit(end), A, B)
  <2> DEFINE s == [rem |-> 0, q |-> A]
  <2>1. s \in PState /\ AsUnit(s) = [rem |-> 0, quot |-> A]
    BY <1>1, WordFacts DEF PState, AsUnit
  <2> HIDE DEF A, B
  <2>2. Divided(0, AsUnit(s), A, B)
    BY <1>1, <2>1, StartDivides
  <2> HIDE DEF s
  <2> QED
    BY <1>1, <2>1, <2>2, BitStepsDivide DEF s
<1>3. end.q = q /\ end.rem = m /\ m \in Nat /\ m < Size
  <2> HIDE DEF A, B, end
  <2>1. /\ AsUnit(end).quot = A \div B
        /\ AsUnit(end).rem = A % B /\ AsUnit(end).rem \in Nat /\ AsUnit(end).rem < B
    BY <1>1, <1>2, EndDivides
  <2>2. B < Size /\ B \in Nat
    BY <1>1, WordFacts
  <2>3. A \div B = q /\ A % B = m
    BY DEF A, B
  <2> QED
    BY <2>1, <2>2, <2>3, WordFacts DEF AsUnit
<1>4. BitSteps(Latency * StepsPerCycle, [rem |-> 0, q |-> A], B) = end
  BY AllCycles
<1>5. A = (IF op \in {"div", "rem"} /\ a >= Size \div 2 THEN Trunc(-Signed(a)) ELSE a)
  BY AbsFacts DEF Operand, SignedOp, AbsW, Negative
<1>6. B = (IF op \in {"div", "rem"} /\ b >= Size \div 2 THEN Trunc(-Signed(b)) ELSE b)
  BY AbsFacts DEF Operand, SignedOp, AbsW, Negative
<1>7. RestoringPy(op, a, b) =
        IF op \in {"div", "divu"}
        THEN IF op \in {"div", "rem"} /\ (a >= Size \div 2) # (b >= Size \div 2)
             THEN Trunc(-end.q) ELSE end.q
        ELSE IF op \in {"div", "rem"} /\ a >= Size \div 2 THEN Trunc(-end.rem) ELSE Trunc(end.rem)
  <2> HIDE DEF A, B, end
  <2> QED
    BY <1>4, <1>5, <1>6 DEF RestoringPy, Overflow, SignedOp
<1>8. Trunc(m) = m
  BY <1>3, NegFacts
<1> HIDE DEF end
<1> QED
  BY <1>3, <1>7, <1>8 DEF Signs, SignedOp, Negative, Neg

-----------------------------------------------------------------------------
(* The unit.                                                               *)

\* While a division runs, the registers belong to the operands of its owner,
\* and the loop is as far as the cycle counter says.
Running ==
  /\ op_q = owner.op /\ owner.op \in DivFn
  /\ divisor_q = Operand(owner.op, owner.b)
  /\ quotient_neg_q = (SignedOp(owner.op) /\ (Negative(owner.a) # Negative(owner.b)))
  /\ remainder_neg_q = (SignedOp(owner.op) /\ Negative(owner.a))
  /\ special_q = (owner.b = 0 \/ Overflow(owner.op, owner.a, owner.b))
  /\ special_result_q = SpecialResult(owner.op, owner.a, owner.b)
  /\ ~special_q => Divided(cycle_q * StepsPerCycle,
                           [rem |-> remainder_q, quot |-> quotient_q],
                           Operand(owner.op, owner.a), divisor_q)

DivInv ==
  /\ TypeOK
  /\ busy => Running
  /\ done => owner.op \in DivFn /\ result = DivPy(owner.op, owner.a, owner.b)

\* The state State(StepsPerCycle) that an iteration stores.
LEMMA IterationDivides ==
  ASSUME TypeOK, Running, ~special_q
  PROVE  Divided(cycle_q * StepsPerCycle + StepsPerCycle, State(StepsPerCycle),
                 Operand(owner.op, owner.a), divisor_q)
<1> DEFINE k == cycle_q * StepsPerCycle
           st == [rem |-> remainder_q, quot |-> quotient_q]
<1>1. cycle_q \in Nat /\ cycle_q + 1 <= Latency /\ divisor_q \in Word
  BY AllCycles DEF TypeOK
<1>2. k \in Nat /\ StepsPerCycle \in Nat
  BY <1>1, AllCycles, Times
<1>3. k + StepsPerCycle <= Bits
  <2>1. CASE cycle_q + 1 = Latency
    <3>1. (cycle_q + 1) * StepsPerCycle = k + StepsPerCycle
      BY <1>1, <1>2
    <3> QED
      BY <2>1, <3>1, AllCycles, WidthAssumption
  <2>2. CASE cycle_q + 1 < Latency
    <3>1. cycle_q < Latency
      BY <1>1, <2>2, AllCycles
    <3>2. k + StepsPerCycle <= Latency * StepsPerCycle
      BY <1>1, <1>2, <3>1, AllCycles, TimesLeast
    <3> QED
      BY <3>2, AllCycles
  <2> QED
    BY <1>1, <2>1, <2>2, AllCycles
<1>4. Divided(k, st, Operand(owner.op, owner.a), divisor_q)
  BY DEF Running
<1>5. State(StepsPerCycle) = Restoring(StepsPerCycle, st, divisor_q)
  BY DEF State
<1> HIDE DEF k, st
<1>6. Divided(k + StepsPerCycle, Restoring(StepsPerCycle, st, divisor_q),
              Operand(owner.op, owner.a), divisor_q)
  BY <1>1, <1>2, <1>3, <1>4, LoopDivides
<1> QED
  BY <1>5, <1>6 DEF k

LEMMA LastCycle ==
  ASSUME TypeOK, Running, cycle_q = Latency - 1
  PROVE  LET r == IF special_q THEN special_result_q ELSE Final(State(StepsPerCycle))
         IN r = DivPy(owner.op, owner.a, owner.b) /\ r \in Word
<1> DEFINE op == owner.op
           a == owner.a
           b == owner.b
           A == Operand(op, a)
           end == State(StepsPerCycle)
<1>1. op \in DivFn /\ a \in Word /\ b \in Word /\ special_result_q \in Word
  BY DEF TypeOK, Running
<1>2. CASE special_q
  BY <1>1, <1>2, SpecialAgrees DEF Running
<1>3. CASE ~special_q
  <2>1. b # 0 /\ ~Overflow(op, a, b) /\ divisor_q = Operand(op, b) /\ divisor_q \in Word
    BY <1>3 DEF Running, TypeOK
  <2>2. cycle_q * StepsPerCycle + StepsPerCycle = Bits
    <3>1. \A x \in Nat, y \in Nat : (x - 1) * y + y = x * y
      OBVIOUS
    <3> QED
      BY <3>1, AllCycles
  <2>3. Divided(Bits, end, A, divisor_q)
    BY <1>3, <2>2, IterationDivides
  <2>4. A \in Word /\ divisor_q # 0
    BY <1>1, <2>1, OperandFacts
  <2> DEFINE q == end.quot
             m == end.rem
  <2>5. /\ q = A \div divisor_q /\ q \in Nat /\ q < Size
        /\ m = A % divisor_q /\ m \in Nat /\ m < divisor_q
    <3> HIDE DEF A, end
    <3> QED
      BY <2>1, <2>3, EndDivides
  <2>6. A = q * divisor_q + m
    <3> DEFINE d == divisor_q
    <3>1. A \in Nat /\ d \in Nat \ {0}
      BY <2>1, <2>4, WordFacts
    <3> HIDE DEF A, end, d
    <3>2. \E x \in Nat, y \in 0 .. d - 1 : A = x * d + y /\ A \div d = x /\ A % d = y
      BY <3>1, DivMod
    <3> QED
      BY <2>5, <3>2 DEF d
  <2>7. DivPy(op, a, b) = Signs(op, a, b, q, m)
    <3>1. /\ q \in Nat /\ m \in Nat /\ q < Size /\ m < Operand(op, b)
          /\ Operand(op, a) = q * Operand(op, b) + m
      BY <2>1, <2>5, <2>6
    <3> HIDE DEF q, m, op, a, b
    <3> QED
      BY <1>1, <2>1, <3>1, OrdinaryAgrees
  <2>8. m < Size /\ m % Size = m
    <3>1. m < Size
      BY <2>1, <2>5, WordFacts
    <3>2. m % Size = m
      <4> HIDE DEF m
      <4> QED
        BY <2>5, <3>1, WordFacts
    <3> QED
      BY <3>1, <3>2
  <2>9. Final(end) = Signs(op, a, b, q, m)
    <3> HIDE DEF end
    <3> QED
      BY <1>1, <2>8 DEF Final, Signs, Running, DivFn
  <2>10. Signs(op, a, b, q, m) \in Word
    <3>1. q \in Word /\ m \in Word /\ Neg(q) \in Word /\ Neg(m) \in Word
      BY <2>5, <2>8, NegFacts, WordFacts
    <3> QED
      BY <3>1 DEF Signs
  <2> QED
    BY <1>3, <2>7, <2>9, <2>10
<1> QED
  BY <1>2, <1>3

-----------------------------------------------------------------------------
(* The invariant. *)

LEMMA DivInvInit == Init => DivInv
<1> SUFFICES ASSUME Init PROVE DivInv
  OBVIOUS
<1>1. 0 \in Word /\ 0 \in 0 .. 2 * Size - 1 /\ 0 \in 0 .. Latency - 1
  BY WordFacts, AllCycles
<1> QED
  BY <1>1 DEF Init, DivInv, TypeOK

LEMMA StartKeeps ==
  ASSUME DivInv, NEW op \in DivFn, NEW a \in Word, NEW b \in Word, Start(op, a, b)
  PROVE  DivInv'
<1> USE DEF Start
<1>1. AbsW(a) \in Word /\ AbsW(b) \in Word
  BY AbsFacts
<1>2. SpecialResult(op, a, b) \in Word
  <2>1. PICK h \in Nat \ {0} : Size = 2 * h /\ Size \div 2 = h
    BY SizeType
  <2>2. 0 \in Word /\ Size - 1 \in Word /\ Size \div 2 \in Word
    BY <2>1, WordFacts
  <2>3. CASE b = 0
    BY <2>2, <2>3 DEF SpecialResult, DivFn
  <2>4. CASE b # 0
    BY <2>2, <2>4 DEF SpecialResult
  <2> QED
    BY <2>3, <2>4
<1>3. 0 \in 0 .. 2 * Size - 1 /\ 0 \in 0 .. Latency - 1
  BY WordFacts, AllCycles
<1>4. quotient_q' \in Word /\ divisor_q' \in Word
  BY <1>1
<1>5. {quotient_neg_q', remainder_neg_q', special_q', busy', done'} \subseteq BOOLEAN
  BY DEF Overflow, SignedOp
<1>6. TypeOK'
  BY <1>2, <1>3, <1>4, <1>5 DEF DivInv, TypeOK
<1>7. /\ owner'.op = op /\ owner'.a = a /\ owner'.b = b
      /\ quotient_q' = Operand(op, a) /\ divisor_q' = Operand(op, b)
  BY DEF Operand
<1>8. ~special_q' => Divided(0, [rem |-> 0, quot |-> Operand(op, a)], Operand(op, a), Operand(op, b))
  BY OperandFacts, StartDivides
<1>9. 0 * StepsPerCycle = 0
  BY AllCycles
<1>10. ~special_q' => Divided((cycle_q * StepsPerCycle)', [rem |-> remainder_q', quot |-> quotient_q'],
                              Operand(op, a), divisor_q')
  BY <1>7, <1>8, <1>9
<1>11. Running'
  BY <1>7, <1>10 DEF Running, Negative
<1> QED
  BY <1>6, <1>11 DEF DivInv

LEMMA IterateKeeps ==
  ASSUME DivInv, Iterate
  PROVE  DivInv'
<1> USE DEF Iterate
<1>1. TypeOK /\ Running
  BY DEF DivInv
<1>2. cycle_q' \in 0 .. Latency - 1
  BY <1>1, AllCycles DEF TypeOK
<1>3. CASE special_q
  <2>1. TypeOK'
    BY <1>1, <1>2, <1>3 DEF TypeOK
  <2>2. Running'
    BY <1>1, <1>3 DEF Running
  <2> QED
    BY <2>1, <2>2 DEF DivInv
<1>4. CASE ~special_q
  <2> DEFINE end == State(StepsPerCycle)
             A == Operand(owner.op, owner.a)
  <2>1. Divided(cycle_q * StepsPerCycle + StepsPerCycle, end, A, divisor_q)
    BY <1>1, <1>4, IterationDivides
  <2>2. cycle_q * StepsPerCycle + StepsPerCycle = cycle_q' * StepsPerCycle
    <3>1. \A x \in Nat, y \in Nat : x * y + y = (x + 1) * y
      OBVIOUS
    <3> QED
      BY <1>1, <3>1, AllCycles DEF TypeOK
  <2>3. end \in DState /\ end.rem < divisor_q /\ end.quot < Size
    BY <2>1 DEF Divided
  <2>4. remainder_q' = end.rem /\ quotient_q' = end.quot
    BY <1>4
  <2>5. [rem |-> remainder_q', quot |-> quotient_q'] = end
    <3> HIDE DEF end
    <3> QED
      BY <2>3, <2>4 DEF DState
  <2>6. remainder_q' \in 0 .. 2 * Size - 1 /\ quotient_q' \in Word
    <3>1. divisor_q \in Nat /\ divisor_q < Size
      BY <1>1, WordFacts DEF TypeOK
    <3> HIDE DEF end
    <3> QED
      BY <2>3, <2>4, <3>1, WordFacts DEF DState
  <2>7. TypeOK'
    BY <1>1, <1>2, <2>6 DEF TypeOK
  <2>8. Divided((cycle_q * StepsPerCycle)', [rem |-> remainder_q', quot |-> quotient_q'], A, divisor_q)
    <3> HIDE DEF end, A
    <3> QED
      BY <2>1, <2>2, <2>5
  <2>9. Running'
    BY <1>1, <2>8 DEF Running
  <2> QED
    BY <2>7, <2>9 DEF DivInv
<1> QED
  BY <1>3, <1>4

LEMMA FinishKeeps ==
  ASSUME DivInv, Finish
  PROVE  DivInv' /\ result' = DivPy(owner.op, owner.a, owner.b)
<1> USE DEF Finish
<1>1. TypeOK /\ Running
  BY DEF DivInv
<1>2. result' = DivPy(owner.op, owner.a, owner.b) /\ result' \in Word
  BY <1>1, LastCycle
<1>3. 0 \in 0 .. Latency - 1
  BY AllCycles
<1>4. TypeOK'
  <2> HIDE DEF Finish
  <2>1. /\ result' \in Word /\ cycle_q' = 0 /\ busy' = FALSE /\ done' = TRUE
        /\ UNCHANGED <<quotient_q, remainder_q, divisor_q, op_q, quotient_neg_q, remainder_neg_q,
                       special_q, special_result_q, owner>>
    BY <1>2 DEF Finish
  <2> QED
    BY <1>1, <1>3, <2>1 DEF TypeOK
<1>5. owner' = owner /\ owner.op \in DivFn
  BY <1>1 DEF Running
<1> QED
  BY <1>2, <1>4, <1>5 DEF DivInv

LEMMA DivInvStep == DivInv /\ [Next]_unitVars => DivInv'
<1> SUFFICES ASSUME DivInv, [Next]_unitVars PROVE DivInv'
  OBVIOUS
<1>1. CASE \E op \in DivFn, a, b \in Word : Start(op, a, b)
  BY <1>1, StartKeeps
<1>2. CASE Iterate
  BY <1>2, IterateKeeps
<1>3. CASE Finish
  BY <1>3, FinishKeeps
<1>4. CASE Idle
  BY <1>4 DEF Idle, DivInv, TypeOK
<1>5. CASE Reset
  <2>1. 0 \in Word /\ 0 \in 0 .. 2 * Size - 1 /\ 0 \in 0 .. Latency - 1
    BY WordFacts, AllCycles
  <2> QED
    BY <1>5, <2>1 DEF Reset, DivInv, TypeOK
<1>6. CASE UNCHANGED unitVars
  BY <1>6 DEF unitVars, DivInv, TypeOK, Running, State
<1> QED
  BY <1>1, <1>2, <1>3, <1>4, <1>5, <1>6 DEF Next

LEMMA DivInvHolds == Spec => []DivInv
BY DivInvInit, DivInvStep, PTL DEF Spec

LEMMA InvLoop == DivInv => RestoringInvariant
<1> SUFFICES ASSUME DivInv PROVE RestoringInvariant
  OBVIOUS
<1>1. TypeOK
  BY DEF DivInv
<1>2. ASSUME busy, ~special_q
      PROVE  LET k        == cycle_q * StepsPerCycle
                 dividend == IF SignedOp(owner.op) THEN AbsW(owner.a) ELSE owner.a
                 bits     == quotient_q % 2 ^ k
                 rest     == quotient_q \div 2 ^ k
             IN /\ dividend = (bits * divisor_q + remainder_q) * 2 ^ (Bits - k) + rest
                /\ remainder_q < divisor_q
                /\ rest < 2 ^ (Bits - k)
  <2>1. Divided(cycle_q * StepsPerCycle, [rem |-> remainder_q, quot |-> quotient_q],
                Operand(owner.op, owner.a), divisor_q)
    BY <1>2 DEF DivInv, Running
  <2> QED
    BY <2>1 DEF Divided, Operand
<1> QED
  BY <1>1, <1>2 DEF RestoringInvariant

\* For every width, latency and pair of operands, the registers of the divider
\* keep their types, and in every clock of an ordinary division they hold the
\* dividend's top bits divided by the divisor and the rest of the dividend: the
\* loop of restoring_step neither loses a bit nor overflows the remainder.
THEOREM RestoringLoop == Spec => []RestoringInvariant
BY DivInvHolds, InvLoop, PTL

LEMMA InvAgrees == DivInv => AlgorithmIsTheUnit
<1> SUFFICES ASSUME DivInv, done PROVE /\ result = RestoringPy(owner.op, owner.a, owner.b)
                                       /\ result = StressExpected(owner.op, owner.a, owner.b)
  BY DEF AlgorithmIsTheUnit
<1> DEFINE op == owner.op
           a == owner.a
           b == owner.b
<1>1. op \in DivFn /\ a \in Word /\ b \in Word /\ result = DivPy(op, a, b)
  BY DEF DivInv, TypeOK
<1> HIDE DEF op, a, b
<1>2. CASE b = 0 \/ Overflow(op, a, b)
  BY <1>1, <1>2, SpecialAgrees DEF op, a, b
<1>3. CASE ~(b = 0 \/ Overflow(op, a, b))
  <2> DEFINE A == Operand(op, a)
             B == Operand(op, b)
             q == A \div B
             m == A % B
  <2>1. A \in Nat /\ B \in Nat \ {0} /\ A < Size
    BY <1>1, <1>3, OperandFacts, WordFacts
  <2>2. A = q * B + m /\ q \in Nat /\ m \in Nat /\ m < B
    <3> HIDE DEF A, B
    <3>1. PICK x \in Nat, y \in 0 .. B - 1 : A = x * B + y /\ q = x /\ m = y
      BY <2>1, DivMod
    <3> HIDE DEF q, m
    <3> QED
      BY <2>1, <3>1
  <2>3. q < Size
    <3>1. A < Size * B
      <4> HIDE DEF A, B
      <4>1. PICK z \in Nat : B = z + 1
        <5>1. B - 1 \in Nat /\ B = (B - 1) + 1
          BY <2>1
        <5> QED
          BY <5>1
      <4>2. Size * (z + 1) = Size * z + Size /\ Size * z \in Nat
        BY WordFacts, Times
      <4> QED
        BY <2>1, <4>1, <4>2, WordFacts
    <3> HIDE DEF A, B
    <3> QED
      BY <2>1, <3>1, UpperDigit, WordFacts
  <2>4. RestoringPy(op, a, b) = Signs(op, a, b, q, m)
    BY <1>1, <1>3, PythonAgrees
  <2>5. q = Operand(op, a) \div Operand(op, b) /\ A = Operand(op, a) /\ B = Operand(op, b)
    OBVIOUS
  <2> HIDE DEF q, m, A, B
  <2>6. Operand(op, a) = q * Operand(op, b) + m /\ m < Operand(op, b)
    BY <2>2, <2>5
  <2>7. DivPy(op, a, b) = Signs(op, a, b, q, m) /\ StressExpected(op, a, b) = Signs(op, a, b, q, m)
    BY <1>1, <1>3, <2>2, <2>3, <2>6, OrdinaryAgrees
  <2> QED
    BY <1>1, <2>4, <2>7 DEF op, a, b
<1> QED
  BY <1>2, <1>3

\* For every width, latency and pair of operands, whatever the unit delivers is
\* what restoring() in divider_algorithm.py computes by the same loop, and what
\* run_divider_stress.py computes from the integers.
THEOREM BitAccurate == Spec => []AlgorithmIsTheUnit
BY DivInvHolds, InvAgrees, PTL

-----------------------------------------------------------------------------
(* The contract. *)

DivRecord == [busy |-> busy, done |-> done, cycle |-> cycle_q,
              op |-> owner.op, a |-> owner.a, b |-> owner.b, result |-> result]

DivOf(u, v, c, o, a, b, r) ==
  [busy |-> u, done |-> v, cycle |-> c, op |-> o, a |-> a, b |-> b, result |-> r]

LEMMA ContractStep ==
  ASSUME DivInv, [Next]_unitVars,
         \A op \in DivFn, a, b \in Word : DivY(op, a, b) = DivPy(op, a, b)
  PROVE  [Contract!DivNext]_DivRecord
<1> DEFINE D == DivRecord
           R(u, v, c, o, r) == DivOf(u, v, c, o.op, o.a, o.b, r)
<1>0. TypeOK /\ busy \in BOOLEAN /\ done \in BOOLEAN
  BY DEF DivInv, TypeOK
<1>d. D = R(busy, done, cycle_q, owner, result)
  BY DEF DivRecord, DivOf
<1>p. D' = R(busy', done', cycle_q', owner', result')
  BY DEF DivRecord, DivOf
<1>f. /\ D.busy = busy /\ D.done = done /\ D.cycle = cycle_q /\ D.result = result
      /\ D.op = owner.op /\ D.a = owner.a /\ D.b = owner.b
  BY DEF DivRecord
<1>e. /\ [D EXCEPT !.done = FALSE] = R(busy, FALSE, cycle_q, owner, result)
      /\ [D EXCEPT !.done = FALSE, !.cycle = cycle_q + 1] =
           R(busy, FALSE, cycle_q + 1, owner, result)
      /\ [D EXCEPT !.busy = FALSE, !.done = TRUE, !.cycle = 0,
                   !.result = DivY(owner.op, owner.a, owner.b)] =
           R(FALSE, TRUE, 0, owner, DivY(owner.op, owner.a, owner.b))
  <2> HIDE DEF D
  <2>1. ASSUME NEW e, e = [D EXCEPT !.done = FALSE]
        PROVE  e = R(busy, FALSE, cycle_q, owner, result)
    BY <1>d, <2>1 DEF DivOf
  <2>2. ASSUME NEW e, e = [D EXCEPT !.done = FALSE, !.cycle = cycle_q + 1]
        PROVE  e = R(busy, FALSE, cycle_q + 1, owner, result)
    BY <1>d, <2>2 DEF DivOf
  <2>3. ASSUME NEW e, e = [D EXCEPT !.busy = FALSE, !.done = TRUE, !.cycle = 0,
                                    !.result = DivY(owner.op, owner.a, owner.b)]
        PROVE  e = R(FALSE, TRUE, 0, owner, DivY(owner.op, owner.a, owner.b))
    BY <1>d, <2>3 DEF DivOf
  <2> QED
    BY <2>1, <2>2, <2>3, Zenon
<1>1. ASSUME NEW op \in DivFn, NEW a \in Word, NEW b \in Word, Start(op, a, b)
      PROVE  Contract!DivNext
  <2>1. D' = [busy |-> TRUE, done |-> FALSE, cycle |-> 0,
              op |-> op, a |-> a, b |-> b, result |-> D.result]
    BY <1>1, <1>p, <1>f DEF Start, DivOf
  <2>2. ~D.busy
    BY <1>1, <1>f DEF Start
  <2>3. D'.op = op /\ D'.a = a /\ D'.b = b
    BY <2>1
  <2>4. Contract!DivAccept(D'.op, D'.a, D'.b)
    BY <2>1, <2>3 DEF Contract!DivAccept, DivRecord
  <2>5. D'.op \in Contract!DivFn /\ D'.a \in Contract!Word /\ D'.b \in Contract!Word
    BY <2>3 DEF Contract!DivFn, Contract!Word, DivFn, Word
  <2>6. Contract!DivStep(TRUE, D'.op, D'.a, D'.b)
    BY <2>2, <2>4 DEF Contract!DivStep, DivRecord
  <2> QED
    BY <2>5, <2>6 DEF Contract!DivNext, DivRecord
<1>2. ASSUME Contract!DivStep(FALSE, "div", 0, 0)
      PROVE  Contract!DivNext
  BY <1>2 DEF Contract!DivNext
<1>3. CASE Iterate
  <2>1. D' = [D EXCEPT !.done = FALSE, !.cycle = D.cycle + 1]
    <3>1. D' = [D EXCEPT !.done = FALSE, !.cycle = cycle_q + 1]
      BY <1>3, <1>e, <1>p DEF Iterate
    <3> QED
      BY <3>1, <1>f, Zenon
  <2>2. D.busy /\ D.cycle # Latency - 1
    BY <1>3, <1>f DEF Iterate
  <2>3. Contract!DivIterate
    BY <2>1 DEF Contract!DivIterate, DivRecord
  <2> QED
    BY <1>2, <2>2, <2>3 DEF Contract!DivStep, DivRecord
<1>4. CASE Finish
  <2>1. result' = DivY(owner.op, owner.a, owner.b)
    <3>1. owner.op \in DivFn /\ owner.a \in Word /\ owner.b \in Word
      BY <1>0, <1>4 DEF DivInv, Running, Finish, TypeOK
    <3>2. result' = DivPy(owner.op, owner.a, owner.b)
      BY <1>4, FinishKeeps
    <3> QED
      BY <3>1, <3>2
  <2>2. D' = [D EXCEPT !.busy = FALSE, !.done = TRUE, !.cycle = 0,
                       !.result = DivY(D.op, D.a, D.b)]
    <3>1. D' = [D EXCEPT !.busy = FALSE, !.done = TRUE, !.cycle = 0,
                         !.result = DivY(owner.op, owner.a, owner.b)]
      BY <1>4, <1>e, <1>p, <2>1 DEF Finish
    <3> QED
      BY <3>1, <1>f, Zenon
  <2>3. D.busy /\ D.cycle = Latency - 1
    BY <1>4, <1>f DEF Finish
  <2>4. Contract!DivFinish
    BY <2>2 DEF Contract!DivFinish, DivRecord
  <2> QED
    BY <1>2, <2>3, <2>4 DEF Contract!DivStep, DivRecord
<1>5. CASE Idle
  <2>1. D' = [D EXCEPT !.done = FALSE]
    BY <1>5, <1>e, <1>p DEF Idle
  <2>2. ~D.busy
    BY <1>5, <1>f DEF Idle
  <2>3. Contract!DivRest
    BY <2>1 DEF Contract!DivRest, DivRecord
  <2> QED
    BY <1>2, <2>2, <2>3 DEF Contract!DivStep, DivRecord
<1>6. CASE Reset
  <2>1. D' = Contract!DivIdle
    BY <1>6, <1>p DEF Reset, Contract!DivIdle, DivOf
  <2> QED
    BY <2>1 DEF Contract!DivNext, Contract!DivReset, DivRecord
<1>7. CASE UNCHANGED unitVars
  BY <1>7 DEF unitVars, DivRecord
<1> QED
  BY <1>1, <1>3, <1>4, <1>5, <1>6, <1>7 DEF Next

LEMMA ContractInit == Init => DivRecord = Contract!DivIdle
<1> SUFFICES ASSUME Init PROVE DivRecord = Contract!DivIdle
  OBVIOUS
<1>1. owner.op = "none" /\ owner.a = 0 /\ owner.b = 0
  BY DEF Init
<1>2. busy = FALSE /\ done = FALSE /\ result = 0 /\ cycle_q = 0
  BY DEF Init
<1> QED
  BY <1>1, <1>2 DEF DivRecord, Contract!DivIdle

\* The divider implements what the core relies on, for every width and latency,
\* if DivY is the division of the reference model: a start that finds it idle is
\* answered exactly Latency clocks later, for one clock, with the quotient or
\* remainder of the operands it latched, and a reset forgets it.
THEOREM DividerImplementsContract ==
  ASSUME \A op \in DivFn, a, b \in Word : DivY(op, a, b) = DivPy(op, a, b)
  PROVE  Spec => ImplementsContract
<1>1. DivInv /\ [Next]_unitVars => [Contract!DivNext]_DivRecord
  BY ContractStep
<1>2. Init => DivRecord = Contract!DivIdle
  BY ContractInit
<1> QED
  BY <1>1, <1>2, DivInvHolds, PTL DEF Spec, ImplementsContract, Contract!DivSpec, DivRecord

-----------------------------------------------------------------------------
(* Words of four bytes. *)

\* A number of four digits in base b, least significant first.
Quad(b, x0, x1, x2, x3) == x0 + x1 * b + x2 * (b * b) + x3 * (b * b * b)

LEMMA QuadBounds ==
  ASSUME NEW b \in Nat \ {0}, NEW x0 \in 0 .. b - 1, NEW x1 \in 0 .. b - 1,
         NEW x2 \in 0 .. b - 1, NEW x3 \in 0 .. b - 1
  PROVE  /\ b * b \in Nat \ {0} /\ b * b * b \in Nat \ {0} /\ b * b * b * b \in Nat \ {0}
         /\ x0 + x1 * b \in 0 .. b * b - 1
         /\ x0 + x1 * b + x2 * (b * b) \in 0 .. b * b * b - 1
         /\ Quad(b, x0, x1, x2, x3) \in 0 .. b * b * b * b - 1
<1> DEFINE p2 == b * b
           p3 == p2 * b
           p4 == p3 * b
<1>1. \A x, y \in Nat \ {0} : x * y \in Nat \ {0}
  OBVIOUS
<1>2. p2 \in Nat \ {0}
  BY <1>1
<1> HIDE DEF p2
<1>3. p3 \in Nat \ {0}
  BY <1>1, <1>2
<1> HIDE DEF p3
<1>4. p4 \in Nat \ {0}
  BY <1>1, <1>3
<1> HIDE DEF p4
<1>5. \A x, y, p \in Nat : x < y => x * p + p <= y * p
  BY TimesLeast
<1>6. /\ x1 * b + b <= p2 /\ x1 * b \in Nat
  BY <1>5, Times DEF p2
<1>7. x0 + x1 * b \in 0 .. p2 - 1
  BY <1>2, <1>6
<1>8. x2 * p2 + p2 <= p3 /\ x2 * p2 \in Nat
  <2>1. b * p2 = p2 * b
    BY <1>2
  <2>2. x2 * p2 + p2 <= b * p2
    BY <1>2, <1>5
  <2> QED
    BY <1>2, <2>1, <2>2, Times DEF p3
<1>9. x0 + x1 * b + x2 * p2 \in 0 .. p3 - 1
  BY <1>2, <1>3, <1>6, <1>7, <1>8
<1>10. x3 * p3 + p3 <= p4 /\ x3 * p3 \in Nat
  <2>1. b * p3 = p3 * b
    BY <1>3
  <2>2. x3 * p3 + p3 <= b * p3
    BY <1>3, <1>5
  <2> QED
    BY <1>3, <2>1, <2>2, Times DEF p4
<1>11. x0 + x1 * b + x2 * p2 + x3 * p3 \in 0 .. p4 - 1
  BY <1>2, <1>3, <1>4, <1>6, <1>8, <1>9, <1>10
<1>12. Quad(b, x0, x1, x2, x3) = x0 + x1 * b + x2 * p2 + x3 * p3
  BY DEF Quad, p2, p3
<1> QED
  BY <1>2, <1>3, <1>4, <1>7, <1>9, <1>11, <1>12 DEF p2, p3, p4

\* What is cut out of such a number by dividing and taking remainders.
LEMMA QuadCuts ==
  ASSUME NEW b \in Nat \ {0}, NEW x0 \in 0 .. b - 1, NEW x1 \in 0 .. b - 1,
         NEW x2 \in 0 .. b - 1, NEW x3 \in 0 .. b - 1
  PROVE  LET w == Quad(b, x0, x1, x2, x3) IN
         /\ w % b = x0 /\ (w \div b) % b = x1
         /\ (w \div (b * b)) % b = x2 /\ w \div (b * b * b) = x3
         /\ w % (b * b) = x0 + x1 * b
         /\ (w \div (b * b)) % (b * b) = x2 + x3 * b
         /\ (w \div (b * b * b)) % b = x3
<1> DEFINE w == Quad(b, x0, x1, x2, x3)
           p2 == b * b
           p3 == p2 * b
           y1 == x1 + x2 * b + x3 * p2
           y2 == x2 + x3 * b
           z1 == x0 + x1 * b
           z2 == x0 + x1 * b + x2 * p2
<1>1. /\ p2 \in Nat \ {0} /\ p3 \in Nat \ {0} /\ z1 \in 0 .. p2 - 1 /\ z2 \in 0 .. p3 - 1
      /\ y2 \in 0 .. p2 - 1
  BY QuadBounds
<1>2. \A x, p \in Nat : x * p \in Nat
  BY Times
<1>3. y1 \in Nat /\ y2 \in Nat
  BY <1>1, <1>2
<1>4. w = y1 * b + x0 /\ w = y2 * p2 + z1 /\ w = x3 * p3 + z2 /\ y1 = y2 * b + x1 /\ y2 = x3 * b + x2
  BY DEF Quad
<1> HIDE DEF w, p2, p3, y1, y2, z1, z2
<1>5. \A q, r \in Nat, p \in Nat \ {0} : r < p => (q * p + r) % p = r /\ (q * p + r) \div p = q
  BY Digits
<1>6. w % b = x0 /\ w \div b = y1
  <2>1. (y1 * b + x0) % b = x0 /\ (y1 * b + x0) \div b = y1
    BY <1>3, <1>5
  <2> QED
    BY <1>4, <2>1
<1>7. y1 % b = x1
  <2>1. (y2 * b + x1) % b = x1
    BY <1>3, <1>5
  <2> QED
    BY <1>4, <2>1
<1>8. w % p2 = z1 /\ w \div p2 = y2
  <2>1. (y2 * p2 + z1) % p2 = z1 /\ (y2 * p2 + z1) \div p2 = y2
    BY <1>1, <1>3, <1>5
  <2> QED
    BY <1>4, <2>1
<1>9. y2 % b = x2
  <2>1. (x3 * b + x2) % b = x2
    BY <1>5
  <2> QED
    BY <1>4, <2>1
<1>10. w \div p3 = x3
  <2>1. (x3 * p3 + z2) \div p3 = x3
    BY <1>1, <1>5
  <2> QED
    BY <1>4, <2>1
<1>11. y2 % p2 = y2 /\ x3 % b = x3
  BY <1>1
<1> QED
  BY <1>6, <1>7, <1>8, <1>9, <1>10, <1>11 DEF w, p2, p3, y2, z1

\* Moved up, such a number loses its upper digits.
LEMMA QuadMoves ==
  ASSUME NEW b \in Nat \ {0}, NEW x0 \in 0 .. b - 1, NEW x1 \in 0 .. b - 1,
         NEW x2 \in 0 .. b - 1, NEW x3 \in 0 .. b - 1
  PROVE  LET w == Quad(b, x0, x1, x2, x3)  p4 == b * b * b * b IN
         /\ w % p4 = w
         /\ (w * b) % p4 = Quad(b, 0, x0, x1, x2)
         /\ (w * (b * b)) % p4 = Quad(b, 0, 0, x0, x1)
         /\ (w * (b * b * b)) % p4 = Quad(b, 0, 0, 0, x0)
<1> DEFINE w == Quad(b, x0, x1, x2, x3)
           p4 == b * b * b * b
           y1 == x1 + x2 * b + x3 * (b * b)
           y2 == x2 + x3 * b
           m1 == Quad(b, 0, x0, x1, x2)
           m2 == Quad(b, 0, 0, x0, x1)
           m3 == Quad(b, 0, 0, 0, x0)
<1>0. 0 \in 0 .. b - 1
  OBVIOUS
<1>1. /\ p4 \in Nat \ {0} /\ w \in 0 .. p4 - 1 /\ m1 \in 0 .. p4 - 1
      /\ m2 \in 0 .. p4 - 1 /\ m3 \in 0 .. p4 - 1
  BY <1>0, QuadBounds
<1>2. y1 \in Nat /\ y2 \in Nat
  <2>1. \A x, p \in Nat : x * p \in Nat
    BY Times
  <2>2. x2 * b \in Nat /\ b * b \in Nat /\ x3 * b \in Nat
    BY <2>1
  <2>3. x3 * (b * b) \in Nat
    BY <2>1, <2>2
  <2> QED
    BY <2>2, <2>3
<1>3. w * b = x3 * p4 + m1
  BY DEF Quad
<1>4. w * (b * b) = y2 * p4 + m2
  BY DEF Quad
<1>5. w * (b * b * b) = y1 * p4 + m3
  BY DEF Quad
<1>6. \A q, r \in Nat, p \in Nat \ {0} : r < p => (q * p + r) % p = r
  BY Digits
<1> HIDE DEF w, p4, y1, y2, m1, m2, m3
<1>7. w % p4 = w
  BY <1>1
<1>8. (x3 * p4 + m1) % p4 = m1
  BY <1>1, <1>6
<1>9. (y2 * p4 + m2) % p4 = m2 /\ (y1 * p4 + m3) % p4 = m3
  BY <1>1, <1>2, <1>6
<1> QED
  BY <1>3, <1>4, <1>5, <1>7, <1>8, <1>9 DEF w, p4, m1, m2, m3

\* Every number of four digits is one.
LEMMA QuadOf ==
  ASSUME NEW b \in Nat \ {0}, NEW w \in 0 .. b * b * b * b - 1
  PROVE  \E x0, x1, x2, x3 \in 0 .. b - 1 : w = Quad(b, x0, x1, x2, x3)
<1> DEFINE p2 == b * b
           p3 == p2 * b
<1>1. p2 \in Nat /\ p3 \in Nat /\ w \in Nat /\ w < p3 * b
  <2>1. b * b \in Nat
    BY Times
  <2>2. p2 * b \in Nat
    BY <2>1, Times
  <2>3. p3 * b \in Nat /\ p3 * b = b * b * b * b
    BY <2>2, Times
  <2> QED
    BY <2>1, <2>2, <2>3
<1>2. p3 = p2 * b /\ p2 = b * b
  OBVIOUS
<1> HIDE DEF p2, p3
<1>3. PICK q1 \in Nat, x0 \in 0 .. b - 1 : w = q1 * b + x0 /\ w \div b = q1
  BY <1>1, DivMod
<1>4. q1 < p2 * b
  BY <1>1, <1>2, <1>3, UpperDigit
<1>5. PICK q2 \in Nat, x1 \in 0 .. b - 1 : q1 = q2 * b + x1 /\ q1 \div b = q2
  BY <1>3, DivMod
<1>6. q2 < b * b
  BY <1>1, <1>2, <1>3, <1>4, <1>5, UpperDigit
<1>7. PICK x3 \in Nat, x2 \in 0 .. b - 1 : q2 = x3 * b + x2 /\ q2 \div b = x3
  BY <1>5, DivMod
<1>8. x3 < b
  BY <1>5, <1>6, <1>7, UpperDigit
<1>9. w = ((x3 * b + x2) * b + x1) * b + x0
  BY <1>3, <1>5, <1>7
<1>10. w = Quad(b, x0, x1, x2, x3)
  BY <1>3, <1>5, <1>7, <1>9 DEF Quad
<1> QED
  BY <1>3, <1>5, <1>7, <1>8, <1>10

\* The powers of two that the units shift by.
LEMMA Scales ==
  ASSUME Bits = 4 * ByteBits
  PROVE  LET b == 2 ^ ByteBits IN
         /\ b \in Nat \ {0} /\ 2 ^ (ByteBits * 0) = 1 /\ 2 ^ (ByteBits * 1) = b
         /\ 2 ^ (ByteBits * 2) = b * b /\ 2 ^ (2 * ByteBits) = b * b
         /\ 2 ^ (ByteBits * 3) = b * b * b /\ 2 ^ (3 * ByteBits) = b * b * b
         /\ 2 ^ (2 * ByteBits * 0) = 1 /\ 2 ^ (2 * ByteBits * 1) = b * b
         /\ Size = b * b * b * b
<1> DEFINE n == ByteBits
<1>1. n \in Nat /\ Bits = 4 * n
  BY WidthAssumption
<1> HIDE DEF n
<1>2. /\ n * 0 = 0 /\ n * 1 = n /\ n * 2 = n + n /\ 2 * n = n + n /\ n * 3 = (n + n) + n
      /\ 3 * n = (n + n) + n /\ 2 * n * 0 = 0 /\ 2 * n * 1 = n + n /\ 4 * n = ((n + n) + n) + n
  BY <1>1
<1>3. 2 ^ n \in Nat \ {0} /\ 2 ^ 0 = 1
  BY <1>1, PowPositive, PowStep
<1>4. 2 ^ (n + n) = 2 ^ n * 2 ^ n
  BY <1>1, PowSum
<1>5. 2 ^ ((n + n) + n) = 2 ^ n * 2 ^ n * 2 ^ n
  <2>1. n + n \in Nat
    BY <1>1
  <2>2. 2 ^ ((n + n) + n) = 2 ^ (n + n) * 2 ^ n
    BY <1>1, <2>1, PowSum, Zenon
  <2> QED
    BY <1>4, <2>2
<1>6. 2 ^ (((n + n) + n) + n) = 2 ^ n * 2 ^ n * 2 ^ n * 2 ^ n
  <2>1. (n + n) + n \in Nat
    BY <1>1
  <2>2. 2 ^ (((n + n) + n) + n) = 2 ^ ((n + n) + n) * 2 ^ n
    BY <1>1, <2>1, PowSum, Zenon
  <2> QED
    BY <1>5, <2>2
<1>7. Size = 2 ^ n * 2 ^ n * 2 ^ n * 2 ^ n
  BY <1>1, <1>2, <1>6 DEF Size
<1> QED
  BY <1>2, <1>3, <1>4, <1>5, <1>7 DEF n

-----------------------------------------------------------------------------
(* The load/store unit. *)

Byte == 0 .. 2 ^ ByteBits - 1

\* The word of four bytes, least significant first.
FourBytes(x0, x1, x2, x3) == Quad(2 ^ ByteBits, x0, x1, x2, x3)

LEMMA ByteType == Byte \subseteq Nat /\ 0 \in Byte
<1>1. 2 ^ ByteBits \in Nat \ {0}
  BY WidthAssumption, PowPositive
<1> QED
  BY <1>1 DEF Byte

LEMMA LanesOf ==
  ASSUME Bits = 4 * ByteBits, NEW x0 \in Byte, NEW x1 \in Byte, NEW x2 \in Byte, NEW x3 \in Byte
  PROVE  /\ FourBytes(x0, x1, x2, x3) \in 0 .. Size - 1
         /\ Lane(FourBytes(x0, x1, x2, x3), 0) = x0
         /\ Lane(FourBytes(x0, x1, x2, x3), 1) = x1
         /\ Lane(FourBytes(x0, x1, x2, x3), 2) = x2
         /\ Lane(FourBytes(x0, x1, x2, x3), 3) = x3
<1> DEFINE b == 2 ^ ByteBits
           w == Quad(b, x0, x1, x2, x3)
<1>1. /\ b \in Nat \ {0} /\ 2 ^ (ByteBits * 0) = 1 /\ 2 ^ (ByteBits * 1) = b
      /\ 2 ^ (ByteBits * 2) = b * b /\ 2 ^ (3 * ByteBits) = b * b * b /\ Size = b * b * b * b
  BY Scales
<1>2. FourBytes(x0, x1, x2, x3) = w
  BY DEF FourBytes
<1>3. x0 \in 0 .. b - 1 /\ x1 \in 0 .. b - 1 /\ x2 \in 0 .. b - 1 /\ x3 \in 0 .. b - 1
  BY DEF Byte
<1>l. /\ Lane(w, 0) = (w \div 2 ^ (ByteBits * 0)) % b
      /\ Lane(w, 1) = (w \div 2 ^ (ByteBits * 1)) % b
      /\ Lane(w, 2) = (w \div 2 ^ (ByteBits * 2)) % b
      /\ Lane(w, 3) = w \div 2 ^ (3 * ByteBits)
  BY DEF Lane
<1> HIDE DEF b
<1>4. w \in 0 .. b * b * b * b - 1
  BY <1>1, <1>3, QuadBounds
<1>5. /\ w % b = x0 /\ (w \div b) % b = x1
      /\ (w \div (b * b)) % b = x2 /\ w \div (b * b * b) = x3
  BY <1>1, <1>3, QuadCuts
<1>6. b * b * b * b \in Nat \ {0}
  BY <1>1, <1>3, QuadBounds
<1> HIDE DEF w
<1>7. w \div 1 = w
  BY <1>4, <1>6
<1> QED
  BY <1>1, <1>2, <1>4, <1>5, <1>7, <1>l

LEMMA IsFourBytes ==
  ASSUME Bits = 4 * ByteBits, NEW w \in 0 .. Size - 1
  PROVE  \E x0, x1, x2, x3 \in Byte : w = FourBytes(x0, x1, x2, x3)
<1> DEFINE b == 2 ^ ByteBits
<1>1. b \in Nat \ {0} /\ Size = b * b * b * b
  BY Scales
<1>2. \E x0, x1, x2, x3 \in 0 .. b - 1 : w = Quad(b, x0, x1, x2, x3)
  <2> HIDE DEF b
  <2>1. w \in 0 .. b * b * b * b - 1
    BY <1>1
  <2> QED
    BY <1>1, <2>1, QuadOf
<1> QED
  BY <1>2 DEF Byte, FourBytes

\* A word moved up by whole bytes and cut off at the width of a word.
LEMMA WordMoves ==
  ASSUME Bits = 4 * ByteBits, NEW x0 \in Byte, NEW x1 \in Byte, NEW x2 \in Byte, NEW x3 \in Byte
  PROVE  /\ Trunc(FourBytes(x0, x1, x2, x3) * 2 ^ (ByteBits * 0)) = FourBytes(x0, x1, x2, x3)
         /\ Trunc(FourBytes(x0, x1, x2, x3) * 2 ^ (ByteBits * 1)) = FourBytes(0, x0, x1, x2)
         /\ Trunc(FourBytes(x0, x1, x2, x3) * 2 ^ (ByteBits * 2)) = FourBytes(0, 0, x0, x1)
         /\ Trunc(FourBytes(x0, x1, x2, x3) * 2 ^ (ByteBits * 3)) = FourBytes(0, 0, 0, x0)
         /\ Trunc(FourBytes(x0, x1, x2, x3) * 2 ^ (2 * ByteBits * 0)) = FourBytes(x0, x1, x2, x3)
         /\ Trunc(FourBytes(x0, x1, x2, x3) * 2 ^ (2 * ByteBits * 1)) = FourBytes(0, 0, x0, x1)
<1> DEFINE b == 2 ^ ByteBits
           w == Quad(b, x0, x1, x2, x3)
<1>1. /\ b \in Nat \ {0} /\ 2 ^ (ByteBits * 0) = 1 /\ 2 ^ (ByteBits * 1) = b
      /\ 2 ^ (ByteBits * 2) = b * b /\ 2 ^ (ByteBits * 3) = b * b * b
      /\ 2 ^ (2 * ByteBits * 0) = 1 /\ 2 ^ (2 * ByteBits * 1) = b * b
      /\ Size = b * b * b * b
  BY Scales
<1>2. x0 \in 0 .. b - 1 /\ x1 \in 0 .. b - 1 /\ x2 \in 0 .. b - 1 /\ x3 \in 0 .. b - 1
  BY DEF Byte
<1>3. /\ FourBytes(x0, x1, x2, x3) = w /\ FourBytes(0, x0, x1, x2) = Quad(b, 0, x0, x1, x2)
      /\ FourBytes(0, 0, x0, x1) = Quad(b, 0, 0, x0, x1) /\ FourBytes(0, 0, 0, x0) = Quad(b, 0, 0, 0, x0)
  BY DEF FourBytes
<1> HIDE DEF b
<1>4. LET p4 == b * b * b * b IN
      /\ w % p4 = w
      /\ (w * b) % p4 = Quad(b, 0, x0, x1, x2)
      /\ (w * (b * b)) % p4 = Quad(b, 0, 0, x0, x1)
      /\ (w * (b * b * b)) % p4 = Quad(b, 0, 0, 0, x0)
  BY <1>1, <1>2, QuadMoves
<1>5. w \in 0 .. b * b * b * b - 1 /\ b * b * b * b \in Nat \ {0}
  BY <1>1, <1>2, QuadBounds
<1> HIDE DEF w
<1>6. w * 1 = w
  BY <1>5
<1> QED
  BY <1>1, <1>3, <1>4, <1>6 DEF Trunc

\* store_be enables the lanes the access covers, and store_wdata holds there
\* the low bytes of the stored register.
LEMMA StoredLanes ==
  ASSUME Bits = 4 * ByteBits, NEW op \in StoreOp, NEW addr \in Nat, addr % SizeOf(op) = 0,
         NEW value \in 0 .. Size - 1, NEW l \in 0 .. 3
  PROVE  /\ l \in StoreLanes(op, addr) <=> (addr % 4) <= l /\ l < (addr % 4) + SizeOf(op)
         /\ l \in StoreLanes(op, addr) =>
              /\ Lane(StoreData(op, addr, value), l) = Lane(value, l - (addr % 4))
              /\ Lane(value, l - (addr % 4)) \in Byte
<1>1. PICK v0 \in Byte, v1 \in Byte, v2 \in Byte, v3 \in Byte : value = FourBytes(v0, v1, v2, v3)
  BY IsFourBytes
<1>2. 0 \in Byte
  BY ByteType
<1>v. /\ Lane(value, 0) = v0 /\ Lane(value, 1) = v1 /\ Lane(value, 2) = v2 /\ Lane(value, 3) = v3
  BY <1>1, LanesOf
<1>3. /\ Lane(FourBytes(0, v0, v1, v2), 1) = v0
      /\ Lane(FourBytes(0, 0, v0, v1), 2) = v0 /\ Lane(FourBytes(0, 0, v0, v1), 3) = v1
      /\ Lane(FourBytes(0, 0, 0, v0), 3) = v0
  BY <1>1, <1>2, LanesOf
<1>4. /\ Trunc(value * 2 ^ (ByteBits * 0)) = value
      /\ Trunc(value * 2 ^ (ByteBits * 1)) = FourBytes(0, v0, v1, v2)
      /\ Trunc(value * 2 ^ (ByteBits * 2)) = FourBytes(0, 0, v0, v1)
      /\ Trunc(value * 2 ^ (ByteBits * 3)) = FourBytes(0, 0, 0, v0)
      /\ Trunc(value * 2 ^ (2 * ByteBits * 0)) = value
      /\ Trunc(value * 2 ^ (2 * ByteBits * 1)) = FourBytes(0, 0, v0, v1)
  BY <1>1, WordMoves
<1>5. CASE op = "b"
  <2> DEFINE k == addr % 4
  <2>1. SizeOf(op) = 1 /\ StoreLanes(op, addr) = {k}
    BY <1>5 DEF SizeOf, StoreLanes
  <2>2. StoreData(op, addr, value) = Trunc(value * 2 ^ (ByteBits * k))
    BY <1>5 DEF StoreData
  <2>3. k \in 0 .. 3
    OBVIOUS
  <2> HIDE DEF k
  <2>4. l \in StoreLanes(op, addr) <=> k <= l /\ l < k + 1
    BY <2>1, <2>3
  <2>5. Lane(StoreData(op, addr, value), k) = Lane(value, 0)
    <3>1. CASE k = 0
      BY <2>2, <1>4, <3>1
    <3>2. CASE k = 1
      BY <2>2, <1>3, <1>4, <1>v, <3>2
    <3>3. CASE k = 2
      BY <2>2, <1>3, <1>4, <1>v, <3>3
    <3>4. CASE k = 3
      BY <2>2, <1>3, <1>4, <1>v, <3>4
    <3> QED
      BY <2>3, <3>1, <3>2, <3>3, <3>4
  <2>6. l \in StoreLanes(op, addr) => l = k /\ l - k = 0
    BY <2>1, <2>3
  <2> QED
    BY <1>1, <1>v, <2>1, <2>4, <2>5, <2>6 DEF k
<1>6. CASE op = "h"
  <2> DEFINE k == addr % 4
  <2>1. SizeOf(op) = 2 /\ StoreLanes(op, addr) = {2 * (k \div 2), 2 * (k \div 2) + 1}
    BY <1>6 DEF SizeOf, StoreLanes
  <2>2. StoreData(op, addr, value) = Trunc(value * 2 ^ (2 * ByteBits * (k \div 2)))
    BY <1>6 DEF StoreData
  <2>3. k = 0 \/ k = 2
    BY <2>1
  <2> HIDE DEF k
  <2>4. CASE k = 0
    <3>1. StoreLanes(op, addr) = {0, 1} /\ StoreData(op, addr, value) = value
      <4>1. k \div 2 = 0
        BY <2>4
      <4> QED
        BY <1>4, <2>1, <2>2, <4>1
    <3>2. l \in StoreLanes(op, addr) <=> k <= l /\ l < k + 2
      BY <2>4, <3>1
    <3>3. l - k = l
      BY <2>4
    <3>4. l \in StoreLanes(op, addr) => Lane(value, l) \in Byte
      BY <1>1, <1>v, <3>1
    <3> QED
      BY <2>1, <3>1, <3>2, <3>3, <3>4 DEF k
  <2>5. CASE k = 2
    <3>1. StoreLanes(op, addr) = {2, 3} /\ StoreData(op, addr, value) = FourBytes(0, 0, v0, v1)
      <4>1. k \div 2 = 1
        BY <2>5
      <4> QED
        BY <1>4, <2>1, <2>2, <4>1
    <3>2. l \in StoreLanes(op, addr) <=> k <= l /\ l < k + 2
      BY <2>5, <3>1
    <3>3. l \in StoreLanes(op, addr) => (l = 2 /\ l - k = 0) \/ (l = 3 /\ l - k = 1)
      BY <2>5, <3>1
    <3>4. l \in StoreLanes(op, addr) =>
            /\ Lane(StoreData(op, addr, value), l) = Lane(value, l - k)
            /\ Lane(value, l - k) \in Byte
      BY <1>1, <1>3, <1>v, <3>1, <3>3
    <3> QED
      BY <2>1, <3>2, <3>4 DEF k
  <2> QED
    BY <2>3, <2>4, <2>5
<1>7. CASE op = "w"
  <2> DEFINE k == addr % 4
  <2>1. SizeOf(op) = 4 /\ StoreLanes(op, addr) = 0 .. 3 /\ StoreData(op, addr, value) = value
    BY <1>7 DEF SizeOf, StoreLanes, StoreData
  <2>2. k = 0
    BY <2>1
  <2> HIDE DEF k
  <2>3. l - k = l /\ l \in StoreLanes(op, addr) /\ k <= l /\ l < k + 4
    BY <2>1, <2>2
  <2>4. Lane(value, l) \in Byte
    BY <1>1, <1>v
  <2> QED
    BY <2>1, <2>3, <2>4 DEF k
<1> QED
  BY <1>5, <1>6, <1>7 DEF StoreOp

-----------------------------------------------------------------------------
(* The two memories. *)

\* memory_model.dmem holds bytes.
BytesStored == dmem \in [0 .. DmemBytes - 1 -> Byte]

\* The bytearray holds the same ones, at the same addresses.
SameBytes ==
  /\ mem \in Seq(Byte) /\ Len(mem) = DmemBytes
  /\ \A a \in 0 .. DmemBytes - 1 : mem[a + 1] = dmem[a]

\* The word an address lies in.
LEMMA WordOf ==
  ASSUME NEW addr \in 0 .. DmemBytes - 1
  PROVE  LET base == addr - (addr % 4) IN
         /\ base \in Nat /\ base % 4 = 0 /\ addr % 4 \in 0 .. 3 /\ base + (addr % 4) = addr
         /\ InRange(base)
         /\ \A l \in 0 .. 3 : base + l \in 0 .. DmemBytes - 1
<1>1. DmemBytes \in Nat /\ DmemBytes % 4 = 0
  BY MemoryAssumption
<1>2. PICK q \in Nat : DmemBytes = 4 * q
  <2>1. DmemBytes \div 4 \in Nat /\ DmemBytes = 4 * (DmemBytes \div 4)
    BY <1>1
  <2> QED
    BY <2>1
<1>3. addr - (addr % 4) = 4 * (addr \div 4) /\ addr \div 4 \in Nat /\ addr \div 4 < q
  BY <1>1, <1>2
<1> QED
  BY <1>1, <1>2, <1>3 DEF InRange

LEMMA WholeWord ==
  ASSUME NEW s, Len(s) = 4, s[1] \in Byte, s[2] \in Byte, s[3] \in Byte, s[4] \in Byte,
         Bits = 4 * ByteBits
  PROVE  FromBytes(s) = FourBytes(s[1], s[2], s[3], s[4])
<1> DEFINE b == 2 ^ ByteBits
<1>1. /\ 2 ^ (ByteBits * (1 - 1)) = 1 /\ 2 ^ (ByteBits * (2 - 1)) = b
      /\ 2 ^ (ByteBits * (3 - 1)) = b * b /\ 2 ^ (ByteBits * (4 - 1)) = b * b * b
  <2>1. 1 - 1 = 0 /\ 2 - 1 = 1 /\ 3 - 1 = 2 /\ 4 - 1 = 3
    OBVIOUS
  <2> QED
    BY <2>1, Scales
<1>2. FromBytes(s) = s[1] * 2 ^ (ByteBits * (1 - 1)) + s[2] * 2 ^ (ByteBits * (2 - 1))
                       + s[3] * 2 ^ (ByteBits * (3 - 1)) + s[4] * 2 ^ (ByteBits * (4 - 1))
  BY DEF FromBytes
<1>3. s[1] \in Nat
  BY ByteType
<1>4. s[1] * 1 = s[1]
  BY <1>3
<1> QED
  BY <1>1, <1>2, <1>4 DEF FourBytes, Quad

LEMMA TwoBytes ==
  ASSUME NEW s, Len(s) = 2, s[1] \in Byte, s[2] \in Byte, Bits = 4 * ByteBits
  PROVE  FromBytes(s) = s[1] + s[2] * 2 ^ ByteBits
<1> DEFINE b == 2 ^ ByteBits
<1>1. 2 ^ (ByteBits * (1 - 1)) = 1 /\ 2 ^ (ByteBits * (2 - 1)) = b /\ b \in Nat
  <2>1. 1 - 1 = 0 /\ 2 - 1 = 1
    OBVIOUS
  <2> QED
    BY <2>1, Scales
<1>2. FromBytes(s) = s[1] * 2 ^ (ByteBits * (1 - 1)) + s[2] * 2 ^ (ByteBits * (2 - 1)) + 0 + 0
  BY DEF FromBytes
<1> HIDE DEF b
<1>3. s[1] \in Nat /\ s[2] \in Nat
  BY ByteType
<1>4. s[1] * 1 = s[1] /\ s[2] * b \in Nat
  BY <1>1, <1>3, Times
<1> QED
  BY <1>1, <1>2, <1>3, <1>4 DEF b

LEMMA OneByte ==
  ASSUME NEW s, Len(s) = 1, s[1] \in Byte, Bits = 4 * ByteBits
  PROVE  FromBytes(s) = s[1]
<1>1. 2 ^ (ByteBits * (1 - 1)) = 1
  <2>1. 1 - 1 = 0
    OBVIOUS
  <2> QED
    BY <2>1, Scales
<1>2. FromBytes(s) = s[1] * 2 ^ (ByteBits * (1 - 1)) + 0 + 0 + 0
  BY DEF FromBytes
<1>3. s[1] \in Nat
  BY ByteType
<1> QED
  BY <1>1, <1>2, <1>3

\* The word that four bytes of the array make.
LEMMA WordIn ==
  ASSUME Bits = 4 * ByteBits, NEW d \in [0 .. DmemBytes - 1 -> Byte],
         NEW base \in Nat, InRange(base)
  PROVE  /\ d[base] \in Byte /\ d[base + 1] \in Byte /\ d[base + 2] \in Byte /\ d[base + 3] \in Byte
         /\ FromBytes([l \in 1 .. 4 |-> d[base + l - 1]])
              = FourBytes(d[base], d[base + 1], d[base + 2], d[base + 3])
<1>1. DmemBytes \in Nat /\ base + 3 < DmemBytes
  BY MemoryAssumption DEF InRange
<1>2. d[base] \in Byte /\ d[base + 1] \in Byte /\ d[base + 2] \in Byte /\ d[base + 3] \in Byte
  BY <1>1
<1> DEFINE s == [l \in 1 .. 4 |-> d[base + l - 1]]
<1>3. s[1] = d[base] /\ s[2] = d[base + 1] /\ s[3] = d[base + 2] /\ s[4] = d[base + 3]
  <2>1. base + 1 - 1 = base /\ base + 2 - 1 = base + 1 /\ base + 3 - 1 = base + 2 /\ base + 4 - 1 = base + 3
    OBVIOUS
  <2>2. s[1] = d[base + 1 - 1] /\ s[2] = d[base + 2 - 1] /\ s[3] = d[base + 3 - 1] /\ s[4] = d[base + 4 - 1]
    OBVIOUS
  <2> QED
    BY <2>1, <2>2
<1>4. Len(s) = 4
  OBVIOUS
<1> HIDE DEF s
<1>5. FromBytes(s) = FourBytes(d[base], d[base + 1], d[base + 2], d[base + 3])
  BY <1>2, <1>3, <1>4, WholeWord
<1> QED
  BY <1>2, <1>5 DEF s

\* What the test bench hands the load/store unit.
LEMMA WordRead ==
  ASSUME Bits = 4 * ByteBits, BytesStored, NEW base \in Nat, InRange(base)
  PROVE  /\ dmem[base] \in Byte /\ dmem[base + 1] \in Byte
         /\ dmem[base + 2] \in Byte /\ dmem[base + 3] \in Byte
         /\ ReadWord(base) = FourBytes(dmem[base], dmem[base + 1], dmem[base + 2], dmem[base + 3])
<1>1. ReadWord(base) = FromBytes([l \in 1 .. 4 |-> dmem[base + l - 1]])
  BY DEF ReadWord
<1> QED
  BY <1>1, WordIn DEF BytesStored

\* store_be is a mask of four lanes.
LEMMA LanesWithin ==
  ASSUME NEW op \in StoreOp, NEW addr \in Nat
  PROVE  StoreLanes(op, addr) \subseteq 0 .. 3
<1> DEFINE k == addr % 4
<1>1. k \in 0 .. 3
  OBVIOUS
<1>2. CASE op = "b"
  <2>1. StoreLanes(op, addr) = {k}
    BY <1>2 DEF StoreLanes
  <2> QED
    BY <1>1, <2>1
<1>3. CASE op = "h"
  <2>1. StoreLanes(op, addr) = {2 * (k \div 2), 2 * (k \div 2) + 1}
    BY <1>3 DEF StoreLanes
  <2>2. k \div 2 \in {0, 1}
    BY <1>1
  <2> QED
    BY <2>1, <2>2
<1>4. CASE op = "w"
  BY <1>4 DEF StoreLanes
<1> QED
  BY <1>2, <1>3, <1>4 DEF StoreOp

\* One aligned store leaves bytes in memory_model.dmem, and sets exactly those
\* the access covers to the low bytes of the stored register.
LEMMA StoredBytes ==
  ASSUME Bits = 4 * ByteBits, BytesStored, NEW op \in StoreOp, NEW addr \in Nat,
         NEW value \in 0 .. Size - 1, addr % SizeOf(op) = 0, WriteLanes(op, addr, value)
  PROVE  /\ BytesStored'
         /\ addr < DmemBytes => \A a \in 0 .. DmemBytes - 1 :
              dmem'[a] = IF addr <= a /\ a < addr + SizeOf(op) THEN Lane(value, a - addr) ELSE dmem[a]
<1> DEFINE k == addr % 4
           base == addr - k
           covered(a) == InRange(base) /\ a - base \in StoreLanes(op, addr)
<1>1. ASSUME NEW l \in 0 .. 3
      PROVE  /\ l \in StoreLanes(op, addr) <=> k <= l /\ l < k + SizeOf(op)
             /\ l \in StoreLanes(op, addr) =>
                  /\ Lane(StoreData(op, addr, value), l) = Lane(value, l - k)
                  /\ Lane(value, l - k) \in Byte
  BY StoredLanes
<1>2. k \in 0 .. 3 /\ base \in Int /\ base + k = addr /\ DmemBytes \in Nat
  BY MemoryAssumption
<1>3. dmem' = [a \in 0 .. DmemBytes - 1 |->
                 IF covered(a) THEN Lane(StoreData(op, addr, value), a - base) ELSE dmem[a]]
  BY DEF WriteLanes, BytesStored
<1>4. StoreLanes(op, addr) \subseteq 0 .. 3
  BY LanesWithin
<1>5. k + SizeOf(op) <= 4 /\ SizeOf(op) \in 1 .. 4
  <2>1. CASE op = "b"
    BY <1>2, <2>1 DEF SizeOf
  <2>2. CASE op = "h"
    BY <2>2 DEF SizeOf
  <2>3. CASE op = "w"
    BY <2>3 DEF SizeOf
  <2> QED
    BY <2>1, <2>2, <2>3 DEF StoreOp
<1>6. addr < DmemBytes => InRange(base)
  <2>1. addr < DmemBytes => addr \in 0 .. DmemBytes - 1
    BY <1>2
  <2> QED
    BY <2>1, WordOf
<1> HIDE DEF k, base
<1>7. ASSUME NEW a \in 0 .. DmemBytes - 1
      PROVE  /\ covered(a) => /\ a - base \in 0 .. 3 /\ (a - base) - k = a - addr
                              /\ dmem'[a] = Lane(value, a - addr) /\ Lane(value, a - addr) \in Byte
             /\ ~covered(a) => dmem'[a] = dmem[a] /\ dmem[a] \in Byte
             /\ InRange(base) => (covered(a) <=> addr <= a /\ a < addr + SizeOf(op))
  <2>1. covered(a) => a - base \in 0 .. 3
    BY <1>4
  <2>2. (a - base) - k = a - addr
    BY <1>2
  <2>3. covered(a) => dmem'[a] = Lane(StoreData(op, addr, value), a - base)
    BY <1>3
  <2>4. covered(a) => /\ Lane(StoreData(op, addr, value), a - base) = Lane(value, a - addr)
                      /\ Lane(value, a - addr) \in Byte
    BY <1>1, <2>1, <2>2
  <2>5. ~covered(a) => dmem'[a] = dmem[a] /\ dmem[a] \in Byte
    BY <1>3 DEF BytesStored
  <2>6. a - base \in 0 .. 3 => (a - base \in StoreLanes(op, addr) <=> addr <= a /\ a < addr + SizeOf(op))
    <3>1. ASSUME a - base \in 0 .. 3
          PROVE  k <= a - base /\ a - base < k + SizeOf(op) <=> addr <= a /\ a < addr + SizeOf(op)
      BY <1>2, <1>5, <3>1
    <3> QED
      BY <1>1, <3>1
  <2>7. addr <= a /\ a < addr + SizeOf(op) => a - base \in 0 .. 3
    BY <1>2, <1>5
  <2>8. InRange(base) => (covered(a) <=> addr <= a /\ a < addr + SizeOf(op))
    BY <2>1, <2>6, <2>7
  <2> QED
    BY <2>1, <2>2, <2>3, <2>4, <2>5, <2>8
<1>8. BytesStored'
  <2>1. \A a \in 0 .. DmemBytes - 1 : dmem'[a] \in Byte
    BY <1>7
  <2> HIDE DEF covered
  <2> QED
    BY <1>3, <2>1 DEF BytesStored
<1>9. ASSUME addr < DmemBytes, NEW a \in 0 .. DmemBytes - 1
      PROVE  dmem'[a] = IF addr <= a /\ a < addr + SizeOf(op) THEN Lane(value, a - addr) ELSE dmem[a]
  <2> HIDE DEF covered
  <2> QED
    BY <1>6, <1>7, <1>9
<1> QED
  BY <1>8, <1>9

\* A slice of an array of bytes.
LEMMA Slice ==
  ASSUME NEW s \in Seq(Byte), NEW p \in Nat, NEW q \in Nat, p <= q, q <= Len(s)
  PROVE  /\ SubSeq(s, p + 1, q) \in Seq(Byte)
         /\ Len(SubSeq(s, p + 1, q)) = q - p
         /\ \A j \in 1 .. q - p : SubSeq(s, p + 1, q)[j] = s[p + j]
<1>1. Len(s) \in Nat /\ \A j \in 1 .. Len(s) : s[j] \in Byte
  OBVIOUS
<1> DEFINE t == [j \in 1 .. q - p |-> s[p + j]]
<1>2. SubSeq(s, p + 1, q) = t
  <2>1. SubSeq(s, p + 1, q) = [j \in 1 .. (1 + q) - (p + 1) |-> s[(j + (p + 1)) - 1]]
    OBVIOUS
  <2>2. (1 + q) - (p + 1) = q - p
    OBVIOUS
  <2>3. \A j \in 1 .. q - p : (j + (p + 1)) - 1 = p + j
    OBVIOUS
  <2> QED
    BY <2>1, <2>2, <2>3
<1>3. \A j \in 1 .. q - p : p + j \in 1 .. Len(s)
  BY <1>1
<1>4. t \in [1 .. q - p -> Byte] /\ q - p \in Nat
  BY <1>1, <1>3
<1>5. t \in Seq(Byte) /\ Len(t) = q - p
  BY <1>4
<1>6. \A j \in 1 .. q - p : t[j] = s[p + j]
  OBVIOUS
<1> QED
  BY <1>2, <1>5, <1>6

\* r is array s followed by array t.
IsJoined(r, s, t) ==
  /\ r \in Seq(Byte)
  /\ Len(r) = Len(s) + Len(t)
  /\ \A j \in 1 .. Len(s) : r[j] = s[j]
  /\ \A j \in Len(s) + 1 .. Len(s) + Len(t) : r[j] = t[j - Len(s)]

LEMMA Joined ==
  ASSUME NEW s \in Seq(Byte), NEW t \in Seq(Byte)
  PROVE  IsJoined(s \o t, s, t)
<1>1. s \o t \in Seq(Byte) /\ Len(s \o t) = Len(s) + Len(t)
  OBVIOUS
<1>2. \A j \in 1 .. Len(s) : (s \o t)[j] = s[j]
  BY ConcatProperties
<1>3. \A j \in Len(s) + 1 .. Len(s) + Len(t) : (s \o t)[j] = t[j - Len(s)]
  BY ConcatProperties
<1> QED
  BY <1>1, <1>2, <1>3 DEF IsJoined

\* So does the reference model's, inside the array.
LEMMA PythonStore ==
  ASSUME mem \in Seq(Byte), NEW n \in Nat, NEW addr \in Nat, addr + n <= Len(mem),
         NEW f \in Seq(Byte), Len(f) = n,
         mem' = SubSeq(mem, 1, addr) \o f \o SubSeq(mem, addr + n + 1, Len(mem))
  PROVE  /\ mem' \in Seq(Byte) /\ Len(mem') = Len(mem)
         /\ \A a \in 0 .. Len(mem) - 1 :
              mem'[a + 1] = IF addr <= a /\ a < addr + n THEN f[a - addr + 1] ELSE mem[a + 1]
<1> DEFINE N == Len(mem)
           e == addr + n
           lo == SubSeq(mem, 0 + 1, addr)
           hi == SubSeq(mem, e + 1, N)
           lf == lo \o f
<1>1. N \in Nat /\ e \in Nat /\ addr <= N /\ e <= N /\ addr <= e /\ 0 <= addr /\ N - e \in Nat
  OBVIOUS
<1>2. mem' = lf \o hi
  <2>1. 0 + 1 = 1
    OBVIOUS
  <2> QED
    BY <2>1
<1> HIDE DEF e
<1>3. lo \in Seq(Byte) /\ Len(lo) = addr - 0 /\ \A j \in 1 .. addr - 0 : lo[j] = mem[0 + j]
  <2>1. 0 \in Nat
    OBVIOUS
  <2> QED
    BY <1>1, <2>1, Slice
<1>4. lo \in Seq(Byte) /\ Len(lo) = addr /\ \A j \in 1 .. addr : lo[j] = mem[j]
  <2>1. addr - 0 = addr /\ \A j \in 1 .. addr : 0 + j = j
    OBVIOUS
  <2> QED
    BY <1>3, <2>1
<1>5. hi \in Seq(Byte) /\ Len(hi) = N - e /\ \A j \in 1 .. N - e : hi[j] = mem[e + j]
  BY <1>1, Slice
<1> HIDE DEF lo, hi, N
<1>6. /\ lf \in Seq(Byte) /\ Len(lf) = addr + n
      /\ \A j \in 1 .. addr : lf[j] = lo[j]
      /\ \A j \in addr + 1 .. addr + n : lf[j] = f[j - addr]
  <2>1. IsJoined(lf, lo, f)
    BY <1>4, Joined
  <2> HIDE DEF lf
  <2> QED
    BY <1>4, <2>1 DEF IsJoined
<1> HIDE DEF lf
<1>7. Len(lf) = e
  BY <1>6 DEF e
<1>8. /\ mem' \in Seq(Byte) /\ Len(mem') = e + (N - e)
      /\ \A j \in 1 .. e : mem'[j] = lf[j]
      /\ \A j \in e + 1 .. e + (N - e) : mem'[j] = hi[j - e]
  <2>1. IsJoined(lf \o hi, lf, hi)
    BY <1>5, <1>6, Joined
  <2> QED
    BY <1>2, <1>5, <1>7, <2>1 DEF IsJoined
<1>9. e + (N - e) = N
  BY <1>1
<1>10. ASSUME NEW a \in 0 .. N - 1
       PROVE  mem'[a + 1] = IF addr <= a /\ a < addr + n THEN f[a - addr + 1] ELSE mem[a + 1]
  <2>1. CASE a < addr
    <3>1. a + 1 \in 1 .. addr /\ a + 1 \in 1 .. e /\ ~(addr <= a)
      BY <1>1, <2>1
    <3>2. mem'[a + 1] = mem[a + 1]
      BY <1>4, <1>6, <1>8, <3>1
    <3> QED
      BY <3>1, <3>2
  <2>2. CASE addr <= a /\ a < addr + n
    <3>1. a + 1 \in addr + 1 .. addr + n /\ a + 1 \in 1 .. e /\ (a + 1) - addr = a - addr + 1
      BY <1>1, <2>2 DEF e
    <3>2. mem'[a + 1] = lf[a + 1]
      BY <1>8, <3>1
    <3>3. lf[a + 1] = f[(a + 1) - addr]
      BY <1>6, <3>1
    <3> QED
      BY <2>2, <3>1, <3>2, <3>3
  <2>3. CASE a >= addr + n
    <3>1. a + 1 \in e + 1 .. N /\ (a + 1) - e \in 1 .. N - e /\ e + ((a + 1) - e) = a + 1 /\ ~(a < addr + n)
      BY <1>1, <2>3 DEF e
    <3>2. mem'[a + 1] = hi[(a + 1) - e]
      BY <1>8, <1>9, <3>1
    <3>3. hi[(a + 1) - e] = mem[e + ((a + 1) - e)]
      BY <1>5, <3>1
    <3> QED
      BY <3>1, <3>2, <3>3
  <2> QED
    <3>1. a \in Nat
      BY <1>1
    <3>2. a < addr \/ (addr <= a /\ a < addr + n) \/ a >= addr + n
      BY <3>1
    <3> QED
      BY <3>2, <2>1, <2>2, <2>3, Zenon
<1> QED
  BY <1>8, <1>9, <1>10 DEF N

\* What _store does, when the access ends inside the array.
LEMMA StoredByPython ==
  ASSUME Bits = 4 * ByteBits, mem \in Seq(Byte), NEW op \in StoreOp, NEW addr \in Nat,
         addr + SizeOf(op) <= Len(mem), NEW value \in 0 .. Size - 1, StorePy(op, addr, value)
  PROVE  /\ mem' \in Seq(Byte) /\ Len(mem') = Len(mem)
         /\ \A a \in 0 .. Len(mem) - 1 :
              mem'[a + 1] = IF addr <= a /\ a < addr + SizeOf(op)
                            THEN Lane(value, a - addr) ELSE mem[a + 1]
<1> DEFINE n == SizeOf(op)
           f == [l \in 1 .. n |-> Lane(value, l - 1)]
<1>1. n \in 1 .. 4
  BY DEF SizeOf, StoreOp
<1> HIDE DEF n
<1>2. \A l \in 1 .. n : Lane(value, l - 1) \in Byte
  <2>1. \A l \in 1 .. n : l - 1 \in 0 .. 3
    BY <1>1
  <2>2. /\ Lane(value, 0) \in Byte /\ Lane(value, 1) \in Byte
        /\ Lane(value, 2) \in Byte /\ Lane(value, 3) \in Byte
    <3>1. PICK x0 \in Byte, x1 \in Byte, x2 \in Byte, x3 \in Byte : value = FourBytes(x0, x1, x2, x3)
      BY IsFourBytes
    <3> QED
      BY <3>1, LanesOf
  <2> QED
    BY <2>1, <2>2
<1>3. f \in Seq(Byte) /\ Len(f) = n
  BY <1>1, <1>2
<1>4. mem' = SubSeq(mem, 1, addr) \o f \o SubSeq(mem, addr + n + 1, Len(mem))
  <2>1. Len(mem) \in Nat /\ addr + n <= Len(mem) /\ addr < Len(mem)
    BY <1>1 DEF n
  <2>2. Cut(addr) = addr /\ Cut(addr + n) = addr + n
    BY <1>1, <2>1 DEF Cut
  <2> QED
    BY <2>2 DEF StorePy, n
<1>5. \A a \in Nat : addr <= a /\ a < addr + n => f[a - addr + 1] = Lane(value, a - addr)
  <2>1. \A a \in Nat : addr <= a /\ a < addr + n => a - addr + 1 \in 1 .. n /\ (a - addr + 1) - 1 = a - addr
    BY <1>1
  <2> QED
    BY <2>1
<1> HIDE DEF f
<1>6. /\ mem' \in Seq(Byte) /\ Len(mem') = Len(mem)
      /\ \A a \in 0 .. Len(mem) - 1 :
           mem'[a + 1] = IF addr <= a /\ a < addr + n THEN f[a - addr + 1] ELSE mem[a + 1]
  <2>1. n \in Nat /\ addr + n <= Len(mem)
    BY <1>1 DEF n
  <2> QED
    BY <1>3, <1>4, <2>1, PythonStore
<1> QED
  BY <1>5, <1>6 DEF n

\* An aligned access inside the memory ends inside it.
LEMMA EndsInside ==
  ASSUME NEW op \in LoadOp, NEW addr \in 0 .. DmemBytes - 1, addr % SizeOf(op) = 0
  PROVE  /\ SizeOf(op) \in Nat /\ addr + SizeOf(op) <= DmemBytes
         /\ (addr % 4) + SizeOf(op) <= 4
<1> DEFINE k == addr % 4
           base == addr - k
<1>1. base \in Nat /\ k \in 0 .. 3 /\ base + k = addr /\ InRange(base)
  BY WordOf
<1>2. base + 3 < DmemBytes /\ DmemBytes \in Nat
  BY <1>1, MemoryAssumption DEF InRange
<1>3. CASE op \in {"b", "bu"}
  <2>1. SizeOf(op) = 1
    BY <1>3 DEF SizeOf
  <2> HIDE DEF k, base
  <2> QED
    BY <1>1, <1>2, <2>1 DEF k
<1>4. CASE op \in {"h", "hu"}
  <2>1. SizeOf(op) = 2
    BY <1>4 DEF SizeOf
  <2>2. k \in {0, 2}
    BY <1>1, <2>1
  <2> HIDE DEF k, base
  <2> QED
    BY <1>1, <1>2, <2>1, <2>2 DEF k
<1>5. CASE op = "w"
  <2>1. SizeOf(op) = 4
    BY <1>5 DEF SizeOf
  <2>2. k = 0
    BY <1>1, <2>1
  <2> HIDE DEF k, base
  <2> QED
    BY <1>1, <1>2, <2>1, <2>2 DEF k
<1> QED
  BY <1>3, <1>4, <1>5 DEF LoadOp, StoreOp

\* Both memories hold the same bytes after a store that both execute.
LEMMA StoreKeepsSame ==
  ASSUME Bits = 4 * ByteBits, BytesStored, SameBytes, Addresses \subseteq 0 .. DmemBytes - 1, MemNext
  PROVE  BytesStored' /\ SameBytes'
<1>1. PICK op \in StoreOp, addr \in Addresses, value \in Values : Store(op, addr, value)
  BY DEF MemNext
<1>2. addr \in 0 .. DmemBytes - 1 /\ addr \in Nat /\ value \in 0 .. Size - 1 /\ op \in LoadOp
  BY MemoryAssumption DEF LoadOp
<1>3. addr % SizeOf(op) = 0 /\ WriteLanes(op, addr, value) /\ StorePy(op, addr, value)
  BY <1>1 DEF Store
<1>4. SizeOf(op) \in Nat /\ addr + SizeOf(op) <= DmemBytes
  BY <1>2, <1>3, EndsInside
<1>5. mem \in Seq(Byte) /\ Len(mem) = DmemBytes /\ \A a \in 0 .. DmemBytes - 1 : mem[a + 1] = dmem[a]
  BY DEF SameBytes
<1>6. addr < DmemBytes
  BY <1>2, MemoryAssumption
<1>7. /\ BytesStored'
      /\ \A a \in 0 .. DmemBytes - 1 :
           dmem'[a] = IF addr <= a /\ a < addr + SizeOf(op) THEN Lane(value, a - addr) ELSE dmem[a]
  BY <1>1, <1>2, <1>3, <1>6, StoredBytes
<1>8. addr + SizeOf(op) <= Len(mem)
  BY <1>4, <1>5
<1>9. /\ mem' \in Seq(Byte) /\ Len(mem') = Len(mem)
      /\ \A a \in 0 .. Len(mem) - 1 :
           mem'[a + 1] = IF addr <= a /\ a < addr + SizeOf(op) THEN Lane(value, a - addr) ELSE mem[a + 1]
  BY <1>1, <1>2, <1>3, <1>5, <1>8, StoredByPython
<1>10. ASSUME NEW a \in 0 .. DmemBytes - 1
       PROVE  mem'[a + 1] = dmem'[a]
  <2>1. mem[a + 1] = dmem[a]
    BY <1>5
  <2>2. dmem'[a] = IF addr <= a /\ a < addr + SizeOf(op) THEN Lane(value, a - addr) ELSE dmem[a]
    BY <1>7
  <2>3. a \in 0 .. Len(mem) - 1
    BY <1>5
  <2>4. mem'[a + 1] = IF addr <= a /\ a < addr + SizeOf(op) THEN Lane(value, a - addr) ELSE mem[a + 1]
    BY <1>9, <2>3
  <2>5. CASE addr <= a /\ a < addr + SizeOf(op)
    BY <2>2, <2>4, <2>5
  <2>6. CASE ~(addr <= a /\ a < addr + SizeOf(op))
    BY <2>1, <2>2, <2>4, <2>6
  <2> QED
    BY <2>5, <2>6
<1> QED
  BY <1>5, <1>7, <1>9, <1>10 DEF SameBytes

\* Whatever the addresses, memory_model.dmem keeps holding bytes.
LEMMA StoreKeepsBytes ==
  ASSUME Bits = 4 * ByteBits, BytesStored, MemNext
  PROVE  BytesStored'
<1>1. PICK op \in StoreOp, addr \in Addresses, value \in Values : Store(op, addr, value)
  BY DEF MemNext
<1>2. addr \in Nat /\ value \in 0 .. Size - 1
  BY MemoryAssumption
<1> QED
  BY <1>1, <1>2, StoredBytes DEF Store

\* Both memories start with the same bytes, all zero.
LEMMA ZeroedMemories ==
  ASSUME MemInit
  PROVE  BytesStored /\ SameBytes
<1>1. DmemBytes \in Nat /\ 0 \in Byte
  BY MemoryAssumption, ByteType
<1>2. dmem = [a \in 0 .. DmemBytes - 1 |-> 0] /\ mem = [j \in 1 .. DmemBytes |-> 0]
  BY DEF MemInit
<1>3. mem \in Seq(Byte) /\ Len(mem) = DmemBytes
  BY <1>1, <1>2
<1>4. \A a \in 0 .. DmemBytes - 1 : mem[a + 1] = dmem[a]
  <2>1. \A a \in 0 .. DmemBytes - 1 : a + 1 \in 1 .. DmemBytes
    BY <1>1
  <2> QED
    BY <1>2, <2>1
<1> QED
  BY <1>1, <1>2, <1>3, <1>4 DEF BytesStored, SameBytes

\* What the shift by the byte offset leaves in the low byte and the low half.
LEMMA ShiftedWord ==
  ASSUME Bits = 4 * ByteBits, NEW x0 \in Byte, NEW x1 \in Byte, NEW x2 \in Byte, NEW x3 \in Byte,
         NEW w, w = FourBytes(x0, x1, x2, x3)
  PROVE  /\ (w \div 2 ^ (ByteBits * 0)) % 2 ^ ByteBits = x0
         /\ (w \div 2 ^ (ByteBits * 1)) % 2 ^ ByteBits = x1
         /\ (w \div 2 ^ (ByteBits * 2)) % 2 ^ ByteBits = x2
         /\ (w \div 2 ^ (ByteBits * 3)) % 2 ^ ByteBits = x3
         /\ (w \div 2 ^ (ByteBits * 0)) % 2 ^ (2 * ByteBits) = x0 + x1 * 2 ^ ByteBits
         /\ (w \div 2 ^ (ByteBits * 2)) % 2 ^ (2 * ByteBits) = x2 + x3 * 2 ^ ByteBits
<1> DEFINE b == 2 ^ ByteBits
<1>1. /\ b \in Nat \ {0} /\ 2 ^ (ByteBits * 0) = 1 /\ 2 ^ (ByteBits * 1) = b
      /\ 2 ^ (ByteBits * 2) = b * b /\ 2 ^ (ByteBits * 3) = b * b * b
      /\ 2 ^ (2 * ByteBits) = b * b
  BY Scales
<1>2. x0 \in 0 .. b - 1 /\ x1 \in 0 .. b - 1 /\ x2 \in 0 .. b - 1 /\ x3 \in 0 .. b - 1
  BY DEF Byte
<1>3. w = Quad(b, x0, x1, x2, x3)
  BY DEF FourBytes
<1> HIDE DEF b
<1>4. /\ w % b = x0 /\ (w \div b) % b = x1
      /\ (w \div (b * b)) % b = x2 /\ (w \div (b * b * b)) % b = x3
      /\ w % (b * b) = x0 + x1 * b
      /\ (w \div (b * b)) % (b * b) = x2 + x3 * b
  BY <1>1, <1>2, <1>3, QuadCuts
<1>5. w \div 1 = w
  <2>1. w \in 0 .. b * b * b * b - 1 /\ b * b * b * b \in Nat \ {0}
    BY <1>1, <1>2, <1>3, QuadBounds
  <2>2. w \in Nat
    BY <2>1
  <2> QED
    BY <2>2
<1> QED
  BY <1>1, <1>4, <1>5 DEF b

\* An aligned load: the unit's shift, cut and extension against the slice.
LEMMA LoadsSame ==
  ASSUME Bits = 4 * ByteBits, BytesStored, SameBytes,
         NEW op \in LoadOp, NEW addr \in 0 .. DmemBytes - 1, addr % SizeOf(op) = 0
  PROVE  LoadRtl(op, addr) = LoadPy(op, addr)
<1> DEFINE k == addr % 4
           base == addr - k
           n == SizeOf(op)
           s == SubSeq(mem, addr + 1, addr + n)
           w == ReadWord(base)
           raw == FromBytes(s)
           shift == ByteBits * k
<1>1. base \in Nat /\ k \in 0 .. 3 /\ base + k = addr /\ InRange(base) /\ DmemBytes \in Nat
  BY WordOf, MemoryAssumption
<1>2. n \in Nat /\ addr + n <= DmemBytes /\ addr \in Nat
  BY <1>1, EndsInside
<1>3. s \in Seq(Byte) /\ Len(s) = n /\ \A j \in 1 .. n : s[j] = mem[addr + j]
  <2>1. mem \in Seq(Byte) /\ addr + n \in Nat /\ addr <= addr + n /\ addr + n <= Len(mem)
    BY <1>1, <1>2 DEF SameBytes
  <2>2. (addr + n) - addr = n
    BY <1>2
  <2> HIDE DEF n
  <2>3. /\ s \in Seq(Byte) /\ Len(s) = (addr + n) - addr
        /\ \A j \in 1 .. (addr + n) - addr : s[j] = mem[addr + j]
    BY <1>2, <2>1, Slice
  <2> QED
    BY <2>2, <2>3
<1>4. LoadPy(op, addr) = IF op = "w" THEN raw ELSE Extend(raw, n * ByteBits, op \in {"bu", "hu"})
  <2>1. Cut(addr + n) = addr + n
    <3>1. Len(mem) = DmemBytes
      BY DEF SameBytes
    <3> QED
      BY <1>1, <1>2, <3>1 DEF Cut
  <2> QED
    BY <2>1 DEF LoadPy
<1>5. LoadRtl(op, addr) = LoadSv(op, addr, w)
  BY DEF LoadRtl
<1> DEFINE x(l) == dmem[base + l]
<1>6. /\ x(0) \in Byte /\ x(1) \in Byte /\ x(2) \in Byte /\ x(3) \in Byte
      /\ w = FourBytes(x(0), x(1), x(2), x(3))
  <2>1. base + 0 = base
    BY <1>1
  <2> QED
    BY <1>1, <2>1, WordRead
<1>7. \A l \in 0 .. 3 : l >= k /\ l < k + n => s[(l - k) + 1] = x(l) /\ (l - k) + 1 \in 1 .. n
  <2>1. SUFFICES ASSUME NEW l \in 0 .. 3, l >= k, l < k + n
                 PROVE  s[(l - k) + 1] = x(l) /\ (l - k) + 1 \in 1 .. n
    OBVIOUS
  <2> HIDE DEF n, k, base
  <2>2. (l - k) + 1 \in 1 .. n /\ addr + ((l - k) + 1) = (base + l) + 1
    BY <1>1, <1>2, <2>1
  <2>3. base + l \in 0 .. DmemBytes - 1
    BY <1>1 DEF InRange
  <2>4. mem[(base + l) + 1] = dmem[base + l]
    BY <2>3 DEF SameBytes
  <2> HIDE DEF s
  <2> QED
    BY <1>3, <2>2, <2>4
<1> HIDE DEF s, w, base
<1>8. /\ (w \div 2 ^ (ByteBits * 0)) % 2 ^ ByteBits = x(0)
      /\ (w \div 2 ^ (ByteBits * 1)) % 2 ^ ByteBits = x(1)
      /\ (w \div 2 ^ (ByteBits * 2)) % 2 ^ ByteBits = x(2)
      /\ (w \div 2 ^ (ByteBits * 3)) % 2 ^ ByteBits = x(3)
      /\ (w \div 2 ^ (ByteBits * 0)) % 2 ^ (2 * ByteBits) = x(0) + x(1) * 2 ^ ByteBits
      /\ (w \div 2 ^ (ByteBits * 2)) % 2 ^ (2 * ByteBits) = x(2) + x(3) * 2 ^ ByteBits
  BY <1>6, ShiftedWord
<1> HIDE DEF x
<1>9. CASE op \in {"b", "bu"}
  <2>1. n = 1 /\ n * ByteBits = ByteBits
    BY <1>9, WidthAssumption DEF SizeOf
  <2>2. raw = x(k)
    <3>1. s[1] = x(k) /\ Len(s) = 1
      <4>1. (k - k) + 1 = 1 /\ k >= k /\ k < k + n
        BY <1>1, <2>1
      <4> QED
        BY <1>1, <1>3, <1>7, <2>1, <4>1
    <3>2. s[1] \in Byte
      BY <1>1, <1>6, <3>1
    <3> QED
      BY <3>1, <3>2, OneByte
  <2>3. (w \div 2 ^ shift) % 2 ^ ByteBits = x(k)
    <3>1. k = 0 \/ k = 1 \/ k = 2 \/ k = 3
      BY <1>1
    <3> HIDE DEF k
    <3> QED
      BY <1>8, <3>1
  <2>4. LoadSv(op, addr, w) = Extend((w \div 2 ^ shift) % 2 ^ ByteBits, ByteBits, op \in {"bu", "hu"})
    <3> DEFINE v == (w \div 2 ^ shift) % 2 ^ ByteBits
               e == Extend(v, ByteBits, op \in {"bu", "hu"})
    <3>1. ASSUME op = "b" PROVE LoadSv(op, addr, w) = e
      <4>1. LoadSv(op, addr, w) = IF v >= 2 ^ (ByteBits - 1) THEN v + Size - 2 ^ ByteBits ELSE v
        BY <3>1 DEF LoadSv, Extend
      <4>2. ~(op \in {"bu", "hu"})
        BY <3>1
      <4> HIDE DEF v
      <4>3. e = IF ~(op \in {"bu", "hu"}) /\ v >= 2 ^ (ByteBits - 1) THEN v + Size - 2 ^ ByteBits ELSE v
        BY Zenon DEF Extend
      <4> HIDE DEF e
      <4> QED
        BY <4>1, <4>2, <4>3
    <3>2. ASSUME op = "bu" PROVE LoadSv(op, addr, w) = e
      <4>1. LoadSv(op, addr, w) = v
        BY <3>2 DEF LoadSv, Extend
      <4>2. op \in {"bu", "hu"}
        BY <3>2
      <4> HIDE DEF v
      <4>3. e = IF ~(op \in {"bu", "hu"}) /\ v >= 2 ^ (ByteBits - 1) THEN v + Size - 2 ^ ByteBits ELSE v
        BY Zenon DEF Extend
      <4> HIDE DEF e
      <4> QED
        BY <4>1, <4>2, <4>3
    <3> QED
      BY <1>9, <3>1, <3>2
  <2> QED
    BY <1>4, <1>5, <1>9, <2>1, <2>2, <2>3, <2>4
<1>10. CASE op \in {"h", "hu"}
  <2>1. n = 2 /\ n * ByteBits = 2 * ByteBits
    BY <1>10 DEF SizeOf
  <2>2. k = 0 \/ k = 2
    BY <1>1, <2>1
  <2>3. raw = x(k) + x(k + 1) * 2 ^ ByteBits
    <3>1. s[1] = x(k) /\ s[2] = x(k + 1) /\ Len(s) = 2
      <4>1. /\ (k - k) + 1 = 1 /\ k >= k /\ k < k + n /\ k \in 0 .. 3
            /\ ((k + 1) - k) + 1 = 2 /\ k + 1 >= k /\ k + 1 < k + n /\ k + 1 \in 0 .. 3
        BY <1>1, <2>1, <2>2
      <4> HIDE DEF k, n
      <4> QED
        BY <1>3, <1>7, <2>1, <4>1
    <3>2. s[1] \in Byte /\ s[2] \in Byte
      <4>1. k = 0 => k + 1 = 1
        OBVIOUS
      <4>2. k = 2 => k + 1 = 3
        OBVIOUS
      <4> HIDE DEF k
      <4> QED
        BY <1>6, <2>2, <3>1, <4>1, <4>2
    <3> QED
      BY <3>1, <3>2, TwoBytes
  <2>4. (w \div 2 ^ shift) % 2 ^ (2 * ByteBits) = x(k) + x(k + 1) * 2 ^ ByteBits
    <3>1. k = 0 => k + 1 = 1
      OBVIOUS
    <3>2. k = 2 => k + 1 = 3
      OBVIOUS
    <3> HIDE DEF k
    <3> QED
      BY <1>8, <2>2, <3>1, <3>2
  <2>5. LoadSv(op, addr, w) = Extend((w \div 2 ^ shift) % 2 ^ (2 * ByteBits), 2 * ByteBits, op \in {"bu", "hu"})
    <3> DEFINE v == (w \div 2 ^ shift) % 2 ^ (2 * ByteBits)
               e == Extend(v, 2 * ByteBits, op \in {"bu", "hu"})
    <3>1. ASSUME op = "h" PROVE LoadSv(op, addr, w) = e
      <4>1. LoadSv(op, addr, w) = IF v >= 2 ^ ((2 * ByteBits) - 1) THEN v + Size - 2 ^ (2 * ByteBits) ELSE v
        BY <3>1 DEF LoadSv, Extend
      <4>2. ~(op \in {"bu", "hu"})
        BY <3>1
      <4> HIDE DEF v
      <4>3. e = IF ~(op \in {"bu", "hu"}) /\ v >= 2 ^ ((2 * ByteBits) - 1)
                THEN v + Size - 2 ^ (2 * ByteBits) ELSE v
        BY Zenon DEF Extend
      <4> HIDE DEF e
      <4> QED
        BY <4>1, <4>2, <4>3
    <3>2. ASSUME op = "hu" PROVE LoadSv(op, addr, w) = e
      <4>1. LoadSv(op, addr, w) = v
        BY <3>2 DEF LoadSv, Extend
      <4>2. op \in {"bu", "hu"}
        BY <3>2
      <4> HIDE DEF v
      <4>3. e = IF ~(op \in {"bu", "hu"}) /\ v >= 2 ^ ((2 * ByteBits) - 1)
                THEN v + Size - 2 ^ (2 * ByteBits) ELSE v
        BY Zenon DEF Extend
      <4> HIDE DEF e
      <4> QED
        BY <4>1, <4>2, <4>3
    <3> QED
      BY <1>10, <3>1, <3>2
  <2> QED
    BY <1>4, <1>5, <1>10, <2>1, <2>3, <2>4, <2>5
<1>11. CASE op = "w"
  <2>1. n = 4
    BY <1>11 DEF SizeOf
  <2>2. k = 0
    BY <1>1, <2>1
  <2>3. Len(s) = 4 /\ s[1] = x(0) /\ s[2] = x(1) /\ s[3] = x(2) /\ s[4] = x(3)
    <3>1. /\ (0 - 0) + 1 = 1 /\ (1 - 0) + 1 = 2 /\ (2 - 0) + 1 = 3 /\ (3 - 0) + 1 = 4
          /\ 0 < 0 + 4 /\ 1 < 0 + 4 /\ 2 < 0 + 4 /\ 3 < 0 + 4
      OBVIOUS
    <3> HIDE DEF k, n
    <3>2. \A l \in 0 .. 3 : s[(l - 0) + 1] = x(l)
      BY <1>7, <2>1, <2>2
    <3> QED
      BY <1>3, <2>1, <3>1, <3>2
  <2>4. raw = FourBytes(x(0), x(1), x(2), x(3))
    BY <1>6, <2>3, WholeWord
  <2>5. LoadSv(op, addr, w) = w
    BY <1>11 DEF LoadSv
  <2> QED
    BY <1>4, <1>5, <1>6, <1>11, <2>4, <2>5
<1> QED
  BY <1>9, <1>10, <1>11 DEF LoadOp, StoreOp

\* The word after the enabled lanes are written, one byte after the other.
LEMMA MergedWord ==
  ASSUME Bits = 4 * ByteBits, NEW op \in StoreOp, NEW addr \in Nat, NEW value \in 0 .. Size - 1,
         NEW x0 \in Byte, NEW x1 \in Byte, NEW x2 \in Byte, NEW x3 \in Byte,
         NEW old, old = FourBytes(x0, x1, x2, x3)
  PROVE  LET new(l, x) == IF l \in StoreLanes(op, addr) THEN Lane(StoreData(op, addr, value), l) ELSE x
         IN (/\ new(0, x0) \in Byte /\ new(1, x1) \in Byte /\ new(2, x2) \in Byte /\ new(3, x3) \in Byte)
            => StoreSv(op, addr, old, value) = FourBytes(new(0, x0), new(1, x1), new(2, x2), new(3, x3))
<1> DEFINE b == 2 ^ ByteBits
           data == StoreData(op, addr, value)
           lanes == StoreLanes(op, addr)
           part(l) == Lane(IF l \in lanes THEN data ELSE old, l)
           new(l, x) == IF l \in lanes THEN Lane(data, l) ELSE x
<1>1. part(0) = new(0, x0) /\ part(1) = new(1, x1) /\ part(2) = new(2, x2) /\ part(3) = new(3, x3)
  <2>1. Lane(old, 0) = x0 /\ Lane(old, 1) = x1 /\ Lane(old, 2) = x2 /\ Lane(old, 3) = x3
    BY LanesOf
  <2> HIDE DEF data, lanes
  <2>2. \A l \in 0 .. 3 : part(l) = IF l \in lanes THEN Lane(data, l) ELSE Lane(old, l)
    OBVIOUS
  <2> HIDE DEF part
  <2> QED
    BY <2>1, <2>2
<1>2. StoreSv(op, addr, old, value)
        = part(0) * 2 ^ (ByteBits * 0) + part(1) * 2 ^ (ByteBits * 1)
            + part(2) * 2 ^ (ByteBits * 2) + part(3) * 2 ^ (ByteBits * 3)
  BY DEF StoreSv
<1> HIDE DEF part, new
<1>3. /\ 2 ^ (ByteBits * 0) = 1 /\ 2 ^ (ByteBits * 1) = b
      /\ 2 ^ (ByteBits * 2) = b * b /\ 2 ^ (ByteBits * 3) = b * b * b
  BY Scales
<1>4. ASSUME new(0, x0) \in Byte, new(1, x1) \in Byte, new(2, x2) \in Byte, new(3, x3) \in Byte
      PROVE  StoreSv(op, addr, old, value) = FourBytes(new(0, x0), new(1, x1), new(2, x2), new(3, x3))
  <2>1. new(0, x0) \in Nat
    BY <1>4, ByteType
  <2>2. new(0, x0) * 1 = new(0, x0)
    BY <2>1
  <2> QED
    BY <1>1, <1>2, <1>3, <2>2 DEF FourBytes, Quad
<1> QED
  BY <1>4 DEF new

\* A store merges its lanes into the word it addresses and no other.
LEMMA StoreMerges ==
  ASSUME Bits = 4 * ByteBits, BytesStored, NEW op \in StoreOp, NEW addr \in Nat,
         NEW value \in 0 .. Size - 1, addr % SizeOf(op) = 0, WriteLanes(op, addr, value),
         NEW base \in 0 .. DmemBytes - 1, base % 4 = 0
  PROVE  ReadWord(base)' = IF base = addr - (addr % 4)
                           THEN StoreSv(op, addr, ReadWord(base), value) ELSE ReadWord(base)
<1> DEFINE home == addr - (addr % 4)
           data == StoreData(op, addr, value)
           lanes == StoreLanes(op, addr)
<1>1. base \in Nat /\ InRange(base) /\ DmemBytes \in Nat /\ base + 3 < DmemBytes
  <2>1. base - (base % 4) = base
    OBVIOUS
  <2> QED
    BY <2>1, WordOf, MemoryAssumption DEF InRange
<1>2. dmem' = [a \in 0 .. DmemBytes - 1 |->
                 IF InRange(home) /\ a - home \in lanes THEN Lane(data, a - home) ELSE dmem[a]]
  BY DEF WriteLanes, BytesStored
<1>3. dmem' \in [0 .. DmemBytes - 1 -> Byte]
  BY StoredBytes DEF BytesStored
<1>4. ReadWord(base)' = FromBytes([l \in 1 .. 4 |-> dmem'[base + l - 1]])
  BY <1>1 DEF ReadWord, InRange
<1>5. /\ dmem'[base] \in Byte /\ dmem'[base + 1] \in Byte /\ dmem'[base + 2] \in Byte /\ dmem'[base + 3] \in Byte
      /\ ReadWord(base)' = FourBytes(dmem'[base], dmem'[base + 1], dmem'[base + 2], dmem'[base + 3])
  <2> DEFINE d == dmem'
  <2>1. d \in [0 .. DmemBytes - 1 -> Byte] /\ ReadWord(base)' = FromBytes([l \in 1 .. 4 |-> d[base + l - 1]])
    BY <1>3, <1>4
  <2> HIDE DEF d
  <2>2. /\ d[base] \in Byte /\ d[base + 1] \in Byte /\ d[base + 2] \in Byte /\ d[base + 3] \in Byte
        /\ FromBytes([l \in 1 .. 4 |-> d[base + l - 1]])
             = FourBytes(d[base], d[base + 1], d[base + 2], d[base + 3])
    BY <1>1, <2>1, WordIn
  <2> QED
    BY <2>1, <2>2 DEF d
<1>6. /\ dmem[base] \in Byte /\ dmem[base + 1] \in Byte /\ dmem[base + 2] \in Byte /\ dmem[base + 3] \in Byte
      /\ ReadWord(base) = FourBytes(dmem[base], dmem[base + 1], dmem[base + 2], dmem[base + 3])
  BY <1>1, WordRead
<1>7. /\ base + 1 \in 0 .. DmemBytes - 1 /\ base + 2 \in 0 .. DmemBytes - 1 /\ base + 3 \in 0 .. DmemBytes - 1
  BY <1>1
<1>8. CASE base = home
  <2>1. base - home = 0 /\ (base + 1) - home = 1 /\ (base + 2) - home = 2 /\ (base + 3) - home = 3
    BY <1>1, <1>8
  <2> HIDE DEF home, data, lanes
  <2>2. InRange(home)
    BY <1>1, <1>8
  <2>3. /\ dmem'[base] = IF 0 \in lanes THEN Lane(data, 0) ELSE dmem[base]
        /\ dmem'[base + 1] = IF 1 \in lanes THEN Lane(data, 1) ELSE dmem[base + 1]
        /\ dmem'[base + 2] = IF 2 \in lanes THEN Lane(data, 2) ELSE dmem[base + 2]
        /\ dmem'[base + 3] = IF 3 \in lanes THEN Lane(data, 3) ELSE dmem[base + 3]
    BY <1>2, <1>7, <2>1, <2>2
  <2>4. StoreSv(op, addr, ReadWord(base), value)
          = FourBytes(dmem'[base], dmem'[base + 1], dmem'[base + 2], dmem'[base + 3])
    <3> DEFINE old == ReadWord(base)
    <3>1. old = FourBytes(dmem[base], dmem[base + 1], dmem[base + 2], dmem[base + 3])
      BY <1>6
    <3> HIDE DEF old
    <3>2. LET new(l, x) == IF l \in StoreLanes(op, addr) THEN Lane(StoreData(op, addr, value), l) ELSE x
          IN (/\ new(0, dmem[base]) \in Byte /\ new(1, dmem[base + 1]) \in Byte
              /\ new(2, dmem[base + 2]) \in Byte /\ new(3, dmem[base + 3]) \in Byte)
             => StoreSv(op, addr, old, value)
                  = FourBytes(new(0, dmem[base]), new(1, dmem[base + 1]),
                              new(2, dmem[base + 2]), new(3, dmem[base + 3]))
      BY <1>6, <3>1, MergedWord
    <3> QED
      BY <1>5, <2>3, <3>2 DEF data, lanes, old
  <2> QED
    BY <1>5, <1>8, <2>4 DEF home
<1>9. CASE base # home
  <2>1. lanes \subseteq 0 .. 3
    BY LanesWithin
  <2>2. \A l \in 0 .. 3 : (base + l) - home \notin 0 .. 3
    <3>1. addr \div 4 \in Nat /\ home = 4 * (addr \div 4)
      OBVIOUS
    <3>2. base \div 4 \in Nat /\ base = 4 * (base \div 4)
      BY <1>1
    <3>3. addr \div 4 # base \div 4
      BY <1>9, <3>1, <3>2
    <3> DEFINE p == addr \div 4
               q == base \div 4
    <3> HIDE DEF p, q, home
    <3>4. p \in Nat /\ q \in Nat /\ home = 4 * p /\ base = 4 * q /\ p # q
      BY <3>1, <3>2, <3>3 DEF p, q
    <3> QED
      BY <3>4
  <2> HIDE DEF home, data, lanes
  <2>3. \A l \in 0 .. 3 : base + l \in 0 .. DmemBytes - 1
    BY <1>1
  <2>4. \A l \in 0 .. 3 : dmem'[base + l] = dmem[base + l]
    BY <1>2, <2>1, <2>2, <2>3
  <2>5. /\ dmem'[base] = dmem[base] /\ dmem'[base + 1] = dmem[base + 1]
        /\ dmem'[base + 2] = dmem[base + 2] /\ dmem'[base + 3] = dmem[base + 3]
    <3>1. base + 0 = base
      BY <1>1
    <3>2. 0 \in 0 .. 3 /\ 1 \in 0 .. 3 /\ 2 \in 0 .. 3 /\ 3 \in 0 .. 3
      OBVIOUS
    <3> QED
      BY <2>4, <3>1, <3>2
  <2> QED
    BY <1>5, <1>6, <1>9, <2>5 DEF home
<1> QED
  BY <1>8, <1>9

-----------------------------------------------------------------------------
(* The two memories of a regression run, with words of exactly four bytes. *)

\* Of any two memories of the same size, with every store inside them: the
\* bytes of memory_model.sv and those of the Python model stay equal.
THEOREM MemoriesSame ==
  ASSUME Bits = 4 * ByteBits, Addresses \subseteq 0 .. DmemBytes - 1
  PROVE  MemSpec => [](BytesStored /\ SameBytes)
<1>1. MemInit => BytesStored /\ SameBytes
  BY ZeroedMemories
<1>2. BytesStored /\ SameBytes /\ [MemNext]_memVars => BytesStored' /\ SameBytes'
  <2>1. CASE MemNext
    BY <2>1, StoreKeepsSame
  <2>2. CASE UNCHANGED memVars
    BY <2>2 DEF memVars, BytesStored, SameBytes
  <2> QED
    BY <2>1, <2>2
<1> QED
  BY <1>1, <1>2, PTL DEF MemSpec

\* Every aligned load returns the same from both.
THEOREM LoadsAgreeAlways ==
  ASSUME Bits = 4 * ByteBits, Addresses \subseteq 0 .. DmemBytes - 1
  PROVE  MemSpec => []LoadsAgree
<1>1. BytesStored /\ SameBytes => LoadsAgree
  BY LoadsSame DEF LoadsAgree
<1> QED
  BY <1>1, MemoriesSame, PTL

\* Every store, at whatever address, merges its lanes into one word of
\* memory_model.sv and leaves the others alone.
THEOREM StoresMerge ==
  ASSUME Bits = 4 * ByteBits
  PROVE  MemSpec => StoresAreWordMerges
<1> DEFINE Merged(op, addr, value) ==
             /\ addr % SizeOf(op) = 0
             /\ \A base \in {i \in DOMAIN dmem : i % 4 = 0} :
                  ReadWord(base)' =
                    IF base = addr - (addr % 4) THEN StoreSv(op, addr, ReadWord(base), value)
                                                ELSE ReadWord(base)
           Merge == \E op \in StoreOp, addr \in Addresses, value \in Values : Merged(op, addr, value)
<1>1. MemInit => BytesStored
  BY ZeroedMemories
<1>2. BytesStored /\ [MemNext]_memVars => BytesStored'
  <2>1. CASE MemNext
    BY <2>1, StoreKeepsBytes
  <2>2. CASE UNCHANGED memVars
    BY <2>2 DEF memVars, BytesStored
  <2> QED
    BY <2>1, <2>2
<1>3. BytesStored /\ [MemNext]_memVars => [Merge]_memVars
  <2>1. SUFFICES ASSUME BytesStored, MemNext PROVE Merge
    OBVIOUS
  <2>2. PICK op \in StoreOp, addr \in Addresses, value \in Values : Store(op, addr, value)
    BY <2>1 DEF MemNext
  <2>3. addr \in Nat /\ value \in 0 .. Size - 1
    BY MemoryAssumption
  <2>4. addr % SizeOf(op) = 0 /\ WriteLanes(op, addr, value)
    BY <2>2 DEF Store
  <2>5. DOMAIN dmem = 0 .. DmemBytes - 1
    BY <2>1 DEF BytesStored
  <2>6. Merged(op, addr, value)
    BY <2>1, <2>3, <2>4, <2>5, StoreMerges
  <2> HIDE DEF Merged
  <2> QED
    BY <2>6
<1>4. [][Merge]_memVars => StoresAreWordMerges
  BY DEF StoresAreWordMerges
<1> HIDE DEF Merge
<1> QED
  BY <1>1, <1>2, <1>3, <1>4, PTL DEF MemSpec

=============================================================================
