------------------------- MODULE ArithmeticProofs --------------------------
(***************************************************************************)
(* What the proofs about loops, digits and bits need of the numbers:       *)
(* induction, stated about sets instead of predicates; the existence of    *)
(* what a loop of n turns computes; powers of two, whose doubling is read  *)
(* off the theorem that a set of n elements has 2^n subsets; and the       *)
(* digits of a number.                                                     *)
(***************************************************************************)
EXTENDS Integers, FiniteSetTheorems, WellFoundedInduction, TLAPS

-----------------------------------------------------------------------------
(* Induction over a set of numbers. *)

Less == {p \in Nat \X Nat : p[1] < p[2]}

LEMMA LessIsWellFounded == IsWellFoundedOn(Less, Nat)
<1>1. Less = OpToRel(<, Nat)
  BY DEF Less, OpToRel
<1> QED
  BY <1>1, NatLessThanWellFounded

LEMMA SetInduction ==
  ASSUME NEW S, 0 \in S, \A n \in Nat : n \in S => n + 1 \in S
  PROVE  Nat \subseteq S
<1> DEFINE T == {n \in Nat : n \notin S}
<1>1. SUFFICES ASSUME T # {} PROVE FALSE
  OBVIOUS
<1>2. PICK x \in T : \A y \in T : ~(<<y, x>> \in Less)
  <2>1. T \subseteq Nat
    OBVIOUS
  <2> HIDE DEF T
  <2> QED
    BY <1>1, <2>1, LessIsWellFounded, WFMin
<1>3. x # 0 /\ x \in Nat
  BY <1>2
<1>4. x - 1 \in Nat /\ x - 1 < x
  BY <1>3
<1>5. \A a, b \in Nat : a < b => <<a, b>> \in Less
  BY DEF Less
<1>6. x - 1 \notin T
  BY <1>2, <1>3, <1>4, <1>5
<1>7. x - 1 \in S /\ x - 1 + 1 = x
  BY <1>3, <1>4, <1>6
<1> QED
  BY <1>2, <1>4, <1>7

-----------------------------------------------------------------------------
(* What n turns of a loop leave. *)

Orbits(S, x, F, n) ==
  {f \in [0 .. n -> S] : f[0] = x /\ \A k \in 1 .. n : f[k] = F[f[k - 1]]}

LEMMA Iterated ==
  ASSUME NEW S, NEW x \in S, NEW F \in [S -> S], NEW m \in Nat
  PROVE  Orbits(S, x, F, m) # {}
<1> DEFINE Q(n, f) == f[0] = x /\ \A k \in 1 .. n : f[k] = F[f[k - 1]]
           T == {n \in Nat : \E f \in [0 .. n -> S] : Q(n, f)}
<1>1. 0 \in T
  <2>1. [k \in 0 .. 0 |-> x] \in [0 .. 0 -> S] /\ Q(0, [k \in 0 .. 0 |-> x])
    OBVIOUS
  <2> QED
    BY <2>1
<1>2. ASSUME NEW n \in Nat, n \in T
      PROVE  n + 1 \in T
  <2>1. PICK f \in [0 .. n -> S] : Q(n, f)
    BY <1>2
  <2> DEFINE g == [k \in 0 .. n + 1 |-> IF k = n + 1 THEN F[f[n]] ELSE f[k]]
  <2>2. g \in [0 .. n + 1 -> S]
    OBVIOUS
  <2>3. g[0] = x
    BY <2>1
  <2>4. ASSUME NEW k \in 1 .. n + 1
        PROVE  g[k] = F[g[k - 1]]
    <3>1. CASE k = n + 1
      <4>1. g[k] = F[f[n]] /\ k - 1 = n /\ g[n] = f[n]
        BY <3>1
      <4> QED
        BY <4>1
    <3>2. CASE k # n + 1
      <4>1. k \in 1 .. n /\ k - 1 \in 0 .. n /\ k - 1 # n + 1
        BY <3>2
      <4>2. g[k] = f[k] /\ g[k - 1] = f[k - 1]
        BY <4>1
      <4>3. f[k] = F[f[k - 1]]
        BY <2>1, <4>1
      <4> QED
        BY <4>2, <4>3
    <3> QED
      BY <3>1, <3>2
  <2> HIDE DEF g
  <2>5. Q(n + 1, g)
    BY <2>3, <2>4
  <2> QED
    BY <2>2, <2>5
<1>3. Nat \subseteq T
  <2> HIDE DEF T
  <2> QED
    BY <1>1, <1>2, SetInduction
<1> QED
  BY <1>3 DEF Orbits

-----------------------------------------------------------------------------
(* Powers of two, as numbers of subsets. *)

LEMMA PowType == \A n \in Nat : 2 ^ n \in Nat /\ Cardinality(SUBSET (1 .. n)) = 2 ^ n
<1> SUFFICES ASSUME NEW n \in Nat
             PROVE  2 ^ n \in Nat /\ Cardinality(SUBSET (1 .. n)) = 2 ^ n
  OBVIOUS
<1>1. IsFiniteSet(1 .. n) /\ Cardinality(1 .. n) = n
  BY FS_Interval
<1>2. IsFiniteSet(SUBSET (1 .. n)) /\ Cardinality(SUBSET (1 .. n)) = 2 ^ n
  BY <1>1, FS_SUBSET
<1> QED
  BY <1>2, FS_CardinalityType

LEMMA PowStep == 2 ^ 0 = 1 /\ \A n \in Nat : 2 ^ (n + 1) = 2 * 2 ^ n
<1>1. 2 ^ 0 = 1
  OBVIOUS
<1>2. ASSUME NEW n \in Nat
      PROVE  2 ^ (n + 1) = 2 * 2 ^ n
  <2> DEFINE A == SUBSET (1 .. n)
             B == {X \cup {n + 1} : X \in A}
             f == [X \in A |-> X \cup {n + 1}]
  <2>1. IsFiniteSet(1 .. n) /\ n + 1 \notin 1 .. n /\ 1 .. n + 1 = (1 .. n) \cup {n + 1}
    BY FS_Interval
  <2>2. IsFiniteSet(A)
    BY <2>1, FS_SUBSET
  <2>3. f \in Bijection(A, B)
    <3>1. f \in [A -> B]
      OBVIOUS
    <3>2. \A X, Y \in A : f[X] = f[Y] => X = Y
      <4> SUFFICES ASSUME NEW X \in A, NEW Y \in A, X \cup {n + 1} = Y \cup {n + 1} PROVE X = Y
        OBVIOUS
      <4>1. n + 1 \notin X /\ n + 1 \notin Y
        BY <2>1
      <4> QED
        BY <4>1
    <3>3. \A Z \in B : \E X \in A : f[X] = Z
      <4> SUFFICES ASSUME NEW Z \in B PROVE \E X \in A : f[X] = Z
        OBVIOUS
      <4>1. PICK X \in A : Z = X \cup {n + 1}
        OBVIOUS
      <4> QED
        BY <4>1
    <3> HIDE DEF A, B, f
    <3> QED
      BY <3>1, <3>2, <3>3 DEF Bijection, Injection, Surjection, IsInjective
  <2>4. IsFiniteSet(B) /\ Cardinality(B) = Cardinality(A)
    <3> HIDE DEF A, B, f
    <3> QED
      BY <2>2, <2>3, FS_Bijection DEF ExistsBijection
  <2>5. A \cap B = {}
    BY <2>1
  <2>6. SUBSET (1 .. n + 1) = A \cup B
    <3>1. ASSUME NEW X \in SUBSET (1 .. n + 1)
          PROVE  X \in A \cup B
      <4>1. CASE n + 1 \in X
        <5>1. X \ {n + 1} \in A /\ X = (X \ {n + 1}) \cup {n + 1}
          BY <2>1, <4>1
        <5> QED
          BY <5>1
      <4>2. CASE n + 1 \notin X
        BY <2>1, <4>2
      <4> QED
        BY <4>1, <4>2
    <3>2. A \cup B \subseteq SUBSET (1 .. n + 1)
      BY <2>1
    <3> QED
      BY <3>1, <3>2
  <2>7. Cardinality(A \cup B) = Cardinality(A) + Cardinality(B) - Cardinality(A \cap B)
    <3> HIDE DEF A, B
    <3> QED
      BY <2>2, <2>4, FS_Union
  <2>8. Cardinality(A) = 2 ^ n /\ Cardinality(A \cup B) = 2 ^ (n + 1) /\ 2 ^ n \in Nat
    <3>1. n + 1 \in Nat
      OBVIOUS
    <3>2. 2 ^ (n + 1) \in Nat /\ Cardinality(SUBSET (1 .. n + 1)) = 2 ^ (n + 1)
      BY <3>1, PowType
    <3>3. 2 ^ n \in Nat /\ Cardinality(SUBSET (1 .. n)) = 2 ^ n
      BY PowType
    <3> QED
      BY <3>2, <3>3, <2>6
  <2>9. Cardinality(A \cap B) = 0
    BY <2>5, FS_EmptySet
  <2> HIDE DEF A, B
  <2> QED
    BY <2>4, <2>7, <2>8, <2>9
<1> QED
  BY <1>1, <1>2

LEMMA PowPositive == \A n \in Nat : 2 ^ n \in Nat \ {0}
<1> DEFINE S == {n \in Nat : 2 ^ n # 0}
<1>1. 0 \in S
  BY PowStep
<1>2. ASSUME NEW n \in Nat, n \in S
      PROVE  n + 1 \in S
  <2>1. 2 ^ (n + 1) = 2 * 2 ^ n /\ 2 ^ n \in Nat /\ 2 ^ n # 0
    BY <1>2, PowStep, PowType
  <2>2. 2 * 2 ^ n # 0
    BY <2>1
  <2> QED
    BY <2>1, <2>2
<1>3. Nat \subseteq S
  <2> HIDE DEF S
  <2> QED
    BY <1>1, <1>2, SetInduction
<1> QED
  BY <1>3, PowType

\* 2^(j+k) = 2^j * 2^k
LEMMA PowSum == \A j, k \in Nat : 2 ^ (j + k) = 2 ^ j * 2 ^ k
<1> SUFFICES ASSUME NEW j \in Nat PROVE \A k \in Nat : 2 ^ (j + k) = 2 ^ j * 2 ^ k
  OBVIOUS
<1> DEFINE S == {k \in Nat : 2 ^ (j + k) = 2 ^ j * 2 ^ k}
<1>0. 2 ^ j \in Nat
  BY PowType
<1>1. 0 \in S
  <2>1. j + 0 = j /\ 2 ^ 0 = 1
    BY PowStep
  <2>2. 2 ^ j * 1 = 2 ^ j
    BY <1>0
  <2> QED
    BY <2>1, <2>2
<1>2. ASSUME NEW k \in Nat, k \in S
      PROVE  k + 1 \in S
  <2>1. j + (k + 1) = (j + k) + 1 /\ j + k \in Nat
    OBVIOUS
  <2>2. 2 ^ ((j + k) + 1) = 2 * 2 ^ (j + k)
    BY <2>1, PowStep
  <2>3. 2 ^ (k + 1) = 2 * 2 ^ k /\ 2 ^ k \in Nat
    BY PowStep, PowType
  <2>4. \A x, y \in Nat : 2 * (x * y) = x * (2 * y)
    OBVIOUS
  <2>5. 2 ^ (j + k) = 2 ^ j * 2 ^ k
    BY <1>2
  <2> QED
    BY <1>0, <2>1, <2>2, <2>3, <2>4, <2>5
<1>3. Nat \subseteq S
  <2> HIDE DEF S
  <2> QED
    BY <1>1, <1>2, SetInduction
<1> QED
  BY <1>3

-----------------------------------------------------------------------------
(* Arithmetic of digits. *)

LEMMA Times == \A x, y \in Nat : x * y \in Nat
OBVIOUS

LEMMA TimesLeast ==
  ASSUME NEW x \in Nat, NEW y \in Nat, NEW p \in Nat, x < y
  PROVE  x * p + p <= y * p
<1>1. PICK z \in Nat : y = x + 1 + z
  <2>1. y - x - 1 \in Nat /\ y = x + 1 + (y - x - 1)
    OBVIOUS
  <2> QED
    BY <2>1
<1>2. (x + 1 + z) * p = x * p + p + z * p
  OBVIOUS
<1>3. z * p \in Nat /\ x * p \in Nat
  BY Times
<1> QED
  BY <1>1, <1>2, <1>3

LEMMA Digits ==
  ASSUME NEW q \in Nat, NEW p \in Nat \ {0}, NEW r \in Nat, r < p
  PROVE  (q * p + r) % p = r /\ (q * p + r) \div p = q
OBVIOUS

LEMMA DivMod ==
  ASSUME NEW x \in Nat, NEW p \in Nat \ {0}
  PROVE  \E q \in Nat, r \in 0 .. p - 1 :
           x = q * p + r /\ x \div p = q /\ x % p = r
<1> DEFINE q == x \div p
           r == x % p
<1>1. q \in Nat /\ r \in 0 .. p - 1
  OBVIOUS
<1>2. r = x - p * q
  OBVIOUS
<1>3. x \div p = q /\ x % p = r
  OBVIOUS
<1> HIDE DEF q, r
<1>4. p * q = q * p /\ q * p \in Nat
  BY <1>1
<1>5. x = q * p + r
  BY <1>1, <1>2, <1>4
<1> QED
  BY <1>1, <1>3, <1>5

\* A number below m * p has its upper digit below m.
LEMMA UpperDigit ==
  ASSUME NEW x \in Nat, NEW p \in Nat \ {0}, NEW m \in Nat, x < m * p
  PROVE  x \div p < m
<1>1. PICK q \in Nat, r \in 0 .. p - 1 : x = q * p + r /\ x \div p = q
  BY DivMod
<1>2. CASE m <= q
  <2>1. PICK z \in Nat : q = m + z
    <3>1. q - m \in Nat /\ q = m + (q - m)
      BY <1>1, <1>2
    <3> QED
      BY <3>1
  <2>2. (m + z) * p = m * p + z * p
    OBVIOUS
  <2>3. z * p \in Nat /\ m * p \in Nat
    BY Times
  <2> QED
    BY <1>1, <2>1, <2>2, <2>3
<1> QED
  BY <1>1, <1>2

=============================================================================
