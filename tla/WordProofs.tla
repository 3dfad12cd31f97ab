----------------------------- MODULE WordProofs -----------------------------
(***************************************************************************)
(* The instruction words and their readers, proved for every word of 32    *)
(* bits, every register and every constant: what riscv_encode.py writes,   *)
(* decoder.sv and rv32im_model.py read back; decoder, reference model,     *)
(* timing model and coverage names trap on the same words, and the three   *)
(* statements of the pairing rules agree.  The random programs made of     *)
(* those words keep their base register and run straight to their EBREAK.  *)
(*                                                                         *)
(* A word is a set of bit numbers.  The first part relates such sets to    *)
(* the numbers the fields stand for, the second reads back each format of  *)
(* the encoders, the third decides what each reader makes of a word.       *)
(***************************************************************************)
EXTENDS WordReadings, RandomProgram, ArithmeticProofs

-----------------------------------------------------------------------------
(* Numbers and their bits. *)

LEMMA Powers ==
  /\ 2 ^ 0 = 1 /\ 2 ^ 1 = 2 /\ 2 ^ 2 = 4 /\ 2 ^ 3 = 8 /\ 2 ^ 4 = 16 /\ 2 ^ 5 = 32
  /\ 2 ^ 6 = 64 /\ 2 ^ 7 = 128 /\ 2 ^ 8 = 256 /\ 2 ^ 9 = 512 /\ 2 ^ 10 = 1024 /\ 2 ^ 11 = 2048
<1> DEFINE p(n) == 2 ^ n
<1>1. p(0) = 1 /\ \A n \in Nat : p(n + 1) = 2 * p(n)
  BY PowStep
<1> HIDE DEF p
<1>2. p(1) = 2 /\ p(2) = 4 /\ p(3) = 8 /\ p(4) = 16
  <2>1. p(0 + 1) = 2 * p(0) /\ p(1 + 1) = 2 * p(1) /\ p(2 + 1) = 2 * p(2) /\ p(3 + 1) = 2 * p(3)
    BY <1>1
  <2> QED
    BY <1>1, <2>1
<1>3. p(5) = 32 /\ p(6) = 64 /\ p(7) = 128 /\ p(8) = 256
  <2>1. p(4 + 1) = 2 * p(4) /\ p(5 + 1) = 2 * p(5) /\ p(6 + 1) = 2 * p(6) /\ p(7 + 1) = 2 * p(7)
    BY <1>1
  <2> QED
    BY <1>2, <2>1
<1>4. p(9) = 512 /\ p(10) = 1024 /\ p(11) = 2048
  <2>1. p(8 + 1) = 2 * p(8) /\ p(9 + 1) = 2 * p(9) /\ p(10 + 1) = 2 * p(10)
    BY <1>1
  <2> QED
    BY <1>3, <2>1
<1> QED
  BY <1>1, <1>2, <1>3, <1>4 DEF p

\* Which bits a number has.
LEMMA BitsAre ==
  ASSUME NEW n \in Nat
  PROVE  /\ BitsOf(n) \subseteq 0 .. 11
         /\ 0 \in BitsOf(n) <=> n % 2 = 1
         /\ 1 \in BitsOf(n) <=> (n \div 2) % 2 = 1
         /\ 2 \in BitsOf(n) <=> (n \div 4) % 2 = 1
         /\ 3 \in BitsOf(n) <=> (n \div 8) % 2 = 1
         /\ 4 \in BitsOf(n) <=> (n \div 16) % 2 = 1
         /\ 5 \in BitsOf(n) <=> (n \div 32) % 2 = 1
         /\ 6 \in BitsOf(n) <=> (n \div 64) % 2 = 1
         /\ 7 \in BitsOf(n) <=> (n \div 128) % 2 = 1
         /\ 8 \in BitsOf(n) <=> (n \div 256) % 2 = 1
         /\ 9 \in BitsOf(n) <=> (n \div 512) % 2 = 1
         /\ 10 \in BitsOf(n) <=> (n \div 1024) % 2 = 1
         /\ 11 \in BitsOf(n) <=> (n \div 2048) % 2 = 1
<1>1. \A b \in 0 .. 11 : b \in BitsOf(n) <=> (n \div 2 ^ b) % 2 = 1
  BY DEF BitsOf
<1>2. n \div 1 = n
  OBVIOUS
<1>3. BitsOf(n) \subseteq 0 .. 11
  BY DEF BitsOf
<1>4. /\ 0 \in BitsOf(n) <=> (n \div 2 ^ 0) % 2 = 1
      /\ 1 \in BitsOf(n) <=> (n \div 2 ^ 1) % 2 = 1
      /\ 2 \in BitsOf(n) <=> (n \div 2 ^ 2) % 2 = 1
      /\ 3 \in BitsOf(n) <=> (n \div 2 ^ 3) % 2 = 1
      /\ 4 \in BitsOf(n) <=> (n \div 2 ^ 4) % 2 = 1
      /\ 5 \in BitsOf(n) <=> (n \div 2 ^ 5) % 2 = 1
      /\ 6 \in BitsOf(n) <=> (n \div 2 ^ 6) % 2 = 1
      /\ 7 \in BitsOf(n) <=> (n \div 2 ^ 7) % 2 = 1
      /\ 8 \in BitsOf(n) <=> (n \div 2 ^ 8) % 2 = 1
      /\ 9 \in BitsOf(n) <=> (n \div 2 ^ 9) % 2 = 1
      /\ 10 \in BitsOf(n) <=> (n \div 2 ^ 10) % 2 = 1
      /\ 11 \in BitsOf(n) <=> (n \div 2 ^ 11) % 2 = 1
  BY <1>1
<1> QED
  BY <1>2, <1>3, <1>4, Powers

LEMMA NumSum ==
  ASSUME NEW s
  PROVE  Num(s) = (IF 0 \in s THEN 1 ELSE 0) + (IF 1 \in s THEN 2 ELSE 0) + (IF 2 \in s THEN 4 ELSE 0)
                  + (IF 3 \in s THEN 8 ELSE 0) + (IF 4 \in s THEN 16 ELSE 0)
                  + (IF 5 \in s THEN 32 ELSE 0) + (IF 6 \in s THEN 64 ELSE 0)
BY Powers DEF Num

\* The number of the bits of a number of at most seven bits.
LEMMA NumBits ==
  ASSUME NEW n \in 0 .. 127
  PROVE  Num(BitsOf(n)) = n
<1>1. Num(BitsOf(n)) = (IF n % 2 = 1 THEN 1 ELSE 0) + (IF (n \div 2) % 2 = 1 THEN 2 ELSE 0)
                  + (IF (n \div 4) % 2 = 1 THEN 4 ELSE 0) + (IF (n \div 8) % 2 = 1 THEN 8 ELSE 0)
                  + (IF (n \div 16) % 2 = 1 THEN 16 ELSE 0) + (IF (n \div 32) % 2 = 1 THEN 32 ELSE 0)
                  + (IF (n \div 64) % 2 = 1 THEN 64 ELSE 0)
  BY BitsAre, NumSum
<1> QED
  BY <1>1

\* How far up the bits of a small number go.
LEMMA BitsBelow ==
  ASSUME NEW n \in Nat
  PROVE  /\ n < 8 => BitsOf(n) \subseteq 0 .. 2
         /\ n < 32 => BitsOf(n) \subseteq 0 .. 4
         /\ n < 128 => BitsOf(n) \subseteq 0 .. 6
         /\ BitsOf(n) \subseteq Int
BY BitsAre

\* The least numbers, and the function codes of the encoder, bit by bit.
LEMMA BitsOfCodes ==
  /\ BitsOf(0) = {} /\ BitsOf(3) = {0, 1} /\ BitsOf(19) = {0, 1, 4}
  /\ BitsOf(32) = {5} /\ BitsOf(115) = {0, 1, 4, 5, 6} /\ BitsOf(1024) = {10}
<1>1. BitsOf(0) = {} /\ BitsOf(32) = {5}
  BY BitsAre
<1>2. BitsOf(3) = {0, 1} /\ BitsOf(19) = {0, 1, 4}
  BY BitsAre
<1>3. BitsOf(115) = {0, 1, 4, 5, 6} /\ BitsOf(1024) = {10}
  BY BitsAre
<1> QED
  BY <1>1, <1>2, <1>3

-----------------------------------------------------------------------------
(* Fields of a word. *)

LEMMA CutIn ==
  ASSUME NEW w \in SUBSET Int, NEW lo \in Int, NEW hi \in Int, NEW at \in Int
  PROVE  /\ Cut(w, lo, hi, at) \subseteq at .. at + (hi - lo)
         /\ Cut(w, lo, hi, at) \subseteq Int
         /\ \A c \in Int : c \in Cut(w, lo, hi, at) <=>
              at <= c /\ c <= at + (hi - lo) /\ c + (lo - at) \in w
<1>1. Cut(w, lo, hi, at) \subseteq at .. at + (hi - lo) /\ Cut(w, lo, hi, at) \subseteq Int
  BY DEF Cut
<1>2. ASSUME NEW c \in Int, c \in Cut(w, lo, hi, at)
      PROVE  at <= c /\ c <= at + (hi - lo) /\ c + (lo - at) \in w
  <2>1. PICK b \in w \cap (lo .. hi) : c = b - lo + at
    BY <1>2 DEF Cut
  <2>2. b \in Int /\ c + (lo - at) = b
    BY <2>1
  <2> QED
    BY <2>1, <2>2
<1>3. ASSUME NEW c \in Int, at <= c, c <= at + (hi - lo), c + (lo - at) \in w
      PROVE  c \in Cut(w, lo, hi, at)
  <2> DEFINE b == c + (lo - at)
  <2>1. b \in w \cap (lo .. hi) /\ c = b - lo + at
    BY <1>3
  <2> HIDE DEF b
  <2> QED
    BY <2>1 DEF Cut
<1> QED
  BY <1>1, <1>2, <1>3

LEMMA FieldIn ==
  ASSUME NEW n \in Nat, NEW lo \in Int
  PROVE  /\ Field(n, lo) \subseteq Int
         /\ \A c \in Int : c \in Field(n, lo) <=> c - lo \in BitsOf(n)
<1>1. BitsOf(n) \subseteq 0 .. 11
  BY BitsAre
<1>2. Field(n, lo) \subseteq Int
  BY <1>1 DEF Field
<1>3. ASSUME NEW c \in Int, c \in Field(n, lo)
      PROVE  c - lo \in BitsOf(n)
  <2>1. PICK b \in BitsOf(n) : c = b + lo
    BY <1>3 DEF Field
  <2>2. c - lo = b
    BY <1>1, <2>1
  <2> QED
    BY <2>2
<1>4. ASSUME NEW c \in Int, c - lo \in BitsOf(n)
      PROVE  c \in Field(n, lo)
  <2> DEFINE b == c - lo
  <2>1. b \in BitsOf(n) /\ c = b + lo
    BY <1>4
  <2> HIDE DEF b
  <2> QED
    BY <2>1 DEF Field
<1> QED
  BY <1>2, <1>3, <1>4

\* The places a field is put.
LEMMA FieldAt ==
  ASSUME NEW n \in Nat
  PROVE  /\ Field(n, 0) \subseteq Int /\ Field(n, 7) \subseteq Int /\ Field(n, 12) \subseteq Int
         /\ Field(n, 15) \subseteq Int /\ Field(n, 20) \subseteq Int /\ Field(n, 25) \subseteq Int
         /\ \A b \in Int : /\ b \in Field(n, 0) <=> b \in BitsOf(n)
                           /\ b \in Field(n, 7) <=> b - 7 \in BitsOf(n)
                           /\ b \in Field(n, 12) <=> b - 12 \in BitsOf(n)
                           /\ b \in Field(n, 15) <=> b - 15 \in BitsOf(n)
                           /\ b \in Field(n, 20) <=> b - 20 \in BitsOf(n)
                           /\ b \in Field(n, 25) <=> b - 25 \in BitsOf(n)
<1>1. \A b \in Int : b \in Field(n, 7) <=> b - 7 \in BitsOf(n)
  BY FieldIn
<1>2. \A b \in Int : b \in Field(n, 12) <=> b - 12 \in BitsOf(n)
  BY FieldIn
<1>3. \A b \in Int : b \in Field(n, 15) <=> b - 15 \in BitsOf(n)
  BY FieldIn
<1>4. \A b \in Int : b \in Field(n, 20) <=> b - 20 \in BitsOf(n)
  BY FieldIn
<1>5. \A b \in Int : b \in Field(n, 25) <=> b - 25 \in BitsOf(n)
  BY FieldIn
<1>6. \A b \in Int : b \in Field(n, 0) <=> b \in BitsOf(n)
  <2>1. \A b \in Int : b \in Field(n, 0) <=> b - 0 \in BitsOf(n)
    BY FieldIn
  <2>2. \A b \in Int : b - 0 = b
    OBVIOUS
  <2> QED
    BY <2>1, <2>2
<1>7. \A lo \in Int : Field(n, lo) \subseteq Int
  BY FieldIn
<1> QED
  BY <1>1, <1>2, <1>3, <1>4, <1>5, <1>6, <1>7

\* The parts of a word.
LEMMA Segments ==
  ASSUME NEW s \in SUBSET Int
  PROVE  /\ \A b \in Int : b \in Cut(s, 0, 6, 0) <=> 0 <= b /\ b <= 6 /\ b \in s
         /\ \A b \in Int : b \in Cut(s, 7, 11, 0) <=> 0 <= b /\ b <= 4 /\ b + 7 \in s
         /\ \A b \in Int : b \in Cut(s, 12, 14, 0) <=> 0 <= b /\ b <= 2 /\ b + 12 \in s
         /\ \A b \in Int : b \in Cut(s, 15, 19, 0) <=> 0 <= b /\ b <= 4 /\ b + 15 \in s
         /\ \A b \in Int : b \in Cut(s, 20, 24, 0) <=> 0 <= b /\ b <= 4 /\ b + 20 \in s
         /\ \A b \in Int : b \in Cut(s, 25, 31, 0) <=> 0 <= b /\ b <= 6 /\ b + 25 \in s
         /\ \A b \in Int : b \in Cut(s, 5, 11, 0) <=> 0 <= b /\ b <= 6 /\ b + 5 \in s
         /\ \A b \in Int : b \in Cut(s, 0, 4, 0) <=> 0 <= b /\ b <= 4 /\ b \in s
<1>1. \A b \in Int : b \in Cut(s, 0, 6, 0) <=> 0 <= b /\ b <= 6 /\ b \in s
  BY CutIn
<1>2. \A b \in Int : b \in Cut(s, 7, 11, 0) <=> 0 <= b /\ b <= 4 /\ b + 7 \in s
  BY CutIn
<1>3. \A b \in Int : b \in Cut(s, 12, 14, 0) <=> 0 <= b /\ b <= 2 /\ b + 12 \in s
  BY CutIn
<1>4. \A b \in Int : b \in Cut(s, 15, 19, 0) <=> 0 <= b /\ b <= 4 /\ b + 15 \in s
  BY CutIn
<1>5. \A b \in Int : b \in Cut(s, 20, 24, 0) <=> 0 <= b /\ b <= 4 /\ b + 20 \in s
  BY CutIn
<1>6. \A b \in Int : b \in Cut(s, 25, 31, 0) <=> 0 <= b /\ b <= 6 /\ b + 25 \in s
  BY CutIn
<1>7. \A b \in Int : b \in Cut(s, 5, 11, 0) <=> 0 <= b /\ b <= 6 /\ b + 5 \in s
  BY CutIn
<1>8. \A b \in Int : b \in Cut(s, 0, 4, 0) <=> 0 <= b /\ b <= 4 /\ b \in s
  BY CutIn
<1> QED
  BY <1>1, <1>2, <1>3, <1>4, <1>5, <1>6, <1>7, <1>8

\* The parts the readers of a word put an immediate together from.
LEMMA DecoderCuts ==
  ASSUME NEW s \in SUBSET Int
  PROVE  /\ \A b \in Int : b \in Cut(s, 20, 31, 0) <=> 0 <= b /\ b <= 11 /\ b + 20 \in s
         /\ \A b \in Int : b \in Cut(s, 21, 30, 1) <=> 1 <= b /\ b <= 10 /\ b + 20 \in s
         /\ \A b \in Int : b \in Cut(s, 20, 20, 11) <=> 11 <= b /\ b <= 11 /\ b + 9 \in s
         /\ \A b \in Int : b \in Cut(s, 12, 19, 12) <=> 12 <= b /\ b <= 19 /\ b \in s
         /\ \A b \in Int : b \in Cut(s, 8, 11, 1) <=> 1 <= b /\ b <= 4 /\ b + 7 \in s
         /\ \A b \in Int : b \in Cut(s, 25, 30, 5) <=> 5 <= b /\ b <= 10 /\ b + 20 \in s
         /\ \A b \in Int : b \in Cut(s, 7, 7, 11) <=> 11 <= b /\ b <= 11 /\ b - 4 \in s
         /\ \A b \in Int : b \in Cut(s, 25, 31, 5) <=> 5 <= b /\ b <= 11 /\ b + 20 \in s
         /\ \A b \in Int : b \in Cut(s, 31, 31, 20) <=> 20 <= b /\ b <= 20 /\ b + 11 \in s
         /\ \A b \in Int : b \in Cut(s, 31, 31, 12) <=> 12 <= b /\ b <= 12 /\ b + 19 \in s
<1>1. \A b \in Int : b \in Cut(s, 20, 31, 0) <=> 0 <= b /\ b <= 11 /\ b + 20 \in s
  BY CutIn
<1>2. \A b \in Int : b \in Cut(s, 21, 30, 1) <=> 1 <= b /\ b <= 10 /\ b + 20 \in s
  BY CutIn
<1>3. \A b \in Int : b \in Cut(s, 20, 20, 11) <=> 11 <= b /\ b <= 11 /\ b + 9 \in s
  BY CutIn
<1>4. \A b \in Int : b \in Cut(s, 12, 19, 12) <=> 12 <= b /\ b <= 19 /\ b \in s
  BY CutIn
<1>5. \A b \in Int : b \in Cut(s, 8, 11, 1) <=> 1 <= b /\ b <= 4 /\ b + 7 \in s
  BY CutIn
<1>6. \A b \in Int : b \in Cut(s, 25, 30, 5) <=> 5 <= b /\ b <= 10 /\ b + 20 \in s
  BY CutIn
<1>7. \A b \in Int : b \in Cut(s, 7, 7, 11) <=> 11 <= b /\ b <= 11 /\ b - 4 \in s
  BY CutIn
<1>8. \A b \in Int : b \in Cut(s, 25, 31, 5) <=> 5 <= b /\ b <= 11 /\ b + 20 \in s
  BY CutIn
<1>9. \A b \in Int : b \in Cut(s, 31, 31, 20) <=> 20 <= b /\ b <= 20 /\ b + 11 \in s
  BY CutIn
<1>10. \A b \in Int : b \in Cut(s, 31, 31, 12) <=> 12 <= b /\ b <= 12 /\ b + 19 \in s
  BY CutIn
<1> QED
  BY <1>1, <1>2, <1>3, <1>4, <1>5, <1>6, <1>7, <1>8, <1>9, <1>10

\* The parts the encoder takes an immediate apart into.
LEMMA EncoderCuts ==
  ASSUME NEW s \in SUBSET Int
  PROVE  /\ \A b \in Int : b \in Cut(s, 0, 11, 20) <=> 20 <= b /\ b <= 31 /\ b - 20 \in s
         /\ \A b \in Int : b \in Cut(s, 5, 11, 25) <=> 25 <= b /\ b <= 31 /\ b - 20 \in s
         /\ \A b \in Int : b \in Cut(s, 0, 4, 7) <=> 7 <= b /\ b <= 11 /\ b - 7 \in s
         /\ \A b \in Int : b \in Cut(s, 12, 12, 31) <=> 31 <= b /\ b <= 31 /\ b - 19 \in s
         /\ \A b \in Int : b \in Cut(s, 5, 10, 25) <=> 25 <= b /\ b <= 30 /\ b - 20 \in s
         /\ \A b \in Int : b \in Cut(s, 1, 4, 8) <=> 8 <= b /\ b <= 11 /\ b - 7 \in s
         /\ \A b \in Int : b \in Cut(s, 11, 11, 7) <=> 7 <= b /\ b <= 7 /\ b + 4 \in s
         /\ \A b \in Int : b \in Cut(s, 20, 20, 31) <=> 31 <= b /\ b <= 31 /\ b - 11 \in s
         /\ \A b \in Int : b \in Cut(s, 1, 10, 21) <=> 21 <= b /\ b <= 30 /\ b - 20 \in s
         /\ \A b \in Int : b \in Cut(s, 11, 11, 20) <=> 20 <= b /\ b <= 20 /\ b - 9 \in s
<1>1. \A b \in Int : b \in Cut(s, 0, 11, 20) <=> 20 <= b /\ b <= 31 /\ b - 20 \in s
  BY CutIn
<1>2. \A b \in Int : b \in Cut(s, 5, 11, 25) <=> 25 <= b /\ b <= 31 /\ b - 20 \in s
  BY CutIn
<1>3. \A b \in Int : b \in Cut(s, 0, 4, 7) <=> 7 <= b /\ b <= 11 /\ b - 7 \in s
  BY CutIn
<1>4. \A b \in Int : b \in Cut(s, 12, 12, 31) <=> 31 <= b /\ b <= 31 /\ b - 19 \in s
  BY CutIn
<1>5. \A b \in Int : b \in Cut(s, 5, 10, 25) <=> 25 <= b /\ b <= 30 /\ b - 20 \in s
  BY CutIn
<1>6. \A b \in Int : b \in Cut(s, 1, 4, 8) <=> 8 <= b /\ b <= 11 /\ b - 7 \in s
  BY CutIn
<1>7. \A b \in Int : b \in Cut(s, 11, 11, 7) <=> 7 <= b /\ b <= 7 /\ b + 4 \in s
  BY CutIn
<1>8. \A b \in Int : b \in Cut(s, 20, 20, 31) <=> 31 <= b /\ b <= 31 /\ b - 11 \in s
  BY CutIn
<1>9. \A b \in Int : b \in Cut(s, 1, 10, 21) <=> 21 <= b /\ b <= 30 /\ b - 20 \in s
  BY CutIn
<1>10. \A b \in Int : b \in Cut(s, 11, 11, 20) <=> 20 <= b /\ b <= 20 /\ b - 9 \in s
  BY CutIn
<1> QED
  BY <1>1, <1>2, <1>3, <1>4, <1>5, <1>6, <1>7, <1>8, <1>9, <1>10

LEMMA CutsAreNumbers ==
  ASSUME NEW s \in SUBSET Int, NEW lo \in Int, NEW hi \in Int, NEW at \in Int
  PROVE  Cut(s, lo, hi, at) \subseteq Int
BY CutIn

\* The bits of n stand at lo .. hi.
Holds(w, n, lo, hi) == \A b \in Int : lo <= b /\ b <= hi => (b \in w <=> b - lo \in BitsOf(n))

LEMMA OpcodeRead ==
  ASSUME NEW w \in SUBSET Int, NEW n \in 0 .. 127, Holds(w, n, 0, 6)
  PROVE  Opcode(w) = n
<1> DEFINE A == Cut(w, 0, 6, 0)
<1>1. A \subseteq Int
  BY CutsAreNumbers
<1>2. BitsOf(n) \subseteq 0 .. 6
  BY BitsBelow
<1>3. \A c \in Int : 0 <= c /\ c <= 6 => (c \in w <=> c \in BitsOf(n))
  <2> TAKE c \in Int
  <2>1. c + 0 - 0 = c /\ (0 <= c /\ c <= 6 => 0 <= c + 0 /\ c + 0 <= 6) /\ c + 0 = c
    OBVIOUS
  <2> QED
    BY <2>1 DEF Holds
<1>4. \A c \in Int : c \in A <=> 0 <= c /\ c <= 6 /\ c \in w
  BY Segments
<1> HIDE DEF A
<1>5. A = BitsOf(n)
  <2>1. \A c \in Int : c \in A <=> c \in BitsOf(n)
    BY <1>2, <1>3, <1>4
  <2>2. BitsOf(n) \subseteq Int
    BY <1>2
  <2> QED
    BY <1>1, <2>1, <2>2
<1> QED
  BY <1>5, NumBits DEF Opcode, A

LEMMA RdRead ==
  ASSUME NEW w \in SUBSET Int, NEW n \in 0 .. 31, Holds(w, n, 7, 11)
  PROVE  Rd(w) = n
<1> DEFINE A == Cut(w, 7, 11, 0)
<1>1. A \subseteq Int
  BY CutsAreNumbers
<1>2. BitsOf(n) \subseteq 0 .. 4
  BY BitsBelow
<1>3. \A c \in Int : 0 <= c /\ c <= 4 => (c + 7 \in w <=> c \in BitsOf(n))
  <2> TAKE c \in Int
  <2>1. c + 7 - 7 = c /\ (0 <= c /\ c <= 4 => 7 <= c + 7 /\ c + 7 <= 11)
    OBVIOUS
  <2> QED
    BY <2>1 DEF Holds
<1>4. \A c \in Int : c \in A <=> 0 <= c /\ c <= 4 /\ c + 7 \in w
  BY Segments
<1> HIDE DEF A
<1>5. A = BitsOf(n)
  <2>1. \A c \in Int : c \in A <=> c \in BitsOf(n)
    BY <1>2, <1>3, <1>4
  <2>2. BitsOf(n) \subseteq Int
    BY <1>2
  <2> QED
    BY <1>1, <2>1, <2>2
<1> QED
  BY <1>5, NumBits DEF Rd, A

LEMMA Funct3Read ==
  ASSUME NEW w \in SUBSET Int, NEW n \in 0 .. 7, Holds(w, n, 12, 14)
  PROVE  Funct3(w) = n
<1> DEFINE A == Cut(w, 12, 14, 0)
<1>1. A \subseteq Int
  BY CutsAreNumbers
<1>2. BitsOf(n) \subseteq 0 .. 2
  BY BitsBelow
<1>3. \A c \in Int : 0 <= c /\ c <= 2 => (c + 12 \in w <=> c \in BitsOf(n))
  <2> TAKE c \in Int
  <2>1. c + 12 - 12 = c /\ (0 <= c /\ c <= 2 => 12 <= c + 12 /\ c + 12 <= 14)
    OBVIOUS
  <2> QED
    BY <2>1 DEF Holds
<1>4. \A c \in Int : c \in A <=> 0 <= c /\ c <= 2 /\ c + 12 \in w
  BY Segments
<1> HIDE DEF A
<1>5. A = BitsOf(n)
  <2>1. \A c \in Int : c \in A <=> c \in BitsOf(n)
    BY <1>2, <1>3, <1>4
  <2>2. BitsOf(n) \subseteq Int
    BY <1>2
  <2> QED
    BY <1>1, <2>1, <2>2
<1> QED
  BY <1>5, NumBits DEF Funct3, A

LEMMA Rs1Read ==
  ASSUME NEW w \in SUBSET Int, NEW n \in 0 .. 31, Holds(w, n, 15, 19)
  PROVE  Rs1(w) = n
<1> DEFINE A == Cut(w, 15, 19, 0)
<1>1. A \subseteq Int
  BY CutsAreNumbers
<1>2. BitsOf(n) \subseteq 0 .. 4
  BY BitsBelow
<1>3. \A c \in Int : 0 <= c /\ c <= 4 => (c + 15 \in w <=> c \in BitsOf(n))
  <2> TAKE c \in Int
  <2>1. c + 15 - 15 = c /\ (0 <= c /\ c <= 4 => 15 <= c + 15 /\ c + 15 <= 19)
    OBVIOUS
  <2> QED
    BY <2>1 DEF Holds
<1>4. \A c \in Int : c \in A <=> 0 <= c /\ c <= 4 /\ c + 15 \in w
  BY Segments
<1> HIDE DEF A
<1>5. A = BitsOf(n)
  <2>1. \A c \in Int : c \in A <=> c \in BitsOf(n)
    BY <1>2, <1>3, <1>4
  <2>2. BitsOf(n) \subseteq Int
    BY <1>2
  <2> QED
    BY <1>1, <2>1, <2>2
<1> QED
  BY <1>5, NumBits DEF Rs1, A

LEMMA Rs2Read ==
  ASSUME NEW w \in SUBSET Int, NEW n \in 0 .. 31, Holds(w, n, 20, 24)
  PROVE  Rs2(w) = n
<1> DEFINE A == Cut(w, 20, 24, 0)
<1>1. A \subseteq Int
  BY CutsAreNumbers
<1>2. BitsOf(n) \subseteq 0 .. 4
  BY BitsBelow
<1>3. \A c \in Int : 0 <= c /\ c <= 4 => (c + 20 \in w <=> c \in BitsOf(n))
  <2> TAKE c \in Int
  <2>1. c + 20 - 20 = c /\ (0 <= c /\ c <= 4 => 20 <= c + 20 /\ c + 20 <= 24)
    OBVIOUS
  <2> QED
    BY <2>1 DEF Holds
<1>4. \A c \in Int : c \in A <=> 0 <= c /\ c <= 4 /\ c + 20 \in w
  BY Segments
<1> HIDE DEF A
<1>5. A = BitsOf(n)
  <2>1. \A c \in Int : c \in A <=> c \in BitsOf(n)
    BY <1>2, <1>3, <1>4
  <2>2. BitsOf(n) \subseteq Int
    BY <1>2
  <2> QED
    BY <1>1, <2>1, <2>2
<1> QED
  BY <1>5, NumBits DEF Rs2, A

LEMMA Funct7Read ==
  ASSUME NEW w \in SUBSET Int, NEW n \in 0 .. 127, Holds(w, n, 25, 31)
  PROVE  Funct7(w) = n
<1> DEFINE A == Cut(w, 25, 31, 0)
<1>1. A \subseteq Int
  BY CutsAreNumbers
<1>2. BitsOf(n) \subseteq 0 .. 6
  BY BitsBelow
<1>3. \A c \in Int : 0 <= c /\ c <= 6 => (c + 25 \in w <=> c \in BitsOf(n))
  <2> TAKE c \in Int
  <2>1. c + 25 - 25 = c /\ (0 <= c /\ c <= 6 => 25 <= c + 25 /\ c + 25 <= 31)
    OBVIOUS
  <2> QED
    BY <2>1 DEF Holds
<1>4. \A c \in Int : c \in A <=> 0 <= c /\ c <= 6 /\ c + 25 \in w
  BY Segments
<1> HIDE DEF A
<1>5. A = BitsOf(n)
  <2>1. \A c \in Int : c \in A <=> c \in BitsOf(n)
    BY <1>2, <1>3, <1>4
  <2>2. BitsOf(n) \subseteq Int
    BY <1>2
  <2> QED
    BY <1>1, <2>1, <2>2
<1> QED
  BY <1>5, NumBits DEF Funct7, A

-----------------------------------------------------------------------------
(* The formats, read back. *)

Register == 0 .. 31
Code3 == 0 .. 7
Code7 == 0 .. 127

LEMMA RRead ==
  ASSUME NEW f7 \in Code7, NEW rs2 \in Register, NEW rs1 \in Register, NEW f3 \in Code3,
         NEW rd \in Register, NEW opc \in Code7
  PROVE  /\ RType(f7, rs2, rs1, f3, rd, opc) \subseteq WordBits
         /\ Funct7(RType(f7, rs2, rs1, f3, rd, opc)) = f7
         /\ Rs2(RType(f7, rs2, rs1, f3, rd, opc)) = rs2
         /\ Rs1(RType(f7, rs2, rs1, f3, rd, opc)) = rs1
         /\ Funct3(RType(f7, rs2, rs1, f3, rd, opc)) = f3
         /\ Rd(RType(f7, rs2, rs1, f3, rd, opc)) = rd
         /\ Opcode(RType(f7, rs2, rs1, f3, rd, opc)) = opc
<1> DEFINE w == RType(f7, rs2, rs1, f3, rd, opc)
<1>m. f7 \in 0 .. 127 /\ rs2 \in 0 .. 31 /\ rs1 \in 0 .. 31 /\ f3 \in 0 .. 7 /\ rd \in 0 .. 31 /\ opc \in 0 .. 127
  BY DEF Code7, Register, Code3
<1>n. f7 \in Nat /\ rs2 \in Nat /\ rs1 \in Nat /\ f3 \in Nat /\ rd \in Nat /\ opc \in Nat
  BY <1>m
<1>1. /\ \A b \in Int : b \in Field(f7, 25) <=> b - 25 \in BitsOf(f7)
      /\ \A b \in Int : b \in Field(rs2, 20) <=> b - 20 \in BitsOf(rs2)
      /\ \A b \in Int : b \in Field(rs1, 15) <=> b - 15 \in BitsOf(rs1)
      /\ \A b \in Int : b \in Field(f3, 12) <=> b - 12 \in BitsOf(f3)
      /\ \A b \in Int : b \in Field(rd, 7) <=> b - 7 \in BitsOf(rd)
      /\ \A b \in Int : b \in Field(opc, 0) <=> b \in BitsOf(opc)
  BY <1>n, FieldAt
<1>2. Field(f7, 25) \subseteq Int /\ Field(rs2, 20) \subseteq Int /\ Field(rs1, 15) \subseteq Int /\ Field(f3, 12) \subseteq Int /\ Field(rd, 7) \subseteq Int /\ Field(opc, 0) \subseteq Int
  BY <1>n, FieldAt
<1>3. /\ BitsOf(f7) \subseteq 0 .. 6 /\ BitsOf(rs2) \subseteq 0 .. 4
      /\ BitsOf(rs1) \subseteq 0 .. 4 /\ BitsOf(f3) \subseteq 0 .. 2
      /\ BitsOf(rd) \subseteq 0 .. 4 /\ BitsOf(opc) \subseteq 0 .. 6
  BY <1>m, BitsBelow
<1>6. w \subseteq Int
  BY <1>1, <1>2 DEF RType
<1>7. \A b \in Int : b \in w <=>
        \/ b - 25 \in BitsOf(f7)
        \/ b - 20 \in BitsOf(rs2)
        \/ b - 15 \in BitsOf(rs1)
        \/ b - 12 \in BitsOf(f3)
        \/ b - 7 \in BitsOf(rd)
        \/ b \in BitsOf(opc)
  BY <1>1, <1>2 DEF RType
<1> HIDE DEF w
<1>8. w \subseteq WordBits
  BY <1>3, <1>6, <1>7 DEF WordBits
<1>9. Holds(w, f7, 25, 31)
  BY <1>3, <1>7 DEF Holds
<1>10. Holds(w, rs2, 20, 24)
  BY <1>3, <1>7 DEF Holds
<1>11. Holds(w, rs1, 15, 19)
  BY <1>3, <1>7 DEF Holds
<1>12. Holds(w, f3, 12, 14)
  BY <1>3, <1>7 DEF Holds
<1>13. Holds(w, rd, 7, 11)
  BY <1>3, <1>7 DEF Holds
<1>14. Holds(w, opc, 0, 6)
  BY <1>3, <1>7 DEF Holds
<1>15. Funct7(w) = f7 /\ Rs2(w) = rs2 /\ Rs1(w) = rs1 /\ Funct3(w) = f3 /\ Rd(w) = rd /\ Opcode(w) = opc
  BY <1>m, <1>6, <1>9, <1>10, <1>11, <1>12, <1>13, <1>14, Funct7Read, Rs2Read, Rs1Read, Funct3Read, RdRead, OpcodeRead
<1> QED
  BY <1>8, <1>15 DEF w

\* Where an I-type word holds the bits of its immediate.
IPlaced(w, imm) ==
  /\ \A b \in Int : 20 <= b /\ b <= 31 => (b \in w <=> b - 20 \in imm)

LEMMA IRead ==
  ASSUME NEW imm \in SUBSET WordBits, NEW rs1 \in Register, NEW f3 \in Code3,
         NEW rd \in Register, NEW opc \in Code7
  PROVE  /\ IType(imm, rs1, f3, rd, opc) \subseteq WordBits
         /\ Rs1(IType(imm, rs1, f3, rd, opc)) = rs1
         /\ Funct3(IType(imm, rs1, f3, rd, opc)) = f3
         /\ Rd(IType(imm, rs1, f3, rd, opc)) = rd
         /\ Opcode(IType(imm, rs1, f3, rd, opc)) = opc
         /\ IPlaced(IType(imm, rs1, f3, rd, opc), imm)
<1> DEFINE w == IType(imm, rs1, f3, rd, opc)
<1>0. imm \in SUBSET Int
  BY DEF WordBits
<1>m. rs1 \in 0 .. 31 /\ f3 \in 0 .. 7 /\ rd \in 0 .. 31 /\ opc \in 0 .. 127
  BY DEF Register, Code3, Code7
<1>n. rs1 \in Nat /\ f3 \in Nat /\ rd \in Nat /\ opc \in Nat
  BY <1>m
<1>1. /\ \A b \in Int : b \in Field(rs1, 15) <=> b - 15 \in BitsOf(rs1)
      /\ \A b \in Int : b \in Field(f3, 12) <=> b - 12 \in BitsOf(f3)
      /\ \A b \in Int : b \in Field(rd, 7) <=> b - 7 \in BitsOf(rd)
      /\ \A b \in Int : b \in Field(opc, 0) <=> b \in BitsOf(opc)
  BY <1>n, FieldAt
<1>2. Field(rs1, 15) \subseteq Int /\ Field(f3, 12) \subseteq Int /\ Field(rd, 7) \subseteq Int /\ Field(opc, 0) \subseteq Int
  BY <1>n, FieldAt
<1>3. /\ BitsOf(rs1) \subseteq 0 .. 4 /\ BitsOf(f3) \subseteq 0 .. 2
      /\ BitsOf(rd) \subseteq 0 .. 4 /\ BitsOf(opc) \subseteq 0 .. 6
  BY <1>m, BitsBelow
<1>4. /\ \A b \in Int : b \in Cut(imm, 0, 11, 20) <=> 20 <= b /\ b <= 31 /\ b - 20 \in imm
  BY <1>0, EncoderCuts
<1>5. /\ Cut(imm, 0, 11, 20) \subseteq Int
  BY <1>0, CutsAreNumbers
<1>6. w \subseteq Int
  BY <1>1, <1>2, <1>4, <1>5 DEF IType
<1>7. \A b \in Int : b \in w <=>
        \/ 20 <= b /\ b <= 31 /\ b - 20 \in imm
        \/ b - 15 \in BitsOf(rs1)
        \/ b - 12 \in BitsOf(f3)
        \/ b - 7 \in BitsOf(rd)
        \/ b \in BitsOf(opc)
  BY <1>1, <1>2, <1>4, <1>5 DEF IType
<1> HIDE DEF w
<1>8. w \subseteq WordBits
  BY <1>3, <1>6, <1>7 DEF WordBits
<1>9. Holds(w, rs1, 15, 19)
  BY <1>3, <1>7 DEF Holds
<1>10. Holds(w, f3, 12, 14)
  BY <1>3, <1>7 DEF Holds
<1>11. Holds(w, rd, 7, 11)
  BY <1>3, <1>7 DEF Holds
<1>12. Holds(w, opc, 0, 6)
  BY <1>3, <1>7 DEF Holds
<1>13. Rs1(w) = rs1 /\ Funct3(w) = f3 /\ Rd(w) = rd /\ Opcode(w) = opc
  BY <1>m, <1>6, <1>9, <1>10, <1>11, <1>12, Rs1Read, Funct3Read, RdRead, OpcodeRead
<1>14. \A b \in Int : 20 <= b /\ b <= 31 => (b \in w <=> b - 20 \in imm)
  BY <1>3, <1>7
<1> QED
  BY <1>8, <1>13, <1>14 DEF w, IPlaced

\* Where a store holds the bits of its immediate.
SPlaced(w, imm) ==
  /\ \A b \in Int : 25 <= b /\ b <= 31 => (b \in w <=> b - 20 \in imm)
  /\ \A b \in Int : 7 <= b /\ b <= 11 => (b \in w <=> b - 7 \in imm)

LEMMA SRead ==
  ASSUME NEW imm \in SUBSET WordBits, NEW rs2 \in Register, NEW rs1 \in Register,
         NEW f3 \in Code3, NEW opc \in Code7
  PROVE  /\ SType(imm, rs2, rs1, f3, opc) \subseteq WordBits
         /\ Rs2(SType(imm, rs2, rs1, f3, opc)) = rs2
         /\ Rs1(SType(imm, rs2, rs1, f3, opc)) = rs1
         /\ Funct3(SType(imm, rs2, rs1, f3, opc)) = f3
         /\ Opcode(SType(imm, rs2, rs1, f3, opc)) = opc
         /\ SPlaced(SType(imm, rs2, rs1, f3, opc), imm)
<1> DEFINE w == SType(imm, rs2, rs1, f3, opc)
<1>0. imm \in SUBSET Int
  BY DEF WordBits
<1>m. rs2 \in 0 .. 31 /\ rs1 \in 0 .. 31 /\ f3 \in 0 .. 7 /\ opc \in 0 .. 127
  BY DEF Register, Code3, Code7
<1>n. rs2 \in Nat /\ rs1 \in Nat /\ f3 \in Nat /\ opc \in Nat
  BY <1>m
<1>1. /\ \A b \in Int : b \in Field(rs2, 20) <=> b - 20 \in BitsOf(rs2)
      /\ \A b \in Int : b \in Field(rs1, 15) <=> b - 15 \in BitsOf(rs1)
      /\ \A b \in Int : b \in Field(f3, 12) <=> b - 12 \in BitsOf(f3)
      /\ \A b \in Int : b \in Field(opc, 0) <=> b \in BitsOf(opc)
  BY <1>n, FieldAt
<1>2. Field(rs2, 20) \subseteq Int /\ Field(rs1, 15) \subseteq Int /\ Field(f3, 12) \subseteq Int /\ Field(opc, 0) \subseteq Int
  BY <1>n, FieldAt
<1>3. /\ BitsOf(rs2) \subseteq 0 .. 4 /\ BitsOf(rs1) \subseteq 0 .. 4
      /\ BitsOf(f3) \subseteq 0 .. 2 /\ BitsOf(opc) \subseteq 0 .. 6
  BY <1>m, BitsBelow
<1>4. /\ \A b \in Int : b \in Cut(imm, 5, 11, 25) <=> 25 <= b /\ b <= 31 /\ b - 20 \in imm
      /\ \A b \in Int : b \in Cut(imm, 0, 4, 7) <=> 7 <= b /\ b <= 11 /\ b - 7 \in imm
  BY <1>0, EncoderCuts
<1>5. /\ Cut(imm, 5, 11, 25) \subseteq Int
      /\ Cut(imm, 0, 4, 7) \subseteq Int
  BY <1>0, CutsAreNumbers
<1>6. w \subseteq Int
  BY <1>1, <1>2, <1>4, <1>5 DEF SType
<1>7. \A b \in Int : b \in w <=>
        \/ 25 <= b /\ b <= 31 /\ b - 20 \in imm
        \/ 7 <= b /\ b <= 11 /\ b - 7 \in imm
        \/ b - 20 \in BitsOf(rs2)
        \/ b - 15 \in BitsOf(rs1)
        \/ b - 12 \in BitsOf(f3)
        \/ b \in BitsOf(opc)
  BY <1>1, <1>2, <1>4, <1>5 DEF SType
<1> HIDE DEF w
<1>8. w \subseteq WordBits
  BY <1>3, <1>6, <1>7 DEF WordBits
<1>9. Holds(w, rs2, 20, 24)
  BY <1>3, <1>7 DEF Holds
<1>10. Holds(w, rs1, 15, 19)
  BY <1>3, <1>7 DEF Holds
<1>11. Holds(w, f3, 12, 14)
  BY <1>3, <1>7 DEF Holds
<1>12. Holds(w, opc, 0, 6)
  BY <1>3, <1>7 DEF Holds
<1>13. Rs2(w) = rs2 /\ Rs1(w) = rs1 /\ Funct3(w) = f3 /\ Opcode(w) = opc
  BY <1>m, <1>6, <1>9, <1>10, <1>11, <1>12, Rs2Read, Rs1Read, Funct3Read, OpcodeRead
<1>14. \A b \in Int : 25 <= b /\ b <= 31 => (b \in w <=> b - 20 \in imm)
  BY <1>3, <1>7
<1>15. \A b \in Int : 7 <= b /\ b <= 11 => (b \in w <=> b - 7 \in imm)
  BY <1>3, <1>7
<1> QED
  BY <1>8, <1>13, <1>14, <1>15 DEF w, SPlaced

\* Where a branch holds the bits of its immediate.
BPlaced(w, imm) ==
  /\ \A b \in Int : 31 <= b /\ b <= 31 => (b \in w <=> b - 19 \in imm)
  /\ \A b \in Int : 25 <= b /\ b <= 30 => (b \in w <=> b - 20 \in imm)
  /\ \A b \in Int : 8 <= b /\ b <= 11 => (b \in w <=> b - 7 \in imm)
  /\ \A b \in Int : 7 <= b /\ b <= 7 => (b \in w <=> b + 4 \in imm)

LEMMA BRead ==
  ASSUME NEW imm \in SUBSET WordBits, NEW rs2 \in Register, NEW rs1 \in Register,
         NEW f3 \in Code3, NEW opc \in Code7
  PROVE  /\ BType(imm, rs2, rs1, f3, opc) \subseteq WordBits
         /\ Rs2(BType(imm, rs2, rs1, f3, opc)) = rs2
         /\ Rs1(BType(imm, rs2, rs1, f3, opc)) = rs1
         /\ Funct3(BType(imm, rs2, rs1, f3, opc)) = f3
         /\ Opcode(BType(imm, rs2, rs1, f3, opc)) = opc
         /\ BPlaced(BType(imm, rs2, rs1, f3, opc), imm)
<1> DEFINE w == BType(imm, rs2, rs1, f3, opc)
<1>0. imm \in SUBSET Int
  BY DEF WordBits
<1>m. rs2 \in 0 .. 31 /\ rs1 \in 0 .. 31 /\ f3 \in 0 .. 7 /\ opc \in 0 .. 127
  BY DEF Register, Code3, Code7
<1>n. rs2 \in Nat /\ rs1 \in Nat /\ f3 \in Nat /\ opc \in Nat
  BY <1>m
<1>1. /\ \A b \in Int : b \in Field(rs2, 20) <=> b - 20 \in BitsOf(rs2)
      /\ \A b \in Int : b \in Field(rs1, 15) <=> b - 15 \in BitsOf(rs1)
      /\ \A b \in Int : b \in Field(f3, 12) <=> b - 12 \in BitsOf(f3)
      /\ \A b \in Int : b \in Field(opc, 0) <=> b \in BitsOf(opc)
  BY <1>n, FieldAt
<1>2. Field(rs2, 20) \subseteq Int /\ Field(rs1, 15) \subseteq Int /\ Field(f3, 12) \subseteq Int /\ Field(opc, 0) \subseteq Int
  BY <1>n, FieldAt
<1>3. /\ BitsOf(rs2) \subseteq 0 .. 4 /\ BitsOf(rs1) \subseteq 0 .. 4
      /\ BitsOf(f3) \subseteq 0 .. 2 /\ BitsOf(opc) \subseteq 0 .. 6
  BY <1>m, BitsBelow
<1>4. /\ \A b \in Int : b \in Cut(imm, 12, 12, 31) <=> 31 <= b /\ b <= 31 /\ b - 19 \in imm
      /\ \A b \in Int : b \in Cut(imm, 5, 10, 25) <=> 25 <= b /\ b <= 30 /\ b - 20 \in imm
      /\ \A b \in Int : b \in Cut(imm, 1, 4, 8) <=> 8 <= b /\ b <= 11 /\ b - 7 \in imm
      /\ \A b \in Int : b \in Cut(imm, 11, 11, 7) <=> 7 <= b /\ b <= 7 /\ b + 4 \in imm
  BY <1>0, EncoderCuts
<1>5. /\ Cut(imm, 12, 12, 31) \subseteq Int
      /\ Cut(imm, 5, 10, 25) \subseteq Int
      /\ Cut(imm, 1, 4, 8) \subseteq Int
      /\ Cut(imm, 11, 11, 7) \subseteq Int
  BY <1>0, CutsAreNumbers
<1>6. w \subseteq Int
  BY <1>1, <1>2, <1>4, <1>5 DEF BType
<1>7. \A b \in Int : b \in w <=>
        \/ 31 <= b /\ b <= 31 /\ b - 19 \in imm
        \/ 25 <= b /\ b <= 30 /\ b - 20 \in imm
        \/ 8 <= b /\ b <= 11 /\ b - 7 \in imm
        \/ 7 <= b /\ b <= 7 /\ b + 4 \in imm
        \/ b - 20 \in BitsOf(rs2)
        \/ b - 15 \in BitsOf(rs1)
        \/ b - 12 \in BitsOf(f3)
        \/ b \in BitsOf(opc)
  BY <1>1, <1>2, <1>4, <1>5 DEF BType
<1> HIDE DEF w
<1>8. w \subseteq WordBits
  BY <1>3, <1>6, <1>7 DEF WordBits
<1>9. Holds(w, rs2, 20, 24)
  BY <1>3, <1>7 DEF Holds
<1>10. Holds(w, rs1, 15, 19)
  BY <1>3, <1>7 DEF Holds
<1>11. Holds(w, f3, 12, 14)
  BY <1>3, <1>7 DEF Holds
<1>12. Holds(w, opc, 0, 6)
  BY <1>3, <1>7 DEF Holds
<1>13. Rs2(w) = rs2 /\ Rs1(w) = rs1 /\ Funct3(w) = f3 /\ Opcode(w) = opc
  BY <1>m, <1>6, <1>9, <1>10, <1>11, <1>12, Rs2Read, Rs1Read, Funct3Read, OpcodeRead
<1>14. \A b \in Int : 31 <= b /\ b <= 31 => (b \in w <=> b - 19 \in imm)
  BY <1>3, <1>7
<1>15. \A b \in Int : 25 <= b /\ b <= 30 => (b \in w <=> b - 20 \in imm)
  BY <1>3, <1>7
<1>16. \A b \in Int : 8 <= b /\ b <= 11 => (b \in w <=> b - 7 \in imm)
  BY <1>3, <1>7
<1>17. \A b \in Int : 7 <= b /\ b <= 7 => (b \in w <=> b + 4 \in imm)
  BY <1>3, <1>7
<1> QED
  BY <1>8, <1>13, <1>14, <1>15, <1>16, <1>17 DEF w, BPlaced

\* Where a U-type word holds the bits of its immediate.
UPlaced(w, imm) ==
  /\ \A b \in Int : 12 <= b /\ b <= 31 => (b \in w <=> b \in imm)

LEMMA URead ==
  ASSUME NEW imm \in SUBSET WordBits, NEW rd \in Register, NEW opc \in Code7
  PROVE  /\ UType(imm, rd, opc) \subseteq WordBits
         /\ Rd(UType(imm, rd, opc)) = rd
         /\ Opcode(UType(imm, rd, opc)) = opc
         /\ UPlaced(UType(imm, rd, opc), imm)
<1> DEFINE w == UType(imm, rd, opc)
<1>0. imm \in SUBSET Int
  BY DEF WordBits
<1>m. rd \in 0 .. 31 /\ opc \in 0 .. 127
  BY DEF Register, Code7
<1>n. rd \in Nat /\ opc \in Nat
  BY <1>m
<1>1. /\ \A b \in Int : b \in Field(rd, 7) <=> b - 7 \in BitsOf(rd)
      /\ \A b \in Int : b \in Field(opc, 0) <=> b \in BitsOf(opc)
  BY <1>n, FieldAt
<1>2. Field(rd, 7) \subseteq Int /\ Field(opc, 0) \subseteq Int
  BY <1>n, FieldAt
<1>3. BitsOf(rd) \subseteq 0 .. 4 /\ BitsOf(opc) \subseteq 0 .. 6
  BY <1>m, BitsBelow
<1>6. w \subseteq Int
  BY <1>0, <1>1, <1>2 DEF UType
<1>7. \A b \in Int : b \in w <=>
        \/ 12 <= b /\ b <= 31 /\ b \in imm
        \/ b - 7 \in BitsOf(rd)
        \/ b \in BitsOf(opc)
  BY <1>0, <1>1, <1>2 DEF UType
<1> HIDE DEF w
<1>8. w \subseteq WordBits
  BY <1>3, <1>6, <1>7 DEF WordBits
<1>9. Holds(w, rd, 7, 11)
  BY <1>3, <1>7 DEF Holds
<1>10. Holds(w, opc, 0, 6)
  BY <1>3, <1>7 DEF Holds
<1>11. Rd(w) = rd /\ Opcode(w) = opc
  BY <1>m, <1>6, <1>9, <1>10, RdRead, OpcodeRead
<1>12. \A b \in Int : 12 <= b /\ b <= 31 => (b \in w <=> b \in imm)
  BY <1>3, <1>7
<1> QED
  BY <1>8, <1>11, <1>12 DEF w, UPlaced

\* Where a JAL holds the bits of its immediate.
JPlaced(w, imm) ==
  /\ \A b \in Int : 31 <= b /\ b <= 31 => (b \in w <=> b - 11 \in imm)
  /\ \A b \in Int : 21 <= b /\ b <= 30 => (b \in w <=> b - 20 \in imm)
  /\ \A b \in Int : 20 <= b /\ b <= 20 => (b \in w <=> b - 9 \in imm)
  /\ \A b \in Int : 12 <= b /\ b <= 19 => (b \in w <=> b \in imm)

LEMMA JRead ==
  ASSUME NEW imm \in SUBSET WordBits, NEW rd \in Register, NEW opc \in Code7
  PROVE  /\ JType(imm, rd, opc) \subseteq WordBits
         /\ Rd(JType(imm, rd, opc)) = rd
         /\ Opcode(JType(imm, rd, opc)) = opc
         /\ JPlaced(JType(imm, rd, opc), imm)
<1> DEFINE w == JType(imm, rd, opc)
<1>0. imm \in SUBSET Int
  BY DEF WordBits
<1>m. rd \in 0 .. 31 /\ opc \in 0 .. 127
  BY DEF Register, Code7
<1>n. rd \in Nat /\ opc \in Nat
  BY <1>m
<1>1. /\ \A b \in Int : b \in Field(rd, 7) <=> b - 7 \in BitsOf(rd)
      /\ \A b \in Int : b \in Field(opc, 0) <=> b \in BitsOf(opc)
  BY <1>n, FieldAt
<1>2. Field(rd, 7) \subseteq Int /\ Field(opc, 0) \subseteq Int
  BY <1>n, FieldAt
<1>3. BitsOf(rd) \subseteq 0 .. 4 /\ BitsOf(opc) \subseteq 0 .. 6
  BY <1>m, BitsBelow
<1>4. /\ \A b \in Int : b \in Cut(imm, 20, 20, 31) <=> 31 <= b /\ b <= 31 /\ b - 11 \in imm
      /\ \A b \in Int : b \in Cut(imm, 1, 10, 21) <=> 21 <= b /\ b <= 30 /\ b - 20 \in imm
      /\ \A b \in Int : b \in Cut(imm, 11, 11, 20) <=> 20 <= b /\ b <= 20 /\ b - 9 \in imm
      /\ \A b \in Int : b \in Cut(imm, 12, 19, 12) <=> 12 <= b /\ b <= 19 /\ b \in imm
  BY <1>0, EncoderCuts, DecoderCuts
<1>5. /\ Cut(imm, 20, 20, 31) \subseteq Int
      /\ Cut(imm, 1, 10, 21) \subseteq Int
      /\ Cut(imm, 11, 11, 20) \subseteq Int
      /\ Cut(imm, 12, 19, 12) \subseteq Int
  BY <1>0, CutsAreNumbers
<1>6. w \subseteq Int
  BY <1>1, <1>2, <1>4, <1>5 DEF JType
<1>7. \A b \in Int : b \in w <=>
        \/ 31 <= b /\ b <= 31 /\ b - 11 \in imm
        \/ 21 <= b /\ b <= 30 /\ b - 20 \in imm
        \/ 20 <= b /\ b <= 20 /\ b - 9 \in imm
        \/ 12 <= b /\ b <= 19 /\ b \in imm
        \/ b - 7 \in BitsOf(rd)
        \/ b \in BitsOf(opc)
  BY <1>1, <1>2, <1>4, <1>5 DEF JType
<1> HIDE DEF w
<1>8. w \subseteq WordBits
  BY <1>3, <1>6, <1>7 DEF WordBits
<1>9. Holds(w, rd, 7, 11)
  BY <1>3, <1>7 DEF Holds
<1>10. Holds(w, opc, 0, 6)
  BY <1>3, <1>7 DEF Holds
<1>11. Rd(w) = rd /\ Opcode(w) = opc
  BY <1>m, <1>6, <1>9, <1>10, RdRead, OpcodeRead
<1>12. \A b \in Int : 31 <= b /\ b <= 31 => (b \in w <=> b - 11 \in imm)
  BY <1>3, <1>7
<1>13. \A b \in Int : 21 <= b /\ b <= 30 => (b \in w <=> b - 20 \in imm)
  BY <1>3, <1>7
<1>14. \A b \in Int : 20 <= b /\ b <= 20 => (b \in w <=> b - 9 \in imm)
  BY <1>3, <1>7
<1>15. \A b \in Int : 12 <= b /\ b <= 19 => (b \in w <=> b \in imm)
  BY <1>3, <1>7
<1> QED
  BY <1>8, <1>11, <1>12, <1>13, <1>14, <1>15 DEF w, JPlaced

-----------------------------------------------------------------------------
(* The immediates, read back. *)

\* The immediate of I-type, as decoder.sv and as step() put it together.
ISv(w) == Cut(w, 20, 31, 0) \cup Sign(w, 31, 12)
IStep(w) == SExt(Cut(w, 20, 31, 0), 12)

LEMMA IImmediate ==
  ASSUME NEW imm \in SUBSET WordBits,
         NEW rs1 \in Register, NEW f3 \in Code3, NEW rd \in Register, NEW opc \in Code7,
         imm \cap (11 .. 31) \in {{}, 11 .. 31}
  PROVE  /\ ISv(IType(imm, rs1, f3, rd, opc)) = imm
         /\ IStep(IType(imm, rs1, f3, rd, opc)) = imm
<1> DEFINE w == IType(imm, rs1, f3, rd, opc)
<1>1. w \subseteq Int /\ imm \subseteq Int
  <2>1. w \subseteq WordBits
    BY IRead
  <2> HIDE DEF w
  <2> QED
    BY <2>1 DEF WordBits
<1>2. /\ \A b \in Int : 20 <= b /\ b <= 31 => (b \in w <=> b - 20 \in imm)
  BY IRead DEF IPlaced
<1> HIDE DEF w
<1> DEFINE sv == ISv(w)
           step == IStep(w)
<1> USE DEF ISv, IStep
<1>3. /\ \A b \in Int : b \in Cut(w, 20, 31, 0) <=> 0 <= b /\ b <= 11 /\ b + 20 \in w
  BY <1>1, DecoderCuts, Segments
<1>4. Cut(w, 20, 31, 0) \subseteq Int
  BY <1>1, CutsAreNumbers
<1>5. \A b \in Int : b \in Sign(w, 31, 12) <=> 31 \in w /\ 12 <= b /\ b <= 31
  BY DEF Sign
<1>6. Sign(w, 31, 12) \subseteq Int
  BY DEF Sign
<1>7. \A b \in Int : b \in imm => 0 <= b /\ b <= 31
  BY DEF WordBits
<1>8. \A b \in Int : 11 <= b /\ b <= 31 => (b \in imm <=> 11 \in imm)
  OBVIOUS
<1>9. 31 \in w <=> 11 \in imm
  <2>1. 31 - 20 = 11
    OBVIOUS
  <2> QED
    BY <1>2, <2>1
<1>10. \A b \in Int : b \in sv <=>
         \/ 0 <= b /\ b <= 11 /\ b + 20 \in w
         \/ 31 \in w /\ 12 <= b /\ b <= 31
  BY <1>3, <1>5
<1>11. sv \subseteq Int
  BY <1>4, <1>6
<1>12. step \subseteq Int
  BY <1>4 DEF SExt
<1>13. 11 \in Cut(w, 20, 31, 0) <=> 31 \in w
  <2>1. 11 + 20 = 31
    OBVIOUS
  <2> QED
    BY <1>3, <2>1
<1>14. \A b \in Int : b \in step <=>
         \/ 0 <= b /\ b <= 11 /\ b + 20 \in w
         \/ 31 \in w /\ 12 <= b /\ b <= 31
  <2>1. 12 - 1 = 11
    OBVIOUS
  <2> QED
    BY <1>3, <1>13, <2>1 DEF SExt
<1>15. \A b \in Int : (0 <= b /\ b <= 11 => (b + 20 \in w <=> b \in imm))
  <2> TAKE b \in Int
  <2>1. 0 <= b /\ b <= 11 => (b + 20 \in w <=> b \in imm)
    <3>1. b + 20 \in Int /\ (b + 20) - 20 = b
      OBVIOUS
    <3> QED
      BY <1>2, <3>1
  <2> QED
    BY <2>1
<1> HIDE DEF sv, step, ISv, IStep
<1>16. \A b \in Int : b \in sv <=> b \in imm
  BY <1>7, <1>8, <1>9, <1>10, <1>15
<1>17. \A b \in Int : b \in step <=> b \in imm
  BY <1>7, <1>8, <1>9, <1>14, <1>15
<1> QED
  BY <1>1, <1>11, <1>12, <1>16, <1>17 DEF sv, step, w

\* The immediate of stores, as decoder.sv and as step() put it together.
SSv(w) == UNION {Cut(w, 7, 11, 0), Cut(w, 25, 31, 5), Sign(w, 31, 12)}
SStep(w) == SExt(Cut(w, 25, 31, 5) \cup Cut(w, 7, 11, 0), 12)

LEMMA SImmediate ==
  ASSUME NEW imm \in SUBSET WordBits,
         NEW rs2 \in Register, NEW rs1 \in Register, NEW f3 \in Code3, NEW opc \in Code7,
         imm \cap (11 .. 31) \in {{}, 11 .. 31}
  PROVE  /\ SSv(SType(imm, rs2, rs1, f3, opc)) = imm
         /\ SStep(SType(imm, rs2, rs1, f3, opc)) = imm
<1> DEFINE w == SType(imm, rs2, rs1, f3, opc)
<1>1. w \subseteq Int /\ imm \subseteq Int
  <2>1. w \subseteq WordBits
    BY SRead
  <2> HIDE DEF w
  <2> QED
    BY <2>1 DEF WordBits
<1>2. /\ \A b \in Int : 7 <= b /\ b <= 11 => (b \in w <=> b - 7 \in imm)
      /\ \A b \in Int : 25 <= b /\ b <= 31 => (b \in w <=> b - 20 \in imm)
  BY SRead DEF SPlaced
<1> HIDE DEF w
<1> DEFINE sv == SSv(w)
           step == SStep(w)
<1> USE DEF SSv, SStep
<1>3. /\ \A b \in Int : b \in Cut(w, 7, 11, 0) <=> 0 <= b /\ b <= 4 /\ b + 7 \in w
      /\ \A b \in Int : b \in Cut(w, 25, 31, 5) <=> 5 <= b /\ b <= 11 /\ b + 20 \in w
  BY <1>1, DecoderCuts, Segments
<1>4. Cut(w, 7, 11, 0) \subseteq Int /\ Cut(w, 25, 31, 5) \subseteq Int
  BY <1>1, CutsAreNumbers
<1>5. \A b \in Int : b \in Sign(w, 31, 12) <=> 31 \in w /\ 12 <= b /\ b <= 31
  BY DEF Sign
<1>6. Sign(w, 31, 12) \subseteq Int
  BY DEF Sign
<1>7. \A b \in Int : b \in imm => 0 <= b /\ b <= 31
  BY DEF WordBits
<1>8. \A b \in Int : 11 <= b /\ b <= 31 => (b \in imm <=> 11 \in imm)
  OBVIOUS
<1>9. 31 \in w <=> 11 \in imm
  <2>1. 31 - 20 = 11
    OBVIOUS
  <2> QED
    BY <1>2, <2>1
<1>10. \A b \in Int : b \in sv <=>
         \/ 0 <= b /\ b <= 4 /\ b + 7 \in w
         \/ 5 <= b /\ b <= 11 /\ b + 20 \in w
         \/ 31 \in w /\ 12 <= b /\ b <= 31
  BY <1>3, <1>5
<1>11. sv \subseteq Int
  BY <1>4, <1>6
<1>12. step \subseteq Int
  BY <1>4 DEF SExt
<1>13. 11 \in Cut(w, 25, 31, 5) \cup Cut(w, 7, 11, 0) <=> 31 \in w
  <2>1. 11 + 20 = 31
    OBVIOUS
  <2> QED
    BY <1>3, <2>1
<1>14. \A b \in Int : b \in step <=>
         \/ 0 <= b /\ b <= 4 /\ b + 7 \in w
         \/ 5 <= b /\ b <= 11 /\ b + 20 \in w
         \/ 31 \in w /\ 12 <= b /\ b <= 31
  <2>1. 12 - 1 = 11
    OBVIOUS
  <2> QED
    BY <1>3, <1>13, <2>1 DEF SExt
<1>15. \A b \in Int : (0 <= b /\ b <= 4 => (b + 7 \in w <=> b \in imm))
                         /\ (5 <= b /\ b <= 11 => (b + 20 \in w <=> b \in imm))
  <2> TAKE b \in Int
  <2>1. 0 <= b /\ b <= 4 => (b + 7 \in w <=> b \in imm)
    <3>1. b + 7 \in Int /\ (b + 7) - 7 = b
      OBVIOUS
    <3> QED
      BY <1>2, <3>1
  <2>2. 5 <= b /\ b <= 11 => (b + 20 \in w <=> b \in imm)
    <3>1. b + 20 \in Int /\ (b + 20) - 20 = b
      OBVIOUS
    <3> QED
      BY <1>2, <3>1
  <2> QED
    BY <2>1, <2>2
<1> HIDE DEF sv, step, SSv, SStep
<1>16. \A b \in Int : b \in sv <=> b \in imm
  BY <1>7, <1>8, <1>9, <1>10, <1>15
<1>17. \A b \in Int : b \in step <=> b \in imm
  BY <1>7, <1>8, <1>9, <1>14, <1>15
<1> QED
  BY <1>1, <1>11, <1>12, <1>16, <1>17 DEF sv, step, w

\* The immediate of branches, as decoder.sv and as step() put it together.
BSv(w) == UNION {Cut(w, 8, 11, 1), Cut(w, 25, 30, 5), Cut(w, 7, 7, 11), Sign(w, 31, 12)}
BStep(w) == SExt(UNION {Cut(w, 31, 31, 12), Cut(w, 7, 7, 11), Cut(w, 25, 30, 5), Cut(w, 8, 11, 1)}, 13)

LEMMA BImmediate ==
  ASSUME NEW imm \in SUBSET WordBits,
         NEW rs2 \in Register, NEW rs1 \in Register, NEW f3 \in Code3, NEW opc \in Code7,
         0 \notin imm,
         imm \cap (12 .. 31) \in {{}, 12 .. 31}
  PROVE  /\ BSv(BType(imm, rs2, rs1, f3, opc)) = imm
         /\ BStep(BType(imm, rs2, rs1, f3, opc)) = imm
<1> DEFINE w == BType(imm, rs2, rs1, f3, opc)
<1>1. w \subseteq Int /\ imm \subseteq Int
  <2>1. w \subseteq WordBits
    BY BRead
  <2> HIDE DEF w
  <2> QED
    BY <2>1 DEF WordBits
<1>2. /\ \A b \in Int : 31 <= b /\ b <= 31 => (b \in w <=> b - 19 \in imm)
      /\ \A b \in Int : 25 <= b /\ b <= 30 => (b \in w <=> b - 20 \in imm)
      /\ \A b \in Int : 8 <= b /\ b <= 11 => (b \in w <=> b - 7 \in imm)
      /\ \A b \in Int : 7 <= b /\ b <= 7 => (b \in w <=> b + 4 \in imm)
  BY BRead DEF BPlaced
<1> HIDE DEF w
<1> DEFINE sv == BSv(w)
           step == BStep(w)
<1> USE DEF BSv, BStep
<1>3. /\ \A b \in Int : b \in Cut(w, 8, 11, 1) <=> 1 <= b /\ b <= 4 /\ b + 7 \in w
      /\ \A b \in Int : b \in Cut(w, 25, 30, 5) <=> 5 <= b /\ b <= 10 /\ b + 20 \in w
      /\ \A b \in Int : b \in Cut(w, 7, 7, 11) <=> 11 <= b /\ b <= 11 /\ b - 4 \in w
      /\ \A b \in Int : b \in Cut(w, 31, 31, 12) <=> 12 <= b /\ b <= 12 /\ b + 19 \in w
  BY <1>1, DecoderCuts, Segments
<1>4. Cut(w, 8, 11, 1) \subseteq Int /\ Cut(w, 25, 30, 5) \subseteq Int /\ Cut(w, 7, 7, 11) \subseteq Int /\ Cut(w, 31, 31, 12) \subseteq Int
  BY <1>1, CutsAreNumbers
<1>5. \A b \in Int : b \in Sign(w, 31, 12) <=> 31 \in w /\ 12 <= b /\ b <= 31
  BY DEF Sign
<1>6. Sign(w, 31, 12) \subseteq Int
  BY DEF Sign
<1>7. \A b \in Int : b \in imm => 0 <= b /\ b <= 31
  BY DEF WordBits
<1>8. \A b \in Int : 12 <= b /\ b <= 31 => (b \in imm <=> 12 \in imm)
  OBVIOUS
<1>9. 31 \in w <=> 12 \in imm
  <2>1. 31 - 19 = 12
    OBVIOUS
  <2> QED
    BY <1>2, <2>1
<1>10. \A b \in Int : b \in sv <=>
         \/ 1 <= b /\ b <= 4 /\ b + 7 \in w
         \/ 5 <= b /\ b <= 10 /\ b + 20 \in w
         \/ 11 <= b /\ b <= 11 /\ b - 4 \in w
         \/ 31 \in w /\ 12 <= b /\ b <= 31
  BY <1>3, <1>5
<1>11. sv \subseteq Int
  BY <1>4, <1>6
<1>12. step \subseteq Int
  BY <1>4 DEF SExt
<1>13. 12 \in UNION {Cut(w, 31, 31, 12), Cut(w, 7, 7, 11), Cut(w, 25, 30, 5), Cut(w, 8, 11, 1)} <=> 31 \in w
  <2>1. 12 + 19 = 31
    OBVIOUS
  <2> QED
    BY <1>3, <2>1
<1>14. \A b \in Int : b \in step <=>
         \/ 1 <= b /\ b <= 4 /\ b + 7 \in w
         \/ 5 <= b /\ b <= 10 /\ b + 20 \in w
         \/ 11 <= b /\ b <= 11 /\ b - 4 \in w
         \/ 12 <= b /\ b <= 12 /\ b + 19 \in w
         \/ 31 \in w /\ 13 <= b /\ b <= 31
  <2>1. 13 - 1 = 12
    OBVIOUS
  <2> QED
    BY <1>3, <1>13, <2>1 DEF SExt
<1>15. \A b \in Int : (1 <= b /\ b <= 4 => (b + 7 \in w <=> b \in imm))
                         /\ (5 <= b /\ b <= 10 => (b + 20 \in w <=> b \in imm))
                         /\ (11 <= b /\ b <= 11 => (b - 4 \in w <=> b \in imm))
                         /\ (12 <= b /\ b <= 12 => (b + 19 \in w <=> b \in imm))
  <2> TAKE b \in Int
  <2>1. 1 <= b /\ b <= 4 => (b + 7 \in w <=> b \in imm)
    <3>1. b + 7 \in Int /\ (b + 7) - 7 = b
      OBVIOUS
    <3> QED
      BY <1>2, <3>1
  <2>2. 5 <= b /\ b <= 10 => (b + 20 \in w <=> b \in imm)
    <3>1. b + 20 \in Int /\ (b + 20) - 20 = b
      OBVIOUS
    <3> QED
      BY <1>2, <3>1
  <2>3. 11 <= b /\ b <= 11 => (b - 4 \in w <=> b \in imm)
    <3>1. b - 4 \in Int /\ (b - 4) + 4 = b
      OBVIOUS
    <3> QED
      BY <1>2, <3>1
  <2>4. 12 <= b /\ b <= 12 => (b + 19 \in w <=> b \in imm)
    <3>1. b + 19 \in Int /\ (b + 19) - 19 = b
      OBVIOUS
    <3> QED
      BY <1>2, <3>1
  <2> QED
    BY <2>1, <2>2, <2>3, <2>4
<1> HIDE DEF sv, step, BSv, BStep
<1>16. \A b \in Int : b \in sv <=> b \in imm
  BY <1>7, <1>8, <1>9, <1>10, <1>15
<1>17. \A b \in Int : b \in step <=> b \in imm
  BY <1>7, <1>8, <1>9, <1>14, <1>15
<1> QED
  BY <1>1, <1>11, <1>12, <1>16, <1>17 DEF sv, step, w

\* The immediate of JAL, as decoder.sv and as step() put it together.
JSv(w) == UNION {Cut(w, 21, 30, 1), Cut(w, 20, 20, 11), Cut(w, 12, 19, 12), Sign(w, 31, 20)}
JStep(w) == SExt(UNION {Cut(w, 31, 31, 20), Cut(w, 12, 19, 12), Cut(w, 20, 20, 11), Cut(w, 21, 30, 1)}, 21)

LEMMA JImmediate ==
  ASSUME NEW imm \in SUBSET WordBits,
         NEW rd \in Register, NEW opc \in Code7,
         0 \notin imm,
         imm \cap (20 .. 31) \in {{}, 20 .. 31}
  PROVE  /\ JSv(JType(imm, rd, opc)) = imm
         /\ JStep(JType(imm, rd, opc)) = imm
<1> DEFINE w == JType(imm, rd, opc)
<1>1. w \subseteq Int /\ imm \subseteq Int
  <2>1. w \subseteq WordBits
    BY JRead
  <2> HIDE DEF w
  <2> QED
    BY <2>1 DEF WordBits
<1>2. /\ \A b \in Int : 31 <= b /\ b <= 31 => (b \in w <=> b - 11 \in imm)
      /\ \A b \in Int : 21 <= b /\ b <= 30 => (b \in w <=> b - 20 \in imm)
      /\ \A b \in Int : 20 <= b /\ b <= 20 => (b \in w <=> b - 9 \in imm)
      /\ \A b \in Int : 12 <= b /\ b <= 19 => (b \in w <=> b \in imm)
  BY JRead DEF JPlaced
<1> HIDE DEF w
<1> DEFINE sv == JSv(w)
           step == JStep(w)
<1> USE DEF JSv, JStep
<1>3. /\ \A b \in Int : b \in Cut(w, 21, 30, 1) <=> 1 <= b /\ b <= 10 /\ b + 20 \in w
      /\ \A b \in Int : b \in Cut(w, 20, 20, 11) <=> 11 <= b /\ b <= 11 /\ b + 9 \in w
      /\ \A b \in Int : b \in Cut(w, 12, 19, 12) <=> 12 <= b /\ b <= 19 /\ b \in w
      /\ \A b \in Int : b \in Cut(w, 31, 31, 20) <=> 20 <= b /\ b <= 20 /\ b + 11 \in w
  BY <1>1, DecoderCuts, Segments
<1>4. Cut(w, 21, 30, 1) \subseteq Int /\ Cut(w, 20, 20, 11) \subseteq Int /\ Cut(w, 12, 19, 12) \subseteq Int /\ Cut(w, 31, 31, 20) \subseteq Int
  BY <1>1, CutsAreNumbers
<1>5. \A b \in Int : b \in Sign(w, 31, 20) <=> 31 \in w /\ 20 <= b /\ b <= 31
  BY DEF Sign
<1>6. Sign(w, 31, 20) \subseteq Int
  BY DEF Sign
<1>7. \A b \in Int : b \in imm => 0 <= b /\ b <= 31
  BY DEF WordBits
<1>8. \A b \in Int : 20 <= b /\ b <= 31 => (b \in imm <=> 20 \in imm)
  OBVIOUS
<1>9. 31 \in w <=> 20 \in imm
  <2>1. 31 - 11 = 20
    OBVIOUS
  <2> QED
    BY <1>2, <2>1
<1>10. \A b \in Int : b \in sv <=>
         \/ 1 <= b /\ b <= 10 /\ b + 20 \in w
         \/ 11 <= b /\ b <= 11 /\ b + 9 \in w
         \/ 12 <= b /\ b <= 19 /\ b \in w
         \/ 31 \in w /\ 20 <= b /\ b <= 31
  BY <1>3, <1>5
<1>11. sv \subseteq Int
  BY <1>4, <1>6
<1>12. step \subseteq Int
  BY <1>4 DEF SExt
<1>13. 20 \in UNION {Cut(w, 31, 31, 20), Cut(w, 12, 19, 12), Cut(w, 20, 20, 11), Cut(w, 21, 30, 1)} <=> 31 \in w
  <2>1. 20 + 11 = 31
    OBVIOUS
  <2> QED
    BY <1>3, <2>1
<1>14. \A b \in Int : b \in step <=>
         \/ 1 <= b /\ b <= 10 /\ b + 20 \in w
         \/ 11 <= b /\ b <= 11 /\ b + 9 \in w
         \/ 12 <= b /\ b <= 19 /\ b \in w
         \/ 20 <= b /\ b <= 20 /\ b + 11 \in w
         \/ 31 \in w /\ 21 <= b /\ b <= 31
  <2>1. 21 - 1 = 20
    OBVIOUS
  <2> QED
    BY <1>3, <1>13, <2>1 DEF SExt
<1>15. \A b \in Int : (1 <= b /\ b <= 10 => (b + 20 \in w <=> b \in imm))
                         /\ (11 <= b /\ b <= 11 => (b + 9 \in w <=> b \in imm))
                         /\ (12 <= b /\ b <= 19 => (b \in w <=> b \in imm))
                         /\ (20 <= b /\ b <= 20 => (b + 11 \in w <=> b \in imm))
  <2> TAKE b \in Int
  <2>1. 1 <= b /\ b <= 10 => (b + 20 \in w <=> b \in imm)
    <3>1. b + 20 \in Int /\ (b + 20) - 20 = b
      OBVIOUS
    <3> QED
      BY <1>2, <3>1
  <2>2. 11 <= b /\ b <= 11 => (b + 9 \in w <=> b \in imm)
    <3>1. b + 9 \in Int /\ (b + 9) - 9 = b
      OBVIOUS
    <3> QED
      BY <1>2, <3>1
  <2>3. 12 <= b /\ b <= 19 => (b \in w <=> b \in imm)
    BY <1>2
  <2>4. 20 <= b /\ b <= 20 => (b + 11 \in w <=> b \in imm)
    <3>1. b + 11 \in Int /\ (b + 11) - 11 = b
      OBVIOUS
    <3> QED
      BY <1>2, <3>1
  <2> QED
    BY <2>1, <2>2, <2>3, <2>4
<1> HIDE DEF sv, step, JSv, JStep
<1>16. \A b \in Int : b \in sv <=> b \in imm
  BY <1>7, <1>8, <1>9, <1>10, <1>15
<1>17. \A b \in Int : b \in step <=> b \in imm
  BY <1>7, <1>8, <1>9, <1>14, <1>15
<1> QED
  BY <1>1, <1>11, <1>12, <1>16, <1>17 DEF sv, step, w

\* The upper immediate is not moved.
LEMMA UImmediate ==
  ASSUME NEW imm \in SUBSET WordBits, NEW rd \in Register, NEW opc \in Code7,
         imm \cap (0 .. 11) = {}
  PROVE  UType(imm, rd, opc) \cap (12 .. 31) = imm
<1> DEFINE w == UType(imm, rd, opc)
<1>1. \A b \in Int : 12 <= b /\ b <= 31 => (b \in w <=> b \in imm)
  BY URead DEF UPlaced
<1>2. \A b \in Int : b \in imm => 12 <= b /\ b <= 31
  BY DEF WordBits
<1>3. imm \subseteq Int
  BY DEF WordBits
<1> HIDE DEF w
<1>4. w \cap (12 .. 31) \subseteq Int /\ \A b \in Int : b \in w \cap (12 .. 31) <=> b \in imm
  BY <1>1, <1>2
<1> QED
  BY <1>3, <1>4 DEF w

\* The shift amount and the function code share the immediate of a shift.
LEMMA ShiftImmediate ==
  ASSUME NEW imm \in SUBSET (0 .. 4), NEW f7 \in Code7, NEW rs1 \in Register, NEW f3 \in Code3,
         NEW rd \in Register, NEW opc \in Code7
  PROVE  LET x == Cut(imm, 0, 4, 0) \cup Field(f7, 5)
             w == IType(x, rs1, f3, rd, opc) IN
         /\ x \subseteq WordBits
         /\ Funct7(w) = f7 /\ Cut(w, 20, 24, 0) = imm
<1> DEFINE x == Cut(imm, 0, 4, 0) \cup Field(f7, 5)
           w == IType(x, rs1, f3, rd, opc)
<1>0. imm \in SUBSET Int /\ f7 \in Nat /\ f7 \in 0 .. 127
  BY DEF Code7
<1>1. \A b \in Int : b \in Field(f7, 5) <=> b - 5 \in BitsOf(f7)
  BY <1>0, FieldIn
<1>2. Field(f7, 5) \subseteq Int
  BY <1>0, FieldIn
<1>3. BitsOf(f7) \subseteq 0 .. 6
  BY <1>0, BitsBelow
<1>4. \A b \in Int : b \in Cut(imm, 0, 4, 0) <=> 0 <= b /\ b <= 4 /\ b \in imm
  BY <1>0, Segments
<1>5. Cut(imm, 0, 4, 0) \subseteq Int
  BY <1>0, CutsAreNumbers
<1>6. x \subseteq Int /\ \A b \in Int : b \in x <=> b \in imm \/ b - 5 \in BitsOf(f7)
  BY <1>1, <1>2, <1>4, <1>5
<1> HIDE DEF x
<1>7. x \subseteq WordBits
  BY <1>3, <1>6 DEF WordBits
<1>8. \A b \in Int : 20 <= b /\ b <= 31 => (b \in w <=> b - 20 \in x)
  BY <1>7, IRead DEF IPlaced
<1>9. w \subseteq WordBits
  BY <1>7, IRead
<1> HIDE DEF w
<1>10. w \subseteq Int
  BY <1>9 DEF WordBits
<1>11. Holds(w, f7, 25, 31)
  <2> SUFFICES ASSUME NEW b \in Int, 25 <= b, b <= 31 PROVE b \in w <=> b - 25 \in BitsOf(f7)
    BY DEF Holds
  <2>1. b - 20 \in Int /\ (b - 20) - 5 = b - 25
    OBVIOUS
  <2>2. b \in w <=> b - 20 \in x
    BY <1>8
  <2>3. b - 20 \notin imm
    OBVIOUS
  <2> QED
    BY <1>6, <2>1, <2>2, <2>3
<1>12. Funct7(w) = f7
  BY <1>0, <1>10, <1>11, Funct7Read
<1>13. \A b \in Int : b \in Cut(w, 20, 24, 0) <=> 0 <= b /\ b <= 4 /\ b + 20 \in w
  BY <1>10, Segments
<1>14. Cut(w, 20, 24, 0) \subseteq Int
  BY <1>10, CutsAreNumbers
<1>15. \A b \in Int : 0 <= b /\ b <= 4 => (b + 20 \in w <=> b \in imm)
  <2> TAKE b \in Int
  <2>1. b + 20 \in Int /\ (b + 20) - 20 = b
    OBVIOUS
  <2>2. 0 <= b /\ b <= 4 => b - 5 \notin BitsOf(f7)
    BY <1>3
  <2> QED
    BY <1>6, <1>8, <2>1, <2>2
<1>16. \A b \in Int : b \in Cut(w, 20, 24, 0) <=> b \in imm
  BY <1>13, <1>15
<1>17. Cut(w, 20, 24, 0) = imm
  BY <1>0, <1>14, <1>16
<1> QED
  BY <1>7, <1>12, <1>17 DEF x, w

-----------------------------------------------------------------------------
(* The tables of mnemonics. *)

LEMMA NamedIs ==
  ASSUME NEW table, NEW m \in DOMAIN table,
         \A n \in DOMAIN table : table[n] = table[m] => n = m
  PROVE  Named(table, table[m]) = m
BY DEF Named

LEMMA OpImmNames ==
  /\ \A m \in DOMAIN OpImm : OpImm[m] \in {0, 2, 3, 4, 6, 7} /\ Named(OpImm, OpImm[m]) = m
  /\ \A v : Named(OpImm, v) = "illegal" <=> v \notin {0, 2, 3, 4, 6, 7}
<1>1. DOMAIN OpImm = {"addi", "slti", "sltiu", "xori", "ori", "andi"}
  BY DEF OpImm
<1>2. /\ OpImm["addi"] = 0 /\ OpImm["slti"] = 2 /\ OpImm["sltiu"] = 3
      /\ OpImm["xori"] = 4 /\ OpImm["ori"] = 6 /\ OpImm["andi"] = 7
  BY DEF OpImm
<1>3. \A m, n \in DOMAIN OpImm : OpImm[n] = OpImm[m] => n = m
  BY <1>1, <1>2
<1>4. \A m \in DOMAIN OpImm : Named(OpImm, OpImm[m]) = m
  BY <1>3, NamedIs
<1>5. \A v : (\E m \in DOMAIN OpImm : OpImm[m] = v) <=> v \in {0, 2, 3, 4, 6, 7}
  BY <1>1, <1>2
<1>6. ASSUME NEW v PROVE Named(OpImm, v) = "illegal" <=> v \notin {0, 2, 3, 4, 6, 7}
  <2>1. CASE v \in {0, 2, 3, 4, 6, 7}
    <3>1. PICK m \in DOMAIN OpImm : OpImm[m] = v
      BY <1>5, <2>1
    <3>2. Named(OpImm, v) = m /\ m # "illegal"
      BY <1>1, <1>4, <3>1
    <3> QED
      BY <2>1, <3>2
  <2>2. CASE v \notin {0, 2, 3, 4, 6, 7}
    BY <1>5, <2>2 DEF Named
  <2> QED
    BY <2>1, <2>2
<1> QED
  BY <1>1, <1>2, <1>4, <1>6

LEMMA BranchNames ==
  /\ \A m \in DOMAIN Branch : Branch[m] \in {0, 1, 4, 5, 6, 7} /\ Named(Branch, Branch[m]) = m
  /\ \A v : Named(Branch, v) = "illegal" <=> v \notin {0, 1, 4, 5, 6, 7}
<1>1. DOMAIN Branch = {"beq", "bne", "blt", "bge", "bltu", "bgeu"}
  BY DEF Branch
<1>2. /\ Branch["beq"] = 0 /\ Branch["bne"] = 1 /\ Branch["blt"] = 4
      /\ Branch["bge"] = 5 /\ Branch["bltu"] = 6 /\ Branch["bgeu"] = 7
  BY DEF Branch
<1>3. \A m, n \in DOMAIN Branch : Branch[n] = Branch[m] => n = m
  BY <1>1, <1>2
<1>4. \A m \in DOMAIN Branch : Named(Branch, Branch[m]) = m
  BY <1>3, NamedIs
<1>5. \A v : (\E m \in DOMAIN Branch : Branch[m] = v) <=> v \in {0, 1, 4, 5, 6, 7}
  BY <1>1, <1>2
<1>6. ASSUME NEW v PROVE Named(Branch, v) = "illegal" <=> v \notin {0, 1, 4, 5, 6, 7}
  <2>1. CASE v \in {0, 1, 4, 5, 6, 7}
    <3>1. PICK m \in DOMAIN Branch : Branch[m] = v
      BY <1>5, <2>1
    <3>2. Named(Branch, v) = m /\ m # "illegal"
      BY <1>1, <1>4, <3>1
    <3> QED
      BY <2>1, <3>2
  <2>2. CASE v \notin {0, 1, 4, 5, 6, 7}
    BY <1>5, <2>2 DEF Named
  <2> QED
    BY <2>1, <2>2
<1> QED
  BY <1>1, <1>2, <1>4, <1>6

LEMMA LoadNames ==
  /\ \A m \in DOMAIN Load : Load[m] \in {0, 1, 2, 4, 5} /\ Named(Load, Load[m]) = m
  /\ \A v : Named(Load, v) = "illegal" <=> v \notin {0, 1, 2, 4, 5}
<1>1. DOMAIN Load = {"lb", "lh", "lw", "lbu", "lhu"}
  BY DEF Load
<1>2. /\ Load["lb"] = 0 /\ Load["lh"] = 1 /\ Load["lw"] = 2
      /\ Load["lbu"] = 4 /\ Load["lhu"] = 5
  BY DEF Load
<1>3. \A m, n \in DOMAIN Load : Load[n] = Load[m] => n = m
  BY <1>1, <1>2
<1>4. \A m \in DOMAIN Load : Named(Load, Load[m]) = m
  BY <1>3, NamedIs
<1>5. \A v : (\E m \in DOMAIN Load : Load[m] = v) <=> v \in {0, 1, 2, 4, 5}
  BY <1>1, <1>2
<1>6. ASSUME NEW v PROVE Named(Load, v) = "illegal" <=> v \notin {0, 1, 2, 4, 5}
  <2>1. CASE v \in {0, 1, 2, 4, 5}
    <3>1. PICK m \in DOMAIN Load : Load[m] = v
      BY <1>5, <2>1
    <3>2. Named(Load, v) = m /\ m # "illegal"
      BY <1>1, <1>4, <3>1
    <3> QED
      BY <2>1, <3>2
  <2>2. CASE v \notin {0, 1, 2, 4, 5}
    BY <1>5, <2>2 DEF Named
  <2> QED
    BY <2>1, <2>2
<1> QED
  BY <1>1, <1>2, <1>4, <1>6

LEMMA StoreNames ==
  /\ \A m \in DOMAIN Store : Store[m] \in {0, 1, 2} /\ Named(Store, Store[m]) = m
  /\ \A v : Named(Store, v) = "illegal" <=> v \notin {0, 1, 2}
<1>1. DOMAIN Store = {"sb", "sh", "sw"}
  BY DEF Store
<1>2. /\ Store["sb"] = 0 /\ Store["sh"] = 1 /\ Store["sw"] = 2
  BY DEF Store
<1>3. \A m, n \in DOMAIN Store : Store[n] = Store[m] => n = m
  BY <1>1, <1>2
<1>4. \A m \in DOMAIN Store : Named(Store, Store[m]) = m
  BY <1>3, NamedIs
<1>5. \A v : (\E m \in DOMAIN Store : Store[m] = v) <=> v \in {0, 1, 2}
  BY <1>1, <1>2
<1>6. ASSUME NEW v PROVE Named(Store, v) = "illegal" <=> v \notin {0, 1, 2}
  <2>1. CASE v \in {0, 1, 2}
    <3>1. PICK m \in DOMAIN Store : Store[m] = v
      BY <1>5, <2>1
    <3>2. Named(Store, v) = m /\ m # "illegal"
      BY <1>1, <1>4, <3>1
    <3> QED
      BY <2>1, <3>2
  <2>2. CASE v \notin {0, 1, 2}
    BY <1>5, <2>2 DEF Named
  <2> QED
    BY <2>1, <2>2
<1> QED
  BY <1>1, <1>2, <1>4, <1>6

LEMMA ShiftNames ==
  /\ \A m \in DOMAIN Shift :
       /\ Shift[m][1] \in {0, 32} /\ Shift[m][2] \in {1, 5}
       /\ (Shift[m][1] = 0 /\ Shift[m][2] \in {1, 5}) \/ (Shift[m][1] = 32 /\ Shift[m][2] \in {5})
       /\ Named(Shift, <<Shift[m][1], Shift[m][2]>>) = m
  /\ \A f7, f3 \in Nat : Named(Shift, <<f7, f3>>) = "illegal" <=> ~((f7 = 0 /\ f3 \in {1, 5}) \/ (f7 = 32 /\ f3 \in {5}))
<1>1. DOMAIN Shift = {"slli", "srli", "srai"}
  BY DEF Shift
<1>2. /\ Shift["slli"] = <<0, 1>> /\ Shift["srli"] = <<0, 5>> /\ Shift["srai"] = <<32, 5>>
  BY DEF Shift
<1>3. \A m, n \in DOMAIN Shift : Shift[n] = Shift[m] => n = m
  BY <1>1, <1>2
<1>4. \A m \in DOMAIN Shift : Named(Shift, Shift[m]) = m
  BY <1>3, NamedIs
<1>5. \A f7, f3 \in Nat : (\E m \in DOMAIN Shift : Shift[m] = <<f7, f3>>) <=> ((f7 = 0 /\ f3 \in {1, 5}) \/ (f7 = 32 /\ f3 \in {5}))
  BY <1>1, <1>2
<1>6. ASSUME NEW f7 \in Nat, NEW f3 \in Nat
      PROVE  Named(Shift, <<f7, f3>>) = "illegal" <=> ~((f7 = 0 /\ f3 \in {1, 5}) \/ (f7 = 32 /\ f3 \in {5}))
  <2>1. CASE (f7 = 0 /\ f3 \in {1, 5}) \/ (f7 = 32 /\ f3 \in {5})
    <3>1. PICK m \in DOMAIN Shift : Shift[m] = <<f7, f3>>
      BY <1>5, <2>1
    <3>2. Named(Shift, <<f7, f3>>) = m /\ m # "illegal"
      BY <1>1, <1>4, <3>1
    <3> QED
      BY <2>1, <3>2
  <2>2. CASE ~((f7 = 0 /\ f3 \in {1, 5}) \/ (f7 = 32 /\ f3 \in {5}))
    BY <1>5, <2>2 DEF Named
  <2> QED
    BY <2>1, <2>2
<1>7. ASSUME NEW m \in DOMAIN Shift
      PROVE  Shift[m] = <<Shift[m][1], Shift[m][2]>>
  BY <1>1, <1>2
<1>8. ASSUME NEW m \in DOMAIN Shift
      PROVE  /\ Shift[m][1] \in {0, 32} /\ Shift[m][2] \in {1, 5}
             /\ (Shift[m][1] = 0 /\ Shift[m][2] \in {1, 5}) \/ (Shift[m][1] = 32 /\ Shift[m][2] \in {5})
  BY <1>1, <1>2
<1> QED
  BY <1>4, <1>6, <1>7, <1>8

LEMMA OpNames ==
  /\ \A m \in DOMAIN Op :
       /\ Op[m][1] \in {0, 32} /\ Op[m][2] \in {0, 1, 2, 3, 4, 5, 6, 7}
       /\ (Op[m][1] = 0 /\ Op[m][2] \in {0, 1, 2, 3, 4, 5, 6, 7}) \/ (Op[m][1] = 32 /\ Op[m][2] \in {0, 5})
       /\ Named(Op, <<Op[m][1], Op[m][2]>>) = m
  /\ \A f7, f3 \in Nat : Named(Op, <<f7, f3>>) = "illegal" <=> ~((f7 = 0 /\ f3 \in {0, 1, 2, 3, 4, 5, 6, 7}) \/ (f7 = 32 /\ f3 \in {0, 5}))
<1>1. DOMAIN Op = {"add", "sub", "sll", "slt", "sltu", "xor", "srl", "sra", "or", "and"}
  BY DEF Op
<1>2. /\ Op["add"] = <<0, 0>> /\ Op["sub"] = <<32, 0>> /\ Op["sll"] = <<0, 1>>
      /\ Op["slt"] = <<0, 2>> /\ Op["sltu"] = <<0, 3>> /\ Op["xor"] = <<0, 4>>
      /\ Op["srl"] = <<0, 5>> /\ Op["sra"] = <<32, 5>> /\ Op["or"] = <<0, 6>>
      /\ Op["and"] = <<0, 7>>
  BY DEF Op
<1>3. \A m, n \in DOMAIN Op : Op[n] = Op[m] => n = m
  BY <1>1, <1>2
<1>4. \A m \in DOMAIN Op : Named(Op, Op[m]) = m
  BY <1>3, NamedIs
<1>5. \A f7, f3 \in Nat : (\E m \in DOMAIN Op : Op[m] = <<f7, f3>>) <=> ((f7 = 0 /\ f3 \in {0, 1, 2, 3, 4, 5, 6, 7}) \/ (f7 = 32 /\ f3 \in {0, 5}))
  BY <1>1, <1>2
<1>6. ASSUME NEW f7 \in Nat, NEW f3 \in Nat
      PROVE  Named(Op, <<f7, f3>>) = "illegal" <=> ~((f7 = 0 /\ f3 \in {0, 1, 2, 3, 4, 5, 6, 7}) \/ (f7 = 32 /\ f3 \in {0, 5}))
  <2>1. CASE (f7 = 0 /\ f3 \in {0, 1, 2, 3, 4, 5, 6, 7}) \/ (f7 = 32 /\ f3 \in {0, 5})
    <3>1. PICK m \in DOMAIN Op : Op[m] = <<f7, f3>>
      BY <1>5, <2>1
    <3>2. Named(Op, <<f7, f3>>) = m /\ m # "illegal"
      BY <1>1, <1>4, <3>1
    <3> QED
      BY <2>1, <3>2
  <2>2. CASE ~((f7 = 0 /\ f3 \in {0, 1, 2, 3, 4, 5, 6, 7}) \/ (f7 = 32 /\ f3 \in {0, 5}))
    BY <1>5, <2>2 DEF Named
  <2> QED
    BY <2>1, <2>2
<1>7. ASSUME NEW m \in DOMAIN Op
      PROVE  Op[m] = <<Op[m][1], Op[m][2]>>
  BY <1>1, <1>2
<1>8. ASSUME NEW m \in DOMAIN Op
      PROVE  /\ Op[m][1] \in {0, 32} /\ Op[m][2] \in {0, 1, 2, 3, 4, 5, 6, 7}
             /\ (Op[m][1] = 0 /\ Op[m][2] \in {0, 1, 2, 3, 4, 5, 6, 7}) \/ (Op[m][1] = 32 /\ Op[m][2] \in {0, 5})
  BY <1>1, <1>2
<1> QED
  BY <1>4, <1>6, <1>7, <1>8

LEMMA MulDivNames ==
  /\ \A m \in DOMAIN MulDiv :
       /\ MulDiv[m][1] \in {1} /\ MulDiv[m][2] \in {0, 1, 2, 3, 4, 5, 6, 7}
       /\ (MulDiv[m][1] = 1 /\ MulDiv[m][2] \in {0, 1, 2, 3, 4, 5, 6, 7})
       /\ Named(MulDiv, <<MulDiv[m][1], MulDiv[m][2]>>) = m
  /\ \A f7, f3 \in Nat : Named(MulDiv, <<f7, f3>>) = "illegal" <=> ~((f7 = 1 /\ f3 \in {0, 1, 2, 3, 4, 5, 6, 7}))
<1>1. DOMAIN MulDiv = {"mul", "mulh", "mulhsu", "mulhu", "div", "divu", "rem", "remu"}
  BY DEF MulDiv
<1>2. /\ MulDiv["mul"] = <<1, 0>> /\ MulDiv["mulh"] = <<1, 1>> /\ MulDiv["mulhsu"] = <<1, 2>>
      /\ MulDiv["mulhu"] = <<1, 3>> /\ MulDiv["div"] = <<1, 4>> /\ MulDiv["divu"] = <<1, 5>>
      /\ MulDiv["rem"] = <<1, 6>> /\ MulDiv["remu"] = <<1, 7>>
  BY DEF MulDiv
<1>3. \A m, n \in DOMAIN MulDiv : MulDiv[n] = MulDiv[m] => n = m
  BY <1>1, <1>2
<1>4. \A m \in DOMAIN MulDiv : Named(MulDiv, MulDiv[m]) = m
  BY <1>3, NamedIs
<1>5. \A f7, f3 \in Nat : (\E m \in DOMAIN MulDiv : MulDiv[m] = <<f7, f3>>) <=> ((f7 = 1 /\ f3 \in {0, 1, 2, 3, 4, 5, 6, 7}))
  BY <1>1, <1>2
<1>6. ASSUME NEW f7 \in Nat, NEW f3 \in Nat
      PROVE  Named(MulDiv, <<f7, f3>>) = "illegal" <=> ~((f7 = 1 /\ f3 \in {0, 1, 2, 3, 4, 5, 6, 7}))
  <2>1. CASE (f7 = 1 /\ f3 \in {0, 1, 2, 3, 4, 5, 6, 7})
    <3>1. PICK m \in DOMAIN MulDiv : MulDiv[m] = <<f7, f3>>
      BY <1>5, <2>1
    <3>2. Named(MulDiv, <<f7, f3>>) = m /\ m # "illegal"
      BY <1>1, <1>4, <3>1
    <3> QED
      BY <2>1, <3>2
  <2>2. CASE ~((f7 = 1 /\ f3 \in {0, 1, 2, 3, 4, 5, 6, 7}))
    BY <1>5, <2>2 DEF Named
  <2> QED
    BY <2>1, <2>2
<1>7. ASSUME NEW m \in DOMAIN MulDiv
      PROVE  MulDiv[m] = <<MulDiv[m][1], MulDiv[m][2]>>
  BY <1>1, <1>2
<1>8. ASSUME NEW m \in DOMAIN MulDiv
      PROVE  /\ MulDiv[m][1] \in {1} /\ MulDiv[m][2] \in {0, 1, 2, 3, 4, 5, 6, 7}
             /\ (MulDiv[m][1] = 1 /\ MulDiv[m][2] \in {0, 1, 2, 3, 4, 5, 6, 7})
  BY <1>1, <1>2
<1> QED
  BY <1>4, <1>6, <1>7, <1>8

-----------------------------------------------------------------------------
(* What a reader makes of any word. *)

LEMMA FieldRanges ==
  ASSUME NEW w \in SUBSET WordBits
  PROVE  /\ Opcode(w) \in 0 .. 127 /\ Funct3(w) \in 0 .. 7 /\ Funct7(w) \in 0 .. 127
         /\ Rd(w) \in 0 .. 31 /\ Rs1(w) \in 0 .. 31 /\ Rs2(w) \in 0 .. 31
<1>1. w \in SUBSET Int
  BY DEF WordBits
<1>2. \A s : Num(s) \in 0 .. 127
  BY NumSum
<1>3. \A s : 3 \notin s /\ 4 \notin s /\ 5 \notin s /\ 6 \notin s => Num(s) \in 0 .. 7
  BY NumSum
<1>4. \A s : 5 \notin s /\ 6 \notin s => Num(s) \in 0 .. 31
  BY NumSum
<1>5. /\ 3 \notin Cut(w, 12, 14, 0) /\ 4 \notin Cut(w, 12, 14, 0)
      /\ 5 \notin Cut(w, 12, 14, 0) /\ 6 \notin Cut(w, 12, 14, 0)
  BY <1>1, Segments
<1>6. /\ 5 \notin Cut(w, 7, 11, 0) /\ 6 \notin Cut(w, 7, 11, 0)
      /\ 5 \notin Cut(w, 15, 19, 0) /\ 6 \notin Cut(w, 15, 19, 0)
      /\ 5 \notin Cut(w, 20, 24, 0) /\ 6 \notin Cut(w, 20, 24, 0)
  BY <1>1, Segments
<1>7. Opcode(w) \in 0 .. 127 /\ Funct7(w) \in 0 .. 127
  BY <1>2 DEF Opcode, Funct7
<1>8. Funct3(w) \in 0 .. 7
  BY <1>3, <1>5 DEF Funct3
<1>9. Rd(w) \in 0 .. 31 /\ Rs1(w) \in 0 .. 31 /\ Rs2(w) \in 0 .. 31
  BY <1>4, <1>6 DEF Rd, Rs1, Rs2
<1> QED
  BY <1>7, <1>8, <1>9

Groups == {"lui", "auipc", "jal", "jalr", "branch", "load", "store", "opimm", "op", "system", "unknown"}

LEMMA GroupIs ==
  ASSUME NEW w \in SUBSET WordBits
  PROVE  /\ Group(w) \in Groups
         /\ Opcode(w) = 55 => Group(w) = "lui"
         /\ Opcode(w) = 23 => Group(w) = "auipc"
         /\ Opcode(w) = 111 => Group(w) = "jal"
         /\ Opcode(w) = 103 => Group(w) = "jalr"
         /\ Opcode(w) = 99 => Group(w) = "branch"
         /\ Opcode(w) = 3 => Group(w) = "load"
         /\ Opcode(w) = 35 => Group(w) = "store"
         /\ Opcode(w) = 19 => Group(w) = "opimm"
         /\ Opcode(w) = 51 => Group(w) = "op"
         /\ Opcode(w) = 115 <=> Group(w) = "system"
<1> DEFINE n == Opcode(w)
<1>1. n \in Int
  BY FieldRanges
<1>2. Group(w) = CASE n = 55  -> "lui"    [] n = 23  -> "auipc" [] n = 111 -> "jal"  [] n = 103 -> "jalr"
                   [] n = 99  -> "branch" [] n = 3   -> "load"  [] n = 35  -> "store" [] n = 19  -> "opimm"
                   [] n = 51  -> "op"     [] n = 115 -> "system" [] OTHER -> "unknown"
  BY DEF Group
<1> HIDE DEF n
<1>3. n = 55 => Group(w) = "lui"
  BY <1>1, <1>2
<1>4. n = 23 => Group(w) = "auipc"
  BY <1>1, <1>2
<1>5. n = 111 => Group(w) = "jal"
  BY <1>1, <1>2
<1>6. n = 103 => Group(w) = "jalr"
  BY <1>1, <1>2
<1>7. n = 99 => Group(w) = "branch"
  BY <1>1, <1>2
<1>8. n = 3 => Group(w) = "load"
  BY <1>1, <1>2
<1>9. n = 35 => Group(w) = "store"
  BY <1>1, <1>2
<1>10. n = 19 => Group(w) = "opimm"
  BY <1>1, <1>2
<1>11. n = 51 => Group(w) = "op"
  BY <1>1, <1>2
<1>12. n = 115 => Group(w) = "system"
  BY <1>1, <1>2
<1>13. CASE n \notin {55, 23, 111, 103, 99, 3, 35, 19, 51, 115}
  <2>1. Group(w) = "unknown"
    BY <1>1, <1>2, <1>13
  <2> QED
    BY <2>1, <1>13 DEF n, Groups
<1>14. CASE n \in {55, 23, 111, 103, 99, 3, 35, 19, 51, 115}
  BY <1>1, <1>3, <1>4, <1>5, <1>6, <1>7, <1>8, <1>9, <1>10, <1>11, <1>12, <1>14 DEF n, Groups
<1> QED
  BY <1>13, <1>14

LEMMA SystemWords ==
  /\ ECALL \subseteq WordBits /\ EBREAK \subseteq WordBits /\ ECALL # EBREAK
  /\ Opcode(ECALL) = 115 /\ Opcode(EBREAK) = 115
<1>1. \A b \in Int : b \in Field(115, 0) <=> b \in BitsOf(115)
  BY FieldAt
<1>2. Field(115, 0) \subseteq Int /\ BitsOf(115) \subseteq 0 .. 6
  <2>1. 115 \in Nat /\ 115 < 128
    OBVIOUS
  <2> QED
    BY <2>1, FieldAt, BitsBelow
<1>3. ECALL \subseteq Int /\ EBREAK \subseteq Int
  BY <1>2 DEF ECALL, EBREAK
<1>4. ECALL \subseteq WordBits /\ EBREAK \subseteq WordBits
  BY <1>1, <1>2, <1>3 DEF ECALL, EBREAK, WordBits
<1>5. 20 \notin ECALL /\ 20 \in EBREAK
  BY <1>1, <1>2 DEF ECALL, EBREAK
<1>6. Holds(ECALL, 115, 0, 6) /\ Holds(EBREAK, 115, 0, 6)
  <2>1. \A b \in Int : 0 <= b /\ b <= 6 => b - 0 = b /\ b # 20
    OBVIOUS
  <2> QED
    BY <1>1, <2>1 DEF ECALL, EBREAK, Holds
<1> QED
  BY <1>3, <1>4, <1>5, <1>6, OpcodeRead

\* The encodings each group leaves out.
Reserved(w) ==
  \/ Group(w) = "jalr" /\ Funct3(w) # 0
  \/ Group(w) = "branch" /\ Funct3(w) \in {2, 3}
  \/ Group(w) = "load" /\ Funct3(w) \in {3, 6, 7}
  \/ Group(w) = "store" /\ Funct3(w) \in 3 .. 7
  \/ Group(w) = "opimm" /\ Funct3(w) = 1 /\ Funct7(w) # 0
  \/ Group(w) = "opimm" /\ Funct3(w) = 5 /\ Funct7(w) \notin {0, 32}
  \/ Group(w) = "op" /\ Funct7(w) \notin {0, 1, 32}
  \/ Group(w) = "op" /\ Funct7(w) = 32 /\ Funct3(w) \notin {0, 5}
  \/ Group(w) = "system" /\ w \notin {ECALL, EBREAK}
  \/ Group(w) = "unknown"

LEMMA SvReserved ==
  ASSUME NEW w \in SUBSET WordBits
  PROVE  SvLegal(w) <=> ~Reserved(w)
<1>1. Group(w) \in Groups /\ Funct3(w) \in 0 .. 7
  BY GroupIs, FieldRanges
<1>2. CASE Group(w) \in {"lui", "auipc", "jal"}
  BY <1>2 DEF SvLegal, Reserved
<1>3. CASE Group(w) = "jalr"
  BY <1>3 DEF SvLegal, Reserved
<1>4. CASE Group(w) = "branch"
  BY <1>1, <1>4 DEF SvLegal, Reserved
<1>5. CASE Group(w) = "load"
  BY <1>1, <1>5 DEF SvLegal, Reserved
<1>6. CASE Group(w) = "store"
  BY <1>1, <1>6 DEF SvLegal, Reserved
<1>7. CASE Group(w) = "opimm"
  BY <1>1, <1>7 DEF SvLegal, Reserved, ShiftsBy
<1>8. CASE Group(w) = "op"
  BY <1>1, <1>8 DEF SvLegal, Reserved
<1>9. CASE Group(w) = "system"
  BY <1>9 DEF SvLegal, Reserved
<1>10. CASE Group(w) = "unknown"
  BY <1>10 DEF SvLegal, Reserved
<1> QED
  BY <1>1, <1>2, <1>3, <1>4, <1>5, <1>6, <1>7, <1>8, <1>9, <1>10 DEF Groups

LEMMA StepReserved ==
  ASSUME NEW w \in SUBSET WordBits
  PROVE  StepIllegal(w) <=> Reserved(w)
<1>1. Group(w) \in Groups /\ Funct3(w) \in 0 .. 7
  BY GroupIs, FieldRanges
<1>2. CASE Group(w) \in {"lui", "auipc", "jal"}
  BY <1>2 DEF StepIllegal, Reserved
<1>3. CASE Group(w) = "jalr"
  BY <1>3 DEF StepIllegal, Reserved
<1>4. CASE Group(w) = "branch"
  BY <1>1, <1>4 DEF StepIllegal, Reserved
<1>5. CASE Group(w) = "load"
  BY <1>1, <1>5 DEF StepIllegal, Reserved
<1>6. CASE Group(w) = "store"
  BY <1>1, <1>6 DEF StepIllegal, Reserved
<1>7. CASE Group(w) = "opimm"
  BY <1>1, <1>7 DEF StepIllegal, Reserved
<1>8. CASE Group(w) = "op"
  BY <1>1, <1>8 DEF StepIllegal, Reserved
<1>9. CASE Group(w) = "system"
  BY <1>9 DEF StepIllegal, Reserved
<1>10. CASE Group(w) = "unknown"
  BY <1>10 DEF StepIllegal, Reserved
<1> QED
  BY <1>1, <1>2, <1>3, <1>4, <1>5, <1>6, <1>7, <1>8, <1>9, <1>10 DEF Groups

LEMMA MetaReserved ==
  ASSUME NEW w \in SUBSET WordBits
  PROVE  "illegal" \in MetaFlags(w) <=> Reserved(w)
<1>1. Group(w) \in Groups /\ Funct3(w) \in 0 .. 7
  BY GroupIs, FieldRanges
<1>2. CASE Group(w) \in {"lui", "auipc", "jal"}
  BY <1>2 DEF MetaFlags, Reserved
<1>3. CASE Group(w) = "jalr"
  BY <1>3 DEF MetaFlags, Reserved
<1>4. CASE Group(w) = "branch"
  BY <1>1, <1>4 DEF MetaFlags, Reserved
<1>5. CASE Group(w) = "load"
  BY <1>1, <1>5 DEF MetaFlags, Reserved
<1>6. CASE Group(w) = "store"
  BY <1>1, <1>6 DEF MetaFlags, Reserved
<1>7. CASE Group(w) = "opimm"
  BY <1>1, <1>7 DEF MetaFlags, Reserved
<1>8. CASE Group(w) = "op"
  BY <1>1, <1>8 DEF MetaFlags, Reserved
<1>9. CASE Group(w) = "system"
  BY <1>9 DEF MetaFlags, Reserved
<1>10. CASE Group(w) = "unknown"
  BY <1>10 DEF MetaFlags, Reserved
<1> QED
  BY <1>1, <1>2, <1>3, <1>4, <1>5, <1>6, <1>7, <1>8, <1>9, <1>10 DEF Groups

LEMMA NameReserved ==
  ASSUME NEW w \in SUBSET WordBits
  PROVE  Name(w) = "illegal" <=> Reserved(w)
<1>1. Group(w) \in Groups /\ Funct3(w) \in 0 .. 7 /\ Funct3(w) \in Nat /\ Funct7(w) \in Nat
  BY GroupIs, FieldRanges
<1>2. CASE Group(w) \in {"lui", "auipc", "jal"}
  BY <1>2 DEF Name, Reserved
<1>3. CASE Group(w) = "jalr"
  BY <1>3 DEF Name, Reserved
<1>4. CASE Group(w) = "branch"
  BY <1>1, <1>4, BranchNames DEF Name, Reserved
<1>5. CASE Group(w) = "load"
  BY <1>1, <1>5, LoadNames DEF Name, Reserved
<1>6. CASE Group(w) = "store"
  BY <1>1, <1>6, StoreNames DEF Name, Reserved
<1>7. CASE Group(w) = "opimm"
  BY <1>1, <1>7, OpImmNames, ShiftNames DEF Name, Reserved
<1>8. CASE Group(w) = "op"
  BY <1>1, <1>8, OpNames, MulDivNames DEF Name, Reserved
<1>9. CASE Group(w) = "system"
  BY <1>9 DEF Name, Reserved
<1>10. CASE Group(w) = "unknown"
  <2>1. w # ECALL /\ w # EBREAK
    BY <1>10, GroupIs, SystemWords
  <2> QED
    BY <1>10, <2>1 DEF Name, Reserved
<1> QED
  BY <1>1, <1>2, <1>3, <1>4, <1>5, <1>6, <1>7, <1>8, <1>9, <1>10 DEF Groups

\* The classes and operations of Instruction(w).
LEMMA FnIs ==
  ASSUME NEW w \in SUBSET WordBits
  PROVE  /\ Reserved(w) => SvFn(w) = IF Group(w) = "jalr" THEN "jalr" ELSE "none"
         /\ Group(w) = "lui" => SvFn(w) = "copyb"
         /\ Group(w) = "auipc" => SvFn(w) = "add"
         /\ Group(w) \in {"jal", "jalr"} /\ ~Reserved(w) => SvFn(w) = "none"
         /\ Group(w) = "branch" /\ ~Reserved(w) => SvFn(w) \in Pkg!BrFn
         /\ Group(w) \in {"load", "store"} /\ ~Reserved(w) => SvFn(w) \in Pkg!MemFn
         /\ Group(w) = "opimm" /\ ~Reserved(w) => SvFn(w) \in Pkg!AluFn
         /\ Group(w) = "op" /\ ~Reserved(w) /\ Funct7(w) # 1 => SvFn(w) \in Pkg!AluFn
         /\ Group(w) = "op" /\ Funct7(w) = 1 /\ Funct3(w) < 4 => SvFn(w) \in Pkg!MulFn
         /\ Group(w) = "op" /\ Funct7(w) = 1 /\ Funct3(w) >= 4 => SvFn(w) \in Pkg!DivFn
         /\ Group(w) = "system" /\ ~Reserved(w) => SvFn(w) \in Pkg!SysFn
<1>1. Group(w) \in Groups /\ Funct3(w) \in {0, 1, 2, 3, 4, 5, 6, 7}
  BY GroupIs, FieldRanges
<1>2. SvLegal(w) <=> ~Reserved(w)
  BY SvReserved
<1>3. Reserved(w) => SvFn(w) = IF Group(w) = "jalr" THEN "jalr" ELSE "none"
  BY <1>2 DEF SvFn
<1>4. /\ Group(w) = "lui" => SvFn(w) = "copyb"
      /\ Group(w) = "auipc" => SvFn(w) = "add"
      /\ Group(w) \in {"jal", "jalr"} /\ ~Reserved(w) => SvFn(w) = "none"
  BY <1>2 DEF SvFn, Reserved
<1>5. Group(w) = "branch" /\ ~Reserved(w) => SvFn(w) \in Pkg!BrFn
  BY <1>1, <1>2 DEF SvFn, Reserved, Pkg!BrFn
<1>6. Group(w) \in {"load", "store"} /\ ~Reserved(w) => SvFn(w) \in Pkg!MemFn
  BY <1>1, <1>2 DEF SvFn, Reserved, Pkg!MemFn
<1>7. Group(w) = "opimm" /\ ~Reserved(w) => SvFn(w) \in Pkg!AluFn
  BY <1>1, <1>2 DEF SvFn, Reserved, Pkg!AluFn
<1>8. Group(w) = "op" /\ ~Reserved(w) /\ Funct7(w) # 1 => SvFn(w) \in Pkg!AluFn
  BY <1>1, <1>2 DEF SvFn, Reserved, Pkg!AluFn
<1>9. Group(w) = "op" /\ Funct7(w) = 1 /\ Funct3(w) < 4 => SvFn(w) \in Pkg!MulFn
  BY <1>1, <1>2 DEF SvFn, Reserved, Pkg!MulFn
<1>10. Group(w) = "op" /\ Funct7(w) = 1 /\ Funct3(w) >= 4 => SvFn(w) \in Pkg!DivFn
  BY <1>1, <1>2 DEF SvFn, Reserved, Pkg!DivFn
<1>11. Group(w) = "system" /\ ~Reserved(w) => SvFn(w) \in Pkg!SysFn
  BY <1>1, <1>2 DEF SvFn, Reserved, Pkg!SysFn
<1> QED
  BY <1>3, <1>4, <1>5, <1>6, <1>7, <1>8, <1>9, <1>10, <1>11

LEMMA ClassIs ==
  ASSUME NEW w \in SUBSET WordBits
  PROVE  /\ Group(w) \notin {"op", "jalr"} => SvClass(w) = Group(w)
         /\ Group(w) = "jalr" /\ ~Reserved(w) => SvClass(w) = "jalr"
         /\ Group(w) = "jalr" /\ Reserved(w) => SvClass(w) = "unknown"
         /\ Group(w) = "op" /\ Funct7(w) # 1 => SvClass(w) = "op"
         /\ Group(w) = "op" /\ Funct7(w) = 1 /\ Funct3(w) < 4 => SvClass(w) = "mul"
         /\ Group(w) = "op" /\ Funct7(w) = 1 /\ Funct3(w) >= 4 => SvClass(w) = "div"
<1>1. SvLegal(w) <=> ~Reserved(w)
  BY SvReserved
<1>2. Group(w) \notin {"op", "jalr"} => SvClass(w) = Group(w)
  BY DEF SvClass
<1>3. /\ Group(w) = "jalr" /\ ~Reserved(w) => SvClass(w) = "jalr"
      /\ Group(w) = "jalr" /\ Reserved(w) => SvClass(w) = "unknown"
  BY <1>1 DEF SvClass
<1>4. Group(w) = "op" /\ Funct7(w) # 1 => SvClass(w) = "op"
  <2> SUFFICES ASSUME Group(w) = "op", Funct7(w) # 1 PROVE SvClass(w) = "op"
    OBVIOUS
  <2>1. SvFn(w) \in Pkg!AluFn \cup {"none"}
    BY FnIs
  <2> QED
    BY <2>1 DEF SvClass, Pkg!AluFn
<1>5. Group(w) = "op" /\ Funct7(w) = 1 /\ Funct3(w) < 4 => SvClass(w) = "mul"
  BY FnIs DEF SvClass, Pkg!MulFn
<1>6. Group(w) = "op" /\ Funct7(w) = 1 /\ Funct3(w) >= 4 => SvClass(w) = "div"
  BY FnIs DEF SvClass, Pkg!DivFn
<1> QED
  BY <1>2, <1>3, <1>4, <1>5, <1>6

\* The flags are the ones of the class.
LEMMA WordFlags ==
  ASSUME NEW w \in SUBSET WordBits
  PROVE  LET ins == Instruction(w)  f == SvFlags(w) IN
         /\ Pkg!WellDecoded(ins)
         /\ "rs1_used" \in f <=> Pkg!Rs1Used(ins)
         /\ "rs2_used" \in f <=> Pkg!Rs2Used(ins)
         /\ "rd_write" \in f <=> Pkg!RdWrite(ins)
         /\ "use_imm"  \in f <=> Pkg!UseImm(ins)
         /\ "lane1_eligible" \in f <=> Pkg!Lane1Eligible(ins)
<1> DEFINE ins == Instruction(w)
           f == SvFlags(w)
           goal == /\ Pkg!WellDecoded(ins)
                   /\ "rs1_used" \in f <=> Pkg!Rs1Used(ins)
                   /\ "rs2_used" \in f <=> Pkg!Rs2Used(ins)
                   /\ "rd_write" \in f <=> Pkg!RdWrite(ins)
                   /\ "use_imm"  \in f <=> Pkg!UseImm(ins)
                   /\ "lane1_eligible" \in f <=> Pkg!Lane1Eligible(ins)
<1>1. /\ Group(w) \in Groups /\ Funct3(w) \in Int
      /\ SvLegal(w) <=> ~Reserved(w)
  BY GroupIs, FieldRanges, SvReserved
<1>i. ins.cls = SvClass(w) /\ ins.fn = SvFn(w) /\ (ins.ill <=> Reserved(w))
  BY <1>1 DEF Instruction
<1> HIDE DEF ins
<1>2. ASSUME Group(w) \in {"lui", "auipc"} PROVE goal
  <2>1. ins.cls = Group(w)
    BY <1>i, <1>2, ClassIs
  <2>2. Pkg!WellDecoded(ins)
    BY <1>i, <1>2, <2>1, FnIs DEF Pkg!WellDecoded, Reserved
  <2>3. /\ "rs1_used" \in f <=> Pkg!Rs1Used(ins)
        /\ "rs2_used" \in f <=> Pkg!Rs2Used(ins)
        /\ "rd_write" \in f <=> Pkg!RdWrite(ins)
        /\ "use_imm"  \in f <=> Pkg!UseImm(ins)
        /\ "lane1_eligible" \in f <=> Pkg!Lane1Eligible(ins)
    BY <1>1, <1>i, <1>2, <2>1 DEF SvFlags, Eligible, Pkg!Rs1Used, Pkg!Rs2Used, Pkg!RdWrite, Pkg!UseImm, Pkg!Lane1Eligible
  <2> QED
    BY <2>2, <2>3
<1>3. ASSUME Group(w) = "jal" PROVE goal
  <2>1. ins.cls = Group(w)
    BY <1>i, <1>3, ClassIs
  <2>2. Pkg!WellDecoded(ins)
    BY <1>i, <1>3, <2>1, FnIs DEF Pkg!WellDecoded, Reserved
  <2>3. /\ "rs1_used" \in f <=> Pkg!Rs1Used(ins)
        /\ "rs2_used" \in f <=> Pkg!Rs2Used(ins)
        /\ "rd_write" \in f <=> Pkg!RdWrite(ins)
        /\ "use_imm"  \in f <=> Pkg!UseImm(ins)
        /\ "lane1_eligible" \in f <=> Pkg!Lane1Eligible(ins)
    BY <1>1, <1>i, <1>3, <2>1 DEF SvFlags, Eligible, Pkg!Rs1Used, Pkg!Rs2Used, Pkg!RdWrite, Pkg!UseImm, Pkg!Lane1Eligible
  <2> QED
    BY <2>2, <2>3
<1>4. ASSUME Group(w) = "jalr" /\ ~Reserved(w) PROVE goal
  <2>1. ins.cls = Group(w)
    BY <1>i, <1>4, ClassIs
  <2>2. Pkg!WellDecoded(ins)
    BY <1>i, <1>4, <2>1, FnIs DEF Pkg!WellDecoded, Reserved
  <2>3. /\ "rs1_used" \in f <=> Pkg!Rs1Used(ins)
        /\ "rs2_used" \in f <=> Pkg!Rs2Used(ins)
        /\ "rd_write" \in f <=> Pkg!RdWrite(ins)
        /\ "use_imm"  \in f <=> Pkg!UseImm(ins)
        /\ "lane1_eligible" \in f <=> Pkg!Lane1Eligible(ins)
    BY <1>1, <1>i, <1>4, <2>1 DEF SvFlags, Eligible, Pkg!Rs1Used, Pkg!Rs2Used, Pkg!RdWrite, Pkg!UseImm, Pkg!Lane1Eligible
  <2> QED
    BY <2>2, <2>3
<1>5. ASSUME Group(w) = "jalr" /\ Reserved(w) PROVE goal
  <2>1. ins.cls = "unknown"
    BY <1>i, <1>5, ClassIs
  <2>2. Pkg!WellDecoded(ins)
    BY <1>i, <1>5, <2>1, FnIs DEF Pkg!WellDecoded
  <2>3. /\ "rs1_used" \in f <=> Pkg!Rs1Used(ins)
        /\ "rs2_used" \in f <=> Pkg!Rs2Used(ins)
        /\ "rd_write" \in f <=> Pkg!RdWrite(ins)
        /\ "use_imm"  \in f <=> Pkg!UseImm(ins)
        /\ "lane1_eligible" \in f <=> Pkg!Lane1Eligible(ins)
    BY <1>1, <1>i, <1>5, <2>1 DEF SvFlags, Eligible, Pkg!Rs1Used, Pkg!Rs2Used, Pkg!RdWrite, Pkg!UseImm, Pkg!Lane1Eligible
  <2> QED
    BY <2>2, <2>3
<1>6. ASSUME Group(w) = "branch" PROVE goal
  <2>1. ins.cls = Group(w)
    BY <1>i, <1>6, ClassIs
  <2>2. Pkg!WellDecoded(ins)
    BY <1>i, <1>6, <2>1, FnIs DEF Pkg!WellDecoded, Reserved
  <2>3. /\ "rs1_used" \in f <=> Pkg!Rs1Used(ins)
        /\ "rs2_used" \in f <=> Pkg!Rs2Used(ins)
        /\ "rd_write" \in f <=> Pkg!RdWrite(ins)
        /\ "use_imm"  \in f <=> Pkg!UseImm(ins)
        /\ "lane1_eligible" \in f <=> Pkg!Lane1Eligible(ins)
    BY <1>1, <1>i, <1>6, <2>1 DEF SvFlags, Eligible, Pkg!Rs1Used, Pkg!Rs2Used, Pkg!RdWrite, Pkg!UseImm, Pkg!Lane1Eligible
  <2> QED
    BY <2>2, <2>3
<1>7. ASSUME Group(w) = "load" PROVE goal
  <2>1. ins.cls = Group(w)
    BY <1>i, <1>7, ClassIs
  <2>2. Pkg!WellDecoded(ins)
    BY <1>i, <1>7, <2>1, FnIs DEF Pkg!WellDecoded, Reserved
  <2>3. /\ "rs1_used" \in f <=> Pkg!Rs1Used(ins)
        /\ "rs2_used" \in f <=> Pkg!Rs2Used(ins)
        /\ "rd_write" \in f <=> Pkg!RdWrite(ins)
        /\ "use_imm"  \in f <=> Pkg!UseImm(ins)
        /\ "lane1_eligible" \in f <=> Pkg!Lane1Eligible(ins)
    BY <1>1, <1>i, <1>7, <2>1 DEF SvFlags, Eligible, Pkg!Rs1Used, Pkg!Rs2Used, Pkg!RdWrite, Pkg!UseImm, Pkg!Lane1Eligible
  <2> QED
    BY <2>2, <2>3
<1>8. ASSUME Group(w) = "store" PROVE goal
  <2>1. ins.cls = Group(w)
    BY <1>i, <1>8, ClassIs
  <2>2. Pkg!WellDecoded(ins)
    BY <1>i, <1>8, <2>1, FnIs DEF Pkg!WellDecoded, Reserved
  <2>3. /\ "rs1_used" \in f <=> Pkg!Rs1Used(ins)
        /\ "rs2_used" \in f <=> Pkg!Rs2Used(ins)
        /\ "rd_write" \in f <=> Pkg!RdWrite(ins)
        /\ "use_imm"  \in f <=> Pkg!UseImm(ins)
        /\ "lane1_eligible" \in f <=> Pkg!Lane1Eligible(ins)
    BY <1>1, <1>i, <1>8, <2>1 DEF SvFlags, Eligible, Pkg!Rs1Used, Pkg!Rs2Used, Pkg!RdWrite, Pkg!UseImm, Pkg!Lane1Eligible
  <2> QED
    BY <2>2, <2>3
<1>9. ASSUME Group(w) = "opimm" PROVE goal
  <2>1. ins.cls = Group(w)
    BY <1>i, <1>9, ClassIs
  <2>2. Pkg!WellDecoded(ins)
    BY <1>i, <1>9, <2>1, FnIs DEF Pkg!WellDecoded, Reserved
  <2>3. /\ "rs1_used" \in f <=> Pkg!Rs1Used(ins)
        /\ "rs2_used" \in f <=> Pkg!Rs2Used(ins)
        /\ "rd_write" \in f <=> Pkg!RdWrite(ins)
        /\ "use_imm"  \in f <=> Pkg!UseImm(ins)
        /\ "lane1_eligible" \in f <=> Pkg!Lane1Eligible(ins)
    BY <1>1, <1>i, <1>9, <2>1 DEF SvFlags, Eligible, Pkg!Rs1Used, Pkg!Rs2Used, Pkg!RdWrite, Pkg!UseImm, Pkg!Lane1Eligible
  <2> QED
    BY <2>2, <2>3
<1>10. ASSUME Group(w) = "op" /\ Funct7(w) # 1 PROVE goal
  <2>1. ins.cls = "op"
    BY <1>i, <1>10, ClassIs
  <2>2. Pkg!WellDecoded(ins)
    BY <1>i, <1>10, <2>1, FnIs DEF Pkg!WellDecoded, Reserved
  <2>3. /\ "rs1_used" \in f <=> Pkg!Rs1Used(ins)
        /\ "rs2_used" \in f <=> Pkg!Rs2Used(ins)
        /\ "rd_write" \in f <=> Pkg!RdWrite(ins)
        /\ "use_imm"  \in f <=> Pkg!UseImm(ins)
        /\ "lane1_eligible" \in f <=> Pkg!Lane1Eligible(ins)
    BY <1>1, <1>i, <1>10, <2>1 DEF SvFlags, Eligible, Pkg!Rs1Used, Pkg!Rs2Used, Pkg!RdWrite, Pkg!UseImm, Pkg!Lane1Eligible
  <2> QED
    BY <2>2, <2>3
<1>11. ASSUME Group(w) = "op" /\ Funct7(w) = 1 /\ Funct3(w) < 4 PROVE goal
  <2>1. ins.cls = "mul"
    BY <1>i, <1>11, ClassIs
  <2>2. Pkg!WellDecoded(ins)
    BY <1>i, <1>11, <2>1, FnIs DEF Pkg!WellDecoded, Reserved
  <2>3. /\ "rs1_used" \in f <=> Pkg!Rs1Used(ins)
        /\ "rs2_used" \in f <=> Pkg!Rs2Used(ins)
        /\ "rd_write" \in f <=> Pkg!RdWrite(ins)
        /\ "use_imm"  \in f <=> Pkg!UseImm(ins)
        /\ "lane1_eligible" \in f <=> Pkg!Lane1Eligible(ins)
    BY <1>1, <1>i, <1>11, <2>1 DEF SvFlags, Eligible, Pkg!Rs1Used, Pkg!Rs2Used, Pkg!RdWrite, Pkg!UseImm, Pkg!Lane1Eligible
  <2> QED
    BY <2>2, <2>3
<1>12. ASSUME Group(w) = "op" /\ Funct7(w) = 1 /\ Funct3(w) >= 4 PROVE goal
  <2>1. ins.cls = "div"
    BY <1>i, <1>12, ClassIs
  <2>2. Pkg!WellDecoded(ins)
    BY <1>i, <1>12, <2>1, FnIs DEF Pkg!WellDecoded, Reserved
  <2>3. /\ "rs1_used" \in f <=> Pkg!Rs1Used(ins)
        /\ "rs2_used" \in f <=> Pkg!Rs2Used(ins)
        /\ "rd_write" \in f <=> Pkg!RdWrite(ins)
        /\ "use_imm"  \in f <=> Pkg!UseImm(ins)
        /\ "lane1_eligible" \in f <=> Pkg!Lane1Eligible(ins)
    BY <1>1, <1>i, <1>12, <2>1 DEF SvFlags, Eligible, Pkg!Rs1Used, Pkg!Rs2Used, Pkg!RdWrite, Pkg!UseImm, Pkg!Lane1Eligible
  <2> QED
    BY <2>2, <2>3
<1>13. ASSUME Group(w) = "system" PROVE goal
  <2>1. ins.cls = Group(w)
    BY <1>i, <1>13, ClassIs
  <2>2. Pkg!WellDecoded(ins)
    BY <1>i, <1>13, <2>1, FnIs DEF Pkg!WellDecoded, Reserved
  <2>3. /\ "rs1_used" \in f <=> Pkg!Rs1Used(ins)
        /\ "rs2_used" \in f <=> Pkg!Rs2Used(ins)
        /\ "rd_write" \in f <=> Pkg!RdWrite(ins)
        /\ "use_imm"  \in f <=> Pkg!UseImm(ins)
        /\ "lane1_eligible" \in f <=> Pkg!Lane1Eligible(ins)
    BY <1>1, <1>i, <1>13, <2>1 DEF SvFlags, Eligible, Pkg!Rs1Used, Pkg!Rs2Used, Pkg!RdWrite, Pkg!UseImm, Pkg!Lane1Eligible
  <2> QED
    BY <2>2, <2>3
<1>14. ASSUME Group(w) = "unknown" PROVE goal
  <2>1. ins.cls = "unknown"
    BY <1>i, <1>14, ClassIs
  <2>2. Pkg!WellDecoded(ins)
    BY <1>i, <1>14, <2>1, FnIs DEF Pkg!WellDecoded, Reserved
  <2>3. /\ "rs1_used" \in f <=> Pkg!Rs1Used(ins)
        /\ "rs2_used" \in f <=> Pkg!Rs2Used(ins)
        /\ "rd_write" \in f <=> Pkg!RdWrite(ins)
        /\ "use_imm"  \in f <=> Pkg!UseImm(ins)
        /\ "lane1_eligible" \in f <=> Pkg!Lane1Eligible(ins)
    BY <1>1, <1>i, <1>14, <2>1 DEF SvFlags, Eligible, Pkg!Rs1Used, Pkg!Rs2Used, Pkg!RdWrite, Pkg!UseImm, Pkg!Lane1Eligible
  <2> QED
    BY <2>2, <2>3
<1>15. goal
  BY <1>1, <1>2, <1>3, <1>4, <1>5, <1>6, <1>7, <1>8, <1>9, <1>10, <1>11, <1>12, <1>13, <1>14 DEF Groups
<1> QED
  BY <1>15 DEF ins

Shared == {"rs1_used", "rs2_used", "rd_write", "is_load", "is_store", "is_branch",
           "is_jal", "is_jalr", "is_system"}

\* decode_meta, word by word.
LEMMA WordMeta ==
  ASSUME NEW w \in SUBSET WordBits
  PROVE  LET ins == Instruction(w)  m == MetaFlags(w) IN
         /\ (Group(w) = "jalr" /\ ~SvLegal(w)) \/ m \cap Shared = SvFlags(w) \cap Shared
         /\ "is_mul" \in m <=> Pkg!IsMul(ins)
         /\ "is_div" \in m <=> Pkg!IsDiv(ins)
         /\ "lane1" \in m <=> ~Sv!Special(ins)
         /\ "special" \in m <=> Sv!Special(ins)
<1> DEFINE ins == Instruction(w)
           m == MetaFlags(w)
           goal == /\ (Group(w) = "jalr" /\ Reserved(w)) \/ m \cap Shared = SvFlags(w) \cap Shared
                   /\ "is_mul" \in m <=> Pkg!IsMul(ins)
                   /\ "is_div" \in m <=> Pkg!IsDiv(ins)
                   /\ "lane1" \in m <=> ~Sv!Special(ins)
                   /\ "special" \in m <=> Sv!Special(ins)
<1>1. /\ Group(w) \in Groups /\ Funct3(w) \in 0 .. 7
      /\ SvLegal(w) <=> ~Reserved(w)
  BY GroupIs, FieldRanges, SvReserved
<1>i. ins.cls = SvClass(w) /\ (ins.ill <=> Reserved(w))
  BY <1>1 DEF Instruction
<1> HIDE DEF ins
<1>2. ASSUME Group(w) \in {"lui", "auipc"} PROVE goal
  <2>1. ins.cls = Group(w)
    BY <1>i, <1>2, ClassIs
  <2>2. m \cap Shared = SvFlags(w) \cap Shared
    BY <1>1, <1>2 DEF MetaFlags, SvFlags, Eligible, Shared, Reserved
  <2>3. /\ "is_mul" \in m <=> Pkg!IsMul(ins)
        /\ "is_div" \in m <=> Pkg!IsDiv(ins)
    BY <1>1, <1>2, <2>1 DEF MetaFlags, Pkg!IsMul, Pkg!IsDiv
  <2>4. /\ "lane1" \in m <=> ~Sv!Special(ins)
        /\ "special" \in m <=> Sv!Special(ins)
    BY <1>1, <1>i, <1>2, <2>1 DEF MetaFlags, Reserved, Sv!Special, Sv!Lane1Eligible
  <2> QED
    BY <2>2, <2>3, <2>4
<1>3. ASSUME Group(w) = "jal" PROVE goal
  <2>1. ins.cls = Group(w)
    BY <1>i, <1>3, ClassIs
  <2>2. m \cap Shared = SvFlags(w) \cap Shared
    BY <1>1, <1>3 DEF MetaFlags, SvFlags, Eligible, Shared, Reserved
  <2>3. /\ "is_mul" \in m <=> Pkg!IsMul(ins)
        /\ "is_div" \in m <=> Pkg!IsDiv(ins)
    BY <1>1, <1>3, <2>1 DEF MetaFlags, Pkg!IsMul, Pkg!IsDiv
  <2>4. /\ "lane1" \in m <=> ~Sv!Special(ins)
        /\ "special" \in m <=> Sv!Special(ins)
    BY <1>1, <1>i, <1>3, <2>1 DEF MetaFlags, Reserved, Sv!Special, Sv!Lane1Eligible
  <2> QED
    BY <2>2, <2>3, <2>4
<1>4. ASSUME Group(w) = "jalr" /\ ~Reserved(w) PROVE goal
  <2>1. ins.cls = Group(w)
    BY <1>i, <1>4, ClassIs
  <2>2. m \cap Shared = SvFlags(w) \cap Shared
    BY <1>1, <1>4 DEF MetaFlags, SvFlags, Eligible, Shared, Reserved
  <2>3. /\ "is_mul" \in m <=> Pkg!IsMul(ins)
        /\ "is_div" \in m <=> Pkg!IsDiv(ins)
    BY <1>1, <1>4, <2>1 DEF MetaFlags, Pkg!IsMul, Pkg!IsDiv
  <2>4. /\ "lane1" \in m <=> ~Sv!Special(ins)
        /\ "special" \in m <=> Sv!Special(ins)
    BY <1>1, <1>i, <1>4, <2>1 DEF MetaFlags, Reserved, Sv!Special, Sv!Lane1Eligible
  <2> QED
    BY <2>2, <2>3, <2>4
<1>5. ASSUME Group(w) = "jalr" /\ Reserved(w) PROVE goal
  <2>1. ins.cls = "unknown"
    BY <1>i, <1>5, ClassIs
  <2>3. /\ "is_mul" \in m <=> Pkg!IsMul(ins)
        /\ "is_div" \in m <=> Pkg!IsDiv(ins)
    BY <1>1, <1>5, <2>1 DEF MetaFlags, Pkg!IsMul, Pkg!IsDiv
  <2>4. /\ "lane1" \in m <=> ~Sv!Special(ins)
        /\ "special" \in m <=> Sv!Special(ins)
    BY <1>1, <1>i, <1>5, <2>1 DEF MetaFlags, Reserved, Sv!Special, Sv!Lane1Eligible
  <2> QED
    BY <1>5, <2>3, <2>4
<1>6. ASSUME Group(w) = "branch" PROVE goal
  <2>1. ins.cls = Group(w)
    BY <1>i, <1>6, ClassIs
  <2>2. m \cap Shared = SvFlags(w) \cap Shared
    BY <1>1, <1>6 DEF MetaFlags, SvFlags, Eligible, Shared, Reserved
  <2>3. /\ "is_mul" \in m <=> Pkg!IsMul(ins)
        /\ "is_div" \in m <=> Pkg!IsDiv(ins)
    BY <1>1, <1>6, <2>1 DEF MetaFlags, Pkg!IsMul, Pkg!IsDiv
  <2>4. /\ "lane1" \in m <=> ~Sv!Special(ins)
        /\ "special" \in m <=> Sv!Special(ins)
    BY <1>1, <1>i, <1>6, <2>1 DEF MetaFlags, Reserved, Sv!Special, Sv!Lane1Eligible
  <2> QED
    BY <2>2, <2>3, <2>4
<1>7. ASSUME Group(w) = "load" PROVE goal
  <2>1. ins.cls = Group(w)
    BY <1>i, <1>7, ClassIs
  <2>2. m \cap Shared = SvFlags(w) \cap Shared
    BY <1>1, <1>7 DEF MetaFlags, SvFlags, Eligible, Shared, Reserved
  <2>3. /\ "is_mul" \in m <=> Pkg!IsMul(ins)
        /\ "is_div" \in m <=> Pkg!IsDiv(ins)
    BY <1>1, <1>7, <2>1 DEF MetaFlags, Pkg!IsMul, Pkg!IsDiv
  <2>4. /\ "lane1" \in m <=> ~Sv!Special(ins)
        /\ "special" \in m <=> Sv!Special(ins)
    BY <1>1, <1>i, <1>7, <2>1 DEF MetaFlags, Reserved, Sv!Special, Sv!Lane1Eligible
  <2> QED
    BY <2>2, <2>3, <2>4
<1>8. ASSUME Group(w) = "store" PROVE goal
  <2>1. ins.cls = Group(w)
    BY <1>i, <1>8, ClassIs
  <2>2. m \cap Shared = SvFlags(w) \cap Shared
    BY <1>1, <1>8 DEF MetaFlags, SvFlags, Eligible, Shared, Reserved
  <2>3. /\ "is_mul" \in m <=> Pkg!IsMul(ins)
        /\ "is_div" \in m <=> Pkg!IsDiv(ins)
    BY <1>1, <1>8, <2>1 DEF MetaFlags, Pkg!IsMul, Pkg!IsDiv
  <2>4. /\ "lane1" \in m <=> ~Sv!Special(ins)
        /\ "special" \in m <=> Sv!Special(ins)
    BY <1>1, <1>i, <1>8, <2>1 DEF MetaFlags, Reserved, Sv!Special, Sv!Lane1Eligible
  <2> QED
    BY <2>2, <2>3, <2>4
<1>9. ASSUME Group(w) = "opimm" PROVE goal
  <2>1. ins.cls = Group(w)
    BY <1>i, <1>9, ClassIs
  <2>2. m \cap Shared = SvFlags(w) \cap Shared
    BY <1>1, <1>9 DEF MetaFlags, SvFlags, Eligible, Shared, Reserved
  <2>3. /\ "is_mul" \in m <=> Pkg!IsMul(ins)
        /\ "is_div" \in m <=> Pkg!IsDiv(ins)
    BY <1>1, <1>9, <2>1 DEF MetaFlags, Pkg!IsMul, Pkg!IsDiv
  <2>4. /\ "lane1" \in m <=> ~Sv!Special(ins)
        /\ "special" \in m <=> Sv!Special(ins)
    BY <1>1, <1>i, <1>9, <2>1 DEF MetaFlags, Reserved, Sv!Special, Sv!Lane1Eligible
  <2> QED
    BY <2>2, <2>3, <2>4
<1>10. ASSUME Group(w) = "op" /\ Funct7(w) # 1 PROVE goal
  <2>1. ins.cls = "op"
    BY <1>i, <1>10, ClassIs
  <2>2. m \cap Shared = SvFlags(w) \cap Shared
    BY <1>1, <1>10 DEF MetaFlags, SvFlags, Eligible, Shared, Reserved
  <2>3. /\ "is_mul" \in m <=> Pkg!IsMul(ins)
        /\ "is_div" \in m <=> Pkg!IsDiv(ins)
    BY <1>1, <1>10, <2>1 DEF MetaFlags, Pkg!IsMul, Pkg!IsDiv
  <2>4. /\ "lane1" \in m <=> ~Sv!Special(ins)
        /\ "special" \in m <=> Sv!Special(ins)
    BY <1>1, <1>i, <1>10, <2>1 DEF MetaFlags, Reserved, Sv!Special, Sv!Lane1Eligible
  <2> QED
    BY <2>2, <2>3, <2>4
<1>11. ASSUME Group(w) = "op" /\ Funct7(w) = 1 /\ Funct3(w) < 4 PROVE goal
  <2>1. ins.cls = "mul"
    BY <1>i, <1>11, ClassIs
  <2>2. m \cap Shared = SvFlags(w) \cap Shared
    BY <1>1, <1>11 DEF MetaFlags, SvFlags, Eligible, Shared, Reserved
  <2>3. /\ "is_mul" \in m <=> Pkg!IsMul(ins)
        /\ "is_div" \in m <=> Pkg!IsDiv(ins)
    BY <1>1, <1>11, <2>1 DEF MetaFlags, Pkg!IsMul, Pkg!IsDiv
  <2>4. /\ "lane1" \in m <=> ~Sv!Special(ins)
        /\ "special" \in m <=> Sv!Special(ins)
    BY <1>1, <1>i, <1>11, <2>1 DEF MetaFlags, Reserved, Sv!Special, Sv!Lane1Eligible
  <2> QED
    BY <2>2, <2>3, <2>4
<1>12. ASSUME Group(w) = "op" /\ Funct7(w) = 1 /\ Funct3(w) >= 4 PROVE goal
  <2>1. ins.cls = "div"
    BY <1>i, <1>12, ClassIs
  <2>2. m \cap Shared = SvFlags(w) \cap Shared
    BY <1>1, <1>12 DEF MetaFlags, SvFlags, Eligible, Shared, Reserved
  <2>3. /\ "is_mul" \in m <=> Pkg!IsMul(ins)
        /\ "is_div" \in m <=> Pkg!IsDiv(ins)
    BY <1>1, <1>12, <2>1 DEF MetaFlags, Pkg!IsMul, Pkg!IsDiv
  <2>4. /\ "lane1" \in m <=> ~Sv!Special(ins)
        /\ "special" \in m <=> Sv!Special(ins)
    BY <1>1, <1>i, <1>12, <2>1 DEF MetaFlags, Reserved, Sv!Special, Sv!Lane1Eligible
  <2> QED
    BY <2>2, <2>3, <2>4
<1>13. ASSUME Group(w) = "system" PROVE goal
  <2>1. ins.cls = Group(w)
    BY <1>i, <1>13, ClassIs
  <2>2. m \cap Shared = SvFlags(w) \cap Shared
    BY <1>1, <1>13 DEF MetaFlags, SvFlags, Eligible, Shared, Reserved
  <2>3. /\ "is_mul" \in m <=> Pkg!IsMul(ins)
        /\ "is_div" \in m <=> Pkg!IsDiv(ins)
    BY <1>1, <1>13, <2>1 DEF MetaFlags, Pkg!IsMul, Pkg!IsDiv
  <2>4. /\ "lane1" \in m <=> ~Sv!Special(ins)
        /\ "special" \in m <=> Sv!Special(ins)
    BY <1>1, <1>i, <1>13, <2>1 DEF MetaFlags, Reserved, Sv!Special, Sv!Lane1Eligible
  <2> QED
    BY <2>2, <2>3, <2>4
<1>14. ASSUME Group(w) = "unknown" PROVE goal
  <2>1. ins.cls = "unknown"
    BY <1>i, <1>14, ClassIs
  <2>2. m \cap Shared = SvFlags(w) \cap Shared
    BY <1>1, <1>14 DEF MetaFlags, SvFlags, Eligible, Shared, Reserved
  <2>3. /\ "is_mul" \in m <=> Pkg!IsMul(ins)
        /\ "is_div" \in m <=> Pkg!IsDiv(ins)
    BY <1>1, <1>14, <2>1 DEF MetaFlags, Pkg!IsMul, Pkg!IsDiv
  <2>4. /\ "lane1" \in m <=> ~Sv!Special(ins)
        /\ "special" \in m <=> Sv!Special(ins)
    BY <1>1, <1>i, <1>14, <2>1 DEF MetaFlags, Reserved, Sv!Special, Sv!Lane1Eligible
  <2> QED
    BY <2>2, <2>3, <2>4
<1>15. goal
  BY <1>1, <1>2, <1>3, <1>4, <1>5, <1>6, <1>7, <1>8, <1>9, <1>10, <1>11, <1>12, <1>13, <1>14 DEF Groups
<1> QED
  BY <1>1, <1>15 DEF ins

\* The registers decode_meta goes by, of every word: decoder.sv's, and those of
\* the illegal JALR.
LEMMA WordMetaRegs ==
  ASSUME NEW w \in SUBSET WordBits
  PROVE  LET ins == Instruction(w)  m == MetaFlags(w) IN
         /\ "rs1_used" \in m <=> Tm!MetaRs1Used(ins)
         /\ "rs2_used" \in m <=> Pkg!Rs2Used(ins)
         /\ "rd_write" \in m <=> Tm!MetaRdWrite(ins)
<1> DEFINE ins == Instruction(w)
           m == MetaFlags(w)
           f == SvFlags(w)
<1>1. SvLegal(w) <=> ~Reserved(w)
  BY SvReserved
<1>2. ins.cls = SvClass(w) /\ ins.fn = SvFn(w)
  BY DEF Instruction
<1>3. /\ "rs1_used" \in f <=> Pkg!Rs1Used(ins)
      /\ "rs2_used" \in f <=> Pkg!Rs2Used(ins)
      /\ "rd_write" \in f <=> Pkg!RdWrite(ins)
  BY WordFlags
<1>4. (Group(w) = "jalr" /\ Reserved(w)) \/ m \cap Shared = f \cap Shared
  BY <1>1, WordMeta
<1> HIDE DEF ins
<1>5. /\ Tm!Rs1Used(ins) <=> Pkg!Rs1Used(ins)
      /\ Tm!RdWrite(ins) <=> Pkg!RdWrite(ins)
  BY DEF Tm!Rs1Used, Tm!RdWrite, Pkg!Rs1Used, Pkg!RdWrite
<1>6. CASE Group(w) = "jalr" /\ Reserved(w)
  <2>1. ins.cls = "unknown" /\ ins.fn = "jalr"
    BY <1>2, <1>6, ClassIs, FnIs
  <2>2. Tm!MetaRs1Used(ins) /\ ~Pkg!Rs2Used(ins) /\ Tm!MetaRdWrite(ins)
    BY <2>1 DEF Tm!MetaRs1Used, Tm!MetaRdWrite, Tm!ReservedJalr, Pkg!Rs2Used
  <2>3. "rs1_used" \in m /\ "rs2_used" \notin m /\ "rd_write" \in m
    BY <1>6 DEF MetaFlags
  <2> QED
    BY <2>2, <2>3 DEF ins
<1>7. CASE ~(Group(w) = "jalr" /\ Reserved(w))
  <2>1. ~Tm!ReservedJalr(ins)
    <3>1. CASE Group(w) = "unknown"
      <4>1. SvFn(w) = "none"
        BY <3>1, FnIs DEF Reserved
      <4> QED
        BY <1>2, <4>1 DEF Tm!ReservedJalr
    <3>2. CASE Group(w) = "op"
      <4>1. SvClass(w) \in {"op", "mul", "div"}
        BY <3>2 DEF SvClass
      <4> QED
        BY <1>2, <4>1 DEF Tm!ReservedJalr
    <3>3. CASE Group(w) = "jalr"
      <4>1. SvClass(w) = "jalr"
        BY <1>7, <3>3, ClassIs
      <4> QED
        BY <1>2, <4>1 DEF Tm!ReservedJalr
    <3>4. CASE Group(w) \notin {"unknown", "op", "jalr"}
      <4>1. SvClass(w) = Group(w)
        BY <3>4, ClassIs
      <4> QED
        BY <1>2, <3>4, <4>1 DEF Tm!ReservedJalr
    <3> QED
      BY <3>1, <3>2, <3>3, <3>4
  <2>2. \A x \in Shared : x \in m <=> x \in f
    BY <1>4, <1>7
  <2>3. {"rs1_used", "rs2_used", "rd_write"} \subseteq Shared
    BY DEF Shared
  <2> HIDE DEF m, f
  <2>4. /\ "rs1_used" \in m <=> Tm!MetaRs1Used(ins)
        /\ "rs2_used" \in m <=> Pkg!Rs2Used(ins)
        /\ "rd_write" \in m <=> Tm!MetaRdWrite(ins)
    BY <1>3, <1>5, <2>1, <2>2, <2>3 DEF Tm!MetaRs1Used, Tm!MetaRdWrite
  <2> QED
    BY <2>4 DEF m, ins
<1> QED
  BY <1>6, <1>7

-----------------------------------------------------------------------------
(* The mnemonics, one format after the other. *)

LEMMA Domains ==
  /\ DOMAIN OpImm = {"addi", "slti", "sltiu", "xori", "ori", "andi"}
  /\ DOMAIN Shift = {"slli", "srli", "srai"}
  /\ DOMAIN Op = {"add", "sub", "sll", "slt", "sltu", "xor", "srl", "sra", "or", "and"}
  /\ DOMAIN MulDiv = {"mul", "mulh", "mulhsu", "mulhu", "div", "divu", "rem", "remu"}
  /\ DOMAIN Branch = {"beq", "bne", "blt", "bge", "bltu", "bgeu"}
  /\ DOMAIN Load = {"lb", "lh", "lw", "lbu", "lhu"}
  /\ DOMAIN Store = {"sb", "sh", "sw"}
  /\ DOMAIN Upper = {"lui", "auipc"}
BY DEF OpImm, Shift, Op, MulDiv, Branch, Load, Store, Upper

LEMMA EncodeIs ==
  ASSUME NEW m, NEW rd, NEW rs1, NEW rs2, NEW imm
  PROVE  LET w == Encode(m, rd, rs1, rs2, imm) IN
         /\ m \in DOMAIN OpImm => w = IType(imm, rs1, OpImm[m], rd, 19)
         /\ m \in DOMAIN Shift =>
              w = IType(Cut(imm, 0, 4, 0) \cup Field(Shift[m][1], 5), rs1, Shift[m][2], rd, 19)
         /\ m \in DOMAIN Op => w = RType(Op[m][1], rs2, rs1, Op[m][2], rd, 51)
         /\ m \in DOMAIN MulDiv => w = RType(MulDiv[m][1], rs2, rs1, MulDiv[m][2], rd, 51)
         /\ m \in DOMAIN Branch => w = BType(imm, rs2, rs1, Branch[m], 99)
         /\ m \in DOMAIN Load => w = IType(imm, rs1, Load[m], rd, 3)
         /\ m \in DOMAIN Store => w = SType(imm, rs2, rs1, Store[m], 35)
         /\ m \in DOMAIN Upper => w = UType(imm, rd, Upper[m])
         /\ m = "jal" => w = JType(imm, rd, 111)
         /\ m = "jalr" => w = IType(imm, rs1, 0, rd, 103)
         /\ m = "ecall" => w = ECALL
         /\ m = "ebreak" => w = EBREAK
BY Domains DEF Encode

LEMMA EncodableIs ==
  ASSUME NEW m, NEW imm, Encodable(m, imm)
  PROVE  /\ m \in DOMAIN OpImm \/ m \in DOMAIN Load \/ m \in DOMAIN Store \/ m = "jalr" =>
              imm \cap (11 .. 31) \in {{}, 11 .. 31}
         /\ m \in DOMAIN Shift => imm \subseteq 0 .. 4
         /\ m \in DOMAIN Branch => 0 \notin imm /\ imm \cap (12 .. 31) \in {{}, 12 .. 31}
         /\ m = "jal" => 0 \notin imm /\ imm \cap (20 .. 31) \in {{}, 20 .. 31}
         /\ m \in DOMAIN Upper => imm \cap (0 .. 11) = {}
         /\ m \in DOMAIN Op \/ m \in DOMAIN MulDiv \/ m \in {"ecall", "ebreak"} => imm = {}
BY Domains DEF Encodable

\* What is read back from w of the call of m.
ReadsBack(w, m, rd, rs1, rs2, imm) ==
  /\ w \subseteq WordBits /\ ~Reserved(w) /\ Name(w) = m
  /\ Group(w) \notin {"branch", "store", "system"} => Rd(w) = rd
  /\ Group(w) \notin {"lui", "auipc", "jal", "system"} => Rs1(w) = rs1
  /\ Group(w) \in {"branch", "store", "op"} => Rs2(w) = rs2
  /\ SvImm(w) = imm /\ (imm # {} => StepImm(w) = imm)

LEMMA OpImmBack ==
  ASSUME NEW m \in DOMAIN OpImm, NEW rd \in Register, NEW rs1 \in Register, NEW rs2 \in Register,
         NEW imm \in SUBSET WordBits, Encodable(m, imm)
  PROVE  /\ ReadsBack(Encode(m, rd, rs1, rs2, imm), m, rd, rs1, rs2, imm)
         /\ Group(Encode(m, rd, rs1, rs2, imm)) = "opimm"
<1> DEFINE w == IType(imm, rs1, OpImm[m], rd, 19)
<1>1. Encode(m, rd, rs1, rs2, imm) = w
  BY Domains DEF Encode
<1>2. imm \cap (11 .. 31) \in {{}, 11 .. 31}
  BY EncodableIs
<1>3. OpImm[m] \in Code3 /\ OpImm[m] \in {0, 2, 3, 4, 6, 7} /\ Named(OpImm, OpImm[m]) = m /\ 19 \in Code7
  BY OpImmNames DEF Code3, Code7
<1>4. /\ w \subseteq WordBits /\ Opcode(w) = 19 /\ Rd(w) = rd /\ Rs1(w) = rs1
      /\ Funct3(w) = OpImm[m]
  BY <1>3, IRead
<1>5. ISv(w) = imm /\ IStep(w) = imm
  BY <1>2, <1>3, IImmediate
<1> HIDE DEF w
<1>6. Group(w) = "opimm"
  BY <1>4, GroupIs
<1>7. ~Reserved(w)
  BY <1>3, <1>4, <1>6 DEF Reserved
<1>8. Name(w) = m
  BY <1>3, <1>4, <1>6 DEF Name
<1>9. SvImm(w) = imm /\ StepImm(w) = imm
  BY <1>3, <1>4, <1>5, <1>6 DEF SvImm, StepImm, ShiftsBy, ISv, IStep
<1> QED
  BY <1>1, <1>4, <1>6, <1>7, <1>8, <1>9 DEF ReadsBack

LEMMA ShiftBack ==
  ASSUME NEW m \in DOMAIN Shift, NEW rd \in Register, NEW rs1 \in Register, NEW rs2 \in Register,
         NEW imm \in SUBSET WordBits, Encodable(m, imm)
  PROVE  /\ ReadsBack(Encode(m, rd, rs1, rs2, imm), m, rd, rs1, rs2, imm)
         /\ Group(Encode(m, rd, rs1, rs2, imm)) = "opimm"
<1> DEFINE w == IType(Cut(imm, 0, 4, 0) \cup Field(Shift[m][1], 5), rs1, Shift[m][2], rd, 19)
<1>1. Encode(m, rd, rs1, rs2, imm) = w
  BY Domains DEF Encode
<1>2. imm \subseteq 0 .. 4
  BY EncodableIs
<1>3. /\ Shift[m][1] \in Code7 /\ Shift[m][2] \in Code3 /\ Shift[m][1] \in {0, 32} /\ Shift[m][2] \in {1, 5}
      /\ (Shift[m][1] = 0 /\ Shift[m][2] \in {1, 5}) \/ (Shift[m][1] = 32 /\ Shift[m][2] \in {5})
      /\ Named(Shift, <<Shift[m][1], Shift[m][2]>>) = m /\ 19 \in Code7
  BY ShiftNames DEF Code3, Code7
<1>4. /\ w \subseteq WordBits /\ Opcode(w) = 19 /\ Rd(w) = rd /\ Rs1(w) = rs1
      /\ Funct3(w) = Shift[m][2] /\ Funct7(w) = Shift[m][1]
  BY <1>2, <1>3, ShiftImmediate, IRead
<1>5. Cut(w, 20, 24, 0) = imm
  BY <1>2, <1>3, ShiftImmediate
<1> HIDE DEF w
<1>6. Group(w) = "opimm"
  BY <1>4, GroupIs
<1>7. ~Reserved(w)
  BY <1>3, <1>4, <1>6 DEF Reserved
<1>8. Name(w) = m
  BY <1>3, <1>4, <1>6 DEF Name
<1>9. SvImm(w) = imm /\ (imm # {} => StepImm(w) = imm)
  BY <1>3, <1>4, <1>5, <1>6 DEF SvImm, StepImm, ShiftsBy
<1> QED
  BY <1>1, <1>4, <1>6, <1>7, <1>8, <1>9 DEF ReadsBack

LEMMA OpBack ==
  ASSUME NEW m \in DOMAIN Op, NEW rd \in Register, NEW rs1 \in Register, NEW rs2 \in Register,
         NEW imm \in SUBSET WordBits, Encodable(m, imm)
  PROVE  /\ ReadsBack(Encode(m, rd, rs1, rs2, imm), m, rd, rs1, rs2, imm)
         /\ Group(Encode(m, rd, rs1, rs2, imm)) = "op"
<1> DEFINE w == RType(Op[m][1], rs2, rs1, Op[m][2], rd, 51)
<1>1. Encode(m, rd, rs1, rs2, imm) = w
  BY Domains DEF Encode
<1>2. imm = {}
  BY EncodableIs
<1>3. /\ Op[m][1] \in Code7 /\ Op[m][2] \in Code3
      /\ (Op[m][1] = 0 /\ Op[m][2] \in {0, 1, 2, 3, 4, 5, 6, 7}) \/ (Op[m][1] = 32 /\ Op[m][2] \in {0, 5})
      /\ Named(Op, <<Op[m][1], Op[m][2]>>) = m /\ 51 \in Code7
  BY OpNames DEF Code3, Code7
<1>4. /\ w \subseteq WordBits /\ Opcode(w) = 51 /\ Rd(w) = rd /\ Rs1(w) = rs1 /\ Rs2(w) = rs2
      /\ Funct3(w) = Op[m][2] /\ Funct7(w) = Op[m][1]
  BY <1>3, RRead
<1>5. imm = {}
  BY <1>2
<1> HIDE DEF w
<1>6. Group(w) = "op"
  BY <1>4, GroupIs
<1>7. ~Reserved(w)
  BY <1>3, <1>4, <1>6 DEF Reserved
<1>8. Name(w) = m
  BY <1>3, <1>4, <1>6 DEF Name
<1>9. SvImm(w) = imm /\ (imm # {} => StepImm(w) = imm)
  BY <1>3, <1>4, <1>5, <1>6 DEF SvImm, StepImm
<1> QED
  BY <1>1, <1>4, <1>6, <1>7, <1>8, <1>9 DEF ReadsBack

LEMMA MulDivBack ==
  ASSUME NEW m \in DOMAIN MulDiv, NEW rd \in Register, NEW rs1 \in Register, NEW rs2 \in Register,
         NEW imm \in SUBSET WordBits, Encodable(m, imm)
  PROVE  /\ ReadsBack(Encode(m, rd, rs1, rs2, imm), m, rd, rs1, rs2, imm)
         /\ Group(Encode(m, rd, rs1, rs2, imm)) = "op"
<1> DEFINE w == RType(MulDiv[m][1], rs2, rs1, MulDiv[m][2], rd, 51)
<1>1. Encode(m, rd, rs1, rs2, imm) = w
  BY Domains DEF Encode
<1>2. imm = {}
  BY EncodableIs
<1>3. /\ MulDiv[m][1] \in Code7 /\ MulDiv[m][2] \in Code3
      /\ MulDiv[m][1] = 1
      /\ Named(MulDiv, <<MulDiv[m][1], MulDiv[m][2]>>) = m /\ 51 \in Code7
  BY MulDivNames DEF Code3, Code7
<1>4. /\ w \subseteq WordBits /\ Opcode(w) = 51 /\ Rd(w) = rd /\ Rs1(w) = rs1 /\ Rs2(w) = rs2
      /\ Funct3(w) = MulDiv[m][2] /\ Funct7(w) = MulDiv[m][1]
  BY <1>3, RRead
<1>5. imm = {}
  BY <1>2
<1> HIDE DEF w
<1>6. Group(w) = "op"
  BY <1>4, GroupIs
<1>7. ~Reserved(w)
  BY <1>3, <1>4, <1>6 DEF Reserved
<1>8. Name(w) = m
  BY <1>3, <1>4, <1>6 DEF Name
<1>9. SvImm(w) = imm /\ (imm # {} => StepImm(w) = imm)
  BY <1>3, <1>4, <1>5, <1>6 DEF SvImm, StepImm
<1> QED
  BY <1>1, <1>4, <1>6, <1>7, <1>8, <1>9 DEF ReadsBack

LEMMA BranchBack ==
  ASSUME NEW m \in DOMAIN Branch, NEW rd \in Register, NEW rs1 \in Register, NEW rs2 \in Register,
         NEW imm \in SUBSET WordBits, Encodable(m, imm)
  PROVE  /\ ReadsBack(Encode(m, rd, rs1, rs2, imm), m, rd, rs1, rs2, imm)
         /\ Group(Encode(m, rd, rs1, rs2, imm)) = "branch"
<1> DEFINE w == BType(imm, rs2, rs1, Branch[m], 99)
<1>1. Encode(m, rd, rs1, rs2, imm) = w
  BY Domains DEF Encode
<1>2. 0 \notin imm /\ imm \cap (12 .. 31) \in {{}, 12 .. 31}
  BY EncodableIs
<1>3. Branch[m] \in Code3 /\ Branch[m] \in {0, 1, 4, 5, 6, 7} /\ Named(Branch, Branch[m]) = m /\ 99 \in Code7
  BY BranchNames DEF Code3, Code7
<1>4. /\ w \subseteq WordBits /\ Opcode(w) = 99 /\ Rs1(w) = rs1 /\ Rs2(w) = rs2
      /\ Funct3(w) = Branch[m]
  BY <1>3, BRead
<1>5. BSv(w) = imm /\ BStep(w) = imm
  BY <1>2, <1>3, BImmediate
<1> HIDE DEF w
<1>6. Group(w) = "branch"
  BY <1>4, GroupIs
<1>7. ~Reserved(w)
  BY <1>3, <1>4, <1>6 DEF Reserved
<1>8. Name(w) = m
  BY <1>3, <1>4, <1>6 DEF Name
<1>9. SvImm(w) = imm /\ (imm # {} => StepImm(w) = imm)
  BY <1>3, <1>4, <1>5, <1>6 DEF SvImm, StepImm, BSv, BStep
<1> QED
  BY <1>1, <1>4, <1>6, <1>7, <1>8, <1>9 DEF ReadsBack

LEMMA LoadBack ==
  ASSUME NEW m \in DOMAIN Load, NEW rd \in Register, NEW rs1 \in Register, NEW rs2 \in Register,
         NEW imm \in SUBSET WordBits, Encodable(m, imm)
  PROVE  /\ ReadsBack(Encode(m, rd, rs1, rs2, imm), m, rd, rs1, rs2, imm)
         /\ Group(Encode(m, rd, rs1, rs2, imm)) = "load"
<1> DEFINE w == IType(imm, rs1, Load[m], rd, 3)
<1>1. Encode(m, rd, rs1, rs2, imm) = w
  BY Domains DEF Encode
<1>2. imm \cap (11 .. 31) \in {{}, 11 .. 31}
  BY EncodableIs
<1>3. Load[m] \in Code3 /\ Load[m] \in {0, 1, 2, 4, 5} /\ Named(Load, Load[m]) = m /\ 3 \in Code7
  BY LoadNames DEF Code3, Code7
<1>4. /\ w \subseteq WordBits /\ Opcode(w) = 3 /\ Rd(w) = rd /\ Rs1(w) = rs1
      /\ Funct3(w) = Load[m]
  BY <1>3, IRead
<1>5. ISv(w) = imm /\ IStep(w) = imm
  BY <1>2, <1>3, IImmediate
<1> HIDE DEF w
<1>6. Group(w) = "load"
  BY <1>4, GroupIs
<1>7. ~Reserved(w)
  BY <1>3, <1>4, <1>6 DEF Reserved
<1>8. Name(w) = m
  BY <1>3, <1>4, <1>6 DEF Name
<1>9. SvImm(w) = imm /\ (imm # {} => StepImm(w) = imm)
  BY <1>3, <1>4, <1>5, <1>6 DEF SvImm, StepImm, ISv, IStep
<1> QED
  BY <1>1, <1>4, <1>6, <1>7, <1>8, <1>9 DEF ReadsBack

LEMMA StoreBack ==
  ASSUME NEW m \in DOMAIN Store, NEW rd \in Register, NEW rs1 \in Register, NEW rs2 \in Register,
         NEW imm \in SUBSET WordBits, Encodable(m, imm)
  PROVE  /\ ReadsBack(Encode(m, rd, rs1, rs2, imm), m, rd, rs1, rs2, imm)
         /\ Group(Encode(m, rd, rs1, rs2, imm)) = "store"
<1> DEFINE w == SType(imm, rs2, rs1, Store[m], 35)
<1>1. Encode(m, rd, rs1, rs2, imm) = w
  BY Domains DEF Encode
<1>2. imm \cap (11 .. 31) \in {{}, 11 .. 31}
  BY EncodableIs
<1>3. Store[m] \in Code3 /\ Store[m] \in {0, 1, 2} /\ Named(Store, Store[m]) = m /\ 35 \in Code7
  BY StoreNames DEF Code3, Code7
<1>4. /\ w \subseteq WordBits /\ Opcode(w) = 35 /\ Rs1(w) = rs1 /\ Rs2(w) = rs2
      /\ Funct3(w) = Store[m]
  BY <1>3, SRead
<1>5. SSv(w) = imm /\ SStep(w) = imm
  BY <1>2, <1>3, SImmediate
<1> HIDE DEF w
<1>6. Group(w) = "store"
  BY <1>4, GroupIs
<1>7. ~Reserved(w)
  BY <1>3, <1>4, <1>6 DEF Reserved
<1>8. Name(w) = m
  BY <1>3, <1>4, <1>6 DEF Name
<1>9. SvImm(w) = imm /\ (imm # {} => StepImm(w) = imm)
  BY <1>3, <1>4, <1>5, <1>6 DEF SvImm, StepImm, SSv, SStep
<1> QED
  BY <1>1, <1>4, <1>6, <1>7, <1>8, <1>9 DEF ReadsBack

LEMMA UpperBack ==
  ASSUME NEW m \in DOMAIN Upper, NEW rd \in Register, NEW rs1 \in Register, NEW rs2 \in Register,
         NEW imm \in SUBSET WordBits, Encodable(m, imm)
  PROVE  /\ ReadsBack(Encode(m, rd, rs1, rs2, imm), m, rd, rs1, rs2, imm)
         /\ Group(Encode(m, rd, rs1, rs2, imm)) = m
<1> DEFINE w == UType(imm, rd, Upper[m])
<1>1. Encode(m, rd, rs1, rs2, imm) = w
  BY Domains DEF Encode
<1>2. imm \cap (0 .. 11) = {}
  BY EncodableIs
<1>3. m \in {"lui", "auipc"} /\ Upper[m] \in Code7 /\ (m = "lui" => Upper[m] = 55) /\ (m = "auipc" => Upper[m] = 23)
  BY Domains DEF Upper, Code7
<1>4. /\ w \subseteq WordBits /\ Opcode(w) = Upper[m] /\ Rd(w) = rd
  BY <1>3, URead
<1>5. w \cap (12 .. 31) = imm
  BY <1>2, <1>3, UImmediate
<1> HIDE DEF w
<1>6. Group(w) = m
  BY <1>3, <1>4, GroupIs
<1>7. ~Reserved(w)
  BY <1>3, <1>4, <1>6 DEF Reserved
<1>8. Name(w) = m
  BY <1>3, <1>4, <1>6 DEF Name
<1>9. SvImm(w) = imm /\ (imm # {} => StepImm(w) = imm)
  BY <1>3, <1>4, <1>5, <1>6 DEF SvImm, StepImm
<1> QED
  BY <1>1, <1>3, <1>4, <1>6, <1>7, <1>8, <1>9 DEF ReadsBack

LEMMA JalBack ==
  ASSUME NEW rd \in Register, NEW rs1 \in Register, NEW rs2 \in Register,
         NEW imm \in SUBSET WordBits, Encodable("jal", imm)
  PROVE  ReadsBack(Encode("jal", rd, rs1, rs2, imm), "jal", rd, rs1, rs2, imm)
<1> DEFINE w == JType(imm, rd, 111)
<1>1. Encode("jal", rd, rs1, rs2, imm) = w
  BY Domains DEF Encode
<1>2. 0 \notin imm /\ imm \cap (20 .. 31) \in {{}, 20 .. 31}
  BY EncodableIs
<1>3. 111 \in Code7
  BY DEF Code7
<1>4. w \subseteq WordBits /\ Opcode(w) = 111 /\ Rd(w) = rd
  BY <1>3, JRead
<1>5. JSv(w) = imm /\ JStep(w) = imm
  BY <1>2, <1>3, JImmediate
<1> HIDE DEF w
<1>6. Group(w) = "jal"
  BY <1>4, GroupIs
<1>7. ~Reserved(w) /\ Name(w) = "jal"
  BY <1>6 DEF Reserved, Name
<1>8. SvImm(w) = imm /\ StepImm(w) = imm
  BY <1>5, <1>6 DEF SvImm, StepImm, JSv, JStep
<1> QED
  BY <1>1, <1>4, <1>6, <1>7, <1>8 DEF ReadsBack

LEMMA JalrBack ==
  ASSUME NEW rd \in Register, NEW rs1 \in Register, NEW rs2 \in Register,
         NEW imm \in SUBSET WordBits, Encodable("jalr", imm)
  PROVE  ReadsBack(Encode("jalr", rd, rs1, rs2, imm), "jalr", rd, rs1, rs2, imm)
<1> DEFINE w == IType(imm, rs1, 0, rd, 103)
<1>1. Encode("jalr", rd, rs1, rs2, imm) = w
  BY Domains DEF Encode
<1>2. imm \cap (11 .. 31) \in {{}, 11 .. 31}
  BY EncodableIs
<1>3. 103 \in Code7 /\ 0 \in Code3
  BY DEF Code3, Code7
<1>4. w \subseteq WordBits /\ Opcode(w) = 103 /\ Rd(w) = rd /\ Rs1(w) = rs1 /\ Funct3(w) = 0
  BY <1>3, IRead
<1>5. ISv(w) = imm /\ IStep(w) = imm
  BY <1>2, <1>3, IImmediate
<1> HIDE DEF w
<1>6. Group(w) = "jalr"
  BY <1>4, GroupIs
<1>7. ~Reserved(w) /\ Name(w) = "jalr"
  BY <1>4, <1>6 DEF Reserved, Name
<1>8. SvImm(w) = imm /\ StepImm(w) = imm
  BY <1>5, <1>6 DEF SvImm, StepImm, ISv, IStep
<1> QED
  BY <1>1, <1>4, <1>6, <1>7, <1>8 DEF ReadsBack

LEMMA SystemBack ==
  ASSUME NEW m \in {"ecall", "ebreak"}, NEW rd, NEW rs1, NEW rs2, NEW imm, Encodable(m, imm)
  PROVE  ReadsBack(Encode(m, rd, rs1, rs2, imm), m, rd, rs1, rs2, imm)
<1> DEFINE w == Encode(m, rd, rs1, rs2, imm)
<1>1. w = IF m = "ecall" THEN ECALL ELSE EBREAK
  BY Domains DEF Encode
<1>2. imm = {}
  BY EncodableIs
<1> HIDE DEF w
<1>3. w \subseteq WordBits /\ Opcode(w) = 115
  BY <1>1, SystemWords
<1>4. Group(w) = "system"
  BY <1>3, GroupIs
<1>5. ~Reserved(w) /\ Name(w) = m
  BY <1>1, <1>4, SystemWords DEF Reserved, Name
<1>6. SvImm(w) = imm
  BY <1>2, <1>4 DEF SvImm
<1> QED
  BY <1>2, <1>3, <1>4, <1>5, <1>6 DEF ReadsBack, w

\* Whatever the encoder is called for is read back.
LEMMA CallReadsBack ==
  ASSUME NEW m \in Mnemonics, NEW rd \in Register, NEW rs1 \in Register, NEW rs2 \in Register,
         NEW imm \in SUBSET WordBits, Encodable(m, imm)
  PROVE  ReadsBack(Encode(m, rd, rs1, rs2, imm), m, rd, rs1, rs2, imm)
<1>1. CASE m \in DOMAIN OpImm
  BY <1>1, OpImmBack
<1>2. CASE m \in DOMAIN Shift
  BY <1>2, ShiftBack
<1>3. CASE m \in DOMAIN Op
  BY <1>3, OpBack
<1>4. CASE m \in DOMAIN MulDiv
  BY <1>4, MulDivBack
<1>5. CASE m \in DOMAIN Branch
  BY <1>5, BranchBack
<1>6. CASE m \in DOMAIN Load
  BY <1>6, LoadBack
<1>7. CASE m \in DOMAIN Store
  BY <1>7, StoreBack
<1>8. CASE m \in DOMAIN Upper
  BY <1>8, UpperBack
<1>9. CASE m = "jal"
  BY <1>9, JalBack
<1>10. CASE m = "jalr"
  BY <1>10, JalrBack
<1>11. CASE m \in {"ecall", "ebreak"}
  BY <1>11, SystemBack
<1> QED
  BY <1>1, <1>2, <1>3, <1>4, <1>5, <1>6, <1>7, <1>8, <1>9, <1>10, <1>11 DEF Mnemonics

-----------------------------------------------------------------------------
(* The windows. *)

CallRecords == [m : Mnemonics, rd : Nat, rs1 : Nat, rs2 : Nat, imm : SUBSET WordBits]

\* w is the word the source s makes, if it is a call.
MadeBy(w, s) ==
  s = Data \/ ( /\ s \in CallRecords
                /\ CheckReg(s.rd) /\ CheckReg(s.rs1) /\ CheckReg(s.rs2) /\ Encodable(s.m, s.imm)
                /\ w = Encode(s.m, s.rd, s.rs1, s.rs2, s.imm))

Slot(w, pc) == [v |-> TRUE, pc |-> pc, ins |-> Instruction(w)]
SlotsOf == {Slot(w, pc) : w \in SUBSET WordBits, pc \in Nat}

\* Of every window: its words are words, each is what its source makes, and its
\* slots are the decoded words at consecutive addresses.
Filled ==
  /\ window \in Seq(SUBSET WordBits) /\ source \in Seq({Data} \cup CallRecords)
  /\ slots \in Seq(SlotsOf)
  /\ Len(source) = Len(window) /\ Len(slots) = Len(window) /\ Len(window) <= 2
  /\ \A k \in 1 .. Len(window) : MadeBy(window[k], source[k])
  /\ \A k \in 1 .. Len(window) : slots[k] = Slot(window[k], 4 * (k - 1))

LEMMA PlaceFills ==
  ASSUME Filled, Len(window) <= 1, NEW w \in SUBSET WordBits, NEW s \in {Data} \cup CallRecords,
         MadeBy(w, s), Place(w, s)
  PROVE  Filled'
<1> DEFINE n == Len(window)
<1>1. n \in Nat /\ Len(source) = n /\ Len(slots) = n
  BY DEF Filled
<1>2. window' = Append(window, w) /\ source' = Append(source, s) /\ slots' = Append(slots, Slot(w, 4 * n))
  BY DEF Place, Slot
<1>3. window' \in Seq(SUBSET WordBits) /\ Len(window') = n + 1 /\ window'[n + 1] = w
      /\ \A k \in 1 .. n : window'[k] = window[k]
  BY <1>1, <1>2 DEF Filled
<1>4. source' \in Seq({Data} \cup CallRecords) /\ Len(source') = n + 1 /\ source'[n + 1] = s
      /\ \A k \in 1 .. n : source'[k] = source[k]
  BY <1>1, <1>2 DEF Filled
<1>5. Slot(w, 4 * n) \in SlotsOf
  <2>1. 4 * n \in Nat
    BY <1>1
  <2> HIDE DEF n
  <2>2. \A pc \in Nat : Slot(w, pc) \in SlotsOf
    BY DEF SlotsOf
  <2> QED
    BY <2>1, <2>2
<1>6. slots' \in Seq(SlotsOf) /\ Len(slots') = n + 1 /\ slots'[n + 1] = Slot(w, 4 * n)
      /\ \A k \in 1 .. n : slots'[k] = slots[k]
  BY <1>1, <1>2, <1>5 DEF Filled
<1>7. \A k \in 1 .. n : MadeBy(window[k], source[k]) /\ slots[k] = Slot(window[k], 4 * (k - 1))
  BY DEF Filled
<1>8. ASSUME NEW k \in 1 .. n + 1
      PROVE  MadeBy(window'[k], source'[k]) /\ slots'[k] = Slot(window'[k], 4 * (k - 1))
  <2>1. CASE k = n + 1
    <3>1. 4 * (k - 1) = 4 * n
      BY <1>1, <2>1
    <3> QED
      BY <1>3, <1>4, <1>6, <2>1, <3>1
  <2>2. CASE k \in 1 .. n
    BY <1>3, <1>4, <1>6, <1>7, <2>2
  <2> QED
    BY <1>1, <2>1, <2>2
<1> HIDE DEF n
<1>9. /\ \A k \in 1 .. Len(window') : MadeBy(window'[k], source'[k])
      /\ \A k \in 1 .. Len(window') : slots'[k] = Slot(window'[k], 4 * (k - 1))
  BY <1>3, <1>8
<1>11. Len(source') = Len(window') /\ Len(slots') = Len(window') /\ Len(window') <= 2
  BY <1>1, <1>3, <1>4, <1>6 DEF n
<1> QED
  BY <1>3, <1>4, <1>6, <1>9, <1>11 DEF Filled, MadeBy, Slot

\* A call that is assembled makes a word, which is read back.
LEMMA AssembledWord ==
  ASSUME NEW c \in CallRecords,
         CheckReg(c.rd), CheckReg(c.rs1), CheckReg(c.rs2), Encodable(c.m, c.imm)
  PROVE  ReadsBack(Encode(c.m, c.rd, c.rs1, c.rs2, c.imm), c.m, c.rd, c.rs1, c.rs2, c.imm)
<1>1. c.m \in Mnemonics /\ c.imm \in SUBSET WordBits
  BY DEF CallRecords
<1>2. c.rd \in Register /\ c.rs1 \in Register /\ c.rs2 \in Register
  BY DEF CheckReg, Register
<1> QED
  BY <1>1, <1>2, CallReadsBack

LEMMA FilledInit == Init => Filled
BY DEF Init, Filled

LEMMA FilledStep == Filled /\ [Next]_windowVars => Filled'
<1> SUFFICES ASSUME Filled, [Next]_windowVars PROVE Filled'
  OBVIOUS
<1>1. ASSUME NEW c \in CallRecords, Assemble(c), Len(window) <= 1 PROVE Filled'
  <2> DEFINE w == Encode(c.m, c.rd, c.rs1, c.rs2, c.imm)
  <2>1. Place(w, c) /\ CheckReg(c.rd) /\ CheckReg(c.rs1) /\ CheckReg(c.rs2) /\ Encodable(c.m, c.imm)
    BY <1>1 DEF Assemble
  <2>2. w \in SUBSET WordBits
    BY <2>1, AssembledWord DEF ReadsBack
  <2>3. MadeBy(w, c)
    BY <2>1 DEF MadeBy
  <2> HIDE DEF w
  <2> QED
    BY <1>1, <2>1, <2>2, <2>3, PlaceFills
<1>2. ASSUME NEW w \in SUBSET WordBits, PlaceData(w), Len(window) <= 1 PROVE Filled'
  BY <1>2, PlaceFills DEF PlaceData, MadeBy
<1>3. CASE First
  <2>1. Len(window) <= 1
    BY <1>3 DEF First
  <2>2. /\ \A c \in Calls \cup PairCalls : c \in CallRecords
        /\ \A w \in RawWords \cup PairWords : w \in SUBSET WordBits
    BY WindowAssumption DEF CallRecords
  <2> QED
    BY <1>1, <1>2, <1>3, <2>1, <2>2 DEF First
<1>4. CASE Second
  <2>1. Len(window) <= 1
    BY <1>4 DEF Second
  <2>2. /\ \A c \in PairCalls : c \in CallRecords
        /\ \A w \in PairWords : w \in SUBSET WordBits
    BY WindowAssumption DEF CallRecords
  <2> QED
    BY <1>1, <1>2, <1>4, <2>1, <2>2 DEF Second
<1>5. CASE Clear
  BY <1>5 DEF Clear, Filled
<1>6. CASE UNCHANGED windowVars
  BY <1>6 DEF windowVars, Filled, MadeBy
<1> QED
  BY <1>3, <1>4, <1>5, <1>6 DEF Next

\* Every window of the assembler and of raw data is filled as Filled says.
THEOREM WindowsFilled == Spec => []Filled
BY FilledInit, FilledStep, PTL DEF Spec

\* What a filled window says of its k-th word.
LEMMA FilledWord ==
  ASSUME Filled, NEW k \in 1 .. Len(window)
  PROVE  /\ window[k] \in SUBSET WordBits /\ slots[k] = Slot(window[k], 4 * (k - 1))
         /\ slots[k].ins = Instruction(window[k])
         /\ MadeBy(window[k], source[k])
<1>1. window[k] \in SUBSET WordBits
  BY DEF Filled
<1>2. slots[k] = Slot(window[k], 4 * (k - 1)) /\ MadeBy(window[k], source[k])
  BY DEF Filled
<1> QED
  BY <1>1, <1>2 DEF Slot

\* Every call of the encoder is read back by the decoder, the reference model
\* and the coverage names: mnemonic, registers in use and the immediate.
LEMMA FilledReadsBack == Filled => EncoderReadsBack
<1> SUFFICES ASSUME Filled, NEW k \in Assembled
             PROVE  LET w == window[k]  s == source[k]  ins == Decoded(k) IN
                    /\ Name(w) = s.m
                    /\ Pkg!RdWrite(ins) => ins.rd = s.rd
                    /\ Pkg!Rs1Used(ins) => ins.rs1 = s.rs1
                    /\ Pkg!Rs2Used(ins) => ins.rs2 = s.rs2
                    /\ SvImm(w) = s.imm /\ (s.imm # {} => StepImm(w) = s.imm)
  BY DEF EncoderReadsBack
<1> DEFINE w == window[k]
           s == source[k]
<1>1. k \in 1 .. Len(window) /\ s # Data
  BY DEF Assembled, Alone
<1>2. w \in SUBSET WordBits /\ Decoded(k) = Instruction(w) /\ MadeBy(w, s)
  BY <1>1, FilledWord DEF Decoded
<1> HIDE DEF w, s
<1>3. s \in CallRecords /\ ReadsBack(w, s.m, s.rd, s.rs1, s.rs2, s.imm)
  <2>1. /\ s \in CallRecords
        /\ CheckReg(s.rd) /\ CheckReg(s.rs1) /\ CheckReg(s.rs2) /\ Encodable(s.m, s.imm)
        /\ w = Encode(s.m, s.rd, s.rs1, s.rs2, s.imm)
    BY <1>1, <1>2 DEF MadeBy
  <2> QED
    BY <2>1, AssembledWord
<1>4. Group(w) \in Groups
  BY <1>2, GroupIs
<1>5. /\ "rd_write" \in SvFlags(w) => Group(w) \notin {"branch", "store", "system"}
      /\ "rs1_used" \in SvFlags(w) => Group(w) \notin {"lui", "auipc", "jal", "system"}
      /\ "rs2_used" \in SvFlags(w) => Group(w) \in {"branch", "store", "op"}
  BY <1>4 DEF SvFlags, Eligible, Groups
<1> DEFINE ins == Instruction(w)
<1>6. ins.rd = Rd(w) /\ ins.rs1 = Rs1(w) /\ ins.rs2 = Rs2(w)
  BY DEF Instruction
<1>7. /\ Pkg!RdWrite(ins) => "rd_write" \in SvFlags(w)
      /\ Pkg!Rs1Used(ins) => "rs1_used" \in SvFlags(w)
      /\ Pkg!Rs2Used(ins) => "rs2_used" \in SvFlags(w)
  BY <1>2, WordFlags
<1> HIDE DEF ins
<1>8. Pkg!RdWrite(ins) => ins.rd = s.rd
  BY <1>3, <1>5, <1>6, <1>7 DEF ReadsBack
<1>9. Pkg!Rs1Used(ins) => ins.rs1 = s.rs1
  BY <1>3, <1>5, <1>6, <1>7 DEF ReadsBack
<1>10. Pkg!Rs2Used(ins) => ins.rs2 = s.rs2
  BY <1>3, <1>5, <1>6, <1>7 DEF ReadsBack
<1>11. Name(w) = s.m /\ SvImm(w) = s.imm /\ (s.imm # {} => StepImm(w) = s.imm)
  BY <1>3 DEF ReadsBack
<1> QED
  BY <1>2, <1>8, <1>9, <1>10, <1>11 DEF w, s, ins

\* In every window, every call of the encoder is read back: mnemonic, the
\* registers the operation has, and its immediate (riscv_encode.py against
\* decoder.sv, rv32im_model.py and check_isa_coverage.py).
THEOREM EncoderReadsBackAlways == Spec => []EncoderReadsBack
BY WindowsFilled, FilledReadsBack, PTL

\* For every word of 32 bits the decoder, the reference model, the timing
\* model and the coverage names agree on whether it is illegal.
LEMMA SameIllegalWords ==
  ASSUME NEW w \in SUBSET WordBits
  PROVE  /\ StepIllegal(w) <=> ~SvLegal(w)
         /\ "illegal" \in MetaFlags(w) <=> ~SvLegal(w)
         /\ Name(w) = "illegal" <=> ~SvLegal(w)
<1>1. SvLegal(w) <=> ~Reserved(w)
  BY SvReserved
<1>2. StepIllegal(w) <=> Reserved(w)
  BY StepReserved
<1>3. "illegal" \in MetaFlags(w) <=> Reserved(w)
  BY MetaReserved
<1>4. Name(w) = "illegal" <=> Reserved(w)
  BY NameReserved
<1> QED
  BY <1>1, <1>2, <1>3, <1>4

LEMMA FilledIllegal == Filled => OneSetOfIllegalWords
<1> SUFFICES ASSUME Filled, NEW w \in Words
             PROVE  /\ StepIllegal(w) <=> ~SvLegal(w)
                    /\ "illegal" \in MetaFlags(w) <=> ~SvLegal(w)
                    /\ Name(w) = "illegal" <=> ~SvLegal(w)
  BY DEF OneSetOfIllegalWords
<1>1. w \in SUBSET WordBits
  BY FilledWord DEF Words, Alone
<1> QED
  BY <1>1, SameIllegalWords

\* In every window the four readings trap on the same words.
THEOREM OneSetOfIllegalWordsAlways == Spec => []OneSetOfIllegalWords
BY WindowsFilled, FilledIllegal, PTL

LEMMA FilledFlags == Filled => FlagsFollowClass
<1> SUFFICES ASSUME Filled, NEW k \in Alone
             PROVE  LET ins == Decoded(k)  f == SvFlags(window[k]) IN
                    /\ Pkg!WellDecoded(ins)
                    /\ "rs1_used" \in f <=> Pkg!Rs1Used(ins)
                    /\ "rs2_used" \in f <=> Pkg!Rs2Used(ins)
                    /\ "rd_write" \in f <=> Pkg!RdWrite(ins)
                    /\ "use_imm"  \in f <=> Pkg!UseImm(ins)
                    /\ "lane1_eligible" \in f <=> Pkg!Lane1Eligible(ins)
  BY DEF FlagsFollowClass
<1>1. k \in 1 .. Len(window)
  BY DEF Alone
<1>2. window[k] \in SUBSET WordBits /\ Decoded(k) = Instruction(window[k])
  BY <1>1, FilledWord DEF Decoded
<1> QED
  BY <1>2, WordFlags

\* In every window the flags of decoder.sv are those the pipeline derives from
\* the class and the legality of the instruction.
THEOREM FlagsFollowClassAlways == Spec => []FlagsFollowClass
BY WindowsFilled, FilledFlags, PTL

LEMMA FilledMeta == Filled => MetaAgrees
<1> SUFFICES ASSUME Filled, NEW k \in Alone
             PROVE  LET w == window[k]  ins == Decoded(k)  m == MetaFlags(w) IN
                    /\ (Group(w) = "jalr" /\ ~SvLegal(w)) \/ m \cap Shared = SvFlags(w) \cap Shared
                    /\ "rs1_used" \in m <=> Tm!MetaRs1Used(ins)
                    /\ "rs2_used" \in m <=> Pkg!Rs2Used(ins)
                    /\ "rd_write" \in m <=> Tm!MetaRdWrite(ins)
                    /\ "is_mul" \in m <=> Pkg!IsMul(ins)
                    /\ "is_div" \in m <=> Pkg!IsDiv(ins)
                    /\ "lane1" \in m <=> ~Sv!Special(ins)
                    /\ "special" \in m <=> Sv!Special(ins)
  BY DEF MetaAgrees, Shared
<1>1. k \in 1 .. Len(window)
  BY DEF Alone
<1>2. window[k] \in SUBSET WordBits /\ Decoded(k) = Instruction(window[k])
  BY <1>1, FilledWord DEF Decoded
<1> QED
  BY <1>2, WordMeta, WordMetaRegs

\* In every window decode_meta of the timing model gives a word the operands,
\* the unit and the lane that decoder.sv and dual_issue_unit.sv give it, but
\* for the operand and the result of the illegal JALR.
THEOREM MetaAgreesAlways == Spec => []MetaAgrees
BY WindowsFilled, FilledMeta, PTL

LEMMA FilledPairs == Filled => PairingAgrees
<1> SUFFICES ASSUME Filled, Len(window) = 2
             PROVE  LET d0 == slots[1]  d1 == slots[2]
                        svPairs == Sv!IssueSlot1(d0, d1, FALSE, FALSE) IN
                    /\ Tm!PairReason(d0, d1) = "pair" <=> svPairs
                    /\ ~d0.ins.ill /\ ~d1.ins.ill => (Im!CanPair(d0.ins, d1.ins) <=> svPairs)
  BY DEF PairingAgrees
<1> DEFINE d0 == slots[1]
           d1 == slots[2]
<1>1. 1 \in 1 .. Len(window) /\ 2 \in 1 .. Len(window)
  OBVIOUS
<1>2. /\ window[1] \in SUBSET WordBits /\ window[2] \in SUBSET WordBits
      /\ d0 = Slot(window[1], 0) /\ d1 = Slot(window[2], 4)
  <2>1. 4 * (1 - 1) = 0 /\ 4 * (2 - 1) = 4
    OBVIOUS
  <2> QED
    BY <1>1, <2>1, FilledWord
<1>3. /\ d0.v = TRUE /\ d1.v = TRUE /\ d0.pc = 0 /\ d1.pc = 4
      /\ d0.ins = Instruction(window[1]) /\ d1.ins = Instruction(window[2])
  BY <1>2 DEF Slot
<1> HIDE DEF d0, d1
<1>4. d1.pc = Tm!AddW(d0.pc, 4)
  BY <1>3 DEF Tm!AddW
<1>5. Tm!PairReason(d0, d1) = "pair" <=>
           /\ ~(Tm!MetaRdWrite(d0.ins) /\ d0.ins.rd # 0 /\ Tm!DependsOn(d1, d0.ins.rd))
           /\ ~(Tm!MetaRdWrite(d0.ins) /\ d0.ins.rd # 0 /\ Tm!MetaRdWrite(d1.ins) /\ d1.ins.rd = d0.ins.rd)
           /\ ~Tm!Special(d0.ins) /\ ~Tm!Special(d1.ins)
  BY <1>4 DEF Tm!PairReason
<1>6. Sv!IssueSlot1(d0, d1, FALSE, FALSE) <=>
           /\ ~(Sv!RdWrite(d0.ins) /\ d0.ins.rd # 0 /\ Sv!Reads(d1.ins, d0.ins.rd))
           /\ ~(Sv!RdWrite(d0.ins) /\ d0.ins.rd # 0 /\ Sv!RdWrite(d1.ins) /\ d1.ins.rd = d0.ins.rd)
           /\ ~Sv!Special(d0.ins) /\ ~Sv!Special(d1.ins)
  BY <1>3 DEF Sv!IssueSlot1, Sv!IssueSlot0, Sv!PairRaw, Sv!PairWaw, Sv!PairStructural
<1>7. Tm!PairReason(d0, d1) = "pair" <=> Sv!IssueSlot1(d0, d1, FALSE, FALSE)
  <2>1. ASSUME NEW x, ~Tm!Special(x)
        PROVE  ~Tm!ReservedJalr(x)
    BY <2>1 DEF Tm!Special, Tm!Lane1Eligible, Tm!ReservedJalr
  <2>2. CASE Tm!Special(d0.ins) \/ Tm!Special(d1.ins)
    BY <1>5, <1>6, <2>2 DEF Tm!Special, Tm!Lane1Eligible, Sv!Special, Sv!Lane1Eligible
  <2>3. CASE ~Tm!Special(d0.ins) /\ ~Tm!Special(d1.ins)
    <3>1. ~Tm!ReservedJalr(d0.ins) /\ ~Tm!ReservedJalr(d1.ins)
      BY <2>1, <2>3
    <3> QED
      BY <1>5, <1>6, <2>3, <3>1
      DEF Tm!MetaRdWrite, Tm!MetaRs1Used, Tm!DependsOn, Tm!RdWrite, Tm!Rs1Used, Tm!Rs2Used,
          Tm!Special, Tm!Lane1Eligible, Sv!RdWrite, Sv!Reads, Sv!Rs1Used, Sv!Rs2Used,
          Sv!Special, Sv!Lane1Eligible
  <2> QED
    BY <2>2, <2>3
<1>8. ASSUME NEW x, ~x.ill
      PROVE  ~Sv!Special(x) <=> Im!PlainAlu(x)
  BY <1>8 DEF Sv!Special, Sv!Lane1Eligible, Im!PlainAlu
<1>9. ~d0.ins.ill /\ ~d1.ins.ill => (Im!CanPair(d0.ins, d1.ins) <=> Sv!IssueSlot1(d0, d1, FALSE, FALSE))
  BY <1>6, <1>8 DEF Im!CanPair, Im!RdWrite, Im!Reads, Im!Rs1Used, Im!Rs2Used,
                    Sv!RdWrite, Sv!Reads, Sv!Rs1Used, Sv!Rs2Used
<1> QED
  BY <1>7, <1>9 DEF d0, d1

\* In every window of two words dual_issue_unit.sv, the timing model and, for
\* legal words, the issue model pair the same instructions.
THEOREM PairingAgreesAlways == Spec => []PairingAgrees
BY WindowsFilled, FilledPairs, PTL

-----------------------------------------------------------------------------
(* The random programs. *)

\* A legal word that does not transfer control, and which accesses nothing but
\* an aligned word at the base.
Straight(w) ==
  /\ w \in SUBSET WordBits /\ ~Reserved(w)
  /\ Group(w) \in {"opimm", "op", "load", "store"}
  /\ Group(w) \in {"load", "store"} => Rs1(w) = 28 /\ SvImm(w) \subseteq {2, 3, 4}

\* It writes one of the registers 4..27, if it writes one at all.
Keeps(w) == Group(w) # "store" => Rd(w) \in 4 .. 27

StartWords == {w \in SUBSET WordBits : Straight(w)}
BodyWords  == {w \in SUBSET WordBits : Straight(w) /\ Keeps(w)}

\* Of every program: what kind of words the iteration has appended.
Generated ==
  /\ i \in -1 .. Count + 1
  /\ i <= 0 => emitted \in Seq(StartWords)
  /\ 0 < i /\ i <= Count => emitted \in Seq(BodyWords)
  /\ i = Count + 1 => emitted \in Seq({EBREAK})

LEMMA RegisterWord ==
  ASSUME NEW op \in RegOps, NEW rd \in 4 .. 27, NEW rs1 \in Register, NEW rs2 \in Register
  PROVE  Encode(op, rd, rs1, rs2, {}) \in BodyWords
<1> DEFINE w == Encode(op, rd, rs1, rs2, {})
<1>1. rd \in Register /\ {} \in SUBSET WordBits
  BY DEF Register
<1>2. op \in DOMAIN Op \/ op \in DOMAIN MulDiv
  BY Domains DEF RegOps
<1>3. Encodable(op, {})
  BY <1>2, Domains DEF Encodable
<1>4. ReadsBack(w, op, rd, rs1, rs2, {}) /\ Group(w) = "op"
  <2>1. CASE op \in DOMAIN Op
    BY <1>1, <1>3, <2>1, OpBack
  <2>2. CASE op \in DOMAIN MulDiv
    BY <1>1, <1>3, <2>2, MulDivBack
  <2> QED
    BY <1>2, <2>1, <2>2
<1> HIDE DEF w
<1>5. w \in SUBSET WordBits /\ ~Reserved(w) /\ Rd(w) = rd
  BY <1>4 DEF ReadsBack
<1> QED
  BY <1>4, <1>5 DEF BodyWords, Straight, Keeps, w

LEMMA ConstantWord ==
  ASSUME NEW op \in ImmOps, NEW rd \in Register, NEW rs1 \in Register,
         NEW imm \in SUBSET WordBits, imm \cap (11 .. 31) \in {{}, 11 .. 31}
  PROVE  /\ Encode(op, rd, rs1, 0, imm) \in StartWords
         /\ Group(Encode(op, rd, rs1, 0, imm)) = "opimm"
         /\ Rd(Encode(op, rd, rs1, 0, imm)) = rd
<1> DEFINE w == Encode(op, rd, rs1, 0, imm)
<1>1. 0 \in Register
  BY DEF Register
<1>2. op \in DOMAIN OpImm
  BY Domains DEF ImmOps
<1>3. Encodable(op, imm)
  BY <1>2, Domains DEF Encodable
<1>4. ReadsBack(w, op, rd, rs1, 0, imm) /\ Group(w) = "opimm"
  BY <1>1, <1>2, <1>3, OpImmBack
<1> HIDE DEF w
<1>5. w \in SUBSET WordBits /\ ~Reserved(w) /\ Rd(w) = rd
  BY <1>4 DEF ReadsBack
<1> QED
  BY <1>4, <1>5 DEF StartWords, Straight, w

\* The offsets of the pairs of a store and a load.
LEMMA OffsetBits ==
  ASSUME NEW n \in Nat
  PROVE  BitsOf(MemOffset(n)) \subseteq {2, 3, 4}
<1> DEFINE k == n % 8
<1>1. k \in {0, 1, 2, 3, 4, 5, 6, 7}
  OBVIOUS
<1> HIDE DEF k
<1>2. MemOffset(n) = k * 4
  BY DEF MemOffset, k
<1>3. BitsOf(0 * 4) \subseteq {2, 3, 4} /\ BitsOf(1 * 4) \subseteq {2, 3, 4}
  BY BitsAre
<1>4. BitsOf(2 * 4) \subseteq {2, 3, 4} /\ BitsOf(3 * 4) \subseteq {2, 3, 4}
  BY BitsAre
<1>5. BitsOf(4 * 4) \subseteq {2, 3, 4} /\ BitsOf(5 * 4) \subseteq {2, 3, 4}
  BY BitsAre
<1>6. BitsOf(6 * 4) \subseteq {2, 3, 4} /\ BitsOf(7 * 4) \subseteq {2, 3, 4}
  BY BitsAre
<1> QED
  BY <1>1, <1>2, <1>3, <1>4, <1>5, <1>6

LEMMA MemoryPairWords ==
  ASSUME NEW rd \in 4 .. 27, i \in Nat
  PROVE  MemoryPair(rd) \in Seq(BodyWords)
<1> DEFINE off == BitsOf(MemOffset(i))
           sw == Encode("sw", 0, 28, rd, off)
           lw == Encode("lw", LoadTarget(rd), 28, 0, off)
<1>1. off \subseteq {2, 3, 4}
  BY OffsetBits
<1> HIDE DEF off
<1>2. off \in SUBSET WordBits
  BY <1>1 DEF WordBits
<1>3. LoadTarget(rd) \in 4 .. 27
  BY DEF LoadTarget
<1>4. rd \in Register /\ 0 \in Register /\ 28 \in Register /\ LoadTarget(rd) \in Register
  BY <1>3 DEF Register
<1>5. off \cap (11 .. 31) = {}
  BY <1>1
<1>6. "sw" \in DOMAIN Store /\ "lw" \in DOMAIN Load /\ Encodable("sw", off) /\ Encodable("lw", off)
  BY <1>5, Domains DEF Encodable
<1>7. ReadsBack(sw, "sw", 0, 28, rd, off) /\ Group(sw) = "store"
  BY <1>2, <1>4, <1>6, StoreBack
<1>8. ReadsBack(lw, "lw", LoadTarget(rd), 28, 0, off) /\ Group(lw) = "load"
  BY <1>2, <1>4, <1>6, LoadBack
<1> HIDE DEF sw, lw
<1>9. sw \in BodyWords
  BY <1>1, <1>7 DEF ReadsBack, BodyWords, Straight, Keeps
<1>10. lw \in BodyWords
  BY <1>1, <1>3, <1>8 DEF ReadsBack, BodyWords, Straight, Keeps
<1>11. MemoryPair(rd) = IF i % 17 # 0 THEN <<>> ELSE <<sw, lw>>
  BY DEF MemoryPair, off, sw, lw
<1> QED
  BY <1>9, <1>10, <1>11

LEMMA PrologueWords == Prologue \in Seq(StartWords)
<1>1. "addi" \in ImmOps /\ 28 \in Register /\ 0 \in Register /\ 1 \in Register /\ 2 \in Register /\ 3 \in Register
  BY DEF ImmOps, Register
<1>2. BitsOf(1024) \in SUBSET WordBits /\ BitsOf(1024) \cap (11 .. 31) \in {{}, 11 .. 31}
  BY BitsOfCodes DEF WordBits
<1>3. {0} \in SUBSET WordBits /\ {0} \cap (11 .. 31) \in {{}, 11 .. 31}
  BY DEF WordBits
<1>4. {0, 1} \in SUBSET WordBits /\ {0, 1} \cap (11 .. 31) \in {{}, 11 .. 31}
  BY DEF WordBits
<1>5. {0} \cup (3 .. 31) \in SUBSET WordBits /\ ({0} \cup (3 .. 31)) \cap (11 .. 31) \in {{}, 11 .. 31}
  BY DEF WordBits
<1>6. Encode("addi", 28, 0, 0, BitsOf(1024)) \in StartWords
  BY <1>1, <1>2, ConstantWord
<1>7. Encode("addi", 1, 0, 0, {0}) \in StartWords
  BY <1>1, <1>3, ConstantWord
<1>8. Encode("addi", 2, 0, 0, {0, 1}) \in StartWords
  BY <1>1, <1>4, ConstantWord
<1>9. Encode("addi", 3, 0, 0, {0} \cup (3 .. 31)) \in StartWords
  BY <1>1, <1>5, ConstantWord
<1> QED
  BY <1>6, <1>7, <1>8, <1>9 DEF Prologue

LEMMA GeneratedInit == RandomInit => Generated
BY GeneratorAssumption DEF RandomInit, Generated

LEMMA GeneratedStep == Generated /\ [RandomNext]_randomVars => Generated'
<1> SUFFICES ASSUME Generated, [RandomNext]_randomVars PROVE Generated'
  OBVIOUS
<1>c. Count \in Nat
  BY GeneratorAssumption
<1>1. CASE Begin
  <2>1. i' = 0 /\ emitted' \in Seq(StartWords)
    BY <1>1, PrologueWords DEF Begin
  <2> QED
    BY <1>c, <2>1 DEF Generated
<1>2. ASSUME NEW op, NEW rd \in 4 .. 27, NEW rs1, NEW rs2, NEW imm,
             Body(op, rd, rs1, rs2, imm), Encode(op, rd, rs1, rs2, imm) \in BodyWords
      PROVE  Generated'
  <2>1. i \in 0 .. Count - 1 /\ i' = i + 1
        /\ emitted' = <<Encode(op, rd, rs1, rs2, imm)>> \o MemoryPair(rd)
    BY <1>2 DEF Body
  <2>2. MemoryPair(rd) \in Seq(BodyWords)
    <3>1. i \in Nat
      BY <1>c, <2>1
    <3> QED
      BY <3>1, MemoryPairWords, Zenon
  <2>3. emitted' \in Seq(BodyWords)
    BY <1>2, <2>1, <2>2
  <2> QED
    BY <1>c, <2>1, <2>3 DEF Generated
<1>3. CASE End
  BY <1>3, <1>c DEF End, Generated
<1>4. CASE Again
  BY <1>4, <1>c DEF Again, Generated
<1>5. ASSUME NEW rd \in Rds, NEW rs1 \in Sources \cup {rd - 1}, NEW op \in RegOps, NEW rs2 \in Sources,
             Body(op, rd, rs1, rs2, {})
      PROVE  Generated'
  <2>1. rd \in 4 .. 27 /\ rs1 \in Register /\ rs2 \in Register
    BY GeneratorAssumption DEF Register
  <2>2. Encode(op, rd, rs1, rs2, {}) \in BodyWords
    BY <2>1, RegisterWord
  <2> QED
    BY <1>2, <1>5, <2>1, <2>2
<1>6. ASSUME NEW rd \in Rds, NEW rs1 \in Sources \cup {rd - 1}, NEW op \in ImmOps, NEW imm \in Constants,
             Body(op, rd, rs1, 0, imm)
      PROVE  Generated'
  <2>1. rd \in 4 .. 27 /\ rd \in Register /\ rs1 \in Register
    BY GeneratorAssumption DEF Register
  <2>2. imm \in SUBSET WordBits /\ imm \cap (11 .. 31) \in {{}, 11 .. 31}
    <3>1. imm \in SUBSET WordBits /\ imm \cap (7 .. 31) \in {{}, 7 .. 31}
      BY GeneratorAssumption
    <3>2. CASE imm \cap (7 .. 31) = {}
      <4>1. imm \cap (11 .. 31) = {}
        BY <3>2
      <4> QED
        BY <3>1, <4>1
    <3>3. CASE imm \cap (7 .. 31) = 7 .. 31
      <4>1. imm \cap (11 .. 31) = 11 .. 31
        BY <3>3
      <4> QED
        BY <3>1, <4>1
    <3> QED
      BY <3>1, <3>2, <3>3
  <2> DEFINE w == Encode(op, rd, rs1, 0, imm)
  <2>3. w \in StartWords /\ Group(w) = "opimm" /\ Rd(w) = rd
    BY <2>1, <2>2, ConstantWord
  <2> HIDE DEF w
  <2>4. w \in BodyWords
    BY <2>1, <2>3 DEF StartWords, BodyWords, Keeps
  <2> QED
    BY <1>2, <1>6, <2>1, <2>4 DEF w
<1>7. CASE UNCHANGED randomVars
  BY <1>7 DEF randomVars, Generated
<1> QED
  BY <1>1, <1>3, <1>4, <1>5, <1>6, <1>7 DEF RandomNext

\* What kind of words the generator appends, iteration by iteration.
THEOREM ProgramsGenerated == RandomSpec => []Generated
BY GeneratedInit, GeneratedStep, PTL DEF RandomSpec

\* The register that a word of a random program writes is the one it names.
LEMMA WriterKeeps ==
  ASSUME NEW w \in SUBSET WordBits, Pkg!RdWrite(Instruction(w)), Group(w) \in {"opimm", "op", "load", "store", "system"}
  PROVE  Group(w) \in {"opimm", "op", "load"} /\ Instruction(w).rd = Rd(w)
<1>1. "rd_write" \in SvFlags(w)
  BY WordFlags
<1>2. Group(w) \notin {"store", "system"}
  BY <1>1 DEF SvFlags, Eligible
<1> QED
  BY <1>2 DEF Instruction

LEMMA EbreakWord == EBREAK \in SUBSET WordBits /\ Group(EBREAK) = "system" /\ ~Reserved(EBREAK)
<1>1. EBREAK \in SUBSET WordBits /\ Opcode(EBREAK) = 115
  BY SystemWords
<1>2. Group(EBREAK) = "system"
  BY <1>1, GroupIs
<1> QED
  BY <1>1, <1>2 DEF Reserved

LEMMA GeneratedKeeps == Generated => BaseKept
<1> SUFFICES ASSUME Generated, i > 0, NEW k \in 1 .. Len(emitted),
                    Pkg!RdWrite(Instruction(emitted[k]))
             PROVE  Instruction(emitted[k]).rd \in 4 .. 27
  BY DEF BaseKept, Emitted
<1>1. CASE i <= Count
  <2>1. emitted[k] \in BodyWords
    BY <1>1 DEF Generated
  <2>2. Straight(emitted[k]) /\ Keeps(emitted[k])
    BY <2>1 DEF BodyWords
  <2> QED
    BY <2>2, WriterKeeps DEF Straight, Keeps
<1>2. CASE i = Count + 1
  <2>1. emitted[k] = EBREAK
    BY <1>2 DEF Generated
  <2> QED
    BY <2>1, EbreakWord, WriterKeeps
<1> QED
  BY <1>1, <1>2, GeneratorAssumption DEF Generated

\* After the prologue no word of any program writes x28 or any register but
\* 4..27, whatever registers and constants are drawn.
THEOREM BaseKeptAlways == RandomSpec => []BaseKept
BY ProgramsGenerated, GeneratedKeeps, PTL

LEMMA GeneratedRuns == Generated => RunsToEbreak
<1> SUFFICES ASSUME Generated, NEW k \in 1 .. Len(emitted)
             PROVE  LET w == emitted[k] IN
                    /\ SvLegal(w)
                    /\ Group(w) \notin {"jal", "jalr", "branch"}
                    /\ Group(w) = "system" <=> i = Count + 1
                    /\ Group(w) \in {"load", "store"} => Rs1(w) = 28 /\ SvImm(w) \subseteq {2, 3, 4}
  BY DEF RunsToEbreak
<1> DEFINE w == emitted[k]
<1>1. CASE i <= Count
  <2>1. w \in StartWords \/ w \in BodyWords
    BY <1>1 DEF Generated
  <2>2. Straight(w)
    BY <2>1 DEF StartWords, BodyWords
  <2>3. i # Count + 1
    BY <1>1, GeneratorAssumption DEF Generated
  <2> HIDE DEF w
  <2>4. w \in SUBSET WordBits /\ ~Reserved(w)
    BY <2>2 DEF Straight
  <2>5. SvLegal(w)
    BY <2>4, SvReserved
  <2> QED
    BY <2>2, <2>3, <2>5 DEF Straight, w
<1>2. CASE i = Count + 1
  <2>1. w = EBREAK
    BY <1>2 DEF Generated
  <2> HIDE DEF w
  <2>2. SvLegal(w)
    BY <2>1, EbreakWord, SvReserved
  <2> QED
    BY <1>2, <2>1, <2>2, EbreakWord DEF w
<1> QED
  BY <1>1, <1>2, GeneratorAssumption DEF Generated

\* Every program runs through legal words without a control transfer, accessing
\* aligned words at the base, to the one EBREAK that ends it.
THEOREM RunsToEbreakAlways == RandomSpec => []RunsToEbreak
BY ProgramsGenerated, GeneratedRuns, PTL

=============================================================================
