-------------------------- MODULE PredictionProofs --------------------------
(***************************************************************************)
(* The issue model and the timing model against the core, proved for every *)
(* program.  Both models look at the finished stream of instructions, and  *)
(* ahead in it, while the core counts as it goes.  So the invariant speaks *)
(* of every stream that what has been issued so far may turn out to be the *)
(* beginning of: at each clock edge the model, run over any of them, has   *)
(* come as far as the core, with the counts the core has.  When the core   *)
(* has halted, what has been issued is all there is.                       *)
(***************************************************************************)
EXTENDS CorePerfProofs, ArithmeticProofs

-----------------------------------------------------------------------------
(* What has been issued, and what it may be the beginning of. *)

\* Every instruction that has issued and was on the right path, in order.
Sent == LeftEx \o Trail(ex0) \o Trail(ex1)

\* A trap is on its way or taken: nothing issues any more.
Ended == Trapping \/ Ex0Exc # "none"

\* Where the program goes on behind it.
Onward == IF RedirectValid THEN ControlTarget ELSE FrontPc

\* A stream of the program that begins with what has been issued and goes on
\* where the core is about to.
Future(s) ==
  /\ s \in Seq(Entry) /\ Len(Sent) <= Len(s)
  /\ \A k \in 1 .. Len(Sent) : s[k] = Sent[k]
  /\ \A k \in 1 .. Len(s) : s[k].ins = Fetch(s[k].pc)
  /\ Len(s) = Len(Sent) <=> Ended
  /\ Len(s) > Len(Sent) => s[Len(Sent) + 1].pc = Onward

LEMMA SentType ==
  ASSUME Watched
  PROVE  Sent \in Seq(Entry) /\ Len(Sent) \in Nat
<1>1. LeftEx \in Seq(Entry) /\ Trail(ex0) \in Seq(Entry) /\ Trail(ex1) \in Seq(Entry)
  BY LeftType, LaneEntries
<1>2. LeftEx \o Trail(ex0) \in Seq(Entry)
  BY <1>1, ConcatProperties
<1>3. Sent \in Seq(Entry)
  BY <1>1, <1>2, ConcatProperties DEF Sent
<1> QED
  BY <1>3

\* The buffer holds members of a stream.
LEMMA SlotEntries ==
  ASSUME Watched, buf0.v
  PROVE  /\ Committed(buf0) \in Entry /\ Committed(buf1) \in Entry /\ buf1.v
         /\ buf0.ins = Fetch(buf0.pc) /\ buf1.ins = Fetch(buf1.pc)
<1>1. TypeOK /\ ProgramOrder /\ WordsInFlight
  BY DEF Watched, ControlInv, TypeInv
<1>2. buf1.v /\ buf0.ins = Fetch(buf0.pc) /\ buf1.ins = Fetch(buf1.pc)
  BY <1>1 DEF ProgramOrder, WordsInFlight
<1>3. buf0.pc \in Word /\ buf1.pc \in Word /\ buf0.ins \in Instr /\ buf1.ins \in Instr
  BY <1>1, <1>2, FetchIsInstr DEF TypeOK, Slot
<1> QED
  BY <1>2, <1>3 DEF Committed, Entry

\* It grows by what issues, and by nothing else.
LEMMA SentGrows ==
  ASSUME Watched, Clock, StreamStep
  PROVE  /\ ~Issue0 => Sent' = Sent
         /\ Issue0 /\ ~Issue1 => Sent' = Append(Sent, Committed(buf0))
         /\ Issue0 /\ Issue1 => Sent' = Append(Append(Sent, Committed(buf0)), Committed(buf1))
<1>1. /\ LeftEx' = LeftEx \o Trail(mem0)' \o Trail(mem1)' /\ LeftEx \in Seq(Entry)
      /\ Trail(ex0) \in Seq(Entry) /\ Trail(ex1) \in Seq(Entry)
  BY BorderMoves, LeftType, LaneEntries
<1>2. \A q \in Seq(Entry) : q \o <<>> = q
  BY ConcatEmptySeq
<1>3. CASE ExStall
  <2>1. Trail(mem0)' = <<>> /\ Trail(mem1)' = <<>>
    BY <1>3, MemMoves DEF Trail
  <2>2. Trail(ex0)' = Trail(ex0) /\ Trail(ex1)' = Trail(ex1)
    BY <1>3, ExMoves DEF Trail, Committed
  <2>3. ~Issue0
    BY <1>3, IssueFacts
  <2>4. LeftEx' = LeftEx
    BY <1>1, <1>2, <2>1
  <2> QED
    BY <2>2, <2>3, <2>4 DEF Sent
<1>4. CASE ~ExStall
  <2>1. Trail(mem0)' = Trail(ex0) /\ Trail(mem1)' = Trail(ex1)
    BY <1>4, MemMoves DEF Trail, Committed
  <2>2. /\ Trail(ex0)' = IF Issue0 THEN <<Committed(buf0)>> ELSE <<>>
        /\ Trail(ex1)' = IF Issue1 THEN <<Committed(buf1)>> ELSE <<>>
    BY <1>4, ExMoves DEF Trail, Committed
  <2>3. LeftEx' = Sent
    BY <1>1, <2>1 DEF Sent
  <2>4. Sent' = Sent \o Trail(ex0)' \o Trail(ex1)'
    BY <2>3 DEF Sent
  <2>5. Sent \in Seq(Entry) /\ (Issue1 => Issue0)
        /\ (Issue0 => Committed(buf0) \in Entry /\ Committed(buf1) \in Entry)
    BY SentType, IssueFacts, SlotEntries
  <2> DEFINE one == Append(Sent, Committed(buf0))
  <2>6. Issue0 => Sent \o <<Committed(buf0)>> = one /\ one \in Seq(Entry)
    BY <2>5, Grows
  <2> HIDE DEF one
  <2>7. Issue1 => one \o <<Committed(buf1)>> = Append(one, Committed(buf1))
    BY <2>5, <2>6, Grows
  <2>8. CASE ~Issue0
    BY <1>2, <2>2, <2>4, <2>5, <2>8
  <2>9. CASE Issue0 /\ ~Issue1
    BY <1>2, <2>2, <2>4, <2>6, <2>9 DEF one
  <2>10. CASE Issue0 /\ Issue1
    <3>1. Sent' = one \o <<Committed(buf1)>>
      BY <2>2, <2>4, <2>6, <2>10
    <3> QED
      BY <2>7, <2>10, <3>1 DEF one
  <2> QED
    BY <2>5, <2>8, <2>9, <2>10
<1> QED
  BY <1>3, <1>4

\* An empty EX, a divide and a plain operation neither trap nor redirect.
LEMMA QuietEx ==
  TypeOK /\ (DivInEx \/ ~ex0.valid \/ ~Special(ex0.ins)) => Ex0Exc = "none" /\ ~RedirectValid
BY DivideIsQuiet, PlainIsQuiet, ExceptionNeedsValid, ControlNeedsJump DEF RedirectValid

LEMMA QuietNext ==
  TypeOK' /\ (DivInEx' \/ ~ex0'.valid \/ ~Special(ex0'.ins)) => Ex0Exc' = "none" /\ ~RedirectValid'
<1>1. (TypeOK /\ (DivInEx \/ ~ex0.valid \/ ~Special(ex0.ins)) => Ex0Exc = "none" /\ ~RedirectValid)'
  BY QuietEx, PTL
<1>2. Special(ex0.ins)' <=> Special(ex0'.ins)
  BY DEF Special, Lane1Eligible
<1> QED
  BY <1>1, <1>2

\* A trap on its way is not forgotten, and comes from what issues.
LEMMA EndsOnce ==
  ASSUME Watched, Watched', Clock, StreamStep
  PROVE  /\ Ended => Ended' /\ ~Issue0
         /\ ~Issue0 => (Ended' <=> Ended)
<1>1. TypeOK /\ TypeOK'
  BY DEF Watched, ControlInv, TypeInv
<1>2. Issue0 => ~Ended
  BY IssueFacts DEF Ended, Trapping
<1>3. Trapping => Trapping'
  BY TrapsStop
<1>4. Ex0Exc # "none" /\ ~Trapping => Trapping'
  <2>1. Ex0Exc # "none" => ex0.valid /\ ~ExStall
    BY <1>1, ExceptionNeedsValid, DivideIsQuiet DEF ExStall
  <2> QED
    BY <2>1, TrapsStop
<1>5. ASSUME ~Issue0, ~Ended
      PROVE  ~Ended'
  <2>1. ~Trapping'
    BY <1>5, TrapsStop DEF Ended
  <2>2. CASE ExStall
    <3>1. DivInEx'
      BY <2>2, ExMoves DEF ExStall, DivInEx
    <3> QED
      BY <1>1, <2>1, <3>1, QuietNext DEF Ended
  <2>3. CASE ~ExStall
    <3>1. ~ex0'.valid
      BY <1>5, <2>3, ExMoves
    <3> QED
      BY <1>1, <2>1, <3>1, QuietNext DEF Ended
  <2> QED
    BY <2>2, <2>3
<1> QED
  BY <1>2, <1>3, <1>4, <1>5 DEF Ended

\* Until something issues, the program goes on at the same address.
LEMMA OnwardKept ==
  ASSUME Watched, Watched', Clock
  PROVE  /\ ~Issue0 => Onward' = Onward
         /\ Issue0 => Onward = buf0.pc
<1>1. TypeOK /\ TypeOK' /\ ProgramOrder
  BY DEF Watched, ControlInv, TypeInv
<1>2. Issue0 => Onward = buf0.pc
  BY IssueFacts DEF Onward, FrontPc
<1>3. RedirectValid' => ex0'.valid
  BY <1>1, QuietNext
<1>4. CASE RedirectValid
  <2>1. ~ExStall /\ ~Issue0
    BY <1>4, IssueFacts DEF RedirectValid
  <2>2. ~ex0'.valid
    BY <2>1, ExMoves
  <2>3. ExPc' = ControlTarget
    BY <1>1, <1>4, PcMoves
  <2>4. Onward' = ControlTarget
    BY <1>3, <2>2, <2>3 DEF Onward, ExPc
  <2> QED
    BY <1>4, <2>1, <2>4 DEF Onward
<1>5. CASE ~RedirectValid /\ ~Issue0
  <2>1. ~RedirectValid'
    <3>1. CASE ExStall
      <4>1. DivInEx'
        BY <3>1, ExMoves DEF ExStall, DivInEx
      <4> QED
        BY <1>1, <4>1, QuietNext
    <3>2. CASE ~ExStall
      BY <1>3, <1>5, <3>2, ExMoves
    <3> QED
      BY <3>1, <3>2
  <2>2. FrontPc' = FrontPc
    BY <1>1, <1>5, FrontMoves
  <2> QED
    BY <1>5, <2>1, <2>2 DEF Onward
<1> QED
  BY <1>2, <1>4, <1>5

\* A future of the next moment is one of this moment; what issues is its next
\* member, and behind a plain operation that issues alone comes slot 1.
LEMMA FutureKept ==
  ASSUME Watched, Watched', Clock, StreamStep, NEW s, Future(s)'
  PROVE  /\ Future(s)
         /\ Issue0 => Len(s) > Len(Sent) /\ s[Len(Sent) + 1] = Committed(buf0)
         /\ Issue0 /\ Issue1 => Len(s) > Len(Sent) + 1 /\ s[Len(Sent) + 2] = Committed(buf1)
         /\ Issue0 /\ ~Special(buf0.ins) => Len(s) > Len(Sent) + 1 /\ s[Len(Sent) + 2] = Committed(buf1)
<1>0. PICK n : n = Len(Sent)
  OBVIOUS
<1>1. /\ s \in Seq(Entry) /\ Len(Sent)' <= Len(s) /\ Len(s) \in Nat
      /\ \A k \in 1 .. Len(Sent)' : s[k] = Sent'[k]
      /\ Len(s) = Len(Sent)' <=> Ended'
      /\ Len(s) > Len(Sent)' => s[Len(Sent)' + 1].pc = Onward'
  <2>1. Entry' = Entry
    BY DEF Entry
  <2> QED
    BY <2>1 DEF Future
<1>2. /\ TypeOK /\ ProgramOrder /\ imem' = imem
  BY DEF Watched, ControlInv, TypeInv, Clock, FrontStep
<1>3. \A k \in 1 .. Len(s) : s[k].ins = Fetch(s[k].pc)
  BY <1>2 DEF Future, Fetch
<1>4. Sent \in Seq(Entry) /\ n \in Nat
  BY <1>0, SentType
<1>5. CASE ~Issue0
  <2>1. Sent' = Sent /\ (Ended' <=> Ended) /\ Onward' = Onward
    BY <1>5, SentGrows, EndsOnce, OnwardKept
  <2> QED
    BY <1>1, <1>3, <1>5, <2>1 DEF Future
<1>6. CASE Issue0
  <2>1. /\ buf0.v /\ ~Ended /\ Onward = buf0.pc
        /\ Committed(buf0) \in Entry /\ Committed(buf1) \in Entry
    BY <1>6, IssueFacts, EndsOnce, OnwardKept, SlotEntries
  <2> DEFINE one == Append(Sent, Committed(buf0))
  <2>2. /\ one \in Seq(Entry) /\ Len(one) = n + 1 /\ one[n + 1] = Committed(buf0)
        /\ \A k \in 1 .. n : one[k] = Sent[k]
    BY <1>0, <1>4, <2>1, Grows
  <2> HIDE DEF one
  <2>3. Issue1 => /\ Sent' = Append(one, Committed(buf1)) /\ Len(Sent') = n + 2
                  /\ Sent'[n + 2] = Committed(buf1)
                  /\ \A k \in 1 .. n + 1 : Sent'[k] = one[k]
    <3>1. Issue1 => Sent' = Append(one, Committed(buf1))
      BY <1>6, SentGrows DEF one
    <3>2. /\ Len(Append(one, Committed(buf1))) = n + 1 + 1
          /\ Append(one, Committed(buf1))[n + 1 + 1] = Committed(buf1)
          /\ \A k \in 1 .. n + 1 : Append(one, Committed(buf1))[k] = one[k]
      BY <2>1, <2>2, Grows
    <3>3. n + 1 + 1 = n + 2
      BY <1>4
    <3> QED
      BY <3>1, <3>2, <3>3
  <2>4. ~Issue1 => Sent' = one
    BY <1>6, SentGrows DEF one
  <2>5. /\ Len(s) >= n + 1 /\ s[n + 1] = Committed(buf0)
        /\ \A k \in 1 .. n : s[k] = Sent[k]
    <3>1. CASE Issue1
      BY <1>1, <1>4, <2>2, <2>3, <3>1
    <3>2. CASE ~Issue1
      BY <1>1, <1>4, <2>2, <2>4, <3>2
    <3> QED
      BY <3>1, <3>2
  <2>6. Future(s)
    BY <1>0, <1>1, <1>3, <1>4, <2>1, <2>5 DEF Future, Committed
  <2>7. Issue1 => Len(s) > n + 1 /\ s[n + 2] = Committed(buf1)
    BY <1>1, <1>4, <2>3
  <2>8. ASSUME ~Issue1, ~Special(buf0.ins)
        PROVE  Len(s) > n + 1 /\ s[n + 2] = Committed(buf1)
    <3>1. ~RedirectValid' /\ Ex0Exc' = "none"
      <4>1. ~ExStall
        BY <1>6, IssueFacts
      <4>2. ex0'.ins = buf0.ins
        BY <1>6, <4>1, ExMoves
      <4>3. TypeOK'
        BY DEF Watched, ControlInv, TypeInv
      <4> QED
        BY <2>8, <4>2, <4>3, QuietNext
    <3>2. ~Trapping'
      <4>1. ~Trapping /\ Ex0Exc = "none"
        BY <2>1 DEF Ended
      <4> QED
        BY <4>1, TrapsStop
    <3>3. Len(s) > n + 1
      BY <1>1, <1>4, <2>2, <2>4, <2>8, <3>1, <3>2 DEF Ended
    <3>4. Onward' = buf1.pc
      BY <1>2, <1>6, <2>8, <3>1, FrontMoves DEF Onward
    <3>5. s[n + 2].pc = buf1.pc
      <4>1. Len(Sent)' = n + 1 /\ n + 1 + 1 = n + 2
        BY <1>4, <2>2, <2>4, <2>8
      <4> QED
        BY <1>1, <3>3, <3>4, <4>1
    <3>6. s[n + 2].ins = Fetch(buf1.pc)
      BY <1>1, <1>3, <1>4, <3>3, <3>5
    <3>7. buf1.ins = Fetch(buf1.pc)
      BY <2>1, SlotEntries
    <3>8. s[n + 2] \in Entry
      BY <1>1, <1>4, <3>3
    <3> QED
      BY <3>3, <3>5, <3>6, <3>7, <3>8 DEF Entry, Committed
  <2> QED
    BY <1>0, <1>4, <1>6, <2>5, <2>6, <2>7, <2>8
<1> QED
  BY <1>5, <1>6

\* The instruction in EX, alone there, is the last one issued.
LEMMA LastSent ==
  ASSUME Watched, ex0.valid, ~ex1.valid
  PROVE  Len(Sent) > 0 /\ Sent[Len(Sent)] = Committed(ex0) /\ Len(Sent) = Len(LeftEx) + 1
<1>1. LeftEx \in Seq(Entry) /\ Committed(ex0) \in Entry
  BY LeftType, LaneEntries
<1>2. LeftEx \o <<Committed(ex0)>> = Append(LeftEx, Committed(ex0))
      /\ Append(LeftEx, Committed(ex0)) \in Seq(Entry)
      /\ Len(Append(LeftEx, Committed(ex0))) = Len(LeftEx) + 1 /\ Len(LeftEx) \in Nat
      /\ Append(LeftEx, Committed(ex0))[Len(LeftEx) + 1] = Committed(ex0)
  BY <1>1, Grows
<1>3. Sent = Append(LeftEx, Committed(ex0)) \o <<>>
  BY <1>2 DEF Sent, Trail
<1>4. Sent = Append(LeftEx, Committed(ex0))
  BY <1>2, <1>3, ConcatEmptySeq
<1> QED
  BY <1>2, <1>4

-----------------------------------------------------------------------------
(* What issue_cycles computes. *)

Words(s) == [k \in 1 .. Len(s) |-> s[k].ins]

Counts == [dual : Nat, single : Nat]

\* One turn of the recursion of IssueCycles, and a function that obeys it.
Falling(w, f, i) ==
  CASE i = Len(w) + 1 -> [dual |-> 0, single |-> 0]
    [] i < Len(w) /\ CanPair(w[i], w[i + 1]) -> [f[i + 2] EXCEPT !.dual = @ + 1]
    [] OTHER -> [f[i + 1] EXCEPT !.single = @ + 1]
Falls(w, f) == f = [i \in 1 .. Len(w) + 1 |-> Falling(w, f, i)]

\* A pair, and a word that does not pair with the next.
Paired(w, i) == i < Len(w) /\ CanPair(w[i], w[i + 1])
Behind(w, f, i) == IF Paired(w, i) THEN f[i + 2] ELSE f[i + 1]

LEMMA FallingIs ==
  ASSUME NEW w, Len(w) \in Nat, NEW f, NEW i \in 1 .. Len(w) + 1,
         i # Len(w) + 1 => Behind(w, f, i) \in Counts
  PROVE  /\ Falling(w, f, i) \in Counts
         /\ Falling(w, f, i).dual =
              IF i = Len(w) + 1 THEN 0 ELSE Behind(w, f, i).dual + One(Paired(w, i))
         /\ Falling(w, f, i).single =
              IF i = Len(w) + 1 THEN 0 ELSE Behind(w, f, i).single + One(~Paired(w, i))
<1>1. CASE i = Len(w) + 1
  <2>1. Falling(w, f, i) = [dual |-> 0, single |-> 0]
    BY <1>1 DEF Falling
  <2> QED
    BY <1>1, <2>1 DEF Counts
<1>2. CASE i # Len(w) + 1 /\ Paired(w, i)
  <2> DEFINE g == f[i + 2]
  <2>1. g \in Counts /\ Behind(w, f, i) = g
    BY <1>2 DEF Behind
  <2>2. Falling(w, f, i) = [g EXCEPT !.dual = @ + 1]
    BY <1>2 DEF Falling, Paired
  <2> HIDE DEF g
  <2>3. Falling(w, f, i) = [dual |-> g.dual + 1, single |-> g.single]
    BY <2>1, <2>2 DEF Counts
  <2> QED
    BY <1>2, <2>1, <2>3 DEF Counts, One
<1>3. CASE i # Len(w) + 1 /\ ~Paired(w, i)
  <2> DEFINE g == f[i + 1]
  <2>1. g \in Counts /\ Behind(w, f, i) = g
    BY <1>3 DEF Behind
  <2>2. Falling(w, f, i) = [g EXCEPT !.single = @ + 1]
    BY <1>3 DEF Falling, Paired
  <2> HIDE DEF g
  <2>3. Falling(w, f, i) = [dual |-> g.dual, single |-> g.single + 1]
    BY <2>1, <2>2 DEF Counts
  <2> QED
    BY <1>3, <2>1, <2>3 DEF Counts, One
<1> QED
  BY <1>1, <1>2, <1>3

\* The numbers of pairs and of single instructions from the i-th word on.
LEMMA FallsTo ==
  ASSUME NEW w, Len(w) \in Nat, NEW f, Falls(w, f)
  PROVE  \A i \in 1 .. Len(w) + 1 : f[i] \in Counts
<1> DEFINE n == Len(w)
           T == {m \in Nat : m <= n => f[n + 1 - m] \in Counts /\ (m > 0 => f[n + 2 - m] \in Counts)}
<1>1. \A i \in 1 .. n + 1 : f[i] = Falling(w, f, i)
  BY DEF Falls
<1>2. 0 \in T
  BY <1>1, FallingIs
<1>3. ASSUME NEW m \in Nat, m \in T
      PROVE  m + 1 \in T
  <2> SUFFICES ASSUME m + 1 <= n
               PROVE  f[n - m] \in Counts /\ f[n + 1 - m] \in Counts
    <3>1. n + 1 - (m + 1) = n - m /\ n + 2 - (m + 1) = n + 1 - m
      OBVIOUS
    <3> QED
      BY <3>1
  <2> DEFINE i == n - m
  <2>1. i \in 1 .. n /\ i + 1 = n + 1 - m /\ (m > 0 => i + 2 = n + 2 - m) /\ (i < n <=> m > 0)
    OBVIOUS
  <2>2. f[i + 1] \in Counts /\ (i < n => f[i + 2] \in Counts)
    BY <1>3, <2>1
  <2> HIDE DEF i
  <2>3. Behind(w, f, i) \in Counts
    BY <2>2 DEF Behind, Paired
  <2>4. f[i] \in Counts
    BY <1>1, <2>1, <2>3, FallingIs
  <2> QED
    BY <2>1, <2>2, <2>4 DEF i
<1>4. Nat \subseteq T
  <2> HIDE DEF T
  <2> QED
    BY <1>2, <1>3, SetInduction
<1> SUFFICES ASSUME NEW i \in 1 .. n + 1 PROVE f[i] \in Counts
  OBVIOUS
<1>5. n + 1 - i \in Nat /\ n + 1 - i <= n /\ n + 1 - (n + 1 - i) = i
  OBVIOUS
<1> QED
  BY <1>4, <1>5

LEMMA FallsExist ==
  ASSUME NEW w, Len(w) \in Nat
  PROVE  \E f : Falls(w, f)
<1> DEFINE n == Len(w)
           Q(m, f) == \A i \in n + 1 - m .. n + 1 : f[i] = Falling(w, f, i)
           T == {m \in Nat : m <= n => \E f : f \in [n + 1 - m .. n + 1 -> Counts] /\ Q(m, f)}
<1>1. 0 \in T
  <2> DEFINE f == [i \in n + 1 .. n + 1 |-> [dual |-> 0, single |-> 0]]
  <2>1. f \in [n + 1 .. n + 1 -> Counts]
    BY DEF Counts
  <2>2. Q(0, f)
    <3>1. n + 1 \in 1 .. n + 1
      OBVIOUS
    <3>2. /\ Falling(w, f, n + 1) \in Counts
          /\ Falling(w, f, n + 1).dual = 0 /\ Falling(w, f, n + 1).single = 0
      BY <3>1, FallingIs
    <3>3. Falling(w, f, n + 1) = [dual |-> 0, single |-> 0]
      BY <3>2 DEF Counts
    <3>4. \A i \in n + 1 - 0 .. n + 1 : i = n + 1
      OBVIOUS
    <3> QED
      BY <3>3, <3>4
  <2> HIDE DEF f
  <2> QED
    BY <2>1, <2>2
<1>2. ASSUME NEW m \in Nat, m \in T
      PROVE  m + 1 \in T
  <2> SUFFICES ASSUME m + 1 <= n
               PROVE  \E g : g \in [n - m .. n + 1 -> Counts] /\ Q(m + 1, g)
    <3>1. n + 1 - (m + 1) = n - m
      OBVIOUS
    <3> QED
      BY <3>1
  <2>1. PICK f : f \in [n + 1 - m .. n + 1 -> Counts] /\ Q(m, f)
    BY <1>2
  <2> DEFINE j == n - m
             g == [i \in j .. n + 1 |-> IF i = j THEN Falling(w, f, j) ELSE f[i]]
  <2>2. j \in 1 .. n /\ j + 1 = n + 1 - m /\ n + 1 - (m + 1) = j
    OBVIOUS
  <2>a. \A k \in Int : k > j /\ k <= n + 1 => f[k] \in Counts
    BY <2>1, <2>2
  <2>3. \A i \in j .. n + 1 : Falling(w, f, i) \in Counts
    <3> SUFFICES ASSUME NEW i \in j .. n + 1 PROVE Falling(w, f, i) \in Counts
      OBVIOUS
    <3>1. i \in 1 .. n + 1
      BY <2>2
    <3>2. i # n + 1 => Behind(w, f, i) \in Counts
      <4> HIDE DEF j
      <4>1. i # n + 1 => f[i + 1] \in Counts
        BY <2>a, <2>2
      <4>2. i < n => f[i + 2] \in Counts
        BY <2>a, <2>2
      <4> QED
        BY <4>1, <4>2 DEF Behind, Paired
    <3> QED
      BY <3>1, <3>2, FallingIs
  <2>4. g \in [j .. n + 1 -> Counts]
    <3>1. \A i \in j .. n + 1 : i # j => i \in n + 1 - m .. n + 1
      BY <2>2
    <3> QED
      BY <2>1, <2>2, <2>3, <3>1
  <2>5. ASSUME NEW i \in j .. n + 1
        PROVE  g[i] = Falling(w, g, i)
    <3>1. i \in 1 .. n + 1
      BY <2>2
    <3>2. i # n + 1 => g[i + 1] = f[i + 1]
      BY <2>2
    <3>3. i < n => g[i + 2] = f[i + 2]
      BY <2>2
    <3>4. Falling(w, g, i) = Falling(w, f, i)
      <4> HIDE DEF g, j
      <4>a. /\ i # n + 1 => f[i + 1] \in Counts
            /\ i < n => f[i + 2] \in Counts
        BY <2>a, <2>2
      <4>1. /\ i # n + 1 => Behind(w, f, i) \in Counts
            /\ i # n + 1 => Behind(w, g, i) = Behind(w, f, i)
        BY <3>2, <3>3, <4>a DEF Behind, Paired
      <4>2. /\ Falling(w, g, i) \in Counts /\ Falling(w, f, i) \in Counts
            /\ Falling(w, g, i).dual = Falling(w, f, i).dual
            /\ Falling(w, g, i).single = Falling(w, f, i).single
        BY <3>1, <4>1, FallingIs
      <4> QED
        BY <4>2 DEF Counts
    <3>5. i # j => f[i] = Falling(w, f, i)
      BY <2>1, <2>2
    <3> QED
      BY <3>4, <3>5
  <2> HIDE DEF g, j
  <2>6. Q(m + 1, g)
    BY <2>2, <2>5
  <2> QED
    BY <2>4, <2>6 DEF j
<1>3. n \in T
  <2>1. Nat \subseteq T
    <3> HIDE DEF T
    <3> QED
      BY <1>1, <1>2, SetInduction
  <2> QED
    BY <2>1
<1>4. PICK f : f \in [n + 1 - n .. n + 1 -> Counts] /\ Q(n, f)
  BY <1>3
<1>5. n + 1 - n = 1
  OBVIOUS
<1>6. f = [i \in 1 .. n + 1 |-> f[i]] /\ \A i \in 1 .. n + 1 : f[i] = Falling(w, f, i)
  BY <1>4, <1>5
<1>7. f = [i \in 1 .. n + 1 |-> Falling(w, f, i)]
  BY <1>6
<1> QED
  BY <1>7 DEF Falls

LEMMA IssueCyclesIs ==
  ASSUME NEW w, Len(w) \in Nat
  PROVE  \E f : Falls(w, f) /\ IssueCycles(w) = f[1]
<1> DEFINE f == CHOOSE f : Falls(w, f)
<1>1. Falls(w, f)
  BY FallsExist
<1>2. IssueCycles(w) = f[1]
  BY DEF IssueCycles, Falls, Falling
<1> QED
  BY <1>1, <1>2

-----------------------------------------------------------------------------
(* The issue model. *)

\* Over any unstalled stream that what has issued may be the beginning of, the
\* model has counted what the core has counted when it comes to the same word.
IssueForetold ==
  EnableDualIssue =>
    \A s, f : Future(s) /\ Unstalled(s) /\ Falls(Words(s), f) =>
      /\ f[1].dual = perf.dual + f[Len(Sent) + 1].dual
      /\ f[1].single = perf.single + f[Len(Sent) + 1].single

LEMMA WordsAre ==
  ASSUME NEW s \in Seq(Entry)
  PROVE  /\ Len(Words(s)) = Len(s) /\ Len(s) \in Nat
         /\ \A k \in 1 .. Len(s) : Words(s)[k] = s[k].ins
<1>1. Len(s) \in Nat
  OBVIOUS
<1>2. DOMAIN Words(s) = 1 .. Len(s)
  BY DEF Words
<1>3. Words(s) \in Seq({s[k].ins : k \in 1 .. Len(s)})
  BY <1>1 DEF Words
<1>4. Len(Words(s)) = Len(s)
  BY <1>1, <1>2, <1>3, LenProperties
<1> QED
  BY <1>1, <1>4 DEF Words

\* Where nothing waits, the core pairs what the model pairs.
LEMMA PairsAlike ==
  ASSUME Watched, Watched', Clock, StreamStep, EnableDualIssue, Issue0,
         NEW s, Future(s)', Unstalled(s)
  PROVE  Issue1 <=> Paired(Words(s), Len(Sent) + 1)
<1>0. PICK n : n = Len(Sent)
  OBVIOUS
<1>1. /\ Future(s) /\ Len(s) > n /\ s[n + 1] = Committed(buf0)
      /\ Issue1 => Len(s) > n + 1 /\ s[n + 2] = Committed(buf1)
      /\ ~Special(buf0.ins) => Len(s) > n + 1 /\ s[n + 2] = Committed(buf1)
  BY <1>0, FutureKept
<1>2. /\ s \in Seq(Entry) /\ n \in Nat /\ \A k \in 1 .. n : s[k] = Sent[k]
      /\ TypeOK /\ ProgramOrder /\ Lane1Discipline
  BY <1>0, <1>1, SentType DEF Future, Watched, ControlInv, TypeInv
<1>3. Paired(Words(s), n + 1) <=> n + 1 < Len(s) /\ CanPair(s[n + 1].ins, s[n + 2].ins)
  <2>1. Len(Words(s)) = Len(s) /\ Words(s)[n + 1] = s[n + 1].ins
    BY <1>1, <1>2, WordsAre
  <2>2. n + 1 < Len(s) => Words(s)[n + 2] = s[n + 2].ins
    BY <1>2, WordsAre
  <2>3. n + 1 + 1 = n + 2
    BY <1>2
  <2> QED
    BY <2>1, <2>2, <2>3 DEF Paired
<1>4. /\ buf0.ins \in LatchInstr /\ buf1.ins \in LatchInstr /\ buf0.v /\ buf1.v
  BY <1>2, IssueFacts, SlotEntries DEF TypeOK, Slot, LatchInstr
<1>5. ASSUME Issue1
      PROVE  n + 1 < Len(s) /\ CanPair(s[n + 1].ins, s[n + 2].ins)
  <2>1. /\ ~Special(buf0.ins) /\ ~Special(buf1.ins)
        /\ buf0.ins.rd # 0 => ~Reads(buf1.ins, buf0.ins.rd) /\ buf1.ins.rd # buf0.ins.rd
    BY <1>2, <1>5, PairFacts
  <2>2. PlainAlu(buf0.ins) /\ PlainAlu(buf1.ins)
    BY <1>4, <2>1, PlainFacts DEF PlainAlu
  <2>3. CanPair(buf0.ins, buf1.ins)
    BY <2>1, <2>2 DEF CanPair
  <2> QED
    BY <1>1, <1>5, <2>3 DEF Committed
<1>6. ASSUME n + 1 < Len(s), CanPair(s[n + 1].ins, s[n + 2].ins)
      PROVE  Issue1
  <2>1. ~s[n + 1].ins.ill /\ ~s[n + 2].ins.ill
    BY <1>2, <1>6, WordsAre DEF Unstalled
  <2>2. ~Special(buf0.ins)
    BY <1>1, <1>6, <2>1 DEF CanPair, PlainAlu, Special, Lane1Eligible, Committed
  <2>3. s[n + 2].ins = buf1.ins /\ s[n + 1].ins = buf0.ins
    BY <1>1, <2>2 DEF Committed
  <2>4. ~Special(buf1.ins)
    BY <1>6, <2>1, <2>3 DEF CanPair, PlainAlu, Special, Lane1Eligible
  <2>5. ~PairRaw(buf0, buf1) /\ ~PairWaw(buf0, buf1) /\ ~PairStructural(buf0, buf1)
    BY <1>6, <2>2, <2>3, <2>4 DEF CanPair, PairRaw, PairWaw, PairStructural
  <2>6. ~WaitsForEx(buf1)
    <3> SUFFICES ASSUME ex0.valid, IsLoad(ex0.ins) \/ IsDiv(ex0.ins) PROVE FALSE
      BY DEF WaitsForEx
    <3>1. ~ex1.valid
      BY <1>2 DEF Lane1Discipline, Special, IsLoad, IsDiv
    <3>2. n > 0 /\ Sent[n] = Committed(ex0)
      BY <1>0, <3>1, LastSent
    <3>3. s[n].ins = ex0.ins /\ n \in 1 .. Len(s)
      BY <1>1, <1>2, <3>2 DEF Committed
    <3> QED
      BY <3>3 DEF Unstalled, IsLoad, IsDiv
  <2>7. ~StallAll /\ ~Stall0
    BY DEF Issue0, IssueSlot0, Stall0
  <2> QED
    BY <1>4, <2>5, <2>6, <2>7 DEF Issue0, Issue1, IssueSlot1, IssueSlot0, Stall1
<1> QED
  BY <1>0, <1>3, <1>5, <1>6

LEMMA FallsAt ==
  ASSUME NEW w, NEW f, Falls(w, f)
  PROVE  \A i \in 1 .. Len(w) + 1 : f[i] = Falling(w, f, i)
BY DEF Falls

LEMMA IssueForetoldKept ==
  ASSUME Watched, Watched', PerfTypes, IssueForetold, Clock, PerfStep, StreamStep
  PROVE  IssueForetold'
<1> SUFFICES ASSUME EnableDualIssue, NEW s, NEW f, Future(s)', Unstalled(s), Falls(Words(s), f)
             PROVE  /\ f[1].dual = perf'.dual + f[Len(Sent)' + 1].dual
                    /\ f[1].single = perf'.single + f[Len(Sent)' + 1].single
  BY DEF IssueForetold
<1>0. PICK n : n = Len(Sent)
  OBVIOUS
<1>1. /\ Future(s)
      /\ Issue0 => Len(s) > n /\ Committed(buf0) \in Entry /\ Committed(buf1) \in Entry
      /\ Issue1 => Len(s) > n + 1
  BY <1>0, FutureKept, IssueFacts, SlotEntries
<1>2. /\ f[1].dual = perf.dual + f[n + 1].dual
      /\ f[1].single = perf.single + f[n + 1].single
  BY <1>0, <1>1 DEF IssueForetold
<1>3. /\ s \in Seq(Entry) /\ n \in Nat /\ n <= Len(s) /\ Len(s) \in Nat /\ Len(Words(s)) = Len(s)
      /\ Sent \in Seq(Entry)
  BY <1>0, <1>1, SentType, WordsAre DEF Future
<1>4. \A i \in 1 .. Len(s) + 1 : f[i] \in Counts
  BY <1>3, FallsTo
<1>5. /\ ~halted => /\ perf'.dual = perf.dual + One(Issue0 /\ Issue1)
                    /\ perf'.single = perf.single + One(Issue0 /\ ~Issue1)
      /\ halted => perf' = perf
      /\ perf.dual \in Nat /\ perf.single \in Nat
  BY PerfSteps DEF PerfTypes, Counters
<1>6. CASE ~Issue0
  <2>1. Sent' = Sent
    BY <1>6, SentGrows
  <2>2. perf'.dual = perf.dual /\ perf'.single = perf.single
    BY <1>5, <1>6 DEF One
  <2> QED
    BY <1>0, <1>2, <2>1, <2>2
<1>7. CASE Issue0
  <2>1. Issue1 <=> Paired(Words(s), n + 1)
    BY <1>0, <1>7, PairsAlike
  <2>2. ~halted
    BY <1>7, IssueFacts
  <2>3. n + 1 \in 1 .. Len(s) /\ n + 1 # Len(s) + 1
    BY <1>1, <1>3, <1>7
  <2>4. Len(Sent)' = IF Issue1 THEN n + 2 ELSE n + 1
    <3>1. /\ Append(Sent, Committed(buf0)) \in Seq(Entry)
          /\ Len(Append(Sent, Committed(buf0))) = n + 1
      BY <1>0, <1>1, <1>3, <1>7, Grows
    <3>2. Len(Append(Append(Sent, Committed(buf0)), Committed(buf1))) = n + 1 + 1
      BY <1>1, <1>7, <3>1, Grows
    <3> QED
      BY <1>3, <1>7, <3>1, <3>2, SentGrows
  <2> DEFINE b == Behind(Words(s), f, n + 1)
  <2>5. b = f[Len(Sent)' + 1] /\ b \in Counts
    <3>1. n + 1 + 2 = n + 2 + 1
      BY <1>3
    <3>2. b = f[Len(Sent)' + 1]
      BY <2>1, <2>4, <3>1 DEF Behind
    <3>3. Len(Sent)' + 1 \in 1 .. Len(s) + 1
      BY <1>1, <1>3, <1>7, <2>4
    <3> QED
      BY <1>4, <3>2, <3>3
  <2>6. f[n + 1] = Falling(Words(s), f, n + 1)
    BY <1>3, <2>3, FallsAt
  <2>7. /\ f[n + 1].dual = b.dual + One(Paired(Words(s), n + 1))
        /\ f[n + 1].single = b.single + One(~Paired(Words(s), n + 1))
    BY <1>3, <2>3, <2>5, <2>6, FallingIs
  <2> HIDE DEF b
  <2>8. b.dual \in Nat /\ b.single \in Nat
    BY <2>5 DEF Counts
  <2>9. CASE Issue1
    <3>1. /\ f[n + 1].dual = b.dual + 1 /\ f[n + 1].single = b.single + 0
          /\ perf'.dual = perf.dual + 1 /\ perf'.single = perf.single + 0
      BY <1>5, <1>7, <2>1, <2>2, <2>7, <2>9 DEF One
    <3> QED
      BY <1>2, <1>5, <2>5, <2>8, <3>1
  <2>10. CASE ~Issue1
    <3>1. /\ f[n + 1].dual = b.dual + 0 /\ f[n + 1].single = b.single + 1
          /\ perf'.dual = perf.dual + 0 /\ perf'.single = perf.single + 1
      BY <1>5, <1>7, <2>1, <2>2, <2>7, <2>10 DEF One
    <3> QED
      BY <1>2, <1>5, <2>5, <2>8, <3>1
  <2> QED
    BY <2>9, <2>10
<1> QED
  BY <1>6, <1>7

\* When the core has halted, what has issued is the whole stream.
LEMMA HaltedFuture ==
  ASSUME Watched, RunOn, halted
  PROVE  Future(DynamicStream) /\ Sent = DynamicStream
<1>1. /\ LeftEx = DynamicStream /\ LeftEx \in Seq(Entry) /\ Len(LeftEx) \in Nat
      /\ ~ex0.valid /\ ~ex1.valid
  BY HaltedStream DEF Watched, ControlInv, ProgramOrder
<1>2. Sent = LeftEx \o <<>> \o <<>>
  BY <1>1 DEF Sent, Trail
<1>3. Sent = LeftEx
  BY <1>1, <1>2, ConcatEmptySeq
<1>4. Ended
  BY DEF Ended, Trapping
<1> QED
  BY <1>1, <1>3, <1>4 DEF Future, RunOn

\* Before anything has issued, every stream is foretold.
LEMMA NothingSent ==
  ASSUME stream = <<>>, ~halted, EmptyEx, EmptyMem, EmptyWb
  PROVE  Sent = <<>> /\ Len(Sent) = 0
<1>1. \A l \in {wb0, wb1, mem0, mem1, ex0, ex1} : Trail(l) = <<>>
  BY DEF Trail, EmptyMem, EmptyWb, EmptyEx
<1>2. <<>> \o <<>> = <<>>
  OBVIOUS
<1> QED
  BY <1>1, <1>2 DEF Sent, LeftEx

LEMMA IssueForetoldFirst ==
  ASSUME perf = ZeroPerf, stream = <<>>, ~halted, EmptyEx, EmptyMem, EmptyWb
  PROVE  IssueForetold
<1> SUFFICES ASSUME NEW s, NEW f, Future(s), Falls(Words(s), f)
             PROVE  /\ f[1].dual = perf.dual + f[Len(Sent) + 1].dual
                    /\ f[1].single = perf.single + f[Len(Sent) + 1].single
  BY DEF IssueForetold
<1>1. Len(Sent) = 0 /\ perf.dual = 0 /\ perf.single = 0
  BY NothingSent DEF ZeroPerf
<1>2. f[1] \in Counts
  <2>1. Len(Words(s)) \in Nat
    BY WordsAre DEF Future
  <2>2. 1 \in 1 .. Len(Words(s)) + 1
    BY <2>1
  <2> QED
    BY <2>1, <2>2, FallsTo
<1> QED
  BY <1>1, <1>2 DEF Counts

LEMMA FutureStutters ==
  ASSUME UNCHANGED perfVars
  PROVE  Sent' = Sent /\ \A s : Future(s)' <=> Future(s)
<1> USE DEF perfVars, vars, pipeVars, frontVars
<1>1. LeftEx' = LeftEx
  BY DEF LeftEx, Trail, Committed, Fetch
<1>2. Sent' = Sent
  BY <1>1 DEF Sent, Trail, Committed
<1>3. ControlTaken' = ControlTaken /\ ControlTarget' = ControlTarget /\ FrontPc' = FrontPc
  BY DEF ControlTaken, ControlTarget, FrontPc, IsJump
<1>4. MemMisaligned' = MemMisaligned /\ InstrMisaligned' = InstrMisaligned
  BY <1>3 DEF MemMisaligned, Misaligned, MemOp, EffAddr, InstrMisaligned
<1>5. Ex0Exc' = Ex0Exc
  BY <1>4 DEF Ex0Exc, IsLoad, IsStore
<1>6. Ended' = Ended
  BY <1>5 DEF Ended, Trapping, Excepting
<1>7. Onward' = Onward
  BY <1>3, <1>5 DEF Onward, RedirectValid, ExStall, DivInEx
<1>8. \A a : Fetch(a)' = Fetch(a)
  BY DEF Fetch
<1> QED
  BY <1>2, <1>6, <1>7, <1>8 DEF Future, Entry, Fetch

LEMMA WatchedProgram ==
  PerfInv /\ StreamOfProgram => Watched /\ RunOn /\ PerfTypes /\ TypeOK
BY DEF PerfInv, StreamOfProgram, StreamInv, Watched, ControlInv, TypeInv

LEMMA StartsEmpty ==
  /\ PerfInit => perf = ZeroPerf /\ stream = <<>> /\ ~halted /\ EmptyEx /\ EmptyMem /\ EmptyWb
  /\ PerfReset => (perf = ZeroPerf /\ stream = <<>> /\ ~halted /\ EmptyEx /\ EmptyMem /\ EmptyWb)'
BY DEF PerfInit, Init, PerfReset, Reset, ExBubble, MemBubble, WbBubble, EmptyEx, EmptyMem, EmptyWb,
       ZeroPerf

LEMMA IssueForetoldCorrect == PerfSpec => [](PerfInv /\ StreamOfProgram /\ IssueForetold)
<1> DEFINE P == PerfInv /\ StreamOfProgram
<1>1. PerfInit => IssueForetold
  BY StartsEmpty, IssueForetoldFirst
<1>2. P /\ P' /\ IssueForetold /\ [PerfNext]_perfVars => IssueForetold'
  <2> SUFFICES ASSUME P, P', IssueForetold, [PerfNext]_perfVars PROVE IssueForetold'
    OBVIOUS
  <2>1. CASE PerfClock
    <3>1. Clock /\ PerfStep /\ StreamStep
      BY <2>1 DEF PerfClock
    <3>2. Watched /\ PerfTypes
      BY WatchedProgram
    <3>3. (PerfInv /\ StreamOfProgram => Watched /\ RunOn /\ PerfTypes /\ TypeOK)'
      BY WatchedProgram, PTL
    <3> QED
      BY <3>1, <3>2, <3>3, IssueForetoldKept
  <2>2. CASE PerfReset
    <3>1. (perf = ZeroPerf /\ stream = <<>> /\ ~halted /\ EmptyEx /\ EmptyMem /\ EmptyWb)'
      BY <2>2, StartsEmpty
    <3> QED
      BY <3>1, IssueForetoldFirst, PTL
  <2>3. CASE UNCHANGED perfVars
    BY <2>3, FutureStutters DEF IssueForetold, perfVars
  <2> QED
    BY <2>1, <2>2, <2>3 DEF PerfNext
<1> QED
  BY <1>1, <1>2, StreamCorrect, PTL DEF PerfSpec

\* The pairs and single issues of a program without loads, divides and
\* transfers of control are those of the greedy walk of issue_cycles over its
\* words, for every program: no other rule of the issue unit, no replay and no
\* stall changes which words form a pair.
THEOREM IssueModelPredicts == PerfSpec => []IssueModelIsExact
<1>1. PerfInv /\ StreamOfProgram /\ IssueForetold => IssueModelIsExact
  <2> SUFFICES ASSUME PerfInv, StreamOfProgram, IssueForetold,
                      halted, EnableDualIssue, Unstalled(DynamicStream)
               PROVE  [dual |-> perf.dual, single |-> perf.single] = IssueCycles(Words(DynamicStream))
    BY DEF IssueModelIsExact, Words
  <2>1. Future(DynamicStream) /\ Sent = DynamicStream /\ PerfTypes
    BY WatchedProgram, HaltedFuture
  <2>2. Len(Words(DynamicStream)) = Len(DynamicStream) /\ Len(DynamicStream) \in Nat
    BY <2>1, WordsAre DEF Future
  <2> DEFINE n == Len(DynamicStream)
  <2>3. PICK f : Falls(Words(DynamicStream), f) /\ IssueCycles(Words(DynamicStream)) = f[1]
    BY <2>2, IssueCyclesIs
  <2>4. /\ f[1].dual = perf.dual + f[n + 1].dual
        /\ f[1].single = perf.single + f[n + 1].single
    BY <2>1, <2>3 DEF IssueForetold
  <2>5. n + 1 \in 1 .. n + 1 /\ 1 \in 1 .. n + 1
    BY <2>2
  <2>6. f[1] \in Counts
    BY <2>2, <2>3, <2>5, FallsTo
  <2>7. f[n + 1] = Falling(Words(DynamicStream), f, n + 1)
    BY <2>2, <2>3, <2>5, FallsAt
  <2>8. f[n + 1].dual = 0 /\ f[n + 1].single = 0
    BY <2>2, <2>5, <2>7, FallingIs
  <2>9. perf.dual \in Nat /\ perf.single \in Nat
    BY <2>1 DEF PerfTypes, Counters
  <2>10. f[1].dual = perf.dual /\ f[1].single = perf.single
    BY <2>4, <2>8, <2>9
  <2> QED
    BY <2>3, <2>6, <2>10 DEF Counts
<1> QED
  BY <1>1, IssueForetoldCorrect, PTL

-----------------------------------------------------------------------------
(* What a turn of simulate_dynamic does. *)

Locals == {"i", "cycle", "dual", "single", "raw", "waw", "structural", "pair", "loadUse",
           "divider", "redirect", "branches", "mispredicts",
           "loadAt", "loadRd", "divRelease", "divRd"}
Local  == {t \in [Locals -> Nat] : t.i > 0}

Turn(s, t) ==
  IF t.i > Len(s) THEN t ELSE TimingStep(s, DivLatency, EnableDualIssue, t)

Blocks(s, t) == DivBlocks(t, s[t.i]) \/ LoadBlocks(t, s[t.i])

\* A cycle passes in which nothing issues.
Delayed(t, u) ==
  u.cycle = t.cycle + 1 /\ \A k \in Locals \ {"cycle", "divider", "loadUse"} : u[k] = t[k]

LEMMA WaitIs ==
  ASSUME NEW t \in Local, NEW why \in {"divider", "loadUse"}
  PROVE  WaitFor(t, why) \in Local /\ Delayed(t, WaitFor(t, why))
<1>1. t \in [Locals -> Nat] /\ t.i > 0 /\ t.cycle \in Nat /\ t[why] \in Nat
  BY DEF Local, Locals
<1> DEFINE u == [t EXCEPT !.cycle = @ + 1]
           v == [u EXCEPT ![why] = @ + 1]
<1>2. u \in [Locals -> Nat] /\ u.cycle = t.cycle + 1
      /\ \A k \in Locals \ {"cycle"} : u[k] = t[k]
  BY <1>1 DEF Locals
<1>3. WaitFor(t, why) = v
  BY DEF WaitFor
<1> HIDE DEF u
<1>4. v \in [Locals -> Nat] /\ \A k \in Locals \ {why} : v[k] = u[k]
  BY <1>2 DEF Locals
<1> HIDE DEF v
<1>5. v.cycle = t.cycle + 1 /\ v.i = t.i
  BY <1>2, <1>4 DEF Locals
<1>6. \A k \in Locals \ {"cycle", "divider", "loadUse"} : v[k] = t[k]
  BY <1>2, <1>4
<1> QED
  BY <1>1, <1>3, <1>4, <1>5, <1>6 DEF Local, Delayed

\* What decode_meta makes an operand: what decoder.sv does, and rs1 of an
\* illegal JALR, which no instruction of lane 1 is.
LEMMA DependsIs ==
  ASSUME NEW m, NEW rd
  PROVE  DependsOn(m, rd) <=>
           rd # 0 /\ (Reads(m.ins, rd) \/ (ReservedJalr(m.ins) /\ m.ins.rs1 = rd))
BY DEF DependsOn, MetaRs1Used, Reads

LEMMA PlainMeta ==
  ASSUME NEW i, ~Special(i)
  PROVE  ~ReservedJalr(i) /\ (MetaRdWrite(i) <=> RdWrite(i))
BY DEF Special, Lane1Eligible, ReservedJalr, MetaRdWrite

\* The rule of pair_reason.
LEMMA ReasonIs ==
  ASSUME NEW a, NEW b
  PROVE  /\ PairReason(a, b) \in {"raw", "waw", "structural", "pair"}
         /\ PairReason(a, b) = "pair" <=>
              /\ b.pc = AddW(a.pc, 4)
              /\ RdWrite(a.ins) /\ a.ins.rd # 0 =>
                   ~Reads(b.ins, a.ins.rd) /\ ~(RdWrite(b.ins) /\ b.ins.rd = a.ins.rd)
              /\ ~Special(a.ins) /\ ~Special(b.ins)
<1>1. PairReason(a, b) = "pair" <=>
        /\ b.pc = AddW(a.pc, 4)
        /\ MetaRdWrite(a.ins) /\ a.ins.rd # 0 =>
             ~DependsOn(b, a.ins.rd) /\ ~(MetaRdWrite(b.ins) /\ b.ins.rd = a.ins.rd)
        /\ ~Special(a.ins) /\ ~Special(b.ins)
  BY DEF PairReason
<1>2. PairReason(a, b) \in {"raw", "waw", "structural", "pair"}
  BY DEF PairReason
<1>3. CASE ~Special(a.ins) /\ ~Special(b.ins)
  BY <1>1, <1>2, <1>3, PlainMeta, DependsIs
<1> QED
  BY <1>1, <1>2, <1>3

\* Whether the i-th member pairs with the next, and whether it is a transfer of
\* control that goes on.
PairsAt(s, i) == EnableDualIssue /\ i # Len(s) /\ PairReason(s[i], s[i + 1]) = "pair"
LeadsOn(s, i) == s[i].ins.cls \in {"branch", "jal", "jalr"} /\ i # Len(s)

\* What it counts when an instruction issues.
Counted(s, t) ==
  IF PairsAt(s, t.i) THEN [t EXCEPT !.dual = @ + 1]
  ELSE IF t.i = Len(s) THEN [t EXCEPT !.single = @ + 1]
  ELSE [t EXCEPT !.single = @ + 1, ![PairReason(s[t.i], s[t.i + 1])] = @ + 1]

LEMMA CountedIs ==
  ASSUME NEW s, NEW t \in Local
  PROVE  /\ Counted(s, t) \in Local
         /\ Counted(s, t).dual = t.dual + One(PairsAt(s, t.i))
         /\ Counted(s, t).single = t.single + One(~PairsAt(s, t.i))
         /\ \A k \in {"i", "cycle", "branches", "mispredicts", "redirect",
                      "loadAt", "loadRd", "divRelease", "divRd"} : Counted(s, t)[k] = t[k]
<1>0. PICK why \in {"raw", "waw", "structural", "pair"} : why = PairReason(s[t.i], s[t.i + 1])
  BY ReasonIs
<1>1. t \in [Locals -> Nat] /\ t.i > 0 /\ t.dual \in Nat /\ t.single \in Nat /\ t[why] \in Nat
  BY DEF Local, Locals
<1> DEFINE u == [t EXCEPT !.single = @ + 1]
<1>2. /\ u \in [Locals -> Nat] /\ u.single = t.single + 1
      /\ \A k \in Locals \ {"single"} : u[k] = t[k]
  BY <1>1 DEF Locals
<1>3. [t EXCEPT !.single = @ + 1, ![why] = @ + 1] = [u EXCEPT ![why] = @ + 1]
  OBVIOUS
<1>4. CASE PairsAt(s, t.i)
  <2>1. /\ [t EXCEPT !.dual = @ + 1] \in [Locals -> Nat]
        /\ [t EXCEPT !.dual = @ + 1].dual = t.dual + 1
        /\ \A k \in Locals \ {"dual"} : [t EXCEPT !.dual = @ + 1][k] = t[k]
    BY <1>1 DEF Locals
  <2> DEFINE v == [t EXCEPT !.dual = @ + 1]
  <2> HIDE DEF v
  <2>2. /\ v \in [Locals -> Nat] /\ v.dual = t.dual + 1
        /\ \A k \in Locals \ {"dual"} : v[k] = t[k]
    BY <2>1 DEF v
  <2>a. v.i = t.i /\ v.single = t.single
    BY <2>2 DEF Locals
  <2>b. One(PairsAt(s, t.i)) = 1 /\ One(~PairsAt(s, t.i)) = 0
    BY <1>4 DEF One
  <2>3. v \in Local /\ v.dual = t.dual + One(PairsAt(s, t.i)) /\ v.single = t.single + One(~PairsAt(s, t.i))
    BY <1>1, <2>2, <2>a, <2>b DEF Local
  <2> QED
    BY <1>4, <2>2, <2>3 DEF v, Locals, Counted
<1>5. CASE ~PairsAt(s, t.i) /\ t.i = Len(s)
  <2> HIDE DEF u
  <2>1. u \in Local /\ u.dual = t.dual + One(PairsAt(s, t.i)) /\ u.single = t.single + One(~PairsAt(s, t.i))
    <3>1. u.i = t.i /\ u.dual = t.dual
      BY <1>2 DEF Locals
    <3>2. One(PairsAt(s, t.i)) = 0 /\ One(~PairsAt(s, t.i)) = 1
      BY <1>5 DEF One
    <3> QED
      BY <1>1, <1>2, <3>1, <3>2 DEF Local
  <2> QED
    BY <1>2, <1>5, <2>1 DEF u, Locals, Counted
<1>6. CASE ~PairsAt(s, t.i) /\ t.i # Len(s)
  <2> DEFINE v == [u EXCEPT ![why] = @ + 1]
  <2> HIDE DEF u
  <2>1. v \in [Locals -> Nat] /\ \A k \in Locals \ {why} : v[k] = u[k]
    BY <1>2 DEF Locals
  <2> HIDE DEF v
  <2>a. /\ why # "i" /\ why # "dual" /\ why # "single"
        /\ "i" \in Locals /\ "dual" \in Locals /\ "single" \in Locals
    BY <1>0 DEF Locals
  <2>b. v.i = t.i /\ v.dual = t.dual /\ v.single = t.single + 1
    BY <1>2, <2>1, <2>a
  <2>2. v \in Local /\ v.dual = t.dual + One(PairsAt(s, t.i)) /\ v.single = t.single + One(~PairsAt(s, t.i))
    <3>1. One(PairsAt(s, t.i)) = 0 /\ One(~PairsAt(s, t.i)) = 1
      BY <1>6 DEF One
    <3> QED
      BY <1>1, <2>1, <2>b, <3>1 DEF Local
  <2>3. \A k \in {"i", "cycle", "branches", "mispredicts", "redirect",
                  "loadAt", "loadRd", "divRelease", "divRd"} : v[k] = t[k]
    BY <1>0, <1>2, <2>1 DEF Locals
  <2> QED
    BY <1>0, <1>3, <1>6, <2>2, <2>3 DEF u, v, Counted
<1> QED
  BY <1>4, <1>5, <1>6

\* A turn in which the member at t.i issues.
Advanced(s, t, u) ==
  /\ u.i = t.i + (IF PairsAt(s, t.i) THEN 2 ELSE 1)
  /\ u.cycle = t.cycle + (IF Redirects(s, t.i) THEN 3 ELSE 1)
  /\ u.dual = t.dual + One(PairsAt(s, t.i)) /\ u.single = t.single + One(~PairsAt(s, t.i))
  /\ u.branches = t.branches + One(LeadsOn(s, t.i))
  /\ u.mispredicts = t.mispredicts + One(Redirects(s, t.i))
  /\ IF IsLoad(s[t.i].ins) THEN u.loadAt = t.cycle /\ u.loadRd = s[t.i].ins.rd
                           ELSE u.loadAt = t.loadAt /\ u.loadRd = t.loadRd
  /\ IF IsDiv(s[t.i].ins) THEN u.divRelease = t.cycle + DivLatency + 2 /\ u.divRd = s[t.i].ins.rd
                          ELSE u.divRelease = t.divRelease /\ u.divRd = t.divRd

\* The tags it sets.
Tagged(c, m, now) ==
  CASE IsLoad(m.ins) -> [c EXCEPT !.loadAt = now, !.loadRd = m.ins.rd]
    [] IsDiv(m.ins)  -> [c EXCEPT !.divRelease = now + DivLatency + 2, !.divRd = m.ins.rd]
    [] OTHER         -> c

LEMMA TaggedIs ==
  ASSUME NEW c \in Local, NEW m \in [pc : Word, ins : Instr], NEW now \in Nat
  PROVE  LET tagged == Tagged(c, m, now)
         IN /\ tagged \in Local
            /\ \A k \in Locals \ {"loadAt", "loadRd", "divRelease", "divRd"} : tagged[k] = c[k]
            /\ IF IsLoad(m.ins) THEN tagged.loadAt = now /\ tagged.loadRd = m.ins.rd
                                ELSE tagged.loadAt = c.loadAt /\ tagged.loadRd = c.loadRd
            /\ IF IsDiv(m.ins) THEN tagged.divRelease = now + DivLatency + 2 /\ tagged.divRd = m.ins.rd
                               ELSE tagged.divRelease = c.divRelease /\ tagged.divRd = c.divRd
<1>1. /\ c \in [Locals -> Nat] /\ c.i > 0 /\ m.ins.rd \in Nat
      /\ now + DivLatency + 2 \in Nat /\ (IsLoad(m.ins) => ~IsDiv(m.ins))
  <2>1. m.ins \in Instr
    OBVIOUS
  <2>2. m.ins.rd \in Reg
    BY <2>1 DEF Instr
  <2>3. DivLatency \in Nat
    BY DivAssumption
  <2>4. now + DivLatency + 2 \in Nat
    BY <2>3
  <2>5. IsLoad(m.ins) => ~IsDiv(m.ins)
    BY DEF IsLoad, IsDiv
  <2> QED
    BY <2>2, <2>4, <2>5, RegAssumption DEF Local
<1> DEFINE rd == m.ins.rd
           until == now + DivLatency + 2
           l == [c EXCEPT !.loadAt = now]
           v == [l EXCEPT !.loadRd = rd]
           d == [c EXCEPT !.divRelease = until]
           w == [d EXCEPT !.divRd = rd]
<1>2. /\ [c EXCEPT !.loadAt = now, !.loadRd = m.ins.rd] = v
      /\ [c EXCEPT !.divRelease = now + DivLatency + 2, !.divRd = m.ins.rd] = w
  OBVIOUS
<1>3. rd \in Nat /\ until \in Nat
  BY <1>1
<1> HIDE DEF rd, until
<1>4. /\ l \in [Locals -> Nat] /\ l.loadAt = now /\ \A k \in Locals \ {"loadAt"} : l[k] = c[k]
      /\ d \in [Locals -> Nat] /\ d.divRelease = until
      /\ \A k \in Locals \ {"divRelease"} : d[k] = c[k]
  BY <1>1, <1>3 DEF Locals
<1> HIDE DEF l, d
<1>5. /\ v \in [Locals -> Nat] /\ v.loadRd = rd /\ \A k \in Locals \ {"loadRd"} : v[k] = l[k]
      /\ w \in [Locals -> Nat] /\ w.divRd = rd /\ \A k \in Locals \ {"divRd"} : w[k] = d[k]
  BY <1>3, <1>4 DEF Locals
<1> HIDE DEF v, w
<1>6. /\ v.i = c.i /\ v.loadAt = now /\ v.divRelease = c.divRelease /\ v.divRd = c.divRd
      /\ w.i = c.i /\ w.divRelease = until /\ w.loadAt = c.loadAt /\ w.loadRd = c.loadRd
      /\ \A k \in Locals \ {"loadAt", "loadRd", "divRelease", "divRd"} : v[k] = c[k] /\ w[k] = c[k]
  BY <1>4, <1>5 DEF Locals
<1>7. CASE IsLoad(m.ins)
  <2>1. v \in Local
    BY <1>1, <1>5, <1>6 DEF Local
  <2> QED
    BY <1>1, <1>2, <1>5, <1>6, <1>7, <2>1 DEF rd, Tagged
<1>8. CASE IsDiv(m.ins)
  <2>1. w \in Local
    BY <1>1, <1>5, <1>6 DEF Local
  <2> QED
    BY <1>1, <1>2, <1>5, <1>6, <1>8, <2>1 DEF rd, until, Tagged
<1>9. CASE ~IsLoad(m.ins) /\ ~IsDiv(m.ins)
  BY <1>9 DEF Tagged
<1> QED
  BY <1>7, <1>8, <1>9

LEMMA Put ==
  ASSUME NEW f \in [Locals -> Nat], NEW j \in Locals, NEW v \in Nat
  PROVE  /\ [f EXCEPT ![j] = v] \in [Locals -> Nat] /\ [f EXCEPT ![j] = v][j] = v
         /\ \A k \in Locals \ {j} : [f EXCEPT ![j] = v][k] = f[k]
OBVIOUS

LEMMA IssueIs ==
  ASSUME NEW s \in Seq(Entry), NEW t \in Local, t.i <= Len(s)
  PROVE  /\ IssueAt(s, DivLatency, EnableDualIssue, t) \in Local
         /\ Advanced(s, t, IssueAt(s, DivLatency, EnableDualIssue, t))
<1>1. /\ t.i \in 1 .. Len(s) /\ Len(s) \in Nat /\ s[t.i] \in [pc : Word, ins : Instr]
      /\ t.cycle \in Nat /\ EnableDualIssue \in BOOLEAN
  <2>1. t.i \in Nat /\ t.i > 0 /\ t.cycle \in Nat
    BY DEF Local, Locals
  <2>2. t.i \in 1 .. Len(s) /\ Len(s) \in Nat
    BY <2>1
  <2>3. s[t.i] \in Entry
    BY <2>2
  <2> QED
    BY <2>1, <2>2, <2>3, CoreAssumption DEF Entry
<1> DEFINE cur == s[t.i]
           pairs == PairsAt(s, t.i)
           control == LeadsOn(s, t.i)
           redirect == Redirects(s, t.i)
           c == Counted(s, t)
           g == Tagged(c, cur, t.cycle)
           u == [g EXCEPT
                   !.i           = @ + (IF pairs THEN 2 ELSE 1),
                   !.branches    = @ + (IF control THEN 1 ELSE 0),
                   !.mispredicts = @ + (IF redirect THEN 1 ELSE 0),
                   !.redirect    = @ + (IF redirect THEN 2 ELSE 0),
                   !.cycle       = @ + (IF redirect THEN 3 ELSE 1)]
<1>2. IssueAt(s, DivLatency, EnableDualIssue, t) = u
  BY DEF IssueAt, Counted, Tagged, PairsAt, LeadsOn
<1>4. /\ c \in Local
      /\ c.dual = t.dual + One(PairsAt(s, t.i)) /\ c.single = t.single + One(~PairsAt(s, t.i))
      /\ \A k \in {"i", "cycle", "branches", "mispredicts", "redirect",
                   "loadAt", "loadRd", "divRelease", "divRd"} : c[k] = t[k]
  BY CountedIs
<1> HIDE DEF c
<1>5. /\ g \in Local
      /\ \A k \in Locals \ {"loadAt", "loadRd", "divRelease", "divRd"} : g[k] = c[k]
      /\ IF IsLoad(cur.ins) THEN g.loadAt = t.cycle /\ g.loadRd = cur.ins.rd
                            ELSE g.loadAt = c.loadAt /\ g.loadRd = c.loadRd
      /\ IF IsDiv(cur.ins) THEN g.divRelease = t.cycle + DivLatency + 2 /\ g.divRd = cur.ins.rd
                           ELSE g.divRelease = c.divRelease /\ g.divRd = c.divRd
  <2> HIDE DEF cur
  <2>1. cur \in [pc : Word, ins : Instr]
    BY <1>1 DEF cur
  <2> QED
    BY <1>1, <1>4, <2>1, TaggedIs
<1> HIDE DEF g
<1>6. /\ g \in [Locals -> Nat] /\ g.i = t.i /\ g.cycle = t.cycle /\ g.i > 0
      /\ g.branches = t.branches /\ g.mispredicts = t.mispredicts
      /\ g.dual = c.dual /\ g.single = c.single
  BY <1>4, <1>5 DEF Local, Locals
<1> HIDE DEF pairs, control, redirect
<1> DEFINE at == g.i + (IF pairs THEN 2 ELSE 1)
           branches == g.branches + (IF control THEN 1 ELSE 0)
           mispredicts == g.mispredicts + (IF redirect THEN 1 ELSE 0)
           lost == g.redirect + (IF redirect THEN 2 ELSE 0)
           cycle == g.cycle + (IF redirect THEN 3 ELSE 1)
           u1 == [g EXCEPT !.i = at]
           u2 == [u1 EXCEPT !.branches = branches]
           u3 == [u2 EXCEPT !.mispredicts = mispredicts]
           u4 == [u3 EXCEPT !.redirect = lost]
           u5 == [u4 EXCEPT !.cycle = cycle]
<1>a. u = u5
  OBVIOUS
<1>b. /\ at \in Nat /\ at > 0 /\ branches \in Nat /\ mispredicts \in Nat /\ lost \in Nat
      /\ cycle \in Nat
  <2>1. /\ g.i \in Nat /\ g.branches \in Nat /\ g.mispredicts \in Nat /\ g.redirect \in Nat
        /\ g.cycle \in Nat
    BY <1>6 DEF Locals
  <2> QED
    BY <1>6, <2>1
<1>c. /\ "i" \in Locals /\ "branches" \in Locals /\ "mispredicts" \in Locals
      /\ "redirect" \in Locals /\ "cycle" \in Locals
      /\ \A k \in {"dual", "single", "loadAt", "loadRd", "divRelease", "divRd"} :
           k \in Locals \ {"i", "branches", "mispredicts", "redirect", "cycle"}
  BY DEF Locals
<1> HIDE DEF at, branches, mispredicts, lost, cycle
<1>d. u1 \in [Locals -> Nat] /\ u1["i"] = at /\ \A k \in Locals \ {"i"} : u1[k] = g[k]
  BY <1>6, <1>b, <1>c, Put
<1> HIDE DEF u1
<1>e. /\ u2 \in [Locals -> Nat] /\ u2["branches"] = branches
      /\ \A k \in Locals \ {"branches"} : u2[k] = u1[k]
  BY <1>b, <1>c, <1>d, Put
<1> HIDE DEF u2
<1>f. /\ u3 \in [Locals -> Nat] /\ u3["mispredicts"] = mispredicts
      /\ \A k \in Locals \ {"mispredicts"} : u3[k] = u2[k]
  BY <1>b, <1>c, <1>e, Put
<1> HIDE DEF u3
<1>g. /\ u4 \in [Locals -> Nat] /\ \A k \in Locals \ {"redirect"} : u4[k] = u3[k]
  BY <1>b, <1>c, <1>f, Put
<1> HIDE DEF u4
<1>h. /\ u5 \in [Locals -> Nat] /\ u5["cycle"] = cycle
      /\ \A k \in Locals \ {"cycle"} : u5[k] = u4[k]
  BY <1>b, <1>c, <1>g, Put
<1> HIDE DEF u, u5
<1>8. /\ u.i = g.i + (IF pairs THEN 2 ELSE 1)
      /\ u.branches = g.branches + (IF control THEN 1 ELSE 0)
      /\ u.mispredicts = g.mispredicts + (IF redirect THEN 1 ELSE 0)
      /\ u.cycle = g.cycle + (IF redirect THEN 3 ELSE 1)
      /\ \A k \in {"dual", "single", "loadAt", "loadRd", "divRelease", "divRd"} : u[k] = g[k]
  BY <1>a, <1>c, <1>d, <1>e, <1>f, <1>g, <1>h DEF at, branches, mispredicts, cycle
<1>7. u \in [Locals -> Nat] /\ u.i > 0
  BY <1>8, <1>a, <1>b, <1>h DEF at
<1> HIDE DEF u
<1>9. u \in Local
  BY <1>7 DEF Local
<1>10. Advanced(s, t, u)
  <2>1. u.dual = t.dual + One(PairsAt(s, t.i)) /\ u.single = t.single + One(~PairsAt(s, t.i))
    BY <1>4, <1>6, <1>8
  <2>2. u.i = t.i + (IF PairsAt(s, t.i) THEN 2 ELSE 1)
    BY <1>6, <1>8 DEF pairs
  <2>3. /\ u.cycle = t.cycle + (IF Redirects(s, t.i) THEN 3 ELSE 1)
        /\ u.mispredicts = t.mispredicts + One(Redirects(s, t.i))
    BY <1>6, <1>8 DEF redirect, One
  <2>4. u.branches = t.branches + One(LeadsOn(s, t.i))
    BY <1>6, <1>8 DEF control, One
  <2>5. IF IsLoad(s[t.i].ins) THEN u.loadAt = t.cycle /\ u.loadRd = s[t.i].ins.rd
                              ELSE u.loadAt = t.loadAt /\ u.loadRd = t.loadRd
    BY <1>4, <1>5, <1>8
  <2>6. IF IsDiv(s[t.i].ins)
        THEN u.divRelease = t.cycle + DivLatency + 2 /\ u.divRd = s[t.i].ins.rd
        ELSE u.divRelease = t.divRelease /\ u.divRd = t.divRd
    BY <1>4, <1>5, <1>8
  <2> QED
    BY <2>1, <2>2, <2>3, <2>4, <2>5, <2>6 DEF Advanced
<1> QED
  BY <1>2, <1>9, <1>10

\* A turn of the loop: it has ended, waits, or issues.
LEMMA TurnIs ==
  ASSUME NEW s \in Seq(Entry), NEW t \in Local
  PROVE  /\ Turn(s, t) \in Local
         /\ t.i > Len(s) => Turn(s, t) = t
         /\ t.i <= Len(s) /\ Blocks(s, t) => Delayed(t, Turn(s, t))
         /\ t.i <= Len(s) /\ ~Blocks(s, t) => Advanced(s, t, Turn(s, t))
<1>1. t.i \in Nat /\ Len(s) \in Nat
  BY DEF Local, Locals
<1>2. CASE t.i > Len(s)
  BY <1>1, <1>2 DEF Turn
<1>3. CASE t.i <= Len(s)
  <2>1. Turn(s, t) = TimingStep(s, DivLatency, EnableDualIssue, t)
    BY <1>1, <1>3 DEF Turn
  <2>2. CASE DivBlocks(t, s[t.i])
    <3>1. Turn(s, t) = WaitFor(t, "divider")
      BY <2>1, <2>2 DEF TimingStep
    <3> QED
      BY <1>1, <1>3, <2>2, <3>1, WaitIs DEF Blocks
  <2>3. CASE ~DivBlocks(t, s[t.i]) /\ LoadBlocks(t, s[t.i])
    <3>1. Turn(s, t) = WaitFor(t, "loadUse")
      BY <2>1, <2>3 DEF TimingStep
    <3> QED
      BY <1>1, <1>3, <2>3, <3>1, WaitIs DEF Blocks
  <2>4. CASE ~DivBlocks(t, s[t.i]) /\ ~LoadBlocks(t, s[t.i])
    <3>1. Turn(s, t) = IssueAt(s, DivLatency, EnableDualIssue, t)
      BY <2>1, <2>4 DEF TimingStep
    <3> QED
      BY <1>1, <1>3, <2>4, <3>1, IssueIs DEF Blocks
  <2> QED
    BY <2>2, <2>3, <2>4
<1> QED
  BY <1>1, <1>2, <1>3

-----------------------------------------------------------------------------
(* The timing model beside the core. *)

\* How many cycles the model is ahead of the counter of the core, and two: one
\* where an instruction is looked at, three behind a redirect the model has
\* charged at once; behind the trap the core drains and the model has ended.
Lead ==
  CASE halted                                            -> 0
    [] ~halted /\ Excepting(wb0)                         -> 1
    [] ~halted /\ ~Excepting(wb0) /\ Excepting(mem0)     -> 2
    [] ~Trapping /\ RedirectValid                        -> 5
    [] ~Trapping /\ ~RedirectValid /\ buf0.v             -> 3
    [] OTHER                                             -> 4

LoadInEx == ex0.valid /\ IsLoad(ex0.ins)

\* An instruction that could issue waits in this cycle.
Waiting == ~Issue0 /\ buf0.v /\ ~Ended /\ ~RedirectValid

\* The cycles that what is in EX may still make the next instruction wait.
Owed == CASE DivInEx -> (DivLatency + 2) - Worked [] LoadInEx -> 1 [] OTHER -> 0

\* The tags of the model are about what is in EX, or past.
Tags(t) ==
  /\ IF DivInEx THEN t.divRelease + Worked = t.cycle + DivLatency + 1 /\ t.divRd = ex0.ins.rd
                ELSE t.divRelease < t.cycle
  /\ IF LoadInEx THEN t.loadAt + 1 = t.cycle /\ t.loadRd = ex0.ins.rd
                 ELSE t.loadAt + 1 < t.cycle

\* After m turns the locals of the model are t, which is as far as the core is.
Abreast(t, m) ==
  /\ t.i = Len(Sent) + 1
  /\ t.cycle + 2 = perf.cycles + Lead
  /\ t.dual = perf.dual /\ t.single = perf.single
  /\ t.branches = perf.branches + One(CountsBranch)
  /\ t.mispredicts = perf.mispredicts + One(RedirectValid)
  /\ ~Ended => Tags(t)
  /\ m + Owed <= Len(Sent) * (DivLatency + 5)

\* What is looked at next is the next member of the stream.
LEMMA NextMember ==
  ASSUME Watched, NEW s, Future(s), buf0.v, ~RedirectValid, ~Ended
  PROVE  Len(Sent) < Len(s) /\ s[Len(Sent) + 1] = Committed(buf0)
<1>0. PICK n : n = Len(Sent)
  OBVIOUS
<1>1. /\ s \in Seq(Entry) /\ n <= Len(s) /\ Len(s) # n /\ n \in Nat
      /\ Len(s) > n => s[n + 1].pc = Onward
      /\ \A k \in 1 .. Len(s) : s[k].ins = Fetch(s[k].pc)
  BY <1>0, SentType DEF Future
<1>2. Len(s) \in Nat /\ n < Len(s) /\ n + 1 \in 1 .. Len(s)
  BY <1>1
<1>3. Onward = buf0.pc /\ buf0.ins = Fetch(buf0.pc)
  BY SlotEntries DEF Onward, FrontPc
<1>4. s[n + 1] \in Entry /\ s[n + 1].pc = buf0.pc /\ s[n + 1].ins = buf0.ins
  BY <1>1, <1>2, <1>3
<1> QED
  BY <1>0, <1>2, <1>4 DEF Entry, Committed

\* Where nothing issues, nothing that traps, redirects or counts as a transfer of
\* control is in EX next, and nothing is owed but for a divide that goes on.
LEMMA StaysQuiet ==
  ASSUME Watched, TypeOK', Clock, ~Issue0
  PROVE  /\ ~RedirectValid' /\ ~CountsBranch' /\ ~LoadInEx'
         /\ DivInEx' <=> ExStall
<1>1. CASE ExStall
  <2>1. DivInEx'
    BY <1>1, ExMoves DEF ExStall, DivInEx
  <2> QED
    BY <1>1, <2>1, QuietNext DEF CountsBranch, LoadInEx, DivInEx, IsDiv, IsLoad
<1>2. CASE ~ExStall
  <2>1. ~ex0'.valid
    BY <1>2, ExMoves
  <2> QED
    BY <1>2, <2>1, QuietNext DEF CountsBranch, LoadInEx, DivInEx
<1> QED
  BY <1>1, <1>2

LEMMA LeadMoves ==
  ASSUME Watched, Watched', Clock, StreamStep
  PROVE  /\ Lead \in Nat
         /\ halted => Lead' = 0 /\ Lead = 0
         /\ ~halted /\ ~Issue0 => Lead = Lead' + One(~Waiting)
         /\ Issue0 => Lead = 3 /\ Lead' = IF RedirectValid' THEN 5 ELSE 3
<1>1. /\ TypeOK /\ TypeOK' /\ ProgramOrder /\ PreciseTrap /\ EmptyTogether
  BY DEF Watched, ControlInv, TypeInv
<1>2. /\ buf0.v \in BOOLEAN /\ halted \in BOOLEAN
  BY <1>1 DEF TypeOK, Slot
<1>3. CASE halted
  <2>1. halted'
    BY <1>1, <1>3, TrapMoves
  <2> QED
    BY <1>3, <2>1, IssueFacts DEF Lead, Trapping
<1>4. CASE ~halted /\ Excepting(wb0)
  <2>1. halted' /\ ~Issue0
    BY <1>4, IssueFacts DEF Clock, TrapStep, Excepting
  <2>2. Lead = 1 /\ Lead' = 0 /\ ~Waiting
    BY <1>4, <2>1 DEF Lead, Waiting, Ended, Trapping
  <2> QED
    BY <1>4, <2>1, <2>2 DEF One
<1>5. CASE ~halted /\ ~Excepting(wb0) /\ Excepting(mem0)
  <2>1. ~halted' /\ ~Issue0
    BY <1>5, <1>2, IssueFacts DEF Clock, TrapStep, Excepting
  <2>2. Excepting(wb0)'
    BY <1>5, WbMoves DEF Excepting
  <2>3. Lead = 2 /\ Lead' = 1 /\ ~Waiting
    BY <1>5, <2>1, <2>2 DEF Lead, Waiting, Ended, Trapping
  <2> QED
    BY <1>5, <2>1, <2>3 DEF One
<1>6. CASE ~Trapping /\ Ex0Exc # "none"
  <2>1. ex0.valid /\ ~ExStall /\ ~RedirectValid /\ ~Issue0
    BY <1>1, <1>6, ExceptionNeedsValid, DivideIsQuiet, IssueFacts DEF ExStall, RedirectValid
  <2>2. buf0.v
    BY <1>1, <2>1 DEF EmptyTogether, EmptyEx
  <2>3. ~halted' /\ ~Excepting(wb0)'
    BY <1>2, <1>6, WbMoves DEF Clock, TrapStep, Excepting, Trapping
  <2>4. Excepting(mem0)'
    BY <1>6, <2>1, MemMoves DEF Excepting
  <2>5. Lead = 3 /\ Lead' = 2 /\ ~Waiting
    BY <1>6, <2>1, <2>2, <2>3, <2>4 DEF Lead, Waiting, Ended, Trapping
  <2> QED
    BY <1>6, <2>1, <2>5 DEF One, Trapping
<1>7. CASE ~Ended
  <2>1. ~Trapping /\ ~Trapping' /\ ~halted /\ ~halted'
    BY <1>7, TrapsStop DEF Ended, Trapping
  <2>2. Lead = IF RedirectValid THEN 5 ELSE IF buf0.v THEN 3 ELSE 4
    BY <2>1 DEF Lead, Trapping
  <2>3. Lead' = IF RedirectValid' THEN 5 ELSE IF buf0'.v THEN 3 ELSE 4
    BY <2>1 DEF Lead, Trapping
  <2>4. /\ RedirectValid => ~buf0'.v
        /\ ~RedirectValid => buf0'.v
    BY <1>1, <2>1, BufferMoves
  <2>5. CASE Issue0
    <3>1. buf0.v /\ ~RedirectValid
      BY <2>5, IssueFacts
    <3> QED
      BY <2>1, <2>2, <2>3, <2>4, <2>5, <3>1
  <2>6. CASE ~Issue0
    <3>1. ~RedirectValid'
      BY <1>1, <2>6, StaysQuiet
    <3> QED
      BY <1>7, <2>1, <2>2, <2>3, <2>4, <2>6, <3>1 DEF Waiting, One
  <2> QED
    BY <2>2, <2>5, <2>6
<1> QED
  BY <1>2, <1>3, <1>4, <1>5, <1>6, <1>7 DEF Ended, Trapping

\* A divide that still holds EX has not worked all its cycles.
LEMMA WorkBound ==
  ASSUME ControlInv, ExStall
  PROVE  Worked < DivLatency + 1
<1>1. div \in DivState /\ DivLatency \in Nat \ {0}
  BY DivAssumption DEF ControlInv, TypeInv, TypeOK
<1>2. div.cycle \in 0 .. DivLatency - 1 /\ DivInEx /\ ~div.done
  BY <1>1 DEF DivState, ExStall
<1> QED
  BY <1>1, <1>2 DEF Worked

\* The model waits where the core waits.
LEMMA WaitsAlike ==
  ASSUME Watched, Clock, NEW s, Future(s), ~ReservedJalrWaits(s),
         NEW t \in Local, NEW m, Abreast(t, m), buf0.v, ~Ended, ~RedirectValid
  PROVE  Blocks(s, t) <=> ~Issue0
<1>1. /\ t.i = Len(Sent) + 1 /\ Tags(t) /\ s[Len(Sent) + 1] = Committed(buf0)
  BY NextMember DEF Abreast
<1>2. s[t.i].ins = buf0.ins
  BY <1>1 DEF Committed
<1>3. /\ t.cycle \in Nat /\ t.divRelease \in Nat /\ t.loadAt \in Nat
      /\ DivLatency \in Nat
  BY DivAssumption DEF Local, Locals
<1>4. /\ Worked \in Nat
      /\ ExStall => Worked < DivLatency + 1
      /\ ~ExStall /\ DivInEx => Worked = DivLatency + 1
  BY WorkGoesOn, WorkBound DEF Watched
<1>5. Issue0 <=> ~ExStall /\ ~WaitsForEx(buf0)
  BY IssueFacts DEF Issue0, IssueSlot0, Stall0, StallAll, SerializingInflight, Ended, Trapping, Excepting
<1>a. ASSUME LoadInEx \/ DivInEx
      PROVE  DependsOn(s[t.i], ex0.ins.rd) <=> ex0.ins.rd # 0 /\ Reads(buf0.ins, ex0.ins.rd)
  <2>1. ex0.valid /\ ex0.ins.cls \in {"load", "div"}
    BY <1>a DEF LoadInEx, DivInEx, IsLoad, IsDiv
  <2>2. ~ex1.valid
    BY <2>1 DEF Watched, ControlInv, Lane1Discipline, Special
  <2> DEFINE n == Len(Sent)
  <2>3. n \in Nat /\ n > 0 /\ Sent[n] = Committed(ex0) /\ n < Len(s)
        /\ Len(s) \in Nat /\ s[n] = Sent[n]
    BY <2>1, <2>2, LastSent, SentType, NextMember DEF Future
  <2> HIDE DEF n
  <2>4. n \in 1 .. Len(s) - 1 /\ s[n].ins = ex0.ins /\ s[n + 1].ins = buf0.ins
    BY <1>1, <1>2, <2>3 DEF n, Committed
  <2>5. ex0.ins.rd # 0 => ~(ReservedJalr(buf0.ins) /\ buf0.ins.rs1 = ex0.ins.rd)
    BY <2>1, <2>4 DEF ReservedJalrWaits
  <2> QED
    BY <1>2, <2>5, DependsIs
<1>6. CASE ExStall
  <2>1. t.cycle < t.divRelease
    BY <1>1, <1>3, <1>4, <1>6 DEF Tags, ExStall
  <2> QED
    BY <1>5, <1>6, <2>1 DEF Blocks, DivBlocks
<1>7. CASE ~ExStall /\ DivInEx
  <2>1. t.cycle = t.divRelease /\ t.divRd = ex0.ins.rd /\ ~LoadInEx /\ t.loadAt + 1 < t.cycle
    BY <1>1, <1>3, <1>4, <1>7 DEF Tags, LoadInEx, DivInEx, IsLoad, IsDiv
  <2>2. Blocks(s, t) <=> ex0.ins.rd # 0 /\ Reads(buf0.ins, ex0.ins.rd)
    BY <1>3, <1>7, <1>a, <2>1 DEF Blocks, DivBlocks, LoadBlocks
  <2> QED
    BY <1>5, <1>7, <2>2 DEF WaitsForEx, DivInEx, IsDiv, RdWrite
<1>8. CASE ~DivInEx /\ LoadInEx
  <2>1. t.divRelease < t.cycle /\ t.loadAt + 1 = t.cycle /\ t.loadRd = ex0.ins.rd /\ ~ExStall
    BY <1>1, <1>8 DEF Tags, ExStall
  <2>2. Blocks(s, t) <=> ex0.ins.rd # 0 /\ Reads(buf0.ins, ex0.ins.rd)
    BY <1>3, <1>8, <1>a, <2>1 DEF Blocks, DivBlocks, LoadBlocks
  <2> QED
    BY <1>5, <1>8, <2>1, <2>2 DEF WaitsForEx, LoadInEx, IsLoad, RdWrite
<1>9. CASE ~DivInEx /\ ~LoadInEx
  <2>1. t.divRelease < t.cycle /\ t.loadAt + 1 < t.cycle /\ ~ExStall
    BY <1>1, <1>9 DEF Tags, ExStall
  <2>2. ~Blocks(s, t)
    BY <1>3, <2>1 DEF Blocks, DivBlocks, LoadBlocks
  <2> QED
    BY <1>5, <1>9, <2>1, <2>2 DEF WaitsForEx, LoadInEx, DivInEx
<1> QED
  BY <1>6, <1>7, <1>8, <1>9

\* It pairs what the core pairs.
LEMMA PairsAsIssued ==
  ASSUME Watched, Watched', Clock, StreamStep, Issue0, NEW s, Future(s)',
         EnableDualIssue => ~SlotOneWaits(s)
  PROVE  PairsAt(s, Len(Sent) + 1) <=> Issue1
<1>0. PICK n : n = Len(Sent)
  OBVIOUS
<1>1. /\ Future(s) /\ Len(s) > n /\ s[n + 1] = Committed(buf0)
      /\ ~Special(buf0.ins) => Len(s) > n + 1 /\ s[n + 2] = Committed(buf1)
  BY <1>0, FutureKept
<1>2. /\ s \in Seq(Entry) /\ n \in Nat /\ Len(s) \in Nat /\ \A k \in 1 .. n : s[k] = Sent[k]
      /\ TypeOK /\ ProgramOrder /\ Lane1Discipline
  BY <1>0, <1>1, SentType DEF Future, Watched, ControlInv, TypeInv
<1>3. /\ buf0.v /\ buf1.v /\ buf1.pc = AddW(buf0.pc, 4) /\ ~StallAll /\ ~WaitsForEx(buf0)
  BY <1>2, IssueFacts DEF ProgramOrder, Issue0, IssueSlot0, Stall0
<1>4. s[n + 1].ins = buf0.ins /\ s[n + 1].pc = buf0.pc
  BY <1>1 DEF Committed
<1>5. CASE Special(buf0.ins)
  <2>1. ~Issue1
    BY <1>2, <1>5, PairFacts
  <2>2. ~PairsAt(s, n + 1)
    BY <1>4, <1>5, ReasonIs DEF PairsAt
  <2> QED
    BY <1>0, <2>1, <2>2
<1>6. CASE ~Special(buf0.ins)
  <2>1. n + 1 # Len(s) /\ n + 1 + 1 = n + 2 /\ s[n + 2].ins = buf1.ins /\ s[n + 2].pc = buf1.pc
    BY <1>1, <1>2, <1>6 DEF Committed
  <2>2. EnableDualIssue => ~WaitsForEx(buf1)
    <3> SUFFICES ASSUME EnableDualIssue, WaitsForEx(buf1) PROVE FALSE
      OBVIOUS
    <3>1. /\ ex0.valid /\ ex0.ins.rd # 0 /\ Reads(buf1.ins, ex0.ins.rd)
          /\ ex0.ins.cls \in {"load", "div"}
      BY DEF WaitsForEx, IsLoad, IsDiv
    <3>2. ~Reads(buf0.ins, ex0.ins.rd)
      BY <1>3, <3>1 DEF WaitsForEx, IsLoad, IsDiv, RdWrite
    <3>3. ~ex1.valid
      BY <1>2, <3>1 DEF Lane1Discipline, Special
    <3>4. n > 0 /\ Sent[n] = Committed(ex0)
      BY <1>0, <3>3, <3>1, LastSent
    <3>5. s[n].ins = ex0.ins /\ n \in 1 .. Len(s) - 2
      BY <1>1, <1>2, <1>6, <3>4 DEF Committed
    <3> QED
      BY <1>4, <2>1, <3>1, <3>2, <3>5 DEF SlotOneWaits
  <2>3. PairReason(s[n + 1], s[n + 2]) = "pair"
          <=> ~PairRaw(buf0, buf1) /\ ~PairWaw(buf0, buf1) /\ ~PairStructural(buf0, buf1)
    <3>1. PairReason(s[n + 1], s[n + 2]) = "pair" <=>
            /\ RdWrite(buf0.ins) /\ buf0.ins.rd # 0 =>
                 ~Reads(buf1.ins, buf0.ins.rd) /\ ~(RdWrite(buf1.ins) /\ buf1.ins.rd = buf0.ins.rd)
            /\ ~Special(buf0.ins) /\ ~Special(buf1.ins)
      BY <1>3, <1>4, <2>1, ReasonIs
    <3> QED
      BY <1>3, <3>1 DEF PairRaw, PairWaw, PairStructural
  <2>4. PairsAt(s, n + 1) <=> EnableDualIssue /\ PairReason(s[n + 1], s[n + 2]) = "pair"
    BY <2>1 DEF PairsAt
  <2>5. Issue1 <=> /\ EnableDualIssue
                   /\ ~PairRaw(buf0, buf1) /\ ~PairWaw(buf0, buf1) /\ ~PairStructural(buf0, buf1)
    BY <1>3, <2>2 DEF Issue0, Issue1, IssueSlot1, Stall1
  <2> QED
    BY <1>0, <2>3, <2>4, <2>5
<1> QED
  BY <1>5, <1>6

\* It charges a redirect, and counts a transfer of control, for the instructions
\* for which the core will when they are in EX.
LEMMA RedirectsAlike ==
  ASSUME Watched, Watched', Clock, StreamStep, Issue0, NEW s, Future(s)', ~BranchesToNext(s)
  PROVE  /\ Redirects(s, Len(Sent) + 1) <=> RedirectValid'
         /\ LeadsOn(s, Len(Sent) + 1) <=> CountsBranch'
<1>0. PICK n : n = Len(Sent)
  OBVIOUS
<1>1. /\ Future(s) /\ Len(s) > n /\ s[n + 1] = Committed(buf0)
  BY <1>0, FutureKept
<1>2. /\ s \in Seq(Entry) /\ n \in Nat /\ Len(s) \in Nat /\ n + 1 \in 1 .. Len(s)
      /\ TypeOK /\ TypeOK'
  BY <1>0, <1>1, SentType DEF Future, Watched, ControlInv, TypeInv
<1>3. s[n + 1].ins = buf0.ins /\ s[n + 1].pc = buf0.pc
  BY <1>1 DEF Committed
<1>4. ex0'.valid /\ ex0'.ins = buf0.ins /\ ex0'.pc = buf0.pc /\ (ex1'.valid <=> Issue1)
  BY IssueFacts, ExMoves
<1>5. CASE buf0.ins.cls \notin {"branch", "jal", "jalr"}
  <2>1. ~Redirects(s, n + 1) /\ ~LeadsOn(s, n + 1)
    BY <1>3, <1>5 DEF Redirects, LeadsOn, IsJump
  <2>2. ~RedirectValid' /\ ~CountsBranch'
    BY <1>4, <1>5 DEF RedirectValid, ControlTaken, CountsBranch, IsJump
  <2> QED
    BY <1>0, <2>1, <2>2
<1>6. CASE buf0.ins.cls \in {"branch", "jal", "jalr"}
  <2>1. ~Issue1 /\ ~ex1'.valid
    BY <1>2, <1>4, <1>6, PairFacts DEF Special
  <2>2. Len(Sent)' = n + 1
    <3>1. Sent' = Append(Sent, Committed(buf0))
      BY <2>1, SentGrows
    <3>2. Committed(buf0) \in Entry
      BY SlotEntries, IssueFacts
    <3> QED
      BY <1>0, <3>1, <3>2, SentType, Grows
  <2>3. ~ExStall' /\ ~Trapping'
    <3>1. ~Ended
      BY IssueFacts DEF Ended, Trapping
    <3>2. ~Trapping'
      BY <3>1, TrapsStop DEF Ended
    <3> QED
      BY <1>4, <1>6, <3>2 DEF ExStall, DivInEx, IsDiv
  <2>4. n + 1 # Len(s) <=> Ex0Exc' = "none"
    BY <1>2, <2>2, <2>3 DEF Future, Ended
  <2>5. LeadsOn(s, n + 1) <=> CountsBranch'
    BY <1>3, <1>4, <1>6, <2>3, <2>4 DEF LeadsOn, CountsBranch
  <2>6. n + 1 # Len(s) => n + 2 \in 1 .. Len(s) /\ s[n + 2].pc = Onward'
    <3>1. Len(s) > Len(Sent)' => s[Len(Sent)' + 1].pc = Onward'
      BY DEF Future
    <3> QED
      BY <1>2, <2>2, <3>1
  <2>7. CASE n + 1 = Len(s)
    <3>1. ~RedirectValid'
      BY <2>4, <2>7 DEF RedirectValid
    <3>2. ~Redirects(s, n + 1)
      BY <1>2, <2>7 DEF Redirects
    <3> QED
      BY <1>0, <2>5, <3>1, <3>2
  <2>8. CASE n + 1 # Len(s) /\ IsJump(buf0.ins)
    <3>1. RedirectValid'
      BY <1>4, <2>3, <2>4, <2>8 DEF RedirectValid, ControlTaken, IsJump
    <3>2. Redirects(s, n + 1)
      BY <1>2, <1>3, <2>8 DEF Redirects
    <3> QED
      BY <1>0, <2>5, <3>1, <3>2
  <2>9. CASE n + 1 # Len(s) /\ buf0.ins.cls = "branch"
    <3>1. Redirects(s, n + 1) <=> s[n + 2].pc # AddW(buf0.pc, 4)
      <4>1. n + 1 + 1 = n + 2 /\ n + 1 < Len(s)
        BY <1>2, <2>9
      <4> QED
        BY <1>3, <2>9, <4>1 DEF Redirects, IsJump
    <3>2. CASE RedirectValid'
      <4>1. Onward' = AddW(buf0.pc, buf0.ins.imm)
        BY <1>4, <2>9, <3>2 DEF Onward, ControlTarget
      <4>2. buf0.ins.imm # 4
        BY <1>2, <1>3, <2>9 DEF BranchesToNext
      <4>3. buf0.pc \in Word /\ buf0.ins.imm \in Word /\ 4 \in Word
        <5>1. buf0.pc \in Word /\ buf0.ins \in Instr
          BY <1>2 DEF TypeOK, Slot
        <5>2. buf0.ins.imm \in Word
          BY <5>1 DEF Instr
        <5>3. 4 \in Word
          BY WordAssumption DEF Word
        <5> QED
          BY <5>1, <5>2, <5>3
      <4> QED
        BY <1>0, <2>5, <2>6, <2>9, <3>1, <3>2, <4>1, <4>2, <4>3, TargetApart
    <3>3. CASE ~RedirectValid'
      <4>1. Onward' = FrontPc'
        BY <3>3 DEF Onward
      <4>2. FrontPc' = AddW(buf0.pc, 4)
        BY <1>4, <2>1 DEF Watched, Straight
      <4> QED
        BY <1>0, <2>5, <2>6, <2>9, <3>1, <3>3, <4>1, <4>2
    <3> QED
      BY <3>2, <3>3
  <2> QED
    BY <1>6, <2>7, <2>8, <2>9 DEF IsJump
<1> QED
  BY <1>5, <1>6

\* What is still owed shrinks by every cycle waited.
LEMMA OwedMoves ==
  ASSUME Watched, Watched', Clock, StreamStep
  PROVE  /\ Owed \in Nat /\ Owed' \in Nat
         /\ ~Issue0 => Owed' + One(Waiting) <= Owed
         /\ Issue0 => Owed' <= DivLatency + 2
<1>1. /\ ControlInv /\ ControlInv' /\ TypeOK' /\ DivLatency \in Nat
      /\ Worked \in Nat
      /\ ExStall => Worked' = Worked + 1 /\ Worked < DivLatency + 1 /\ DivInEx
      /\ ~ExStall /\ DivInEx => Worked = DivLatency + 1
      /\ ~ExStall => Worked' = 0
  BY WorkGoesOn, WorkBound, DivAssumption DEF Watched, ControlInv, TypeInv, ExStall
<1>2. /\ DivInEx => Owed = (DivLatency + 2) - Worked
      /\ DivInEx => ~LoadInEx
      /\ ~DivInEx /\ LoadInEx => Owed = 1
      /\ ~DivInEx /\ ~LoadInEx => Owed = 0
  BY DEF Owed, DivInEx, LoadInEx, IsDiv, IsLoad
<1>3. /\ DivInEx' => Owed' = (DivLatency + 2) - Worked'
      /\ ~DivInEx' /\ LoadInEx' => Owed' = 1
      /\ ~DivInEx' /\ ~LoadInEx' => Owed' = 0
  BY DEF Owed, DivInEx, LoadInEx, IsDiv, IsLoad
<1>4. Owed \in Nat
  <2>1. DivInEx => Worked <= DivLatency + 1
    BY <1>1
  <2> QED
    BY <1>1, <1>2, <2>1
<1>5. CASE ExStall
  <2>1. ~Issue0
    BY <1>5, IssueFacts
  <2>2. DivInEx'
    BY <1>1, <1>5, <2>1, StaysQuiet
  <2> QED
    BY <1>1, <1>2, <1>3, <1>4, <1>5, <2>1, <2>2 DEF One
<1>6. CASE ~ExStall /\ ~Issue0
  <2>1. Owed' = 0
    BY <1>1, <1>3, <1>6, StaysQuiet
  <2>2. Waiting => DivInEx \/ LoadInEx
    <3> SUFFICES ASSUME Waiting PROVE DivInEx \/ LoadInEx
      OBVIOUS
    <3>1. WaitsForEx(buf0)
      BY <1>6 DEF Waiting, Issue0, IssueSlot0, Stall0, StallAll, SerializingInflight, Ended,
                  Trapping, Excepting
    <3> QED
      BY <3>1 DEF WaitsForEx, DivInEx, LoadInEx
  <2>3. Waiting => Owed >= 1
    BY <1>1, <1>2, <1>6, <2>2
  <2> QED
    BY <1>4, <1>6, <2>1, <2>3 DEF One
<1>7. CASE Issue0
  <2>1. ~ExStall
    BY <1>7, IssueFacts
  <2> QED
    BY <1>1, <1>3, <1>4, <1>7, <2>1
<1> QED
  BY <1>5, <1>6, <1>7

\* The tags stay right over a cycle in which the model does nothing or waits.
LEMMA TagsKept ==
  ASSUME Watched, Watched', Clock, StreamStep, ~Issue0, NEW t \in Local, Tags(t)
  PROVE  /\ ~Ended /\ ~Waiting => Tags(t)'
         /\ \A u \in Local : Waiting /\ Delayed(t, u) => Tags(u)'
<1>1. /\ ControlInv /\ TypeOK' /\ DivLatency \in Nat
      /\ Worked \in Nat
      /\ ExStall => Worked' = Worked + 1 /\ DivInEx
      /\ ~ExStall /\ DivInEx => Worked = DivLatency + 1
  BY WorkGoesOn, DivAssumption DEF Watched, ControlInv, TypeInv, ExStall
<1>2. /\ ~LoadInEx' /\ (DivInEx' <=> ExStall)
  BY <1>1, StaysQuiet
<1>3. /\ t.cycle \in Nat /\ t.divRelease \in Nat /\ t.divRd \in Nat /\ t.loadAt \in Nat
  BY DEF Local, Locals
<1>4. ASSUME ~Ended, ~Waiting
      PROVE  Tags(t)'
  <2>1. ~DivInEx /\ ~LoadInEx
    <3>1. CASE RedirectValid
      BY <3>1 DEF RedirectValid, ControlTaken, DivInEx, LoadInEx, IsDiv, IsLoad, IsJump
    <3>2. CASE ~buf0.v
      BY <3>2 DEF Watched, EmptyTogether, EmptyEx, DivInEx, LoadInEx
    <3> QED
      BY <1>4, <3>1, <3>2 DEF Waiting
  <2>2. ~DivInEx'
    BY <1>1, <1>2, <2>1
  <2> QED
    BY <1>2, <2>1, <2>2 DEF Tags
<1>5. ASSUME NEW u \in Local, Waiting, Delayed(t, u)
      PROVE  Tags(u)'
  <2>1. u.cycle = t.cycle + 1 /\ u.divRelease = t.divRelease /\ u.divRd = t.divRd
        /\ u.loadAt = t.loadAt
    BY <1>5 DEF Delayed, Locals
  <2>2. u.loadAt + 1 < u.cycle
    BY <1>3, <2>1 DEF Tags
  <2>3. CASE ExStall
    <3>1. ex0' = ex0
      BY <2>3, ExMoves
    <3>2. t.divRelease + Worked = t.cycle + DivLatency + 1 /\ t.divRd = ex0.ins.rd
      BY <1>1, <2>3 DEF Tags
    <3>3. u.divRelease + Worked' = u.cycle + DivLatency + 1 /\ u.divRd = ex0'.ins.rd
      BY <1>1, <1>3, <2>1, <2>3, <3>1, <3>2
    <3> QED
      BY <1>2, <2>2, <2>3, <3>3 DEF Tags
  <2>4. CASE ~ExStall
    <3>1. u.divRelease < u.cycle
      <4>1. CASE DivInEx
        BY <1>1, <1>3, <2>1, <2>4, <4>1 DEF Tags
      <4>2. CASE ~DivInEx
        BY <1>3, <2>1, <4>2 DEF Tags
      <4> QED
        BY <4>1, <4>2
    <3> QED
      BY <1>2, <2>2, <2>4, <3>1 DEF Tags
  <2> QED
    BY <2>3, <2>4
<1> QED
  BY <1>4, <1>5

\* An instruction that issues leaves its own.
LEMMA TagsSet ==
  ASSUME Watched, Watched', Clock, StreamStep, Issue0, NEW t \in Local, Tags(t),
         NEW s, s[t.i] = Committed(buf0), Redirects(s, t.i) <=> RedirectValid',
         NEW u \in Local, Advanced(s, t, u)
  PROVE  Tags(u)'
<1>1. /\ ControlInv /\ TypeOK' /\ DivLatency \in Nat /\ ~ExStall
      /\ DivInEx => Worked = DivLatency + 1
      /\ Worked' = 0
  BY WorkGoesOn, IssueFacts, DivAssumption DEF Watched, ControlInv, TypeInv
<1>2. /\ t.cycle \in Nat /\ t.divRelease \in Nat /\ t.divRd \in Nat /\ t.loadAt \in Nat
  BY DEF Local, Locals
<1>3. ex0'.valid /\ ex0'.ins = buf0.ins /\ s[t.i].ins = buf0.ins
  BY <1>1, ExMoves DEF Committed
<1>4. /\ DivInEx' <=> IsDiv(buf0.ins)
      /\ LoadInEx' <=> IsLoad(buf0.ins)
  BY <1>3 DEF DivInEx, LoadInEx, IsDiv, IsLoad
<1>5. /\ t.divRelease <= t.cycle
      /\ t.loadAt + 1 <= t.cycle
  <2>1. CASE DivInEx
    BY <1>1, <1>2, <2>1 DEF Tags
  <2>2. CASE ~DivInEx
    BY <1>2, <2>2 DEF Tags
  <2>3. t.loadAt + 1 <= t.cycle
    BY <1>2 DEF Tags
  <2> QED
    BY <2>1, <2>2, <2>3
<1>6. u.cycle = t.cycle + (IF RedirectValid' THEN 3 ELSE 1)
  BY DEF Advanced
<1>7. /\ u.cycle > t.cycle
      /\ IsDiv(buf0.ins) \/ IsLoad(buf0.ins) => u.cycle = t.cycle + 1
  <2>1. IsDiv(buf0.ins) \/ IsLoad(buf0.ins) => ~RedirectValid'
    BY <1>3 DEF RedirectValid, ControlTaken, IsDiv, IsLoad, IsJump
  <2> QED
    BY <1>2, <1>6, <2>1
<1>8. /\ IF IsLoad(buf0.ins) THEN u.loadAt = t.cycle /\ u.loadRd = buf0.ins.rd
                             ELSE u.loadAt = t.loadAt
      /\ IF IsDiv(buf0.ins) THEN u.divRelease = t.cycle + DivLatency + 2 /\ u.divRd = buf0.ins.rd
                            ELSE u.divRelease = t.divRelease
  BY <1>3 DEF Advanced
<1>9. IF DivInEx' THEN u.divRelease + Worked' = u.cycle + DivLatency + 1 /\ u.divRd = ex0'.ins.rd
                  ELSE u.divRelease < u.cycle
  <2>1. u.cycle \in Nat
    BY DEF Local, Locals
  <2>2. CASE IsDiv(buf0.ins)
    BY <1>1, <1>2, <1>3, <1>4, <1>7, <1>8, <2>2
  <2>3. CASE ~IsDiv(buf0.ins)
    BY <1>2, <1>4, <1>5, <1>7, <1>8, <2>1, <2>3
  <2> QED
    BY <2>2, <2>3
<1>10. IF LoadInEx' THEN u.loadAt + 1 = u.cycle /\ u.loadRd = ex0'.ins.rd
                    ELSE u.loadAt + 1 < u.cycle
  <2>1. u.cycle \in Nat
    BY DEF Local, Locals
  <2> QED
    BY <1>2, <1>3, <1>4, <1>5, <1>7, <1>8, <2>1
<1> QED
  BY <1>9, <1>10 DEF Tags

LEMMA LeadType == Lead \in Nat /\ Lead' \in Nat
BY DEF Lead

LEMMA OneMore ==
  ASSUME NEW n \in Nat, NEW p \in Nat
  PROVE  n * p \in Nat /\ (n + 1) * p = n * p + p /\ (n + 2) * p = n * p + p + p
OBVIOUS

LEMMA Spare ==
  ASSUME NEW m \in Nat, NEW a \in Nat, NEW b \in Nat, NEW r \in Nat, m + a <= r
  PROVE  /\ b <= a => m + b <= r
         /\ b + 1 <= a => m + 1 + b <= r
OBVIOUS

\* The clock counts what is in EX.
LEMMA BranchSteps ==
  ASSUME Watched, PerfTypes, PerfStep
  PROVE  /\ perf'.branches = perf.branches + One(CountsBranch)
         /\ perf'.mispredicts = perf.mispredicts + One(RedirectValid)
         /\ perf'.dual = perf.dual + One(Issue0 /\ Issue1)
         /\ perf'.single = perf.single + One(Issue0 /\ ~Issue1)
         /\ ~halted => perf'.cycles = perf.cycles + 1
         /\ halted => perf'.cycles = perf.cycles
         /\ \A k \in Counters : perf[k] \in Nat
<1>1. \A k \in Counters : perf[k] \in Nat
  BY DEF PerfTypes
<1>2. CASE halted
  <2>1. ~ex0.valid /\ ~Issue0
    BY <1>2, IssueFacts DEF Watched, ControlInv, PreciseTrap, EmptyEx
  <2>2. ~CountsBranch /\ ~RedirectValid
    BY <2>1 DEF CountsBranch, RedirectValid, ControlTaken
  <2> QED
    BY <1>1, <1>2, <2>1, <2>2, PerfSteps DEF One, Counters
<1>3. CASE ~halted
  <2>1. perf'.branches = perf.branches + One(CountsBranch)
    BY <1>3 DEF PerfStep
  <2>2. perf'.mispredicts = perf.mispredicts + One(RedirectValid)
    BY <1>3, PerfSteps, MispredictIsRedirect DEF One
  <2> QED
    BY <1>1, <1>3, <2>1, <2>2, PerfSteps
<1> QED
  BY <1>2, <1>3

\* Nothing issues: the core goes on without the model, or both wait.
LEMMA AbreastIdle ==
  ASSUME Watched, Watched', PerfTypes, Clock, PerfStep, StreamStep, ~Issue0,
         NEW t \in Local, NEW m \in Nat, Abreast(t, m)
  PROVE  /\ ~Waiting => Abreast(t, m)'
         /\ \A u \in Local : Waiting /\ Delayed(t, u) => Abreast(u, m + 1)'
<1>1. /\ Sent' = Sent /\ (Ended' <=> Ended)
      /\ ~RedirectValid' /\ ~CountsBranch'
  BY SentGrows, EndsOnce, StaysQuiet DEF Watched, ControlInv, TypeInv
<1>2. /\ perf'.branches = perf.branches + One(CountsBranch)
      /\ perf'.mispredicts = perf.mispredicts + One(RedirectValid)
      /\ perf'.dual = perf.dual /\ perf'.single = perf.single
      /\ perf'.dual \in Nat /\ perf'.single \in Nat
      /\ perf'.branches \in Nat /\ perf'.mispredicts \in Nat
      /\ perf.cycles \in Nat /\ Len(Sent) \in Nat
  <2>1. /\ perf.cycles \in Nat /\ perf.dual \in Nat /\ perf.single \in Nat
        /\ perf.branches \in Nat /\ perf.mispredicts \in Nat
    BY BranchSteps DEF Counters
  <2>2. /\ One(Issue0 /\ Issue1) = 0 /\ One(Issue0 /\ ~Issue1) = 0
        /\ One(CountsBranch) \in Nat /\ One(RedirectValid) \in Nat
    BY DEF One
  <2>3. /\ perf'.branches = perf.branches + One(CountsBranch)
        /\ perf'.mispredicts = perf.mispredicts + One(RedirectValid)
        /\ perf'.dual = perf.dual + 0 /\ perf'.single = perf.single + 0
    BY <2>2, BranchSteps
  <2> QED
    BY <2>1, <2>2, <2>3, SentType
<1>3. \A u \in Local : \A k \in Nat :
        /\ u.i = t.i /\ u.dual = t.dual /\ u.single = t.single
        /\ u.branches = t.branches /\ u.mispredicts = t.mispredicts
        /\ u.cycle + 2 = perf'.cycles + Lead'
        /\ ~Ended => Tags(u)'
        /\ k + Owed' <= Len(Sent) * (DivLatency + 5)
        => Abreast(u, k)'
  BY <1>1, <1>2 DEF Abreast, One
<1>4. /\ t.i = Len(Sent) + 1 /\ t.cycle + 2 = perf.cycles + Lead
      /\ ~Ended => Tags(t)
      /\ m + Owed <= Len(Sent) * (DivLatency + 5)
  BY DEF Abreast
<1>5. /\ Lead \in Nat /\ t.cycle \in Nat
      /\ halted => Lead' = Lead
      /\ ~halted => Lead = Lead' + One(~Waiting)
      /\ ~halted => perf'.cycles = perf.cycles + 1
      /\ halted => perf'.cycles = perf.cycles
  BY LeadMoves, BranchSteps DEF Local, Locals
<1>6. /\ Owed \in Nat /\ Owed' \in Nat
      /\ Waiting => Owed' + 1 <= Owed
      /\ ~Waiting => Owed' <= Owed
  <2>0. PICK w : w = One(Waiting)
    OBVIOUS
  <2>1. Owed \in Nat /\ Owed' \in Nat /\ Owed' + w <= Owed
    BY <2>0, OwedMoves
  <2>2. (Waiting => w = 1) /\ (~Waiting => w = 0)
    BY <2>0 DEF One
  <2>3. \A b, a \in Nat : (w = 1 /\ b + w <= a => b + 1 <= a) /\ (w = 0 /\ b + w <= a => b <= a)
    BY <2>0 DEF One
  <2> QED
    BY <2>1, <2>2, <2>3
<1>7. ASSUME ~Waiting
      PROVE  Abreast(t, m)'
  <2>1. t.cycle + 2 = perf'.cycles + Lead'
    <3>1. CASE halted
      BY <1>4, <1>5, <3>1
    <3>2. CASE ~halted
      <4>1. Lead = Lead' + 1
        BY <1>5, <1>7, <3>2 DEF One
      <4>2. Lead' \in Nat
        BY <1>5, LeadMoves, LeadType
      <4> QED
        BY <1>2, <1>4, <1>5, <3>2, <4>1, <4>2
    <3> QED
      BY <3>1, <3>2
  <2>2. m + Owed' <= Len(Sent) * (DivLatency + 5)
    <3> DEFINE room == Len(Sent) * (DivLatency + 5)
    <3>1. room \in Nat
      BY <1>2, OneMore, DivAssumption
    <3>2. m + Owed <= room
      BY <1>4
    <3> HIDE DEF room
    <3>3. m + Owed' <= room
      BY <1>6, <1>7, <3>1, <3>2, Spare
    <3> QED
      BY <3>3 DEF room
  <2>3. ~Ended => Tags(t)'
    BY <1>4, <1>7, TagsKept
  <2> QED
    BY <1>3, <2>1, <2>2, <2>3
<1>8. ASSUME NEW u \in Local, Waiting, Delayed(t, u)
      PROVE  Abreast(u, m + 1)'
  <2>1. /\ u.cycle = t.cycle + 1 /\ u.i = t.i /\ u.dual = t.dual /\ u.single = t.single
        /\ u.branches = t.branches /\ u.mispredicts = t.mispredicts
    BY <1>8 DEF Delayed, Locals
  <2>2. ~halted /\ ~Ended
    BY <1>8 DEF Waiting, Ended, Trapping
  <2>3. u.cycle + 2 = perf'.cycles + Lead'
    <3>1. Lead = Lead' + 0 /\ perf'.cycles = perf.cycles + 1
      BY <1>5, <1>8, <2>2 DEF One
    <3>2. Lead' \in Nat /\ perf.cycles \in Nat /\ t.cycle \in Nat
      BY <1>2, <1>5, LeadType
    <3>3. t.cycle + 2 = perf.cycles + Lead'
      BY <1>4, <3>1, <3>2
    <3>4. t.cycle + 1 + 2 = perf.cycles + 1 + Lead'
      BY <3>2, <3>3
    <3> QED
      BY <2>1, <3>1, <3>4
  <2>4. m + 1 + Owed' <= Len(Sent) * (DivLatency + 5)
    <3> DEFINE room == Len(Sent) * (DivLatency + 5)
    <3>1. room \in Nat
      BY <1>2, OneMore, DivAssumption
    <3>2. m + Owed <= room
      BY <1>4
    <3> HIDE DEF room
    <3>3. m + 1 + Owed' <= room
      BY <1>6, <1>8, <3>1, <3>2, Spare
    <3> QED
      BY <3>3 DEF room
  <2>5. Tags(u)'
    BY <1>4, <1>8, <2>2, TagsKept
  <2> QED
    BY <1>3, <2>1, <2>3, <2>4, <2>5
<1> QED
  BY <1>7, <1>8

\* Something issues in the core and in the model.
LEMMA AbreastIssues ==
  ASSUME Watched, Watched', PerfTypes, Clock, PerfStep, StreamStep, Issue0,
         NEW s, Future(s)', ~BranchesToNext(s), EnableDualIssue => ~SlotOneWaits(s),
         NEW t \in Local, NEW m \in Nat, Abreast(t, m),
         NEW u \in Local, Advanced(s, t, u)
  PROVE  Abreast(u, m + 1)'
<1>0. PICK n : n = Len(Sent)
  OBVIOUS
<1>1. /\ Future(s) /\ Len(s) > n /\ s[n + 1] = Committed(buf0) /\ n \in Nat
      /\ t.i = n + 1 /\ ~Ended /\ Tags(t) /\ ~halted /\ ~ExStall /\ ~RedirectValid
  BY <1>0, FutureKept, SentType, IssueFacts DEF Abreast, Ended, Trapping
<1>2. /\ PairsAt(s, n + 1) <=> Issue1
      /\ Redirects(s, n + 1) <=> RedirectValid'
      /\ LeadsOn(s, n + 1) <=> CountsBranch'
  BY <1>0, PairsAsIssued, RedirectsAlike
<1>3. Len(Sent)' = n + (IF Issue1 THEN 2 ELSE 1)
  <2>1. Committed(buf0) \in Entry /\ Committed(buf1) \in Entry /\ Sent \in Seq(Entry)
    BY SlotEntries, IssueFacts, SentType
  <2>2. /\ Append(Sent, Committed(buf0)) \in Seq(Entry)
        /\ Len(Append(Sent, Committed(buf0))) = n + 1
    BY <1>0, <2>1, Grows
  <2>3. Len(Append(Append(Sent, Committed(buf0)), Committed(buf1))) = n + 1 + 1
    BY <2>1, <2>2, Grows
  <2> QED
    BY <1>1, <2>2, <2>3, SentGrows
<1>4. /\ perf'.branches = perf.branches + One(CountsBranch)
      /\ perf'.mispredicts = perf.mispredicts + One(RedirectValid)
      /\ perf'.dual = perf.dual + One(Issue1) /\ perf'.single = perf.single + One(~Issue1)
      /\ perf'.cycles = perf.cycles + 1 /\ perf.cycles \in Nat
  BY <1>1, BranchSteps DEF Counters, One
<1>5. u.i = Len(Sent)' + 1
  BY <1>1, <1>2, <1>3 DEF Advanced
<1>6. u.cycle + 2 = perf'.cycles + Lead'
  <2>1. t.cycle + 2 = perf.cycles + 3 /\ t.cycle \in Nat
        /\ Lead' = IF RedirectValid' THEN 5 ELSE 3
    BY LeadMoves DEF Abreast, Local, Locals
  <2>2. u.cycle = t.cycle + (IF RedirectValid' THEN 3 ELSE 1)
    BY <1>1, <1>2 DEF Advanced
  <2> QED
    BY <1>4, <2>1, <2>2
<1>7. u.dual = perf'.dual /\ u.single = perf'.single
  BY <1>1, <1>2, <1>4 DEF Advanced, Abreast, One
<1>8. u.branches = perf'.branches + One(CountsBranch')
  BY <1>1, <1>2, <1>4 DEF Advanced, Abreast, One
<1>9. u.mispredicts = perf'.mispredicts + One(RedirectValid')
  BY <1>1, <1>2, <1>4 DEF Advanced, Abreast, One
<1>10. Tags(u)'
  BY <1>1, <1>2, TagsSet
<1>11. m + 1 + Owed' <= Len(Sent)' * (DivLatency + 5)
  <2>1. Owed' \in Nat /\ Owed \in Nat /\ Owed' <= DivLatency + 2 /\ DivLatency \in Nat
        /\ m + Owed <= n * (DivLatency + 5)
    BY <1>0, OwedMoves, DivAssumption DEF Abreast
  <2> DEFINE p == DivLatency + 5
             now == n * p
             next == Len(Sent)' * p
  <2>2. p \in Nat /\ p = DivLatency + 5
    BY <2>1
  <2> HIDE DEF p
  <2>3. now \in Nat /\ (n + 1) * p = now + p /\ (n + 2) * p = now + p + p
    BY <1>1, <2>2, OneMore
  <2>4. m + Owed <= now
    BY <2>1 DEF p
  <2>5. next = (IF Issue1 THEN now + p + p ELSE now + p)
    BY <1>3, <2>3
  <2> HIDE DEF now, next
  <2>6. next \in Nat /\ next >= now + p
    BY <2>2, <2>3, <2>5
  <2>7. m + 1 + Owed' <= next
    <3>1. \A a, b, c, l, q, x \in Nat :
            m + a <= c /\ b <= l + 2 /\ q = l + 5 /\ x >= c + q => m + 1 + b <= x
      OBVIOUS
    <3> QED
      BY <2>1, <2>2, <2>3, <2>4, <2>6, <3>1
  <2> QED
    BY <2>7 DEF next, p
<1> QED
  BY <1>5, <1>6, <1>7, <1>8, <1>9, <1>10, <1>11 DEF Abreast

\* Over a cycle of the core the model takes a turn, or none.
LEMMA AbreastKept ==
  ASSUME Watched, Watched', PerfTypes, Clock, PerfStep, StreamStep,
         NEW s, Future(s)', ~BranchesToNext(s), EnableDualIssue => ~SlotOneWaits(s),
         ~ReservedJalrWaits(s),
         NEW t \in Local, NEW m \in Nat, Abreast(t, m)
  PROVE  Abreast(t, m)' \/ Abreast(Turn(s, t), m + 1)'
<1>1. Future(s) /\ s \in Seq(Entry)
  BY FutureKept DEF Future
<1>2. CASE ~Issue0 /\ ~Waiting
  BY <1>2, AbreastIdle
<1>3. CASE ~Issue0 /\ Waiting
  <2>1. buf0.v /\ ~Ended /\ ~RedirectValid
    BY <1>3 DEF Waiting
  <2>2. t.i <= Len(s) /\ Blocks(s, t)
    <3>1. Len(Sent) < Len(s) /\ Len(Sent) \in Nat /\ Len(s) \in Nat
      BY <1>1, <2>1, NextMember, SentType
    <3>2. t.i = Len(Sent) + 1
      BY DEF Abreast
    <3> QED
      BY <1>1, <1>3, <2>1, <3>1, <3>2, WaitsAlike
  <2>3. Turn(s, t) \in Local /\ Delayed(t, Turn(s, t))
    BY <1>1, <2>2, TurnIs
  <2> QED
    BY <1>3, <2>3, AbreastIdle
<1>4. CASE Issue0
  <2>1. buf0.v /\ ~Ended /\ ~RedirectValid
    BY <1>4, IssueFacts DEF Ended, Trapping
  <2>2. t.i <= Len(s) /\ ~Blocks(s, t)
    <3>1. Len(Sent) < Len(s) /\ Len(Sent) \in Nat /\ Len(s) \in Nat
      BY <1>1, <2>1, NextMember, SentType
    <3>2. t.i = Len(Sent) + 1
      BY DEF Abreast
    <3> QED
      BY <1>1, <1>4, <2>1, <3>1, <3>2, WaitsAlike
  <2>3. Turn(s, t) \in Local /\ Advanced(s, t, Turn(s, t))
    BY <1>1, <2>2, TurnIs
  <2> QED
    BY <1>4, <2>3, AbreastIssues
<1> QED
  BY <1>2, <1>3, <1>4

\* The turns of the model over a stream.
Bound(s) == IterationBound(s, DivLatency)
Loop(s)  == [t \in Local |-> Turn(s, t)]
Turns(s) == Orbits(Local, TimingStart, Loop(s), Bound(s))

LEMMA BoundType ==
  ASSUME NEW s \in Seq(Entry)
  PROVE  /\ Bound(s) \in Nat
         /\ \A n \in Nat : n <= Len(s) => n * (DivLatency + 5) <= Bound(s)
<1>1. Len(s) \in Nat /\ DivLatency \in Nat
  BY DivAssumption
<1> DEFINE p == DivLatency + 5
<1>2. p \in Nat /\ Bound(s) = Len(s) * p
  BY <1>1 DEF Bound, IterationBound
<1> HIDE DEF p
<1>3. \A a, b \in Nat : a <= b => a * p <= b * p
  <2> SUFFICES ASSUME NEW a \in Nat, NEW b \in Nat, a <= b PROVE a * p <= b * p
    OBVIOUS
  <2>1. PICK d \in Nat : b = a + d
    BY b - a \in Nat
  <2>2. b * p = a * p + d * p /\ a * p \in Nat /\ d * p \in Nat
    BY <1>2, <2>1
  <2> QED
    BY <2>2
<1>4. Len(s) * p \in Nat
  BY <1>1, <1>2
<1> QED
  BY <1>1, <1>2, <1>3, <1>4 DEF p

LEMMA TurnsAre ==
  ASSUME NEW s \in Seq(Entry), NEW g \in Turns(s), NEW m \in 0 .. Bound(s)
  PROVE  /\ g[m] \in Local /\ m \in Nat
         /\ m = 0 => g[m] = TimingStart
         /\ m < Bound(s) => m + 1 \in 0 .. Bound(s) /\ g[m + 1] = Turn(s, g[m])
<1>1. Bound(s) \in Nat /\ m \in Nat
  BY BoundType
<1>2. /\ g \in [0 .. Bound(s) -> Local] /\ g[0] = TimingStart
      /\ \A k \in 1 .. Bound(s) : g[k] = Loop(s)[g[k - 1]]
  BY DEF Turns, Orbits
<1>3. g[m] \in Local
  BY <1>2
<1>4. ASSUME m < Bound(s)
      PROVE  m + 1 \in 0 .. Bound(s) /\ g[m + 1] = Turn(s, g[m])
  <2>1. m + 1 \in 1 .. Bound(s) /\ (m + 1) - 1 = m
    BY <1>1, <1>4
  <2>2. g[m + 1] = Loop(s)[g[m]]
    BY <1>2, <2>1
  <2> QED
    BY <1>1, <1>3, <2>1, <2>2 DEF Loop
<1> QED
  BY <1>1, <1>2, <1>3, <1>4

\* Over any stream of the kind the model is for, that what has issued may be the
\* beginning of, the model comes to where the core is within its bound.
TimingForetold ==
  \A s : (Future(s) /\ ~BranchesToNext(s) /\ (EnableDualIssue => ~SlotOneWaits(s)) /\ ~ReservedJalrWaits(s)) =>
    \A g \in Turns(s) : \E m \in 0 .. Bound(s) : Abreast(g[m], m)

LEMMA TimingForetoldKept ==
  ASSUME Watched, Watched', PerfTypes, TimingForetold, Clock, PerfStep, StreamStep
  PROVE  TimingForetold'
<1> SUFFICES ASSUME NEW s, Future(s)', ~BranchesToNext(s), EnableDualIssue => ~SlotOneWaits(s),
                    ~ReservedJalrWaits(s), NEW g \in Turns(s)
             PROVE  \E m \in 0 .. Bound(s) : Abreast(g[m], m)'
  BY DEF TimingForetold
<1>1. Future(s) /\ s \in Seq(Entry)
  BY FutureKept DEF Future
<1>2. PICK m \in 0 .. Bound(s) : Abreast(g[m], m)
  BY <1>1 DEF TimingForetold
<1>3. g[m] \in Local /\ m \in Nat
  BY <1>1, TurnsAre
<1>4. CASE Abreast(g[m], m)'
  BY <1>4
<1>5. CASE Abreast(Turn(s, g[m]), m + 1)'
  <2>1. m + 1 <= Bound(s)
    <3>1. m + 1 + Owed' <= Len(Sent)' * (DivLatency + 5)
      BY <1>5 DEF Abreast
    <3>2. Owed' \in Nat /\ Len(Sent)' \in Nat /\ Len(Sent)' <= Len(s)
      <4>1. Len(Sent)' <= Len(s)
        BY DEF Future
      <4>2. (Sent \in Seq(Entry) /\ Len(Sent) \in Nat)'
        BY SentType, PTL
      <4> QED
        BY <4>1, <4>2, OwedMoves
    <3> DEFINE room == Len(Sent)' * (DivLatency + 5)
    <3>3. room <= Bound(s) /\ Bound(s) \in Nat
      BY <1>1, <3>2, BoundType
    <3>4. room \in Nat
      BY <3>2, OneMore, DivAssumption
    <3>5. m + 1 + Owed' <= room
      BY <3>1
    <3> HIDE DEF room
    <3>6. \A k, o, r, b \in Nat : k + 1 + o <= r /\ r <= b => k + 1 <= b
      OBVIOUS
    <3> QED
      BY <1>3, <3>2, <3>3, <3>4, <3>5, <3>6
  <2>2. m + 1 \in 0 .. Bound(s) /\ g[m + 1] = Turn(s, g[m])
    <3>1. m < Bound(s)
      BY <1>1, <1>3, <2>1, BoundType
    <3> QED
      BY <1>1, <3>1, TurnsAre
  <2> QED
    BY <1>5, <2>2
<1> QED
  BY <1>1, <1>2, <1>3, <1>4, <1>5, AbreastKept

\* Before anything has issued the model has not begun.
LEMMA TimingForetoldFirst ==
  ASSUME perf = ZeroPerf, stream = <<>>, ~halted, ~buf0.v, EmptyEx, EmptyMem, EmptyWb
  PROVE  TimingForetold
<1> SUFFICES ASSUME NEW s, Future(s), NEW g \in Turns(s)
             PROVE  \E m \in 0 .. Bound(s) : Abreast(g[m], m)
  BY DEF TimingForetold
<1>1. s \in Seq(Entry) /\ Bound(s) \in Nat /\ 0 \in 0 .. Bound(s)
  <2>1. s \in Seq(Entry)
    BY DEF Future
  <2> QED
    BY <2>1, BoundType
<1>2. g[0] = TimingStart
  BY <1>1, TurnsAre
<1>3. Len(Sent) = 0 /\ ~DivInEx /\ ~LoadInEx /\ ~CountsBranch /\ ~RedirectValid /\ ~Trapping
  BY NothingSent DEF DivInEx, LoadInEx, CountsBranch, RedirectValid, ControlTaken, Trapping,
                     Excepting, EmptyEx, EmptyMem, EmptyWb
<1>4. Lead = 4 /\ Owed = 0
  BY <1>3 DEF Lead, Owed, Trapping
<1>5. Tags(TimingStart)
  BY <1>3 DEF Tags, TimingStart
<1>6. /\ TimingStart.i = 1 /\ TimingStart.cycle = 2
      /\ TimingStart.dual = 0 /\ TimingStart.single = 0
      /\ TimingStart.branches = 0 /\ TimingStart.mispredicts = 0
  BY DEF TimingStart
<1>7. 0 + Owed <= Len(Sent) * (DivLatency + 5)
  BY <1>3, <1>4, DivAssumption
<1>8. Abreast(TimingStart, 0)
  BY <1>3, <1>4, <1>5, <1>6, <1>7 DEF Abreast, ZeroPerf, One
<1> QED
  BY <1>1, <1>2, <1>8

LEMMA TimingStutters ==
  ASSUME UNCHANGED perfVars
  PROVE  \A t, m : Abreast(t, m)' <=> Abreast(t, m)
<1> USE DEF perfVars, vars, pipeVars, frontVars
<1>1. Sent' = Sent
  BY FutureStutters
<1>2. ControlTaken' = ControlTaken /\ ControlTarget' = ControlTarget
  BY DEF ControlTaken, ControlTarget, IsJump
<1>3. MemMisaligned' = MemMisaligned /\ InstrMisaligned' = InstrMisaligned
  BY <1>2 DEF MemMisaligned, Misaligned, MemOp, EffAddr, InstrMisaligned
<1>4. Ex0Exc' = Ex0Exc
  BY <1>3 DEF Ex0Exc, IsLoad, IsStore
<1>5. /\ DivInEx' = DivInEx /\ ExStall' = ExStall /\ LoadInEx' = LoadInEx
      /\ Trapping' = Trapping
  BY DEF DivInEx, ExStall, LoadInEx, Trapping, Excepting, IsDiv, IsLoad
<1>6. /\ Ended' = Ended /\ RedirectValid' = RedirectValid
      /\ CountsBranch' = CountsBranch /\ Worked' = Worked
  BY <1>2, <1>4, <1>5 DEF Ended, RedirectValid, CountsBranch, Worked
<1>7. Lead' = Lead
  BY <1>5, <1>6 DEF Lead, Excepting
<1>8. Owed' = Owed
  BY <1>5, <1>6 DEF Owed
<1>9. \A t : Tags(t)' <=> Tags(t)
  BY <1>5, <1>6 DEF Tags
<1> QED
  BY <1>1, <1>6, <1>7, <1>8, <1>9 DEF Abreast, One

\* Every commit is counted.
LEMMA RetiredKept ==
  ASSUME Watched, PerfTypes, PerfStep, StreamStep, perf.retired = Len(stream)
  PROVE  perf'.retired = Len(stream')
<1>1. stream \in Seq(Entry) /\ Len(stream) \in Nat
  BY DEF Watched, StreamShape
<1>2. /\ Commit0Valid => Committed(wb0) \in Entry /\ ~halted
      /\ Commit1Valid => Committed(wb1) \in Entry /\ ~halted
  BY LaneEntries DEF Commit0Valid, Commit1Valid
<1>3. /\ halted => perf'.retired = perf.retired
      /\ ~halted => perf'.retired = perf.retired + One(Commit0Valid) + One(Commit1Valid)
  BY PerfSteps
<1> DEFINE fst == IF Commit0Valid THEN <<Committed(wb0)>> ELSE <<>>
           snd == IF Commit1Valid THEN <<Committed(wb1)>> ELSE <<>>
<1>4. /\ fst \in Seq(Entry) /\ Len(fst) = One(Commit0Valid)
      /\ snd \in Seq(Entry) /\ Len(snd) = One(Commit1Valid)
  BY <1>2 DEF One
<1>5. stream' = stream \o fst \o snd
  BY DEF StreamStep
<1> HIDE DEF fst, snd
<1>6. stream \o fst \in Seq(Entry) /\ Len(stream \o fst) = Len(stream) + Len(fst)
  BY <1>1, <1>4, ConcatProperties
<1>7. Len(stream') = Len(stream) + Len(fst) + Len(snd)
  BY <1>4, <1>5, <1>6, ConcatProperties
<1>8. halted => Len(fst) = 0 /\ Len(snd) = 0
  BY <1>2, <1>4 DEF One
<1> QED
  BY <1>1, <1>3, <1>4, <1>7, <1>8

\* The function that simulate_dynamic tabulates.
Tabulates(s, at) ==
  at = [n \in 0 .. Bound(s) |-> IF n = 0 THEN TimingStart ELSE Turn(s, at[n - 1])]

LEMMA Tabulated ==
  ASSUME NEW s \in Seq(Entry)
  PROVE  /\ \E at : Tabulates(s, at)
         /\ \A at : Tabulates(s, at) => at \in Turns(s)
<1>1. Bound(s) \in Nat
  BY BoundType
<1>2. TimingStart \in Local
  BY DEF TimingStart, Local, Locals
<1>3. /\ Loop(s) \in [Local -> Local]
      /\ \A t \in Local : Loop(s)[t] = Turn(s, t) /\ Turn(s, t) \in Local
  BY TurnIs DEF Loop
<1>4. PICK g : g \in Turns(s)
  BY <1>1, <1>2, <1>3, Iterated DEF Turns
<1>5. Tabulates(s, g)
  <2>1. /\ g \in [0 .. Bound(s) -> Local] /\ g[0] = TimingStart
        /\ \A k \in 1 .. Bound(s) : g[k] = Loop(s)[g[k - 1]]
    BY <1>4 DEF Turns, Orbits
  <2>2. ASSUME NEW n \in 0 .. Bound(s)
        PROVE  g[n] = IF n = 0 THEN TimingStart ELSE Turn(s, g[n - 1])
    <3>1. CASE n = 0
      BY <2>1, <3>1
    <3>2. CASE n # 0
      <4>1. n \in 1 .. Bound(s) /\ n - 1 \in 0 .. Bound(s)
        BY <1>1, <3>2
      <4> QED
        BY <1>3, <2>1, <3>2, <4>1
    <3> QED
      BY <3>1, <3>2
  <2> QED
    BY <2>1, <2>2 DEF Tabulates
<1>6. ASSUME NEW at, Tabulates(s, at)
      PROVE  at \in Turns(s)
  <2>1. /\ at = [n \in 0 .. Bound(s) |-> at[n]]
        /\ \A n \in 0 .. Bound(s) : at[n] = IF n = 0 THEN TimingStart ELSE Turn(s, at[n - 1])
    BY <1>6 DEF Tabulates
  <2> DEFINE S == {n \in Nat : n <= Bound(s) => at[n] \in Local}
  <2>2. 0 \in S
    BY <1>1, <1>2, <2>1
  <2>3. ASSUME NEW n \in Nat, n \in S
        PROVE  n + 1 \in S
    <3> SUFFICES ASSUME n + 1 <= Bound(s) PROVE at[n + 1] \in Local
      OBVIOUS
    <3>1. /\ n + 1 \in 0 .. Bound(s) /\ n + 1 # 0 /\ (n + 1) - 1 = n
          /\ at[n] \in Local
      BY <1>1, <2>3
    <3>2. at[n + 1] = Turn(s, at[n])
      BY <2>1, <3>1
    <3> QED
      BY <1>3, <3>1, <3>2
  <2>4. Nat \subseteq S
    <3> HIDE DEF S
    <3> QED
      BY <2>2, <2>3, SetInduction
  <2>5. at \in [0 .. Bound(s) -> Local]
    BY <1>1, <2>1, <2>4
  <2>6. ASSUME NEW k \in 1 .. Bound(s)
        PROVE  at[k] = Loop(s)[at[k - 1]]
    <3>1. k \in 0 .. Bound(s) /\ k # 0 /\ k - 1 \in 0 .. Bound(s)
      BY <1>1
    <3> QED
      BY <1>3, <2>1, <2>5, <3>1
  <2>7. at[0] = TimingStart
    BY <1>1, <2>1
  <2> QED
    BY <2>5, <2>6, <2>7 DEF Turns, Orbits
<1> QED
  BY <1>5, <1>6

LEMMA SimulationIs ==
  ASSUME NEW s \in Seq(Entry)
  PROVE  \E g \in Turns(s) :
           LET end == g[Bound(s)]
               sim == SimulateDynamic(s, DivLatency, EnableDualIssue)
           IN /\ sim.retired = Len(s) - 1 /\ sim.totalCycles = end.cycle + 2
              /\ sim.dual = end.dual /\ sim.single = end.single
              /\ sim.branches = end.branches /\ sim.mispredicts = end.mispredicts
<1> DEFINE g == CHOOSE at : Tabulates(s, at)
           end == g[Bound(s)]
<1>1. g \in Turns(s)
  BY Tabulated
<1>2. SimulateDynamic(s, DivLatency, EnableDualIssue)
        = [retired     |-> Len(s) - 1,
           totalCycles |-> end.cycle + 2,
           dual |-> end.dual, single |-> end.single,
           loadUse |-> end.loadUse, divider |-> end.divider,
           branches |-> end.branches, mispredicts |-> end.mispredicts]
  BY DEF SimulateDynamic, Tabulates, Turn, Bound
<1> HIDE DEF g
<1> QED
  BY <1>1, <1>2

\* A loop that has ended stays as it is.
LEMMA LoopEnds ==
  ASSUME NEW s \in Seq(Entry), NEW g \in Turns(s), NEW m \in 0 .. Bound(s), g[m].i > Len(s)
  PROVE  g[Bound(s)] = g[m]
<1>1. Bound(s) \in Nat /\ m \in Nat
  BY BoundType
<1> DEFINE S == {k \in Nat : m + k <= Bound(s) => g[m + k] = g[m]}
<1>2. 0 \in S
  BY <1>1
<1>3. ASSUME NEW k \in Nat, k \in S
      PROVE  k + 1 \in S
  <2> SUFFICES ASSUME m + (k + 1) <= Bound(s) PROVE g[m + (k + 1)] = g[m]
    OBVIOUS
  <2>1. m + k \in 0 .. Bound(s) /\ m + k < Bound(s) /\ g[m + k] = g[m] /\ m + (k + 1) = (m + k) + 1
    BY <1>1, <1>3
  <2>2. g[(m + k) + 1] = Turn(s, g[m]) /\ g[m] \in Local
    BY <2>1, TurnsAre
  <2> QED
    BY <2>1, <2>2, TurnIs
<1>4. Nat \subseteq S
  <2> HIDE DEF S
  <2> QED
    BY <1>2, <1>3, SetInduction
<1>5. PICK k \in Nat : m + k = Bound(s)
  BY <1>1, Bound(s) - m \in Nat
<1>6. k \in S
  BY <1>4
<1>7. m + k <= Bound(s)
  BY <1>1, <1>5
<1>8. g[m + k] = g[m]
  BY <1>6, <1>7
<1> QED
  BY <1>5, <1>8

Alongside == TimingForetold /\ perf.retired = Len(stream)

LEMMA AlongsideFirst ==
  ASSUME perf = ZeroPerf, stream = <<>>, ~halted, ~buf0.v, EmptyEx, EmptyMem, EmptyWb
  PROVE  Alongside
BY TimingForetoldFirst DEF Alongside, ZeroPerf

LEMMA AlongsideCorrect == PerfSpec => [](PerfInv /\ StreamOfProgram /\ Alongside)
<1> DEFINE P == PerfInv /\ StreamOfProgram
<1>1. PerfInit => Alongside
  <2> SUFFICES ASSUME PerfInit PROVE Alongside
    OBVIOUS
  <2>1. /\ perf = ZeroPerf /\ stream = <<>> /\ ~halted /\ ~buf0.v
        /\ EmptyEx /\ EmptyMem /\ EmptyWb
    BY DEF PerfInit, Init, FrontInit, EmptySlot, ExBubble, MemBubble, WbBubble,
           EmptyEx, EmptyMem, EmptyWb
  <2> QED
    BY <2>1, AlongsideFirst
<1>2. P /\ P' /\ Alongside /\ [PerfNext]_perfVars => Alongside'
  <2> SUFFICES ASSUME P, P', Alongside, [PerfNext]_perfVars PROVE Alongside'
    OBVIOUS
  <2>1. CASE PerfClock
    <3>1. Clock /\ PerfStep /\ StreamStep
      BY <2>1 DEF PerfClock
    <3>2. Watched /\ PerfTypes /\ TimingForetold /\ perf.retired = Len(stream)
      BY WatchedProgram DEF Alongside
    <3>3. (PerfInv /\ StreamOfProgram => Watched /\ RunOn /\ PerfTypes /\ TypeOK)'
      BY WatchedProgram, PTL
    <3>4. TimingForetold' /\ perf'.retired = Len(stream')
      BY <3>1, <3>2, <3>3, TimingForetoldKept, RetiredKept
    <3> QED
      BY <3>4 DEF Alongside
  <2>2. CASE PerfReset
    <3>1. (/\ perf = ZeroPerf /\ stream = <<>> /\ ~halted /\ ~buf0.v
           /\ EmptyEx /\ EmptyMem /\ EmptyWb)'
      BY <2>2 DEF PerfReset, Reset, FrontReset, EmptySlot, ExBubble, MemBubble, WbBubble,
                  EmptyEx, EmptyMem, EmptyWb, ZeroPerf
    <3> QED
      BY <3>1, AlongsideFirst, PTL
  <2>3. CASE UNCHANGED perfVars
    <3>1. TimingForetold'
      BY <2>3, FutureStutters, TimingStutters DEF Alongside, TimingForetold
    <3> QED
      BY <2>3, <3>1 DEF Alongside, perfVars
  <2> QED
    BY <2>1, <2>2, <2>3 DEF PerfNext
<1> QED
  BY <1>1, <1>2, StreamCorrect, PTL DEF PerfSpec

\* When the core has halted, simulate_dynamic of its stream has counted the
\* cycles, pairs, single issues, transfers of control, redirects and retired
\* instructions that the counters show, for every program without a branch to
\* the next word, without an illegal JALR right behind a load or a divide into
\* its rs1 field, and, when ENABLE_DUAL_ISSUE is 1, without a wait of slot 1.
THEOREM TimingModelPredicts == PerfSpec => []TimingModelIsExact
<1>1. PerfInv /\ StreamOfProgram /\ Alongside => TimingModelIsExact
  <2> DEFINE s == DynamicStream
  <2> SUFFICES ASSUME PerfInv, StreamOfProgram, Alongside, halted,
                      EnableDualIssue => ~SlotOneWaits(s), ~BranchesToNext(s),
                      ~ReservedJalrWaits(s)
               PROVE  TimingAgrees
    BY DEF TimingModelIsExact
  <2>1. Future(s) /\ Sent = s /\ PerfTypes /\ Watched
    BY WatchedProgram, HaltedFuture
  <2>2. s \in Seq(Entry) /\ Len(s) \in Nat
    BY <2>1 DEF Future
  <2>3. Len(s) = Len(stream) + 1 /\ Len(stream) \in Nat
    <3>1. stream \in Seq(Entry) /\ [pc |-> trap.pc, ins |-> Fetch(trap.pc)] \in Entry
      BY <2>1, LaneEntries DEF Watched, StreamShape
    <3> QED
      BY <3>1 DEF DynamicStream
  <2> HIDE DEF s
  <2>4. PICK g \in Turns(s) :
          LET end == g[Bound(s)]
              sim == SimulateDynamic(s, DivLatency, EnableDualIssue)
          IN /\ sim.retired = Len(s) - 1 /\ sim.totalCycles = end.cycle + 2
             /\ sim.dual = end.dual /\ sim.single = end.single
             /\ sim.branches = end.branches /\ sim.mispredicts = end.mispredicts
    BY <2>2, SimulationIs
  <2>5. PICK m \in 0 .. Bound(s) : Abreast(g[m], m)
    BY <2>1 DEF Alongside, TimingForetold
  <2> DEFINE t == g[m]
  <2>6. /\ t.i = Len(s) + 1 /\ t.cycle + 2 = perf.cycles + Lead
        /\ t.dual = perf.dual /\ t.single = perf.single
        /\ t.branches = perf.branches + One(CountsBranch)
        /\ t.mispredicts = perf.mispredicts + One(RedirectValid)
    BY <2>1, <2>5 DEF Abreast
  <2>7. g[Bound(s)] = t
    <3>1. t.i > Len(s)
      <4>1. t.i = Len(s) + 1
        BY <2>6
      <4>2. Len(s) + 1 > Len(s)
        BY <2>2
      <4> QED
        BY <4>1, <4>2
    <3> QED
      BY <2>2, <2>4, <2>5, <3>1, LoopEnds
  <2> HIDE DEF t
  <2>8. Lead = 0 /\ One(CountsBranch) = 0 /\ One(RedirectValid) = 0
    <3>1. ~ex0.valid
      BY <2>1 DEF Watched, ControlInv, PreciseTrap, EmptyEx
    <3>2. ~CountsBranch /\ ~RedirectValid
      BY <3>1 DEF CountsBranch, RedirectValid, ControlTaken
    <3> QED
      BY <3>2 DEF Lead, One, Trapping
  <2>9. /\ perf.cycles \in Nat /\ perf.branches \in Nat /\ perf.mispredicts \in Nat
    BY <2>1 DEF PerfTypes, Counters
  <2>10. /\ t.cycle + 2 = perf.cycles
         /\ t.branches = perf.branches /\ t.mispredicts = perf.mispredicts
    BY <2>6, <2>8, <2>9
  <2>11. perf.retired = Len(s) - 1
    BY <2>3 DEF Alongside
  <2> QED
    BY <2>4, <2>6, <2>7, <2>10, <2>11 DEF TimingAgrees, s
<1> QED
  BY <1>1, AlongsideCorrect, PTL

=============================================================================
