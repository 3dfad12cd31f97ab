------------------------------ MODULE DivUnit -------------------------------
(***************************************************************************)
(* rtl/mdu/div_unit.sv: the restoring divider, StepsPerCycle quotient bits *)
(* per clock, on words of Bits bits (32 in the RTL).  It implements        *)
(* DivContract: the result depends on nothing but the operands it was      *)
(* started with.                                                           *)
(***************************************************************************)
EXTENDS Width, RiscvPkg

CONSTANTS
  Latency,          \* LATENCY, a positive divisor of Bits
  DivY(_, _, _)     \* the quotient or remainder the ISA defines

ASSUME LatencyAssumption ==
  /\ Latency \in 1 .. Bits /\ Bits % Latency = 0
  /\ WordSize = Size

VARIABLES
  busy, done, result,
  cycle_q, quotient_q, remainder_q, divisor_q, op_q,
  quotient_neg_q, remainder_neg_q, special_q, special_result_q,
  owner     \* op, dividend and divisor of the accepted start, which the core
            \* holds in ex0_q; no register of the unit

unitVars == <<busy, done, result, cycle_q, quotient_q, remainder_q, divisor_q, op_q,
              quotient_neg_q, remainder_neg_q, special_q, special_result_q, owner>>

StepsPerCycle == Bits \div Latency

Neg(x)  == Trunc(-x)
AbsW(x) == IF x >= Size \div 2 THEN Neg(x) ELSE x      \* abs32
SignedOp(op) == op \in {"div", "rem"}

\* Mutant of RestoringStep: a remainder equal to the divisor is not subtracted.
RestoringStepStrict(st, d) ==
  LET remShift  == 2 * (st.rem % Size) + (2 * st.quot) \div Size
      quotShift == (2 * st.quot) % Size
  IN IF remShift > d THEN [rem |-> remShift - d, quot |-> quotShift + 1]
                     ELSE [rem |-> remShift, quot |-> quotShift]
\* restoring_step: one quotient bit; the dividend leaves quotient_q from the top.
RestoringStep(st, d) ==
  LET remShift  == 2 * (st.rem % Size) + (2 * st.quot) \div Size
      quotShift == (2 * st.quot) % Size
  IN IF remShift >= d THEN [rem |-> remShift - d, quot |-> quotShift + 1]
                      ELSE [rem |-> remShift, quot |-> quotShift]

\* n restoring steps
Restoring(n, st, d) ==
  LET after[k \in 0 .. n] == IF k = 0 THEN st ELSE RestoringStep(after[k - 1], d)
  IN after[n]

State(n) == Restoring(n, [rem |-> remainder_q, quot |-> quotient_q], divisor_q)

\* final_quot or final_rem of the state st, whichever op_q asks for
Final(st) ==
  CASE op_q \in {"div", "divu"} -> IF quotient_neg_q THEN Neg(st.quot) ELSE st.quot
    [] op_q \in {"rem", "remu"} ->
         IF remainder_neg_q THEN Neg(st.rem % Size) ELSE st.rem % Size

\* Divide by zero, and the overflow of the most negative number by -1.
Overflow(op, a, b) == SignedOp(op) /\ a = Size \div 2 /\ b = Size - 1
\* Mutant of SpecialResult: a remainder by zero is all ones, like a quotient.
SpecialResultOnes(op, a, b) ==
  CASE b = 0                     -> Size - 1
    [] b # 0 /\ Overflow(op, a, b) -> IF op = "div" THEN Size \div 2 ELSE 0
    [] OTHER                     -> 0
SpecialResult(op, a, b) ==
  CASE b = 0 /\ op \in {"div", "divu"} -> Size - 1
    [] b = 0 /\ op \in {"rem", "remu"} -> a
    [] b # 0 /\ Overflow(op, a, b)     -> IF op = "div" THEN Size \div 2 ELSE 0
    [] OTHER                           -> 0

Start(op, a, b) ==
  /\ ~busy
  /\ busy' = TRUE /\ done' = FALSE
  /\ cycle_q' = 0
  /\ op_q' = op
  /\ remainder_q' = 0
  /\ quotient_q' = IF SignedOp(op) THEN AbsW(a) ELSE a
  /\ divisor_q' = IF SignedOp(op) THEN AbsW(b) ELSE b
  /\ quotient_neg_q' = (SignedOp(op) /\ ((a >= Size \div 2) # (b >= Size \div 2)))
  /\ remainder_neg_q' = (SignedOp(op) /\ a >= Size \div 2)
  /\ special_q' = (b = 0 \/ Overflow(op, a, b))
  /\ special_result_q' = SpecialResult(op, a, b)
  /\ owner' = [op |-> op, a |-> a, b |-> b]
  /\ UNCHANGED result

\* Mutant of Iterate: the cycle counter is not advanced.
IterateForEver == busy /\ cycle_q # Latency - 1 /\ UNCHANGED unitVars
Iterate ==
  /\ busy /\ cycle_q # Latency - 1
  /\ done' = FALSE
  /\ cycle_q' = cycle_q + 1
  /\ IF special_q THEN UNCHANGED <<remainder_q, quotient_q>>
     ELSE /\ remainder_q' = State(StepsPerCycle).rem
          /\ quotient_q' = State(StepsPerCycle).quot
  /\ UNCHANGED <<busy, result, divisor_q, op_q, quotient_neg_q, remainder_neg_q,
                 special_q, special_result_q, owner>>

Finish ==
  /\ busy /\ cycle_q = Latency - 1
  /\ busy' = FALSE /\ done' = TRUE
  /\ cycle_q' = 0
  /\ result' = IF special_q THEN special_result_q ELSE Final(State(StepsPerCycle))
  /\ UNCHANGED <<quotient_q, remainder_q, divisor_q, op_q, quotient_neg_q, remainder_neg_q,
                 special_q, special_result_q, owner>>

Idle ==
  /\ ~busy
  /\ done' = FALSE
  /\ UNCHANGED <<busy, result, cycle_q, quotient_q, remainder_q, divisor_q, op_q,
                 quotient_neg_q, remainder_neg_q, special_q, special_result_q, owner>>

Reset ==
  /\ busy' = FALSE /\ done' = FALSE /\ result' = 0
  /\ cycle_q' = 0 /\ quotient_q' = 0 /\ remainder_q' = 0 /\ divisor_q' = 0
  /\ op_q' = "none"
  /\ quotient_neg_q' = FALSE /\ remainder_neg_q' = FALSE
  /\ special_q' = FALSE /\ special_result_q' = 0
  /\ owner' = [op |-> "none", a |-> 0, b |-> 0]

Init ==
  /\ busy = FALSE /\ done = FALSE /\ result = 0
  /\ cycle_q = 0 /\ quotient_q = 0 /\ remainder_q = 0 /\ divisor_q = 0
  /\ op_q = "none"
  /\ quotient_neg_q = FALSE /\ remainder_neg_q = FALSE
  /\ special_q = FALSE /\ special_result_q = 0
  /\ owner = [op |-> "none", a |-> 0, b |-> 0]

Next ==
  \/ \E op \in DivFn, a, b \in Word : Start(op, a, b)
  \/ Iterate \/ Finish \/ Idle
  \/ Reset

\* The clock keeps ticking.
Spec == Init /\ [][Next]_unitVars /\ WF_unitVars(Iterate \/ Finish)

-----------------------------------------------------------------------------
\* Every register of the divider holds a value of its type; the remainder
\* register has one bit more than a word.
TypeOK ==
  /\ {busy, done, quotient_neg_q, remainder_neg_q, special_q} \subseteq BOOLEAN
  /\ {result, quotient_q, divisor_q, special_result_q} \subseteq Word
  /\ remainder_q \in 0 .. 2 * Size - 1
  /\ cycle_q \in 0 .. Latency - 1
  /\ op_q \in DivFn \cup {"none"}
  /\ owner \in [op : DivFn \cup {"none"}, a : Word, b : Word]

\* The loop invariant of restoring division: after k steps the low k bits of
\* quotient_q are the quotient of the dividend's top k bits, remainder_q is
\* their remainder, below the divisor, and the other bits are still to come.
\* Every register keeps its width meanwhile, the remainder's extra bit included.
RestoringInvariant == TypeOK /\
  LET k        == cycle_q * StepsPerCycle
      dividend == IF SignedOp(owner.op) THEN AbsW(owner.a) ELSE owner.a
      bits     == quotient_q % 2 ^ k
      rest     == quotient_q \div 2 ^ k
  IN busy /\ ~special_q =>
       /\ dividend = (bits * divisor_q + remainder_q) * 2 ^ (Bits - k) + rest
       /\ remainder_q < divisor_q
       /\ rest < 2 ^ (Bits - k)

Contract == INSTANCE DivContract WITH
  DivLatency <- Latency,
  div <- [busy |-> busy, done |-> done, cycle |-> cycle_q,
          op |-> owner.op, a |-> owner.a, b |-> owner.b, result |-> result]

\* The divider delivers the ISA's quotient or remainder of the operands it was
\* started with, Latency clocks later, and nothing at any other time.
ImplementsContract == Contract!DivSpec

\* An accepted divide is delivered unless the core is reset.
Delivered == busy ~> (done \/ owner.op = "none")

=============================================================================
