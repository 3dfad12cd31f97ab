---------------------------- MODULE DivAlgorithm ----------------------------
(***************************************************************************)
(* reference_model/divider_algorithm.py, the Python rendering of the       *)
(* divider, and what scripts/run_divider_stress.py expects of it.          *)
(***************************************************************************)
EXTENDS DivUnit, IsaMath

\* Mutant of BitStep: a remainder equal to the divisor is not reduced.
BitStepStrict(s, d) ==
  LET rem == (2 * (s.rem % Size)) + ((s.q \div (Size \div 2)) % 2)
      q   == Trunc(2 * s.q)
  IN IF rem > d THEN [rem |-> rem - d, q |-> q + 1] ELSE [rem |-> rem, q |-> q]
\* One turn of the inner loop.
BitStep(s, d) ==
  LET rem == (2 * (s.rem % Size)) + ((s.q \div (Size \div 2)) % 2)
      q   == Trunc(2 * s.q)
  IN IF rem >= d THEN [rem |-> rem - d, q |-> q + 1] ELSE [rem |-> rem, q |-> q]

\* n turns of it
BitSteps(n, s, d) ==
  LET loop[k \in 0 .. n] == IF k = 0 THEN s ELSE BitStep(loop[k - 1], d)
  IN loop[n]

\* restoring()
RestoringPy(op, a, b) ==
  LET signed == op \in {"div", "rem"}
      neg(x) == x >= Size \div 2
      q0 == IF signed /\ neg(a) THEN Trunc(-Signed(a)) ELSE a
      d  == IF signed /\ neg(b) THEN Trunc(-Signed(b)) ELSE b
      end == BitSteps(Latency * StepsPerCycle, [rem |-> 0, q |-> q0], d)
      q   == IF signed /\ neg(a) # neg(b) THEN Trunc(-end.q) ELSE end.q
      rem == IF signed /\ neg(a) THEN Trunc(-end.rem) ELSE Trunc(end.rem)
  IN CASE b = 0 -> IF op \in {"div", "divu"} THEN Size - 1 ELSE a
       [] b # 0 /\ signed /\ a = Size \div 2 /\ b = Size - 1 ->
            IF op = "div" THEN Size \div 2 ELSE 0
       [] OTHER -> IF op \in {"div", "divu"} THEN q ELSE rem

\* exp: what the stress script computes on integers, and truncates.
StressExpected(op, a, b) ==
  LET qs == TruncDiv(Signed(a), Signed(b)) IN
  CASE b = 0 -> IF op \in {"div", "divu"} THEN Size - 1 ELSE a
    [] b # 0 /\ op \in {"div", "rem"} /\ a = Size \div 2 /\ b = Size - 1 ->
         IF op = "div" THEN Size \div 2 ELSE 0
    [] b # 0 /\ op = "divu" -> a \div b
    [] b # 0 /\ op = "remu" -> a % b
    [] OTHER -> Trunc(IF op = "div" THEN qs ELSE Signed(a) - qs * Signed(b))

\* The Python rendering is bit-accurate: whenever the unit delivers a result, it
\* is the one the Python loop computes from the same operands, and the one the
\* stress script compares that loop with.
AlgorithmIsTheUnit ==
  done => /\ result = RestoringPy(owner.op, owner.a, owner.b)
          /\ result = StressExpected(owner.op, owner.a, owner.b)

=============================================================================
