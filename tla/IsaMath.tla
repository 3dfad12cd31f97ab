------------------------------ MODULE IsaMath -------------------------------
(***************************************************************************)
(* The quotients and remainders of reference_model/rv32im_model.py, at any *)
(* width, computed on integers.                                            *)
(***************************************************************************)
EXTENDS Width

Magnitude(x) == IF x < 0 THEN -x ELSE x

\* trunc_div: division towards zero
TruncDiv(a, b) ==
  LET q == Magnitude(a) \div Magnitude(b) IN IF (a < 0) # (b < 0) THEN -q ELSE q

\* The DIV, DIVU, REM and REMU arms of step().
DivPy(op, a, b) ==
  LET overflow == a = Size \div 2 /\ b = Size - 1 IN
  CASE op \in {"div", "divu"} /\ b = 0 -> Size - 1
    [] op \in {"rem", "remu"} /\ b = 0 -> a
    [] op = "div" /\ b # 0 /\ overflow -> Size \div 2
    [] op = "rem" /\ b # 0 /\ overflow -> 0
    [] op = "div" /\ b # 0 /\ ~overflow -> Trunc(TruncDiv(Signed(a), Signed(b)))
    [] op = "rem" /\ b # 0 /\ ~overflow -> Trunc(Signed(a) - TruncDiv(Signed(a), Signed(b)) * Signed(b))
    [] op = "divu" /\ b # 0 -> a \div b
    [] op = "remu" /\ b # 0 -> a % b

=============================================================================
