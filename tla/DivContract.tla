---------------------------- MODULE DivContract -----------------------------
(***************************************************************************)
(* What the core relies on in rtl/mdu/div_unit.sv: a start that finds the  *)
(* unit idle latches the operands, and DivLatency clock edges later done   *)
(* is high for one cycle with the quotient or the remainder on result.     *)
(* How the quotient is computed is DivUnit's business.                     *)
(***************************************************************************)
EXTENDS RiscvPkg

CONSTANTS
  DivLatency,        \* LATENCY
  DivY(_, _, _)      \* DivY(op, a, b): the result of a DIV/REM operation

ASSUME DivAssumption ==
  /\ DivLatency \in Nat \ {0}
  /\ \A op \in DivFn, a \in Word, b \in Word : DivY(op, a, b) \in Word

VARIABLE div   \* busy, done, cycle_q, result, and the operands it was started with

DivState == [busy : BOOLEAN, done : BOOLEAN, cycle : 0 .. DivLatency - 1,
             op : Fn, a : Word, b : Word, result : Word]

DivIdle == [busy |-> FALSE, done |-> FALSE, cycle |-> 0,
            op |-> "none", a |-> 0, b |-> 0, result |-> 0]

DivAccept(op, a, b) ==
  div' = [busy |-> TRUE, done |-> FALSE, cycle |-> 0,
          op |-> op, a |-> a, b |-> b, result |-> div.result]

DivFinish ==
  div' = [div EXCEPT !.busy = FALSE, !.done = TRUE, !.cycle = 0,
                     !.result = DivY(div.op, div.a, div.b)]

DivIterate == div' = [div EXCEPT !.done = FALSE, !.cycle = div.cycle + 1]

DivRest == div' = [div EXCEPT !.done = FALSE]

DivStep(start, op, a, b) ==
  \/ ~div.busy /\ start  /\ DivAccept(op, a, b)
  \/ ~div.busy /\ ~start /\ DivRest
  \/ div.busy /\ div.cycle = DivLatency - 1 /\ DivFinish
  \/ div.busy /\ div.cycle # DivLatency - 1 /\ DivIterate

-----------------------------------------------------------------------------
(* The unit on its own, with any operands at any time. *)

DivReset == div' = DivIdle

DivNext ==
  \/ /\ div'.op \in DivFn /\ div'.a \in Word /\ div'.b \in Word
     /\ DivStep(TRUE, div'.op, div'.a, div'.b)
  \/ DivStep(FALSE, "div", 0, 0)
  \/ DivReset

DivSpec == div = DivIdle /\ [][DivNext]_div

=============================================================================
