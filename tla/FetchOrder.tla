----------------------------- MODULE FetchOrder -----------------------------
(***************************************************************************)
(* What the front end promises, as scripts/run_frontend_replay_stress.py   *)
(* checks it: the instructions it hands to issue are the words of the      *)
(* program from the last redirect target on, in address order, each        *)
(* exactly once.                                                           *)
(***************************************************************************)
EXTENDS RiscvPkg, Sequences

CONSTANTS ResetPc, Programs

VARIABLES
  imem,
  expected,   \* the address of the next instruction to hand out
  issued,     \* what was handed out in the last cycle, oldest first
  redirect    \* {t} if the last cycle redirected to t, {} otherwise

orderVars == <<imem, expected, issued, redirect>>

Word0(a) == [pc |-> a, ins |-> IF a \in DOMAIN imem THEN imem[a] ELSE Ebreak]

Init == imem \in Programs /\ expected = ResetPc /\ issued = <<>> /\ redirect = {ResetPc}

HandOut ==
  /\ \/ issued' = <<>> /\ expected' = expected
     \/ issued' = <<Word0(expected)>> /\ expected' = AddW(expected, 4)
     \/ /\ issued' = <<Word0(expected), Word0(AddW(expected, 4))>>
        /\ expected' = AddW(expected, 8)
  /\ redirect' = {}
  /\ UNCHANGED imem

\* A redirect, and a reset, hand out nothing and go on at the aligned address
\* they name.
Restart ==
  /\ expected' \in {a \in Word : Aligned(a)}
  /\ redirect' = {expected'}
  /\ issued' = <<>>
  /\ UNCHANGED imem

Next == HandOut \/ Restart

Spec == Init /\ [][Next]_orderVars

=============================================================================
