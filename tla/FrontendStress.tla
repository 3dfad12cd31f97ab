--------------------------- MODULE FrontendStress ---------------------------
(***************************************************************************)
(* The front end on its own, driven the way the ValueErrors of             *)
(* reference_model/frontend_replay_model.py allow: slot 1 never issues     *)
(* alone, nothing issues from an invalid slot, with a redirect or while    *)
(* the core is halted.  Which slots issue, when a redirect comes and       *)
(* whether the core is halted are otherwise arbitrary.                     *)
(***************************************************************************)
EXTENDS Frontend, Sequences

VARIABLES
  issued,     \* what step() returned: the slots that issued, oldest first
  redirect    \* its argument: {t} for a redirect to t, {} for None

stressVars == <<frontVars, issued, redirect>>

Handed(slot) == [pc |-> slot.pc, ins |-> slot.ins]

Cycle(issue0, issue1, stopped) ==
  /\ stopped => ~issue0
  /\ issue1 => issue0 /\ buf1.v
  /\ issue0 => buf0.v
  /\ FrontStep(issue0, issue1, FALSE, next_fetch_pc, stopped)
  /\ issued' = CASE issue0 /\ issue1  -> <<Handed(buf0), Handed(buf1)>>
                 [] issue0 /\ ~issue1 -> <<Handed(buf0)>>
                 [] ~issue0           -> <<>>
  /\ redirect' = {}

Redirect(target, stopped) ==
  /\ FrontStep(FALSE, FALSE, TRUE, target, stopped)
  /\ issued' = <<>> /\ redirect' = {target}

Reset == FrontReset /\ UNCHANGED imem /\ issued' = <<>> /\ redirect' = {ResetPc}

Init == FrontInit /\ issued = <<>> /\ redirect = {ResetPc}

Next ==
  \/ \E issue0, issue1, stopped \in BOOLEAN : Cycle(issue0, issue1, stopped)
  \/ \E target \in {a \in Word : Aligned(a)}, stopped \in BOOLEAN : Redirect(target, stopped)
  \/ Reset

Spec == Init /\ [][Next]_stressVars

-----------------------------------------------------------------------------
TypeOK ==
  /\ imem \in Programs
  /\ buf0 \in Slot /\ buf1 \in Slot
  /\ next_fetch_pc \in Word
  /\ issued \in Seq([pc : Word, ins : Instr]) /\ redirect \subseteq Word

\* The buffer is a window on the program: both slots are valid or neither is,
\* they hold the two words before next_fetch_pc, and all addresses are aligned
\* (invariant() of the Python model, with what the slots hold added).
WindowOK ==
  /\ Aligned(next_fetch_pc)
  /\ buf1.v <=> buf0.v
  /\ buf0.v => /\ Aligned(buf0.pc)
               /\ buf1.pc = AddW(buf0.pc, 4)
               /\ next_fetch_pc = AddW(buf0.pc, 8)
               /\ buf0.ins = Fetch(buf0.pc) /\ buf1.ins = Fetch(buf1.pc)

Order == INSTANCE FetchOrder WITH
           expected <- IF buf0.v THEN buf0.pc ELSE next_fetch_pc

\* Replay and refill neither lose nor repeat nor reorder an instruction,
\* whatever the pattern of single issue, dual issue, stalls and redirects.
InProgramOrder == Order!Spec

=============================================================================
