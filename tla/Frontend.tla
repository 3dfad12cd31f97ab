------------------------------ MODULE Frontend ------------------------------
(***************************************************************************)
(* The two-entry fetch and replay buffer of superscalar_core.sv and the    *)
(* instruction memory it reads.  next_fetch_pc is the address of the first *)
(* instruction that is not buffered.  When only slot 0 issues, slot 1      *)
(* moves into slot 0 and one word is appended: that is how a blocked       *)
(* younger instruction is replayed.                                        *)
(***************************************************************************)
EXTENDS RiscvPkg

CONSTANTS
  ResetPc,    \* RESET_PC
  Programs    \* the instruction memories considered: functions from word
              \* addresses to instructions

ASSUME ResetPcAssumption == ResetPc \in Word /\ Aligned(ResetPc)
ASSUME ProgramsAssumption ==
  \A p \in Programs : DOMAIN p \subseteq Word /\ \A a \in DOMAIN p : p[a] \in Instr

VARIABLES
  imem,            \* the program; EBREAK outside its domain
  buf0, buf1,      \* buf_v*, buf_pc*, buf_instr*
  next_fetch_pc

frontVars == <<imem, buf0, buf1, next_fetch_pc>>

Slot == [v : BOOLEAN, pc : Word, ins : Instr]

Fetch(a) == IF a \in DOMAIN imem THEN imem[a] ELSE Ebreak

EmptySlot == [v |-> FALSE, pc |-> 0, ins |-> Nop]

FrontReset ==
  /\ buf0' = EmptySlot /\ buf1' = EmptySlot
  /\ next_fetch_pc' = ResetPc

FrontInit ==
  /\ imem \in Programs
  /\ buf0 = EmptySlot /\ buf1 = EmptySlot
  /\ next_fetch_pc = ResetPc

Fetched(a) == [v |-> TRUE, pc |-> a, ins |-> Fetch(a)]

FrontFlush(target) ==
  /\ buf0' = [buf0 EXCEPT !.v = FALSE]
  /\ buf1' = [buf1 EXCEPT !.v = FALSE]
  /\ next_fetch_pc' = target

\* Mutant of FrontRefill: advances by one word.
FrontRefillShort ==
  /\ buf0' = Fetched(next_fetch_pc) /\ buf1' = Fetched(AddW(next_fetch_pc, 4))
  /\ next_fetch_pc' = AddW(next_fetch_pc, 4)
FrontRefill ==
  /\ buf0' = Fetched(next_fetch_pc)
  /\ buf1' = Fetched(AddW(next_fetch_pc, 4))
  /\ next_fetch_pc' = AddW(next_fetch_pc, 8)

\* Mutant of FrontReplay: drops the blocked instruction as if both had issued.
FrontReplayLost ==
  /\ buf0' = Fetched(next_fetch_pc) /\ buf1' = Fetched(AddW(next_fetch_pc, 4))
  /\ next_fetch_pc' = AddW(next_fetch_pc, 8)
FrontReplay ==
  /\ buf0' = buf1
  /\ buf1' = Fetched(next_fetch_pc)
  /\ next_fetch_pc' = AddW(next_fetch_pc, 4)

FrontHold == UNCHANGED <<buf0, buf1, next_fetch_pc>>

\* One clock edge: a redirect wins over the halt, the halt over everything else.
FrontStep(issue0, issue1, redirect, target, stopped) ==
  /\ \/ redirect /\ FrontFlush(target)
     \/ ~redirect /\ ~stopped /\ (~buf0.v \/ (issue0 /\ issue1)) /\ FrontRefill
     \/ ~redirect /\ ~stopped /\ buf0.v /\ issue0 /\ ~issue1 /\ FrontReplay
     \/ ~redirect /\ (stopped \/ (buf0.v /\ ~issue0)) /\ FrontHold
  /\ UNCHANGED imem

=============================================================================
