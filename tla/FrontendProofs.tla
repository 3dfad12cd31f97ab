--------------------------- MODULE FrontendProofs ---------------------------
(***************************************************************************)
(* The front end hands out the program in order, whatever issue, stalls,   *)
(* redirects and the halt do to it: for every program, word size and reset *)
(* address.                                                                *)
(***************************************************************************)
EXTENDS FrontendStress, TLAPS

-----------------------------------------------------------------------------
(* Words and slots. *)

LEMMA WordFacts ==
  /\ 0 \in Word /\ 4 \in Word /\ 8 \in Word
  /\ \A a \in Word : AddW(a, 4) \in Word /\ AddW(a, 8) \in Word
  /\ \A a \in Word : AddW(AddW(a, 4), 4) = AddW(a, 8)
BY WordAssumption DEF AddW, Word

LEMMA AlignedOn ==
  ASSUME NEW a \in Word, Aligned(a)
  PROVE  Aligned(AddW(a, 4)) /\ Aligned(AddW(a, 8))
BY WordAssumption DEF AddW, Word, Aligned

LEMMA SlotFacts ==
  /\ EmptySlot \in Slot
  /\ imem \in Programs => \A a \in Word : Fetched(a) \in Slot
<1>1. Ebreak \in Instr /\ Nop \in Instr
  BY WordFacts, RegAssumption
     DEF Ebreak, Nop, Instr, WellDecoded, Class, Fn, AluFn, SysFn, BrFn, MulFn, DivFn, MemFn
<1> QED
  BY <1>1, WordFacts, ProgramsAssumption DEF EmptySlot, Slot, Fetched, Fetch

-----------------------------------------------------------------------------
(* The window invariant. *)

Window == TypeOK /\ WindowOK

LEMMA InitWindow == Init => Window
BY SlotFacts, ResetPcAssumption
   DEF Init, FrontInit, Window, TypeOK, WindowOK, EmptySlot

\* The branches of the clocked process, one at a time.
LEMMA RefillWindow ==
  ASSUME Window, FrontRefill, UNCHANGED imem
  PROVE  /\ buf0' \in Slot /\ buf1' \in Slot /\ next_fetch_pc' \in Word /\ imem' \in Programs
         /\ WindowOK'
<1>1. next_fetch_pc \in Word /\ Aligned(next_fetch_pc) /\ imem \in Programs
  BY DEF Window, TypeOK, WindowOK
<1> QED
  BY <1>1, WordFacts, AlignedOn, SlotFacts DEF FrontRefill, WindowOK, Fetched, Fetch

LEMMA ReplayWindow ==
  ASSUME Window, FrontReplay, buf0.v, UNCHANGED imem
  PROVE  /\ buf0' \in Slot /\ buf1' \in Slot /\ next_fetch_pc' \in Word /\ imem' \in Programs
         /\ WindowOK'
<1>1. /\ next_fetch_pc \in Word /\ Aligned(next_fetch_pc) /\ imem \in Programs
      /\ buf0 \in Slot /\ buf1 \in Slot /\ buf0.pc \in Word
  BY DEF Window, TypeOK, WindowOK, Slot
<1>2. /\ buf1.v /\ Aligned(buf0.pc) /\ buf1.pc = AddW(buf0.pc, 4)
      /\ next_fetch_pc = AddW(buf0.pc, 8) /\ buf1.ins = Fetch(buf1.pc)
  BY DEF Window, WindowOK
<1>3. /\ buf1.pc \in Word /\ Aligned(buf1.pc) /\ next_fetch_pc = AddW(buf1.pc, 4)
      /\ AddW(next_fetch_pc, 4) = AddW(buf1.pc, 8)
  BY <1>1, <1>2, WordFacts, AlignedOn
<1> QED
  BY <1>1, <1>2, <1>3, WordFacts, AlignedOn, SlotFacts
     DEF FrontReplay, WindowOK, Fetched, Fetch

LEMMA FlushWindow ==
  ASSUME Window, NEW target \in Word, Aligned(target), FrontFlush(target), UNCHANGED imem
  PROVE  /\ buf0' \in Slot /\ buf1' \in Slot /\ next_fetch_pc' \in Word /\ imem' \in Programs
         /\ WindowOK'
BY DEF FrontFlush, Window, TypeOK, WindowOK, Slot

LEMMA HoldWindow ==
  ASSUME Window, FrontHold, UNCHANGED imem
  PROVE  /\ buf0' \in Slot /\ buf1' \in Slot /\ next_fetch_pc' \in Word /\ imem' \in Programs
         /\ WindowOK'
BY DEF FrontHold, Window, TypeOK, WindowOK, Fetch

LEMMA NextWindow ==
  ASSUME Window, [Next]_stressVars
  PROVE  Window'
<1>1. ASSUME NEW issue0 \in BOOLEAN, NEW issue1 \in BOOLEAN, NEW stopped \in BOOLEAN,
             Cycle(issue0, issue1, stopped)
      PROVE  Window'
  <2>1. /\ buf0' \in Slot /\ buf1' \in Slot /\ next_fetch_pc' \in Word /\ imem' \in Programs
        /\ WindowOK'
    BY <1>1, RefillWindow, ReplayWindow, HoldWindow DEF Cycle, FrontStep
  <2>2. \A s \in Slot : Handed(s) \in [pc : Word, ins : Instr]
    BY DEF Handed, Slot
  <2>3. buf0 \in Slot /\ buf1 \in Slot
    BY DEF Window, TypeOK
  <2>4. issued' \in Seq([pc : Word, ins : Instr]) /\ redirect' \subseteq Word
    <3>1. CASE issue0 /\ issue1
      BY <1>1, <2>2, <2>3, <3>1 DEF Cycle
    <3>2. CASE issue0 /\ ~issue1
      BY <1>1, <2>2, <2>3, <3>2 DEF Cycle
    <3>3. CASE ~issue0
      BY <1>1, <3>3 DEF Cycle
    <3> QED
      BY <3>1, <3>2, <3>3
  <2> QED
    BY <2>1, <2>4 DEF Window, TypeOK
<1>2. ASSUME NEW target \in Word, Aligned(target), NEW stopped \in BOOLEAN,
             Redirect(target, stopped)
      PROVE  Window'
  <2>1. FrontFlush(target) /\ UNCHANGED imem /\ issued' = <<>> /\ redirect' = {target}
    BY <1>2 DEF Redirect, FrontStep
  <2> QED
    BY <1>2, <2>1, FlushWindow DEF Window, TypeOK
<1>3. CASE Reset
  BY <1>3, SlotFacts, ResetPcAssumption
     DEF Reset, FrontReset, Window, TypeOK, WindowOK, EmptySlot
<1>4. CASE UNCHANGED stressVars
  BY <1>4 DEF stressVars, frontVars, Window, TypeOK, WindowOK, Fetch
<1> QED
  BY <1>1, <1>2, <1>3, <1>4 DEF Next

\* The buffer is always the two words of the program before next_fetch_pc, or
\* empty, and everything is aligned (superscalar_core.sv, the buffer process).
THEOREM WindowCorrect == Spec => [](TypeOK /\ WindowOK)
<1>1. Window /\ [Next]_stressVars => Window'
  BY NextWindow
<1> QED
  BY <1>1, InitWindow, PTL DEF Spec, Window

\* The buffer holds words and their addresses, the fetch address is a word, and
\* what is handed out is a sequence of instructions, whoever issues and redirects.
THEOREM FrontendTypes == Spec => []TypeOK
BY WindowCorrect, PTL

-----------------------------------------------------------------------------
(* The front end implements FetchOrder. *)

Expected == IF buf0.v THEN buf0.pc ELSE next_fetch_pc

\* The specifications count and decode alike.
LEMMA SameWords ==
  /\ Order!Ebreak = Ebreak /\ Order!Word = Word
  /\ \A a, b : Order!AddW(a, b) = AddW(a, b)
  /\ \A a : (Order!Aligned(a) <=> Aligned(a)) /\ Order!Word0(a) = [pc |-> a, ins |-> Fetch(a)]
BY DEF Order!Ebreak, Ebreak, Order!Nop, Nop, Order!AddW, AddW, Order!Word, Word,
       Order!Aligned, Aligned, Order!Word0, Fetch

LEMMA CycleHandsOut ==
  ASSUME Window, NEW issue0 \in BOOLEAN, NEW issue1 \in BOOLEAN, NEW stopped \in BOOLEAN,
         Cycle(issue0, issue1, stopped)
  PROVE  Order!HandOut
<1>1. /\ issue1 => issue0 /\ buf1.v
      /\ issue0 => buf0.v /\ ~stopped
      /\ redirect' = {} /\ imem' = imem
  BY DEF Cycle, FrontStep
<1>2. buf0 \in Slot /\ buf1 \in Slot /\ next_fetch_pc \in Word
  BY DEF Window, TypeOK
<1>3. buf0.v => /\ Expected = buf0.pc
                /\ Handed(buf0) = Order!Word0(Expected)
                /\ Handed(buf1) = Order!Word0(AddW(Expected, 4))
                /\ next_fetch_pc = AddW(Expected, 8)
  <2> SUFFICES ASSUME buf0.v
               PROVE  /\ Handed(buf0) = Order!Word0(buf0.pc)
                      /\ Handed(buf1) = Order!Word0(AddW(buf0.pc, 4))
                      /\ next_fetch_pc = AddW(buf0.pc, 8)
    BY DEF Expected
  <2>1. /\ buf1.pc = AddW(buf0.pc, 4) /\ next_fetch_pc = AddW(buf0.pc, 8)
        /\ buf0.ins = Fetch(buf0.pc) /\ buf1.ins = Fetch(buf1.pc)
    BY DEF Window, WindowOK
  <2> QED
    BY <2>1, SameWords DEF Handed
<1>4. CASE issue0 /\ issue1
  <2>1. issued' = <<Handed(buf0), Handed(buf1)>> /\ FrontRefill
    BY <1>1, <1>4 DEF Cycle, FrontStep
  <2>2. Expected' = AddW(Expected, 8)
    BY <1>1, <1>3, <1>4, <2>1 DEF FrontRefill, Fetched, Expected
  <2> QED
    BY <1>1, <1>3, <1>4, <2>1, <2>2, SameWords DEF Order!HandOut, Expected
<1>5. CASE issue0 /\ ~issue1
  <2>1. issued' = <<Handed(buf0)>> /\ FrontReplay
    BY <1>1, <1>5 DEF Cycle, FrontStep
  <2>2. buf1.v /\ buf1.pc = AddW(Expected, 4)
    BY <1>1, <1>3, <1>5 DEF Window, WindowOK
  <2>3. Expected' = AddW(Expected, 4)
    BY <2>1, <2>2 DEF FrontReplay, Expected
  <2> QED
    BY <1>1, <1>3, <1>5, <2>1, <2>3, SameWords DEF Order!HandOut, Expected
<1>6. CASE ~issue0
  <2>1. issued' = <<>> /\ (FrontHold \/ (~buf0.v /\ FrontRefill))
    BY <1>1, <1>6 DEF Cycle, FrontStep
  <2>2. Expected' = Expected
    BY <2>1 DEF FrontHold, FrontRefill, Fetched, Expected
  <2> QED
    BY <1>1, <2>1, <2>2 DEF Order!HandOut, Expected
<1> QED
  BY <1>4, <1>5, <1>6

LEMMA NextHandsOut ==
  ASSUME Window, [Next]_stressVars
  PROVE  [Order!Next]_(Order!orderVars)
<1>1. ASSUME NEW issue0 \in BOOLEAN, NEW issue1 \in BOOLEAN, NEW stopped \in BOOLEAN,
             Cycle(issue0, issue1, stopped)
      PROVE  Order!Next
  BY <1>1, CycleHandsOut DEF Order!Next
<1>2. ASSUME NEW target \in Word, Aligned(target), NEW stopped \in BOOLEAN,
             Redirect(target, stopped)
      PROVE  Order!Next
  <2>1. FrontFlush(target) /\ UNCHANGED imem /\ issued' = <<>> /\ redirect' = {target}
    BY <1>2 DEF Redirect, FrontStep
  <2>2. ~buf0'.v /\ next_fetch_pc' = target
    BY <2>1 DEF FrontFlush, Window, TypeOK, Slot
  <2> QED
    BY <1>2, <2>1, <2>2, SameWords DEF Order!Next, Order!Restart
<1>3. CASE Reset
  BY <1>3, ResetPcAssumption, SameWords
     DEF Reset, FrontReset, EmptySlot, Order!Next, Order!Restart
<1>4. CASE UNCHANGED stressVars
  BY <1>4 DEF stressVars, frontVars, Order!orderVars
<1> QED
  BY <1>1, <1>2, <1>3, <1>4 DEF Next

\* Replay, refill, redirect and reset implement "the program from the last
\* target on, each word once", for every program and every pattern of issue.
THEOREM FrontendKeepsOrder == Spec => InProgramOrder
<1>1. Init => Order!Init
  BY DEF Init, FrontInit, EmptySlot, Order!Init
<1>2. Window /\ [Next]_stressVars => [Order!Next]_(Order!orderVars)
  BY NextHandsOut
<1>3. Spec => []Window
  BY WindowCorrect DEF Window
<1> QED
  BY <1>1, <1>2, <1>3, PTL DEF Spec, InProgramOrder, Order!Spec

=============================================================================
