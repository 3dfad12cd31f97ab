----------------------------- MODULE CoreProofs -----------------------------
(***************************************************************************)
(* What is proved of Core for every program, word size, register file,     *)
(* divider latency and datapath, in three parts: the types of its          *)
(* registers, the order and precision of what is in flight, and the        *)
(* operands of the instructions in EX.                                     *)
(***************************************************************************)
EXTENDS CoreProps, TLAPS

-----------------------------------------------------------------------------
(* Words. *)

LEMMA SmallWords == 0 \in Word /\ 4 \in Word /\ 8 \in Word
BY WordAssumption DEF Word

LEMMA AddWType ==
  ASSUME NEW a \in Word, NEW b \in Word
  PROVE  AddW(a, b) \in Word
BY WordAssumption DEF AddW, Word

LEMMA ClearBit0Type ==
  ASSUME NEW a \in Word
  PROVE  ClearBit0(a) \in Word
BY WordAssumption DEF ClearBit0, Word

-----------------------------------------------------------------------------
(* What the decoder guarantees about the operation of an instruction. *)

LEMMA AluOpType ==
  ASSUME NEW i \in LatchInstr
  PROVE  AluOp(i) \in AluFn
BY DEF LatchInstr, Instr, WellDecoded, NoInstr, Nop, AluOp, Lane1Eligible, AluFn

LEMMA MemOpType ==
  ASSUME NEW i \in LatchInstr
  PROVE  MemOp(i) \in MemFn
BY DEF LatchInstr, Instr, WellDecoded, NoInstr, Nop, MemOp, MemFn

LEMMA MulDivOpType ==
  ASSUME NEW i \in LatchInstr
  PROVE  /\ IsMul(i) => i.fn \in MulFn
         /\ IsDiv(i) => i.fn \in DivFn
BY DEF LatchInstr, Instr, WellDecoded, NoInstr, Nop, IsMul, IsDiv

LEMMA LatchFields ==
  ASSUME NEW i \in LatchInstr
  PROVE  i.imm \in Word /\ i.rd \in Reg /\ i.rs1 \in Reg /\ i.rs2 \in Reg /\ i.fn \in Fn
BY SmallWords, RegAssumption DEF LatchInstr, Instr, NoInstr, Nop, Fn, AluFn

LEMMA EbreakIsInstr == Ebreak \in Instr /\ Nop \in Instr
BY SmallWords, RegAssumption
   DEF Ebreak, Nop, Instr, WellDecoded, Class, Fn, AluFn, SysFn, BrFn, MulFn, DivFn, MemFn

LEMMA Bubbles ==
  /\ NoInstr \in LatchInstr
  /\ ExBubble \in ExLatch /\ MemBubble \in MemLatch /\ WbBubble \in WbLatch
  /\ EmptySlot \in Slot
BY SmallWords, EbreakIsInstr
   DEF LatchInstr, ExBubble, ExLatch, MemBubble, MemLatch, WbBubble, WbLatch, EmptySlot, Slot, Exc

-----------------------------------------------------------------------------
(* Every wire carries a value of its type. *)

LEMMA AluYType ==
  ASSUME NEW l \in ExLatch
  PROVE  AluY(l) \in Word
<1>1. l.ins \in LatchInstr /\ l.pc \in Word /\ l.op1 \in Word /\ l.op2 \in Word
  BY DEF ExLatch
<1>2. AluOp(l.ins) \in AluFn /\ l.ins.imm \in Word
  BY <1>1, AluOpType, LatchFields
<1> QED
  BY <1>1, <1>2, SmallWords, DatapathAssumption DEF AluY

LEMMA Ex0Types ==
  ASSUME TypeOK
  PROVE  /\ EffAddr \in Word /\ ControlTarget \in Word
         /\ Ex0Exc \in Exc /\ Ex0Result \in Word /\ Ex1Result \in Word
<1>1. /\ ex0 \in ExLatch /\ ex1 \in ExLatch
      /\ ex0.ins \in LatchInstr /\ ex0.pc \in Word /\ ex0.op1 \in Word /\ ex0.op2 \in Word
  BY DEF TypeOK, ExLatch
<1>2. ex0.ins.imm \in Word
  BY <1>1, LatchFields
<1>3. EffAddr \in Word
  BY <1>1, <1>2, AddWType DEF EffAddr
<1>4. ControlTarget \in Word
  BY <1>1, <1>2, AddWType, ClearBit0Type DEF ControlTarget
<1>5. Ex0Exc \in Exc
  BY DEF Ex0Exc, Exc, Cause
<1>6. AluY(ex0) \in Word /\ Ex1Result \in Word
  BY <1>1, AluYType DEF Ex1Result
<1>7. IsMul(ex0.ins) => Mul(ex0.ins.fn, ex0.op1, ex0.op2) \in Word
  BY <1>1, MulDivOpType, DatapathAssumption
<1>8. div.result \in Word
  BY DEF TypeOK, DivState
<1>9. AddW(ex0.pc, 4) \in Word
  BY <1>1, AddWType, SmallWords
<1> QED
  BY <1>3, <1>4, <1>5, <1>6, <1>7, <1>8, <1>9 DEF Ex0Result

LEMMA MemTypes ==
  ASSUME TypeOK
  PROVE  Mem0Value \in Word /\ mem1.result \in Word
<1>1. /\ mem0.ins \in LatchInstr /\ mem0.addr \in Word /\ mem0.result \in Word
      /\ mem1.result \in Word
  BY DEF TypeOK, MemLatch
<1>2. \A a : DmemWord(a) \in Word
  BY SmallWords DEF TypeOK, DmemWord
<1>3. LsuLoadValue \in Word
  BY <1>1, <1>2, MemOpType, DatapathAssumption DEF LsuLoadValue
<1> QED
  BY <1>1, <1>3 DEF Mem0Value

LEMMA IssuedType ==
  ASSUME TypeOK, NEW d \in Slot
  PROVE  Issued(d) \in ExLatch
<1>1. d.pc \in Word /\ d.ins \in LatchInstr /\ d.ins.rs1 \in Reg /\ d.ins.rs2 \in Reg
  BY LatchFields DEF Slot, LatchInstr
<1>2. wb0.value \in Word /\ wb1.value \in Word /\ \A r \in Reg : regs[r] \in Word
  BY DEF TypeOK, WbLatch
<1>3. ASSUME NEW used, NEW r \in Reg
      PROVE  Operand(used, r) \in Word
  BY <1>2, Ex0Types, MemTypes, SmallWords DEF Operand
<1> QED
  BY <1>1, <1>3 DEF Issued, ExLatch

-----------------------------------------------------------------------------
(* Type correctness.  TypeOK alone is not inductive: the result of the      *)
(* divider is a word because it was started with a divide.                  *)

DivOpOK == div.busy => div.op \in DivFn

TypeInv == TypeOK /\ DivOpOK

LEMMA FetchType ==
  ASSUME TypeOK, NEW a \in Word
  PROVE  Fetched(a) \in Slot
BY ProgramsAssumption, EbreakIsInstr DEF TypeOK, Fetched, Fetch, Slot

LEMMA FrontTypes ==
  ASSUME TypeOK, NEW i0, NEW i1, NEW redirect, NEW target \in Word, NEW stopped,
         FrontStep(i0, i1, redirect, target, stopped)
  PROVE  imem' \in Programs /\ buf0' \in Slot /\ buf1' \in Slot /\ next_fetch_pc' \in Word
<1>1. /\ imem \in Programs /\ buf0 \in Slot /\ buf1 \in Slot
      /\ next_fetch_pc \in Word
      /\ AddW(next_fetch_pc, 4) \in Word /\ AddW(next_fetch_pc, 8) \in Word
  BY AddWType, SmallWords DEF TypeOK
<1>2. imem' = imem
  BY DEF FrontStep
<1>3. CASE FrontFlush(target)
  BY <1>1, <1>2, <1>3 DEF FrontFlush, Slot
<1>4. CASE FrontRefill
  BY <1>1, <1>2, <1>4, FetchType DEF FrontRefill
<1>5. CASE FrontReplay
  BY <1>1, <1>2, <1>5, FetchType DEF FrontReplay
<1>6. CASE FrontHold
  BY <1>1, <1>2, <1>6 DEF FrontHold
<1> QED
  BY <1>3, <1>4, <1>5, <1>6 DEF FrontStep

LEMMA DivTypes ==
  ASSUME TypeInv, DivStep(DivStart, ex0.ins.fn, ex0.op1, ex0.op2)
  PROVE  div' \in DivState /\ DivOpOK'
<1>1. div \in DivState /\ DivOpOK /\ DivLatency \in Nat \ {0}
  BY DivAssumption DEF TypeInv, TypeOK
<1>2. /\ ex0.ins \in LatchInstr /\ ex0.ins.fn \in Fn
      /\ ex0.op1 \in Word /\ ex0.op2 \in Word
  BY LatchFields DEF TypeInv, TypeOK, ExLatch
<1>3. CASE DivStart /\ DivAccept(ex0.ins.fn, ex0.op1, ex0.op2)
  <2>1. ex0.ins.fn \in DivFn
    BY <1>2, <1>3, MulDivOpType DEF DivStart, DivInEx
  <2> QED
    BY <1>1, <1>2, <1>3, <2>1 DEF DivAccept, DivState, DivOpOK
<1>4. CASE ~div.busy /\ DivRest
  BY <1>1, <1>4 DEF DivRest, DivState, DivOpOK
<1>5. CASE div.busy /\ DivFinish
  <2>1. DivY(div.op, div.a, div.b) \in Word
    BY <1>1, <1>5, DivAssumption DEF DivState, DivOpOK
  <2>2. 0 \in 0 .. DivLatency - 1
    BY <1>1
  <2>3. div' \in DivState
    BY <1>1, <1>5, <2>1, <2>2 DEF DivFinish, DivState
  <2> QED
    BY <1>1, <1>5, <2>3 DEF DivFinish, DivState, DivOpOK
<1>6. CASE div.busy /\ div.cycle # DivLatency - 1 /\ DivIterate
  <2>1. div.cycle + 1 \in 0 .. DivLatency - 1
    BY <1>1, <1>6 DEF DivState
  <2>2. div' \in DivState
    BY <1>1, <1>6, <2>1 DEF DivIterate, DivState
  <2> QED
    BY <1>1, <1>6, <2>2 DEF DivIterate, DivState, DivOpOK
<1> QED
  BY <1>3, <1>4, <1>5, <1>6 DEF DivStep

LEMMA ClockTypes ==
  ASSUME TypeInv, Clock
  PROVE  TypeInv'
<1>1. TypeOK
  BY DEF TypeInv
<1>2. imem' \in Programs /\ buf0' \in Slot /\ buf1' \in Slot /\ next_fetch_pc' \in Word
  BY <1>1, Ex0Types, FrontTypes DEF Clock
<1>3. div' \in DivState /\ DivOpOK'
  BY DivTypes DEF Clock
<1>4. ex0' \in ExLatch /\ ex1' \in ExLatch
  <2>1. ex0 \in ExLatch /\ ex1 \in ExLatch /\ buf0 \in Slot /\ buf1 \in Slot
    BY <1>1 DEF TypeOK
  <2>2. Issued(buf0) \in ExLatch /\ Issued(buf1) \in ExLatch
    BY <1>1, <2>1, IssuedType
  <2> QED
    BY <2>1, <2>2, Bubbles DEF Clock, ExStep
<1>5. mem0' \in MemLatch /\ mem1' \in MemLatch
  <2>1. ex0 \in ExLatch /\ ex1 \in ExLatch
    BY <1>1 DEF TypeOK
  <2>2. Ex0ToMem \in MemLatch
    BY <1>1, <2>1, Ex0Types, Bubbles DEF Ex0ToMem, ExLatch, MemLatch
  <2>3. Ex1ToMem \in MemLatch
    BY <1>1, <2>1, Ex0Types, Bubbles, SmallWords DEF Ex1ToMem, ExLatch, MemLatch, Exc
  <2> QED
    BY <2>2, <2>3, Bubbles DEF Clock, MemStep
<1>6. wb0' \in WbLatch /\ wb1' \in WbLatch
  <2>1. mem0 \in MemLatch /\ mem1 \in MemLatch
    BY <1>1 DEF TypeOK
  <2>2. ToWb(mem0, Mem0Value) \in WbLatch
    BY <1>1, <2>1, MemTypes, Bubbles DEF ToWb, MemLatch, WbLatch
  <2>3. ToWb(mem1, mem1.result) \in WbLatch
    BY <1>1, <2>1, MemTypes, Bubbles DEF ToWb, MemLatch, WbLatch
  <2> QED
    BY <2>2, <2>3 DEF Clock, WbStep
<1>7. regs' \in [Reg -> Word]
  BY <1>1, SmallWords DEF Clock, RegStep, TypeOK, WbLatch
<1>8. dmem' \in [DmemAddr -> Word]
  <2>1. /\ mem0.ins \in LatchInstr /\ mem0.addr \in Word /\ mem0.sdata \in Word
        /\ \A a \in DmemAddr : dmem[a] \in Word
    BY <1>1 DEF TypeOK, MemLatch
  <2>2. \A a \in DmemAddr :
          StoreWord(MemOp(mem0.ins), mem0.addr, dmem[a], mem0.sdata) \in Word
    BY <2>1, MemOpType, DatapathAssumption
  <2> QED
    BY <2>1, <2>2 DEF Clock, DmemStep
<1>9. halted' \in BOOLEAN /\ trap' \in [valid : BOOLEAN, pc : Word, cause : Exc]
  <2>1. /\ halted \in BOOLEAN /\ trap \in [valid : BOOLEAN, pc : Word, cause : Exc]
        /\ wb0.pc \in Word /\ wb0.exc \in Exc
    BY <1>1 DEF TypeOK, WbLatch
  <2>2. CASE wb0.valid /\ wb0.exc # "none"
    <3>1. halted' = TRUE /\ trap' = [valid |-> TRUE, pc |-> wb0.pc, cause |-> wb0.exc]
      BY <2>2 DEF Clock, TrapStep
    <3> QED
      BY <2>1, <3>1
  <2>3. CASE ~(wb0.valid /\ wb0.exc # "none")
    <3>1. halted' = halted /\ trap' = [trap EXCEPT !.valid = FALSE]
      BY <2>3 DEF Clock, TrapStep
    <3>2. halted' \in BOOLEAN
      BY <2>1, <3>1
    <3>3. trap' \in [valid : BOOLEAN, pc : Word, cause : Exc]
      BY <2>1, <3>1
    <3> QED
      BY <3>2, <3>3
  <2> QED
    BY <2>2, <2>3
<1> QED
  BY <1>2, <1>3, <1>4, <1>5, <1>6, <1>7, <1>8, <1>9 DEF TypeInv, TypeOK

LEMMA DivIdleType == DivIdle \in DivState /\ ~DivIdle.busy
BY DivAssumption, SmallWords DEF DivIdle, DivState, Fn

LEMMA NoTrapType == NoTrap \in [valid : BOOLEAN, pc : Word, cause : Exc]
BY SmallWords DEF NoTrap, Exc

LEMMA ResetTypes ==
  ASSUME TypeInv, Reset
  PROVE  TypeInv'
BY Bubbles, SmallWords, ResetPcAssumption, DivIdleType, NoTrapType
   DEF Reset, FrontReset, TypeInv, TypeOK, DivOpOK

LEMMA InitTypes == Init => TypeInv
BY Bubbles, SmallWords, ResetPcAssumption, DivIdleType, NoTrapType
   DEF Init, FrontInit, TypeInv, TypeOK, DivOpOK

LEMMA StutterTypes == TypeInv /\ UNCHANGED vars => TypeInv'
BY DEF vars, frontVars, pipeVars, TypeInv, TypeOK, DivOpOK

\* Every register of the core always holds a value of its type, whatever the
\* program, the arithmetic and the moments of reset.
THEOREM TypeCorrect == Spec => []TypeOK
<1>1. TypeInv /\ [Next]_vars => TypeInv'
  BY ClockTypes, ResetTypes, StutterTypes DEF Next
<1>2. TypeInv => TypeOK
  BY DEF TypeInv
<1> QED
  BY <1>1, <1>2, InitTypes, PTL DEF Spec

-----------------------------------------------------------------------------
(***************************************************************************)
(* Control.  PreciseTrap, ProgramOrder, Lane1Discipline and                *)
(* DividerOwnership hold each other up: together they are inductive, no    *)
(* one of them is alone.                                                   *)
(***************************************************************************)

ControlInv ==
  TypeInv /\ PreciseTrap /\ ProgramOrder /\ Lane1Discipline /\ DividerOwnership

-----------------------------------------------------------------------------
(* What the wires of EX say about the instruction there. *)

\* A plain ALU operation is legal and has an ALU function.
LEMMA PlainFacts ==
  ASSUME NEW i \in LatchInstr, ~Special(i)
  PROVE  /\ i.cls \in {"lui", "auipc", "opimm", "op"}
         /\ ~i.ill /\ i.fn \in AluFn /\ RdWrite(i)
BY DEF Special, Lane1Eligible, LatchInstr, Instr, WellDecoded, NoInstr, Nop, RdWrite, AluFn

LEMMA NoInstrSpecial == Special(NoInstr)
BY DEF Special, Lane1Eligible, NoInstr

LEMMA ControlNeedsJump ==
  ControlTaken => ex0.valid /\ ex0.ins.cls \in {"jal", "jalr", "branch"}
BY DEF ControlTaken, IsJump

LEMMA ExceptionNeedsValid == Ex0Exc # "none" => ex0.valid
BY ControlNeedsJump DEF Ex0Exc, InstrMisaligned

LEMMA DivideIsQuiet ==
  ASSUME TypeOK, DivInEx
  PROVE  Ex0Exc = "none" /\ ~ControlTaken /\ ~RedirectValid /\ Special(ex0.ins)
<1>1. ex0.valid /\ ex0.ins \in LatchInstr /\ ex0.ins.cls = "div"
  BY DEF TypeOK, ExLatch, DivInEx, IsDiv
<1>2. ~ex0.ins.ill /\ ex0.ins.fn \notin SysFn
  BY <1>1 DEF LatchInstr, Instr, WellDecoded, NoInstr, Nop, DivFn, SysFn
<1>3. ~ControlTaken /\ ~IsLoad(ex0.ins) /\ ~IsStore(ex0.ins)
  BY <1>1, ControlNeedsJump DEF IsLoad, IsStore
<1>4. Ex0Exc = "none"
  BY <1>2, <1>3 DEF Ex0Exc, InstrMisaligned, SysFn
<1> QED
  BY <1>1, <1>3, <1>4 DEF RedirectValid, Special

LEMMA PlainIsQuiet ==
  ASSUME TypeOK, ~Special(ex0.ins)
  PROVE  Ex0Exc = "none" /\ ~RedirectValid /\ ~DivInEx
<1>1. ex0.ins \in LatchInstr
  BY DEF TypeOK, ExLatch
<1>2. /\ ex0.ins.cls \in {"lui", "auipc", "opimm", "op"}
      /\ ~ex0.ins.ill /\ ex0.ins.fn \in AluFn
  BY <1>1, PlainFacts
<1>3. ~ControlTaken /\ ~IsLoad(ex0.ins) /\ ~IsStore(ex0.ins) /\ ~IsDiv(ex0.ins)
  BY <1>2, ControlNeedsJump DEF IsLoad, IsStore, IsDiv
<1>4. Ex0Exc = "none"
  BY <1>2, <1>3 DEF Ex0Exc, InstrMisaligned, AluFn
<1> QED
  BY <1>3, <1>4 DEF RedirectValid, DivInEx

LEMMA AddW8 ==
  ASSUME NEW a \in Word
  PROVE  AddW(AddW(a, 4), 4) = AddW(a, 8)
BY WordAssumption DEF AddW, Word

-----------------------------------------------------------------------------
(* What issue implies. *)

LEMMA IssueFacts ==
  /\ Issue0 => /\ buf0.v /\ ~halted /\ ~ExStall /\ ~RedirectValid
               /\ Ex0Exc = "none" /\ ~Excepting(mem0) /\ ~Excepting(wb0)
  /\ Issue1 => Issue0 /\ buf1.v
BY DEF Issue0, Issue1, IssueSlot0, IssueSlot1, Stall0, StallAll, SerializingInflight, Excepting

LEMMA PairFacts ==
  ASSUME TypeOK, Issue1
  PROVE  /\ ~Special(buf0.ins) /\ ~Special(buf1.ins)
         /\ buf0.ins.rd # 0 => ~Reads(buf1.ins, buf0.ins.rd) /\ buf1.ins.rd # buf0.ins.rd
<1>1. buf0.ins \in LatchInstr /\ buf1.ins \in LatchInstr
  BY DEF TypeOK, Slot, LatchInstr
<1>2. buf0.v /\ buf1.v
  BY IssueFacts
<1>3. ~PairRaw(buf0, buf1) /\ ~PairWaw(buf0, buf1) /\ ~PairStructural(buf0, buf1)
  BY DEF Issue1, IssueSlot1
<1>4. ~Special(buf0.ins) /\ ~Special(buf1.ins)
  BY <1>2, <1>3 DEF PairStructural
<1>5. RdWrite(buf0.ins) /\ RdWrite(buf1.ins)
  BY <1>1, <1>4, PlainFacts
<1> QED
  BY <1>2, <1>3, <1>4, <1>5 DEF PairRaw, PairWaw

-----------------------------------------------------------------------------
(* What a clock edge does to each stage. *)

LEMMA ExMoves ==
  ASSUME Clock
  PROVE  /\ ExStall => ex0' = ex0 /\ ex1' = ex1
         /\ ~ExStall =>
              /\ ex0'.valid <=> Issue0
              /\ Issue0 => ex0'.pc = buf0.pc /\ ex0'.ins = buf0.ins
              /\ ex1'.valid <=> Issue1
              /\ Issue1 => ex1'.pc = buf1.pc /\ ex1'.ins = buf1.ins
BY DEF Clock, ExStep, Issued, ExBubble

LEMMA MemMoves ==
  ASSUME Clock
  PROVE  /\ ExStall => ~mem0'.valid /\ ~mem1'.valid
         /\ ~ExStall =>
              /\ mem0'.valid <=> ex0.valid
              /\ ex0.valid => mem0'.pc = ex0.pc /\ mem0'.ins = ex0.ins /\ mem0'.exc = Ex0Exc
              /\ mem1'.valid <=> ex1.valid
              /\ ex1.valid => mem1'.pc = ex1.pc /\ mem1'.ins = ex1.ins
BY DEF Clock, MemStep, Ex0ToMem, Ex1ToMem, MemBubble

LEMMA WbMoves ==
  ASSUME Clock
  PROVE  /\ wb0'.valid <=> mem0.valid
         /\ mem0.valid => wb0'.pc = mem0.pc /\ wb0'.ins = mem0.ins /\ wb0'.exc = mem0.exc
         /\ wb1'.valid <=> mem1.valid
         /\ mem1.valid => wb1'.pc = mem1.pc /\ wb1'.ins = mem1.ins
BY DEF Clock, WbStep, ToWb, WbBubble

LEMMA TrapMoves ==
  ASSUME TypeOK, Clock
  PROVE  /\ Excepting(wb0) => halted' /\ trap'.cause = wb0.exc /\ trap'.pc = wb0.pc
         /\ ~Excepting(wb0) => /\ halted' = halted /\ ~trap'.valid
                               /\ trap'.cause = trap.cause /\ trap'.pc = trap.pc
<1>1. trap \in [valid : BOOLEAN, pc : Word, cause : Exc]
  BY DEF TypeOK
<1>2. CASE Excepting(wb0)
  <2>1. halted' = TRUE /\ trap' = [valid |-> TRUE, pc |-> wb0.pc, cause |-> wb0.exc]
    BY <1>2 DEF Excepting, Clock, TrapStep
  <2>2. trap'.cause = wb0.exc /\ trap'.pc = wb0.pc
    BY <2>1
  <2> QED
    BY <1>2, <2>1, <2>2
<1>3. CASE ~Excepting(wb0)
  <2>1. halted' = halted /\ trap' = [trap EXCEPT !.valid = FALSE]
    BY <1>3 DEF Excepting, Clock, TrapStep
  <2> QED
    BY <1>1, <1>3, <2>1
<1> QED
  BY <1>2, <1>3

LEMMA FrontMoves ==
  ASSUME TypeOK, ProgramOrder, Clock
  PROVE  /\ buf1'.v <=> buf0'.v
         /\ buf0'.v => buf1'.pc = AddW(buf0'.pc, 4) /\ next_fetch_pc' = AddW(buf1'.pc, 4)
         /\ ~RedirectValid /\ ~Issue0 => FrontPc' = FrontPc
         /\ Issue0 /\ ~Issue1 => FrontPc' = buf1.pc
         /\ Issue0 /\ Issue1 => FrontPc' = next_fetch_pc
<1>1. /\ buf1.v <=> buf0.v
      /\ buf0.v => buf1.pc = AddW(buf0.pc, 4) /\ next_fetch_pc = AddW(buf1.pc, 4)
      /\ buf0 \in Slot /\ buf1 \in Slot /\ next_fetch_pc \in Word
  BY DEF ProgramOrder, TypeOK
<1>2. FrontStep(Issue0, Issue1, RedirectValid, ControlTarget, halted)
  BY DEF Clock
<1>3. CASE RedirectValid
  <2>1. FrontFlush(ControlTarget)
    BY <1>2, <1>3 DEF FrontStep
  <2>2. ~buf0'.v /\ ~buf1'.v
    BY <1>1, <2>1 DEF FrontFlush, Slot
  <2> QED
    BY <1>3, <2>2, IssueFacts
<1>4. CASE ~RedirectValid /\ ~halted /\ (~buf0.v \/ (Issue0 /\ Issue1))
  <2>1. FrontRefill
    BY <1>2, <1>4, IssueFacts DEF FrontStep
  <2>2. /\ buf0'.v /\ buf1'.v /\ buf0'.pc = next_fetch_pc
        /\ buf1'.pc = AddW(next_fetch_pc, 4) /\ next_fetch_pc' = AddW(next_fetch_pc, 8)
    BY <2>1 DEF FrontRefill, Fetched
  <2>3. FrontPc' = next_fetch_pc
    BY <2>2 DEF FrontPc
  <2>4. ~buf0.v => FrontPc = next_fetch_pc
    BY DEF FrontPc
  <2> QED
    BY <1>1, <1>4, <2>2, <2>3, <2>4, AddW8, IssueFacts
<1>5. CASE ~RedirectValid /\ ~halted /\ buf0.v /\ Issue0 /\ ~Issue1
  <2>1. FrontReplay
    BY <1>2, <1>5 DEF FrontStep
  <2>2. /\ buf0' = buf1 /\ buf1'.v /\ buf1'.pc = next_fetch_pc
        /\ next_fetch_pc' = AddW(next_fetch_pc, 4)
    BY <2>1 DEF FrontReplay, Fetched
  <2>3. FrontPc' = buf1.pc
    BY <1>1, <1>5, <2>2 DEF FrontPc
  <2> QED
    BY <1>1, <1>5, <2>2, <2>3
<1>6. CASE ~RedirectValid /\ (halted \/ (buf0.v /\ ~Issue0))
  <2>1. ~Issue0
    BY <1>6, IssueFacts
  <2>2. UNCHANGED <<buf0, buf1, next_fetch_pc>>
    BY <1>2, <1>6, <2>1 DEF FrontStep, FrontHold
  <2>3. FrontPc' = FrontPc
    BY <2>2 DEF FrontPc
  <2> QED
    BY <1>1, <1>6, <2>1, <2>2, <2>3
<1> QED
  BY <1>3, <1>4, <1>5, <1>6

\* How the addresses of the oldest instruction in EX and in MEM, or behind
\* them, move on.
LEMMA PcMoves ==
  ASSUME TypeOK, ProgramOrder, Clock
  PROVE  /\ ExStall => ~RedirectValid /\ FrontPc' = FrontPc /\ ExPc' = ExPc
         /\ ~ExStall /\ ~RedirectValid => ExPc' = FrontPc
         /\ RedirectValid => ExPc' = ControlTarget
         /\ MemPc' = ExPc
<1>1. Issue0 => FrontPc = buf0.pc
  BY IssueFacts DEF FrontPc
<1>2. ~ExStall /\ ~RedirectValid => ExPc' = FrontPc
  BY <1>1, ExMoves, FrontMoves DEF ExPc
<1>3. ExStall => ~Issue0 /\ ~RedirectValid /\ ex0.valid
  BY IssueFacts, DivideIsQuiet DEF ExStall, DivInEx
<1>4. ExStall => FrontPc' = FrontPc /\ ExPc' = ExPc
  BY <1>3, FrontMoves, ExMoves DEF ExPc
<1>5. ASSUME RedirectValid
      PROVE  ExPc' = ControlTarget
  <2>1. FrontFlush(ControlTarget)
    BY <1>5 DEF Clock, FrontStep
  <2>2. ~buf0'.v /\ next_fetch_pc' = ControlTarget
    BY <2>1 DEF FrontFlush, TypeOK, Slot
  <2>3. ~ex0'.valid
    BY <1>3, <1>5, ExMoves, IssueFacts
  <2> QED
    BY <2>2, <2>3 DEF ExPc, FrontPc
<1>6. MemPc' = ExPc
  <2>1. CASE ExStall
    BY <1>4, <2>1, MemMoves DEF MemPc
  <2>2. CASE ~ExStall /\ ex0.valid
    BY <2>2, MemMoves DEF MemPc, ExPc
  <2>3. CASE ~ExStall /\ ~ex0.valid
    <3>1. ~RedirectValid
      BY <2>3, ControlNeedsJump DEF RedirectValid
    <3> QED
      BY <1>2, <2>3, <3>1, MemMoves DEF MemPc, ExPc
  <2> QED
    BY <2>1, <2>2, <2>3
<1> QED
  BY <1>2, <1>3, <1>4, <1>5, <1>6

-----------------------------------------------------------------------------
(* Each part of the invariant is kept by a clock edge. *)

LEMMA Lane1Kept ==
  ASSUME TypeOK, Lane1Discipline, ProgramOrder, Clock
  PROVE  Lane1Discipline'
<1>1. /\ ex1.valid  => ex0.valid
      /\ mem1.valid => mem0.valid
  BY DEF ProgramOrder
<1>2. ASSUME ex1'.valid
      PROVE  /\ ~Special(ex0'.ins) /\ ~Special(ex1'.ins)
             /\ ex0'.ins.rd # 0 => ~Reads(ex1'.ins, ex0'.ins.rd) /\ ex1'.ins.rd # ex0'.ins.rd
  <2>1. CASE ExStall
    BY <1>2, <2>1, ExMoves DEF Lane1Discipline
  <2>2. CASE ~ExStall
    <3>1. Issue1 /\ Issue0 /\ ex0'.ins = buf0.ins /\ ex1'.ins = buf1.ins
      BY <1>2, <2>2, ExMoves, IssueFacts
    <3> QED
      BY <3>1, PairFacts
  <2> QED
    BY <2>1, <2>2
<1>3. ASSUME mem1'.valid
      PROVE  /\ ~Special(mem0'.ins) /\ ~Special(mem1'.ins)
             /\ mem0'.ins.rd # 0 => mem1'.ins.rd # mem0'.ins.rd
  <2>1. ex1.valid /\ ex0.valid /\ mem0'.ins = ex0.ins /\ mem1'.ins = ex1.ins
    BY <1>1, <1>3, MemMoves
  <2> QED
    BY <2>1 DEF Lane1Discipline
<1>4. ASSUME wb1'.valid
      PROVE  /\ ~Special(wb0'.ins) /\ ~Special(wb1'.ins)
             /\ wb0'.ins.rd # 0 => wb1'.ins.rd # wb0'.ins.rd
  <2>1. mem1.valid /\ mem0.valid /\ wb0'.ins = mem0.ins /\ wb1'.ins = mem1.ins
    BY <1>1, <1>4, WbMoves
  <2> QED
    BY <2>1 DEF Lane1Discipline
<1> QED
  BY <1>2, <1>3, <1>4 DEF Lane1Discipline

LEMMA PreciseKept ==
  ASSUME TypeInv, PreciseTrap, ProgramOrder, Lane1Discipline, Clock, TypeOK', Lane1Discipline'
  PROVE  PreciseTrap'
<1>1. TypeOK
  BY DEF TypeInv
<1>2. (Ex0Exc # "none" => ~ex1.valid)'
  <2>1. (~Special(ex0.ins) => Ex0Exc = "none")'
    BY PlainIsQuiet, PTL
  <2> QED
    BY <2>1 DEF Lane1Discipline
<1>3. Excepting(mem0)' => ~mem1'.valid /\ EmptyEx'
  <2> SUFFICES ASSUME Excepting(mem0)' PROVE ~mem1'.valid /\ EmptyEx'
    OBVIOUS
  <2>1. ~ExStall /\ Ex0Exc # "none"
    BY MemMoves DEF Excepting
  <2>2. ~ex1.valid /\ ~Issue0 /\ ~Issue1
    BY <2>1, IssueFacts DEF PreciseTrap
  <2> QED
    BY <2>1, <2>2, ExMoves, MemMoves DEF EmptyEx
<1>4. EmptyEx /\ ~Issue0 => EmptyEx' /\ EmptyMem'
  BY ExMoves, MemMoves, IssueFacts DEF EmptyEx, EmptyMem, ExStall, DivInEx
<1>5. Excepting(wb0)' => ~wb1'.valid /\ EmptyMem' /\ EmptyEx'
  <2> SUFFICES ASSUME Excepting(wb0)' PROVE ~wb1'.valid /\ EmptyMem' /\ EmptyEx'
    OBVIOUS
  <2>1. Excepting(mem0)
    BY WbMoves DEF Excepting
  <2>2. ~mem1.valid /\ EmptyEx /\ ~Issue0
    BY <2>1, IssueFacts DEF PreciseTrap
  <2> QED
    BY <1>4, <2>2, WbMoves
<1>6. halted' => EmptyWb' /\ EmptyMem' /\ EmptyEx' /\ trap'.cause # "none"
  <2>1. CASE Excepting(wb0)
    <3>1. EmptyMem /\ EmptyEx /\ ~Issue0 /\ trap'.cause # "none"
      BY <1>1, <2>1, IssueFacts, TrapMoves DEF PreciseTrap, Excepting
    <3> QED
      BY <1>4, <3>1, WbMoves DEF EmptyMem, EmptyWb
  <2>2. CASE ~Excepting(wb0) /\ halted
    <3>1. EmptyMem /\ EmptyEx /\ ~Issue0 /\ trap'.cause # "none"
      BY <1>1, <2>2, IssueFacts, TrapMoves DEF PreciseTrap
    <3> QED
      BY <1>4, <3>1, WbMoves DEF EmptyMem, EmptyWb
  <2>3. CASE ~Excepting(wb0) /\ ~halted
    BY <1>1, <2>3, TrapMoves
  <2> QED
    BY <2>1, <2>2, <2>3
<1>7. ~halted' => ~trap'.valid
  BY <1>1, TrapMoves
<1> QED
  BY <1>2, <1>3, <1>5, <1>6, <1>7 DEF PreciseTrap

LEMMA DividerKept ==
  ASSUME TypeInv, TypeInv', DividerOwnership, Lane1Discipline', Clock
  PROVE  DividerOwnership'
<1>1. /\ div \in DivState /\ ex0 \in ExLatch /\ TypeOK
      /\ ~(div.busy /\ div.done)
  BY DEF TypeInv, TypeOK, DividerOwnership
<1>2. DivStep(DivStart, ex0.ins.fn, ex0.op1, ex0.op2)
  BY DEF Clock
<1>3. (ex1.valid => ~DivInEx)'
  <2>1. (TypeOK /\ ~Special(ex0.ins) => ~DivInEx)'
    BY PlainIsQuiet, PTL
  <2> QED
    BY <2>1 DEF Lane1Discipline, TypeInv
<1>4. ExStall => ex0' = ex0 /\ DivInEx' /\ DivInEx
  BY ExMoves DEF ExStall, DivInEx
<1>5. CASE ~div.busy /\ DivStart
  <2>1. DivAccept(ex0.ins.fn, ex0.op1, ex0.op2)
    BY <1>2, <1>5 DEF DivStep
  <2>2. /\ div'.busy /\ ~div'.done
        /\ div'.op = ex0.ins.fn /\ div'.a = ex0.op1 /\ div'.b = ex0.op2
    BY <2>1 DEF DivAccept
  <2>3. ExStall
    BY <1>5 DEF DivStart, ExStall
  <2> QED
    BY <1>3, <1>4, <2>2, <2>3 DEF DividerOwnership
<1>6. CASE ~div.busy /\ ~DivStart
  <2>1. DivRest
    BY <1>2, <1>6 DEF DivStep
  <2>2. ~div'.busy /\ ~div'.done
    BY <1>1, <1>6, <2>1 DEF DivRest, DivState
  <2> QED
    BY <1>3, <2>2 DEF DividerOwnership
<1>7. CASE div.busy
  <2>1. /\ DivInEx /\ div.op = ex0.ins.fn /\ div.a = ex0.op1 /\ div.b = ex0.op2
        /\ ~div.done
    BY <1>7 DEF DividerOwnership
  <2>2. ExStall
    BY <2>1 DEF ExStall
  <2>3. CASE DivFinish
    <3>1. /\ ~div'.busy /\ div'.done
          /\ div'.op = div.op /\ div'.a = div.a /\ div'.b = div.b
          /\ div'.result = DivY(div.op, div.a, div.b)
      BY <1>1, <2>3 DEF DivFinish, DivState
    <3> QED
      BY <1>3, <1>4, <2>1, <2>2, <3>1 DEF DividerOwnership
  <2>4. CASE DivIterate
    <3>1. /\ ~div'.done /\ div'.op = div.op /\ div'.a = div.a /\ div'.b = div.b
      BY <1>1, <2>4 DEF DivIterate, DivState
    <3> QED
      BY <1>3, <1>4, <2>1, <2>2, <3>1 DEF DividerOwnership
  <2> QED
    BY <1>2, <1>7, <2>3, <2>4 DEF DivStep
<1> QED
  BY <1>5, <1>6, <1>7

LEMMA OrderKept ==
  ASSUME TypeOK, ProgramOrder, Lane1Discipline, Clock
  PROVE  ProgramOrder'
<1>1. /\ buf1.v <=> buf0.v
      /\ buf0.v => buf1.pc = AddW(buf0.pc, 4) /\ next_fetch_pc = AddW(buf1.pc, 4)
      /\ ex1.valid  => ex0.valid  /\ ex1.pc  = AddW(ex0.pc, 4)
      /\ mem1.valid => mem0.valid /\ mem1.pc = AddW(mem0.pc, 4)
  BY DEF ProgramOrder
<1>2. ex1'.valid => ex0'.valid /\ ex1'.pc = AddW(ex0'.pc, 4)
  BY <1>1, ExMoves, IssueFacts
<1>3. mem1'.valid => mem0'.valid /\ mem1'.pc = AddW(mem0'.pc, 4)
  BY <1>1, MemMoves
<1>4. wb1'.valid => wb0'.valid /\ wb1'.pc = AddW(wb0'.pc, 4)
  BY <1>1, WbMoves
<1>5. /\ ~ExStall /\ ~RedirectValid => ExPc' = FrontPc
      /\ ExStall => FrontPc' = FrontPc
      /\ MemPc' = ExPc
  BY PcMoves
<1>6. ExStall => ~Issue0 /\ ~RedirectValid /\ Ex0Exc = "none" /\ ex0.valid
  BY IssueFacts, DivideIsQuiet DEF ExStall, DivInEx
<1>7. /\ NextBehind(ex0', IF ex1'.valid THEN ex1'.pc ELSE FrontPc')
      /\ NextBehind(ex1', FrontPc')
  <2>1. CASE ExStall
    BY <1>5, <1>6, <2>1, ExMoves DEF ProgramOrder, NextBehind
  <2>2. CASE ~ExStall /\ Issue1
    BY <1>1, <2>2, ExMoves, FrontMoves, IssueFacts DEF NextBehind, Older
  <2>3. CASE ~ExStall /\ Issue0 /\ ~Issue1
    BY <1>1, <2>3, ExMoves, FrontMoves, IssueFacts DEF NextBehind, Older
  <2>4. CASE ~ExStall /\ ~Issue0
    BY <2>4, ExMoves, IssueFacts DEF NextBehind
  <2> QED
    BY <2>1, <2>2, <2>3, <2>4
<1>8. ~Excepting(mem0)' =>
         /\ NextBehind(mem0', IF mem1'.valid THEN mem1'.pc ELSE ExPc')
         /\ NextBehind(mem1', ExPc')
  <2> SUFFICES ASSUME ~Excepting(mem0)', ~ExStall, ex0.valid
               PROVE  /\ NextBehind(mem0', IF mem1'.valid THEN mem1'.pc ELSE ExPc')
                      /\ NextBehind(mem1', ExPc')
    BY <1>1, MemMoves DEF NextBehind
  <2>1. Ex0Exc = "none"
    BY MemMoves DEF Excepting
  <2>2. CASE RedirectValid
    <3>1. ~ex1.valid
      BY <2>2, PlainIsQuiet DEF Lane1Discipline
    <3>2. ex0.ins.cls \in {"jal", "jalr", "branch"}
      BY <2>2, ControlNeedsJump DEF RedirectValid
    <3> QED
      BY <3>1, <3>2, MemMoves DEF NextBehind, Older
  <2>3. CASE ~RedirectValid
    <3>1. /\ NextBehind(ex0, IF ex1.valid THEN ex1.pc ELSE FrontPc)
          /\ NextBehind(ex1, FrontPc)
      BY <2>1, <2>3 DEF ProgramOrder
    <3> QED
      BY <1>5, <2>3, <3>1, MemMoves DEF NextBehind, Older
  <2> QED
    BY <2>2, <2>3
<1>9. ~Excepting(wb0)' =>
         /\ NextBehind(wb0', IF wb1'.valid THEN wb1'.pc ELSE MemPc')
         /\ NextBehind(wb1', MemPc')
  <2> SUFFICES ASSUME ~Excepting(wb0)', mem0.valid
               PROVE  /\ NextBehind(wb0', IF wb1'.valid THEN wb1'.pc ELSE MemPc')
                      /\ NextBehind(wb1', MemPc')
    BY <1>1, WbMoves DEF NextBehind
  <2>1. ~Excepting(mem0)
    BY WbMoves DEF Excepting
  <2>2. /\ NextBehind(mem0, IF mem1.valid THEN mem1.pc ELSE ExPc)
        /\ NextBehind(mem1, ExPc)
    BY <2>1 DEF ProgramOrder
  <2> QED
    BY <1>5, <2>2, WbMoves DEF NextBehind, Older
<1> QED
  BY <1>2, <1>3, <1>4, <1>7, <1>8, <1>9, FrontMoves DEF ProgramOrder

-----------------------------------------------------------------------------
(* The invariant. *)

\* An empty pipeline with an idle divider has all four parts.
EmptyCore ==
  /\ ~buf0.v /\ ~buf1.v /\ EmptyEx /\ EmptyMem /\ EmptyWb
  /\ ~div.busy /\ ~div.done /\ ~halted /\ ~trap.valid

LEMMA EmptyControl ==
  ASSUME EmptyCore
  PROVE  PreciseTrap /\ ProgramOrder /\ Lane1Discipline /\ DividerOwnership
<1>1. /\ ~buf0.v /\ ~buf1.v /\ ~ex0.valid /\ ~ex1.valid /\ ~mem0.valid /\ ~mem1.valid
      /\ ~wb0.valid /\ ~wb1.valid /\ ~div.busy /\ ~div.done /\ ~halted /\ ~trap.valid
  BY DEF EmptyCore, EmptyEx, EmptyMem, EmptyWb
<1>2. PreciseTrap
  BY <1>1 DEF PreciseTrap, Excepting
<1>3. ProgramOrder
  BY <1>1 DEF ProgramOrder, NextBehind
<1>4. Lane1Discipline
  BY <1>1 DEF Lane1Discipline
<1>5. DividerOwnership
  BY <1>1 DEF DividerOwnership
<1> QED
  BY <1>2, <1>3, <1>4, <1>5

LEMMA InitControl == Init => ControlInv
<1> SUFFICES ASSUME Init PROVE ControlInv
  OBVIOUS
<1>1. TypeInv
  BY InitTypes
<1>2. EmptyCore
  BY DEF Init, FrontInit, EmptyCore, EmptyEx, EmptyMem, EmptyWb, EmptySlot,
         ExBubble, MemBubble, WbBubble, DivIdle, NoTrap
<1> QED
  BY <1>1, <1>2, EmptyControl DEF ControlInv

LEMMA NextControl == ControlInv /\ [Next]_vars => ControlInv'
<1> SUFFICES ASSUME ControlInv, [Next]_vars PROVE ControlInv'
  OBVIOUS
<1> USE DEF ControlInv
<1>1. CASE Clock
  <2>1. TypeInv' /\ TypeOK /\ TypeOK'
    BY <1>1, ClockTypes DEF TypeInv
  <2>2. ProgramOrder'
    BY <1>1, <2>1, OrderKept
  <2>3. Lane1Discipline'
    BY <1>1, <2>1, Lane1Kept
  <2>4. PreciseTrap'
    BY <1>1, <2>1, <2>3, PreciseKept
  <2>5. DividerOwnership'
    BY <1>1, <2>1, <2>3, DividerKept
  <2> QED
    BY <2>1, <2>2, <2>3, <2>4, <2>5
<1>2. CASE Reset
  <2>1. TypeInv'
    BY <1>2, ResetTypes
  <2>2. EmptyCore'
    BY <1>2 DEF Reset, FrontReset, EmptyCore, EmptyEx, EmptyMem, EmptyWb, EmptySlot,
                ExBubble, MemBubble, WbBubble, DivIdle, NoTrap
  <2>3. (EmptyCore => PreciseTrap /\ ProgramOrder /\ Lane1Discipline /\ DividerOwnership)'
    BY EmptyControl, PTL
  <2> QED
    BY <2>1, <2>2, <2>3
<1>3. CASE UNCHANGED vars
  <2>1. TypeInv'
    BY <1>3, StutterTypes
  <2>2. UNCHANGED <<imem, buf0, buf1, next_fetch_pc, div, ex0, ex1, mem0, mem1, wb0, wb1,
                    regs, halted, trap, dmem>>
    BY <1>3 DEF vars, frontVars, pipeVars
  <2>3. (DivInEx' <=> DivInEx) /\ Ex0Exc' = Ex0Exc /\ (RedirectValid' <=> RedirectValid)
    BY <2>2 DEF DivInEx, ExStall, RedirectValid, Ex0Exc, InstrMisaligned, ControlTaken,
                ControlTarget, MemMisaligned, EffAddr
  <2>4. PreciseTrap'
    BY <2>2, <2>3 DEF PreciseTrap, Excepting, EmptyEx, EmptyMem, EmptyWb
  <2>5. ProgramOrder'
    BY <2>2, <2>3 DEF ProgramOrder, NextBehind, FrontPc, ExPc, MemPc, Excepting
  <2>6. Lane1Discipline'
    BY <2>2 DEF Lane1Discipline
  <2>7. DividerOwnership'
    BY <2>2, <2>3 DEF DividerOwnership
  <2> QED
    BY <2>1, <2>4, <2>5, <2>6, <2>7
<1> QED
  BY <1>1, <1>2, <1>3 DEF Next

LEMMA ControlCorrect == Spec => []ControlInv
BY InitControl, NextControl, PTL DEF Spec

\* Traps are precise: nothing younger than a trapping instruction is ever in
\* flight behind EX (serializing_inflight), for every program.
THEOREM TrapsArePrecise == Spec => []PreciseTrap
BY ControlCorrect, PTL DEF ControlInv

\* Issue, replay, redirect and stall keep program order, for every program.
THEOREM OrderIsKept == Spec => []ProgramOrder
BY ControlCorrect, PTL DEF ControlInv

\* Lane 1 holds plain ALU operations that do not depend on their partner.
THEOREM Lane1IsPlain == Spec => []Lane1Discipline
BY ControlCorrect, PTL DEF ControlInv

\* The divider works for the instruction in EX, for every latency.
THEOREM DividerIsOwned == Spec => []DividerOwnership
BY ControlCorrect, PTL DEF ControlInv

-----------------------------------------------------------------------------
(* The register file and the finality of a trap. *)

X0 == regs[0] = 0

LEMMA X0Correct == Spec => []X0
<1>1. Init => X0
  BY RegAssumption DEF Init, X0
<1>2. X0 /\ [Next]_vars => X0'
  BY RegAssumption DEF X0, Next, Clock, RegStep, Reset, vars, pipeVars
<1> QED
  BY <1>1, <1>2, PTL DEF Spec

LEMMA NoWriteNoChange ==
  ASSUME TypeOK, X0, Clock, ~RfWe0, ~RfWe1, ~DmemWe
  PROVE  UNCHANGED <<regs, dmem>>
<1>1. regs \in [Reg -> Word] /\ dmem \in [DmemAddr -> Word]
  BY DEF TypeOK
<1>2. regs' = [r \in Reg |-> regs[r]]
  BY DEF Clock, RegStep, X0
<1>3. dmem' = [a \in DmemAddr |-> dmem[a]]
  BY DEF Clock, DmemStep
<1> QED
  BY <1>1, <1>2, <1>3

\* A trap is final: from the clock in which it reaches WB on, no register and no
\* memory word changes and the core is halted, until it is reset.
THEOREM TrapsAreFinal == Spec => QuietAfterTrap
<1> DEFINE Quiet == Excepting(wb0) \/ halted =>
                      Reset \/ (UNCHANGED <<regs, dmem>> /\ halted')
<1>1. ControlInv /\ X0 /\ [Next]_vars => [Quiet]_vars
  <2> SUFFICES ASSUME ControlInv, X0, Clock, Excepting(wb0) \/ halted
               PROVE  UNCHANGED <<regs, dmem>> /\ halted'
    BY DEF Next
  <2>1. TypeOK
    BY DEF ControlInv, TypeInv
  <2>2. /\ Excepting(wb0) => ~wb1.valid /\ ~mem0.valid
        /\ halted => ~wb1.valid /\ ~mem0.valid
    BY DEF ControlInv, PreciseTrap, EmptyWb, EmptyMem
  <2>3. ~RfWe0 /\ ~RfWe1 /\ ~DmemWe
    BY <2>2 DEF RfWe0, RfWe1, DmemWe, Excepting
  <2>4. halted'
    BY <2>1, TrapMoves
  <2> QED
    BY <2>1, <2>3, <2>4, NoWriteNoChange
<1> QED
  BY <1>1, ControlCorrect, X0Correct, PTL DEF Spec, QuietAfterTrap

-----------------------------------------------------------------------------
(* Lane 1 never traps: only lane 0 has an exception in its latches. *)

Lane1Quiet == (mem1.valid => mem1.exc = "none") /\ (wb1.valid => wb1.exc = "none")

LEMMA Lane1QuietKept ==
  ASSUME Lane1Quiet, Clock
  PROVE  Lane1Quiet'
<1>1. mem1'.valid => mem1'.exc = "none"
  BY DEF Clock, MemStep, Ex1ToMem, MemBubble
<1>2. wb1'.valid => wb1'.exc = "none"
  BY DEF Lane1Quiet, Clock, WbStep, ToWb, WbBubble
<1> QED
  BY <1>1, <1>2 DEF Lane1Quiet

-----------------------------------------------------------------------------
(***************************************************************************)
(* Operands.  Whatever mix of stages forwards them, the operands in EX are *)
(* what sequential execution of the older instructions leaves in the       *)
(* registers.  The argument follows the registers "as the latches leave    *)
(* them" through one clock: what WB writes is already counted, so only EX  *)
(* moving to MEM adds to them, and the forwarding network reads exactly    *)
(* that sum.                                                               *)
(***************************************************************************)

-----------------------------------------------------------------------------
(* The registers as the latches leave them, register by register. *)

LEMMA AfterWb ==
  ASSUME NEW r \in Reg, r # 0
  PROVE  RegsAfterWb[r] = IF Offers(wb1, r) THEN wb1.value
                          ELSE IF Offers(wb0, r) THEN wb0.value
                          ELSE regs[r]
BY DEF RegsAfterWb, Written

LEMMA AfterMem ==
  ASSUME NEW r \in Reg, r # 0
  PROVE  RegsAfterMem[r] = IF Offers(mem1, r) THEN mem1.result
                           ELSE IF Offers(mem0, r) THEN Mem0Value
                           ELSE RegsAfterWb[r]
BY DEF RegsAfterMem, Written

LEMMA AfterZero ==
  ASSUME X0
  PROVE  RegsAfterWb[0] = 0 /\ RegsAfterMem[0] = 0
BY RegAssumption DEF RegsAfterWb, RegsAfterMem, Written, X0

\* Write back makes the register file what it was already taken to be.
LEMMA RegsCatchUp ==
  ASSUME ControlInv, Clock, NEW r \in Reg, r # 0
  PROVE  regs'[r] = RegsAfterWb[r]
<1>1. wb1.valid => wb0.valid /\ wb0.exc = "none"
  BY DEF ControlInv, ProgramOrder, PreciseTrap, Excepting
<1>2. halted => ~wb0.valid /\ ~wb1.valid
  BY DEF ControlInv, PreciseTrap, EmptyWb
<1>3. /\ (RfWe1 /\ wb1.ins.rd = r) <=> Offers(wb1, r)
      /\ (RfWe0 /\ wb0.ins.rd = r) <=> Offers(wb0, r)
  BY <1>1, <1>2 DEF RfWe0, RfWe1, Offers
<1>4. regs'[r] = IF RfWe1 /\ wb1.ins.rd = r THEN wb1.value
                 ELSE IF RfWe0 /\ wb0.ins.rd = r THEN wb0.value
                 ELSE regs[r]
  BY DEF Clock, RegStep
<1> QED
  BY <1>3, <1>4, AfterWb

\* The instructions in MEM move to WB with the values they were counted with.
LEMMA WbCatchesUp ==
  ASSUME ControlInv, Clock, NEW r \in Reg, r # 0
  PROVE  RegsAfterWb'[r] = RegsAfterMem[r]
<1>1. RegsAfterWb'[r] = IF Offers(wb1, r)' THEN wb1'.value
                        ELSE IF Offers(wb0, r)' THEN wb0'.value
                        ELSE regs'[r]
  BY DEF RegsAfterWb, Written
<1>2. /\ Offers(wb0, r)' <=> Offers(mem0, r)
      /\ Offers(mem0, r) => wb0'.value = Mem0Value
  BY DEF Clock, WbStep, ToWb, WbBubble, Offers
<1>3. /\ Offers(wb1, r)' <=> Offers(mem1, r)
      /\ Offers(mem1, r) => wb1'.value = mem1.result
  BY DEF Clock, WbStep, ToWb, WbBubble, Offers
<1> QED
  BY <1>1, <1>2, <1>3, RegsCatchUp, AfterMem

\* While a divide holds EX the registers it was given stay the current ones.
LEMMA StallKeepsRegs ==
  ASSUME ControlInv, Clock, ExStall, NEW r \in Reg, r # 0
  PROVE  RegsAfterMem'[r] = RegsAfterMem[r]
<1>1. ~Offers(mem0, r)' /\ ~Offers(mem1, r)'
  BY MemMoves DEF Offers
<1>2. RegsAfterMem'[r] = RegsAfterWb'[r]
  BY <1>1 DEF RegsAfterMem, Written
<1> QED
  BY <1>2, WbCatchesUp

-----------------------------------------------------------------------------
(* The forwarding network. *)

\* If no instruction in EX is a load or a divide whose result r is still to
\* come, the network delivers r as EX will have left it in the next clock.
LEMMA Forwarded ==
  ASSUME ControlInv, Clock, Issue0, NEW r \in Reg, r # 0,
         ~(ex0.valid /\ RdWrite(ex0.ins) /\ (IsLoad(ex0.ins) \/ IsDiv(ex0.ins)) /\ ex0.ins.rd = r)
  PROVE  Operand(TRUE, r) = RegsAfterMem'[r]
<1>1. ~ExStall /\ Ex0Exc = "none"
  BY IssueFacts
<1>2. RegsAfterMem'[r] = IF Offers(mem1, r)' THEN mem1'.result
                         ELSE IF Offers(mem0, r)' THEN Mem0Value'
                         ELSE RegsAfterWb'[r]
  BY DEF RegsAfterMem, Written
<1>3. /\ Offers(mem1, r)' <=> (ex1.valid /\ RdWrite(ex1.ins) /\ ex1.ins.rd = r)
      /\ ex1.valid => mem1'.result = Ex1Result
  BY <1>1 DEF Clock, MemStep, Ex1ToMem, MemBubble, Offers
<1>4. Offers(mem0, r)' <=> (ex0.valid /\ RdWrite(ex0.ins) /\ ex0.ins.rd = r)
  BY <1>1 DEF Clock, MemStep, Ex0ToMem, MemBubble, Offers
<1>5. Offers(mem0, r)' <=> (Ex0ForwardReady /\ ex0.ins.rd = r)
  BY <1>1, <1>4 DEF Ex0ForwardReady
<1>6. Ex0ForwardReady => mem0'.result = Ex0Result /\ ~IsLoad(mem0'.ins)
  BY <1>1 DEF Clock, MemStep, Ex0ToMem, Ex0ForwardReady
<1>7. Ex0ForwardReady => Mem0Value' = Ex0Result
  BY <1>6 DEF Mem0Value
<1>8. RegsAfterWb'[r] = IF Offers(mem1, r) THEN mem1.result
                        ELSE IF Offers(mem0, r) THEN Mem0Value
                        ELSE IF Offers(wb1, r) THEN wb1.value
                        ELSE IF Offers(wb0, r) THEN wb0.value
                        ELSE regs[r]
  BY WbCatchesUp, AfterMem, AfterWb
<1> QED
  BY <1>2, <1>3, <1>5, <1>7, <1>8 DEF Operand

\* What issues gets the operands it should.
LEMMA IssuedInOrder ==
  ASSUME ControlInv, X0', Clock, Issue0, NEW d \in Slot, d.v, ~WaitsForEx(d)
  PROVE  /\ Rs1Used(d.ins) => Issued(d).op1 = RegsAfterMem'[d.ins.rs1]
         /\ Rs2Used(d.ins) => Issued(d).op2 = RegsAfterMem'[d.ins.rs2]
<1>1. d.ins \in LatchInstr /\ d.ins.rs1 \in Reg /\ d.ins.rs2 \in Reg
  BY LatchFields DEF Slot, LatchInstr
<1>2. RegsAfterMem'[0] = 0
  BY RegAssumption DEF RegsAfterWb, RegsAfterMem, Written, X0
<1>3. \A u : Operand(u, 0) = 0
  BY DEF Operand
<1>4. Rs1Used(d.ins) => Operand(Rs1Used(d.ins), d.ins.rs1) = RegsAfterMem'[d.ins.rs1]
  <2>1. CASE d.ins.rs1 = 0
    BY <1>2, <1>3, <2>1
  <2>2. CASE d.ins.rs1 # 0 /\ Rs1Used(d.ins)
    <3>1. Operand(TRUE, d.ins.rs1) = RegsAfterMem'[d.ins.rs1]
      BY <1>1, <2>2, Forwarded DEF WaitsForEx, Reads
    <3>2. Operand(Rs1Used(d.ins), d.ins.rs1) = Operand(TRUE, d.ins.rs1)
      BY <2>2 DEF Operand
    <3> QED
      BY <3>1, <3>2
  <2> QED
    BY <2>1, <2>2
<1>5. Rs2Used(d.ins) => Operand(Rs2Used(d.ins), d.ins.rs2) = RegsAfterMem'[d.ins.rs2]
  <2>1. CASE d.ins.rs2 = 0
    BY <1>2, <1>3, <2>1
  <2>2. CASE d.ins.rs2 # 0 /\ Rs2Used(d.ins)
    <3>1. Operand(TRUE, d.ins.rs2) = RegsAfterMem'[d.ins.rs2]
      BY <1>1, <2>2, Forwarded DEF WaitsForEx, Reads
    <3>2. Operand(Rs2Used(d.ins), d.ins.rs2) = Operand(TRUE, d.ins.rs2)
      BY <2>2 DEF Operand
    <3> QED
      BY <3>1, <3>2
  <2> QED
    BY <2>1, <2>2
<1> QED
  BY <1>4, <1>5 DEF Issued

-----------------------------------------------------------------------------
(* The invariant. *)

LEMMA StallKeepsOperands ==
  ASSUME ControlInv, X0, X0', Clock, ExStall, OperandsInOrder
  PROVE  OperandsInOrder'
<1>1. ex0' = ex0 /\ ex1' = ex1
  BY DEF Clock, ExStep
<1>2. \A r \in Reg : RegsAfterMem'[r] = RegsAfterMem[r]
  <2> SUFFICES ASSUME NEW r \in Reg PROVE RegsAfterMem'[r] = RegsAfterMem[r]
    OBVIOUS
  <2>1. CASE r = 0
    <3>1. RegsAfterMem[0] = 0
      BY AfterZero
    <3>2. RegsAfterMem'[0] = 0
      BY RegAssumption DEF RegsAfterWb, RegsAfterMem, Written, X0
    <3> QED
      BY <2>1, <3>1, <3>2
  <2>2. CASE r # 0
    BY <2>2, StallKeepsRegs
  <2> QED
    BY <2>1, <2>2
<1>3. TypeOK
  BY DEF ControlInv, TypeInv
<1>4. \A l \in {ex0, ex1} : l.ins.rs1 \in Reg /\ l.ins.rs2 \in Reg
  BY <1>3, LatchFields DEF TypeOK, ExLatch
<1> QED
  BY <1>1, <1>2, <1>4 DEF OperandsInOrder

LEMMA IssueGivesOperands ==
  ASSUME ControlInv, X0', Clock, ~ExStall
  PROVE  OperandsInOrder'
<1>1. buf0 \in Slot /\ buf1 \in Slot
  BY DEF ControlInv, TypeInv, TypeOK
<1>2. /\ ex0' = IF Issue0 THEN Issued(buf0) ELSE ExBubble
      /\ ex1' = IF Issue1 THEN Issued(buf1) ELSE ExBubble
  BY DEF Clock, ExStep
<1>3. Issue0 => buf0.v /\ ~WaitsForEx(buf0)
  BY DEF Issue0, IssueSlot0, Stall0
<1>4. Issue1 => Issue0 /\ buf1.v /\ ~WaitsForEx(buf1)
  BY DEF Issue0, Issue1, IssueSlot0, IssueSlot1, Stall1
<1>5. ASSUME ex0'.valid
      PROVE  /\ Rs1Used(ex0'.ins) => ex0'.op1 = RegsAfterMem'[ex0'.ins.rs1]
             /\ Rs2Used(ex0'.ins) => ex0'.op2 = RegsAfterMem'[ex0'.ins.rs2]
  <2>1. Issue0
    BY <1>2, <1>5 DEF ExBubble
  <2>2. ex0' = Issued(buf0) /\ ex0'.ins = buf0.ins
    BY <1>2, <2>1 DEF Issued
  <2> QED
    BY <1>1, <1>3, <2>1, <2>2, IssuedInOrder
<1>6. ASSUME ex1'.valid
      PROVE  /\ Rs1Used(ex1'.ins) => ex1'.op1 = RegsAfterMem'[ex1'.ins.rs1]
             /\ Rs2Used(ex1'.ins) => ex1'.op2 = RegsAfterMem'[ex1'.ins.rs2]
  <2>1. Issue1
    BY <1>2, <1>6 DEF ExBubble
  <2>2. ex1' = Issued(buf1) /\ ex1'.ins = buf1.ins
    BY <1>2, <2>1 DEF Issued
  <2> QED
    BY <1>1, <1>4, <2>1, <2>2, IssuedInOrder
<1> QED
  BY <1>5, <1>6 DEF OperandsInOrder

LEMMA NextOperands ==
  ASSUME ControlInv, ControlInv', X0, X0', OperandsInOrder, [Next]_vars
  PROVE  OperandsInOrder'
<1>1. CASE Clock
  BY <1>1, StallKeepsOperands, IssueGivesOperands
<1>2. CASE Reset
  <2>1. ~ex0'.valid /\ ~ex1'.valid
    BY <1>2 DEF Reset, ExBubble
  <2> QED
    BY <2>1 DEF OperandsInOrder
<1>3. CASE UNCHANGED vars
  <2>1. UNCHANGED <<ex0, ex1, mem0, mem1, wb0, wb1, regs, dmem>>
    BY <1>3 DEF vars, pipeVars
  <2>2. RegsAfterMem' = RegsAfterMem
    BY <2>1 DEF RegsAfterMem, RegsAfterWb, Written, Offers, Mem0Value, LsuLoadValue, DmemWord
  <2> QED
    BY <2>1, <2>2 DEF OperandsInOrder
<1> QED
  BY <1>1, <1>2, <1>3 DEF Next

\* Forwarding, load-use and divide waits together deliver what sequential
\* execution of the older instructions would (resolve_operand,
\* source_waits_for_ex_load), for every program and every register set.
THEOREM OperandsCorrect == Spec => []OperandsInOrder
<1>1. Init => OperandsInOrder
  BY DEF Init, ExBubble, OperandsInOrder
<1>2. ControlInv /\ ControlInv' /\ X0 /\ X0' /\ OperandsInOrder /\ [Next]_vars
        => OperandsInOrder'
  BY NextOperands
<1> QED
  BY <1>1, <1>2, ControlCorrect, X0Correct, PTL DEF Spec

-----------------------------------------------------------------------------
(***************************************************************************)
(* ImplementsRV32IM, proved for every program, word size, register file,   *)
(* divider latency and datapath: what the pipeline commits, two at a time  *)
(* and with everything forwarded, is what the reference model computes one *)
(* instruction at a time.  The refinement mapping counts an instruction as *)
(* executed when it leaves MEM, so the invariant behind the proof, IsaInv, *)
(* says of the instruction in MEM that every field its latch carries is    *)
(* what the reference model computes from the state the mapping shows.     *)
(***************************************************************************)

\* An instruction in flight is the word of the program at its address.
WordsInFlight ==
  /\ \A d \in {buf0, buf1} : d.v => d.ins = Fetch(d.pc)
  /\ \A l \in {ex0, ex1, mem0, mem1} : l.valid => l.ins = Fetch(l.pc)

\* Behind EX fetch goes straight on: a transfer of control in EX has not
\* redirected it yet.
Straight ==
  /\ ex0.valid => (IF ex1.valid THEN ex1.pc ELSE FrontPc) = AddW(ex0.pc, 4)
  /\ ex1.valid => FrontPc = AddW(ex1.pc, 4)

\* The architectural state the instruction in MEM finds.
MemState ==
  [pc |-> mem0.pc, regs |-> RegsAfterWb, mem |-> dmem, tail |-> NoTail, trap |-> "none"]

\* MEM holds what the reference model computes there: the trap, the next
\* program counter, the value and the store of lane 0, and lane 1's value in
\* the state lane 0 leaves.
MemExact ==
  mem0.valid =>
    /\ mem0.exc = ISA!CauseAt(MemState)
    /\ mem0.exc = "none" =>
         /\ (IF mem1.valid THEN mem1.pc ELSE ExPc) = ISA!After(MemState, NoTail).pc
         /\ RdWrite(mem0.ins) => Mem0Value = ISA!ValueAt(MemState)
         /\ IsStore(mem0.ins) => /\ mem0.addr = ISA!AddrAt(MemState)
                                 /\ mem0.sdata = ISA!Rs2At(MemState)
    /\ mem1.valid => /\ mem1.result = ISA!ValueAt(ISA!After(MemState, NoTail))
                     /\ ExPc = AddW(mem1.pc, 4)

IsaInv ==
  /\ ControlInv /\ X0 /\ Lane1Quiet /\ OperandsInOrder
  /\ WordsInFlight /\ Straight /\ MemExact

-----------------------------------------------------------------------------
(* The two specifications count, decode and fetch alike. *)

LEMMA SameWords ==
  /\ \A a, b : ISA!AddW(a, b) = AddW(a, b)
  /\ \A a : ISA!ClearBit0(a) = ClearBit0(a) /\ ISA!WordAddr(a) = WordAddr(a)
  /\ \A a : ISA!Fetch(a) = Fetch(a)
BY DEF ISA!AddW, AddW, ISA!ClearBit0, ClearBit0, ISA!WordAddr, WordAddr,
       ISA!Fetch, Fetch, ISA!Ebreak, Ebreak

\* The word an address lies in has an address too.
LEMMA WordAddrType ==
  ASSUME NEW a \in Word
  PROVE  WordAddr(a) \in Word
<1>1. a \in Nat /\ a % 4 \in 0 .. 3 /\ a % 4 <= a
  BY WordAssumption DEF Word
<1> QED
  BY <1>1, WordAssumption DEF Word, WordAddr

\* The mapping always shows the words past the end as 0, one of the outcomes
\* the reference model leaves open.
LEMMA NoTailOpen ==
  /\ NoTail' = NoTail
  /\ NoTail \in [ISA!Beyond -> ISA!Word]
  /\ NoTail = [a \in ISA!Beyond |-> 0]
<1>1. ISA!Word = Word /\ 0 \in Word
  BY WordAssumption DEF ISA!Word, Word
<1> QED
  BY <1>1 DEF NoTail, ISA!Beyond

\* step() reads the program and the state it is given, and nothing else.
LEMMA SameProgram ==
  ASSUME imem' = imem, NEW s
  PROVE  /\ Fetch(s)' = Fetch(s)
         /\ ISA!CauseAt(s)' = ISA!CauseAt(s) /\ ISA!ValueAt(s)' = ISA!ValueAt(s)
         /\ ISA!AddrAt(s)' = ISA!AddrAt(s) /\ ISA!Rs2At(s)' = ISA!Rs2At(s)
         /\ ISA!After(s, NoTail)' = ISA!After(s, NoTail)
<1>1. Fetch(s)' = Fetch(s) /\ ISA!Fetch(s.pc)' = ISA!Fetch(s.pc)
  BY DEF Fetch, ISA!Fetch
<1>2. ISA!InsAt(s)' = ISA!InsAt(s)
  BY <1>1 DEF ISA!InsAt
<1>3. ISA!Rs1At(s)' = ISA!Rs1At(s) /\ ISA!Rs2At(s)' = ISA!Rs2At(s)
  BY <1>2 DEF ISA!Rs1At, ISA!Rs2At
<1>4. ISA!AddrAt(s)' = ISA!AddrAt(s)
  BY <1>2, <1>3 DEF ISA!AddrAt
<1>5. ISA!JumpsAt(s)' <=> ISA!JumpsAt(s)
  BY <1>2, <1>3 DEF ISA!JumpsAt
<1>6. ISA!TargetAt(s)' = ISA!TargetAt(s)
  BY <1>2, <1>4 DEF ISA!TargetAt
<1>7. ISA!CauseAt(s)' = ISA!CauseAt(s)
  BY <1>2, <1>4, <1>5, <1>6 DEF ISA!CauseAt
<1>8. ISA!ValueAt(s)' = ISA!ValueAt(s)
  BY <1>2, <1>3, <1>4 DEF ISA!ValueAt
<1>9. ISA!After(s, NoTail)' = ISA!After(s, NoTail)
  BY <1>2, <1>3, <1>4, <1>5, <1>6, <1>8 DEF ISA!After, ISA!StoresBeyond, NoTail
<1> QED
  BY <1>1, <1>3, <1>4, <1>7, <1>8, <1>9

LEMMA FetchIsInstr ==
  ASSUME TypeOK, NEW a
  PROVE  Fetch(a) \in Instr
BY ProgramsAssumption, EbreakIsInstr DEF TypeOK, Fetch

-----------------------------------------------------------------------------
(* Lane 0 of EX computes what step() does.  s is the state the instruction *)
(* in EX finds: its program counter and the registers as all older ones    *)
(* leave them.                                                             *)

ExFinds(s) == ex0.valid /\ s.pc = ex0.pc /\ s.regs = RegsAfterMem

LEMMA ExOperands ==
  ASSUME TypeOK, OperandsInOrder, WordsInFlight, NEW s, ExFinds(s)
  PROVE  /\ ISA!InsAt(s) = ex0.ins /\ ex0.ins \in Instr
         /\ Rs1Used(ex0.ins) => ISA!Rs1At(s) = ex0.op1 /\ ISA!AddrAt(s) = EffAddr
         /\ Rs2Used(ex0.ins) => ISA!Rs2At(s) = ex0.op2
<1>1. ISA!InsAt(s) = Fetch(ex0.pc)
  BY SameWords DEF ExFinds, ISA!InsAt
<1>2. ex0.ins = Fetch(ex0.pc)
  BY DEF ExFinds, WordsInFlight
<1>3. ex0.ins \in Instr
  BY <1>2, FetchIsInstr
<1>4. Rs1Used(ex0.ins) => ISA!Rs1At(s) = ex0.op1
  BY <1>1, <1>2 DEF ExFinds, OperandsInOrder, ISA!Rs1At
<1>5. Rs2Used(ex0.ins) => ISA!Rs2At(s) = ex0.op2
  BY <1>1, <1>2 DEF ExFinds, OperandsInOrder, ISA!Rs2At
<1>6. Rs1Used(ex0.ins) => ISA!AddrAt(s) = EffAddr
  BY <1>1, <1>2, <1>4, SameWords DEF ISA!AddrAt, EffAddr
<1> QED
  BY <1>1, <1>2, <1>3, <1>4, <1>5, <1>6

LEMMA ExControl ==
  ASSUME TypeOK, OperandsInOrder, WordsInFlight, NEW s, ExFinds(s)
  PROVE  /\ ISA!JumpsAt(s) <=> ControlTaken
         /\ ControlTaken => ISA!TargetAt(s) = ControlTarget
         /\ InstrMisaligned <=> ISA!JumpsAt(s) /\ ISA!TargetAt(s) % 4 # 0
<1>1. ISA!InsAt(s) = ex0.ins /\ s.pc = ex0.pc /\ ex0.valid
  BY ExOperands DEF ExFinds
<1>2. ex0.ins.cls = "branch" => ISA!Rs1At(s) = ex0.op1 /\ ISA!Rs2At(s) = ex0.op2
  BY ExOperands DEF Rs1Used, Rs2Used
<1>3. ex0.ins.cls = "jalr" => ISA!AddrAt(s) = EffAddr
  BY ExOperands DEF Rs1Used
<1>4. ISA!JumpsAt(s) <=> ControlTaken
  BY <1>1, <1>2 DEF ISA!JumpsAt, ControlTaken, IsJump
<1>5. ISA!TargetAt(s) = ControlTarget
  BY <1>1, <1>3, SameWords DEF ISA!TargetAt, ControlTarget, EffAddr
<1> QED
  BY <1>4, <1>5 DEF InstrMisaligned, Aligned

\* addr_misaligned is "the address is no multiple of the size".
LEMMA MisalignedIsSize ==
  ASSUME NEW op \in MemFn, NEW a \in Word
  PROVE  Misaligned(op, a) <=> a % ISA!SizeOf(op) # 0
<1>1. a \in Int /\ a % 1 = 0
  BY WordAssumption DEF Word
<1> QED
  BY <1>1 DEF Misaligned, ISA!SizeOf, MemFn, Aligned

LEMMA ExCause ==
  ASSUME TypeOK, OperandsInOrder, WordsInFlight, NEW s, ExFinds(s)
  PROVE  Ex0Exc = ISA!CauseAt(s)
<1> DEFINE i == ex0.ins
<1>1. ISA!InsAt(s) = i /\ i \in Instr /\ ex0.valid /\ WellDecoded(i)
  BY ExOperands DEF ExFinds, Instr
<1>2. InstrMisaligned <=> ISA!JumpsAt(s) /\ ISA!TargetAt(s) % 4 # 0
  BY ExControl
<1>3. EffAddr \in Word
  BY Ex0Types
<1>4. ASSUME ~i.ill, i.cls \in {"load", "store"}
      PROVE  MemMisaligned <=> ISA!AddrAt(s) % ISA!SizeOf(i.fn) # 0
  <2>1. i.fn \in MemFn /\ MemOp(i) = i.fn
    BY <1>1, <1>4 DEF WellDecoded, MemOp
  <2>2. ISA!AddrAt(s) = EffAddr
    BY <1>4, ExOperands DEF Rs1Used
  <2> QED
    BY <1>3, <2>1, <2>2, MisalignedIsSize DEF MemMisaligned
<1>5. CASE i.ill
  BY <1>1, <1>5 DEF Ex0Exc, ISA!CauseAt
<1>6. CASE ~i.ill /\ i.cls = "system"
  <2>1. i.fn \in {"ecall", "ebreak"}
    BY <1>1, <1>6 DEF WellDecoded, SysFn
  <2>2. ~ISA!JumpsAt(s) /\ ~InstrMisaligned
    BY <1>1, <1>2, <1>6 DEF ISA!JumpsAt
  <2> QED
    BY <1>1, <1>6, <2>1, <2>2 DEF Ex0Exc, ISA!CauseAt, IsLoad, IsStore
<1>7. CASE ~i.ill /\ i.cls # "system"
  <2>1. i.fn \notin {"ecall", "ebreak"}
    BY <1>1, <1>7
    DEF WellDecoded, Instr, Class, AluFn, BrFn, MemFn, MulFn, DivFn
  <2>2. ISA!JumpsAt(s) => i.cls \notin {"load", "store"}
    BY <1>1 DEF ISA!JumpsAt
  <2>3. CASE InstrMisaligned
    BY <1>1, <1>2, <1>7, <2>1, <2>2, <2>3 DEF Ex0Exc, ISA!CauseAt, IsLoad, IsStore
  <2>4. CASE ~InstrMisaligned /\ i.cls = "load"
    BY <1>1, <1>2, <1>4, <1>7, <2>1, <2>4 DEF Ex0Exc, ISA!CauseAt, IsLoad, IsStore
  <2>5. CASE ~InstrMisaligned /\ i.cls = "store"
    BY <1>1, <1>2, <1>4, <1>7, <2>1, <2>5 DEF Ex0Exc, ISA!CauseAt, IsLoad, IsStore
  <2>6. CASE ~InstrMisaligned /\ i.cls \notin {"load", "store"}
    BY <1>1, <1>2, <1>7, <2>1, <2>6 DEF Ex0Exc, ISA!CauseAt, IsLoad, IsStore
  <2> QED
    BY <2>3, <2>4, <2>5, <2>6
<1> QED
  BY <1>5, <1>6, <1>7

\* A legal ALU operation, in whichever lane, gives what step() gives it.
LEMMA AluValue ==
  ASSUME NEW l, l.ins \in Instr, ~Special(l.ins),
         NEW s, s.pc = l.pc, ISA!InsAt(s) = l.ins,
         Rs1Used(l.ins) => ISA!Rs1At(s) = l.op1,
         Rs2Used(l.ins) => ISA!Rs2At(s) = l.op2
  PROVE  AluY(l) = ISA!ValueAt(s)
<1>1. l.ins.cls \in {"lui", "auipc", "opimm", "op"} /\ ~l.ins.ill
  BY PlainFacts DEF LatchInstr
<1>2. AluOp(l.ins) = l.ins.fn
  BY DEF AluOp, Special
<1>3. CASE l.ins.cls = "lui"
  <2>1. l.ins.fn = "copyb"
    BY <1>3 DEF Instr, WellDecoded
  <2> QED
    BY <1>2, <1>3, <2>1 DEF AluY, UseImm, ISA!ValueAt
<1>4. CASE l.ins.cls = "auipc"
  <2>1. l.ins.fn = "add"
    BY <1>4 DEF Instr, WellDecoded
  <2> QED
    BY <1>2, <1>4, <2>1 DEF AluY, UseImm, ISA!ValueAt
<1>5. CASE l.ins.cls = "opimm"
  BY <1>2, <1>5 DEF AluY, UseImm, Rs1Used, ISA!ValueAt
<1>6. CASE l.ins.cls = "op"
  BY <1>2, <1>6 DEF AluY, UseImm, Rs1Used, Rs2Used, ISA!ValueAt
<1> QED
  BY <1>1, <1>3, <1>4, <1>5, <1>6

\* An instruction that does not trap is legal, and no system instruction.
LEMMA ExLegal ==
  ASSUME ex0.valid, ex0.ins \in Instr, Ex0Exc = "none"
  PROVE  ~ex0.ins.ill /\ ex0.ins.cls \notin {"unknown", "system"}
<1>1. ~ex0.ins.ill
  BY DEF Ex0Exc
<1>2. ex0.ins.fn \notin {"ecall", "ebreak"}
  BY <1>1 DEF Ex0Exc
<1> QED
  BY <1>1, <1>2 DEF Instr, WellDecoded, SysFn

\* The value lane 0 carries to MEM; a load's is read there.
LEMMA ExValue ==
  ASSUME ControlInv, OperandsInOrder, WordsInFlight, NEW s, ExFinds(s),
         Ex0Exc = "none", ~ExStall, RdWrite(ex0.ins), ~IsLoad(ex0.ins)
  PROVE  Ex0Result = ISA!ValueAt(s)
<1> DEFINE i == ex0.ins
<1>1. TypeOK /\ ex0.valid /\ s.pc = ex0.pc
  BY DEF ControlInv, TypeInv, ExFinds
<1>2. /\ ISA!InsAt(s) = i /\ i \in Instr
      /\ Rs1Used(i) => ISA!Rs1At(s) = ex0.op1
      /\ Rs2Used(i) => ISA!Rs2At(s) = ex0.op2
  BY <1>1, ExOperands
<1>3. ~i.ill
  BY <1>1, <1>2, ExLegal
<1>4. CASE i.cls \in {"jal", "jalr"}
  BY <1>1, <1>2, <1>4, SameWords DEF Ex0Result, IsJump, IsMul, IsDiv, IsLoad, IsStore, ISA!ValueAt
<1>5. CASE i.cls = "mul"
  BY <1>2, <1>5 DEF Ex0Result, IsJump, IsMul, IsDiv, IsLoad, IsStore, Rs1Used, Rs2Used,
                    ISA!ValueAt
<1>6. CASE i.cls = "div"
  <2>1. div.done
    BY <1>1, <1>6 DEF ExStall, DivInEx, IsDiv
  <2>2. div.result = DivY(i.fn, ex0.op1, ex0.op2)
    BY <2>1 DEF ControlInv, DividerOwnership
  <2> QED
    BY <1>2, <1>6, <2>2 DEF Ex0Result, IsJump, IsMul, IsDiv, IsLoad, IsStore,
                           Rs1Used, Rs2Used, ISA!ValueAt
<1>7. CASE i.cls \in {"lui", "auipc", "opimm", "op"}
  <2>1. ~Special(i)
    BY <1>3, <1>7 DEF Special, Lane1Eligible
  <2>2. AluY(ex0) = ISA!ValueAt(s)
    BY <1>1, <1>2, <2>1, AluValue
  <2> QED
    BY <1>7, <2>2 DEF Ex0Result, IsJump, IsMul, IsDiv, IsLoad, IsStore
<1> QED
  BY <1>4, <1>5, <1>6, <1>7 DEF RdWrite, IsLoad

-----------------------------------------------------------------------------
(* Each part of the invariant is kept by a clock edge. *)

LEMMA WordsKept ==
  ASSUME ControlInv, WordsInFlight, Clock
  PROVE  WordsInFlight'
<1>1. FrontStep(Issue0, Issue1, RedirectValid, ControlTarget, halted)
  BY DEF Clock
<1>2. imem' = imem /\ \A a : Fetch(a)' = Fetch(a)
  BY <1>1, SameProgram DEF FrontStep
<1>3. /\ buf0.v => buf0.ins = Fetch(buf0.pc)
      /\ buf1.v => buf1.ins = Fetch(buf1.pc)
      /\ ex0.valid => ex0.ins = Fetch(ex0.pc) /\ (ex1.valid => ex1.ins = Fetch(ex1.pc))
  BY DEF WordsInFlight
<1>4. buf0 \in Slot /\ buf1 \in Slot
  BY DEF ControlInv, TypeInv, TypeOK
<1>5. /\ buf0'.v => buf0'.ins = Fetch(buf0'.pc)
      /\ buf1'.v => buf1'.ins = Fetch(buf1'.pc)
  <2>1. CASE FrontFlush(ControlTarget)
    BY <1>4, <2>1 DEF FrontFlush, Slot
  <2>2. CASE FrontRefill
    BY <2>2 DEF FrontRefill, Fetched
  <2>3. CASE FrontReplay
    BY <1>3, <2>3 DEF FrontReplay, Fetched
  <2>4. CASE FrontHold
    BY <1>3, <2>4 DEF FrontHold
  <2> QED
    BY <1>1, <2>1, <2>2, <2>3, <2>4 DEF FrontStep
<1>6. /\ ex0'.valid => ex0'.ins = Fetch(ex0'.pc)
      /\ ex1'.valid => ex1'.ins = Fetch(ex1'.pc)
  BY <1>3, ExMoves, IssueFacts DEF WordsInFlight
<1>7. /\ mem0'.valid => mem0'.ins = Fetch(mem0'.pc)
      /\ mem1'.valid => mem1'.ins = Fetch(mem1'.pc)
  BY MemMoves DEF WordsInFlight
<1> QED
  BY <1>2, <1>5, <1>6, <1>7 DEF WordsInFlight

LEMMA StraightKept ==
  ASSUME ControlInv, Straight, Clock
  PROVE  Straight'
<1>1. /\ TypeOK /\ ProgramOrder
      /\ buf0.v => buf1.pc = AddW(buf0.pc, 4) /\ next_fetch_pc = AddW(buf1.pc, 4)
  BY DEF ControlInv, TypeInv, ProgramOrder
<1>2. CASE ExStall
  BY <1>1, <1>2, ExMoves, PcMoves DEF Straight
<1>3. CASE ~ExStall /\ Issue1
  BY <1>1, <1>3, ExMoves, FrontMoves, IssueFacts DEF Straight
<1>4. CASE ~ExStall /\ Issue0 /\ ~Issue1
  BY <1>1, <1>4, ExMoves, FrontMoves, IssueFacts DEF Straight
<1>5. CASE ~ExStall /\ ~Issue0
  BY <1>5, ExMoves, IssueFacts DEF Straight
<1> QED
  BY <1>2, <1>3, <1>4, <1>5

LEMMA RegsLeft ==
  ASSUME ControlInv, X0, X0', Clock
  PROVE  RegsAfterWb' = RegsAfterMem
<1>1. ASSUME NEW r \in Reg
      PROVE  RegsAfterWb'[r] = RegsAfterMem[r]
  <2>1. CASE r = 0
    <3>1. RegsAfterWb'[0] = 0
      BY RegAssumption DEF RegsAfterWb, Written, X0
    <3> QED
      BY <2>1, <3>1, AfterZero
  <2>2. CASE r # 0
    BY <2>2, WbCatchesUp
  <2> QED
    BY <2>1, <2>2
<1>2. RegsAfterMem = [r \in Reg |-> RegsAfterMem[r]]
  BY DEF RegsAfterMem, Written
<1>3. RegsAfterWb' = [r \in Reg |-> RegsAfterWb'[r]]
  BY DEF RegsAfterWb, Written
<1> QED
  BY <1>1, <1>2, <1>3

\* What is in EX meets in MEM the state it was computed for.
LEMMA MemMeets ==
  ASSUME ControlInv, X0, X0', Clock, ~ExStall, ex0.valid
  PROVE  ExFinds(MemState') /\ MemState'.mem = dmem' /\ MemState'.tail = NoTail /\ mem0'.valid
<1>1. mem0'.valid /\ mem0'.pc = ex0.pc
  BY MemMoves
<1> QED
  BY <1>1, RegsLeft, NoTailOpen DEF MemState, ExFinds

\* The program counter behind lane 0: a transfer that is taken redirects fetch
\* in the clock in which it leaves EX.
LEMMA NextPcExact ==
  ASSUME ControlInv, OperandsInOrder, WordsInFlight, Straight, Clock,
         ~ExStall, Ex0Exc = "none", NEW s, ExFinds(s)
  PROVE  (IF mem1'.valid THEN mem1'.pc ELSE ExPc') = ISA!After(s, NoTail).pc
<1>1. TypeOK /\ ProgramOrder /\ Lane1Discipline /\ ex0.valid /\ s.pc = ex0.pc
  BY DEF ControlInv, TypeInv, ExFinds
<1>2. /\ mem1'.valid <=> ex1.valid
      /\ ex1.valid => mem1'.pc = ex1.pc
  BY MemMoves
<1>3. CASE ControlTaken
  <2>1. RedirectValid
    BY <1>3 DEF RedirectValid
  <2>2. ~ex1.valid
    BY <1>1, <2>1, PlainIsQuiet DEF Lane1Discipline
  <2>3. ExPc' = ControlTarget
    BY <1>1, <2>1, PcMoves
  <2>4. ISA!After(s, NoTail).pc = ControlTarget
    BY <1>1, <1>3, ExControl DEF ISA!After
  <2> QED
    BY <1>2, <2>2, <2>3, <2>4
<1>4. CASE ~ControlTaken
  <2>1. ~RedirectValid
    BY <1>4 DEF RedirectValid
  <2>2. ExPc' = FrontPc
    BY <1>1, <2>1, PcMoves
  <2>3. ISA!After(s, NoTail).pc = AddW(ex0.pc, 4)
    BY <1>1, <1>4, ExControl, SameWords DEF ISA!After
  <2> QED
    BY <1>1, <1>2, <2>2, <2>3 DEF Straight
<1> QED
  BY <1>3, <1>4

LEMMA Mem0Exact ==
  ASSUME ControlInv, OperandsInOrder, WordsInFlight, Clock,
         ~ExStall, Ex0Exc = "none", NEW s, ExFinds(s), s.mem = dmem', s.tail = NoTail
  PROVE  /\ RdWrite(mem0'.ins) => Mem0Value' = ISA!ValueAt(s)
         /\ IsStore(mem0'.ins) => mem0'.addr = ISA!AddrAt(s) /\ mem0'.sdata = ISA!Rs2At(s)
<1> DEFINE i == ex0.ins
<1>1. TypeOK /\ ex0.valid
  BY DEF ControlInv, TypeInv, ExFinds
<1>2. /\ ISA!InsAt(s) = i /\ i \in Instr
      /\ Rs1Used(i) => ISA!AddrAt(s) = EffAddr
      /\ Rs2Used(i) => ISA!Rs2At(s) = ex0.op2
  BY <1>1, ExOperands
<1>3. /\ mem0'.ins = i /\ mem0'.result = Ex0Result
      /\ mem0'.addr = EffAddr /\ mem0'.sdata = ex0.op2
  BY <1>1 DEF Clock, MemStep, Ex0ToMem
<1>4. CASE IsLoad(i)
  <2>1. MemOp(i) = i.fn
    BY <1>1, <1>2, <1>4, ExLegal DEF MemOp, IsLoad
  <2>2. ISA!AddrAt(s) = EffAddr
    BY <1>2, <1>4 DEF IsLoad, Rs1Used
  <2>3. Mem0Value' = LoadValue(i.fn, EffAddr, DmemWord(WordAddr(mem0.addr))')
    BY <1>3, <1>4, <2>1 DEF Mem0Value, LsuLoadValue
  <2>4. DmemWord(WordAddr(mem0.addr))' = ISA!MemWord(s, WordAddr(EffAddr))
    <3>1. WordAddr(EffAddr) \in Word
      BY <1>1, Ex0Types, WordAddrType
    <3> QED
      BY <1>3, <3>1 DEF DmemWord, ISA!MemWord, NoTail
  <2>5. ISA!ValueAt(s) = LoadValue(i.fn, EffAddr, ISA!MemWord(s, WordAddr(EffAddr)))
    BY <1>2, <1>4, <2>2, SameWords DEF ISA!ValueAt, IsLoad
  <2>6. Mem0Value' = ISA!ValueAt(s)
    BY <2>3, <2>4, <2>5
  <2> QED
    BY <1>3, <1>4, <2>6 DEF IsLoad, IsStore
<1>5. CASE ~IsLoad(i)
  <2>1. RdWrite(i) => Ex0Result = ISA!ValueAt(s)
    BY <1>5, ExValue
  <2>2. Mem0Value' = Ex0Result
    BY <1>3, <1>5 DEF Mem0Value
  <2> QED
    BY <1>2, <1>3, <2>1, <2>2 DEF IsStore, Rs1Used, Rs2Used
<1> QED
  BY <1>4, <1>5

\* Lane 1 sees the registers lane 0 leaves, though both read them together.
LEMMA Mem1Exact ==
  ASSUME ControlInv, OperandsInOrder, WordsInFlight, Straight, Clock,
         ~ExStall, ex1.valid, NEW s, ExFinds(s)
  PROVE  mem1'.result = ISA!ValueAt(ISA!After(s, NoTail)) /\ ExPc' = AddW(mem1'.pc, 4)
<1> DEFINE t == ISA!After(s, NoTail)
<1>1. TypeOK /\ ProgramOrder /\ Lane1Discipline /\ ex0.valid /\ s.regs = RegsAfterMem
  BY DEF ControlInv, TypeInv, ExFinds
<1>2. /\ ~Special(ex0.ins) /\ ~Special(ex1.ins)
      /\ ex0.ins.rd # 0 => ~Reads(ex1.ins, ex0.ins.rd)
      /\ Ex0Exc = "none" /\ ~RedirectValid /\ ex1.pc = AddW(ex0.pc, 4)
  BY <1>1, PlainIsQuiet DEF Lane1Discipline, ProgramOrder
<1>3. mem1'.valid /\ mem1'.pc = ex1.pc /\ mem1'.result = AluY(ex1)
  BY DEF Clock, MemStep, Ex1ToMem, Ex1Result
<1>4. t.pc = ex1.pc
  BY <1>2, <1>3, NextPcExact
<1>5. ISA!InsAt(t) = ex1.ins /\ ex1.ins \in Instr
  BY <1>1, <1>4, SameWords, FetchIsInstr DEF WordsInFlight, ISA!InsAt
<1>6. ISA!InsAt(s) = ex0.ins
  BY <1>1, ExOperands
<1>7. \A r \in Reg : Reads(ex1.ins, r) => t.regs[r] = RegsAfterMem[r]
  BY <1>1, <1>2, <1>6 DEF ISA!After, ISA!WritesRd
<1>8. ex1.ins.rs1 \in Reg /\ ex1.ins.rs2 \in Reg
  BY <1>5 DEF Instr
<1>9. /\ Rs1Used(ex1.ins) => ISA!Rs1At(t) = ex1.op1
      /\ Rs2Used(ex1.ins) => ISA!Rs2At(t) = ex1.op2
  BY <1>5, <1>7, <1>8 DEF OperandsInOrder, Reads, ISA!Rs1At, ISA!Rs2At
<1>10. AluY(ex1) = ISA!ValueAt(t)
  <2> HIDE DEF t
  <2> QED
    BY <1>2, <1>4, <1>5, <1>9, AluValue
<1>11. ExPc' = FrontPc /\ FrontPc = AddW(ex1.pc, 4)
  BY <1>1, <1>2, PcMoves DEF Straight
<1> QED
  BY <1>3, <1>10, <1>11

LEMMA MemExactKept ==
  ASSUME IsaInv, X0', Clock
  PROVE  MemExact'
<1>1. CASE ExStall \/ ~ex0.valid
  BY <1>1, MemMoves DEF MemExact
<1>2. CASE ~ExStall /\ ex0.valid
  <2> DEFINE s == MemState'
  <2>1. /\ ControlInv /\ TypeOK /\ X0 /\ OperandsInOrder /\ WordsInFlight /\ Straight
        /\ ExFinds(s) /\ s.mem = dmem' /\ s.tail = NoTail /\ imem' = imem
    BY <1>2, MemMeets DEF IsaInv, ControlInv, TypeInv, Clock, FrontStep
  <2> HIDE DEF s
  <2>2. mem0'.exc = Ex0Exc /\ Ex0Exc = ISA!CauseAt(s)
    BY <1>2, <2>1, MemMoves, ExCause
  <2>3. Ex0Exc = "none" =>
          /\ (IF mem1'.valid THEN mem1'.pc ELSE ExPc') = ISA!After(s, NoTail).pc
          /\ RdWrite(mem0'.ins) => Mem0Value' = ISA!ValueAt(s)
          /\ IsStore(mem0'.ins) => mem0'.addr = ISA!AddrAt(s) /\ mem0'.sdata = ISA!Rs2At(s)
    BY <1>2, <2>1, NextPcExact, Mem0Exact
  <2>4. mem1'.valid => mem1'.result = ISA!ValueAt(ISA!After(s, NoTail)) /\ ExPc' = AddW(mem1'.pc, 4)
    BY <1>2, <2>1, MemMoves, Mem1Exact
  <2>5. /\ \A u : ISA!CauseAt(u)' = ISA!CauseAt(u) /\ ISA!ValueAt(u)' = ISA!ValueAt(u)
        /\ \A u : ISA!AddrAt(u)' = ISA!AddrAt(u) /\ ISA!Rs2At(u)' = ISA!Rs2At(u)
        /\ \A u : ISA!After(u, NoTail)' = ISA!After(u, NoTail)
    BY <2>1, SameProgram
  <2> QED
    BY <2>2, <2>3, <2>4, <2>5 DEF MemExact, s
<1> QED
  BY <1>1, <1>2

-----------------------------------------------------------------------------
(* A clock edge is a step of the reference model. *)

LEMMA TwoInARow ==
  ASSUME NEW a, NEW b
  PROVE  <<a>> \o <<b>> = <<a, b>>
<1> DEFINE q == <<a>> \o <<b>>
<1>1. <<a>> \in Seq({a, b}) /\ <<b>> \in Seq({a, b})
  OBVIOUS
<1>2. q \in Seq({a, b}) /\ Len(q) = 2 /\ q[1] = a /\ q[2] = b
  BY <1>1
<1> HIDE DEF q
<1>3. q = <<a, b>>
  BY <1>2
<1> QED
  BY <1>3 DEF q

\* MEM is empty: behind a trap, in a halted core, or while EX is waited for.
LEMMA NothingLeaves ==
  ASSUME IsaInv, X0', Clock, ~mem0.valid
  PROVE  ISA!Wait
<1>1. TypeOK /\ ControlInv /\ X0 /\ PreciseTrap /\ ProgramOrder /\ ~mem1.valid
  BY DEF IsaInv, ControlInv, TypeInv, ProgramOrder
<1>2. RegsAfterWb' = RegsAfterWb
  <2>1. RegsAfterMem = RegsAfterWb
    BY <1>1 DEF RegsAfterMem, RegsAfterWb, Written, Offers
  <2> QED
    BY <1>1, <2>1, RegsLeft
<1>3. dmem' = dmem /\ imem' = imem
  <2>1. dmem \in [DmemAddr -> Word] /\ ~DmemWe
    BY <1>1 DEF TypeOK, DmemWe
  <2>2. dmem' = [a \in DmemAddr |-> dmem[a]]
    BY <2>1 DEF Clock, DmemStep
  <2> QED
    BY <2>1, <2>2 DEF Clock, FrontStep
<1>4. ~wb0'.valid /\ ~wb1'.valid
  BY <1>1, WbMoves
<1>5. traceBar' = <<>>
  BY <1>4 DEF traceBar, Commit0Valid, Commit1Valid
<1>6. PcBar' = PcBar /\ TrapBar' = TrapBar
  <2>1. ~Excepting(wb0)'
    BY <1>4 DEF Excepting
  <2>2. CASE halted
    <3>1. ~Excepting(wb0)
      BY <1>1, <2>2 DEF PreciseTrap, EmptyWb, Excepting
    <3> QED
      BY <1>1, <2>2, <3>1, TrapMoves DEF PcBar, TrapBar
  <2>3. CASE ~halted /\ Excepting(wb0)
    BY <1>1, <2>3, TrapMoves DEF PcBar, TrapBar
  <2>4. CASE ~halted /\ ~Excepting(wb0)
    <3>1. ~halted' /\ MemPc' = ExPc /\ MemPc = ExPc
      BY <1>1, <2>4, TrapMoves, PcMoves DEF MemPc
    <3> QED
      BY <2>1, <2>4, <3>1 DEF PcBar, TrapBar
  <2> QED
    BY <2>2, <2>3, <2>4
<1>7. archBar' = archBar
  BY <1>2, <1>3, <1>6, NoTailOpen DEF archBar
<1> QED
  BY <1>3, <1>5, <1>7 DEF ISA!Wait

\* The instruction in MEM runs in the state the mapping shows.
LEMMA MemRuns ==
  ASSUME IsaInv, mem0.valid
  PROVE  /\ ~halted /\ ~Excepting(wb0) /\ archBar = MemState
         /\ ISA!InsAt(MemState) = mem0.ins
<1>1. ~halted /\ ~Excepting(wb0)
  BY DEF IsaInv, ControlInv, PreciseTrap, EmptyMem
<1>2. archBar = MemState
  BY <1>1 DEF archBar, PcBar, TrapBar, MemPc, MemState
<1>3. ISA!InsAt(MemState) = mem0.ins
  BY SameWords DEF IsaInv, WordsInFlight, ISA!InsAt, MemState
<1> QED
  BY <1>1, <1>2, <1>3

\* A trap in MEM is a call of _trap(): nothing is written, and the program
\* counter stays where it is.
LEMMA TrapLeaves ==
  ASSUME IsaInv, X0', Clock, Excepting(mem0)
  PROVE  ISA!Trap
<1>1. /\ TypeOK /\ ControlInv /\ X0 /\ mem0.valid /\ mem0.exc # "none" /\ ~mem1.valid
      /\ mem0.exc = ISA!CauseAt(MemState)
  BY DEF IsaInv, ControlInv, TypeInv, PreciseTrap, Excepting, MemExact
<1>2. ~halted /\ ~Excepting(wb0) /\ archBar = MemState
  BY <1>1, MemRuns
<1>3. /\ wb0'.valid /\ wb0'.exc = mem0.exc /\ wb0'.pc = mem0.pc /\ ~wb1'.valid /\ ~halted'
  BY <1>1, <1>2, WbMoves, TrapMoves
<1>4. RegsAfterWb' = RegsAfterWb
  <2>1. RegsAfterMem = RegsAfterWb
    BY <1>1 DEF RegsAfterMem, RegsAfterWb, Written, Offers
  <2> QED
    BY <1>1, <2>1, RegsLeft
<1>5. dmem' = dmem /\ imem' = imem
  <2>1. dmem \in [DmemAddr -> Word] /\ ~DmemWe
    BY <1>1 DEF TypeOK, DmemWe
  <2>2. dmem' = [a \in DmemAddr |-> dmem[a]]
    BY <2>1 DEF Clock, DmemStep
  <2> QED
    BY <2>1, <2>2 DEF Clock, FrontStep
<1>6. traceBar' = <<>>
  BY <1>1, <1>3 DEF traceBar, Commit0Valid, Commit1Valid
<1>7. PcBar' = mem0.pc /\ TrapBar' = mem0.exc
  BY <1>1, <1>3 DEF PcBar, TrapBar, Excepting
<1>8. archBar' = [pc |-> mem0.pc, regs |-> RegsAfterWb, mem |-> dmem, tail |-> NoTail, trap |-> mem0.exc]
  BY <1>4, <1>5, <1>7, NoTailOpen DEF archBar
<1>9. archBar' = [MemState EXCEPT !.trap = mem0.exc]
  BY <1>8 DEF MemState
<1>10. MemState.trap = "none"
  BY DEF MemState
<1> QED
  BY <1>1, <1>2, <1>5, <1>6, <1>9, <1>10 DEF ISA!Trap

\* What lane 0 commits, and the state it leaves.
LEMMA Lane0Leaves ==
  ASSUME IsaInv, Clock, mem0.valid, mem0.exc = "none"
  PROVE  /\ ISA!Runs(MemState)
         /\ dmem' = ISA!After(MemState, NoTail).mem
         /\ Written(RegsAfterWb, mem0, Mem0Value) = ISA!After(MemState, NoTail).regs
         /\ CommitPorts(wb0', IsStore(wb0'.ins)) = ISA!CommitAt(MemState)
<1> DEFINE s == MemState
           i == mem0.ins
<1>1. TypeOK /\ ~halted /\ ISA!InsAt(s) = i
  BY MemRuns DEF IsaInv, ControlInv, TypeInv
<1>2. /\ s.pc = mem0.pc /\ s.regs = RegsAfterWb /\ s.mem = dmem /\ s.trap = "none"
      /\ ISA!CauseAt(s) = "none"
      /\ RdWrite(i) => Mem0Value = ISA!ValueAt(s)
      /\ IsStore(i) => mem0.addr = ISA!AddrAt(s) /\ mem0.sdata = ISA!Rs2At(s)
  BY DEF MemState, IsaInv, MemExact
<1> HIDE DEF s
<1>3. ~i.ill
  BY <1>1, <1>2 DEF ISA!CauseAt
<1>4. RdWrite(i) <=> ISA!SetsValue(i)
  BY DEF RdWrite, ISA!SetsValue
<1>5. dmem' = ISA!After(s, NoTail).mem
  <2>1. IsStore(i) => MemOp(i) = i.fn
    BY <1>3 DEF IsStore, MemOp
  <2>2. DmemWe <=> IsStore(i)
    BY <1>1 DEF DmemWe
  <2>3. ISA!After(s, NoTail).mem
          = [a \in DmemAddr |->
               IF i.cls = "store" /\ a = WordAddr(ISA!AddrAt(s))
               THEN StoreWord(i.fn, ISA!AddrAt(s), dmem[a], ISA!Rs2At(s)) ELSE dmem[a]]
    BY <1>1, <1>2, SameWords DEF ISA!After
  <2>4. dmem' = [a \in DmemAddr |->
                   IF DmemWe /\ a = WordAddr(mem0.addr)
                   THEN StoreWord(MemOp(i), mem0.addr, dmem[a], mem0.sdata) ELSE dmem[a]]
    BY DEF Clock, DmemStep
  <2> QED
    BY <1>2, <2>1, <2>2, <2>3, <2>4 DEF IsStore
<1>6. Written(RegsAfterWb, mem0, Mem0Value) = ISA!After(s, NoTail).regs
  <2>1. ISA!After(s, NoTail).regs = [r \in Reg |-> IF ISA!WritesRd(i) /\ r = i.rd
                                           THEN ISA!ValueAt(s) ELSE RegsAfterWb[r]]
    BY <1>1, <1>2 DEF ISA!After
  <2>2. \A r \in Reg : Offers(mem0, r) /\ r # 0 <=> ISA!WritesRd(i) /\ r = i.rd
    BY <1>4 DEF Offers, ISA!WritesRd
  <2>3. ISA!WritesRd(i) => Mem0Value = ISA!ValueAt(s)
    BY <1>2, <1>4 DEF ISA!WritesRd
  <2> QED
    BY <2>1, <2>2, <2>3 DEF Written
<1>7. CommitPorts(wb0', IsStore(wb0'.ins)) = ISA!CommitAt(s)
  <2>1. /\ wb0'.pc = mem0.pc /\ wb0'.ins = i /\ wb0'.value = Mem0Value
        /\ wb0'.addr = mem0.addr /\ wb0'.sdata = mem0.sdata
    BY DEF Clock, WbStep, ToWb
  <2>2. (RdWrite(i) /\ i.rd # 0) = ISA!WritesRd(i) /\ IsStore(i) = (i.cls = "store")
    BY DEF RdWrite, ISA!WritesRd, ISA!SetsValue, IsStore
  <2>3. (IF ISA!WritesRd(i) THEN Mem0Value ELSE 0) = IF ISA!WritesRd(i) THEN ISA!ValueAt(s) ELSE 0
    BY <1>2, <1>4 DEF ISA!WritesRd
  <2>4. /\ (IF IsStore(i) THEN mem0.addr ELSE 0) = IF i.cls = "store" THEN ISA!AddrAt(s) ELSE 0
        /\ (IF IsStore(i) THEN mem0.sdata ELSE 0) = IF i.cls = "store" THEN ISA!Rs2At(s) ELSE 0
    BY <1>2 DEF IsStore
  <2>5. CommitPorts(wb0', IsStore(wb0'.ins))
          = [pc |-> mem0.pc, ins |-> i, rd_we |-> RdWrite(i) /\ i.rd # 0,
             rd |-> IF RdWrite(i) /\ i.rd # 0 THEN i.rd ELSE 0,
             rd_value |-> IF RdWrite(i) /\ i.rd # 0 THEN Mem0Value ELSE 0,
             mem_write |-> IsStore(i),
             mem_addr |-> IF IsStore(i) THEN mem0.addr ELSE 0,
             mem_data |-> IF IsStore(i) THEN mem0.sdata ELSE 0]
    BY <2>1 DEF CommitPorts
  <2>6. CommitPorts(wb0', IsStore(wb0'.ins))
          = [pc |-> mem0.pc, ins |-> i, rd_we |-> ISA!WritesRd(i),
             rd |-> IF ISA!WritesRd(i) THEN i.rd ELSE 0,
             rd_value |-> IF ISA!WritesRd(i) THEN ISA!ValueAt(s) ELSE 0,
             mem_write |-> i.cls = "store",
             mem_addr |-> IF i.cls = "store" THEN ISA!AddrAt(s) ELSE 0,
             mem_data |-> IF i.cls = "store" THEN ISA!Rs2At(s) ELSE 0]
    BY <2>2, <2>3, <2>4, <2>5
  <2> QED
    BY <1>1, <1>2, <2>6 DEF ISA!CommitAt
<1> QED
  BY <1>2, <1>5, <1>6, <1>7 DEF ISA!Runs, s

LEMMA OneLeaves ==
  ASSUME IsaInv, X0', Clock, mem0.valid, mem0.exc = "none", ~mem1.valid
  PROVE  ISA!Retire
<1>1. TypeOK /\ ControlInv /\ X0 /\ ProgramOrder
  BY DEF IsaInv, ControlInv, TypeInv
<1>2. ~halted /\ ~Excepting(wb0) /\ archBar = MemState
  BY MemRuns
<1>3. /\ wb0'.valid /\ wb0'.exc = "none" /\ ~wb1'.valid /\ ~halted'
  BY <1>1, <1>2, WbMoves, TrapMoves
<1>4. PcBar' = ISA!After(MemState, NoTail).pc /\ TrapBar' = "none"
  <2>1. MemPc' = ExPc
    BY <1>1, PcMoves
  <2>2. ExPc = ISA!After(MemState, NoTail).pc
    BY DEF IsaInv, MemExact
  <2> QED
    BY <1>3, <2>1, <2>2 DEF PcBar, TrapBar, Excepting
<1>5. RegsAfterWb' = ISA!After(MemState, NoTail).regs
  <2>1. RegsAfterMem = Written(RegsAfterWb, mem0, Mem0Value)
    BY DEF RegsAfterMem, Written, Offers
  <2> QED
    BY <1>1, <2>1, RegsLeft, Lane0Leaves
<1>6. archBar' = ISA!After(MemState, NoTail)
  <2>1. MemState.tail = NoTail
    BY DEF MemState
  <2> QED
    BY <1>4, <1>5, <2>1, Lane0Leaves, NoTailOpen DEF archBar, ISA!After
<1>7. traceBar' = <<ISA!CommitAt(MemState)>>
  <2>1. traceBar' = <<CommitPorts(wb0', IsStore(wb0'.ins))>> \o <<>>
    BY <1>3 DEF traceBar, Commit0Valid, Commit1Valid
  <2> QED
    BY <2>1, Lane0Leaves
<1>8. imem' = imem
  BY DEF Clock, FrontStep
<1> QED
  <2>1. archBar'.tail = NoTail
    BY NoTailOpen DEF archBar
  <2> QED
    BY <1>2, <1>6, <1>7, <1>8, <2>1, Lane0Leaves, NoTailOpen DEF ISA!Retire

LEMMA TwoLeave ==
  ASSUME IsaInv, X0', Clock, mem1.valid
  PROVE  ISA!RetireTwo
<1> DEFINE s == MemState
           t == ISA!After(MemState, NoTail)
           i == mem1.ins
<1>1. /\ TypeOK /\ ControlInv /\ X0 /\ ProgramOrder /\ mem0.valid /\ mem0.exc = "none"
      /\ ~Special(mem0.ins) /\ ~Special(i)
  BY DEF IsaInv, ControlInv, TypeInv, ProgramOrder, PreciseTrap, Excepting, Lane1Discipline
<1>2. ~halted /\ ~Excepting(wb0) /\ archBar = s
  BY <1>1, MemRuns
<1>3. /\ wb0'.valid /\ wb0'.exc = "none" /\ ~halted'
      /\ wb1'.valid /\ wb1'.pc = mem1.pc /\ wb1'.ins = i
  BY <1>1, <1>2, WbMoves, TrapMoves
<1>4. /\ t.pc = mem1.pc /\ mem1.result = ISA!ValueAt(t) /\ ExPc = AddW(mem1.pc, 4)
      /\ t.trap = "none" /\ t.mem = dmem' /\ t.tail = NoTail
      /\ t.regs = Written(RegsAfterWb, mem0, Mem0Value)
  BY <1>1, Lane0Leaves DEF IsaInv, MemExact, ISA!After, MemState
<1> HIDE DEF t
<1>5. /\ ISA!InsAt(t) = i /\ i \in LatchInstr
      /\ i.cls \in {"lui", "auipc", "opimm", "op"} /\ ~i.ill /\ RdWrite(i)
  <2>1. ISA!InsAt(t) = i
    BY <1>4, SameWords DEF IsaInv, WordsInFlight, ISA!InsAt
  <2>2. i \in LatchInstr
    BY <1>1 DEF TypeOK, MemLatch
  <2> QED
    BY <1>1, <2>1, <2>2, PlainFacts
<1>6. ISA!Runs(t)
  BY <1>4, <1>5 DEF ISA!Runs, ISA!CauseAt, ISA!JumpsAt
<1>7. /\ ISA!After(t, NoTail).pc = AddW(mem1.pc, 4) /\ ISA!After(t, NoTail).trap = "none"
      /\ ISA!After(t, NoTail).mem = [a \in DmemAddr |-> dmem'[a]]
      /\ ISA!After(t, NoTail).regs = [r \in Reg |-> IF i.rd # 0 /\ r = i.rd
                                             THEN mem1.result ELSE t.regs[r]]
  BY <1>4, <1>5, SameWords
  DEF ISA!After, ISA!JumpsAt, ISA!WritesRd, ISA!SetsValue
<1>8. PcBar' = ISA!After(t, NoTail).pc /\ TrapBar' = "none"
  <2>1. MemPc' = ExPc
    BY <1>1, PcMoves
  <2> QED
    BY <1>3, <1>4, <1>7, <2>1 DEF PcBar, TrapBar, Excepting
<1>9. RegsAfterWb' = ISA!After(t, NoTail).regs
  <2>1. \A r : Offers(mem1, r) <=> i.rd = r
    BY <1>5 DEF IsaInv, Lane1Quiet, Offers
  <2>2. RegsAfterMem = ISA!After(t, NoTail).regs
    BY <1>4, <1>7, <2>1 DEF RegsAfterMem, Written
  <2> QED
    BY <1>1, <2>2, RegsLeft
<1>10. dmem' = ISA!After(t, NoTail).mem
  BY <1>7 DEF Clock, DmemStep
<1>11. archBar' = ISA!After(t, NoTail)
  <2>1. ISA!After(t, NoTail).tail = NoTail
    BY <1>4 DEF ISA!After
  <2> QED
    BY <1>7, <1>8, <1>9, <1>10, <2>1, NoTailOpen DEF archBar, ISA!After
<1>12. CommitPorts(wb1', FALSE) = ISA!CommitAt(t)
  <2>1. wb1'.value = mem1.result
    BY DEF Clock, WbStep, ToWb
  <2> QED
    BY <1>3, <1>4, <1>5, <2>1 DEF CommitPorts, ISA!CommitAt, ISA!WritesRd, ISA!SetsValue
<1>13. traceBar' = <<ISA!CommitAt(s), ISA!CommitAt(t)>>
  <2>1. wb1'.exc = "none"
    BY DEF IsaInv, Lane1Quiet, Clock, WbStep, ToWb
  <2>2. traceBar' = <<CommitPorts(wb0', IsStore(wb0'.ins))>> \o <<CommitPorts(wb1', FALSE)>>
    BY <1>3, <2>1 DEF traceBar, Commit0Valid, Commit1Valid
  <2>3. CommitPorts(wb0', IsStore(wb0'.ins)) = ISA!CommitAt(s)
    BY <1>1, Lane0Leaves
  <2> HIDE DEF s
  <2> QED
    BY <1>12, <2>2, <2>3, TwoInARow
<1>14. imem' = imem
  BY DEF Clock, FrontStep
<1> QED
  <2>1. archBar'.tail = NoTail
    BY NoTailOpen DEF archBar
  <2> QED
    BY <1>1, <1>2, <1>6, <1>11, <1>13, <1>14, <2>1, Lane0Leaves, NoTailOpen DEF ISA!RetireTwo, t

LEMMA ClockIsIsaStep ==
  ASSUME IsaInv, X0', Clock
  PROVE  ISA!Next
<1>1. mem1.valid => mem0.valid
  BY DEF IsaInv, ControlInv, ProgramOrder
<1>2. CASE ~mem0.valid
  BY <1>2, NothingLeaves DEF ISA!Next
<1>3. CASE Excepting(mem0)
  BY <1>3, TrapLeaves DEF ISA!Next
<1>4. CASE mem0.valid /\ ~Excepting(mem0) /\ ~mem1.valid
  BY <1>4, OneLeaves DEF ISA!Next, Excepting
<1>5. CASE mem1.valid
  BY <1>5, TwoLeave DEF ISA!Next
<1> QED
  BY <1>1, <1>2, <1>3, <1>4, <1>5

-----------------------------------------------------------------------------
(* Reset and the initial state. *)

EmptyIsa == EmptyCore /\ next_fetch_pc = ResetPc /\ regs = [r \in Reg |-> 0]

LEMMA EmptyKeepsIsa ==
  ASSUME EmptyIsa
  PROVE  Lane1Quiet /\ OperandsInOrder /\ WordsInFlight /\ Straight /\ MemExact
<1>1. /\ ~buf0.v /\ ~buf1.v /\ ~ex0.valid /\ ~ex1.valid
      /\ ~mem0.valid /\ ~mem1.valid /\ ~wb0.valid /\ ~wb1.valid
  BY DEF EmptyIsa, EmptyCore, EmptyEx, EmptyMem, EmptyWb
<1> QED
  BY <1>1 DEF Lane1Quiet, OperandsInOrder, WordsInFlight, Straight, MemExact

LEMMA EmptyIsInitialArch ==
  ASSUME EmptyIsa
  PROVE  archBar = ISA!InitialArch(dmem, NoTail) /\ traceBar = <<>>
<1>1. /\ ~buf0.v /\ ~ex0.valid /\ ~mem0.valid /\ ~wb0.valid /\ ~wb1.valid /\ ~halted
      /\ next_fetch_pc = ResetPc /\ regs = [r \in Reg |-> 0]
  BY DEF EmptyIsa, EmptyCore, EmptyEx, EmptyMem, EmptyWb
<1>2. PcBar = ResetPc /\ TrapBar = "none"
  BY <1>1 DEF PcBar, TrapBar, Excepting, MemPc, ExPc, FrontPc
<1>3. RegsAfterWb = [r \in Reg |-> 0]
  BY <1>1 DEF RegsAfterWb, Written, Offers
<1>4. traceBar = <<>>
  BY <1>1 DEF traceBar, Commit0Valid, Commit1Valid
<1> QED
  BY <1>2, <1>3, <1>4 DEF archBar, ISA!InitialArch

LEMMA InitIsEmpty == Init => EmptyIsa
BY DEF Init, FrontInit, EmptyIsa, EmptyCore, EmptyEx, EmptyMem, EmptyWb, EmptySlot,
       ExBubble, MemBubble, WbBubble, DivIdle, NoTrap

LEMMA ResetIsEmpty == Reset => EmptyIsa'
BY DEF Reset, FrontReset, EmptyIsa, EmptyCore, EmptyEx, EmptyMem, EmptyWb, EmptySlot,
       ExBubble, MemBubble, WbBubble, DivIdle, NoTrap

LEMMA ResetIsRestart ==
  ASSUME Reset
  PROVE  ISA!Restart
<1>1. (archBar = ISA!InitialArch(dmem, NoTail) /\ traceBar = <<>>)'
  <2>1. (EmptyIsa => archBar = ISA!InitialArch(dmem, NoTail) /\ traceBar = <<>>)'
    BY EmptyIsInitialArch, PTL
  <2> QED
    BY <2>1, ResetIsEmpty
<1>2. dmem' = dmem /\ imem' = imem /\ archBar.mem = dmem /\ archBar.tail = NoTail
  BY DEF Reset, archBar
<1> QED
  <2>1. archBar' = ISA!InitialArch(dmem', NoTail)
    BY <1>1, NoTailOpen DEF ISA!InitialArch
  <2> QED
    BY <1>1, <1>2, <2>1 DEF ISA!Restart

-----------------------------------------------------------------------------
(* The invariant and the refinement. *)

LEMMA StutterIsa ==
  ASSUME IsaInv, UNCHANGED vars
  PROVE  /\ WordsInFlight' /\ Straight' /\ MemExact' /\ Lane1Quiet'
         /\ UNCHANGED ISA!isaVars
<1>1. UNCHANGED <<imem, buf0, buf1, next_fetch_pc, ex0, ex1, mem0, mem1, wb0, wb1,
                  regs, halted, trap, dmem>>
  BY DEF vars, frontVars, pipeVars
<1>2. \A s : Fetch(s)' = Fetch(s)
  BY <1>1, SameProgram
<1>3. RegsAfterWb' = RegsAfterWb
  BY <1>1 DEF RegsAfterWb, Written, Offers
<1>4. /\ FrontPc' = FrontPc /\ ExPc' = ExPc /\ MemPc' = MemPc
      /\ Mem0Value' = Mem0Value /\ MemState' = MemState
  BY <1>1, <1>3
  DEF FrontPc, ExPc, MemPc, Mem0Value, LsuLoadValue, DmemWord, MemState
<1>5. WordsInFlight' /\ Straight' /\ Lane1Quiet'
  BY <1>1, <1>2, <1>4 DEF IsaInv, WordsInFlight, Straight, Lane1Quiet
<1>6. MemExact'
  <2>1. /\ \A u : ISA!CauseAt(u)' = ISA!CauseAt(u) /\ ISA!ValueAt(u)' = ISA!ValueAt(u)
        /\ \A u : ISA!AddrAt(u)' = ISA!AddrAt(u) /\ ISA!Rs2At(u)' = ISA!Rs2At(u)
        /\ \A u : ISA!After(u, NoTail)' = ISA!After(u, NoTail)
    BY <1>1, SameProgram
  <2> QED
    BY <1>1, <1>4, <2>1 DEF IsaInv, MemExact
<1>7. archBar' = archBar /\ traceBar' = traceBar
  BY <1>1, <1>3, <1>4, NoTailOpen
  DEF archBar, traceBar, PcBar, TrapBar, Excepting, Commit0Valid, Commit1Valid
<1> QED
  BY <1>1, <1>5, <1>6, <1>7 DEF ISA!isaVars

LEMMA NextIsa ==
  ASSUME IsaInv, ControlInv', X0', [Next]_vars
  PROVE  IsaInv' /\ [ISA!Next]_(ISA!isaVars)
<1>1. ControlInv /\ X0 /\ OperandsInOrder /\ WordsInFlight /\ Straight /\ Lane1Quiet
  BY DEF IsaInv
<1>2. OperandsInOrder'
  BY <1>1, NextOperands
<1>3. CASE Clock
  <2>1. WordsInFlight' /\ Straight' /\ MemExact' /\ Lane1Quiet'
    BY <1>1, <1>3, WordsKept, StraightKept, MemExactKept, Lane1QuietKept
  <2> QED
    BY <1>2, <1>3, <2>1, ClockIsIsaStep DEF IsaInv
<1>4. CASE Reset
  <2>1. (EmptyIsa => Lane1Quiet /\ OperandsInOrder /\ WordsInFlight /\ Straight /\ MemExact)'
    BY EmptyKeepsIsa, PTL
  <2>2. Lane1Quiet' /\ WordsInFlight' /\ Straight' /\ MemExact'
    BY <1>4, <2>1, ResetIsEmpty
  <2> QED
    BY <1>2, <1>4, <2>2, ResetIsRestart DEF IsaInv, ISA!Next
<1>5. CASE UNCHANGED vars
  BY <1>2, <1>5, StutterIsa DEF IsaInv
<1> QED
  BY <1>3, <1>4, <1>5 DEF Next

LEMMA InitIsa == Init => IsaInv /\ ISA!Init
<1> SUFFICES ASSUME Init PROVE IsaInv /\ ISA!Init
  OBVIOUS
<1>1. EmptyIsa /\ ControlInv
  BY InitIsEmpty, InitControl
<1>2. X0
  BY RegAssumption DEF Init, X0
<1>3. archBar = ISA!InitialArch([a \in DmemAddr |-> 0], NoTail) /\ traceBar = <<>>
  BY <1>1, EmptyIsInitialArch DEF Init
<1> QED
  BY <1>1, <1>2, <1>3, EmptyKeepsIsa, NoTailOpen DEF IsaInv, ISA!Init, Init, FrontInit

\* The core implements RV32IM (rtl/core/superscalar_core.sv against
\* reference_model/rv32im_model.py): every clock edge commits nothing, one
\* instruction, two, or a trap, with the program counter, the registers, the
\* memory and the commit records the reference model computes one instruction
\* at a time, for every program.  A program that stores past the end of the data
\* memory is held to less from there on: RV32IM leaves open what the grown
\* bytearray (rv32im_model.py:65) then has past the end, where the core's memory
\* ignores the store, so a later load of such a word may differ and what follows
\* from it; every word inside, and every run without such a load, may not.
THEOREM CoreImplementsISA == Spec => ImplementsRV32IM
<1>1. IsaInv /\ ControlInv' /\ X0' /\ [Next]_vars => IsaInv' /\ [ISA!Next]_(ISA!isaVars)
  BY NextIsa
<1> QED
  BY <1>1, InitIsa, ControlCorrect, X0Correct, PTL DEF Spec, ImplementsRV32IM, ISA!Spec

=============================================================================
