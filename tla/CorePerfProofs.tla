--------------------------- MODULE CorePerfProofs ---------------------------
(***************************************************************************)
(* The performance counters, proved for every program and every number of  *)
(* cycles.  The two sums rest on the control invariant of the core, which  *)
(* PerfInv repeats beside the counters.  What each counter says of the     *)
(* program is proved over the sequence of the instructions that have left  *)
(* EX: a commit and a trap only move a border inside it, so that each      *)
(* counter is a count over it at every clock edge.                         *)
(***************************************************************************)
EXTENDS CorePerf, CoreProofs, FiniteSetTheorems, SequenceTheorems

Counters == {"cycles", "retired", "dual", "single", "stall", "branches", "mispredicts",
             "loadUse", "structural", "divider"}

PerfTypes == perf \in [Counters -> Nat]

\* The buffer is empty only behind a redirect or a reset, which leave EX empty.
EmptyTogether == ~buf0.v => EmptyEx

PerfInv ==
  /\ ControlInv /\ PerfTypes /\ Lane1Quiet /\ EmptyTogether
  /\ IssuesAreAccountedFor /\ CyclesAreAccountedFor

-----------------------------------------------------------------------------

LEMMA PerfSteps ==
  ASSUME PerfTypes, PerfStep
  PROVE  /\ PerfTypes'
         /\ halted => perf' = perf
         /\ ~halted =>
              /\ perf'.cycles      = perf.cycles + 1
              /\ perf'.retired     = perf.retired + One(Commit0Valid) + One(Commit1Valid)
              /\ perf'.dual        = perf.dual + One(Issue0 /\ Issue1)
              /\ perf'.single      = perf.single + One(Issue0 /\ ~Issue1)
              /\ perf'.stall       = perf.stall + One(~Issue0 /\ buf0.v)
              /\ perf'.mispredicts = perf.mispredicts + One(CountsMispredict)
              /\ perf'.loadUse     = perf.loadUse + One(WaitsForEx(buf0) /\ buf0.v)
              /\ perf'.divider     = perf.divider + One(ExStall)
<1>1. \A k \in Counters : perf[k] \in Nat
  BY DEF PerfTypes
<1>2. CASE halted
  BY <1>2 DEF PerfStep, PerfTypes
<1>3. CASE ~halted
  <2>1. /\ perf'.cycles      = perf.cycles + 1
        /\ perf'.retired     = perf.retired + (One(Commit0Valid) + One(Commit1Valid))
        /\ perf'.dual        = perf.dual + One(Issue0 /\ Issue1)
        /\ perf'.single      = perf.single + One(Issue0 /\ ~Issue1)
        /\ perf'.stall       = perf.stall + One(~Issue0 /\ buf0.v)
        /\ perf'.branches    = perf.branches + One(CountsBranch)
        /\ perf'.mispredicts = perf.mispredicts + One(CountsMispredict)
        /\ perf'.loadUse     = perf.loadUse + One(WaitsForEx(buf0) /\ buf0.v)
        /\ perf'.structural  = perf.structural
                                 + One(Issue0 /\ buf1.v /\ ~Issue1 /\ PairStructural(buf0, buf1))
        /\ perf'.divider     = perf.divider + One(ExStall)
    BY <1>3 DEF PerfStep, CountsRetired
  <2>2. \A b \in BOOLEAN : One(b) \in {0, 1}
    BY DEF One
  <2>3. perf' \in [Counters -> Nat]
    BY <1>1, <1>3 DEF PerfStep, CountsRetired, One, Counters
  <2>4. perf.retired \in Nat
    BY <1>1 DEF Counters
  <2>5. perf'.retired = perf.retired + One(Commit0Valid) + One(Commit1Valid)
    BY <2>1, <2>4 DEF One
  <2> QED
    BY <1>3, <2>1, <2>3, <2>5 DEF PerfTypes
<1> QED
  BY <1>2, <1>3

\* The counter of mispredictions and the redirect of the front end have
\* conditions of their own, and are the same.
LEMMA MispredictIsRedirect == CountsMispredict <=> RedirectValid
<1>1. CountsMispredict => RedirectValid
  BY DEF CountsMispredict, CountsBranch, RedirectValid, ControlTaken, IsJump, Ex0Exc
<1>2. RedirectValid => CountsMispredict
  BY DEF CountsMispredict, CountsBranch, RedirectValid, ControlTaken, IsJump
<1> QED
  BY <1>1, <1>2

\* What a clock edge does to the valid bit of the buffer.
LEMMA BufferMoves ==
  ASSUME TypeOK, ProgramOrder, Clock
  PROVE  /\ RedirectValid => ~buf0'.v
         /\ ~RedirectValid /\ halted => buf0'.v = buf0.v
         /\ ~RedirectValid /\ ~halted => buf0'.v
<1>1. FrontStep(Issue0, Issue1, RedirectValid, ControlTarget, halted)
  BY DEF Clock
<1>2. /\ buf0 \in Slot /\ buf1 \in Slot /\ (buf1.v <=> buf0.v)
      /\ buf0.v \in BOOLEAN /\ buf1.v \in BOOLEAN
  BY DEF TypeOK, ProgramOrder, Slot
<1>3. CASE RedirectValid
  BY <1>1, <1>2, <1>3 DEF FrontStep, FrontFlush, Slot
<1>4. CASE ~RedirectValid /\ halted
  BY <1>1, <1>4 DEF FrontStep, FrontHold
<1>5. CASE ~RedirectValid /\ ~halted
  BY <1>1, <1>2, <1>5 DEF FrontStep, FrontRefill, FrontReplay, FrontHold, Fetched
<1> QED
  BY <1>3, <1>4, <1>5

LEMMA EmptyTogetherKept ==
  ASSUME ControlInv, EmptyTogether, Clock
  PROVE  EmptyTogether'
<1>1. TypeOK /\ ProgramOrder
  BY DEF ControlInv, TypeInv
<1>2. CASE RedirectValid
  <2>1. ~ExStall /\ ~Issue0 /\ ~Issue1
    BY <1>2, IssueFacts DEF RedirectValid
  <2> QED
    BY <2>1, ExMoves DEF EmptyTogether, EmptyEx
<1>3. CASE ~RedirectValid /\ halted
  <2>1. EmptyEx
    BY <1>3 DEF ControlInv, PreciseTrap
  <2>2. ~Issue0 /\ ~Issue1 /\ ~ExStall
    BY <1>3, <2>1, IssueFacts DEF EmptyEx, ExStall, DivInEx
  <2> QED
    BY <2>2, ExMoves DEF EmptyTogether, EmptyEx
<1>4. CASE ~RedirectValid /\ ~halted
  BY <1>1, <1>4, BufferMoves DEF EmptyTogether
<1> QED
  BY <1>2, <1>3, <1>4

-----------------------------------------------------------------------------
(* The two sums are kept by a clock edge. *)

\* How many instructions a stage holds.
Pair(l0, l1) == One(l0.valid) + One(l1.valid)

LEMMA PairType == \A l0, l1 : Pair(l0, l1) \in Nat
BY DEF Pair, One

LEMMA InFlightSum == InFlight = Pair(ex0, ex1) + Pair(mem0, mem1) + Pair(wb0, wb1)
BY DEF InFlight, Pair, One

\* Issue fills EX unless a divide holds it, EX empties into MEM unless it is
\* held, and MEM always empties into WB.
LEMMA StagesMove ==
  ASSUME TypeOK, Clock
  PROVE  /\ Pair(wb0, wb1)' = Pair(mem0, mem1)
         /\ Pair(ex0, ex1)' + Pair(mem0, mem1)' = Pair(ex0, ex1) + One(Issue0) + One(Issue1)
<1>1. Pair(wb0, wb1)' = Pair(mem0, mem1)
  BY WbMoves DEF Pair, One
<1>2. CASE ExStall
  <2>1. ~Issue0 /\ ~Issue1
    BY <1>2, IssueFacts
  <2>2. Pair(ex0, ex1)' = Pair(ex0, ex1)
    BY <1>2, ExMoves DEF Pair
  <2>3. Pair(mem0, mem1)' = 0
    BY <1>2, MemMoves DEF Pair, One
  <2> QED
    BY <1>1, <2>1, <2>2, <2>3, PairType DEF One
<1>3. CASE ~ExStall
  <2>1. Pair(ex0, ex1)' = One(Issue0) + One(Issue1)
    BY <1>3, ExMoves DEF Pair, One
  <2>2. Pair(mem0, mem1)' = Pair(ex0, ex1)
    BY <1>3, MemMoves DEF Pair, One
  <2> QED
    BY <1>1, <2>1, <2>2, PairType DEF One
<1> QED
  BY <1>2, <1>3

\* The arithmetic of IssuesKept: a sum stays level if what issues is counted and
\* what leaves WB is counted.
LEMMA Balance ==
  ASSUME NEW dual \in Nat, NEW single \in Nat, NEW retired \in Nat, NEW ex \in Nat,
         NEW mem \in Nat, NEW wb \in Nat, NEW trapped \in Nat,
         NEW exNext \in Nat, NEW memNext \in Nat, NEW wbNext \in Nat, NEW trappedNext \in Nat,
         NEW issue0 \in Nat, NEW issue1 \in Nat, NEW both \in Nat, NEW alone \in Nat,
         NEW commit0 \in Nat, NEW commit1 \in Nat,
         2 * dual + single = retired + (ex + mem + wb) + trapped,
         wb + trapped = commit0 + commit1 + trappedNext,
         issue0 + issue1 = 2 * both + alone,
         wbNext = mem,
         exNext + memNext = ex + issue0 + issue1
  PROVE  2 * (dual + both) + (single + alone)
           = (retired + commit0 + commit1) + (exNext + memNext + wbNext) + trappedNext
OBVIOUS

LEMMA IssuesKept ==
  ASSUME PerfInv, Clock, PerfStep
  PROVE  IssuesAreAccountedFor'
<1>1. TypeOK /\ PreciseTrap /\ PerfTypes /\ Lane1Quiet
  BY DEF PerfInv, ControlInv, TypeInv
<1>2. PerfTypes'
  BY <1>1, PerfSteps
<1>3. /\ perf.dual \in Nat /\ perf.single \in Nat /\ perf.retired \in Nat
      /\ perf'.dual \in Nat /\ perf'.single \in Nat /\ perf'.retired \in Nat
  BY <1>1, <1>2 DEF PerfTypes, Counters
<1>4. 2 * perf.dual + perf.single
        = perf.retired + (Pair(ex0, ex1) + Pair(mem0, mem1) + Pair(wb0, wb1)) + One(halted)
  BY InFlightSum DEF PerfInv, IssuesAreAccountedFor
<1>5. InFlight' = Pair(ex0, ex1)' + Pair(mem0, mem1)' + Pair(wb0, wb1)'
  BY DEF InFlight, Pair, One
<1>6. CASE halted
  <2>1. EmptyWb /\ EmptyMem /\ EmptyEx /\ ~Excepting(wb0) /\ ~Issue0 /\ ~Issue1
    BY <1>1, <1>6, IssueFacts DEF PreciseTrap, EmptyWb, Excepting
  <2>2. halted' /\ perf' = perf
    BY <1>1, <1>6, <2>1, TrapMoves, PerfSteps
  <2>3. /\ Pair(ex0, ex1) = 0 /\ Pair(mem0, mem1) = 0 /\ Pair(wb0, wb1) = 0
    BY <2>1 DEF EmptyWb, EmptyMem, EmptyEx, Pair, One
  <2>4. Pair(wb0, wb1)' = 0 /\ Pair(ex0, ex1)' + Pair(mem0, mem1)' = 0
    BY <1>1, <2>1, <2>3, StagesMove DEF One
  <2>5. InFlight' = 0
    <3>1. Pair(ex0, ex1)' \in Nat /\ Pair(mem0, mem1)' \in Nat
      BY PairType DEF Pair
    <3> QED
      BY <1>5, <2>4, <3>1
  <2> QED
    BY <1>3, <1>4, <1>6, <2>2, <2>3, <2>5 DEF IssuesAreAccountedFor, One
<1>7. CASE ~halted
  <2>1. /\ perf'.retired = perf.retired + One(Commit0Valid) + One(Commit1Valid)
        /\ perf'.dual    = perf.dual + One(Issue0 /\ Issue1)
        /\ perf'.single  = perf.single + One(Issue0 /\ ~Issue1)
    BY <1>1, <1>7, PerfSteps
  \* What is in WB is committed or is the trap.
  <2>2. Pair(wb0, wb1) + One(halted) = One(Commit0Valid) + One(Commit1Valid) + One(halted')
    <3>1. CASE Excepting(wb0)
      BY <1>1, <1>7, <3>1, TrapMoves
      DEF PreciseTrap, Excepting, Commit0Valid, Commit1Valid, Pair, One
    <3>2. CASE ~Excepting(wb0)
      <4>1. halted' = halted
        BY <1>1, <3>2, TrapMoves
      <4>2. wb0.valid <=> Commit0Valid
        BY <1>7, <3>2 DEF Excepting, Commit0Valid
      <4>3. wb1.valid => wb0.valid
        BY DEF PerfInv, ControlInv, ProgramOrder
      <4>4. wb1.valid <=> Commit1Valid
        BY <1>1, <1>7, <3>2, <4>3 DEF Excepting, Commit1Valid, Lane1Quiet
      <4> QED
        BY <1>7, <4>1, <4>2, <4>4 DEF Pair, One
    <3> QED
      BY <3>1, <3>2
  \* What issues is counted as a pair or as single.
  <2>3. One(Issue0) + One(Issue1) = 2 * One(Issue0 /\ Issue1) + One(Issue0 /\ ~Issue1)
    BY IssueFacts DEF One
  <2>4. /\ Pair(wb0, wb1)' = Pair(mem0, mem1)
        /\ Pair(ex0, ex1)' + Pair(mem0, mem1)' = Pair(ex0, ex1) + One(Issue0) + One(Issue1)
    BY <1>1, StagesMove
  <2>5. /\ Pair(ex0, ex1)' \in Nat /\ Pair(mem0, mem1)' \in Nat /\ Pair(wb0, wb1)' \in Nat
        /\ Pair(ex0, ex1) \in Nat /\ Pair(mem0, mem1) \in Nat /\ Pair(wb0, wb1) \in Nat
    BY PairType DEF Pair
  <2>6. /\ One(Issue0) \in Nat /\ One(Issue1) \in Nat /\ One(halted) \in Nat
        /\ One(Issue0 /\ Issue1) \in Nat /\ One(Issue0 /\ ~Issue1) \in Nat
        /\ One(Commit0Valid) \in Nat /\ One(Commit1Valid) \in Nat /\ One(halted') \in Nat
    BY DEF One
  <2>7. 2 * perf'.dual + perf'.single = perf'.retired + InFlight' + One(halted')
    BY <1>3, <1>4, <1>5, <2>1, <2>2, <2>3, <2>4, <2>5, <2>6, Balance
  <2> QED
    BY <2>7 DEF IssuesAreAccountedFor, One
<1> QED
  BY <1>6, <1>7

LEMMA CyclesKept ==
  ASSUME PerfInv, Clock, PerfStep
  PROVE  CyclesAreAccountedFor'
<1>1. TypeOK /\ ProgramOrder /\ PreciseTrap /\ PerfTypes /\ EmptyTogether
  BY DEF PerfInv, ControlInv, TypeInv
<1>2. /\ perf.cycles \in Nat /\ perf.dual \in Nat /\ perf.single \in Nat
      /\ perf.stall \in Nat /\ perf.mispredicts \in Nat
  BY <1>1 DEF PerfTypes, Counters
<1>3. perf.cycles = perf.dual + perf.single + perf.stall + perf.mispredicts + One(buf0.v)
  BY DEF PerfInv, CyclesAreAccountedFor
<1>4. CASE halted
  <2>1. ~RedirectValid
    BY <1>1, <1>4, ControlNeedsJump DEF PreciseTrap, EmptyEx, RedirectValid
  <2>2. buf0'.v = buf0.v /\ perf' = perf
    BY <1>1, <1>4, <2>1, BufferMoves, PerfSteps
  <2> QED
    BY <1>3, <2>2 DEF CyclesAreAccountedFor, One
<1>5. CASE ~halted
  <2>1. /\ perf'.cycles      = perf.cycles + 1
        /\ perf'.dual        = perf.dual + One(Issue0 /\ Issue1)
        /\ perf'.single      = perf.single + One(Issue0 /\ ~Issue1)
        /\ perf'.stall       = perf.stall + One(~Issue0 /\ buf0.v)
        /\ perf'.mispredicts = perf.mispredicts + One(RedirectValid)
    BY <1>1, <1>5, PerfSteps, MispredictIsRedirect DEF One
  <2>2. CASE ~buf0.v
    <3>1. ~RedirectValid /\ ~Issue0
      BY <1>1, <2>2, ControlNeedsJump, IssueFacts DEF EmptyTogether, EmptyEx, RedirectValid
    <3>2. buf0'.v
      BY <1>1, <1>5, <3>1, BufferMoves
    <3> QED
      BY <1>2, <1>3, <2>1, <2>2, <3>1, <3>2 DEF CyclesAreAccountedFor, One
  <2>3. CASE buf0.v /\ RedirectValid
    <3>1. ~Issue0 /\ ~buf0'.v
      BY <1>1, <2>3, BufferMoves, IssueFacts
    <3> QED
      BY <1>2, <1>3, <2>1, <2>3, <3>1 DEF CyclesAreAccountedFor, One
  <2>4. CASE buf0.v /\ ~RedirectValid
    <3>1. buf0'.v
      BY <1>1, <1>5, <2>4, BufferMoves
    <3> QED
      BY <1>2, <1>3, <2>1, <2>4, <3>1 DEF CyclesAreAccountedFor, One
  <2> QED
    BY <2>2, <2>3, <2>4
<1> QED
  BY <1>4, <1>5

-----------------------------------------------------------------------------

LEMMA ZeroSums ==
  ASSUME perf = ZeroPerf, ~halted, ~buf0.v, EmptyEx, EmptyMem, EmptyWb
  PROVE  PerfTypes /\ Lane1Quiet /\ EmptyTogether /\ IssuesAreAccountedFor /\ CyclesAreAccountedFor
BY DEF ZeroPerf, PerfTypes, Counters, Lane1Quiet, EmptyTogether, EmptyEx, EmptyMem, EmptyWb,
       IssuesAreAccountedFor, CyclesAreAccountedFor, InFlight, One

LEMMA PerfCorrect == PerfSpec => []PerfInv
<1>1. PerfInit => PerfInv
  <2> SUFFICES ASSUME PerfInit PROVE PerfInv
    OBVIOUS
  <2>1. ControlInv
    BY InitControl DEF PerfInit
  <2>2. perf = ZeroPerf /\ ~halted /\ ~buf0.v /\ EmptyEx /\ EmptyMem /\ EmptyWb
    BY DEF PerfInit, Init, FrontInit, EmptySlot, ExBubble, MemBubble, WbBubble,
           EmptyEx, EmptyMem, EmptyWb
  <2> QED
    BY <2>1, <2>2, ZeroSums DEF PerfInv
<1>2. PerfInv /\ [PerfNext]_perfVars => PerfInv'
  <2> SUFFICES ASSUME PerfInv, [PerfNext]_perfVars PROVE PerfInv'
    OBVIOUS
  <2>1. ControlInv'
    BY NextControl DEF PerfInv, PerfNext, PerfClock, PerfReset, Next, perfVars
  <2>2. CASE PerfClock
    <3>1. Clock /\ PerfStep
      BY <2>2 DEF PerfClock
    <3>2. PerfTypes' /\ Lane1Quiet' /\ EmptyTogether'
      BY <3>1, PerfSteps, Lane1QuietKept, EmptyTogetherKept DEF PerfInv
    <3> QED
      BY <2>1, <3>1, <3>2, IssuesKept, CyclesKept DEF PerfInv
  <2>3. CASE PerfReset
    <3>1. (perf = ZeroPerf /\ ~halted /\ ~buf0.v /\ EmptyEx /\ EmptyMem /\ EmptyWb)'
      BY <2>3 DEF PerfReset, Reset, FrontReset, EmptySlot, ExBubble, MemBubble, WbBubble,
                  EmptyEx, EmptyMem, EmptyWb, ZeroPerf
    <3>2. (PerfTypes /\ Lane1Quiet /\ EmptyTogether /\ IssuesAreAccountedFor
             /\ CyclesAreAccountedFor)'
      BY <3>1, ZeroSums, PTL
    <3> QED
      BY <2>1, <3>2 DEF PerfInv
  <2>4. CASE UNCHANGED perfVars
    BY <2>1, <2>4
    DEF PerfInv, perfVars, vars, pipeVars, frontVars, PerfTypes, Lane1Quiet, EmptyTogether, EmptyEx,
        IssuesAreAccountedFor, CyclesAreAccountedFor, InFlight
  <2> QED
    BY <2>2, <2>3, <2>4 DEF PerfNext
<1> QED
  BY <1>1, <1>2, PTL DEF PerfSpec

\* The issue counters and the retire counter agree about every instruction, for
\* every program and every number of cycles.
THEOREM IssuesCounted == PerfSpec => []IssuesAreAccountedFor
BY PerfCorrect, PTL DEF PerfInv

\* Every cycle is counted once: as an issue, a stall, or a refill.
THEOREM CyclesCounted == PerfSpec => []CyclesAreAccountedFor
BY PerfCorrect, PTL DEF PerfInv

-----------------------------------------------------------------------------
(* The instructions that have left EX. *)

\* What the stream can hold, and a lane of the pipeline as a part of it.
Entry    == [pc : Word, ins : Instr]
Trail(l) == IF l.valid THEN <<Committed(l)>> ELSE <<>>

\* Every instruction that has left EX, in order: the committed ones, the one that
\* trapped, and those on their way.  A commit or a trap only moves the border.
LeftEx ==
  stream \o (IF halted THEN <<[pc |-> trap.pc, ins |-> Fetch(trap.pc)]>> ELSE <<>>)
         \o Trail(wb0) \o Trail(wb1) \o Trail(mem0) \o Trail(mem1)

Trapping == halted \/ Excepting(mem0) \/ Excepting(wb0)
\* The last instruction that has left EX may be the one that traps.
Went == IF Trapping THEN Len(LeftEx) - 1 ELSE Len(LeftEx)

\* The address of what was executed behind the k-th of them.
NextPc(k) == IF k < Len(LeftEx) THEN LeftEx[k + 1].pc ELSE ExPc

\* Instructions of one kind among them.
Count(s, X) == Cardinality({k \in 1 .. Len(s) : s[k] \in X})
DivSet  == {m \in Entry : IsDiv(m.ins)}
UsedNext(m) == RdWrite(m.ins) /\ m.ins.rd # 0 /\ Reads(Fetch(AddW(m.pc, 4)), m.ins.rd)
LoadUses == {m \in Entry : IsLoad(m.ins) /\ UsedNext(m)}
DivUses  == {m \in Entry : IsDiv(m.ins) /\ UsedNext(m)}

\* Transfers of control among those that went on: jumps, and branches that did
\* not go on to the next word.
Moved ==
  {k \in 1 .. Went : \/ IsJump(LeftEx[k].ins)
                     \/ LeftEx[k].ins.cls = "branch" /\ NextPc(k) # AddW(LeftEx[k].pc, 4)}
Apart == \A k \in 1 .. Went : ~(LeftEx[k].ins.cls = "branch" /\ LeftEx[k].ins.imm = 4)

\* The cycles the divide in EX has held it so far.
Worked ==
  CASE DivInEx /\ div.done               -> DivLatency + 1
    [] DivInEx /\ ~div.done /\ div.busy -> div.cycle + 1
    [] OTHER                             -> 0

\* The stream and the trap are made of words of the program.
StreamShape ==
  /\ stream \in Seq(Entry)
  /\ \A l \in {wb0, wb1} : l.valid => l.ins = Fetch(l.pc)
  /\ halted => ~IsDiv(Fetch(trap.pc))
  /\ \A l \in {mem0, wb0} : Excepting(l) => ~IsDiv(l.ins)
  /\ Trapping => Len(LeftEx) > 0
\* What has left EX is one run of the program.
RunOn ==
  /\ \A k \in 1 .. Len(LeftEx) : LeftEx[k].ins = Fetch(LeftEx[k].pc)
  /\ \A k \in 1 .. Went :
       \/ NextPc(k) = AddW(LeftEx[k].pc, 4)
       \/ LeftEx[k].ins.cls \in {"jal", "jalr", "branch"}

DivideSum   == perf.divider = (DivLatency + 1) * Count(LeftEx, DivSet) + Worked
LoadUseSum  ==
  perf.loadUse = Count(LeftEx, LoadUses) + (DivLatency + 2) * Count(LeftEx, DivUses)
                   + (IF ex0.valid /\ Committed(ex0) \in DivUses THEN Worked ELSE 0)
RedirectSum == Apart => perf.mispredicts = Cardinality(Moved)

StreamInv == StreamShape /\ RunOn /\ DivideSum /\ LoadUseSum /\ RedirectSum

-----------------------------------------------------------------------------
(* Sequences that grow, and counts over them. *)

LEMMA Grows ==
  ASSUME NEW S, NEW s \in Seq(S), NEW x \in S
  PROVE  /\ s \o <<x>> = Append(s, x) /\ Append(s, x) \in Seq(S)
         /\ Len(Append(s, x)) = Len(s) + 1 /\ Len(s) \in Nat
         /\ \A k \in 1 .. Len(s) : Append(s, x)[k] = s[k]
         /\ Append(s, x)[Len(s) + 1] = x
<1>1. /\ Append(s, x) \in Seq(S) /\ Len(s) \in Nat /\ Len(Append(s, x)) = Len(s) + 1
      /\ \A k \in 1 .. Len(s) : Append(s, x)[k] = s[k]
      /\ Append(s, x)[Len(s) + 1] = x
  OBVIOUS
<1>2. <<x>> \in Seq(S) /\ Len(<<x>>) = 1 /\ <<x>>[1] = x
  OBVIOUS
<1>3. /\ s \o <<x>> \in Seq(S) /\ Len(s \o <<x>>) = Len(s) + 1
      /\ \A k \in 1 .. Len(s) + 1 :
           (s \o <<x>>)[k] = IF k <= Len(s) THEN s[k] ELSE <<x>>[k - Len(s)]
  BY <1>2, ConcatProperties
<1>4. \A k \in 1 .. Len(s) + 1 : (s \o <<x>>)[k] = Append(s, x)[k]
  <2> SUFFICES ASSUME NEW k \in 1 .. Len(s) + 1
               PROVE  (s \o <<x>>)[k] = Append(s, x)[k]
    OBVIOUS
  <2>1. CASE k \in 1 .. Len(s)
    BY <1>1, <1>3, <2>1
  <2>2. CASE k = Len(s) + 1
    BY <1>1, <1>2, <1>3, <2>2
  <2> QED
    BY <1>1, <2>1, <2>2
<1>5. s \o <<x>> = Append(s, x)
  BY <1>1, <1>3, <1>4, SeqEqual
<1> QED
  BY <1>1, <1>5

LEMMA CountGrows ==
  ASSUME NEW S, NEW s \in Seq(S), NEW x \in S, NEW X
  PROVE  Count(s, X) \in Nat /\ Count(Append(s, x), X) = Count(s, X) + One(x \in X)
<1> DEFINE these == {k \in 1 .. Len(s) : s[k] \in X}
           those == {k \in 1 .. Len(Append(s, x)) : Append(s, x)[k] \in X}
<1>1. IsFiniteSet(these) /\ Cardinality(these) \in Nat
  <2>1. Len(s) \in Nat
    OBVIOUS
  <2>2. IsFiniteSet(1 .. Len(s))
    BY <2>1, FS_Interval
  <2>3. IsFiniteSet(these)
    BY <2>2, FS_Subset
  <2> QED
    BY <2>3, FS_CardinalityType
<1>2. Len(s) + 1 \notin these
  BY Grows
<1>3. CASE x \in X
  <2>1. those = these \cup {Len(s) + 1}
    BY <1>3, Grows
  <2> HIDE DEF these, those
  <2>2. Cardinality(those) = Cardinality(these) + 1
    BY <1>1, <1>2, <2>1, FS_AddElement
  <2> QED
    BY <1>1, <1>3, <2>2 DEF Count, One, these, those
<1>4. CASE x \notin X
  <2>1. those = these
    BY <1>4, Grows
  <2>2. Count(s, X) = Cardinality(these) /\ Count(Append(s, x), X) = Cardinality(those)
    BY DEF Count
  <2>3. One(x \in X) = 0
    BY <1>4 DEF One
  <2> HIDE DEF these, those
  <2> QED
    BY <1>1, <2>1, <2>2, <2>3
<1> QED
  BY <1>3, <1>4

-----------------------------------------------------------------------------
(* How the instructions that have left EX become more. *)

Watched == ControlInv /\ Lane1Quiet /\ WordsInFlight /\ Straight /\ EmptyTogether /\ StreamShape

LEMMA LaneEntries ==
  ASSUME Watched
  PROVE  /\ \A l \in {ex0, ex1, mem0, mem1, wb0, wb1} : l.valid => Committed(l) \in Entry
         /\ \A l \in {ex0, ex1, mem0, mem1, wb0, wb1} : Trail(l) \in Seq(Entry)
         /\ [pc |-> trap.pc, ins |-> Fetch(trap.pc)] \in Entry
<1>1. TypeOK
  BY DEF Watched, ControlInv, TypeInv
<1>2. ASSUME NEW l \in {ex0, ex1, mem0, mem1, wb0, wb1}, l.valid
      PROVE  Committed(l) \in Entry
  <2>1. l.ins = Fetch(l.pc)
    BY <1>2 DEF Watched, WordsInFlight, StreamShape
  <2>2. l.pc \in Word
    BY <1>1 DEF TypeOK, ExLatch, MemLatch, WbLatch
  <2>3. l.ins \in Instr
    BY <1>1, <2>1, FetchIsInstr
  <2> QED
    BY <2>2, <2>3 DEF Committed, Entry
<1>3. ASSUME NEW l \in {ex0, ex1, mem0, mem1, wb0, wb1}
      PROVE  Trail(l) \in Seq(Entry)
  BY <1>2 DEF Trail
<1>4. trap.pc \in Word /\ Fetch(trap.pc) \in Instr
  BY <1>1, FetchIsInstr DEF TypeOK
<1> QED
  BY <1>2, <1>3, <1>4 DEF Entry

LEMMA LeftType ==
  ASSUME Watched
  PROVE  LeftEx \in Seq(Entry)
<1> DEFINE t == IF halted THEN <<[pc |-> trap.pc, ins |-> Fetch(trap.pc)]>> ELSE <<>>
<1>1. t \in Seq(Entry) /\ stream \in Seq(Entry)
  BY LaneEntries DEF Watched, StreamShape
<1> HIDE DEF t
<1>2. stream \o t \in Seq(Entry)
  BY <1>1, ConcatProperties
<1>3. stream \o t \o Trail(wb0) \in Seq(Entry)
  BY <1>2, LaneEntries, ConcatProperties
<1>4. stream \o t \o Trail(wb0) \o Trail(wb1) \in Seq(Entry)
  BY <1>3, LaneEntries, ConcatProperties
<1>5. stream \o t \o Trail(wb0) \o Trail(wb1) \o Trail(mem0) \in Seq(Entry)
  BY <1>4, LaneEntries, ConcatProperties
<1>6. stream \o t \o Trail(wb0) \o Trail(wb1) \o Trail(mem0) \o Trail(mem1) \in Seq(Entry)
  BY <1>5, LaneEntries, ConcatProperties
<1> QED
  BY <1>6 DEF LeftEx, t

\* A commit and a trap move the border of the stream only.
LEMMA BorderMoves ==
  ASSUME Watched, Clock, StreamStep
  PROVE  /\ stream' \in Seq(Entry)
         /\ LeftEx' = LeftEx \o Trail(mem0)' \o Trail(mem1)'
<1>1. TypeOK /\ PreciseTrap /\ ProgramOrder /\ Lane1Quiet /\ stream \in Seq(Entry)
  BY DEF Watched, ControlInv, TypeInv, StreamShape
<1>2. Trail(wb0)' = Trail(mem0) /\ Trail(wb1)' = Trail(mem1)
  BY WbMoves DEF Trail, Committed
<1>3. \A q \in Seq(Entry) : q \o <<>> = q
  BY ConcatEmptySeq
<1>4. /\ Trail(wb0) \in Seq(Entry) /\ Trail(wb1) \in Seq(Entry)
      /\ stream \o Trail(wb0) \in Seq(Entry)
      /\ stream \o Trail(wb0) \o Trail(wb1) \in Seq(Entry)
  <2>1. Trail(wb0) \in Seq(Entry) /\ Trail(wb1) \in Seq(Entry)
    BY LaneEntries
  <2>2. stream \o Trail(wb0) \in Seq(Entry)
    BY <1>1, <2>1, ConcatProperties
  <2> QED
    BY <2>1, <2>2, ConcatProperties
<1>5. CASE halted
  <2> DEFINE t == <<[pc |-> trap.pc, ins |-> Fetch(trap.pc)]>>
  <2>1. EmptyWb /\ EmptyMem /\ ~Excepting(wb0)
    BY <1>1, <1>5 DEF PreciseTrap, EmptyWb, Excepting
  <2>2. halted' /\ trap'.pc = trap.pc /\ imem' = imem
    BY <1>1, <1>5, <2>1, TrapMoves DEF Clock, FrontStep
  <2>3. /\ Trail(wb0) = <<>> /\ Trail(wb1) = <<>> /\ Trail(mem0) = <<>> /\ Trail(mem1) = <<>>
    BY <2>1 DEF EmptyWb, EmptyMem, Trail
  <2>4. stream' = stream
    <3>1. ~Commit0Valid /\ ~Commit1Valid
      BY <1>5 DEF Commit0Valid, Commit1Valid
    <3> QED
      BY <1>1, <1>3, <3>1 DEF StreamStep
  <2>5. [pc |-> trap'.pc, ins |-> Fetch(trap.pc)'] = [pc |-> trap.pc, ins |-> Fetch(trap.pc)]
    BY <2>2 DEF Fetch
  <2>6. stream \o t \in Seq(Entry)
    <3>1. t \in Seq(Entry)
      BY LaneEntries
    <3> HIDE DEF t
    <3> QED
      BY <1>1, <3>1, ConcatProperties
  <2>7. LeftEx = stream \o t
    <3>1. LeftEx = stream \o t \o <<>> \o <<>> \o <<>> \o <<>>
      BY <1>5, <2>3 DEF LeftEx
    <3> HIDE DEF t
    <3> QED
      BY <1>3, <2>6, <3>1
  <2>8. LeftEx' = stream \o t \o <<>> \o <<>> \o Trail(mem0)' \o Trail(mem1)'
    BY <1>2, <2>2, <2>3, <2>4, <2>5 DEF LeftEx
  <2> HIDE DEF t
  <2> QED
    BY <1>1, <1>3, <2>4, <2>6, <2>7, <2>8
<1>6. CASE ~halted /\ ~Excepting(wb0)
  <2>1. ~halted'
    BY <1>1, <1>6, TrapMoves
  <2>2. stream' = stream \o Trail(wb0) \o Trail(wb1)
    <3>1. wb0.valid <=> Commit0Valid
      BY <1>6 DEF Excepting, Commit0Valid
    <3>2. wb1.valid <=> Commit1Valid
      BY <1>1, <1>6 DEF Excepting, Commit1Valid, Lane1Quiet, ProgramOrder
    <3> QED
      BY <3>1, <3>2 DEF StreamStep, Trail
  <2>3. LeftEx = stream \o <<>> \o Trail(wb0) \o Trail(wb1) \o Trail(mem0) \o Trail(mem1)
    BY <1>6 DEF LeftEx
  <2>4. LeftEx = stream' \o Trail(mem0) \o Trail(mem1)
    BY <1>1, <1>3, <2>2, <2>3
  <2>5. LeftEx' = stream' \o <<>> \o Trail(mem0) \o Trail(mem1) \o Trail(mem0)' \o Trail(mem1)'
    BY <1>2, <2>1 DEF LeftEx
  <2>6. stream' \in Seq(Entry)
    BY <1>4, <2>2
  <2> QED
    BY <1>3, <2>4, <2>5, <2>6
<1>7. CASE ~halted /\ Excepting(wb0)
  <2>1. ~wb1.valid /\ EmptyMem /\ wb0.valid
    BY <1>1, <1>7 DEF PreciseTrap, Excepting
  <2>2. halted' /\ trap'.pc = wb0.pc /\ imem' = imem
    BY <1>1, <1>7, TrapMoves DEF Clock, FrontStep
  <2>3. /\ Trail(wb1) = <<>> /\ Trail(mem0) = <<>> /\ Trail(mem1) = <<>>
    BY <2>1 DEF EmptyMem, Trail
  <2>4. stream' = stream
    <3>1. ~Commit0Valid /\ ~Commit1Valid
      BY <1>7 DEF Commit0Valid, Commit1Valid, Excepting
    <3> QED
      BY <1>1, <1>3, <3>1 DEF StreamStep
  <2>5. <<[pc |-> trap'.pc, ins |-> Fetch(trap.pc)']>> = Trail(wb0)
    <3>1. wb0.ins = Fetch(wb0.pc)
      BY <2>1 DEF Watched, StreamShape
    <3>2. Fetch(trap.pc)' = Fetch(wb0.pc)
      BY <2>2 DEF Fetch
    <3> QED
      BY <2>1, <2>2, <3>1, <3>2 DEF Trail, Committed
  <2>6. LeftEx = stream \o <<>> \o Trail(wb0) \o <<>> \o <<>> \o <<>>
    BY <1>7, <2>3 DEF LeftEx
  <2>7. LeftEx = stream \o Trail(wb0)
    BY <1>1, <1>3, <1>4, <2>6
  <2>8. LeftEx' = stream \o Trail(wb0) \o <<>> \o <<>> \o Trail(mem0)' \o Trail(mem1)'
    BY <1>2, <2>2, <2>3, <2>4, <2>5 DEF LeftEx
  <2> QED
    BY <1>1, <1>3, <1>4, <2>4, <2>7, <2>8
<1> QED
  BY <1>5, <1>6, <1>7

\* None leaves EX, lane 0 does, or both lanes do.
LEMMA LeftGrows ==
  ASSUME Watched, Clock, StreamStep
  PROVE  /\ ExStall \/ ~ex0.valid => LeftEx' = LeftEx
         /\ ~ExStall /\ ex0.valid =>
              /\ ~ex1.valid => LeftEx' = Append(LeftEx, Committed(ex0))
              /\ ex1.valid => LeftEx' = Append(Append(LeftEx, Committed(ex0)), Committed(ex1))
<1>1. /\ LeftEx' = LeftEx \o Trail(mem0)' \o Trail(mem1)' /\ LeftEx \in Seq(Entry)
      /\ ex1.valid => ex0.valid
  BY BorderMoves, LeftType DEF Watched, ControlInv, ProgramOrder
<1>2. \A q \in Seq(Entry) : q \o <<>> = q
  BY ConcatEmptySeq
<1>3. CASE ExStall \/ ~ex0.valid
  <2>1. Trail(mem0)' = <<>> /\ Trail(mem1)' = <<>>
    BY <1>1, <1>3, MemMoves DEF Trail
  <2> QED
    BY <1>1, <1>2, <1>3, <2>1
<1>4. CASE ~ExStall /\ ex0.valid
  <2>1. /\ Trail(mem0)' = <<Committed(ex0)>>
        /\ Trail(mem1)' = IF ex1.valid THEN <<Committed(ex1)>> ELSE <<>>
    BY <1>4, MemMoves DEF Trail, Committed
  <2>2. Committed(ex0) \in Entry /\ (ex1.valid => Committed(ex1) \in Entry)
    BY <1>4, LaneEntries
  <2>3. LeftEx \o <<Committed(ex0)>> = Append(LeftEx, Committed(ex0))
        /\ Append(LeftEx, Committed(ex0)) \in Seq(Entry)
    BY <1>1, <2>2, Grows
  <2>4. ex1.valid => Append(LeftEx, Committed(ex0)) \o <<Committed(ex1)>>
                       = Append(Append(LeftEx, Committed(ex0)), Committed(ex1))
    BY <2>2, <2>3, Grows
  <2> QED
    BY <1>1, <1>2, <1>4, <2>1, <2>3, <2>4
<1> QED
  BY <1>3, <1>4

LEMMA TrapsStop ==
  ASSUME Watched, Clock, StreamStep
  PROVE  /\ Len(LeftEx) \in Nat /\ Went \in Nat /\ Went <= Len(LeftEx)
         /\ Trapping => /\ Trapping' /\ EmptyEx /\ ~RedirectValid /\ ~ExStall
                        /\ LeftEx' = LeftEx /\ Went' = Went
         /\ ~Trapping => (Trapping' <=> ~ExStall /\ ex0.valid /\ Ex0Exc # "none")
<1>1. TypeOK /\ PreciseTrap /\ LeftEx \in Seq(Entry) /\ (Trapping => Len(LeftEx) > 0)
  BY LeftType DEF Watched, ControlInv, TypeInv, StreamShape
<1>2. Len(LeftEx) \in Nat
  BY <1>1
<1>3. Went \in Nat /\ Went <= Len(LeftEx)
  BY <1>1, <1>2 DEF Went
<1>4. Trapping => Trapping' /\ EmptyEx
  BY <1>1, TrapMoves, WbMoves DEF Trapping, PreciseTrap, Excepting
<1>5. EmptyEx => ~RedirectValid /\ ~ExStall
  BY ControlNeedsJump DEF EmptyEx, RedirectValid, ExStall, DivInEx
<1>6. EmptyEx => LeftEx' = LeftEx
  BY LeftGrows DEF EmptyEx
<1>7. Trapping => Went' = Went
  BY <1>4, <1>6 DEF Went
<1>8. ~Trapping => (Trapping' <=> ~ExStall /\ ex0.valid /\ Ex0Exc # "none")
  BY <1>1, TrapMoves, WbMoves, MemMoves DEF Trapping, Excepting
<1> QED
  BY <1>2, <1>3, <1>4, <1>5, <1>6, <1>7, <1>8

\* The past does not change.
LEMMA PastKept ==
  ASSUME Watched, Clock, StreamStep
  PROVE  /\ Len(LeftEx') \in Nat /\ Len(LeftEx) <= Len(LeftEx') /\ Went <= Went' /\ Went' \in Nat
         /\ \A k \in 1 .. Len(LeftEx) : LeftEx'[k] = LeftEx[k]
         /\ \A k \in 1 .. Went : NextPc(k)' = NextPc(k)
<1>1. TypeOK /\ ProgramOrder /\ LeftEx \in Seq(Entry) /\ (ex1.valid => ex0.valid)
  BY LeftType DEF Watched, ControlInv, TypeInv, ProgramOrder
<1>2. Len(LeftEx) \in Nat /\ Went \in Nat /\ Went <= Len(LeftEx)
  BY TrapsStop
<1>3. CASE Trapping
  <2>1. LeftEx' = LeftEx /\ Went' = Went /\ Went = Len(LeftEx) - 1
    BY <1>3, TrapsStop DEF Went
  <2>2. \A k \in 1 .. Went : NextPc(k)' = NextPc(k)
    BY <1>2, <2>1 DEF NextPc
  <2> QED
    BY <1>2, <2>1, <2>2
<1>4. CASE ~Trapping /\ (ExStall \/ ~ex0.valid)
  <2>1. LeftEx' = LeftEx /\ ~Trapping'
    BY <1>4, LeftGrows, TrapsStop
  <2>2. ExPc' = ExPc
    <3>1. CASE ExStall
      BY <1>1, <3>1, PcMoves
    <3>2. CASE ~ExStall /\ ~ex0.valid
      BY <1>1, <3>2, PcMoves, ControlNeedsJump DEF RedirectValid, ExPc
    <3> QED
      BY <1>4, <3>1, <3>2
  <2>3. Went' = Went
    BY <1>4, <2>1 DEF Went
  <2> QED
    BY <1>2, <2>1, <2>2, <2>3 DEF NextPc
<1>5. CASE ~Trapping /\ ~ExStall /\ ex0.valid
  <2> DEFINE one == Append(LeftEx, Committed(ex0))
  <2>1. /\ one \in Seq(Entry) /\ Len(one) = Len(LeftEx) + 1
        /\ \A k \in 1 .. Len(LeftEx) : one[k] = LeftEx[k]
        /\ one[Len(LeftEx) + 1] = Committed(ex0)
    BY <1>1, <1>5, LaneEntries, Grows
  <2> HIDE DEF one
  <2>2. LeftEx' = one \/ (ex1.valid /\ LeftEx' = Append(one, Committed(ex1)))
    BY <1>5, LeftGrows DEF one
  <2>3. /\ Len(LeftEx') \in Nat /\ Len(LeftEx') >= Len(LeftEx) + 1
        /\ \A k \in 1 .. Len(LeftEx) + 1 : LeftEx'[k] = one[k]
    <3>1. CASE LeftEx' = one
      BY <1>2, <2>1, <3>1
    <3>2. CASE ex1.valid /\ LeftEx' = Append(one, Committed(ex1))
      <4>1. Committed(ex1) \in Entry
        BY <3>2, LaneEntries
      <4> QED
        BY <1>2, <2>1, <3>2, <4>1, Grows
    <3> QED
      BY <2>2, <3>1, <3>2
  <2>4. Went = Len(LeftEx) /\ Went <= Went' /\ Went' \in Nat
    BY <1>2, <1>5, <2>3 DEF Went
  <2>5. ASSUME NEW k \in 1 .. Went
        PROVE  NextPc(k)' = NextPc(k)
    <3>1. CASE k < Len(LeftEx)
      BY <1>2, <2>1, <2>3, <3>1 DEF NextPc
    <3>2. CASE k = Len(LeftEx)
      <4>1. NextPc(k) = ex0.pc
        BY <1>5, <3>2 DEF NextPc, ExPc
      <4>2. NextPc(k)' = LeftEx'[k + 1].pc
        BY <1>2, <2>3, <3>2 DEF NextPc
      <4>3. LeftEx'[k + 1] = Committed(ex0)
        BY <1>2, <2>1, <2>3, <3>2
      <4> QED
        BY <4>1, <4>2, <4>3 DEF Committed
    <3> QED
      BY <1>2, <2>4, <3>1, <3>2
  <2> QED
    BY <1>2, <2>1, <2>3, <2>4, <2>5
<1> QED
  BY <1>3, <1>4, <1>5

\* What joins them, and where fetch went behind it.
LEMMA Newest ==
  ASSUME Watched, Clock, StreamStep, ~ExStall, ex0.valid, NEW n, n = Len(LeftEx)
  PROVE  /\ ~Trapping /\ Went = n
         /\ LeftEx'[n + 1] = Committed(ex0)
         /\ Ex0Exc # "none" => Len(LeftEx') = n + 1 /\ Went' = n
         /\ Ex0Exc = "none" /\ ~ex1.valid =>
              /\ Len(LeftEx') = n + 1 /\ Went' = n + 1
              /\ NextPc(n + 1)' = IF RedirectValid THEN ControlTarget ELSE AddW(ex0.pc, 4)
         /\ ex1.valid =>
              /\ ~Special(ex0.ins) /\ ~Special(ex1.ins) /\ Ex0Exc = "none" /\ ~RedirectValid
              /\ Len(LeftEx') = n + 2 /\ Went' = n + 2 /\ LeftEx'[n + 2] = Committed(ex1)
              /\ NextPc(n + 1)' = AddW(ex0.pc, 4) /\ NextPc(n + 2)' = AddW(ex1.pc, 4)
<1>1. TypeOK /\ ProgramOrder /\ Straight /\ LeftEx \in Seq(Entry)
  BY LeftType DEF Watched, ControlInv, TypeInv
<1>2. ~Trapping /\ Went = n /\ n \in Nat
  BY TrapsStop DEF EmptyEx, Went
<1> DEFINE one == Append(LeftEx, Committed(ex0))
<1>3. one \in Seq(Entry) /\ Len(one) = n + 1 /\ one[n + 1] = Committed(ex0)
  BY <1>1, LaneEntries, Grows
<1> HIDE DEF one
<1>4. ~ex1.valid => LeftEx' = one
  BY LeftGrows DEF one
<1>5. ex1.valid => LeftEx' = Append(one, Committed(ex1)) /\ Committed(ex1) \in Entry
  BY LeftGrows, LaneEntries DEF one
<1>6. LeftEx'[n + 1] = Committed(ex0)
  <2>1. CASE ~ex1.valid
    BY <1>3, <1>4, <2>1
  <2>2. CASE ex1.valid
    <3>1. \A k \in 1 .. Len(one) : Append(one, Committed(ex1))[k] = one[k]
      BY <1>3, <1>5, <2>2, Grows
    <3> QED
      BY <1>2, <1>3, <1>5, <2>2, <3>1
  <2> QED
    BY <2>1, <2>2
<1>7. ASSUME ex1.valid
      PROVE  /\ ~Special(ex0.ins) /\ ~Special(ex1.ins) /\ Ex0Exc = "none" /\ ~RedirectValid
             /\ Len(LeftEx') = n + 2 /\ Went' = n + 2 /\ LeftEx'[n + 2] = Committed(ex1)
             /\ NextPc(n + 1)' = AddW(ex0.pc, 4) /\ NextPc(n + 2)' = AddW(ex1.pc, 4)
  <2>1. ~Special(ex0.ins) /\ ~Special(ex1.ins)
    BY <1>7 DEF Watched, ControlInv, Lane1Discipline
  <2>2. Ex0Exc = "none" /\ ~RedirectValid
    BY <1>1, <2>1, PlainIsQuiet
  <2>3. /\ Len(LeftEx') = n + 2 /\ LeftEx'[n + 2] = Committed(ex1)
    <3>1. /\ Len(Append(one, Committed(ex1))) = Len(one) + 1
          /\ Append(one, Committed(ex1))[Len(one) + 1] = Committed(ex1)
      BY <1>3, <1>5, <1>7, Grows
    <3>2. n + 1 + 1 = n + 2
      BY <1>2
    <3> QED
      BY <1>3, <1>5, <1>7, <3>1, <3>2
  <2>4. Went' = n + 2
    BY <1>2, <2>2, <2>3, TrapsStop DEF Went
  <2>5. NextPc(n + 1)' = AddW(ex0.pc, 4)
    <3>1. n + 1 < n + 2 /\ n + 1 + 1 = n + 2
      BY <1>2
    <3>2. NextPc(n + 1)' = LeftEx'[n + 2].pc
      BY <2>3, <3>1 DEF NextPc
    <3> QED
      BY <1>1, <1>7, <2>3, <3>2 DEF Committed, Straight
  <2>6. NextPc(n + 2)' = AddW(ex1.pc, 4)
    <3>1. ~(n + 2 < n + 2)
      BY <1>2
    <3>2. NextPc(n + 2)' = ExPc'
      BY <2>3, <3>1 DEF NextPc
    <3> QED
      BY <1>1, <1>7, <2>2, <3>2, PcMoves DEF Straight
  <2> QED
    BY <2>1, <2>2, <2>3, <2>4, <2>5, <2>6
<1>8. ASSUME ~ex1.valid
      PROVE  /\ Len(LeftEx') = n + 1
             /\ Ex0Exc # "none" => Went' = n
             /\ Ex0Exc = "none" =>
                  /\ Went' = n + 1
                  /\ NextPc(n + 1)' = IF RedirectValid THEN ControlTarget ELSE AddW(ex0.pc, 4)
  <2>1. Len(LeftEx') = n + 1
    BY <1>3, <1>4, <1>8
  <2>2. Trapping' <=> Ex0Exc # "none"
    BY <1>2, TrapsStop
  <2>3. NextPc(n + 1)' = ExPc'
    <3>1. ~(n + 1 < n + 1)
      BY <1>2
    <3> QED
      BY <2>1, <3>1 DEF NextPc
  <2>4. ExPc' = IF RedirectValid THEN ControlTarget ELSE AddW(ex0.pc, 4)
    BY <1>1, <1>8, PcMoves DEF Straight
  <2> QED
    BY <1>2, <2>1, <2>2, <2>3, <2>4 DEF Went
<1>9. Ex0Exc # "none" => ~ex1.valid
  BY DEF Watched, ControlInv, PreciseTrap
<1> QED
  BY <1>2, <1>6, <1>7, <1>8, <1>9

-----------------------------------------------------------------------------
(* The stream stays a run of the program. *)

LEMMA ShapeKept ==
  ASSUME Watched, Clock, StreamStep
  PROVE  StreamShape'
<1>1. TypeOK /\ PreciseTrap /\ imem' = imem
  BY DEF Watched, ControlInv, TypeInv, Clock, FrontStep
<1>2. \A a : Fetch(a)' = Fetch(a)
  BY <1>1, SameProgram
<1>3. stream' \in Seq(Entry)
  BY BorderMoves
<1>4. \A l \in {wb0', wb1'} : l.valid => l.ins = Fetch(l.pc)
  BY WbMoves DEF Watched, WordsInFlight
<1>5. Trapping' => Len(LeftEx') > 0
  <2>1. CASE Trapping
    BY <2>1, TrapsStop DEF Watched, StreamShape
  <2>2. CASE ~Trapping /\ Trapping'
    <3>1. ~ExStall /\ ex0.valid /\ Ex0Exc # "none"
      BY <2>2, TrapsStop
    <3>2. Len(LeftEx') = Len(LeftEx) + 1 /\ Len(LeftEx) \in Nat
      BY <3>1, Newest, TrapsStop
    <3> QED
      BY <3>2
  <2> QED
    BY <2>1, <2>2
<1>6. ASSUME halted'
      PROVE  ~IsDiv(Fetch(trap'.pc))
  <2>1. CASE Excepting(wb0)
    BY <1>1, <2>1, TrapMoves DEF Watched, StreamShape, Excepting
  <2>2. CASE ~Excepting(wb0)
    BY <1>1, <1>6, <2>2, TrapMoves DEF Watched, StreamShape
  <2> QED
    BY <2>1, <2>2
<1>7. Excepting(mem0)' => ~IsDiv(mem0'.ins)
  <2> SUFFICES ASSUME Excepting(mem0)' PROVE ~IsDiv(mem0'.ins)
    OBVIOUS
  <2>1. ~ExStall /\ ex0.valid /\ Ex0Exc # "none" /\ mem0'.ins = ex0.ins
    BY MemMoves DEF Excepting
  <2> QED
    BY <1>1, <2>1, DivideIsQuiet DEF DivInEx
<1>8. Excepting(wb0)' => ~IsDiv(wb0'.ins)
  BY WbMoves DEF Watched, StreamShape, Excepting
<1>9. \A l \in {mem0', wb0'} : Excepting(l) => ~IsDiv(l.ins)
  BY <1>7, <1>8 DEF Excepting
<1> QED
  BY <1>2, <1>3, <1>4, <1>5, <1>6, <1>9 DEF StreamShape, Excepting

LEMMA RunOnKept ==
  ASSUME Watched, RunOn, Clock, StreamStep
  PROVE  RunOn'
<1>1. /\ TypeOK /\ imem' = imem /\ \A a : Fetch(a)' = Fetch(a)
      /\ (ex1.valid => ex0.valid)
  BY SameProgram DEF Watched, ControlInv, TypeInv, ProgramOrder, Clock, FrontStep
<1>0. PICK n : n = Len(LeftEx)
  OBVIOUS
<1> DEFINE OfProgram(k) == LeftEx'[k].ins = Fetch(LeftEx'[k].pc)
           GoesOn(k) == \/ NextPc(k)' = AddW(LeftEx'[k].pc, 4)
                        \/ LeftEx'[k].ins.cls \in {"jal", "jalr", "branch"}
<1>2. n \in Nat /\ Went \in Nat /\ Went <= n
  BY <1>0, TrapsStop
<1>3. /\ \A k \in 1 .. n : OfProgram(k)
      /\ \A k \in 1 .. Went : GoesOn(k)
  BY <1>0, <1>1, <1>2, PastKept DEF RunOn
<1>4. CASE ExStall \/ ~ex0.valid
  <2>1. LeftEx' = LeftEx
    BY <1>4, LeftGrows
  <2>2. Went' = Went
    <3>1. CASE Trapping
      BY <3>1, TrapsStop
    <3>2. CASE ~Trapping
      <4>1. ~Trapping'
        BY <1>4, <3>2, TrapsStop
      <4> QED
        BY <2>1, <3>2, <4>1 DEF Went
    <3> QED
      BY <3>1, <3>2
  <2> QED
    BY <1>0, <1>1, <1>3, <2>1, <2>2 DEF RunOn
<1>5. CASE ~ExStall /\ ex0.valid
  <2>1. /\ Went = n /\ LeftEx'[n + 1] = Committed(ex0)
        /\ Ex0Exc # "none" => Len(LeftEx') = n + 1 /\ Went' = n
        /\ Ex0Exc = "none" /\ ~ex1.valid =>
              /\ Len(LeftEx') = n + 1 /\ Went' = n + 1
              /\ NextPc(n + 1)' = IF RedirectValid THEN ControlTarget ELSE AddW(ex0.pc, 4)
        /\ ex1.valid =>
              /\ Ex0Exc = "none"
              /\ Len(LeftEx') = n + 2 /\ Went' = n + 2 /\ LeftEx'[n + 2] = Committed(ex1)
              /\ NextPc(n + 1)' = AddW(ex0.pc, 4) /\ NextPc(n + 2)' = AddW(ex1.pc, 4)
    BY <1>0, <1>5, Newest
  <2>2. /\ ex0.ins = Fetch(ex0.pc) /\ (ex1.valid => ex1.ins = Fetch(ex1.pc))
    BY <1>5 DEF Watched, WordsInFlight
  <2>3. RedirectValid => ex0.ins.cls \in {"jal", "jalr", "branch"}
    BY ControlNeedsJump DEF RedirectValid
  <2>4. OfProgram(n + 1) /\ (ex1.valid => OfProgram(n + 2))
    BY <2>1, <2>2 DEF Committed
  <2>5. /\ Ex0Exc = "none" => GoesOn(n + 1)
        /\ ex1.valid => GoesOn(n + 2)
    BY <2>1, <2>3 DEF Committed
  <2> HIDE DEF OfProgram, GoesOn
  <2>6. \A k \in 1 .. Len(LeftEx') : OfProgram(k)
    <3>1. CASE ex1.valid
      BY <1>2, <1>3, <2>1, <2>4, <3>1
    <3>2. CASE ~ex1.valid
      BY <1>2, <1>3, <2>1, <2>4, <3>2
    <3> QED
      BY <3>1, <3>2
  <2>7. \A k \in 1 .. Went' : GoesOn(k)
    <3>1. CASE ex1.valid
      BY <1>2, <1>3, <2>1, <2>5, <3>1
    <3>2. CASE ~ex1.valid /\ Ex0Exc = "none"
      BY <1>2, <1>3, <2>1, <2>5, <3>2
    <3>3. CASE Ex0Exc # "none"
      BY <1>3, <2>1, <3>3
    <3> QED
      BY <3>1, <3>2, <3>3
  <2> QED
    BY <1>1, <2>6, <2>7 DEF RunOn, OfProgram, GoesOn, Fetch
<1> QED
  BY <1>4, <1>5

-----------------------------------------------------------------------------
(* The divider counter. *)

\* A divide in EX works on, and every cycle it does is a stall; when it leaves,
\* it has worked for DivLatency + 1 cycles.
LEMMA WorkGoesOn ==
  ASSUME ControlInv, Clock
  PROVE  /\ Worked \in Nat
         /\ ExStall => Worked' = Worked + 1
         /\ ~ExStall /\ DivInEx => Worked = DivLatency + 1
         /\ ~DivInEx => Worked = 0
         /\ ~ExStall => Worked' = 0
<1>1. /\ TypeOK /\ DividerOwnership /\ div \in DivState /\ DivLatency \in Nat \ {0}
      /\ div.busy \in BOOLEAN /\ div.done \in BOOLEAN /\ div.cycle \in Nat
  BY DivAssumption DEF ControlInv, TypeInv, TypeOK, DivState
<1>2. DivStep(DivStart, ex0.ins.fn, ex0.op1, ex0.op2)
  BY DEF Clock
<1>3. Worked \in Nat
  BY <1>1 DEF Worked
<1>4. ~DivInEx => Worked = 0
  BY DEF Worked
<1>5. ~ExStall /\ DivInEx => Worked = DivLatency + 1
  BY DEF Worked, ExStall
<1>6. CASE ExStall /\ ~div.busy
  <2>1. DivStart /\ DivAccept(ex0.ins.fn, ex0.op1, ex0.op2) /\ DivInEx /\ ~div.done
    BY <1>2, <1>6 DEF DivStep, DivStart, ExStall
  <2>2. div'.busy /\ ~div'.done /\ div'.cycle = 0
    BY <2>1 DEF DivAccept
  <2>3. DivInEx'
    BY <1>6, <2>1, ExMoves DEF DivInEx
  <2>4. Worked = 0 /\ Worked' = 1
    BY <1>6, <2>1, <2>2, <2>3 DEF Worked
  <2> QED
    BY <1>3, <1>4, <1>5, <1>6, <2>4
<1>7. CASE ExStall /\ div.busy
  <2>1. DivInEx /\ ~div.done /\ DivInEx'
    BY <1>7, ExMoves DEF ExStall, DivInEx
  <2>2. Worked = div.cycle + 1
    BY <1>7, <2>1 DEF Worked
  <2>3. CASE div.cycle = DivLatency - 1 /\ DivFinish
    <3>1. div'.done
      BY <1>1, <2>3 DEF DivFinish, DivState
    <3>2. Worked' = DivLatency + 1
      BY <2>1, <3>1 DEF Worked
    <3> QED
      BY <1>1, <1>3, <1>5, <1>4, <1>7, <2>2, <2>3, <3>2
  <2>4. CASE DivIterate
    <3>1. ~div'.done /\ div'.busy /\ div'.cycle = div.cycle + 1
      BY <1>1, <1>7, <2>4 DEF DivIterate, DivState
    <3>2. Worked' = div.cycle + 2
      BY <1>1, <2>1, <3>1 DEF Worked
    <3> QED
      BY <1>1, <1>3, <1>4, <1>5, <1>7, <2>2, <3>2
  <2> QED
    BY <1>2, <1>7, <2>3, <2>4 DEF DivStep
<1>8. CASE ~ExStall
  <2>1. ~div.busy /\ ~DivStart
    BY <1>1, <1>8 DEF ExStall, DividerOwnership, DivStart
  <2>2. DivRest
    BY <1>2, <2>1 DEF DivStep
  <2>3. ~div'.busy /\ ~div'.done
    BY <1>1, <2>1, <2>2 DEF DivRest, DivState
  <2>4. Worked' = 0
    BY <2>3 DEF Worked
  <2> QED
    BY <1>3, <1>4, <1>5, <1>8, <2>4
<1> QED
  BY <1>6, <1>7, <1>8

\* A count over what has left EX, one clock edge later.
LEMMA CountMoves ==
  ASSUME Watched, Clock, StreamStep, NEW X
  PROVE  /\ Count(LeftEx, X) \in Nat
         /\ ExStall \/ ~ex0.valid => Count(LeftEx', X) = Count(LeftEx, X)
         /\ ~ExStall /\ ex0.valid /\ ~ex1.valid =>
              Count(LeftEx', X) = Count(LeftEx, X) + One(Committed(ex0) \in X)
         /\ ~ExStall /\ ex0.valid /\ ex1.valid =>
              Count(LeftEx', X) = Count(LeftEx, X) + One(Committed(ex0) \in X) + One(Committed(ex1) \in X)
<1>1. LeftEx \in Seq(Entry)
  BY LeftType
<1>2. Count(LeftEx, X) \in Nat
  <2>1. EmptySlot.ins \in Instr /\ 0 \in Word
    BY EbreakIsInstr, SmallWords DEF EmptySlot
  <2>2. [pc |-> 0, ins |-> EmptySlot.ins] \in Entry
    BY <2>1 DEF Entry
  <2> QED
    BY <1>1, <2>2, CountGrows
<1>3. CASE ExStall \/ ~ex0.valid
  BY <1>2, <1>3, LeftGrows
<1>4. CASE ~ExStall /\ ex0.valid
  <2> DEFINE one == Append(LeftEx, Committed(ex0))
  <2>1. Committed(ex0) \in Entry /\ (ex1.valid => Committed(ex1) \in Entry)
    BY <1>4, LaneEntries
  <2>2. one \in Seq(Entry) /\ Count(one, X) = Count(LeftEx, X) + One(Committed(ex0) \in X)
    BY <1>1, <2>1, Grows, CountGrows
  <2> HIDE DEF one
  <2>3. ex1.valid => Count(Append(one, Committed(ex1)), X) = Count(one, X) + One(Committed(ex1) \in X)
    BY <2>1, <2>2, CountGrows
  <2>4. /\ ~ex1.valid => LeftEx' = one
        /\ ex1.valid => LeftEx' = Append(one, Committed(ex1))
    BY <1>4, LeftGrows DEF one
  <2>5. CASE ex1.valid
    BY <1>2, <1>4, <2>2, <2>3, <2>4, <2>5
  <2>6. CASE ~ex1.valid
    BY <1>2, <1>4, <2>2, <2>4, <2>6
  <2> QED
    BY <2>5, <2>6
<1> QED
  BY <1>2, <1>3, <1>4

\* What is in lane 1 is no load and no divide.
LEMMA Lane1Counts ==
  ASSUME Watched, ex1.valid
  PROVE  ~IsLoad(ex0.ins) /\ ~IsDiv(ex0.ins) /\ ~IsLoad(ex1.ins) /\ ~IsDiv(ex1.ins)
BY DEF Watched, ControlInv, Lane1Discipline, Special, IsLoad, IsDiv

LEMMA OnceMore ==
  ASSUME NEW n \in Nat, NEW k \in Nat
  PROVE  k * (n + 1) = k * n + k
OBVIOUS

LEMMA DivideSumKept ==
  ASSUME Watched, PerfTypes, DivideSum, Clock, PerfStep, StreamStep
  PROVE  DivideSum'
<1> DEFINE c == Count(LeftEx, DivSet)
           L == DivLatency + 1
<1>1. /\ ControlInv /\ TypeOK /\ perf.divider \in Nat /\ L \in Nat /\ c \in Nat
      /\ perf.divider = L * c + Worked
  BY CountMoves, DivAssumption DEF Watched, ControlInv, TypeInv, PerfTypes, Counters, DivideSum
<1>2. Worked \in Nat /\ L * c \in Nat
  BY <1>1, WorkGoesOn
<1>3. perf'.divider = perf.divider + One(ExStall)
  <2>1. CASE halted
    <3>1. ~ExStall /\ perf' = perf
      BY <2>1, PerfSteps DEF Watched, ControlInv, PreciseTrap, EmptyEx, ExStall, DivInEx
    <3> QED
      BY <1>1, <3>1 DEF One
  <2>2. CASE ~halted
    BY <2>2, PerfSteps
  <2> QED
    BY <2>1, <2>2
<1>4. DivSet' = DivSet
  BY DEF DivSet, Entry
<1>5. Count(LeftEx', DivSet) = c + One(~ExStall /\ DivInEx)
  <2>1. CASE ExStall \/ ~ex0.valid
    BY <1>1, <2>1, CountMoves DEF One, DivInEx
  <2>2. CASE ~ExStall /\ ex0.valid /\ ~ex1.valid
    <3>1. Committed(ex0) \in DivSet <=> DivInEx
      BY <2>2, LaneEntries DEF DivSet, Committed, DivInEx
    <3> QED
      BY <1>1, <2>2, <3>1, CountMoves DEF One
  <2>3. CASE ~ExStall /\ ex0.valid /\ ex1.valid
    <3>1. Committed(ex0) \notin DivSet /\ Committed(ex1) \notin DivSet /\ ~DivInEx
      BY <2>3, Lane1Counts DEF DivSet, Committed, DivInEx
    <3> QED
      BY <1>1, <2>3, <3>1, CountMoves DEF One
  <2> QED
    BY <2>1, <2>2, <2>3
<1>6. perf'.divider = L * Count(LeftEx', DivSet) + Worked'
  <2> HIDE DEF c, L
  <2>1. CASE ExStall
    <3>1. Worked' = Worked + 1 /\ One(ExStall) = 1 /\ One(~ExStall /\ DivInEx) = 0
      BY <1>1, <2>1, WorkGoesOn DEF One
    <3> QED
      BY <1>1, <1>2, <1>3, <1>5, <3>1
  <2>2. CASE ~ExStall /\ DivInEx
    <3>1. Worked = L /\ Worked' = 0 /\ One(ExStall) = 0 /\ One(~ExStall /\ DivInEx) = 1
      BY <1>1, <2>2, WorkGoesOn DEF One, L
    <3>2. L * (c + 1) = L * c + L
      BY <1>1, OnceMore
    <3> QED
      BY <1>1, <1>2, <1>3, <1>5, <3>1, <3>2
  <2>3. CASE ~ExStall /\ ~DivInEx
    <3>1. Worked = 0 /\ Worked' = 0 /\ One(ExStall) = 0 /\ One(~ExStall /\ DivInEx) = 0
      BY <1>1, <2>3, WorkGoesOn DEF One
    <3> QED
      BY <1>1, <1>2, <1>3, <1>5, <3>1
  <2> QED
    BY <2>1, <2>2, <2>3
<1> QED
  BY <1>4, <1>6 DEF DivideSum, Count

-----------------------------------------------------------------------------
(* The load-use counter. *)

\* The instruction in slot 0 waits for the one in EX exactly if that is a load or
\* a divide whose next word reads its result.
LEMMA WaitIsUse ==
  ASSUME Watched, ex0.valid
  PROVE  WaitsForEx(buf0) /\ buf0.v <=> Committed(ex0) \in LoadUses \cup DivUses
<1>1. Straight /\ buf0.v /\ Committed(ex0) \in Entry
  BY LaneEntries DEF Watched, EmptyTogether, EmptyEx
<1>2. CASE ~IsLoad(ex0.ins) /\ ~IsDiv(ex0.ins)
  BY <1>2 DEF WaitsForEx, LoadUses, DivUses, Committed
<1>3. CASE IsLoad(ex0.ins) \/ IsDiv(ex0.ins)
  <2>1. ~ex1.valid
    BY <1>3, Lane1Counts
  <2>2. buf0.pc = AddW(ex0.pc, 4)
    BY <1>1, <2>1 DEF Straight, FrontPc
  <2>3. buf0.ins = Fetch(AddW(ex0.pc, 4))
    BY <1>1, <2>2 DEF Watched, WordsInFlight
  <2> QED
    BY <1>1, <1>3, <2>3 DEF WaitsForEx, LoadUses, DivUses, UsedNext, Committed
<1> QED
  BY <1>2, <1>3

LEMMA LoadUseSumKept ==
  ASSUME Watched, PerfTypes, LoadUseSum, Clock, PerfStep, StreamStep
  PROVE  LoadUseSum'
<1> DEFINE c == Count(LeftEx, LoadUses)
           d == Count(LeftEx, DivUses)
           L == DivLatency + 2
           owes == ex0.valid /\ Committed(ex0) \in DivUses
           w == IF owes THEN Worked ELSE 0
           lend == ex0.valid /\ Committed(ex0) \in LoadUses
<1>1. /\ ControlInv /\ TypeOK /\ perf.loadUse \in Nat /\ L \in Nat /\ c \in Nat /\ d \in Nat
      /\ perf.loadUse = c + L * d + w
  BY CountMoves, DivAssumption DEF Watched, ControlInv, TypeInv, PerfTypes, Counters, LoadUseSum
<1>2. Worked \in Nat /\ L * d \in Nat /\ w \in Nat
  BY <1>1, WorkGoesOn
<1>3. owes => DivInEx
  BY DEF DivUses, Committed, DivInEx
<1>4. lend => ~DivInEx /\ ~ExStall /\ ~owes
  BY DEF LoadUses, DivUses, Committed, DivInEx, ExStall, IsLoad, IsDiv
<1>5. perf'.loadUse = perf.loadUse + One(lend \/ owes)
  <2>1. CASE halted
    <3>1. ~ex0.valid /\ perf' = perf
      BY <2>1, PerfSteps DEF Watched, ControlInv, PreciseTrap, EmptyEx
    <3> QED
      BY <1>1, <3>1 DEF One
  <2>2. CASE ~halted
    <3>1. WaitsForEx(buf0) /\ buf0.v <=> lend \/ owes
      BY WaitIsUse DEF WaitsForEx
    <3>2. perf'.loadUse = perf.loadUse + One(WaitsForEx(buf0) /\ buf0.v)
      BY <2>2, PerfSteps
    <3> QED
      BY <3>1, <3>2 DEF One
  <2> QED
    BY <2>1, <2>2
<1>6. LoadUses' = LoadUses /\ DivUses' = DivUses
  <2>1. imem' = imem
    BY DEF Clock, FrontStep
  <2> QED
    BY <2>1 DEF LoadUses, DivUses, UsedNext, Entry, Fetch
<1>7. /\ Count(LeftEx', LoadUses) = c + One(lend)
      /\ Count(LeftEx', DivUses) = d + One(~ExStall /\ owes)
  <2>1. CASE ExStall \/ ~ex0.valid
    <3>1. ~lend /\ ~(~ExStall /\ owes)
      BY <1>4, <2>1
    <3> QED
      BY <1>1, <2>1, <3>1, CountMoves DEF One
  <2>2. CASE ~ExStall /\ ex0.valid /\ ~ex1.valid
    <3>1. /\ One(lend) = One(Committed(ex0) \in LoadUses)
          /\ One(~ExStall /\ owes) = One(Committed(ex0) \in DivUses)
      BY <2>2 DEF One
    <3> QED
      BY <1>1, <2>2, <3>1, CountMoves
  <2>3. CASE ~ExStall /\ ex0.valid /\ ex1.valid
    <3>1. /\ Committed(ex0) \notin LoadUses /\ Committed(ex1) \notin LoadUses
          /\ Committed(ex0) \notin DivUses /\ Committed(ex1) \notin DivUses
      BY <2>3, Lane1Counts DEF LoadUses, DivUses, Committed
    <3> QED
      BY <1>1, <2>3, <3>1, CountMoves DEF One
  <2> QED
    BY <2>1, <2>2, <2>3
<1> DEFINE wNext == IF ex0'.valid /\ Committed(ex0') \in DivUses THEN Worked' ELSE 0
<1>8. perf'.loadUse = Count(LeftEx', LoadUses) + L * Count(LeftEx', DivUses) + wNext
  <2>1. ~ExStall => wNext = 0
    BY <1>1, WorkGoesOn
  <2>2. ExStall => wNext = IF owes THEN Worked + 1 ELSE 0
    BY <1>1, WorkGoesOn, ExMoves DEF Committed
  <2>3. owes /\ ~ExStall => w = L - 1
    BY <1>1, <1>3, WorkGoesOn, DivAssumption
  <2>4. w = IF owes THEN Worked ELSE 0
    OBVIOUS
  <2>5. (lend \in BOOLEAN) /\ (owes \in BOOLEAN)
    OBVIOUS
  <2> HIDE DEF c, d, L, owes, w, lend, wNext
  <2>6. CASE lend
    <3>1. One(lend \/ owes) = 1 /\ One(lend) = 1 /\ One(~ExStall /\ owes) = 0 /\ w = 0 /\ wNext = 0
      BY <1>4, <2>1, <2>4, <2>6 DEF One
    <3> QED
      BY <1>1, <1>2, <1>5, <1>7, <3>1
  <2>7. CASE owes /\ ExStall
    <3>1. /\ One(lend \/ owes) = 1 /\ One(lend) = 0 /\ One(~ExStall /\ owes) = 0
          /\ w = Worked /\ wNext = Worked + 1
      BY <1>4, <2>2, <2>4, <2>7 DEF One
    <3> QED
      BY <1>1, <1>2, <1>5, <1>7, <3>1
  <2>8. CASE owes /\ ~ExStall
    <3>1. /\ One(lend \/ owes) = 1 /\ One(lend) = 0 /\ One(~ExStall /\ owes) = 1
          /\ w = L - 1 /\ wNext = 0
      BY <1>4, <2>1, <2>3, <2>8 DEF One
    <3>2. L * (d + 1) = L * d + L
      BY <1>1, OnceMore
    <3> QED
      BY <1>1, <1>2, <1>5, <1>7, <3>1, <3>2
  <2>9. CASE ~lend /\ ~owes
    <3>1. /\ One(lend \/ owes) = 0 /\ One(lend) = 0 /\ One(~ExStall /\ owes) = 0
          /\ w = 0 /\ wNext = 0
      BY <2>1, <2>2, <2>4, <2>9 DEF One
    <3> QED
      BY <1>1, <1>2, <1>5, <1>7, <3>1
  <2> QED
    BY <2>6, <2>7, <2>8, <2>9
<1> QED
  BY <1>6, <1>8 DEF LoadUseSum, Committed


-----------------------------------------------------------------------------
(* The counter of mispredictions. *)

\* A target that is not the next word: the sum wraps around at most once.
LEMMA TargetApart ==
  ASSUME NEW a \in Word, NEW b \in Word, NEW c \in Word, b # c
  PROVE  AddW(a, b) # AddW(a, c)
<1>1. /\ a \in Int /\ b \in Int /\ c \in Int /\ WordSize \in Int
      /\ b < WordSize /\ c < WordSize /\ b >= 0 /\ c >= 0
  BY WordAssumption DEF Word
<1>2. CASE a + b < WordSize /\ a + c < WordSize
  BY <1>1, <1>2 DEF AddW
<1>3. CASE a + b < WordSize /\ ~(a + c < WordSize)
  BY <1>1, <1>3 DEF AddW
<1>4. CASE ~(a + b < WordSize) /\ a + c < WordSize
  BY <1>1, <1>4 DEF AddW
<1>5. CASE ~(a + b < WordSize) /\ ~(a + c < WordSize)
  BY <1>1, <1>5 DEF AddW
<1> QED
  BY <1>2, <1>3, <1>4, <1>5

LEMMA MovedFinite ==
  ASSUME Watched
  PROVE  IsFiniteSet(Moved) /\ Cardinality(Moved) \in Nat /\ Moved \subseteq 1 .. Went
<1>1. Went \in Int
  <2>1. Len(LeftEx) \in Nat
    BY LeftType
  <2> QED
    BY <2>1 DEF Went
<1>2. IsFiniteSet(1 .. Went)
  BY <1>1, FS_Interval
<1>3. Moved \subseteq 1 .. Went
  BY DEF Moved
<1> QED
  BY <1>2, <1>3, FS_Subset, FS_CardinalityType

LEMMA RedirectSumKept ==
  ASSUME Watched, PerfTypes, RedirectSum, Clock, PerfStep, StreamStep
  PROVE  RedirectSum'
<1>1. /\ ControlInv /\ TypeOK /\ perf.mispredicts \in Nat /\ (ex1.valid => ex0.valid)
  BY DEF Watched, ControlInv, TypeInv, ProgramOrder, PerfTypes, Counters
<1>2. PICK n : n = Len(LeftEx)
  OBVIOUS
<1>3. PICK w : w = Went
  OBVIOUS
<1>4. PICK M : M = Moved
  OBVIOUS
<1>5. /\ n \in Nat /\ w \in Nat /\ w <= n
      /\ IsFiniteSet(M) /\ Cardinality(M) \in Nat /\ M \subseteq 1 .. w
  BY <1>2, <1>3, <1>4, TrapsStop, MovedFinite
<1>6. perf'.mispredicts = perf.mispredicts + One(RedirectValid)
  <2>1. CASE halted
    <3>1. ~RedirectValid /\ perf' = perf
      BY <2>1, PerfSteps, TrapsStop DEF Trapping
    <3> QED
      BY <1>1, <3>1 DEF One
  <2>2. CASE ~halted
    BY <2>2, PerfSteps, MispredictIsRedirect DEF One
  <2> QED
    BY <2>1, <2>2
<1> DEFINE Goes(k) == \/ IsJump(LeftEx'[k].ins)
                      \/ LeftEx'[k].ins.cls = "branch" /\ NextPc(k)' # AddW(LeftEx'[k].pc, 4)
           Stays(k) == ~(LeftEx'[k].ins.cls = "branch" /\ LeftEx'[k].ins.imm = 4)
<1>7. /\ M = {k \in 1 .. w : Goes(k)}
      /\ Apart <=> \A k \in 1 .. w : Stays(k)
  <2>1. \A k \in 1 .. w : LeftEx'[k] = LeftEx[k] /\ NextPc(k)' = NextPc(k)
    BY <1>2, <1>3, <1>5, PastKept
  <2>2. \A k \in 1 .. w : Goes(k) <=> \/ IsJump(LeftEx[k].ins)
                                      \/ LeftEx[k].ins.cls = "branch" /\ NextPc(k) # AddW(LeftEx[k].pc, 4)
    BY <2>1
  <2>3. \A k \in 1 .. w : Stays(k) <=> ~(LeftEx[k].ins.cls = "branch" /\ LeftEx[k].ins.imm = 4)
    BY <2>1
  <2> HIDE DEF Goes, Stays
  <2> QED
    BY <1>3, <1>4, <2>2, <2>3 DEF Moved, Apart
<1>8. /\ Moved' = {k \in 1 .. Went' : Goes(k)}
      /\ Apart' <=> \A k \in 1 .. Went' : Stays(k)
  BY DEF Moved, Apart, IsJump
<1>9. /\ Went' \in Nat /\ w <= Went'
  BY <1>3, PastKept
<1>10. Apart => perf.mispredicts = Cardinality(M)
  BY <1>4 DEF RedirectSum
<1>11. Apart' => Apart
  <2> HIDE DEF Stays
  <2> QED
    BY <1>5, <1>7, <1>8, <1>9
<1>12. ASSUME ~RedirectValid, Moved' = M
       PROVE  RedirectSum'
  <2>1. perf'.mispredicts = perf.mispredicts
    BY <1>1, <1>6, <1>12 DEF One
  <2> QED
    BY <1>10, <1>11, <1>12, <2>1 DEF RedirectSum
<1>13. CASE ExStall \/ ~ex0.valid
  <2>1. ~RedirectValid
    BY <1>13, ControlNeedsJump DEF RedirectValid
  <2>2. LeftEx' = LeftEx
    BY <1>13, LeftGrows
  <2>3. Went' = w
    <3>1. CASE Trapping
      BY <1>3, <3>1, TrapsStop
    <3>2. CASE ~Trapping
      <4>1. ~Trapping'
        BY <1>13, <3>2, TrapsStop
      <4> QED
        BY <1>3, <2>2, <3>2, <4>1 DEF Went
    <3> QED
      BY <3>1, <3>2
  <2>4. Moved' = M
    BY <1>7, <1>8, <2>3
  <2> QED
    BY <1>12, <2>1, <2>4
<1>14. CASE ~ExStall /\ ex0.valid
  <2>1. /\ w = n /\ LeftEx'[n + 1] = Committed(ex0)
        /\ Ex0Exc # "none" => Went' = n
        /\ Ex0Exc = "none" /\ ~ex1.valid =>
              /\ Went' = n + 1
              /\ NextPc(n + 1)' = IF RedirectValid THEN ControlTarget ELSE AddW(ex0.pc, 4)
        /\ ex1.valid =>
              /\ ~Special(ex0.ins) /\ ~Special(ex1.ins) /\ Ex0Exc = "none" /\ ~RedirectValid
              /\ Went' = n + 2 /\ LeftEx'[n + 2] = Committed(ex1)
    BY <1>2, <1>3, <1>14, Newest
  <2>2. CASE Ex0Exc # "none"
    <3>1. ~RedirectValid
      BY <2>2 DEF RedirectValid
    <3>2. Moved' = M
      BY <1>7, <1>8, <2>1, <2>2
    <3> QED
      BY <1>12, <3>1, <3>2
  <2>3. CASE ex1.valid
    <3>1. ~Goes(n + 1) /\ ~Goes(n + 2)
      BY <2>1, <2>3 DEF Committed, Special, IsJump
    <3>2. ASSUME NEW k \in 1 .. n + 2, Goes(k)
          PROVE  k \in 1 .. n
      <4> HIDE DEF Goes
      <4>1. k # n + 1 /\ k # n + 2
        BY <3>1, <3>2
      <4> QED
        BY <1>5, <4>1
    <3>3. 1 .. n \subseteq 1 .. n + 2
      BY <1>5
    <3>4. Moved' = M
      <4> HIDE DEF Goes
      <4> QED
        BY <1>7, <1>8, <2>1, <2>3, <3>2, <3>3
    <3> QED
      BY <1>12, <2>1, <2>3, <3>4
  <2>4. CASE Ex0Exc = "none" /\ ~ex1.valid
    <3>1. /\ Went' = n + 1
          /\ NextPc(n + 1)' = IF RedirectValid THEN ControlTarget ELSE AddW(ex0.pc, 4)
          /\ LeftEx'[n + 1] = Committed(ex0)
      BY <2>1, <2>4
    <3>2. RedirectValid => ControlTaken
      BY DEF RedirectValid
    <3>3. ControlTaken => RedirectValid
      BY <1>14, <2>4 DEF RedirectValid
    <3>4. ASSUME Apart'
          PROVE  Goes(n + 1) <=> RedirectValid
      <4>1. Stays(n + 1)
        <5> HIDE DEF Stays
        <5>1. n + 1 \in 1 .. n + 1
          BY <1>5
        <5> QED
          BY <1>8, <3>1, <3>4, <5>1
      <4>2. ~(ex0.ins.cls = "branch" /\ ex0.ins.imm = 4)
        BY <3>1, <4>1 DEF Committed
      <4>3. Goes(n + 1) <=> \/ IsJump(ex0.ins)
                            \/ ex0.ins.cls = "branch" /\ NextPc(n + 1)' # AddW(ex0.pc, 4)
        BY <3>1 DEF Committed
      <4>4. CASE IsJump(ex0.ins)
        BY <1>14, <3>3, <4>3, <4>4 DEF ControlTaken
      <4>5. CASE ex0.ins.cls = "branch"
        <5>1. ~IsJump(ex0.ins) /\ ControlTarget = AddW(ex0.pc, ex0.ins.imm)
          BY <4>5 DEF IsJump, ControlTarget
        <5>2. ex0.pc \in Word /\ ex0.ins.imm \in Word /\ 4 \in Word /\ ex0.ins.imm # 4
          BY <1>1, <4>2, <4>5, SmallWords DEF TypeOK, ExLatch, LatchInstr, Instr, NoInstr
        <5>3. ControlTarget # AddW(ex0.pc, 4)
          BY <5>1, <5>2, TargetApart
        <5> QED
          BY <3>1, <4>3, <4>5, <5>1, <5>3
      <4>6. CASE ~IsJump(ex0.ins) /\ ex0.ins.cls # "branch"
        BY <3>2, <4>3, <4>6 DEF ControlTaken
      <4> QED
        BY <4>4, <4>5, <4>6
    <3>5. Moved' = IF Goes(n + 1) THEN M \cup {n + 1} ELSE M
      <4>1. 1 .. n + 1 = (1 .. n) \cup {n + 1}
        BY <1>5
      <4> HIDE DEF Goes
      <4> QED
        BY <1>7, <1>8, <2>1, <3>1, <4>1
    <3> HIDE DEF Goes, Stays
    <3>6. CASE Apart' /\ RedirectValid
      <4>1. n + 1 \notin M
        BY <1>5, <2>1
      <4>2. Cardinality(Moved') = Cardinality(M) + 1
        BY <1>5, <3>4, <3>5, <3>6, <4>1, FS_AddElement
      <4>3. One(RedirectValid) = 1
        BY <3>6 DEF One
      <4> QED
        BY <1>6, <1>10, <1>11, <3>6, <4>2, <4>3 DEF RedirectSum
    <3>7. CASE Apart' /\ ~RedirectValid
      BY <1>12, <3>4, <3>5, <3>7
    <3>8. CASE ~Apart'
      BY <3>8 DEF RedirectSum
    <3> QED
      BY <3>6, <3>7, <3>8
  <2> QED
    BY <2>2, <2>3, <2>4
<1> QED
  BY <1>13, <1>14


-----------------------------------------------------------------------------
(* The stream invariant of the specification. *)

StreamOfProgram == WordsInFlight /\ Straight /\ StreamInv

LEMMA EmptyStream ==
  ASSUME perf = ZeroPerf, stream = <<>>, ~halted, ~buf0.v, ~buf1.v, EmptyEx, EmptyMem, EmptyWb
  PROVE  StreamOfProgram
<1>1. WordsInFlight /\ Straight
  BY DEF WordsInFlight, Straight, EmptyEx, EmptyMem
<1>2. \A l \in {wb0, wb1, mem0, mem1} : Trail(l) = <<>>
  BY DEF Trail, EmptyMem, EmptyWb
<1>3. LeftEx = <<>>
  <2>1. <<>> \o <<>> = <<>>
    OBVIOUS
  <2> QED
    BY <1>2, <2>1 DEF LeftEx
<1>4. ~Trapping /\ Went = 0 /\ Len(LeftEx) = 0
  BY <1>3 DEF Trapping, Excepting, EmptyMem, EmptyWb, Went
<1>5. StreamShape
  BY <1>4 DEF StreamShape, EmptyMem, EmptyWb, Excepting
<1>6. RunOn
  BY <1>4 DEF RunOn
<1>7. \A X : Count(LeftEx, X) = 0
  <2> SUFFICES ASSUME NEW X PROVE Count(LeftEx, X) = 0
    OBVIOUS
  <2>1. {k \in 1 .. Len(LeftEx) : LeftEx[k] \in X} = {}
    BY <1>4
  <2> QED
    BY <2>1, FS_EmptySet DEF Count
<1>8. Worked = 0 /\ ~ex0.valid
  BY DEF Worked, DivInEx, EmptyEx
<1>9. DivideSum /\ LoadUseSum
  BY <1>7, <1>8, DivAssumption DEF DivideSum, LoadUseSum, ZeroPerf
<1>10. RedirectSum
  <2>1. Moved = {}
    BY <1>4 DEF Moved
  <2> QED
    BY <2>1, FS_EmptySet DEF RedirectSum, ZeroPerf
<1> QED
  BY <1>1, <1>5, <1>6, <1>9, <1>10 DEF StreamOfProgram, StreamInv

LEMMA StreamStutters ==
  ASSUME StreamOfProgram, UNCHANGED perfVars
  PROVE  StreamOfProgram'
<1> USE DEF perfVars, vars, pipeVars, frontVars
<1>1. /\ WordsInFlight' /\ Straight'
  BY DEF StreamOfProgram, WordsInFlight, Straight, Fetch, FrontPc
<1>2. /\ \A a : Fetch(a)' = Fetch(a)
  BY DEF Fetch
<1>3. LeftEx' = LeftEx
  BY DEF LeftEx, Trail, Committed, Fetch
<1>4. /\ (Trapping' <=> Trapping) /\ ExPc' = ExPc
  BY DEF Trapping, Excepting, ExPc, FrontPc
<1>5. Went' = Went
  BY <1>3, <1>4 DEF Went
<1>6. \A k : NextPc(k)' = NextPc(k)
  BY <1>3, <1>4 DEF NextPc
<1>7. Moved' = Moved /\ (Apart' <=> Apart)
  BY <1>3, <1>5, <1>6 DEF Moved, Apart
<1>8. Worked' = Worked
  BY DEF Worked, DivInEx
<1>9. DivSet' = DivSet /\ LoadUses' = LoadUses /\ DivUses' = DivUses
  BY DEF DivSet, LoadUses, DivUses, UsedNext, Entry, Fetch
<1>10. StreamShape'
  BY <1>2, <1>3, <1>4 DEF StreamOfProgram, StreamInv, StreamShape, Excepting, Entry
<1>11. RunOn'
  BY <1>2, <1>3, <1>5, <1>6 DEF StreamOfProgram, StreamInv, RunOn, Fetch
<1>12. DivideSum' /\ LoadUseSum' /\ RedirectSum'
  BY <1>3, <1>7, <1>8, <1>9
  DEF StreamOfProgram, StreamInv, DivideSum, LoadUseSum, RedirectSum, Count, Committed
<1> QED
  BY <1>1, <1>10, <1>11, <1>12 DEF StreamOfProgram, StreamInv

LEMMA StreamCorrect == PerfSpec => [](PerfInv /\ StreamOfProgram)
<1>1. PerfInit => StreamOfProgram
  <2> SUFFICES ASSUME PerfInit PROVE StreamOfProgram
    OBVIOUS
  <2>1. /\ perf = ZeroPerf /\ stream = <<>> /\ ~halted /\ ~buf0.v /\ ~buf1.v
        /\ EmptyEx /\ EmptyMem /\ EmptyWb
    BY DEF PerfInit, Init, FrontInit, EmptySlot, ExBubble, MemBubble, WbBubble,
           EmptyEx, EmptyMem, EmptyWb
  <2> QED
    BY <2>1, EmptyStream
<1>2. PerfInv /\ StreamOfProgram /\ [PerfNext]_perfVars => StreamOfProgram'
  <2> SUFFICES ASSUME PerfInv, StreamOfProgram, [PerfNext]_perfVars PROVE StreamOfProgram'
    OBVIOUS
  <2>1. CASE PerfClock
    <3>1. Clock /\ PerfStep /\ StreamStep
      BY <2>1 DEF PerfClock
    <3>2. Watched /\ ControlInv /\ PerfTypes
      BY DEF PerfInv, StreamOfProgram, StreamInv, Watched
    <3>3. WordsInFlight' /\ Straight'
      BY <3>1, <3>2, WordsKept, StraightKept DEF Watched
    <3>4. StreamShape' /\ RunOn'
      BY <3>1, <3>2, ShapeKept, RunOnKept DEF StreamOfProgram, StreamInv
    <3>5. DivideSum' /\ LoadUseSum' /\ RedirectSum'
      BY <3>1, <3>2, DivideSumKept, LoadUseSumKept, RedirectSumKept DEF StreamOfProgram, StreamInv
    <3> QED
      BY <3>3, <3>4, <3>5 DEF StreamOfProgram, StreamInv
  <2>2. CASE PerfReset
    <3>1. (/\ perf = ZeroPerf /\ stream = <<>> /\ ~halted /\ ~buf0.v /\ ~buf1.v
           /\ EmptyEx /\ EmptyMem /\ EmptyWb)'
      BY <2>2 DEF PerfReset, Reset, FrontReset, EmptySlot, ExBubble, MemBubble, WbBubble,
                  EmptyEx, EmptyMem, EmptyWb, ZeroPerf
    <3> QED
      BY <3>1, EmptyStream, PTL
  <2>3. CASE UNCHANGED perfVars
    BY <2>3, StreamStutters
  <2> QED
    BY <2>1, <2>2, <2>3 DEF PerfNext
<1> QED
  BY <1>1, <1>2, PerfCorrect, PTL DEF PerfSpec


-----------------------------------------------------------------------------
(* What the counters say of the program. *)

LEMMA CountTrail ==
  ASSUME NEW s \in Seq(Entry), NEW l, l.valid => Committed(l) \in Entry, NEW X
  PROVE  /\ s \o Trail(l) \in Seq(Entry)
         /\ Count(s \o Trail(l), X) = Count(s, X) + One(l.valid /\ Committed(l) \in X)
         /\ Count(s, X) \in Nat
<1>1. Count(s, X) \in Nat
  <2>1. EmptySlot.ins \in Instr /\ 0 \in Word
    BY EbreakIsInstr, SmallWords DEF EmptySlot
  <2>2. [pc |-> 0, ins |-> EmptySlot.ins] \in Entry
    BY <2>1 DEF Entry
  <2> QED
    BY <2>2, CountGrows
<1>2. CASE l.valid
  <2>1. Committed(l) \in Entry /\ s \o Trail(l) = s \o <<Committed(l)>>
    BY <1>2 DEF Trail
  <2>2. s \o Trail(l) = Append(s, Committed(l)) /\ s \o Trail(l) \in Seq(Entry)
    BY <2>1, Grows
  <2>3. Count(s \o Trail(l), X) = Count(s, X) + One(Committed(l) \in X)
    BY <2>1, <2>2, CountGrows
  <2>4. One(Committed(l) \in X) = One(l.valid /\ Committed(l) \in X)
    BY <1>2 DEF One
  <2> QED
    BY <1>1, <2>2, <2>3, <2>4
<1>3. CASE ~l.valid
  <2>1. s \o Trail(l) = s
    BY <1>3, ConcatEmptySeq DEF Trail
  <2>2. One(l.valid /\ Committed(l) \in X) = 0
    BY <1>3 DEF One
  <2> QED
    BY <1>1, <2>1, <2>2
<1> QED
  BY <1>2, <1>3

\* The divides that have left EX: the committed ones, and those in MEM and in WB.
LEMMA DividesLeft ==
  ASSUME Watched
  PROVE  /\ Divides(stream) \in Nat
         /\ Count(LeftEx, DivSet) = Divides(stream) + One(mem0.valid /\ IsDiv(mem0.ins))
                                      + One(wb0.valid /\ IsDiv(wb0.ins))
<1>1. /\ stream \in Seq(Entry)
      /\ \A l \in {mem0, mem1, wb0, wb1} : l.valid => Committed(l) \in Entry
      /\ [pc |-> trap.pc, ins |-> Fetch(trap.pc)] \in Entry
  BY LaneEntries DEF Watched, StreamShape
<1>2. Divides(stream) = Count(stream, DivSet)
  <2>1. \A k \in 1 .. Len(stream) : stream[k] \in Entry
    BY <1>1
  <2>2. {k \in 1 .. Len(stream) : IsDiv(stream[k].ins)} = {k \in 1 .. Len(stream) : stream[k] \in DivSet}
    BY <2>1 DEF DivSet
  <2> QED
    BY <2>2 DEF Divides, Count
<1> DEFINE t == [valid |-> halted, pc |-> trap.pc, ins |-> Fetch(trap.pc)]
           a0 == stream \o Trail(t)
           a1 == a0 \o Trail(wb0)
           a2 == a1 \o Trail(wb1)
           a3 == a2 \o Trail(mem0)
           a4 == a3 \o Trail(mem1)
<1>3. LeftEx = a4
  BY DEF LeftEx, Trail, Committed
<1>4. /\ t.valid = halted /\ Committed(t) = [pc |-> trap.pc, ins |-> Fetch(trap.pc)]
  BY DEF Committed
<1>5. ~(t.valid /\ Committed(t) \in DivSet)
  BY <1>4 DEF Watched, StreamShape, DivSet
<1>6. t.valid => Committed(t) \in Entry
  BY <1>1, <1>4
<1> HIDE DEF t
<1>7. /\ a0 \in Seq(Entry) /\ Count(stream, DivSet) \in Nat
      /\ Count(a0, DivSet) = Count(stream, DivSet) + One(t.valid /\ Committed(t) \in DivSet)
  BY <1>1, <1>6, CountTrail
<1>8. Count(a0, DivSet) = Count(stream, DivSet)
  BY <1>5, <1>7 DEF One
<1> HIDE DEF a0
<1>9. /\ a1 \in Seq(Entry)
      /\ Count(a1, DivSet) = Count(a0, DivSet) + One(wb0.valid /\ Committed(wb0) \in DivSet)
  BY <1>1, <1>7, CountTrail
<1> HIDE DEF a1
<1>10. /\ a2 \in Seq(Entry)
       /\ Count(a2, DivSet) = Count(a1, DivSet) + One(wb1.valid /\ Committed(wb1) \in DivSet)
  BY <1>1, <1>9, CountTrail
<1> HIDE DEF a2
<1>11. /\ a3 \in Seq(Entry)
       /\ Count(a3, DivSet) = Count(a2, DivSet) + One(mem0.valid /\ Committed(mem0) \in DivSet)
  BY <1>1, <1>10, CountTrail
<1> HIDE DEF a3
<1>12. Count(a4, DivSet) = Count(a3, DivSet) + One(mem1.valid /\ Committed(mem1) \in DivSet)
  BY <1>1, <1>11, CountTrail
<1> HIDE DEF a4
<1>13. /\ One(wb1.valid /\ Committed(wb1) \in DivSet) = 0
       /\ One(mem1.valid /\ Committed(mem1) \in DivSet) = 0
  BY DEF Watched, ControlInv, Lane1Discipline, Special, DivSet, Committed, IsDiv, One
<1>14. /\ One(wb0.valid /\ Committed(wb0) \in DivSet) = One(wb0.valid /\ IsDiv(wb0.ins))
       /\ One(mem0.valid /\ Committed(mem0) \in DivSet) = One(mem0.valid /\ IsDiv(mem0.ins))
  BY <1>1 DEF DivSet, Committed, One
<1>15. /\ One(wb0.valid /\ IsDiv(wb0.ins)) \in Nat /\ One(mem0.valid /\ IsDiv(mem0.ins)) \in Nat
  BY DEF One
<1> QED
  BY <1>2, <1>3, <1>7, <1>8, <1>9, <1>10, <1>11, <1>12, <1>13, <1>14, <1>15

\* The divider counter is DivLatency + 1 for every divide that has left EX, and
\* what the one in EX has taken so far: for every program, every latency and
\* every mix of stalls, replays, redirects and traps around the divides.
THEOREM DividesCosted == PerfSpec => []DivideCost
<1>1. PerfInv /\ StreamOfProgram => DivideCost
  <2> SUFFICES ASSUME PerfInv, StreamOfProgram PROVE DivideCost
    OBVIOUS
  <2> DEFINE past == Divides(stream) + One(mem0.valid /\ IsDiv(mem0.ins))
                       + One(wb0.valid /\ IsDiv(wb0.ins))
             L == DivLatency + 1
  <2>1. Watched /\ ControlInv /\ DivideSum
    BY DEF PerfInv, StreamOfProgram, StreamInv, Watched
  <2>2. past \in Nat /\ Count(LeftEx, DivSet) = past
    BY <2>1, DividesLeft DEF One
  <2>3. L \in Nat /\ Worked \in Nat /\ Worked <= L
    BY <2>1, DivAssumption DEF Worked, ControlInv, TypeInv, TypeOK, DivState
  <2>4. ~DivInEx => Worked = 0
    BY DEF Worked
  <2>5. perf.divider = L * past + Worked
    BY <2>1, <2>2 DEF DivideSum
  <2> HIDE DEF past, L
  <2>6. perf.divider >= L * past /\ perf.divider <= L * (past + One(DivInEx))
    <3>1. L * past \in Nat /\ L * (past + 1) = L * past + L
      BY <2>2, <2>3, OnceMore
    <3>2. CASE DivInEx
      <4>1. One(DivInEx) = 1
        BY <3>2 DEF One
      <4> QED
        BY <2>2, <2>3, <2>5, <3>1, <4>1
    <3>3. CASE ~DivInEx
      <4>1. One(DivInEx) = 0
        BY <3>3 DEF One
      <4> QED
        BY <2>2, <2>3, <2>4, <2>5, <3>1, <3>3, <4>1
    <3> QED
      BY <3>2, <3>3
  <2> QED
    BY <2>6 DEF DivideCost, past, L
<1> QED
  BY <1>1, StreamCorrect, PTL


\* A halted core holds nothing: what has left EX is the committed program and
\* the trap behind it.
LEMMA HaltedStream ==
  ASSUME Watched, halted
  PROVE  /\ LeftEx = DynamicStream /\ LeftEx \in Seq(Entry) /\ stream \in Seq(Entry)
         /\ Len(LeftEx) = Len(stream) + 1 /\ Len(stream) \in Nat
         /\ \A k \in 1 .. Len(stream) : LeftEx[k] = stream[k]
         /\ LeftEx[Len(stream) + 1] = [pc |-> trap.pc, ins |-> Fetch(trap.pc)]
         /\ Went = Len(stream) /\ ~ex0.valid
<1>1. EmptyWb /\ EmptyMem /\ EmptyEx
  BY DEF Watched, ControlInv, PreciseTrap
<1>2. stream \in Seq(Entry) /\ [pc |-> trap.pc, ins |-> Fetch(trap.pc)] \in Entry
  BY LaneEntries DEF Watched, StreamShape
<1>3. /\ stream \o <<[pc |-> trap.pc, ins |-> Fetch(trap.pc)]>> = DynamicStream
      /\ DynamicStream \in Seq(Entry)
      /\ Len(DynamicStream) = Len(stream) + 1 /\ Len(stream) \in Nat
      /\ \A k \in 1 .. Len(stream) : DynamicStream[k] = stream[k]
      /\ DynamicStream[Len(stream) + 1] = [pc |-> trap.pc, ins |-> Fetch(trap.pc)]
  BY <1>2, Grows DEF DynamicStream
<1>4. \A l \in {wb0, wb1, mem0, mem1} : Trail(l) = <<>>
  BY <1>1 DEF Trail, EmptyMem, EmptyWb
<1>5. LeftEx = DynamicStream
  <2>1. DynamicStream \o <<>> = DynamicStream
    BY <1>3, ConcatEmptySeq
  <2> QED
    BY <1>3, <1>4, <2>1 DEF LeftEx
<1>6. Went = Len(stream)
  BY <1>3, <1>5 DEF Went, Trapping
<1> QED
  BY <1>1, <1>2, <1>3, <1>5, <1>6 DEF EmptyEx

\* The cycles counted as load-use stalls are one for every instruction right
\* behind a load it reads and a whole divide for every one right behind a divide
\* it reads, the word behind the trap included: for every program that halts, no
\* replay, redirect, other stall or trap adds to them or hides one.
THEOREM LoadUseCounted == PerfSpec => []LoadUseIsExact
<1>1. PerfInv /\ StreamOfProgram => LoadUseIsExact
  <2> SUFFICES ASSUME PerfInv, StreamOfProgram, halted
               PROVE  LET behind == AddW(trap.pc, 4)
                          s == Append(DynamicStream, [pc |-> behind, ins |-> Fetch(behind)])
                      IN perf.loadUse = Cardinality(UseBehind(s, IsLoad))
                           + (DivLatency + 2) * Cardinality(UseBehind(s, IsDiv))
    BY DEF LoadUseIsExact
  <2> DEFINE behind == AddW(trap.pc, 4)
             after == [pc |-> behind, ins |-> Fetch(behind)]
             s == Append(DynamicStream, after)
  <2>0. PICK n : n = Len(LeftEx)
    OBVIOUS
  <2>1. Watched /\ TypeOK /\ LoadUseSum /\ RunOn
    BY DEF PerfInv, ControlInv, TypeInv, StreamOfProgram, StreamInv, Watched
  <2>2. /\ LeftEx = DynamicStream /\ LeftEx \in Seq(Entry) /\ n = Len(stream) + 1 /\ n \in Nat
        /\ LeftEx[n] = [pc |-> trap.pc, ins |-> Fetch(trap.pc)]
        /\ Went = n - 1 /\ ~ex0.valid
    BY <2>0, <2>1, HaltedStream
  <2>3. after \in Entry
    <3>1. trap.pc \in Word /\ 4 \in Word
      BY <2>1, SmallWords DEF TypeOK
    <3>2. behind \in Word
      BY <3>1, AddWType
    <3> HIDE DEF behind
    <3>3. Fetch(behind) \in Instr
      BY <2>1, FetchIsInstr DEF TypeOK
    <3> QED
      BY <3>2, <3>3 DEF Entry
  <2>4. /\ Len(s) = n + 1 /\ s[n + 1] = after
        /\ \A k \in 1 .. n : s[k] = LeftEx[k]
    <3> HIDE DEF after
    <3> QED
      BY <2>0, <2>2, <2>3, Grows
  <2>5. Len(s) - 1 = n
    BY <2>2, <2>4
  <2> HIDE DEF s
  <2>6. ASSUME NEW k \in 1 .. n, IsLoad(LeftEx[k].ins) \/ IsDiv(LeftEx[k].ins)
        PROVE  s[k + 1].ins = Fetch(AddW(LeftEx[k].pc, 4))
    <3>1. CASE k = n
      BY <2>2, <2>4, <3>1
    <3>2. CASE k < n
      <4>1. k \in 1 .. Went /\ k + 1 \in 1 .. n
        BY <2>2, <3>2
      <4>2. NextPc(k) = AddW(LeftEx[k].pc, 4)
        BY <2>1, <2>6, <4>1 DEF RunOn, IsLoad, IsDiv
      <4>3. NextPc(k) = LeftEx[k + 1].pc
        BY <2>0, <3>2 DEF NextPc
      <4>4. LeftEx[k + 1].ins = Fetch(LeftEx[k + 1].pc)
        BY <2>0, <2>1, <4>1 DEF RunOn
      <4> QED
        BY <2>4, <4>1, <4>2, <4>3, <4>4
    <3> QED
      BY <2>2, <3>1, <3>2
  <2>7. \A k \in 1 .. n : LeftEx[k] \in Entry
    BY <2>0, <2>2
  <2>8. UseBehind(s, IsLoad) = {k \in 1 .. n : LeftEx[k] \in LoadUses}
    <3>1. UseBehind(s, IsLoad)
            = {k \in 1 .. n : /\ IsLoad(s[k].ins) /\ RdWrite(s[k].ins) /\ s[k].ins.rd # 0
                              /\ Reads(s[k + 1].ins, s[k].ins.rd)}
      BY <2>5 DEF UseBehind
    <3>2. ASSUME NEW k \in 1 .. n
          PROVE  LeftEx[k] \in LoadUses
                   <=> /\ IsLoad(s[k].ins) /\ RdWrite(s[k].ins) /\ s[k].ins.rd # 0
                       /\ Reads(s[k + 1].ins, s[k].ins.rd)
      BY <2>4, <2>6, <2>7 DEF LoadUses, UsedNext
    <3> QED
      BY <3>1, <3>2
  <2>9. UseBehind(s, IsDiv) = {k \in 1 .. n : LeftEx[k] \in DivUses}
    <3>1. UseBehind(s, IsDiv)
            = {k \in 1 .. n : /\ IsDiv(s[k].ins) /\ RdWrite(s[k].ins) /\ s[k].ins.rd # 0
                              /\ Reads(s[k + 1].ins, s[k].ins.rd)}
      BY <2>5 DEF UseBehind
    <3>2. ASSUME NEW k \in 1 .. n
          PROVE  LeftEx[k] \in DivUses
                   <=> /\ IsDiv(s[k].ins) /\ RdWrite(s[k].ins) /\ s[k].ins.rd # 0
                       /\ Reads(s[k + 1].ins, s[k].ins.rd)
      BY <2>4, <2>6, <2>7 DEF DivUses, UsedNext
    <3> QED
      BY <3>1, <3>2
  <2>10. perf.loadUse = Count(LeftEx, LoadUses) + (DivLatency + 2) * Count(LeftEx, DivUses)
    <3>1. Count(LeftEx, LoadUses) \in Nat /\ Count(LeftEx, DivUses) \in Nat /\ DivLatency \in Nat
      BY <2>1, <2>2, <2>3, CountGrows, DivAssumption
    <3> QED
      BY <2>1, <2>2, <3>1 DEF LoadUseSum
  <2> QED
    BY <2>0, <2>8, <2>9, <2>10 DEF Count, s
<1> QED
  BY <1>1, StreamCorrect, PTL

\* Of a program that has halted the trace shows as many taken branches and jumps
\* as the core redirected, unless a branch of it aims at the next word: what the
\* coverage scripts read off the trace is what the branch unit decided.
THEOREM OutcomesSeen == PerfSpec => []CoverageSeesOutcomes
<1>1. PerfInv /\ StreamOfProgram => CoverageSeesOutcomes
  <2> DEFINE jumps == CommittedOf({"jal", "jalr"})
             taken == {i \in CommittedOf({"branch"}) : TakenInTrace(DynamicStream, i)}
  <2> SUFFICES ASSUME PerfInv, StreamOfProgram, halted, ~BranchesToNext(stream)
               PROVE  Cardinality(taken) + Cardinality(jumps) = perf.mispredicts
    BY DEF CoverageSeesOutcomes
  <2>1. Watched /\ RedirectSum
    BY DEF PerfInv, StreamOfProgram, StreamInv, Watched
  <2>0. PICK n : n = Len(stream)
    OBVIOUS
  <2>2. /\ LeftEx = DynamicStream /\ Len(LeftEx) = n + 1 /\ n \in Nat /\ Went = n
        /\ \A k \in 1 .. n : DynamicStream[k] = stream[k]
    BY <2>0, <2>1, HaltedStream
  <2>3. \A k \in 1 .. n : NextPc(k) = DynamicStream[k + 1].pc
    BY <2>2 DEF NextPc
  <2>4. Apart
    <3>1. DOMAIN stream = 1 .. n
      BY <2>0, <2>1 DEF Watched, StreamShape
    <3> QED
      BY <2>2, <3>1 DEF Apart, BranchesToNext
  <2>5. Moved = taken \cup jumps
    <3>1. jumps = {k \in 1 .. n : IsJump(stream[k].ins)}
      BY <2>0 DEF CommittedOf, IsJump
    <3>2. taken = {k \in 1 .. n : stream[k].ins.cls = "branch"
                                    /\ NextPc(k) # AddW(stream[k].pc, 4)}
      <4>1. CommittedOf({"branch"}) = {k \in 1 .. n : stream[k].ins.cls = "branch"}
        BY <2>0 DEF CommittedOf
      <4>2. \A k \in 1 .. n : TakenInTrace(DynamicStream, k) <=> NextPc(k) # AddW(stream[k].pc, 4)
        BY <2>2, <2>3 DEF TakenInTrace
      <4> HIDE DEF jumps
      <4> QED
        BY <4>1, <4>2
    <3>3. Moved = {k \in 1 .. n : \/ IsJump(stream[k].ins)
                                  \/ stream[k].ins.cls = "branch"
                                       /\ NextPc(k) # AddW(stream[k].pc, 4)}
      BY <2>2 DEF Moved
    <3> HIDE DEF taken, jumps
    <3> QED
      BY <3>1, <3>2, <3>3
  <2>6. taken \cap jumps = {}
    BY DEF CommittedOf
  <2>7. IsFiniteSet(taken) /\ IsFiniteSet(jumps)
    <3>1. taken \subseteq Moved /\ jumps \subseteq Moved
      <4> HIDE DEF taken, jumps
      <4> QED
        BY <2>5
    <3> HIDE DEF taken, jumps
    <3> QED
      BY <2>1, <3>1, MovedFinite, FS_Subset
  <2> HIDE DEF taken, jumps
  <2>8. /\ Cardinality(Moved) = Cardinality(taken) + Cardinality(jumps) - Cardinality(taken \cap jumps)
        /\ Cardinality(taken) \in Nat /\ Cardinality(jumps) \in Nat
    BY <2>5, <2>7, FS_Union, FS_CardinalityType
  <2>9. Cardinality(taken \cap jumps) = 0
    BY <2>6, FS_EmptySet
  <2> QED
    BY <2>1, <2>4, <2>8, <2>9 DEF RedirectSum
<1> QED
  BY <1>1, StreamCorrect, PTL

=============================================================================
