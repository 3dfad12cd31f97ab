------------------------------ MODULE CorePerf ------------------------------
(***************************************************************************)
(* The performance counters of superscalar_core.sv beside the pipeline     *)
(* they watch, and the figures that are derived from them.                 *)
(***************************************************************************)
EXTENDS CoreProps, TimingModel, IssueModel, FiniteSets

CONSTANT MaxCycles      \* the clock stops here: bounds the counters of a program that loops

VARIABLES
  perf,      \* perf_*
  stream     \* what has been committed since reset; no register of the core

perfVars == <<vars, perf, stream>>

ZeroPerf == [cycles |-> 0, retired |-> 0, dual |-> 0, single |-> 0, stall |-> 0,
             branches |-> 0, mispredicts |-> 0,
             loadUse |-> 0, structural |-> 0, divider |-> 0]

One(b) == IF b THEN 1 ELSE 0

\* A control transfer leaves EX: the branch and jump arms of the counters.
CountsBranch ==
  /\ ex0.valid /\ ex0.ins.cls \in {"branch", "jal", "jalr"}
  /\ ~ExStall /\ Ex0Exc = "none"
\* Mutant of CountsMispredict: a jump is not a misprediction.
CountsMispredictBranch ==
  CountsBranch /\ ex0.ins.cls = "branch" /\ BranchTaken(ex0.ins.fn, ex0.op1, ex0.op2)
CountsMispredict ==
  /\ CountsBranch
  /\ ex0.ins.cls = "branch" => BranchTaken(ex0.ins.fn, ex0.op1, ex0.op2)

\* Mutant of CountsRetired: the trap is not taken for a fault of its lane.
CountsRetiredAny == One(~halted /\ wb0.valid) + One(~halted /\ wb1.valid)
CountsRetired == One(Commit0Valid) + One(Commit1Valid)

PerfStep ==
  perf' = IF halted THEN perf ELSE
    [cycles      |-> perf.cycles + 1,
     retired     |-> perf.retired + CountsRetired,
     dual        |-> perf.dual + One(Issue0 /\ Issue1),
     single      |-> perf.single + One(Issue0 /\ ~Issue1),
     stall       |-> perf.stall + One(~Issue0 /\ buf0.v),
     branches    |-> perf.branches + One(CountsBranch),
     mispredicts |-> perf.mispredicts + One(CountsMispredict),
     loadUse     |-> perf.loadUse + One(WaitsForEx(buf0) /\ buf0.v),
     structural  |-> perf.structural + One(Issue0 /\ buf1.v /\ ~Issue1 /\ PairStructural(buf0, buf1)),
     divider     |-> perf.divider + One(ExStall)]

Committed(l) == [pc |-> l.pc, ins |-> l.ins]

StreamStep ==
  stream' = stream \o (IF Commit0Valid THEN <<Committed(wb0)>> ELSE <<>>)
                   \o (IF Commit1Valid THEN <<Committed(wb1)>> ELSE <<>>)

PerfClock == perf.cycles < MaxCycles /\ Clock /\ PerfStep /\ StreamStep

PerfReset == Reset /\ perf' = ZeroPerf /\ stream' = <<>>

PerfInit == Init /\ perf = ZeroPerf /\ stream = <<>>
PerfNext == PerfClock \/ PerfReset
PerfSpec == PerfInit /\ [][PerfNext]_perfVars

-----------------------------------------------------------------------------
(* What the counters add up to. *)

InFlight == One(ex0.valid) + One(ex1.valid) + One(mem0.valid) + One(mem1.valid)
              + One(wb0.valid) + One(wb1.valid)

\* Every instruction counted as issued is in flight, has been counted as
\* retired, or is the one that trapped: no stall, replay, redirect or trap makes
\* the issue counters and the retire counter disagree about an instruction.
IssuesAreAccountedFor ==
  2 * perf.dual + perf.single = perf.retired + InFlight + One(halted)

\* Every counted cycle issues a pair, issues one, stalls with an instruction
\* waiting, or refills the empty buffer once after reset and once after each
\* redirect: the counter of mispredictions, which has conditions of its own,
\* counts exactly the redirects the front end obeys.
CyclesAreAccountedFor ==
  perf.cycles = perf.dual + perf.single + perf.stall + perf.mispredicts + One(buf0.v)

\* A divide holds EX for DivLatency + 1 cycles before the cycle of its result,
\* whatever it divides: the divider counter is that many per divide executed.
Divides(s) == Cardinality({k \in 1 .. Len(s) : IsDiv(s[k].ins)})
DivideCost ==
  LET past == Divides(stream) + One(mem0.valid /\ IsDiv(mem0.ins)) + One(wb0.valid /\ IsDiv(wb0.ins))
  IN /\ perf.divider >= (DivLatency + 1) * past
     /\ perf.divider <= (DivLatency + 1) * (past + One(DivInEx))

-----------------------------------------------------------------------------
(* Against the timing model and the issue model. *)

\* build_dynamic_stream
DynamicStream == Append(stream, [pc |-> trap.pc, ins |-> Fetch(trap.pc)])

\* Right behind an instruction that `owes` holds of comes one that reads its result.
UseBehind(s, owes(_)) ==
  {k \in 1 .. Len(s) - 1 :
     owes(s[k].ins) /\ RdWrite(s[k].ins) /\ s[k].ins.rd # 0 /\ Reads(s[k + 1].ins, s[k].ins.rd)}

\* perf_load_use_stalls is one cycle for every instruction right behind a load
\* it reads, the word behind a load that traps included, and, though its name
\* and the comment at superscalar_core.sv:283 speak of loads, every cycle of a
\* divide that the next instruction reads.  No replay, redirect or other stall
\* adds to it.
LoadUseIsExact ==
  LET behind == AddW(trap.pc, 4)
      s == Append(DynamicStream, [pc |-> behind, ins |-> Fetch(behind)])
  IN halted =>
       perf.loadUse = Cardinality(UseBehind(s, IsLoad))
                        + (DivLatency + 2) * Cardinality(UseBehind(s, IsDiv))

\* The consumer of a load or a divide comes second behind it, after an
\* instruction that can issue: a wait of slot 1, which the timing model lacks.
SlotOneWaits(s) ==
  \E i \in 1 .. Len(s) - 2 :
    /\ s[i].ins.cls \in {"load", "div"} /\ s[i].ins.rd # 0
    /\ ~Reads(s[i + 1].ins, s[i].ins.rd)
    /\ Reads(s[i + 2].ins, s[i].ins.rd)

\* A conditional branch whose target is the next word: a redirect like any
\* other in the core, and no redirect to whoever reads the stream.
BranchesToNext(s) == \E i \in DOMAIN s : s[i].ins.cls = "branch" /\ s[i].ins.imm = 4

\* The trap is an illegal JALR right behind a load or a divide into its rs1
\* field: decode_meta has it wait (pipeline_model.py:82), decoder.sv does not.
ReservedJalrWaits(s) ==
  \E i \in 1 .. Len(s) - 1 :
    /\ s[i].ins.cls \in {"load", "div"} /\ s[i].ins.rd # 0
    /\ ReservedJalr(s[i + 1].ins) /\ s[i + 1].ins.rs1 = s[i].ins.rd

TimingAgrees ==
  LET t == SimulateDynamic(DynamicStream, DivLatency, EnableDualIssue) IN
  /\ perf.retired = t.retired
  /\ perf.cycles = t.totalCycles
  /\ perf.dual = t.dual /\ perf.single = t.single
  /\ perf.branches = t.branches /\ perf.mispredicts = t.mispredicts

\* The timing model predicts the core exactly, cycle for cycle and pair for
\* pair, for every program without such a branch, without such an illegal JALR,
\* and without such a wait of slot 1 when ENABLE_DUAL_ISSUE is 1.
TimingModelIsExact ==
  halted => \/ TimingAgrees
            \/ EnableDualIssue /\ SlotOneWaits(DynamicStream)
            \/ BranchesToNext(DynamicStream)
            \/ ReservedJalrWaits(DynamicStream)

\* The coverage scripts call the branch at i of a commit trace taken if the next
\* commit, or the trap behind the last one, is not the next word.
\* Mutant of TakenInTrace: nothing is known to follow the last commit.
TakenInTraceOnly(s, i) == i < Len(s) - 1 /\ s[i + 1].pc # AddW(s[i].pc, 4)
TakenInTrace(s, i) == s[i + 1].pc # AddW(s[i].pc, 4)

CommittedOf(classes) == {i \in 1 .. Len(stream) : stream[i].ins.cls \in classes}

\* What the coverage scripts read off the trace of a finished program is what
\* the branch unit decided: as many taken branches as redirects that no jump made.
CoverageSeesOutcomes ==
  halted =>
    \/ Cardinality({i \in CommittedOf({"branch"}) : TakenInTrace(DynamicStream, i)})
         + Cardinality(CommittedOf({"jal", "jalr"})) = perf.mispredicts
    \/ BranchesToNext(stream)

\* Where nothing waits and nothing is redirected, the issue model's greedy
\* pairing of the program text is what the replay buffer does.
Unstalled(s) ==
  \A k \in 1 .. Len(s) :
    /\ s[k].ins.cls \notin {"load", "div", "branch", "jal", "jalr"}
    /\ ~s[k].ins.ill
IssueModelIsExact ==
  LET words == [k \in 1 .. Len(DynamicStream) |-> DynamicStream[k].ins] IN
  halted /\ EnableDualIssue /\ Unstalled(DynamicStream) =>
    [dual |-> perf.dual, single |-> perf.single] = IssueCycles(words)

\* Violated.  "This model intentionally mirrors" the core (pipeline_model.py:4):
\* "a dependent consumer waits one extra cycle behind an EX load" (line 9).
TimingModelMirrorsCore == halted => TimingAgrees \/ BranchesToNext(DynamicStream)

=============================================================================
