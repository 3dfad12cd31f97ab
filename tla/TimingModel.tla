---------------------------- MODULE TimingModel -----------------------------
(***************************************************************************)
(* reference_model/pipeline_model.py: simulate_dynamic, the analytical     *)
(* timing model.  Its input is the dynamic stream: the committed           *)
(* instructions in order and then, if the program halted, the one that     *)
(* trapped.  A member is a record with the fields pc and ins.              *)
(*                                                                         *)
(* The loop is a function of its iteration.  A tag that can no longer      *)
(* match a cycle is not cleared (div_release_cycle, last_load_rd), and     *)
(* no_issue_cycles is left out: it is the sum of the three kinds of wait.  *)
(***************************************************************************)
EXTENDS DualIssue, Sequences

\* decode_meta's rs1_used, rs2_used and rd_write: decoder.sv's, except that every
\* JALR has an operand and a result, the illegal one too.
MetaRs1Used(i) == Rs1Used(i) \/ ReservedJalr(i)
MetaRdWrite(i) == RdWrite(i) \/ ReservedJalr(i)

DependsOn(m, rd) ==
  rd # 0 /\ ((MetaRs1Used(m.ins) /\ m.ins.rs1 = rd) \/ (Rs2Used(m.ins) /\ m.ins.rs2 = rd))

\* pair_reason
PairReason(a, b) ==
  LET writes == MetaRdWrite(a.ins) /\ a.ins.rd # 0 IN
  CASE b.pc # AddW(a.pc, 4)                          -> "structural"
    [] b.pc = AddW(a.pc, 4) /\ writes /\ DependsOn(b, a.ins.rd) -> "raw"
    [] b.pc = AddW(a.pc, 4) /\ writes /\ ~DependsOn(b, a.ins.rd)
         /\ MetaRdWrite(b.ins) /\ b.ins.rd = a.ins.rd -> "waw"
    [] OTHER -> IF Special(a.ins) \/ Special(b.ins) THEN "structural" ELSE "pair"

\* The locals of simulate_dynamic at the head of the loop.  cycle = 2: the
\* first cycle fills the fetch buffer.
TimingStart ==
  [i |-> 1, cycle |-> 2, dual |-> 0, single |-> 0,
   raw |-> 0, waw |-> 0, structural |-> 0, pair |-> 0,
   loadUse |-> 0, divider |-> 0, redirect |-> 0, branches |-> 0, mispredicts |-> 0,
   loadAt |-> 0, loadRd |-> 0, divRelease |-> 0, divRd |-> 0]

WaitFor(t, why) == [t EXCEPT !.cycle = @ + 1, ![why] = @ + 1]

DivBlocks(t, cur) ==
  t.cycle < t.divRelease \/ (t.cycle = t.divRelease /\ DependsOn(cur, t.divRd))
\* Mutant of LoadBlocks: the consumer of a load waits no cycle.
LoadBlocksNever(t, cur) == FALSE
LoadBlocks(t, cur) == t.cycle = t.loadAt + 1 /\ DependsOn(cur, t.loadRd)

\* A conditional branch redirected if the stream continues elsewhere.
Redirects(stream, i) ==
  LET cur == stream[i] IN
  /\ i < Len(stream)
  /\ \/ IsJump(cur.ins)
     \/ cur.ins.cls = "branch" /\ stream[i + 1].pc # AddW(cur.pc, 4)

\* The instruction at t.i issues, with the next one if they pair.
IssueAt(stream, latency, enableDual, t) ==
  LET cur     == stream[t.i]
      last    == t.i = Len(stream)
      reason  == IF last THEN "structural" ELSE PairReason(cur, stream[t.i + 1])
      pairs   == enableDual /\ ~last /\ reason = "pair"
      control == cur.ins.cls \in {"branch", "jal", "jalr"} /\ ~last
      redirect == Redirects(stream, t.i)
      counted == IF pairs THEN [t EXCEPT !.dual = @ + 1]
                 ELSE IF last THEN [t EXCEPT !.single = @ + 1]
                 ELSE [t EXCEPT !.single = @ + 1, ![reason] = @ + 1]
      tagged  == CASE IsLoad(cur.ins) -> [counted EXCEPT !.loadAt = t.cycle, !.loadRd = cur.ins.rd]
                   [] IsDiv(cur.ins)  -> [counted EXCEPT !.divRelease = t.cycle + latency + 2,
                                                         !.divRd = cur.ins.rd]
                   [] OTHER           -> counted
  IN [tagged EXCEPT
        !.i           = @ + (IF pairs THEN 2 ELSE 1),
        !.branches    = @ + (IF control THEN 1 ELSE 0),
        !.mispredicts = @ + (IF redirect THEN 1 ELSE 0),
        !.redirect    = @ + (IF redirect THEN 2 ELSE 0),
        !.cycle       = @ + (IF redirect THEN 3 ELSE 1)]

\* One iteration of the loop.
TimingStep(stream, latency, enableDual, t) ==
  LET cur == stream[t.i] IN
  CASE DivBlocks(t, cur)                       -> WaitFor(t, "divider")
    [] ~DivBlocks(t, cur) /\ LoadBlocks(t, cur) -> WaitFor(t, "loadUse")
    [] OTHER                                   -> IssueAt(stream, latency, enableDual, t)

\* No member of the stream waits for more than a divide and a load before it.
IterationBound(stream, latency) == Len(stream) * (latency + 5)

\* simulate_dynamic of a program that halts; totalCycles is total_cycles.
SimulateDynamic(stream, latency, enableDual) ==
  LET bound == IterationBound(stream, latency)
      at[n \in 0 .. bound] ==
        IF n = 0 THEN TimingStart
        ELSE LET t == at[n - 1] IN
             IF t.i > Len(stream) THEN t ELSE TimingStep(stream, latency, enableDual, t)
      end == at[bound]
  IN [retired     |-> Len(stream) - 1,
      totalCycles |-> end.cycle + 2,
      dual |-> end.dual, single |-> end.single,
      loadUse |-> end.loadUse, divider |-> end.divider,
      branches |-> end.branches, mispredicts |-> end.mispredicts]

=============================================================================
