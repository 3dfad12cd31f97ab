----------------------------- MODULE DualIssue ------------------------------
(***************************************************************************)
(* rtl/issue/dual_issue_unit.sv: which of the two buffered instructions    *)
(* issue in this cycle.  d0 and d1 are the slots of the front-end buffer,  *)
(* d1 the younger; stall0 and stall1 are the core's external stalls.       *)
(***************************************************************************)
EXTENDS RiscvPkg

\* Mutant of PairRaw: the second source is forgotten.
PairRawRs1(d0, d1) ==
  /\ d0.v /\ d1.v /\ RdWrite(d0.ins) /\ d0.ins.rd # 0
  /\ Rs1Used(d1.ins) /\ d1.ins.rs1 = d0.ins.rd
PairRaw(d0, d1) ==
  /\ d0.v /\ d1.v
  /\ RdWrite(d0.ins) /\ d0.ins.rd # 0
  /\ Reads(d1.ins, d0.ins.rd)

PairWaw(d0, d1) ==
  /\ d0.v /\ d1.v
  /\ RdWrite(d0.ins) /\ d0.ins.rd # 0
  /\ RdWrite(d1.ins) /\ d1.ins.rd = d0.ins.rd

\* Lane 1 is an integer-ALU lane and pairs only with another plain ALU
\* operation in lane 0.
Special(i) ==
  \/ i.cls \in {"branch", "jal", "jalr", "load", "store", "system", "mul", "div"}
  \/ i.ill
  \/ ~Lane1Eligible(i)

PairStructural(d0, d1) == d1.v /\ (Special(d0.ins) \/ Special(d1.ins))

IssueSlot0(d0, stall0) == d0.v /\ ~stall0

IssueSlot1(d0, d1, stall0, stall1) ==
  /\ IssueSlot0(d0, stall0)
  /\ d1.v /\ ~stall1
  /\ ~PairRaw(d0, d1) /\ ~PairWaw(d0, d1) /\ ~PairStructural(d0, d1)

=============================================================================
