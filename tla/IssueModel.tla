----------------------------- MODULE IssueModel -----------------------------
(***************************************************************************)
(* reference_model/issue_model.py: the pairing rules on their own, and the *)
(* number of issue cycles of a list of words.                              *)
(***************************************************************************)
EXTENDS RiscvPkg, Sequences

\* decode_meta: lane1 without special.  Whether the word is legal is not asked.
PlainAlu(i) == i.cls \in {"lui", "auipc", "opimm", "op"}

\* Mutant of CanPair: two writers of one register pair.
CanPairNoWaw(a, b) ==
  PlainAlu(a) /\ PlainAlu(b) /\ (RdWrite(a) /\ a.rd # 0 => ~Reads(b, a.rd))
CanPair(a, b) ==
  /\ PlainAlu(a) /\ PlainAlu(b)
  /\ RdWrite(a) /\ a.rd # 0 => /\ ~Reads(b, a.rd)
                               /\ ~(RdWrite(b) /\ b.rd = a.rd)

\* issue_cycles: the pairs and the single instructions a list falls into, from
\* its i-th word on.
IssueCycles(words) ==
  LET n == Len(words)
      from[i \in 1 .. n + 1] ==
        CASE i = n + 1 -> [dual |-> 0, single |-> 0]
          [] i < n /\ CanPair(words[i], words[i + 1]) -> [from[i + 2] EXCEPT !.dual = @ + 1]
          [] OTHER -> [from[i + 1] EXCEPT !.single = @ + 1]
  IN from[1]

=============================================================================
