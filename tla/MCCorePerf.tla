----------------------------- MODULE MCCorePerf -----------------------------
(* Instances of CorePerf for TLC.  Every program over an alphabet is an      *)
(* initial state.                                                            *)
EXTENDS CorePerf, MCCore

LowWords == {0, 4, 8}

\* An illegal JALR of the register that the loads and divides write.
BadJalr == [R("unknown", "jalr", 2, 1, 0) EXCEPT !.ill = TRUE]

\* Each kind of issue, stall, redirect and trap the counters tell apart, EBREAK
\* behind the four words.
PerfPrograms ==
  [MCWords ->
    {I("opimm", "add", 1, 0, 4),  R("op", "add", 2, 1, 2),
     I("load", "w", 1, 0, 2),     I("load", "w", 1, 0, 4),
     R("div", "divu", 2, 1, 1),   R("mul", "mul", 1, 2, 2),
     S("branch", "ne", 1, 0, 8),  I("jal", "none", 1, 2, 24),
     S("branch", "eq", 0, 0, 4),
     S("store", "w", 0, 1, 4),    [R("op", "none", 2, 1, 1) EXCEPT !.ill = TRUE],
     BadJalr,                     Nop,                        Ebreak}]

\* Straight-line code over a four-register file, EBREAK behind it: pairs with
\* nothing in common, and as many instructions in flight as the pipeline holds.
LinePrograms ==
  [{0, 4, 8, 12, 16, 20} ->
    {I("opimm", "add", 1, 2, 1),  R("op", "xor", 2, 3, 1),  I("auipc", "add", 3, 1, 5),
     I("load", "w", 2, 0, 4)}]

StraightAndBent == PerfPrograms \cup LinePrograms

\* Bytes, halves and words, aligned and not, inside and outside the data memory.
MemoryPrograms ==
  [MCWords ->
    {I("opimm", "add", 1, 1, 7),      S("store", "b", 1, 1, 2),
     S("store", "h", 1, 1, 1),        I("load", "b", 2, 1, 2),
     I("load", "hu", 1, 2, 1),        R("mul", "mul", 2, 1, 1),
     Bad("load")}]

\* Loops of loads, divides and their consumers, for a core that issues one at a time.
LoopPrograms ==
  [MCWords ->
    {I("load", "w", 1, 0, 4),     R("div", "divu", 2, 1, 1),  R("op", "add", 1, 2, 1),
     S("branch", "ne", 1, 0, 8),  I("jal", "none", 1, 2, 12), BadJalr, Ebreak}]

SinglePrograms == MemoryPrograms \cup LoopPrograms

\* The shortest programs in which a load's consumer comes second behind it.
LoadUsePrograms ==
  [MCWords -> {I("load", "w", 1, 0, 4), R("op", "add", 2, 1, 2), Nop, Ebreak}]
=============================================================================
