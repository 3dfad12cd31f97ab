------------------------------- MODULE MCCore -------------------------------
(***************************************************************************)
(* Instances of Core for TLC, with the arithmetic of the RTL's own units   *)
(* and the quotients of the reference model.  Every program over an        *)
(* alphabet is an initial state.                                           *)
(*                                                                         *)
(* A word has four bits and a byte one, so there are sixteen addresses and *)
(* four instruction slots, and a program that runs off the end wraps round *)
(* as at the top of the 32-bit space.                                      *)
(***************************************************************************)
EXTENDS CoreProps, Datapath, IsaMath

\* Register fields an opcode does not use hold residue of its immediate.
R(cls, fn, rd, rs1, rs2) ==
  [cls |-> cls, fn |-> fn, ill |-> FALSE, rd |-> rd, rs1 |-> rs1, rs2 |-> rs2, imm |-> 0]
I(cls, fn, rd, rs1, imm) ==
  [cls |-> cls, fn |-> fn, ill |-> FALSE, rd |-> rd, rs1 |-> rs1, rs2 |-> 1, imm |-> imm]
S(cls, fn, rs1, rs2, imm) ==
  [cls |-> cls, fn |-> fn, ill |-> FALSE, rd |-> 1, rs1 |-> rs1, rs2 |-> rs2, imm |-> imm]
Bad(cls) ==
  [cls |-> cls, fn |-> "none", ill |-> TRUE, rd |-> 1, rs1 |-> 2, rs2 |-> 1, imm |-> 4]
Ecall == [Ebreak EXCEPT !.fn = "ecall", !.rd = 1]

MCWords  == {0, 4, 8, 12}

\* Data hazards: ALU pairs, load-use, divide-use, a store of the result.
DataPrograms ==
  [MCWords ->
    {I("opimm", "add", 1, 1, 5), R("op", "add", 2, 1, 2),   R("op", "sub", 1, 2, 0),
     I("load", "w", 1, 0, 4),    S("store", "w", 0, 2, 4),  R("div", "divu", 2, 1, 2),
     I("auipc", "add", 0, 1, 3), Ebreak}]

\* Control transfers, aligned and not, forward, backward and round the top of
\* the address space, and every way to trap, with younger instructions behind.
ControlPrograms ==
  [MCWords ->
    {I("opimm", "add", 1, 1, 3),      I("lui", "copyb", 2, 1, 4),
     S("branch", "eq", 1, 2, 8),      S("branch", "ltu", 2, 1, 6),
     I("jal", "none", 1, 2, 12),      I("jalr", "none", 1, 1, 5),
     S("store", "w", 1, 2, 0),        Bad("branch"),
     Ecall}]

DualPrograms == DataPrograms \cup ControlPrograms
=============================================================================
