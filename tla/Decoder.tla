------------------------------ MODULE Decoder -------------------------------
(***************************************************************************)
(* Four readings of an instruction word, which nothing but their authors   *)
(* keeps alike: rtl/decode/decoder.sv, the step() of rv32im_model.py, the  *)
(* decode_meta of pipeline_model.py and of issue_model.py, and the names   *)
(* of check_isa_coverage.py.  The flags that are 1 are a set of names.     *)
(***************************************************************************)
EXTENDS Encoding

Pkg == INSTANCE RiscvPkg WITH WordSize <- 16, Reg <- 0 .. 31

\* The number of a field of at most seven bits.
Num(bits) ==
  LET value(b) == IF b \in bits THEN 2 ^ b ELSE 0
  IN value(0) + value(1) + value(2) + value(3) + value(4) + value(5) + value(6)

Opcode(w) == Num(Cut(w, 0, 6, 0))
Rd(w)     == Num(Cut(w, 7, 11, 0))
Funct3(w) == Num(Cut(w, 12, 14, 0))
Rs1(w)    == Num(Cut(w, 15, 19, 0))
Rs2(w)    == Num(Cut(w, 20, 24, 0))
Funct7(w) == Num(Cut(w, 25, 31, 0))

\* Bit s of w in all the positions from lo up: a sign extension.
Sign(w, s, lo) == IF s \in w THEN lo .. 31 ELSE {}

Group(w) ==
  CASE Opcode(w) = 55  -> "lui"    [] Opcode(w) = 23  -> "auipc"
    [] Opcode(w) = 111 -> "jal"    [] Opcode(w) = 103 -> "jalr"
    [] Opcode(w) = 99  -> "branch" [] Opcode(w) = 3   -> "load"
    [] Opcode(w) = 35  -> "store"  [] Opcode(w) = 19  -> "opimm"
    [] Opcode(w) = 51  -> "op"     [] Opcode(w) = 115 -> "system"
    [] OTHER           -> "unknown"

-----------------------------------------------------------------------------
(* decoder.sv *)

\* Mutant of ShiftsBy: funct7 of SLLI is not looked at.
ShiftsByLoose(w) == Funct3(w) = 1 \/ (Funct3(w) = 5 /\ Funct7(w) \in {0, 32})
ShiftsBy(w) == (Funct3(w) = 1 /\ Funct7(w) = 0) \/ (Funct3(w) = 5 /\ Funct7(w) \in {0, 32})

SvLegal(w) ==
  LET f3 == Funct3(w)  f7 == Funct7(w) IN
  CASE Group(w) \in {"lui", "auipc", "jal"} -> TRUE
    [] Group(w) = "jalr"    -> f3 = 0
    [] Group(w) = "branch"  -> f3 \notin {2, 3}
    [] Group(w) = "load"    -> f3 \in {0, 1, 2, 4, 5}
    [] Group(w) = "store"   -> f3 \in {0, 1, 2}
    [] Group(w) = "opimm"   -> f3 \notin {1, 5} \/ ShiftsBy(w)
    [] Group(w) = "op"      -> f7 \in {0, 1} \/ (f7 = 32 /\ f3 \in {0, 5})
    [] Group(w) = "system"  -> w \in {ECALL, EBREAK}
    [] Group(w) = "unknown" -> FALSE

\* Mutant of Eligible: lane1_eligible is not taken back from an illegal OP-IMM.
EligibleAlways(w) == {"lane1_eligible"}
\* lane1_eligible of an OP or OP-IMM: set, and taken back if the word is illegal.
Eligible(w) == IF SvLegal(w) THEN {"lane1_eligible"} ELSE {}

SvFlags(w) ==
  CASE Group(w) \in {"lui", "auipc"} -> {"rd_write", "use_imm", "lane1_eligible"}
    [] Group(w) = "jal"     -> {"rd_write", "is_jal"}
    [] Group(w) = "jalr"    -> IF SvLegal(w) THEN {"rs1_used", "rd_write", "is_jalr"} ELSE {}
    [] Group(w) = "branch"  -> {"rs1_used", "rs2_used", "is_branch"}
    [] Group(w) = "load"    -> {"rs1_used", "rd_write", "use_imm", "is_load"}
    [] Group(w) = "store"   -> {"rs1_used", "rs2_used", "use_imm", "is_store"}
    [] Group(w) = "opimm"   -> {"rs1_used", "rd_write", "use_imm"} \cup Eligible(w)
    [] Group(w) = "op"      -> {"rs1_used", "rs2_used", "rd_write"}
                                 \cup (IF Funct7(w) = 1 THEN {} ELSE Eligible(w))
    [] Group(w) = "system"  -> {"is_system"}
    [] Group(w) = "unknown" -> {}

\* The operation a legal word selects: alu_op, branch_op, mdu_op, or
\* mem_size with load_unsigned.  An illegal JALR keeps its name, which nothing in
\* the core looks at and decode_meta does.
SvFn(w) ==
  LET f3 == Funct3(w)
      alu == <<"add", "sll", "slt", "sltu", "xor", "srl", "or", "and">>
      mdu == <<"mul", "mulh", "mulhsu", "mulhu", "div", "divu", "rem", "remu">>
      br  == <<"eq", "ne", "none", "none", "lt", "ge", "ltu", "geu">>
      mem == <<"b", "h", "w", "none", "bu", "hu">>
  IN IF ~SvLegal(w) THEN (IF Group(w) = "jalr" THEN "jalr" ELSE "none") ELSE
     CASE Group(w) = "lui"              -> "copyb"
       [] Group(w) = "auipc"            -> "add"
       [] Group(w) \in {"jal", "jalr"}  -> "none"
       [] Group(w) = "branch"           -> br[f3 + 1]
       [] Group(w) \in {"load", "store"} -> mem[f3 + 1]
       [] Group(w) = "opimm"            -> IF f3 = 5 /\ Funct7(w) = 32 THEN "sra" ELSE alu[f3 + 1]
       [] Group(w) = "op" /\ Funct7(w) = 1  -> mdu[f3 + 1]
       [] Group(w) = "op" /\ Funct7(w) = 0  -> alu[f3 + 1]
       [] Group(w) = "op" /\ Funct7(w) = 32 -> IF f3 = 0 THEN "sub" ELSE "sra"
       [] Group(w) = "system"           -> IF w = ECALL THEN "ecall" ELSE "ebreak"

\* dec_o.imm
SvImm(w) ==
  CASE Group(w) \in {"lui", "auipc"} -> w \cap (12 .. 31)
    [] Group(w) = "jal"    -> UNION {Cut(w, 21, 30, 1), Cut(w, 20, 20, 11), Cut(w, 12, 19, 12), Sign(w, 31, 20)}
    [] Group(w) = "branch" -> UNION {Cut(w, 8, 11, 1), Cut(w, 25, 30, 5), Cut(w, 7, 7, 11), Sign(w, 31, 12)}
    [] Group(w) = "store"  -> UNION {Cut(w, 7, 11, 0), Cut(w, 25, 31, 5), Sign(w, 31, 12)}
    [] Group(w) = "opimm" /\ ShiftsBy(w) -> Cut(w, 20, 24, 0)
    [] Group(w) \in {"load", "jalr"} \/ (Group(w) = "opimm" /\ ~ShiftsBy(w)) ->
         Cut(w, 20, 31, 0) \cup Sign(w, 31, 12)
    [] OTHER -> {}

\* Mutant of SvClass: DIV goes to the multiplier.
SvClassLate(w) ==
  CASE Group(w) = "op" /\ SvFn(w) \in {"mul", "mulh", "mulhsu", "mulhu", "div"} -> "mul"
    [] Group(w) = "op" /\ SvFn(w) \in {"divu", "rem", "remu"}     -> "div"
    [] Group(w) = "jalr" /\ ~SvLegal(w) -> "unknown"
    [] OTHER -> Group(w)
\* The class RiscvPkg gives the word.
SvClass(w) ==
  CASE Group(w) = "op" /\ SvFn(w) \in {"mul", "mulh", "mulhsu", "mulhu"} -> "mul"
    [] Group(w) = "op" /\ SvFn(w) \in {"div", "divu", "rem", "remu"}     -> "div"
    [] Group(w) = "jalr" /\ ~SvLegal(w) -> "unknown"
    [] OTHER -> Group(w)

Instruction(w) ==
  [cls |-> SvClass(w), fn |-> SvFn(w), ill |-> ~SvLegal(w),
   rd |-> Rd(w), rs1 |-> Rs1(w), rs2 |-> Rs2(w), imm |-> 0]

-----------------------------------------------------------------------------
(* step() of rv32im_model.py: the calls of _trap("illegal"), and the immediates. *)

StepIllegal(w) ==
  LET f3 == Funct3(w)  f7 == Funct7(w) IN
  CASE Group(w) \in {"lui", "auipc", "jal"} -> FALSE
    [] Group(w) = "jalr"   -> f3 # 0
    [] Group(w) = "branch" -> f3 \notin {0, 1, 4, 5, 6, 7}
    [] Group(w) = "load"   -> f3 \notin {0, 1, 2, 4, 5}
    [] Group(w) = "store"  -> f3 \notin {0, 1, 2}
    [] Group(w) = "opimm"  -> ~(f3 \in {0, 2, 3, 4, 6, 7} \/ <<f3, f7>> \in {<<1, 0>>, <<5, 0>>, <<5, 32>>})
    [] Group(w) = "op"     -> ~(f7 \in {0, 1} \/ <<f3, f7>> \in {<<0, 32>>, <<5, 32>>})
    [] Group(w) = "system" -> w \notin {EBREAK, ECALL}
    [] OTHER               -> TRUE

\* sext(x, n)
SExt(x, n) == x \cup (IF n - 1 \in x THEN n .. 31 ELSE {})

\* imm, for the opcodes that compute one
StepImm(w) ==
  CASE Group(w) \in {"lui", "auipc"} -> w \cap (12 .. 31)
    [] Group(w) = "jal" ->
         SExt(UNION {Cut(w, 31, 31, 20), Cut(w, 12, 19, 12), Cut(w, 20, 20, 11), Cut(w, 21, 30, 1)}, 21)
    [] Group(w) = "branch" ->
         SExt(UNION {Cut(w, 31, 31, 12), Cut(w, 7, 7, 11), Cut(w, 25, 30, 5), Cut(w, 8, 11, 1)}, 13)
    [] Group(w) = "store" -> SExt(Cut(w, 25, 31, 5) \cup Cut(w, 7, 11, 0), 12)
    [] Group(w) = "opimm" /\ Funct3(w) \in {1, 5} -> Cut(w, 20, 24, 0)
    [] OTHER -> SExt(Cut(w, 20, 31, 0), 12)

-----------------------------------------------------------------------------
(* decode_meta of pipeline_model.py. *)

MetaFlags(w) ==
  LET f3 == Funct3(w)  f7 == Funct7(w)
      plain(legal) == IF legal THEN {"lane1"} ELSE {"special", "illegal"}
      special(legal) == IF legal THEN {"special"} ELSE {"special", "illegal"}
  IN CASE Group(w) \in {"lui", "auipc"} -> {"rd_write", "lane1"}
       [] Group(w) = "opimm"  -> {"rs1_used", "rd_write"}
            \cup plain(f3 \notin {1, 5} \/ (f3 = 1 /\ f7 = 0) \/ (f3 = 5 /\ f7 \in {0, 32}))
       [] Group(w) = "op"     -> {"rs1_used", "rs2_used", "rd_write"} \cup
            CASE f7 = 1 -> {"special", IF f3 < 4 THEN "is_mul" ELSE "is_div"}
              [] OTHER  -> plain(f7 = 0 \/ (f7 = 32 /\ f3 \in {0, 5}))
       [] Group(w) = "load"   -> {"rs1_used", "rd_write", "is_load"} \cup special(f3 \in {0, 1, 2, 4, 5})
       [] Group(w) = "store"  -> {"rs1_used", "rs2_used", "is_store"} \cup special(f3 < 3)
       [] Group(w) = "branch" -> {"rs1_used", "rs2_used", "is_branch"} \cup special(f3 \notin {2, 3})
       [] Group(w) = "jal"    -> {"rd_write", "is_jal", "special"}
       [] Group(w) = "jalr"   -> {"rs1_used", "rd_write", "is_jalr"} \cup special(f3 = 0)
       [] Group(w) = "system" -> {"is_system"} \cup special(w \in {ECALL, EBREAK})
       [] OTHER               -> {"special", "illegal"}

-----------------------------------------------------------------------------
(* name() of check_isa_coverage.py, in lower case. *)

\* The mnemonic a table gives the value v.
Named(table, v) ==
  IF \E m \in DOMAIN table : table[m] = v THEN CHOOSE m \in DOMAIN table : table[m] = v ELSE "illegal"

Name(w) ==
  LET f3 == Funct3(w)  f7 == Funct7(w) IN
  CASE Group(w) \in {"lui", "auipc", "jal"} -> Group(w)
    [] Group(w) = "jalr"   -> IF f3 = 0 THEN "jalr" ELSE "illegal"
    [] Group(w) = "branch" -> Named(Branch, f3)
    [] Group(w) = "load"   -> Named(Load, f3)
    [] Group(w) = "store"  -> Named(Store, f3)
    [] Group(w) = "opimm"  -> IF f3 \in {1, 5} THEN Named(Shift, <<f7, f3>>) ELSE Named(OpImm, f3)
    [] Group(w) = "op"     -> IF f7 = 1 THEN Named(MulDiv, <<f7, f3>>) ELSE Named(Op, <<f7, f3>>)
    [] OTHER               -> IF w = ECALL THEN "ecall" ELSE IF w = EBREAK THEN "ebreak" ELSE "illegal"

=============================================================================
