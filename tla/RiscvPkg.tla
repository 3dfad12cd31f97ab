------------------------------ MODULE RiscvPkg ------------------------------
(***************************************************************************)
(* The vocabulary of rtl/common/riscv_pkg.sv and the control flags that    *)
(* rtl/decode/decoder.sv derives from an instruction word.                 *)
(*                                                                         *)
(* An instruction is a record.  cls is the opcode group, fn the operation  *)
(* funct3/funct7 select in it, ill says that they select none, and the     *)
(* register fields are always there: the decoder extracts bits 11:7, 19:15 *)
(* and 24:20 whether or not the opcode uses them, so an unused field holds *)
(* encoding residue that the pipeline must not take for an operand.        *)
(***************************************************************************)
EXTENDS Integers

CONSTANTS
  WordSize,   \* how many values a word has (2^32 in the RTL)
  Reg         \* register numbers (0..31 in the RTL)

ASSUME WordAssumption == WordSize \in Nat /\ WordSize > 8 /\ WordSize % 4 = 0
ASSUME RegAssumption  == Reg \subseteq Nat /\ 0 \in Reg

Word == 0 .. WordSize - 1

\* Mutant of AddW: a carry out of the top bit.
AddWCarry(a, b) == a + b
\* a + b on words
AddW(a, b) == IF a + b < WordSize THEN a + b ELSE a + b - WordSize

Aligned(a)   == a % 4 = 0
WordAddr(a)  == a - (a % 4)
ClearBit0(a) == a - (a % 2)

AluFn == {"add", "sub", "sll", "slt", "sltu", "xor", "srl", "sra", "or", "and", "copyb"}
BrFn  == {"eq", "ne", "lt", "ge", "ltu", "geu"}
MulFn == {"mul", "mulh", "mulhsu", "mulhu"}
DivFn == {"div", "divu", "rem", "remu"}
MemFn == {"b", "h", "w", "bu", "hu"}
SysFn == {"ecall", "ebreak"}
Fn    == AluFn \cup BrFn \cup MulFn \cup DivFn \cup MemFn \cup SysFn \cup {"none", "jalr"}

Class == {"unknown", "lui", "auipc", "jal", "jalr", "branch", "load", "store",
          "opimm", "op", "mul", "div", "system"}

\* Traps: the EXC_* codes; "none" stands for exc_valid = 0.
Cause == {"instr_misaligned", "illegal", "breakpoint", "load_misaligned",
          "store_misaligned", "ecall"}
Exc   == Cause \cup {"none"}

\* What the decoder can make of a word.  LUI, AUIPC, JAL and the M extension
\* have no illegal encodings; a JALR with funct3 # 0 sets none of the flags of
\* JALR, like an opcode the core does not know, and only its fn says what it is.
WellDecoded(i) ==
  /\ i.cls = "unknown" => i.ill
  /\ i.cls \in {"lui", "auipc", "jal", "jalr", "mul", "div"} => ~i.ill
  /\ (i.cls \in {"opimm", "op"} /\ ~i.ill) => i.fn \in AluFn
  /\ i.cls = "lui" => i.fn = "copyb"
  /\ i.cls = "auipc" => i.fn = "add"
  /\ i.cls \in {"jal", "jalr"} => i.fn = "none"
  /\ (i.cls = "branch" /\ ~i.ill) => i.fn \in BrFn
  /\ (i.cls \in {"load", "store"} /\ ~i.ill) => i.fn \in MemFn
  /\ (i.cls = "system" /\ ~i.ill) => i.fn \in SysFn
  /\ i.cls = "mul" => i.fn \in MulFn
  /\ i.cls = "div" => i.fn \in DivFn

Instr == {i \in [cls : Class, fn : Fn, ill : BOOLEAN,
                 rd : Reg, rs1 : Reg, rs2 : Reg, imm : Word] : WellDecoded(i)}

Nop    == [cls |-> "opimm", fn |-> "add", ill |-> FALSE,
           rd |-> 0, rs1 |-> 0, rs2 |-> 0, imm |-> 0]
Ebreak == [cls |-> "system", fn |-> "ebreak", ill |-> FALSE,
           rd |-> 0, rs1 |-> 0, rs2 |-> 0, imm |-> 0]

\* The all-zero decoded_t that an empty pipeline register holds.
NoInstr == [cls |-> "none", fn |-> "none", ill |-> FALSE,
            rd |-> 0, rs1 |-> 0, rs2 |-> 0, imm |-> 0]

\* A JALR with funct3 # 0: to the core an unknown word, to decode_meta a JALR.
ReservedJalr(i) == i.cls = "unknown" /\ i.fn = "jalr"

-----------------------------------------------------------------------------
(* The decoder's flags. *)

Rs1Used(i) == i.cls \in {"jalr", "branch", "load", "store", "opimm", "op", "mul", "div"}
Rs2Used(i) == i.cls \in {"branch", "store", "op", "mul", "div"}
RdWrite(i) == i.cls \in {"lui", "auipc", "jal", "jalr", "load", "opimm", "op", "mul", "div"}
UseImm(i)  == i.cls \in {"lui", "auipc", "load", "store", "opimm"}

IsLoad(i)  == i.cls = "load"
IsStore(i) == i.cls = "store"
IsMul(i)   == i.cls = "mul"
IsDiv(i)   == i.cls = "div"
IsJump(i)  == i.cls \in {"jal", "jalr"}

Lane1Eligible(i) ==
  \/ i.cls \in {"lui", "auipc"}
  \/ i.cls \in {"opimm", "op"} /\ ~i.ill

\* alu_op: what the legal ALU opcodes set, and the ALU_ADD every other keeps.
AluOp(i) == IF Lane1Eligible(i) THEN i.fn ELSE "add"

\* mem_size and load_unsigned: the MEM_W of an illegal LOAD or STORE is the default.
MemOp(i) == IF i.cls \in {"load", "store"} /\ ~i.ill THEN i.fn ELSE "w"

\* i has r as an operand.
Reads(i, r) == (Rs1Used(i) /\ i.rs1 = r) \/ (Rs2Used(i) /\ i.rs2 = r)

=============================================================================
