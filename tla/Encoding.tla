------------------------------ MODULE Encoding ------------------------------
(***************************************************************************)
(* scripts/riscv_encode.py: the encoder the test programs are written      *)
(* with.  An instruction word is the set of the positions of its 1 bits, a *)
(* subset of 0..31, so a shift moves positions, a mask intersects and an   *)
(* "or" unites; an immediate is such a set too, in two's complement.       *)
(* Opcodes, registers and function fields are numbers.                     *)
(***************************************************************************)
EXTENDS Integers

WordBits == 0 .. 31

\* The bits of a number, and of a number moved up to position lo.
BitsOf(n)     == {b \in 0 .. 11 : (n \div 2 ^ b) % 2 = 1}
Field(n, lo)  == {b + lo : b \in BitsOf(n)}
\* Bits lo..hi of a word, moved to position at.
Cut(w, lo, hi, at) == {b - lo + at : b \in w \cap (lo .. hi)}

CheckReg(r) == r \in 0 .. 31

-----------------------------------------------------------------------------
(* The formats. *)

RType(f7, rs2, rs1, f3, rd, opc) ==
  UNION {Field(f7, 25), Field(rs2, 20), Field(rs1, 15), Field(f3, 12), Field(rd, 7), Field(opc, 0)}

IType(imm, rs1, f3, rd, opc) ==
  UNION {Cut(imm, 0, 11, 20), Field(rs1, 15), Field(f3, 12), Field(rd, 7), Field(opc, 0)}

SType(imm, rs2, rs1, f3, opc) ==
  UNION {Cut(imm, 5, 11, 25), Field(rs2, 20), Field(rs1, 15), Field(f3, 12),
         Cut(imm, 0, 4, 7), Field(opc, 0)}

\* Mutant of BType: bit 11 is left where S-type has it.
BTypeUnscrambled(imm, rs2, rs1, f3, opc) == SType(imm, rs2, rs1, f3, opc)
\* An odd offset is refused.
BType(imm, rs2, rs1, f3, opc) ==
  UNION {Cut(imm, 12, 12, 31), Cut(imm, 5, 10, 25), Field(rs2, 20), Field(rs1, 15),
         Field(f3, 12), Cut(imm, 1, 4, 8), Cut(imm, 11, 11, 7), Field(opc, 0)}

UType(imm, rd, opc) == UNION {imm \cap (12 .. 31), Field(rd, 7), Field(opc, 0)}

JType(imm, rd, opc) ==
  UNION {Cut(imm, 20, 20, 31), Cut(imm, 1, 10, 21), Cut(imm, 11, 11, 20),
         Cut(imm, 12, 19, 12), Field(rd, 7), Field(opc, 0)}

-----------------------------------------------------------------------------
(* The mnemonics.  A table gives funct3, or <<funct7, funct3>>. *)

OpImm  == [addi |-> 0, slti |-> 2, sltiu |-> 3, xori |-> 4, ori |-> 6, andi |-> 7]
Shift  == [slli |-> <<0, 1>>, srli |-> <<0, 5>>, srai |-> <<32, 5>>]
Op     == [add |-> <<0, 0>>, sub |-> <<32, 0>>, sll |-> <<0, 1>>, slt |-> <<0, 2>>,
           sltu |-> <<0, 3>>, xor |-> <<0, 4>>, srl |-> <<0, 5>>, sra |-> <<32, 5>>,
           or |-> <<0, 6>>, and |-> <<0, 7>>]
MulDiv == [mul |-> <<1, 0>>, mulh |-> <<1, 1>>, mulhsu |-> <<1, 2>>, mulhu |-> <<1, 3>>,
           div |-> <<1, 4>>, divu |-> <<1, 5>>, rem |-> <<1, 6>>, remu |-> <<1, 7>>]
Branch == [beq |-> 0, bne |-> 1, blt |-> 4, bge |-> 5, bltu |-> 6, bgeu |-> 7]
Load   == [lb |-> 0, lh |-> 1, lw |-> 2, lbu |-> 4, lhu |-> 5]
Store  == [sb |-> 0, sh |-> 1, sw |-> 2]
Upper  == [lui |-> 55, auipc |-> 23]

ECALL  == Field(115, 0)
EBREAK == Field(115, 0) \cup {20}

Mnemonics ==
  UNION {DOMAIN OpImm, DOMAIN Shift, DOMAIN Op, DOMAIN MulDiv, DOMAIN Branch, DOMAIN Load,
         DOMAIN Store, DOMAIN Upper, {"jal", "jalr", "ecall", "ebreak"}}

\* The offset or constant has the form the mnemonic's format can hold.
Encodable(m, imm) ==
  LET signBits(n) == imm \cap (n .. 31) \in {{}, n .. 31} IN
  CASE m \in DOMAIN OpImm \cup DOMAIN Load \cup DOMAIN Store \cup {"jalr"} -> signBits(11)
    [] m \in DOMAIN Shift  -> imm \subseteq 0 .. 4
    [] m \in DOMAIN Branch -> 0 \notin imm /\ signBits(12)
    [] m = "jal"           -> 0 \notin imm /\ signBits(20)
    [] m \in DOMAIN Upper  -> imm \cap (0 .. 11) = {}
    [] OTHER               -> imm = {}

\* The function of riscv_encode.py called m.
Encode(m, rd, rs1, rs2, imm) ==
  CASE m \in DOMAIN OpImm  -> IType(imm, rs1, OpImm[m], rd, 19)
    [] m \in DOMAIN Shift  -> IType(Cut(imm, 0, 4, 0) \cup Field(Shift[m][1], 5), rs1, Shift[m][2], rd, 19)
    [] m \in DOMAIN Op     -> RType(Op[m][1], rs2, rs1, Op[m][2], rd, 51)
    [] m \in DOMAIN MulDiv -> RType(MulDiv[m][1], rs2, rs1, MulDiv[m][2], rd, 51)
    [] m \in DOMAIN Branch -> BType(imm, rs2, rs1, Branch[m], 99)
    [] m \in DOMAIN Load   -> IType(imm, rs1, Load[m], rd, 3)
    [] m \in DOMAIN Store  -> SType(imm, rs2, rs1, Store[m], 35)
    [] m \in DOMAIN Upper  -> UType(imm, rd, Upper[m])
    [] m = "jal"           -> JType(imm, rd, 111)
    [] m = "jalr"          -> IType(imm, rs1, 0, rd, 103)
    [] m = "ecall"         -> ECALL
    [] m = "ebreak"        -> EBREAK

=============================================================================
