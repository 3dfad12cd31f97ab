--------------------------- MODULE MCWordReadings ---------------------------
(* Instances of WordReadings for TLC: single words with every mnemonic, every *)
(* opcode and every bit of the immediates, and pairs over a few registers.    *)
EXTENDS WordReadings

CallsOf(mnems, rs, offsets) ==
  [m : mnems, rd : rs, rs1 : rs, rs2 : rs, imm : offsets]

\* One bit, or a run of ones up to the sign: the encodings are linear in the bits.
BitOffsets == {{}} \cup {{b} : b \in 0 .. 31} \cup {b .. 31 : b \in 0 .. 31}
EveryCall == CallsOf(Mnemonics, {10, 21}, BitOffsets)

\* Every opcode and funct3, with the funct7 values that matter and one bit off.
EveryOpcode ==
  {RType(f7, 1, 2, f3, 1, opc) : f7 \in {0, 1, 2, 16, 32, 33}, f3 \in 0 .. 7, opc \in 0 .. 127}

PairMnems == {"add", "addi", "slli", "lui", "lw", "sw", "beq", "jal", "jalr", "mul", "div", "ebreak"}
FewCalls == CallsOf(PairMnems, {0, 1}, {{}, {3}})

\* The reserved encodings of the directed tests 27 to 33.
ReservedWords ==
  {IType({}, 0, 1, 1, 103), BType({2}, 0, 0, 2, 99), IType({}, 0, 3, 1, 3),
   SType({}, 1, 0, 3, 35), IType({0, 5}, 1, 1, 2, 19), RType(16, 2, 1, 0, 3, 51),
   Field(115, 0) \cup {21}}
=============================================================================
