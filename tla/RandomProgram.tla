--------------------------- MODULE RandomProgram ----------------------------
(***************************************************************************)
(* scripts/gen_random_program.py: program(), which strings random legal    *)
(* instructions together.  The random generator is free choice.  A step of *)
(* the model is one iteration of the loop; emitted is what it appends.     *)
(***************************************************************************)
EXTENDS Decoder, Sequences

CONSTANTS
  Count,       \* n, the iterations of the loop
  Rds,         \* the destinations considered, of 4..27
  Sources,     \* the sources considered, of 1..27
  Constants    \* the constants considered, of -128..127, as sets of bits

ASSUME GeneratorAssumption ==
  /\ Count \in Nat /\ Rds \subseteq 4 .. 27 /\ Sources \subseteq 1 .. 27
  /\ Constants \subseteq SUBSET WordBits
  /\ \A c \in Constants : c \cap (7 .. 31) \in {{}, 7 .. 31}

VARIABLES
  i,          \* the iteration; -1 before the prologue
  emitted     \* the words appended last

randomVars == <<i, emitted>>

RegOps == {"add", "sub", "xor", "or", "and", "sll", "srl", "sra", "slt", "sltu", "mul", "div", "rem"}
ImmOps == {"addi", "xori", "ori", "andi"}

Prologue ==
  <<Encode("addi", 28, 0, 0, BitsOf(1024)), Encode("addi", 1, 0, 0, {0}),
    Encode("addi", 2, 0, 0, {0, 1}), Encode("addi", 3, 0, 0, {0} \cup (3 .. 31))>>

\* Every fifth instruction reads the register below its destination.
MayRead(rd, r) == IF i % 5 = 0 THEN r = rd - 1 ELSE r \in Sources

\* Mutant of LoadTarget: the remainder by one more register.
LoadTargetWide(rd) == (rd % 25) + 4
LoadTarget(rd) == (rd % 24) + 4

\* Mutant of MemOffset: half words.
MemOffsetHalf(k) == (k % 8) * 2
MemOffset(k) == (k % 8) * 4

\* Every seventeenth instruction is stored and loaded again.
MemoryPair(rd) ==
  IF i % 17 # 0 THEN <<>>
  ELSE LET off == BitsOf(MemOffset(i)) IN
       <<Encode("sw", 0, 28, rd, off), Encode("lw", LoadTarget(rd), 28, 0, off)>>

Begin ==
  /\ i = -1
  /\ i' = 0 /\ emitted' = Prologue

Body(op, rd, rs1, rs2, imm) ==
  /\ i \in 0 .. Count - 1
  /\ MayRead(rd, rs1)
  /\ emitted' = <<Encode(op, rd, rs1, rs2, imm)>> \o MemoryPair(rd)
  /\ i' = i + 1

End ==
  /\ i = Count
  /\ i' = Count + 1 /\ emitted' = <<EBREAK>>

\* The next seed.
Again ==
  /\ i = Count + 1
  /\ i' = -1 /\ emitted' = <<>>

RandomInit == i = -1 /\ emitted = <<>>

RandomNext ==
  \/ Begin \/ End \/ Again
  \/ \E rd \in Rds : \E rs1 \in Sources \cup {rd - 1} :
       \/ \E op \in RegOps, rs2 \in Sources : Body(op, rd, rs1, rs2, {})
       \/ \E op \in ImmOps, imm \in Constants : Body(op, rd, rs1, 0, imm)

RandomSpec == RandomInit /\ [][RandomNext]_randomVars

-----------------------------------------------------------------------------
Emitted == {Instruction(emitted[k]) : k \in 1 .. Len(emitted)}

\* Once the prologue has set x28 nothing writes it, however a load destination
\* is derived from a random register: every access goes where it was meant to.
BaseKept == i > 0 => \A ins \in Emitted : Pkg!RdWrite(ins) => ins.rd \in 4 .. 27

\* A generated program runs straight to its EBREAK: every word before it is
\* legal, none is a control transfer, and every access is to an aligned word at
\* the base, so the regression compares whole programs and not a first trap.
RunsToEbreak ==
  \A k \in 1 .. Len(emitted) :
    LET w == emitted[k] IN
    /\ SvLegal(w)
    /\ Group(w) \notin {"jal", "jalr", "branch"}
    /\ Group(w) = "system" <=> i = Count + 1
    /\ Group(w) \in {"load", "store"} =>
         Rs1(w) = 28 /\ SvImm(w) \subseteq {2, 3, 4}

=============================================================================
