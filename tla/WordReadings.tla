---------------------------- MODULE WordReadings ----------------------------
(***************************************************************************)
(* A window of one or two words of a program, assembled by the encoder or  *)
(* placed there as raw data, and what is claimed of all the readings of    *)
(* Decoder and of the pairing rules that are derived from them.            *)
(***************************************************************************)
EXTENDS Decoder, Sequences

CONSTANTS
  Calls,       \* calls of the encoder considered, one word at a time
  RawWords,    \* words no call has to exist for, one at a time
  PairCalls,   \* calls and words considered in pairs
  PairWords

ASSUME WindowAssumption ==
  /\ Calls \cup PairCalls \subseteq
       [m : Mnemonics, rd : Nat, rs1 : Nat, rs2 : Nat, imm : SUBSET WordBits]
  /\ RawWords \cup PairWords \subseteq SUBSET WordBits

VARIABLES
  window,      \* the words
  source,      \* for each, the call of the encoder that made it, or Data
  slots        \* for each, what the front end and decoder.sv hand the issue unit

windowVars == <<window, source, slots>>

Data == [m |-> "data"]

\* The next word: w, made by s.
Place(w, s) ==
  /\ window' = Append(window, w)
  /\ source' = Append(source, s)
  /\ slots' = Append(slots, [v |-> TRUE, pc |-> 4 * Len(window), ins |-> Instruction(w)])

Assemble(c) ==
  /\ CheckReg(c.rd) /\ CheckReg(c.rs1) /\ CheckReg(c.rs2) /\ Encodable(c.m, c.imm)
  /\ Place(Encode(c.m, c.rd, c.rs1, c.rs2, c.imm), c)

PlaceData(w) == Place(w, Data)

First ==
  /\ window = <<>>
  /\ \/ \E c \in Calls \cup PairCalls : Assemble(c)
     \/ \E w \in RawWords \cup PairWords : PlaceData(w)

Second ==
  /\ Len(window) = 1
  /\ source[1] \in PairCalls \/ window[1] \in PairWords
  /\ \/ \E c \in PairCalls : Assemble(c)
     \/ \E w \in PairWords : PlaceData(w)

\* The next program.
Clear ==
  /\ window # <<>>
  /\ window' = <<>> /\ source' = <<>> /\ slots' = <<>>

Init == window = <<>> /\ source = <<>> /\ slots = <<>>

Next == First \/ Second \/ Clear

Spec == Init /\ [][Next]_windowVars

-----------------------------------------------------------------------------
Sv  == INSTANCE DualIssue WITH WordSize <- 16, Reg <- 0 .. 31
Tm  == INSTANCE TimingModel WITH WordSize <- 16, Reg <- 0 .. 31
Im  == INSTANCE IssueModel WITH WordSize <- 16, Reg <- 0 .. 31

\* Every word is looked at once by itself, and every pair as a pair.
Alone     == {k \in 1 .. Len(window) : Len(window) = 1}
Words     == {window[k] : k \in Alone}
Decoded(k) == slots[k].ins
Assembled == {k \in Alone : source[k] # Data}

\* What the encoder is asked for is what decoder.sv and the reference model
\* read back: operation, registers where the operation has them, and the
\* immediate with its scrambled bits in place and its sign extended.
EncoderReadsBack ==
  \A k \in Assembled :
    LET w == window[k]  s == source[k]  i == Decoded(k) IN
    /\ Name(w) = s.m
    /\ Pkg!RdWrite(i) => i.rd = s.rd
    /\ Pkg!Rs1Used(i) => i.rs1 = s.rs1
    /\ Pkg!Rs2Used(i) => i.rs2 = s.rs2
    /\ SvImm(w) = s.imm /\ (s.imm # {} => StepImm(w) = s.imm)

\* The RTL, the reference model, the timing model and the coverage names agree
\* on which encodings are illegal: every one of them, and no other, traps.
OneSetOfIllegalWords ==
  \A w \in Words :
    /\ StepIllegal(w) <=> ~SvLegal(w)
    /\ "illegal" \in MetaFlags(w) <=> ~SvLegal(w)
    /\ Name(w) = "illegal" <=> ~SvLegal(w)

\* The flags decoder.sv sets are the ones the pipeline model derives from the
\* class and legality of an instruction, for every encoding: in particular an
\* illegal OP or OP-IMM is not eligible for lane 1 (decoder.sv:151).
FlagsFollowClass ==
  \A k \in Alone :
    LET i == Decoded(k)  f == SvFlags(window[k]) IN
    /\ Pkg!WellDecoded(i)
    /\ "rs1_used" \in f <=> Pkg!Rs1Used(i)
    /\ "rs2_used" \in f <=> Pkg!Rs2Used(i)
    /\ "rd_write" \in f <=> Pkg!RdWrite(i)
    /\ "use_imm"  \in f <=> Pkg!UseImm(i)
    /\ "lane1_eligible" \in f <=> Pkg!Lane1Eligible(i)

\* decode_meta restates decoder.sv and dual_issue_unit.sv: the same operands,
\* the same unit, the same lane.  A JALR with a funct3 of its own is the one
\* word they read differently, and it traps; what decode_meta makes of the
\* registers of every word, that one included, is what TimingModel goes by.
MetaAgrees ==
  \A k \in Alone :
    LET w == window[k]  i == Decoded(k)  m == MetaFlags(w)
        shared == {"rs1_used", "rs2_used", "rd_write", "is_load", "is_store", "is_branch",
                   "is_jal", "is_jalr", "is_system"}
    IN /\ (Group(w) = "jalr" /\ ~SvLegal(w)) \/ m \cap shared = SvFlags(w) \cap shared
       /\ "rs1_used" \in m <=> Tm!MetaRs1Used(i)
       /\ "rs2_used" \in m <=> Pkg!Rs2Used(i)
       /\ "rd_write" \in m <=> Tm!MetaRdWrite(i)
       /\ "is_mul" \in m <=> Pkg!IsMul(i)
       /\ "is_div" \in m <=> Pkg!IsDiv(i)
       /\ "lane1" \in m <=> ~Sv!Special(i)
       /\ "special" \in m <=> Sv!Special(i)

\* The three statements of the pairing rules give the same answer for every
\* pair of legal words, and the timing model's for illegal ones too; the issue
\* model's does not look at legality.
PairingAgrees ==
  Len(window) = 2 =>
    LET d0 == slots[1]  d1 == slots[2]
        svPairs == Sv!IssueSlot1(d0, d1, FALSE, FALSE)
    IN /\ Tm!PairReason(d0, d1) = "pair" <=> svPairs
       /\ ~d0.ins.ill /\ ~d1.ins.ill => (Im!CanPair(d0.ins, d1.ins) <=> svPairs)

=============================================================================
