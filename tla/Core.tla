-------------------------------- MODULE Core --------------------------------
(***************************************************************************)
(* rtl/core/superscalar_core.sv: the two-wide in-order pipeline            *)
(*                                                                         *)
(*     front-end buffer -> EX0/EX1 -> MEM0/MEM1 -> WB0/WB1                 *)
(*                                                                         *)
(* with the register file, the blocking divider and the data memory it     *)
(* drives.  One step is one clock edge (Clock) or an assertion of reset_n  *)
(* (Reset).  Every wire of the RTL that decides something is an operator   *)
(* named after it; lane 0 holds the older instruction of a pair.           *)
(*                                                                         *)
(* The arithmetic is cut out: Alu, Mul, BranchTaken, LoadValue, StoreWord  *)
(* and DivY are parameters.  Datapath.tla has the ones of the RTL.         *)
(***************************************************************************)
EXTENDS Frontend, DualIssue, DivContract

CONSTANTS
  EnableDualIssue,          \* ENABLE_DUAL_ISSUE
  DmemAddr,                 \* the word addresses the data memory answers
  Alu(_, _, _),             \* Alu(op, a, b)                     (alu.sv)
  Mul(_, _, _),             \* Mul(op, a, b)                     (mul_unit.sv)
  BranchTaken(_, _, _),     \* BranchTaken(op, a, b)             (branch_unit.sv)
  LoadValue(_, _, _),       \* LoadValue(op, addr, word)         (load_store_unit.sv)
  StoreWord(_, _, _, _)     \* StoreWord(op, addr, old, data): the word after
                            \* the enabled bytes are written

ASSUME CoreAssumption ==
  /\ EnableDualIssue \in BOOLEAN
  /\ DmemAddr \subseteq Word

ASSUME DatapathAssumption ==
  \A a, b \in Word :
    /\ \A op \in AluFn : Alu(op, a, b) \in Word
    /\ \A op \in MulFn : Mul(op, a, b) \in Word
    /\ \A op \in BrFn  : BranchTaken(op, a, b) \in BOOLEAN
    /\ \A op \in MemFn : LoadValue(op, a, b) \in Word
    /\ \A op \in MemFn, c \in Word : StoreWord(op, a, b, c) \in Word

VARIABLES
  ex0, ex1,      \* ex0_q, ex1_q
  mem0, mem1,    \* mem0_q, mem1_q
  wb0, wb1,      \* wb0_q, wb1_q
  regs,          \* u_rf.regs
  halted,
  trap,          \* trap_valid, trap_pc, trap_cause
  dmem           \* the data memory

pipeVars == <<ex0, ex1, mem0, mem1, wb0, wb1, regs, halted, trap>>
vars     == <<frontVars, div, pipeVars, dmem>>

LatchInstr == Instr \cup {NoInstr}
ExLatch  == [valid : BOOLEAN, pc : Word, ins : LatchInstr, op1 : Word, op2 : Word]
MemLatch == [valid : BOOLEAN, pc : Word, ins : LatchInstr, result : Word,
             addr : Word, sdata : Word, exc : Exc]
WbLatch  == [valid : BOOLEAN, pc : Word, ins : LatchInstr, value : Word,
             addr : Word, sdata : Word, exc : Exc]

ExBubble  == [valid |-> FALSE, pc |-> 0, ins |-> NoInstr, op1 |-> 0, op2 |-> 0]
MemBubble == [valid |-> FALSE, pc |-> 0, ins |-> NoInstr, result |-> 0,
              addr |-> 0, sdata |-> 0, exc |-> "none"]
WbBubble  == [valid |-> FALSE, pc |-> 0, ins |-> NoInstr, value |-> 0,
              addr |-> 0, sdata |-> 0, exc |-> "none"]
NoTrap    == [valid |-> FALSE, pc |-> 0, cause |-> "none"]

-----------------------------------------------------------------------------
(* EX: divider handshake, control flow, exceptions, results. *)

DivInEx  == ex0.valid /\ IsDiv(ex0.ins)
\* Mutant of DivStart: the result cycle counts as idle.
DivStartAgain == DivInEx /\ ~div.busy
DivStart == DivInEx /\ ~div.busy /\ ~div.done
\* Mutant of ExStall: does not look at done.
ExStallStuck == DivInEx
ExStall  == DivInEx /\ ~div.done

EffAddr == AddW(ex0.op1, ex0.ins.imm)

\* Mutant of Misaligned: unsigned halves are not checked.
MisalignedSigned(op, a) ==
  (op = "h" /\ a % 2 # 0) \/ (op = "w" /\ ~Aligned(a))
\* addr_misaligned
Misaligned(op, a) ==
  \/ op \in {"h", "hu"} /\ a % 2 # 0
  \/ op = "w" /\ ~Aligned(a)

ControlTaken ==
  /\ ex0.valid
  /\ \/ IsJump(ex0.ins)
     \/ /\ ex0.ins.cls = "branch" /\ ~ex0.ins.ill
        /\ BranchTaken(ex0.ins.fn, ex0.op1, ex0.op2)

ControlTarget ==
  IF ex0.ins.cls = "jalr" THEN ClearBit0(AddW(ex0.op1, ex0.ins.imm))
                          ELSE AddW(ex0.pc, ex0.ins.imm)

\* Mutant of InstrMisaligned: a branch that is not taken traps too.
InstrMisalignedAlways ==
  /\ ex0.valid /\ ex0.ins.cls \in {"jal", "jalr", "branch"} /\ ~ex0.ins.ill
  /\ ~Aligned(ControlTarget)
InstrMisaligned == ControlTaken /\ ~Aligned(ControlTarget)
MemMisaligned   == Misaligned(MemOp(ex0.ins), EffAddr)

\* ex0_exc_valid and ex0_exc_cause.  The causes after "illegal" belong to
\* different opcodes, so only the precedence of "illegal" can matter.
Ex0Exc ==
  CASE ex0.valid /\ ex0.ins.ill -> "illegal"
    [] ex0.valid /\ ~ex0.ins.ill /\ ex0.ins.fn = "ebreak" -> "breakpoint"
    [] ex0.valid /\ ~ex0.ins.ill /\ ex0.ins.fn = "ecall" -> "ecall"
    [] ~ex0.ins.ill /\ InstrMisaligned -> "instr_misaligned"
    [] ex0.valid /\ ~ex0.ins.ill /\ IsLoad(ex0.ins) /\ MemMisaligned -> "load_misaligned"
    [] ex0.valid /\ ~ex0.ins.ill /\ IsStore(ex0.ins) /\ MemMisaligned -> "store_misaligned"
    [] OTHER -> "none"

\* ex0_alu_y, ex1_alu_y
AluY(l) ==
  Alu(AluOp(l.ins),
      CASE l.ins.cls = "lui"   -> 0
        [] l.ins.cls = "auipc" -> l.pc
        [] OTHER               -> l.op1,
      IF UseImm(l.ins) THEN l.ins.imm ELSE l.op2)

Ex0Result ==
  CASE IsJump(ex0.ins) -> AddW(ex0.pc, 4)
    [] IsMul(ex0.ins)  -> Mul(ex0.ins.fn, ex0.op1, ex0.op2)
    [] IsDiv(ex0.ins)  -> div.result
    [] IsLoad(ex0.ins) \/ IsStore(ex0.ins) -> EffAddr
    [] OTHER -> AluY(ex0)

Ex1Result == AluY(ex1)

RedirectValid == ControlTaken /\ Ex0Exc = "none" /\ ~ExStall

-----------------------------------------------------------------------------
(* MEM: the single data port, used by lane 0 only. *)

DmemWord(a) == IF a \in DmemAddr THEN dmem[a] ELSE 0

LsuLoadValue == LoadValue(MemOp(mem0.ins), mem0.addr, DmemWord(WordAddr(mem0.addr)))

DmemWe == ~halted /\ mem0.valid /\ IsStore(mem0.ins) /\ mem0.exc = "none"
DmemRe == ~halted /\ mem0.valid /\ IsLoad(mem0.ins)  /\ mem0.exc = "none"

\* mem0_forward_value, and what lane 0 carries into WB
Mem0Value == IF IsLoad(mem0.ins) THEN LsuLoadValue ELSE mem0.result

-----------------------------------------------------------------------------
(* Operands: forwarding, youngest producer first, and what must wait. *)

Ex0ForwardReady ==
  /\ ex0.valid /\ RdWrite(ex0.ins)
  /\ ~IsLoad(ex0.ins) /\ ~IsDiv(ex0.ins)
  /\ Ex0Exc = "none"

\* A MEM or WB latch offers a value for register r.
Offers(l, r) == l.valid /\ RdWrite(l.ins) /\ l.exc = "none" /\ l.ins.rd = r

\* Mutant of Operand: MEM is looked at before EX.
OperandMemFirst(used, r) ==
  IF ~used \/ r = 0 THEN 0
  ELSE IF Offers(mem1, r) THEN mem1.result
  ELSE IF Offers(mem0, r) THEN Mem0Value
  ELSE IF ex1.valid /\ RdWrite(ex1.ins) /\ ex1.ins.rd = r THEN Ex1Result
  ELSE IF Ex0ForwardReady /\ ex0.ins.rd = r THEN Ex0Result
  ELSE IF Offers(wb1, r) THEN wb1.value
  ELSE IF Offers(wb0, r) THEN wb0.value
  ELSE regs[r]
\* resolve_operand
Operand(used, r) ==
  IF ~used \/ r = 0 THEN 0
  ELSE IF ex1.valid /\ RdWrite(ex1.ins) /\ ex1.ins.rd = r THEN Ex1Result
  ELSE IF Ex0ForwardReady /\ ex0.ins.rd = r THEN Ex0Result
  ELSE IF Offers(mem1, r) THEN mem1.result
  ELSE IF Offers(mem0, r) THEN Mem0Value
  ELSE IF Offers(wb1, r) THEN wb1.value
  ELSE IF Offers(wb0, r) THEN wb0.value
  ELSE regs[r]

\* Mutant of WaitsForEx: a divide in EX is not waited for.
WaitsForExLoad(d) ==
  d.v /\ ex0.valid /\ IsLoad(ex0.ins) /\ ex0.ins.rd # 0 /\ Reads(d.ins, ex0.ins.rd)
\* source_waits_for_ex_load: the result of a load or of a divide in EX is
\* not there yet.
WaitsForEx(d) ==
  /\ d.v /\ ex0.valid
  /\ RdWrite(ex0.ins) /\ ex0.ins.rd # 0
  /\ IsLoad(ex0.ins) \/ IsDiv(ex0.ins)
  /\ Reads(d.ins, ex0.ins.rd)

-----------------------------------------------------------------------------
(* Issue. *)

\* Mutant of SerializingInflight: the exception in EX is noticed in MEM only.
SerializingLate ==
  (mem0.valid /\ mem0.exc # "none") \/ (wb0.valid /\ wb0.exc # "none")
SerializingInflight ==
  \/ Ex0Exc # "none"
  \/ mem0.valid /\ mem0.exc # "none"
  \/ wb0.valid /\ wb0.exc # "none"

\* Mutant of StallAll: a redirect does not stop the wrong path.
StallAllNoRedirect == halted \/ ExStall \/ SerializingInflight
StallAll == halted \/ ExStall \/ RedirectValid \/ SerializingInflight
Stall0   == StallAll \/ WaitsForEx(buf0)
Stall1   == StallAll \/ WaitsForEx(buf1) \/ ~EnableDualIssue

Issue0 == IssueSlot0(buf0, Stall0)
Issue1 == IssueSlot1(buf0, buf1, Stall0, Stall1)

-----------------------------------------------------------------------------
(* Write back and the commit trace ports. *)

RfWe0 == ~halted /\ wb0.valid /\ RdWrite(wb0.ins) /\ wb0.exc = "none" /\ wb0.ins.rd # 0
RfWe1 == /\ ~halted /\ wb1.valid /\ RdWrite(wb1.ins) /\ wb1.exc = "none"
         /\ wb0.exc = "none" /\ wb1.ins.rd # 0

Commit0Valid == ~halted /\ wb0.valid /\ wb0.exc = "none"
Commit1Valid == ~halted /\ wb1.valid /\ wb1.exc = "none" /\ wb0.exc = "none"

-----------------------------------------------------------------------------
(* The clock edge: one operator per always_ff process or group of registers. *)

Issued(d) ==
  [valid |-> TRUE, pc |-> d.pc, ins |-> d.ins,
   op1 |-> Operand(Rs1Used(d.ins), d.ins.rs1),
   op2 |-> Operand(Rs2Used(d.ins), d.ins.rs2)]

ExStep ==
  \/ ExStall /\ UNCHANGED <<ex0, ex1>>
  \/ /\ ~ExStall
     /\ ex0' = IF Issue0 THEN Issued(buf0) ELSE ExBubble
     /\ ex1' = IF Issue1 THEN Issued(buf1) ELSE ExBubble

\* ex0_to_mem, ex1_to_mem
Ex0ToMem ==
  IF ex0.valid
  THEN [valid |-> TRUE, pc |-> ex0.pc, ins |-> ex0.ins, result |-> Ex0Result,
        addr |-> EffAddr, sdata |-> ex0.op2, exc |-> Ex0Exc]
  ELSE MemBubble

Ex1ToMem ==
  IF ex1.valid
  THEN [valid |-> TRUE, pc |-> ex1.pc, ins |-> ex1.ins, result |-> Ex1Result,
        addr |-> 0, sdata |-> 0, exc |-> "none"]
  ELSE MemBubble

\* Mutant of MemStep: MEM is held like EX while the divider works.
MemStepHeld ==
  \/ ExStall /\ UNCHANGED <<mem0, mem1>>
  \/ ~ExStall /\ mem0' = Ex0ToMem /\ mem1' = Ex1ToMem
MemStep ==
  \/ ExStall /\ mem0' = MemBubble /\ mem1' = MemBubble
  \/ ~ExStall /\ mem0' = Ex0ToMem /\ mem1' = Ex1ToMem

\* mem0_to_wb, mem1_to_wb
ToWb(l, value) ==
  IF l.valid
  THEN [valid |-> TRUE, pc |-> l.pc, ins |-> l.ins, value |-> value,
        addr |-> l.addr, sdata |-> l.sdata, exc |-> l.exc]
  ELSE WbBubble

WbStep == wb0' = ToWb(mem0, Mem0Value) /\ wb1' = ToWb(mem1, mem1.result)

RegStep ==
  regs' = [r \in Reg |->
             CASE r = 0 -> 0
               [] r # 0 /\ RfWe1 /\ wb1.ins.rd = r -> wb1.value
               [] r # 0 /\ ~(RfWe1 /\ wb1.ins.rd = r) /\ RfWe0 /\ wb0.ins.rd = r -> wb0.value
               [] OTHER -> regs[r]]

DmemStep ==
  dmem' = [a \in DmemAddr |->
             IF DmemWe /\ a = WordAddr(mem0.addr)
             THEN StoreWord(MemOp(mem0.ins), mem0.addr, dmem[a], mem0.sdata)
             ELSE dmem[a]]

TrapStep ==
  IF wb0.valid /\ wb0.exc # "none"
  THEN /\ halted' = TRUE
       /\ trap' = [valid |-> TRUE, pc |-> wb0.pc, cause |-> wb0.exc]
  ELSE halted' = halted /\ trap' = [trap EXCEPT !.valid = FALSE]

Clock ==
  /\ FrontStep(Issue0, Issue1, RedirectValid, ControlTarget, halted)
  /\ DivStep(DivStart, ex0.ins.fn, ex0.op1, ex0.op2)
  /\ ExStep /\ MemStep /\ WbStep
  /\ RegStep /\ DmemStep /\ TrapStep

\* reset_n goes low: every register is cleared; the memories keep their contents.
Reset ==
  /\ FrontReset /\ UNCHANGED imem
  /\ div' = DivIdle
  /\ ex0' = ExBubble /\ ex1' = ExBubble
  /\ mem0' = MemBubble /\ mem1' = MemBubble
  /\ wb0' = WbBubble /\ wb1' = WbBubble
  /\ regs' = [r \in Reg |-> 0]
  /\ halted' = FALSE /\ trap' = NoTrap
  /\ UNCHANGED dmem

Init ==
  /\ FrontInit
  /\ div = DivIdle
  /\ ex0 = ExBubble /\ ex1 = ExBubble
  /\ mem0 = MemBubble /\ mem1 = MemBubble
  /\ wb0 = WbBubble /\ wb1 = WbBubble
  /\ regs = [r \in Reg |-> 0]
  /\ halted = FALSE /\ trap = NoTrap
  /\ dmem = [a \in DmemAddr |-> 0]

Next == Clock \/ Reset

\* The clock keeps ticking.  Nothing makes reset_n go low or stay high.
Spec == Init /\ [][Next]_vars /\ WF_vars(Clock)

=============================================================================
