----------------------------- MODULE CoreProps ------------------------------
(***************************************************************************)
(* What is claimed of Core: its types, the order and the precision of the  *)
(* instructions in flight, the divider's ownership of EX, the value of     *)
(* every operand, that it implements RV32IM commit by commit, and that it  *)
(* never stops committing before it has halted.                            *)
(***************************************************************************)
EXTENDS Core, Sequences

\* Every register of the core holds a value of its type.
TypeOK ==
  /\ imem \in Programs
  /\ buf0 \in Slot /\ buf1 \in Slot /\ next_fetch_pc \in Word
  /\ div \in DivState
  /\ ex0 \in ExLatch /\ ex1 \in ExLatch
  /\ mem0 \in MemLatch /\ mem1 \in MemLatch
  /\ wb0 \in WbLatch /\ wb1 \in WbLatch
  /\ regs \in [Reg -> Word] /\ dmem \in [DmemAddr -> Word]
  /\ halted \in BOOLEAN
  /\ trap \in [valid : BOOLEAN, pc : Word, cause : Exc]

-----------------------------------------------------------------------------
(* Order and precision. *)

Excepting(l) == l.valid /\ l.exc # "none"
EmptyEx  == ~ex0.valid /\ ~ex1.valid
EmptyMem == ~mem0.valid /\ ~mem1.valid
EmptyWb  == ~wb0.valid /\ ~wb1.valid

\* An instruction that traps is the youngest one issued until the core is
\* halted, and the halted core holds none: nothing younger can write a
\* register, reach the data memory or redirect the front end
\* (superscalar_core.sv: serializing_inflight and the "precise" assertions).
PreciseTrap ==
  /\ Ex0Exc # "none" => ~ex1.valid
  /\ Excepting(mem0) => ~mem1.valid /\ EmptyEx
  /\ Excepting(wb0)  => ~wb1.valid /\ EmptyMem /\ EmptyEx
  /\ halted => EmptyWb /\ EmptyMem /\ EmptyEx /\ trap.cause # "none"
  /\ ~halted => ~trap.valid

\* The instructions in flight are one straight run of the program: within a
\* pair and from stage to stage the older of two neighbours is followed by the
\* next word, or it is a control transfer whose target has been fetched instead.
Older(a, b) ==       \* the program counter of b continues a
  \/ b = AddW(a.pc, 4)
  \/ a.ins.cls \in {"jal", "jalr", "branch"}

NextBehind(l, after) == l.valid => Older(l, after)

FrontPc == IF buf0.v THEN buf0.pc ELSE next_fetch_pc
ExPc    == IF ex0.valid THEN ex0.pc ELSE FrontPc
MemPc   == IF mem0.valid THEN mem0.pc ELSE ExPc

\* Program order is kept by issue, replay, redirect and stall: no instruction
\* between the write back stage and the fetch address is lost or duplicated,
\* and the younger instruction of a pair is never alone.
ProgramOrder ==
  /\ buf1.v <=> buf0.v
  /\ buf0.v => buf1.pc = AddW(buf0.pc, 4) /\ next_fetch_pc = AddW(buf1.pc, 4)
  /\ ex1.valid  => ex0.valid  /\ ex1.pc  = AddW(ex0.pc, 4)
  /\ mem1.valid => mem0.valid /\ mem1.pc = AddW(mem0.pc, 4)
  /\ wb1.valid  => wb0.valid  /\ wb1.pc  = AddW(wb0.pc, 4)
  /\ Ex0Exc = "none" /\ ~RedirectValid =>
        NextBehind(ex0, IF ex1.valid THEN ex1.pc ELSE FrontPc) /\ NextBehind(ex1, FrontPc)
  /\ ~Excepting(mem0) =>
        NextBehind(mem0, IF mem1.valid THEN mem1.pc ELSE ExPc) /\ NextBehind(mem1, ExPc)
  /\ ~Excepting(wb0) =>
        NextBehind(wb0, IF wb1.valid THEN wb1.pc ELSE MemPc) /\ NextBehind(wb1, MemPc)

\* Only plain ALU operations are ever in lane 1, and only next to one in
\* lane 0 that they do not depend on (dual_issue_unit.sv).
Lane1Discipline ==
  /\ ex1.valid => /\ ~Special(ex0.ins) /\ ~Special(ex1.ins)
                  /\ ex0.ins.rd # 0 => ~Reads(ex1.ins, ex0.ins.rd) /\ ex1.ins.rd # ex0.ins.rd
  /\ mem1.valid => /\ ~Special(mem0.ins) /\ ~Special(mem1.ins)
                   /\ mem0.ins.rd # 0 => mem1.ins.rd # mem0.ins.rd
  /\ wb1.valid => /\ ~Special(wb0.ins) /\ ~Special(wb1.ins)
                  /\ wb0.ins.rd # 0 => wb1.ins.rd # wb0.ins.rd

\* The divider works for the instruction in EX and for no other: it is never
\* busy or done without its owner there, the operands it latched are still the
\* owner's, and when it is done its result is the owner's quotient.
DividerOwnership ==
  /\ ~(div.busy /\ div.done)
  /\ div.busy \/ div.done =>
        DivInEx /\ div.op = ex0.ins.fn /\ div.a = ex0.op1 /\ div.b = ex0.op2
  /\ div.done => div.result = DivY(ex0.ins.fn, ex0.op1, ex0.op2)
  /\ ex1.valid => ~DivInEx

-----------------------------------------------------------------------------
(* Operands: the forwarding network delivers what sequential execution would. *)

\* The register file as the instructions in WB and in MEM leave it.
Written(rf, l, value) ==
  [r \in Reg |-> IF Offers(l, r) /\ r # 0 THEN value ELSE rf[r]]

RegsAfterWb  == Written(Written(regs, wb0, wb0.value), wb1, wb1.value)
RegsAfterMem == Written(Written(RegsAfterWb, mem0, Mem0Value), mem1, mem1.result)

\* Whatever mix of stages produced them, the operands in EX are the registers
\* as every older instruction, and no younger one, leaves them.
OperandsInOrder ==
  \A l \in {ex0, ex1} : l.valid =>
    /\ Rs1Used(l.ins) => l.op1 = RegsAfterMem[l.ins.rs1]
    /\ Rs2Used(l.ins) => l.op2 = RegsAfterMem[l.ins.rs2]

-----------------------------------------------------------------------------
(* Implementation of RV32IM.  An instruction counts as executed when it has *)
(* left MEM: its store has been made and its value is in a WB latch.        *)

PcBar ==
  CASE halted -> trap.pc
    [] ~halted /\ Excepting(wb0) -> wb0.pc
    [] OTHER -> MemPc

TrapBar ==
  CASE halted -> trap.cause
    [] ~halted /\ Excepting(wb0) -> wb0.exc
    [] OTHER -> "none"

\* memory_model.sv ignores a store past the end and answers a load there with 0.
NoTail == [a \in Word \ DmemAddr |-> 0]

archBar ==
  [pc |-> PcBar, regs |-> RegsAfterWb, mem |-> dmem, tail |-> NoTail, trap |-> TrapBar]

\* The commit trace ports; run_rtl_regression.py looks at the memory fields of
\* a commit only when it writes memory.
CommitPorts(l, writesMem) ==
  LET rd_we == RdWrite(l.ins) /\ l.ins.rd # 0 IN
  [pc |-> l.pc, ins |-> l.ins,
   rd_we |-> rd_we,
   rd |-> IF rd_we THEN l.ins.rd ELSE 0,
   rd_value |-> IF rd_we THEN l.value ELSE 0,
   mem_write |-> writesMem,
   mem_addr |-> IF writesMem THEN l.addr ELSE 0,
   mem_data |-> IF writesMem THEN l.sdata ELSE 0]

traceBar ==
  (IF Commit0Valid THEN <<CommitPorts(wb0, IsStore(wb0.ins))>> ELSE <<>>)
    \o (IF Commit1Valid THEN <<CommitPorts(wb1, FALSE)>> ELSE <<>>)

ISA == INSTANCE RV32IM WITH arch <- archBar, trace <- traceBar

\* The core implements the ISA: what it commits, in order, with registers,
\* memory, program counter and trap, is what the reference model computes.  The
\* one thing the reference model is not held to is what its bytearray has past
\* the end once a store has been made there: up to a load of such a word the
\* two agree in everything, and a run whose stores stay inside never differs.
ImplementsRV32IM == ISA!Spec

-----------------------------------------------------------------------------
(* Action properties and progress. *)

\* Once the trap is in WB nothing architectural changes but the halt itself,
\* and a halted core stays as it is until it is reset.
QuietAfterTrap ==
  [][Excepting(wb0) \/ halted => Reset \/ (UNCHANGED <<regs, dmem>> /\ halted')]_vars

\* If the core is reset only finitely often, it keeps committing instructions
\* or it has halted: no stall, replay, redirect or divide blocks it for ever.
Committing == Commit0Valid
Progress == <>[][~Reset]_vars => []<>(Committing \/ halted)

=============================================================================
