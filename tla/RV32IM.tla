------------------------------- MODULE RV32IM -------------------------------
(***************************************************************************)
(* The architecture: reference_model/rv32im_model.py, one instruction at a *)
(* time, and the list of commits it appends.  This is what the core        *)
(* promises, and what scripts/run_rtl_regression.py compares its commit    *)
(* trace with.                                                             *)
(*                                                                         *)
(* trace holds the commits of the last step: none, one, or two when two    *)
(* calls of step() fall together.                                          *)
(*                                                                         *)
(* self.mem is a bytearray that grows: _store assigns a slice, and past    *)
(* the end that appends the bytes at the end, at whatever address (line    *)
(* 65).  Its words inside the data memory are untouched by such a store;   *)
(* the words past the end are the field tail, all 0 until then (an empty   *)
(* slice reads as 0), and what they hold afterwards is left open here.     *)
(* DataMemory follows the bytes.                                           *)
(***************************************************************************)
EXTENDS RiscvPkg, Sequences

CONSTANTS
  ResetPc, Programs, DmemAddr,
  Alu(_, _, _), Mul(_, _, _), DivY(_, _, _), BranchTaken(_, _, _),
  LoadValue(_, _, _), StoreWord(_, _, _, _)

VARIABLES
  imem,      \* self.imem
  arch,      \* self.pc, self.regs, self.mem (mem and tail), self.trap
  trace      \* what the last step appended to self.commits

isaVars == <<imem, arch, trace>>

Fetch(a) == IF a \in DOMAIN imem THEN imem[a] ELSE Ebreak

-----------------------------------------------------------------------------
(* step(), as functions of the architectural state s. *)

InsAt(s) == Fetch(s.pc)
Rs1At(s) == s.regs[InsAt(s).rs1]
Rs2At(s) == s.regs[InsAt(s).rs2]
AddrAt(s) == AddW(Rs1At(s), InsAt(s).imm)

JumpsAt(s) ==
  LET i == InsAt(s) IN
  \/ i.cls \in {"jal", "jalr"}
  \/ i.cls = "branch" /\ ~i.ill /\ BranchTaken(i.fn, Rs1At(s), Rs2At(s))

TargetAt(s) ==
  IF InsAt(s).cls = "jalr" THEN ClearBit0(AddrAt(s)) ELSE AddW(s.pc, InsAt(s).imm)

\* The access size of a legal load or store.
SizeOf(fn) == CASE fn \in {"b", "bu"} -> 1 [] fn \in {"h", "hu"} -> 2 [] OTHER -> 4

\* The argument of the call of _trap, "none" if step() makes no such call.
CauseAt(s) ==
  LET i == InsAt(s) IN
  CASE i.ill                                       -> "illegal"
    [] ~i.ill /\ i.cls = "system"                  -> IF i.fn = "ebreak" THEN "breakpoint" ELSE "ecall"
    [] ~i.ill /\ JumpsAt(s) /\ TargetAt(s) % 4 # 0 -> "instr_misaligned"
    [] ~i.ill /\ i.cls = "load" /\ AddrAt(s) % SizeOf(i.fn) # 0  -> "load_misaligned"
    [] ~i.ill /\ i.cls = "store" /\ AddrAt(s) % SizeOf(i.fn) # 0 -> "store_misaligned"
    [] OTHER                                       -> "none"

Beyond == Word \ DmemAddr
MemWord(s, a) == IF a \in DmemAddr THEN s.mem[a] ELSE s.tail[a]

\* The slice of a store lies past the end.
StoresBeyond(s) == InsAt(s).cls = "store" /\ WordAddr(AddrAt(s)) \notin DmemAddr

\* The local variable value, for the opcodes that set it.
SetsValue(i) == i.cls \in {"lui", "auipc", "jal", "jalr", "load", "opimm", "op", "mul", "div"}
ValueAt(s) ==
  LET i == InsAt(s) IN
  CASE i.cls = "lui"             -> Alu("copyb", 0, i.imm)
    [] i.cls = "auipc"           -> Alu("add", s.pc, i.imm)
    [] i.cls \in {"jal", "jalr"} -> AddW(s.pc, 4)
    [] i.cls = "load"            -> LoadValue(i.fn, AddrAt(s), MemWord(s, WordAddr(AddrAt(s))))
    [] i.cls = "opimm"           -> Alu(i.fn, Rs1At(s), i.imm)
    [] i.cls = "op"              -> Alu(i.fn, Rs1At(s), Rs2At(s))
    [] i.cls = "mul"             -> Mul(i.fn, Rs1At(s), Rs2At(s))
    [] i.cls = "div"             -> DivY(i.fn, Rs1At(s), Rs2At(s))
    [] OTHER                     -> 0

WritesRd(i) == SetsValue(i) /\ i.rd # 0

\* The state a step that does not trap leads to, and its Commit record; a store
\* past the end leaves the words there as tail.
After(s, tail) ==
  LET i == InsAt(s) IN
  [pc   |-> IF JumpsAt(s) THEN TargetAt(s) ELSE AddW(s.pc, 4),
   regs |-> [r \in Reg |-> IF WritesRd(i) /\ r = i.rd THEN ValueAt(s) ELSE s.regs[r]],
   mem  |-> [a \in DmemAddr |->
               IF i.cls = "store" /\ a = WordAddr(AddrAt(s))
               THEN StoreWord(i.fn, AddrAt(s), s.mem[a], Rs2At(s)) ELSE s.mem[a]],
   tail |-> IF StoresBeyond(s) THEN tail ELSE s.tail,
   trap |-> "none"]

CommitAt(s) ==
  LET i == InsAt(s) IN
  [pc |-> s.pc, ins |-> i,
   rd_we |-> WritesRd(i),
   rd |-> IF WritesRd(i) THEN i.rd ELSE 0,
   rd_value |-> IF WritesRd(i) THEN ValueAt(s) ELSE 0,
   mem_write |-> i.cls = "store",
   mem_addr |-> IF i.cls = "store" THEN AddrAt(s) ELSE 0,
   mem_data |-> IF i.cls = "store" THEN Rs2At(s) ELSE 0]

Runs(s) == s.trap = "none" /\ CauseAt(s) = "none"

-----------------------------------------------------------------------------
InitialArch(m, tail) ==
  [pc |-> ResetPc, regs |-> [r \in Reg |-> 0], mem |-> m, tail |-> tail, trap |-> "none"]

Init ==
  /\ imem \in Programs
  /\ arch = InitialArch([a \in DmemAddr |-> 0], [a \in Beyond |-> 0])
  /\ trace = <<>>

\* No instruction completes.
Wait == UNCHANGED <<imem, arch>> /\ trace' = <<>>

Retire ==
  /\ Runs(arch)
  /\ arch'.tail \in [Beyond -> Word]
  /\ arch' = After(arch, arch'.tail)
  /\ trace' = <<CommitAt(arch)>>
  /\ UNCHANGED imem

\* One choice of the open words serves both steps: the core never pairs a store.
RetireTwo ==
  /\ arch'.tail \in [Beyond -> Word]
  /\ LET first == After(arch, arch'.tail) IN
       /\ Runs(arch) /\ Runs(first)
       /\ arch' = After(first, arch'.tail)
       /\ trace' = <<CommitAt(arch), CommitAt(first)>>
  /\ UNCHANGED imem

\* step() traps: nothing is written, the program counter stays, nothing follows.
Trap ==
  /\ arch.trap = "none" /\ CauseAt(arch) # "none"
  /\ arch' = [arch EXCEPT !.trap = CauseAt(arch)]
  /\ trace' = <<>>
  /\ UNCHANGED imem

\* The core is reset; the data memory is not.
Restart ==
  /\ arch' = InitialArch(arch.mem, arch.tail)
  /\ trace' = <<>>
  /\ UNCHANGED imem

Next == Wait \/ Retire \/ RetireTwo \/ Trap \/ Restart

Spec == Init /\ [][Next]_isaVars

=============================================================================
