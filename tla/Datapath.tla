------------------------------ MODULE Datapath ------------------------------
(***************************************************************************)
(* The combinational units of the RTL, at any width: rtl/execute/alu.sv,   *)
(* rtl/branch/branch_unit.sv, rtl/mdu/mul_unit.sv and, in LoadStore,       *)
(* rtl/memory/load_store_unit.sv.  Operators for TLC; Core takes them as   *)
(* parameters.                                                             *)
(***************************************************************************)
EXTENDS LoadStore, Bitwise

LOCAL Flag(p) == IF p THEN 1 ELSE 0

AluSv(op, a, b) ==
  LET shamt == b % ShiftRange IN
  CASE op = "add"   -> Trunc(a + b)
    [] op = "sub"   -> Trunc(a - b)
    [] op = "sll"   -> Trunc(a * 2 ^ shamt)
    [] op = "slt"   -> Flag(Signed(a) < Signed(b))
    [] op = "sltu"  -> Flag(a < b)
    [] op = "xor"   -> a ^^ b
    [] op = "srl"   -> a \div 2 ^ shamt
    [] op = "sra"   -> Trunc(Signed(a) \div 2 ^ shamt)
    [] op = "or"    -> a | b
    [] op = "and"   -> a & b
    [] op = "copyb" -> b

BranchSv(op, a, b) ==
  CASE op = "eq"  -> a = b
    [] op = "ne"  -> a # b
    [] op = "lt"  -> Signed(a) < Signed(b)
    [] op = "ge"  -> Signed(a) >= Signed(b)
    [] op = "ltu" -> a < b
    [] op = "geu" -> a >= b

\* The low word or the high word of a product of 2 * Bits bits; MULHSU
\* extends a by its sign and b by a zero.
MulSv(op, a, b) ==
  LET high(p) == Trunc(p \div Size) IN
  CASE op = "mul"    -> Trunc(a * b)
    [] op = "mulh"   -> high(Signed(a) * Signed(b))
    [] op = "mulhsu" -> high(Signed(a) * b)
    [] op = "mulhu"  -> high(a * b)

=============================================================================
