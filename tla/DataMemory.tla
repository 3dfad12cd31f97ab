----------------------------- MODULE DataMemory -----------------------------
(***************************************************************************)
(* The two data memories that a regression run compares: the byte array of *)
(* tb/memory/memory_model.sv behind rtl/memory/load_store_unit.sv, and the *)
(* bytearray of reference_model/rv32im_model.py.  Both execute the same    *)
(* aligned stores; every load must then return the same from both.         *)
(***************************************************************************)
EXTENDS LoadStore, Sequences

CONSTANTS
  DmemBytes,   \* DMEM_BYTES, and mem_size of the Python model
  Addresses,   \* the addresses of the stores
  Values,      \* the stored values
  MaxBytes     \* bound: stores stop when the bytearray is longer than this

ASSUME MemoryAssumption ==
  /\ DmemBytes \in Nat /\ DmemBytes % 4 = 0 /\ MaxBytes >= DmemBytes
  /\ Addresses \subseteq Nat /\ Values \subseteq 0 .. Size - 1

VARIABLES
  dmem,   \* memory_model.dmem, a function from byte addresses
  mem     \* RV32IM.mem, a bytearray: mem[i + 1] is its byte i

memVars == <<dmem, mem>>

StoreOp == {"b", "h", "w"}
LoadOp  == StoreOp \cup {"bu", "hu"}

SizeOf(op) == CASE op \in {"b", "bu"} -> 1 [] op \in {"h", "hu"} -> 2 [] op = "w" -> 4

\* Value of at most four bytes, least significant first; the fourth may be wider.
FromBytes(s) ==
  LET byte(n) == IF n <= Len(s) THEN s[n] * 2 ^ (ByteBits * (n - 1)) ELSE 0
  IN byte(1) + byte(2) + byte(3) + byte(4)

-----------------------------------------------------------------------------
(* memory_model.sv *)

InRange(base) == base + 3 < DmemBytes

ReadWord(base) ==
  IF InRange(base) THEN FromBytes([l \in 1 .. 4 |-> dmem[base + l - 1]]) ELSE 0

\* Mutant of WriteLanes: the data is not moved to the enabled lanes.
WriteLanesRaw(op, addr, value) ==
  LET base == addr - (addr % 4) IN
  dmem' = [i \in DOMAIN dmem |->
             IF InRange(base) /\ i - base \in StoreLanes(op, addr)
             THEN Lane(value, i - base) ELSE dmem[i]]

WriteLanes(op, addr, value) ==
  LET base == addr - (addr % 4) IN
  dmem' = [i \in DOMAIN dmem |->
             IF InRange(base) /\ i - base \in StoreLanes(op, addr)
             THEN Lane(StoreData(op, addr, value), i - base)
             ELSE dmem[i]]

LoadRtl(op, addr) == LoadSv(op, addr, ReadWord(addr - (addr % 4)))

-----------------------------------------------------------------------------
(* _load and _store.  A slice of a bytearray is cut off at its end, and a   *)
(* slice assignment beyond the end appends.                                 *)

Cut(i) == IF i < Len(mem) THEN i ELSE Len(mem)

LoadPy(op, addr) ==
  LET raw == FromBytes(SubSeq(mem, addr + 1, Cut(addr + SizeOf(op)))) IN
  IF op = "w" THEN raw ELSE Extend(raw, SizeOf(op) * ByteBits, op \in {"bu", "hu"})

StorePy(op, addr, value) ==
  mem' = SubSeq(mem, 1, Cut(addr))
           \o [l \in 1 .. SizeOf(op) |-> Lane(value, l - 1)]
           \o SubSeq(mem, Cut(addr + SizeOf(op)) + 1, Len(mem))

-----------------------------------------------------------------------------
MemInit ==
  /\ dmem = [i \in 0 .. DmemBytes - 1 |-> 0]
  /\ mem = [i \in 1 .. DmemBytes |-> 0]

\* The store of an instruction that does not trap for misalignment.
Store(op, addr, value) ==
  /\ Len(mem) <= MaxBytes
  /\ addr % SizeOf(op) = 0
  /\ WriteLanes(op, addr, value)
  /\ StorePy(op, addr, value)

MemNext == \E op \in StoreOp, addr \in Addresses, value \in Values : Store(op, addr, value)

MemSpec == MemInit /\ [][MemNext]_memVars

-----------------------------------------------------------------------------
\* The byte lanes, shifts and sign extension of the load/store unit make the
\* memory behave as the reference model's array of bytes: every aligned load
\* returns the same from both (verification_plan.md: every commit of the RTL is
\* checked against the reference model).
LoadsAgree ==
  \A op \in LoadOp, addr \in Addresses :
    addr % SizeOf(op) = 0 => LoadRtl(op, addr) = LoadPy(op, addr)

\* A store changes the one word it addresses, to what Core's StoreWord says.
StoresAreWordMerges ==
  [][\E op \in StoreOp, addr \in Addresses, value \in Values :
       /\ addr % SizeOf(op) = 0
       /\ \A base \in {i \in DOMAIN dmem : i % 4 = 0} :
            ReadWord(base)' =
              IF base = addr - (addr % 4) THEN StoreSv(op, addr, ReadWord(base), value)
                                          ELSE ReadWord(base)]_memVars

=============================================================================
