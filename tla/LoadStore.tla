----------------------------- MODULE LoadStore ------------------------------
(***************************************************************************)
(* rtl/memory/load_store_unit.sv, at any width: the value a load makes of  *)
(* the word it reads, and the byte lanes and the data of a store.          *)
(***************************************************************************)
EXTENDS Width

\* Byte lane l of word w.
Lane(w, l) ==
  IF l = 3 THEN w \div 2 ^ (3 * ByteBits) ELSE (w \div 2 ^ (ByteBits * l)) % 2 ^ ByteBits

Extend(v, width, unsigned) ==
  IF ~unsigned /\ v >= 2 ^ (width - 1) THEN v + Size - 2 ^ width ELSE v

\* load_value: dmem_rdata is shifted by the byte offset for bytes and halves alike.
LoadSv(op, addr, rdata) ==
  LET shifted == rdata \div 2 ^ (ByteBits * (addr % 4))
      byteV == shifted % 2 ^ ByteBits
      halfV == shifted % 2 ^ (2 * ByteBits)
  IN CASE op = "b"  -> Extend(byteV, ByteBits, FALSE)
       [] op = "bu" -> Extend(byteV, ByteBits, TRUE)
       [] op = "h"  -> Extend(halfV, 2 * ByteBits, FALSE)
       [] op = "hu" -> Extend(halfV, 2 * ByteBits, TRUE)
       [] op = "w"  -> rdata

\* Mutant of StoreLanes: a half in the upper lanes enables the lower ones.
StoreLanesLow(op, addr) ==
  CASE op \in {"b", "bu"} -> {addr % 4}
    [] op \in {"h", "hu"} -> {0, 1}
    [] op = "w"           -> 0 .. 3
\* store_be and store_wdata
StoreLanes(op, addr) ==
  CASE op \in {"b", "bu"} -> {addr % 4}
    [] op \in {"h", "hu"} -> LET l == 2 * ((addr % 4) \div 2) IN {l, l + 1}
    [] op = "w"           -> 0 .. 3

StoreData(op, addr, raw) ==
  CASE op \in {"b", "bu"} -> Trunc(raw * 2 ^ (ByteBits * (addr % 4)))
    [] op \in {"h", "hu"} -> Trunc(raw * 2 ^ (2 * ByteBits * ((addr % 4) \div 2)))
    [] op = "w"           -> raw

\* The word in memory after the lanes that store_be enables are written.
StoreSv(op, addr, old, raw) ==
  LET lane(l) == Lane(IF l \in StoreLanes(op, addr) THEN StoreData(op, addr, raw) ELSE old, l)
                   * 2 ^ (ByteBits * l)
  IN lane(0) + lane(1) + lane(2) + lane(3)

=============================================================================
