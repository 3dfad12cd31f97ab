------------------------------- MODULE Width --------------------------------
(* The width of the datapath, and two's complement at that width. *)
EXTENDS Integers

CONSTANTS
  Bits,         \* width of a word, 32 in the RTL
  ByteBits,     \* width of a byte, 8 in the RTL; the fourth byte of a word
                \* takes what is left
  ShiftRange    \* shift amounts are taken modulo this, 32 in the RTL (b[4:0])

ASSUME WidthAssumption ==
  /\ Bits \in Nat /\ ByteBits \in Nat \ {0} /\ 4 * ByteBits <= Bits
  /\ ShiftRange \in Nat \ {0}

Size      == 2 ^ Bits
Trunc(x)  == x % Size                                        \* u32
Signed(x) == IF x >= Size \div 2 THEN x - Size ELSE x         \* $signed, s32

=============================================================================
