---------------------------- MODULE MCDataMemory ----------------------------
(* Words of eight bits, bytes of two; patterns whose bytes all differ.      *)
EXTENDS DataMemory

MCValues == {27, 130}     \* 0123 and 2002 in base 4
=============================================================================
