----------------------------- MODULE MCDivUnit ------------------------------
(* Words of four bits, two quotient bits per clock.                         *)
EXTENDS DivAlgorithm

=============================================================================
