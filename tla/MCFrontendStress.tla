-------------------------- MODULE MCFrontendStress --------------------------
(* Twelve instruction slots in the address space, ten of them in the        *)
(* program, every word of it different.                                     *)
EXTENDS FrontendStress

MCPrograms == {[a \in {4 * k : k \in 0 .. 9} |-> [Nop EXCEPT !.imm = a]]}
=============================================================================
