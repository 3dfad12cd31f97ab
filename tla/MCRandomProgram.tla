-------------------------- MODULE MCRandomProgram ---------------------------
(* An instance of RandomProgram for TLC: the ends of the register ranges, and *)
(* enough iterations for every remainder the loop looks at.                   *)
EXTENDS RandomProgram

MCConstants == {{}, {0, 1, 2}, 7 .. 31}
=============================================================================
