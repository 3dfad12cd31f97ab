---------------------------- MODULE MCCheckFlow -----------------------------
(* A full machine and one that has no EDA tool but a Yosys without Slang; two  *)
(* commands and one fault each.                                                *)
EXTENDS CheckFlow

MCToolSets ==
    LET full == {"verilator", "verilator_coverage", "iverilog", "vvp", "yosys", "slang", "sta"}
    IN {full, {"yosys"}}
=============================================================================
