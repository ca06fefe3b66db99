----------------------------- MODULE MCProgramBuild -----------------------------
(***************************************************************************)
(* Programs for the model checker: one of each origin and one that linking *)
(* creates.                                                                *)
(***************************************************************************)
EXTENDS ProgramBuild

CONSTANTS source, il, binary, result

\* A program that has a source, and one that has none.
SomeHeaders == {<<<<"h", source>>>>, <<<<"h", source>>, <<"h", il>>>>}
SomeInputs == {<<source>>, <<source, il>>}
================================================================================
