----------------------------- MODULE MCProcLife -----------------------------
(* ProcLife with interchangeable entries of proc[] other than init's.      *)
EXTENDS ProcLife, TLC

Symmetry == Permutations(Slots \ {InitProc})
=============================================================================
