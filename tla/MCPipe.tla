------------------------------- MODULE MCPipe -------------------------------
(* Pipe with short messages of distinguishable bytes and interchangeable   *)
(* processes.                                                              *)
EXTENDS Pipe, TLC

\* A write that takes two pieces; nothing, and one that takes two pieces of
\* a pipe for one byte.
LongMsgs == {<<"a", "b", "c">>}
ShortMsgs == {<<>>, <<"a", "b">>}
Symmetry == Permutations(Procs)
=============================================================================
