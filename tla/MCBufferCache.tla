---------------------------- MODULE MCBufferCache ----------------------------
(* BufferCache with interchangeable processes, blocks and values.  Buffers  *)
(* are numbers: the lists and the scan of bflush tell them apart.           *)
EXTENDS BufferCache, TLC

Symmetry == Permutations(Procs) \cup Permutations(Blocks \ BadBlocks) \cup Permutations(Vals \ {Zero})
=============================================================================
