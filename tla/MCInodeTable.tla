---------------------------- MODULE MCInodeTable ----------------------------
EXTENDS InodeTable, TLC
Symmetry == Permutations(Procs) \cup Permutations(Names)
=============================================================================
