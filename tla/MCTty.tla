------------------------------- MODULE MCTty -------------------------------
(* Tty with interchangeable processes.                                     *)
EXTENDS Tty, TLC

Symmetry == Permutations(Readers) \cup Permutations(Writers)
=============================================================================
