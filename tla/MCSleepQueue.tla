---------------------------- MODULE MCSleepQueue ----------------------------
(* SleepQueue with three processes and two channels, whose bucket is or is *)
(* not that of &runout.                                                    *)
EXTENDS SleepQueue, TLC

CONSTANTS c1, c2

Apart == (c1 :> 1) @@ (c2 :> 1) @@ (Runout :> 2)
Together == (c1 :> 1) @@ (c2 :> 1) @@ (Runout :> 1)
Symmetry == Permutations(Procs)
=============================================================================
