----------------------------- MODULE Processes -----------------------------
(***************************************************************************)
(* What fork, exit and wait promise about processes: a tree of the living, *)
(* in which the dead wait for their parent to hear of them.                *)
(***************************************************************************)
CONSTANTS Names, Root, Nobody

VARIABLES living, dead, parent

vars == <<living, dead, parent>>

Init == living = {Root} /\ dead = {} /\ parent = [n \in Names |-> Nobody]

Birth(p, c) ==
  /\ living' = living \cup {c} /\ dead' = dead
  /\ parent' = [parent EXCEPT ![c] = p]

(* The children of the dead, dead or alive, become children of the root.   *)
Death(p) ==
  /\ p # Root
  /\ living' = living \ {p} /\ dead' = dead \cup {p}
  /\ parent' = [n \in Names |-> IF parent[n] = p THEN Root ELSE parent[n]]

Burial(c) ==
  /\ parent[c] \in living
  /\ dead' = dead \ {c} /\ living' = living
  /\ parent' = [parent EXCEPT ![c] = Nobody]

Next ==
  \/ \E c \in Names \ (living \cup dead), p \in living : Birth(p, c)
  \/ \E p \in living : Death(p)
  \/ \E c \in dead : Burial(c)

Spec == Init /\ [][Next]_vars
=============================================================================
