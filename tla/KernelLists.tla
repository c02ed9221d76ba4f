---------------------------- MODULE KernelLists ----------------------------
(***************************************************************************)
(* The kernel's linked lists are sequences of distinct elements.           *)
(***************************************************************************)
EXTENDS Naturals, Sequences, SequencesExt

(* The list l after the element e that is on it has been unlinked.         *)
Unlink(l, e) == RemoveAt(l, CHOOSE i \in DOMAIN l : l[i] = e)
=============================================================================
