----------------------------- MODULE BlockStore -----------------------------
(***************************************************************************)
(* What the buffer cache promises its callers: every block is a variable,  *)
(* a caller that has been given a block has it to itself and sees what was *)
(* last written to it, and only the caller that has a block can change it. *)
(* The blocks of Lossy may also lose a write to an I/O error, but never    *)
(* while somebody has them.                                                *)
(***************************************************************************)
CONSTANTS
  Procs, Blocks, Vals, Nil,
  Lossy       \* blocks on which a write can fail

VARIABLES
  store,      \* the contents of each block
  view        \* view[p]: <<block, contents>> given to p, or Nil; the
              \* contents are Nil when p asked for the block without reading it

bvars == <<store, view>>

Has(p, x) == view[p] # Nil /\ view[p][1] = x

BInit == store \in [Blocks -> Vals] /\ view = [p \in Procs |-> Nil]

Acquire(p, x, c) ==
  /\ view[p] = Nil /\ c \in {store[x], Nil}
  /\ \A q \in Procs : ~Has(q, x)
  /\ view' = [view EXCEPT ![p] = <<x, c>>]
  /\ UNCHANGED store

Put(p, x, v) ==
  /\ Has(p, x)
  /\ store' = [store EXCEPT ![x] = v]
  /\ view' = [view EXCEPT ![p] = Nil]

GiveBack(p) == view[p] # Nil /\ view' = [view EXCEPT ![p] = Nil] /\ UNCHANGED store

Lose(x, v) ==
  /\ x \in Lossy /\ \A q \in Procs : ~Has(q, x)
  /\ store' = [store EXCEPT ![x] = v]
  /\ UNCHANGED view

(* Most steps of the cache change nothing a caller sees.                  *)
BNext ==
  \/ UNCHANGED bvars
  \/ \E p \in Procs, x \in Blocks, c \in Vals \cup {Nil} : Acquire(p, x, c)
  \/ \E p \in Procs, x \in Blocks, v \in Vals : Put(p, x, v)
  \/ \E p \in Procs : GiveBack(p)
  \/ \E x \in Blocks, v \in Vals : Lose(x, v)

BSpec == BInit /\ [][BNext]_bvars
=============================================================================
