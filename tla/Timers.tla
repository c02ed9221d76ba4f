------------------------------- MODULE Timers -------------------------------
(***************************************************************************)
(* What timeout() promises: a call asked for with a delay of t ticks runs  *)
(* in the t-th clock interrupt from then (in the next one if t is 0), and  *)
(* every call that is due has run before the interrupt ends.               *)
(***************************************************************************)
EXTENDS Naturals

CONSTANTS Calls, Delays, NotPending

VARIABLES
  left,     \* ticks until each call is due, or NotPending
  running   \* the clock interrupt is running calls

TInit == left = [c \in Calls |-> NotPending] /\ running = FALSE

Ask(c, t) ==
  /\ left[c] = NotPending
  /\ left' = [left EXCEPT ![c] = t]
  /\ UNCHANGED running

DueNow == {c \in Calls : left[c] = 0}

Tick ==
  /\ ~running
  /\ left' = [c \in Calls |-> IF left[c] \in {NotPending, 0} THEN left[c] ELSE left[c] - 1]
  /\ running' = (\E c \in Calls : left'[c] = 0)

Fire(c) ==
  /\ running /\ c \in DueNow
  /\ left' = [left EXCEPT ![c] = NotPending]
  /\ UNCHANGED running

EndOfTick == running /\ DueNow = {} /\ running' = FALSE /\ UNCHANGED left

TNext == Tick \/ EndOfTick \/ \E c \in Calls : Fire(c) \/ \E t \in Delays : Ask(c, t)

TSpec == TInit /\ [][TNext]_<<left, running>>
=============================================================================
