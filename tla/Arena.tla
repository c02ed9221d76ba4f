------------------------------- MODULE Arena -------------------------------
(***************************************************************************)
(* What malloc and mfree promise: a space of units, each of them free or   *)
(* part of exactly one segment somebody holds.  malloc takes the lowest    *)
(* run of free units that is long enough, and fails only if there is none. *)
(***************************************************************************)
EXTENDS Naturals

CONSTANTS Units, Sizes

VARIABLES
  freeUnits,  \* the units nobody holds
  segs,       \* the segments held, [addr, size]
  ret         \* the size asked for and the result of the last malloc, <<n, a>>

UnitsOf(a, n) == a..(a + n - 1)

Fits(n) == {a \in freeUnits : UnitsOf(a, n) \subseteq freeUnits}

AInit == freeUnits = Units /\ segs = {} /\ ret = <<0, 0>>

Take(n) ==
  \E a \in Fits(n) :
    /\ \A x \in Fits(n) : a <= x
    /\ freeUnits' = freeUnits \ UnitsOf(a, n)
    /\ segs' = segs \cup {[addr |-> a, size |-> n]}
    /\ ret' = <<n, a>>

NoRoom(n) == Fits(n) = {} /\ ret' = <<n, 0>> /\ UNCHANGED <<freeUnits, segs>>

(* Give back all of a segment but its first k units.                       *)
GiveBack(s, k) ==
  /\ freeUnits' = freeUnits \cup UnitsOf(s.addr + k, s.size - k)
  /\ segs' = (segs \ {s}) \cup (IF k = 0 THEN {} ELSE {[s EXCEPT !.size = k]})
  /\ UNCHANGED ret

ANext ==
  \/ \E n \in Sizes : Take(n) \/ NoRoom(n)
  \/ \E s \in segs : \E k \in 0..(s.size - 1) : GiveBack(s, k)

ASpec == AInit /\ [][ANext]_<<freeUnits, segs, ret>>
=============================================================================
