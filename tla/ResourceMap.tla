---------------------------- MODULE ResourceMap ----------------------------
(***************************************************************************)
(* The allocator of usr/sys/sys/malloc.c as it manages coremap, and the    *)
(* swapper of slp.c that sleeps until mfree makes room.  A map is an array *)
(* of (m_size, m_addr) with increasing addresses, ended by a zero size;    *)
(* here it is the sequence of the entries before that one (malloc leaves a *)
(* stale m_addr behind in it, which mfree never lets decide anything).     *)
(* m_size is a signed short: startup gives the map at most 0x7fff units,   *)
(* and no entry ever describes more than that.                             *)
(***************************************************************************)
EXTENDS Integers, Sequences, FiniteSets, SequencesExt

CONSTANTS
  Base,    \* address of the first unit given to the map by startup
  Size,    \* number of units
  Sizes    \* sizes callers ask for

ASSUME SpaceAssumption == Base \in Nat \ {0} /\ Size \in 1..32767
ASSUME SizesAssumption == Sizes \subseteq Nat \ {0}

VARIABLES
  map,     \* the map
  segs,    \* the segments that processes and texts hold
  ret,     \* size and result of the last malloc
  want,    \* size of the process sched is to swap in, 0 if none
  runin,   \* runin # 0
  asleep   \* sched sleeps on &runin

vars == <<map, segs, ret, want, runin, asleep>>

Entry(a, n) == [addr |-> a, size |-> n]
End(e) == e.addr + e.size

(* startup frees the whole space into an empty map.                        *)
Init ==
  /\ map = <<Entry(Base, Size)>> /\ segs = {} /\ ret = <<0, 0>>
  /\ want = 0 /\ runin = FALSE /\ asleep = FALSE

----------------------------------------------------------------------------
(* malloc: the first entry that is large enough.                           *)
FirstFit(n) ==
  {i \in 1..Len(map) : map[i].size >= n /\ \A j \in 1..(i - 1) : map[j].size < n}

(* Take n units from the front of entry i, and the entry itself away when  *)
(* nothing is left of it.                                                  *)
Carve(i, n) ==
  IF map[i].size = n THEN RemoveAt(map, i)
  ELSE [map EXCEPT ![i] = Entry(@.addr + n, @.size - n)]

Malloc(n) ==
  \/ \E i \in FirstFit(n) :
       /\ map' = Carve(i, n)
       /\ segs' = segs \cup {Entry(map[i].addr, n)}
       /\ ret' = <<n, map[i].addr>>
  \/ /\ FirstFit(n) = {}
     /\ ret' = <<n, 0>>
     /\ UNCHANGED <<map, segs>>

(* The entry mfree stops at: the first whose address is beyond a.          *)
Above(a) ==
  CHOOSE i \in 1..(Len(map) + 1) :
    /\ \A j \in 1..(i - 1) : map[j].addr <= a
    /\ i <= Len(map) => map[i].addr > a

(* Mutants: joins the freed space with the entry before it but not with    *)
(* the one behind it as well; forgets to sort it in.                       *)
Give_OneSide(n, a) ==
  LET i == Above(a)
      before == i > 1 /\ End(map[i - 1]) = a
      behind == i <= Len(map) /\ a + n = map[i].addr
  IN  CASE before -> [map EXCEPT ![i - 1] = Entry(@.addr, @.size + n)]
        [] ~before /\ behind -> [map EXCEPT ![i] = Entry(a, @.size + n)]
        [] ~before /\ ~behind /\ n = 0 -> map
        [] ~before /\ ~behind /\ n # 0 -> InsertAt(map, i, Entry(a, n))

Give_Append(n, a) ==
  LET i == Above(a)
      before == i > 1 /\ End(map[i - 1]) = a
      behind == i <= Len(map) /\ a + n = map[i].addr
  IN  CASE before /\ behind ->
             RemoveAt([map EXCEPT ![i - 1] = Entry(@.addr, @.size + n + map[i].size)], i)
        [] before /\ ~behind -> [map EXCEPT ![i - 1] = Entry(@.addr, @.size + n)]
        [] ~before /\ behind -> [map EXCEPT ![i] = Entry(a, @.size + n)]
        [] ~before /\ ~behind /\ n = 0 -> map
        [] ~before /\ ~behind /\ n # 0 -> Append(map, Entry(a, n))

(* Sort n units at a into the map, combining on one or both ends.          *)
Give(n, a) ==
  LET i == Above(a)
      before == i > 1 /\ End(map[i - 1]) = a
      behind == i <= Len(map) /\ a + n = map[i].addr
  IN  IF before /\ behind
      THEN RemoveAt([map EXCEPT ![i - 1] = Entry(@.addr, @.size + n + map[i].size)], i)
      ELSE IF before THEN [map EXCEPT ![i - 1] = Entry(@.addr, @.size + n)]
      ELSE IF behind THEN [map EXCEPT ![i] = Entry(a, @.size + n)]
      ELSE IF n = 0 THEN map
      ELSE InsertAt(map, i, Entry(a, n))

(* Mutant: frees core without waking the scheduler.                        *)
Mfree_NoWakeup(n, a) == map' = Give(n, a) /\ UNCHANGED <<ret, want, runin, asleep>>

(* mfree(coremap, n, a) also wakes the scheduler.                          *)
Mfree(n, a) ==
  /\ map' = Give(n, a)
  /\ runin' = FALSE /\ asleep' = (asleep /\ ~runin)
  /\ UNCHANGED <<ret, want>>

----------------------------------------------------------------------------
(* The callers.  newproc, expand and xexpand allocate; exit, xccdec, xfree *)
(* and xswap free a segment, expand frees all but its first k units (none  *)
(* when the size stays the same).                                          *)
Allocate(n) == Malloc(n) /\ UNCHANGED <<want, runin, asleep>>

Free(s) == Mfree(s.size, s.addr) /\ segs' = segs \ {s}

Shrink(s, k) ==
  /\ Mfree(s.size - k, s.addr + k)
  /\ segs' = (segs \ {s}) \cup {Entry(s.addr, k)}

(* sched: a process of size n is ready and not in core.                    *)
SchedSelect(n) ==
  /\ want = 0
  /\ want' = n
  /\ UNCHANGED <<map, segs, ret, runin, asleep>>

(* sched tries to swap it in and sleeps on &runin if there is no core (it  *)
(* found nobody to swap out, or has done so already).                      *)
SchedSwapin ==
  /\ want # 0 /\ ~asleep
  /\ Malloc(want)
  /\ IF ret'[2] # 0 THEN want' = 0 /\ UNCHANGED <<runin, asleep>>
                    ELSE runin' = TRUE /\ asleep' = TRUE /\ UNCHANGED want

(* The clock, once a second, and sleep() at a low priority wake it too.    *)
Prod ==
  /\ runin
  /\ runin' = FALSE /\ asleep' = FALSE
  /\ UNCHANGED <<map, segs, ret, want>>

Next ==
  \/ \E n \in Sizes : Allocate(n) \/ SchedSelect(n)
  \/ \E s \in segs : Free(s) \/ \E k \in 1..s.size : Shrink(s, k)
  \/ SchedSwapin \/ Prod

Spec == Init /\ [][Next]_vars

----------------------------------------------------------------------------
(* Type invariant.                                                         *)
TypeOK ==
  /\ map \in Seq([addr : Nat, size : 1..Size])
  /\ segs \subseteq [addr : Nat, size : 1..Size]
  /\ ret \in (Nat \X Nat) /\ want \in Sizes \cup {0}
  /\ runin \in BOOLEAN /\ asleep \in BOOLEAN

(* malloc.c: "In a map, the addresses are increasing"; moreover two        *)
(* entries never touch: mfree has combined them, and malloc leaves none of *)
(* size 0, which would end the map.                                        *)
MapSorted == TypeOK /\ \A i \in 1..(Len(map) - 1) : End(map[i]) < map[i + 1].addr

(* A map never has more entries than there are segments in use, plus one:  *)
(* as mfree does not check for the end of coremap, this is what keeps it   *)
(* inside the array while fewer than CMAPSIZ - 1 segments are in use.      *)
HolesBounded == Len(map) <= Cardinality(segs) + 1

(* The scheduler never sleeps on while there is room for the process it    *)
(* wants to swap in: whatever sequence of mfree calls makes the room, one  *)
(* of them wakes it.                                                       *)
NoIdleRoom == asleep => runin /\ FirstFit(want) = {}

(* malloc fails only if no run of free units is long enough, takes the     *)
(* lowest, and no unit is ever handed out twice or lost.                   *)
Abstract == INSTANCE Arena WITH
  Units <- Base..(Base + Size - 1),
  freeUnits <- UNION {map[i].addr..(End(map[i]) - 1) : i \in 1..Len(map)}

ImplementsArena == Abstract!ASpec
=============================================================================
