---------------------------- MODULE TableProofs ----------------------------
(***************************************************************************)
(* Proofs about the two tables the kernel keeps in order by moving their   *)
(* entries: the resource maps of ResourceMap, and the time-outs of         *)
(* Callout.                                                                *)
(*                                                                         *)
(* For every space and every request, a map stays sorted with its holes    *)
(* apart, no unit is held twice or lost, the number of entries is bounded  *)
(* by the number of segments in use, the scheduler does not sleep through  *)
(* the mfree it waits for, and malloc and mfree do what Arena promises.    *)
(* For every table size and every delay, a call runs in exactly the tick   *)
(* it was asked for, as Timers promises.                                   *)
(***************************************************************************)
EXTENDS ResourceMap, Callout, FiniteSetTheorems, SequenceTheorems, WellFoundedInduction, TLAPS

Span == [addr : Nat, size : Nat \ {0}]
UnitsOf(a, n) == a..(a + n - 1)

(* A map in good order: no entry touches a later one.                      *)
InOrder(m) ==
  /\ m \in Seq(Span)
  /\ \A i, j \in 1..Len(m) : i < j => End(m[i]) < m[j].addr

(* The units a map describes, and those of the segments in use.            *)
Cover(m) == UNION {m[i].addr..(End(m[i]) - 1) : i \in 1..Len(m)}
Held == UNION {UnitsOf(s.addr, s.size) : s \in segs}
Space == Base..(Base + Size - 1)

----------------------------------------------------------------------------
(* What malloc and mfree do to a map.                                      *)

(* Every set of numbers that is not empty has a least element.             *)
LEMMA Least ==
  ASSUME NEW T, T \subseteq Nat, T # {}
  PROVE  \E x \in T : \A y \in T : x <= y
<1>1. PICK x \in T : \A y \in T : <<y, x>> \notin OpToRel(<, Nat)
  BY WFMin, NatLessThanWellFounded, Zenon
<1>2. \A y \in T : ~(y < x) BY <1>1 DEF OpToRel
<1> QED BY <1>2

(* The fields of the entries of a map in order.                            *)
LEMMA EntryFacts ==
  ASSUME NEW m, InOrder(m), NEW i \in 1..Len(m)
  PROVE  /\ m[i] \in Span /\ m[i].addr \in Nat /\ m[i].size \in Nat /\ m[i].size > 0
         /\ End(m[i]) \in Nat /\ m[i].addr < End(m[i])
         /\ End(m[i]) = m[i].addr + m[i].size
<1>1. m[i] \in Span BY DEF InOrder
<1>2. m[i].addr \in Nat /\ m[i].size \in Nat /\ m[i].size > 0 BY <1>1 DEF Span
<1> QED BY <1>1, <1>2 DEF End

(* A unit is in the map when an entry spans it.                            *)
LEMMA InCover ==
  ASSUME NEW m, InOrder(m)
  PROVE  \A x : x \in Cover(m) <=>
           x \in Nat /\ \E i \in 1..Len(m) : m[i].addr <= x /\ x < End(m[i])
<1>1. \A i \in 1..Len(m) : m[i].addr \in Nat /\ End(m[i]) \in Nat BY EntryFacts
<1> QED BY <1>1 DEF Cover

(* The unit behind an entry is not free: the next entry does not touch.    *)
LEMMA EndNotFree ==
  ASSUME NEW m, InOrder(m), NEW i \in 1..Len(m)
  PROVE  End(m[i]) \notin Cover(m)
<1> SUFFICES ASSUME NEW j \in 1..Len(m), m[j].addr <= End(m[i]), End(m[i]) < End(m[j]) PROVE FALSE
  BY InCover
<1>1. /\ m[i].addr \in Nat /\ m[j].addr \in Nat /\ End(m[i]) \in Nat /\ End(m[j]) \in Nat
      /\ m[i].addr < End(m[i]) /\ m[j].addr < End(m[j])
  BY EntryFacts
<1>2. \/ i = j
      \/ i < j /\ End(m[i]) < m[j].addr
      \/ j < i /\ End(m[j]) < m[i].addr
  BY DEF InOrder
<1> QED BY <1>1, <1>2

(* A run of free units lies within one entry.                              *)
LEMMA RunInEntry ==
  ASSUME NEW m, InOrder(m), NEW a \in Nat, NEW n \in Nat \ {0}, UnitsOf(a, n) \subseteq Cover(m)
  PROVE  \E i \in 1..Len(m) : m[i].addr <= a /\ a + n <= End(m[i]) /\ m[i].size >= n
<1>1. a \in UnitsOf(a, n) BY DEF UnitsOf
<1>2. PICK i \in 1..Len(m) : m[i].addr <= a /\ a < End(m[i]) BY <1>1, InCover
<1>3. /\ m[i].addr \in Nat /\ m[i].size \in Nat /\ End(m[i]) \in Nat
      /\ End(m[i]) = m[i].addr + m[i].size
  BY EntryFacts
<1>4. ~(End(m[i]) < a + n)
  <2> SUFFICES ASSUME End(m[i]) < a + n PROVE FALSE OBVIOUS
  <2>1. End(m[i]) \in UnitsOf(a, n) BY <1>2, <1>3 DEF UnitsOf
  <2> QED BY <2>1, EndNotFree
<1> QED BY <1>2, <1>3, <1>4

(* The units of an entry are free.                                         *)
LEMMA EntryFree ==
  ASSUME NEW m, InOrder(m), NEW i \in 1..Len(m), NEW n \in Nat, n <= m[i].size
  PROVE  UnitsOf(m[i].addr, n) \subseteq Cover(m)
<1>1. m[i].addr \in Nat /\ m[i].size \in Nat /\ End(m[i]) = m[i].addr + m[i].size BY EntryFacts
<1> SUFFICES ASSUME NEW x \in UnitsOf(m[i].addr, n) PROVE x \in Cover(m) OBVIOUS
<1>2. x \in Nat /\ m[i].addr <= x /\ x < End(m[i]) BY <1>1 DEF UnitsOf
<1> QED BY <1>2, InCover

(* What taking an entry away does to a map.                                *)
LEMMA RemoveFacts ==
  ASSUME NEW m \in Seq(Span), NEW i \in 1..Len(m)
  PROVE  /\ RemoveAt(m, i) \in Seq(Span)
         /\ Len(RemoveAt(m, i)) = Len(m) - 1
         /\ \A j \in 1..(i - 1) : RemoveAt(m, i)[j] = m[j]
         /\ \A j \in i..(Len(m) - 1) : RemoveAt(m, i)[j] = m[j + 1]
<1> DEFINE u == SubSeq(m, 1, i - 1)
           v == SubSeq(m, i + 1, Len(m))
<1>1. \A j \in 1..Len(m) : m[j] \in Span OBVIOUS
<1>2. u \in Seq(Span) /\ Len(u) = i - 1 /\ \A j \in 1..(i - 1) : u[j] = m[j]
  <2>1. \A j \in 1..(i - 1) : m[j] \in Span BY <1>1
  <2> QED BY <2>1, SubSeqProperties
<1>3. v \in Seq(Span) /\ Len(v) = Len(m) - i /\ \A j \in 1..(Len(m) - i) : v[j] = m[i + j]
  <2>1. \A j \in (i + 1)..Len(m) : m[j] \in Span BY <1>1
  <2>2. /\ v \in Seq(Span) /\ Len(v) = IF i + 1 <= Len(m) THEN Len(m) - (i + 1) + 1 ELSE 0
        /\ \A j \in 1..(Len(m) - (i + 1) + 1) : v[j] = m[(i + 1) + j - 1]
    BY <2>1, SubSeqProperties
  <2> QED BY <2>2
<1> HIDE DEF u, v
<1>4. /\ u \o v \in Seq(Span) /\ Len(u \o v) = Len(m) - 1
      /\ \A j \in 1..(Len(m) - 1) : (u \o v)[j] = IF j <= i - 1 THEN u[j] ELSE v[j - (i - 1)]
  <2>1. /\ u \o v \in Seq(Span) /\ Len(u \o v) = Len(u) + Len(v)
        /\ \A j \in 1..Len(u) + Len(v) : (u \o v)[j] = IF j <= Len(u) THEN u[j] ELSE v[j - Len(u)]
    BY <1>2, <1>3, ConcatProperties
  <2>2. Len(u) = i - 1 /\ Len(u) + Len(v) = Len(m) - 1 BY <1>2, <1>3
  <2> QED BY <2>1, <2>2
<1>5. \A j \in 1..(i - 1) : (u \o v)[j] = m[j] BY <1>2, <1>4
<1>6. \A j \in i..(Len(m) - 1) : (u \o v)[j] = m[j + 1]
  <2> SUFFICES ASSUME NEW j \in i..(Len(m) - 1) PROVE (u \o v)[j] = m[j + 1] OBVIOUS
  <2>1. (u \o v)[j] = v[j - (i - 1)] BY <1>4
  <2>2. j - (i - 1) \in 1..(Len(m) - i) /\ i + (j - (i - 1)) = j + 1 OBVIOUS
  <2> QED BY <1>3, <2>1, <2>2
<1> QED BY <1>4, <1>5, <1>6 DEF RemoveAt, u, v

(* Putting one in, for entries of any kind.                                *)
LEMMA InsertFacts ==
  ASSUME NEW S, NEW m \in Seq(S), NEW i \in 1..(Len(m) + 1), NEW e \in S
  PROVE  /\ InsertAt(m, i, e) \in Seq(S)
         /\ Len(InsertAt(m, i, e)) = Len(m) + 1
         /\ \A j \in 1..(i - 1) : InsertAt(m, i, e)[j] = m[j]
         /\ InsertAt(m, i, e)[i] = e
         /\ \A j \in (i + 1)..(Len(m) + 1) : InsertAt(m, i, e)[j] = m[j - 1]
<1> DEFINE u == SubSeq(m, 1, i - 1)
           w == u \o <<e>>
           v == SubSeq(m, i, Len(m))
<1>1. \A j \in 1..Len(m) : m[j] \in S OBVIOUS
<1>2. u \in Seq(S) /\ Len(u) = i - 1 /\ \A j \in 1..(i - 1) : u[j] = m[j]
  <2>1. \A j \in 1..(i - 1) : m[j] \in S BY <1>1
  <2> QED BY <2>1, SubSeqProperties
<1>3. v \in Seq(S) /\ Len(v) = Len(m) - i + 1 /\ \A j \in 1..(Len(m) - i + 1) : v[j] = m[i + j - 1]
  <2>1. \A j \in i..Len(m) : m[j] \in S BY <1>1
  <2> QED BY <2>1, SubSeqProperties
<1> HIDE DEF u, v
<1>4. /\ w \in Seq(S) /\ Len(w) = i
      /\ \A j \in 1..(i - 1) : w[j] = u[j]
      /\ w[i] = e
  <2>1. <<e>> \in Seq(S) /\ Len(<<e>>) = 1 /\ <<e>>[1] = e OBVIOUS
  <2>2. \A j \in 1..Len(u) + Len(<<e>>) : w[j] = IF j <= Len(u) THEN u[j] ELSE <<e>>[j - Len(u)]
    BY <1>2, <2>1, ConcatProperties
  <2>3. w \in Seq(S) /\ Len(w) = Len(u) + Len(<<e>>) BY <1>2, <2>1, ConcatProperties
  <2> HIDE DEF w
  <2> QED BY <1>2, <2>1, <2>2, <2>3
<1> HIDE DEF w
<1>5. /\ w \o v \in Seq(S) /\ Len(w \o v) = Len(m) + 1
      /\ \A j \in 1..(Len(m) + 1) : (w \o v)[j] = IF j <= i THEN w[j] ELSE v[j - i]
  <2>1. Len(w) + Len(v) = Len(m) + 1 BY <1>3, <1>4
  <2> QED BY <1>3, <1>4, <2>1, ConcatProperties
<1>6. \A j \in 1..(i - 1) : (w \o v)[j] = m[j] BY <1>2, <1>4, <1>5
<1>7. (w \o v)[i] = e BY <1>4, <1>5
<1>8. \A j \in (i + 1)..(Len(m) + 1) : (w \o v)[j] = m[j - 1]
  <2> SUFFICES ASSUME NEW j \in (i + 1)..(Len(m) + 1) PROVE (w \o v)[j] = m[j - 1] OBVIOUS
  <2>1. (w \o v)[j] = v[j - i] BY <1>5
  <2>2. j - i \in 1..(Len(m) - i + 1) /\ i + (j - i) - 1 = j - 1 OBVIOUS
  <2> QED BY <1>3, <2>1, <2>2
<1> QED BY <1>5, <1>6, <1>7, <1>8 DEF InsertAt, u, v, w


(* Putting one in, for the entries of a map.                               *)
LEMMA InsertSpan ==
  ASSUME NEW m \in Seq(Span), NEW i \in 1..(Len(m) + 1), NEW e \in Span
  PROVE  /\ InsertAt(m, i, e) \in Seq(Span)
         /\ Len(InsertAt(m, i, e)) = Len(m) + 1
         /\ \A j \in 1..(i - 1) : InsertAt(m, i, e)[j] = m[j]
         /\ InsertAt(m, i, e)[i] = e
         /\ \A j \in (i + 1)..(Len(m) + 1) : InsertAt(m, i, e)[j] = m[j - 1]
BY InsertFacts

----------------------------------------------------------------------------
(* malloc takes the first entry that is large enough, and finds one if     *)
(* there is any.                                                           *)
LEMMA FirstFitFound ==
  ASSUME InOrder(map), NEW n \in Nat, NEW k \in 1..Len(map), map[k].size >= n
  PROVE  FirstFit(n) # {}
<1> DEFINE T == {j \in 1..Len(map) : map[j].size >= n}
<1>1. T \subseteq Nat /\ T # {} OBVIOUS
<1> HIDE DEF T
<1>2. PICK i \in T : \A j \in T : i <= j BY <1>1, Least
<1>3. i \in 1..Len(map) /\ map[i].size >= n BY DEF T
<1>4. \A j \in 1..(i - 1) : j \in 1..Len(map) /\ map[j].size \in Nat /\ j \notin T
  BY <1>2, <1>3, EntryFacts
<1>5. \A j \in 1..(i - 1) : map[j].size < n BY <1>4 DEF T
<1> QED BY <1>3, <1>5 DEF FirstFit

(* Carving units off the front of an entry takes them from the map, leaves *)
(* it in order, and makes no entry larger.                                 *)
LEMMA CarveFacts ==
  ASSUME InOrder(map), NEW i \in 1..Len(map), NEW n \in Nat \ {0}, n <= map[i].size
  PROVE  /\ InOrder(Carve(i, n))
         /\ Cover(Carve(i, n)) = Cover(map) \ UnitsOf(map[i].addr, n)
         /\ \A j \in 1..Len(Carve(i, n)) :
              \E k \in 1..Len(map) : Carve(i, n)[j].size <= map[k].size
<1> DEFINE g == Carve(i, n)
<1>1. \A j \in 1..Len(map) :
        /\ map[j] \in Span /\ map[j].addr \in Nat /\ map[j].size \in Nat /\ map[j].size > 0
        /\ End(map[j]) \in Nat /\ map[j].addr < End(map[j])
        /\ End(map[j]) = map[j].addr + map[j].size
  BY EntryFacts
<1>2. /\ map \in Seq(Span) /\ Len(map) \in Nat
      /\ \A j, k \in 1..Len(map) : j < k => End(map[j]) < map[k].addr
  BY DEF InOrder
<1>3. CASE map[i].size = n
  <2>1. /\ g \in Seq(Span) /\ Len(g) = Len(map) - 1
        /\ \A j \in 1..(i - 1) : g[j] = map[j]
        /\ \A j \in i..(Len(map) - 1) : g[j] = map[j + 1]
    BY <1>2, <1>3, RemoveFacts DEF Carve
  <2> HIDE DEF g
  <2>2. \A j \in 1..Len(g) : \E k \in 1..Len(map) :
          k # i /\ g[j] = map[k] /\ k = IF j < i THEN j ELSE j + 1
    BY <1>2, <2>1
  <2>3. \A k \in 1..Len(map) : k # i => \E j \in 1..Len(g) : g[j] = map[k]
    <3>1. \A k \in 1..Len(map) : k < i => k \in 1..Len(g) /\ g[k] = map[k] BY <1>2, <2>1
    <3>2. \A k \in 1..Len(map) : k > i => k - 1 \in 1..Len(g) /\ g[k - 1] = map[k]
      <4> SUFFICES ASSUME NEW k \in 1..Len(map), k > i PROVE k - 1 \in 1..Len(g) /\ g[k - 1] = map[k]
        OBVIOUS
      <4>1. k - 1 \in i..(Len(map) - 1) /\ k - 1 \in 1..(Len(map) - 1) /\ (k - 1) + 1 = k BY <1>2
      <4> QED BY <2>1, <4>1
    <3> QED BY <3>1, <3>2
  <2>4. InOrder(g)
    <3> SUFFICES ASSUME NEW j \in 1..Len(g), NEW l \in 1..Len(g), j < l PROVE End(g[j]) < g[l].addr
      BY <2>1 DEF InOrder
    <3>1. PICK k \in 1..Len(map) : g[j] = map[k] /\ k = IF j < i THEN j ELSE j + 1 BY <2>2
    <3>2. PICK r \in 1..Len(map) : g[l] = map[r] /\ r = IF l < i THEN l ELSE l + 1 BY <2>2
    <3>3. k < r BY <3>1, <3>2
    <3> QED BY <1>2, <3>1, <3>2, <3>3
  <2>5. \A x : x \in Cover(g) <=> x \in Cover(map) \ UnitsOf(map[i].addr, n)
    <3> TAKE x
    <3>1. ASSUME x \in Cover(g) PROVE x \in Cover(map) \ UnitsOf(map[i].addr, n)
      <4>1. x \in Nat /\ \E j \in 1..Len(g) : g[j].addr <= x /\ x < End(g[j]) BY <2>4, <3>1, InCover
      <4>2. PICK k \in 1..Len(map) : k # i /\ map[k].addr <= x /\ x < End(map[k]) BY <2>2, <4>1
      <4>3. x \in Cover(map) BY <4>1, <4>2, InCover
      <4>4. x < map[i].addr \/ End(map[i]) <= x
        <5>1. k < i \/ i < k BY <4>2
        <5>2. k < i => End(map[k]) < map[i].addr BY <1>2
        <5>3. i < k => End(map[i]) < map[k].addr BY <1>2
        <5>4. /\ End(map[k]) \in Nat /\ End(map[i]) \in Nat
              /\ map[k].addr \in Nat /\ map[i].addr \in Nat
          BY <1>1
        <5> QED BY <4>1, <4>2, <5>1, <5>2, <5>3, <5>4
      <4>5. x \notin UnitsOf(map[i].addr, n)
        <5>1. \A a, e, l, u \in Nat : (u < a \/ e <= u) /\ a + l <= e => u \notin UnitsOf(a, l)
          BY DEF UnitsOf
        <5>2. /\ map[i].addr \in Nat /\ End(map[i]) \in Nat /\ n \in Nat /\ x \in Nat
              /\ map[i].addr + n <= End(map[i])
          BY <1>1, <1>3, <4>1
        <5> QED BY <4>4, <5>1, <5>2, Zenon
      <4> QED BY <4>3, <4>5
    <3>2. ASSUME x \in Cover(map), x \notin UnitsOf(map[i].addr, n) PROVE x \in Cover(g)
      <4>1. x \in Nat /\ \E j \in 1..Len(map) : map[j].addr <= x /\ x < End(map[j]) BY <3>2, InCover
      <4>2. ~(map[i].addr <= x /\ x < End(map[i])) BY <1>1, <1>3, <3>2, <4>1 DEF UnitsOf
      <4>3. PICK k \in 1..Len(map) : k # i /\ map[k].addr <= x /\ x < End(map[k]) BY <4>1, <4>2
      <4>4. \E j \in 1..Len(g) : g[j].addr <= x /\ x < End(g[j]) BY <2>3, <4>3
      <4> QED BY <2>4, <4>1, <4>4, InCover
    <3> QED BY <3>1, <3>2
  <2>6. \A j \in 1..Len(g) : \E k \in 1..Len(map) : g[j].size <= map[k].size
    <3> SUFFICES ASSUME NEW j \in 1..Len(g) PROVE \E k \in 1..Len(map) : g[j].size <= map[k].size
      OBVIOUS
    <3>1. PICK k \in 1..Len(map) : g[j] = map[k] BY <2>2
    <3>2. g[j].size <= map[k].size BY <1>1, <3>1
    <3> QED BY <3>2
  <2>7. Cover(g) = Cover(map) \ UnitsOf(map[i].addr, n) BY <2>5
  <2> QED BY <2>4, <2>6, <2>7 DEF g
<1>4. CASE map[i].size # n
  <2> DEFINE e == Entry(map[i].addr + n, map[i].size - n)
  <2>1. /\ e \in Span /\ e.addr = map[i].addr + n /\ e.size = map[i].size - n
        /\ End(e) = End(map[i]) /\ e.addr < End(e)
    <3>1. map[i].addr + n \in Nat /\ map[i].size - n \in Nat \ {0} BY <1>1, <1>4
    <3>2. e \in Span /\ e.addr = map[i].addr + n /\ e.size = map[i].size - n
      BY <3>1 DEF Span, Entry
    <3> HIDE DEF e
    <3>3. End(e) = (map[i].addr + n) + (map[i].size - n) /\ map[i].size - n > 0
      BY <3>1, <3>2 DEF End
    <3>4. End(e) = End(map[i]) /\ map[i].addr + n < End(e) BY <1>1, <3>3
    <3> QED BY <3>2, <3>4
  <2>2. g = [map EXCEPT ![i] = e] BY <1>4 DEF Carve
  <2> HIDE DEF e
  <2>3. /\ g \in Seq(Span) /\ Len(g) = Len(map) /\ g[i] = e
        /\ \A j \in 1..Len(map) : j # i => g[j] = map[j]
    BY <1>2, <2>1, <2>2
  <2> HIDE DEF g
  <2>4. InOrder(g)
    <3> SUFFICES ASSUME NEW j \in 1..Len(g), NEW l \in 1..Len(g), j < l PROVE End(g[j]) < g[l].addr
      BY <2>3 DEF InOrder
    <3>1. End(g[j]) = End(map[j]) /\ g[l].addr >= map[l].addr
      <4>1. \A k \in 1..Len(map) : End(g[k]) = End(map[k]) BY <2>1, <2>3
      <4>2. \A k \in 1..Len(map) : g[k].addr >= map[k].addr
        <5> TAKE k \in 1..Len(map)
        <5>1. CASE k = i BY <1>1, <2>1, <2>3, <5>1
        <5>2. CASE k # i
          <6>1. g[k] = map[k] /\ map[k].addr \in Nat BY <1>1, <2>3, <5>2
          <6> QED BY <6>1
        <5> QED BY <5>1, <5>2
      <4>3. j \in 1..Len(map) /\ l \in 1..Len(map) BY <2>3
      <4> QED BY <4>1, <4>2, <4>3, Zenon
    <3>2. End(map[j]) < map[l].addr /\ End(map[j]) \in Nat /\ map[l].addr \in Nat BY <1>1, <1>2, <2>3
    <3>3. g[l].addr \in Nat BY <1>1, <2>1, <2>3
    <3> QED BY <3>1, <3>2, <3>3
  <2>5. \A x : x \in Cover(g) <=> x \in Cover(map) \ UnitsOf(map[i].addr, n)
    <3> TAKE x
    <3>1. ASSUME x \in Cover(g) PROVE x \in Cover(map) \ UnitsOf(map[i].addr, n)
      <4>1. PICK k \in 1..Len(map) : x \in Nat /\ g[k].addr <= x /\ x < End(g[k])
        BY <2>3, <2>4, <3>1, InCover
      <4>2. map[k].addr <= x /\ x < End(map[k])
        <5>1. CASE k = i BY <1>1, <2>1, <2>3, <4>1, <5>1
        <5>2. CASE k # i
          <6>1. g[k] = map[k] BY <2>3, <5>2
          <6> QED BY <4>1, <6>1
        <5> QED BY <5>1, <5>2
      <4>3. x \in Cover(map) BY <4>1, <4>2, InCover
      <4>4. x < map[i].addr \/ map[i].addr + n <= x
        <5>1. CASE k = i BY <2>1, <2>3, <4>1, <5>1
        <5>2. CASE k # i
          <6>1. k < i \/ i < k BY <5>2
          <6>2. k < i => End(map[k]) < map[i].addr BY <1>2
          <6>3. i < k => End(map[i]) < map[k].addr BY <1>2
          <6>4. /\ End(map[k]) \in Nat /\ End(map[i]) \in Nat
                /\ map[k].addr \in Nat /\ map[i].addr \in Nat
            BY <1>1
          <6>5. map[i].addr + n <= End(map[i]) BY <1>1, <2>1
          <6> QED BY <1>1, <4>1, <4>2, <6>1, <6>2, <6>3, <6>4, <6>5
        <5> QED BY <5>1, <5>2
      <4>5. x \notin UnitsOf(map[i].addr, n) BY <1>1, <4>1, <4>4 DEF UnitsOf
      <4> QED BY <4>3, <4>5
    <3>2. ASSUME x \in Cover(map), x \notin UnitsOf(map[i].addr, n) PROVE x \in Cover(g)
      <4>1. PICK k \in 1..Len(map) : x \in Nat /\ map[k].addr <= x /\ x < End(map[k])
        BY <3>2, InCover
      <4>2. x < map[i].addr \/ map[i].addr + n <= x BY <1>1, <3>2, <4>1 DEF UnitsOf
      <4>3. g[k].addr <= x /\ x < End(g[k])
        <5>1. CASE k = i BY <1>1, <2>1, <2>3, <4>1, <4>2, <5>1
        <5>2. CASE k # i BY <2>3, <4>1, <5>2
        <5> QED BY <5>1, <5>2
      <4> QED BY <2>3, <2>4, <4>1, <4>3, InCover
    <3> QED BY <3>1, <3>2
  <2>6. \A j \in 1..Len(g) : g[j].size <= map[j].size
    <3> SUFFICES ASSUME NEW j \in 1..Len(map) PROVE g[j].size <= map[j].size BY <2>3
    <3>1. CASE j = i BY <1>1, <2>1, <2>3, <3>1
    <3>2. CASE j # i
      <4>1. g[j] = map[j] /\ map[j].size \in Nat BY <1>1, <2>3, <3>2
      <4> QED BY <4>1
    <3> QED BY <3>1, <3>2
  <2>7. Cover(g) = Cover(map) \ UnitsOf(map[i].addr, n) BY <2>5
  <2> QED BY <2>3, <2>4, <2>6, <2>7 DEF g
<1> QED BY <1>3, <1>4

(* The map m with the entry e, which also spans the n units at a, in the   *)
(* place of the entries lo..hi (none of them, if hi is lo - 1).            *)
Replaced(m, g, lo, hi, e, a, n) ==
  /\ lo \in 1..(Len(m) + 1) /\ hi \in 0..Len(m) /\ lo <= hi + 1
  /\ e \in Span /\ g \in Seq(Span)
  /\ Len(g) = Len(m) - (hi - lo)
  /\ \A j \in 1..(lo - 1) : g[j] = m[j]
  /\ g[lo] = e
  /\ \A j \in (lo + 1)..Len(g) : g[j] = m[j + (hi - lo)]
  /\ \A j \in 1..Len(m) : j < lo => End(m[j]) < e.addr
  /\ \A j \in 1..Len(m) : j > hi => End(e) < m[j].addr
  /\ \A x \in Nat : e.addr <= x /\ x < End(e) <=>
       \/ x \in UnitsOf(a, n)
       \/ \E j \in 1..Len(m) : lo <= j /\ j <= hi /\ m[j].addr <= x /\ x < End(m[j])

(* Such a replacement leaves a map in order and adds just the units at a.  *)
LEMMA ReplaceFacts ==
  ASSUME NEW m, InOrder(m), NEW g, NEW lo, NEW hi, NEW e, NEW a \in Nat, NEW n \in Nat,
         Replaced(m, g, lo, hi, e, a, n)
  PROVE  InOrder(g) /\ Cover(g) = Cover(m) \cup UnitsOf(a, n)
<1> SUFFICES ASSUME lo \in 1..(Len(m) + 1), hi \in 0..Len(m), lo <= hi + 1,
                    e \in Span, g \in Seq(Span), Len(g) = Len(m) - (hi - lo),
                    \A j \in 1..(lo - 1) : g[j] = m[j],
                    g[lo] = e,
                    \A j \in (lo + 1)..Len(g) : g[j] = m[j + (hi - lo)],
                    \A j \in 1..Len(m) : j < lo => End(m[j]) < e.addr,
                    \A j \in 1..Len(m) : j > hi => End(e) < m[j].addr,
                    \A x \in Nat : e.addr <= x /\ x < End(e) <=>
                      \/ x \in UnitsOf(a, n)
                      \/ \E j \in 1..Len(m) :
                           lo <= j /\ j <= hi /\ m[j].addr <= x /\ x < End(m[j])
             PROVE  InOrder(g) /\ Cover(g) = Cover(m) \cup UnitsOf(a, n)
  BY DEF Replaced
<1>1. Len(m) \in Nat /\ Len(g) \in Nat /\ m \in Seq(Span) BY DEF InOrder
<1>2. \A j, k \in 1..Len(m) : j < k => End(m[j]) < m[k].addr BY DEF InOrder
<1>3. \A j \in 1..Len(g) :
        \/ j < lo /\ j \in 1..Len(m) /\ g[j] = m[j]
        \/ j = lo /\ g[j] = e
        \/ j > lo /\ j + (hi - lo) \in 1..Len(m) /\ j + (hi - lo) > hi /\ g[j] = m[j + (hi - lo)]
  BY <1>1
<1>4. \A k \in 1..Len(m) :
        \/ k < lo /\ k \in 1..Len(g) /\ g[k] = m[k]
        \/ lo <= k /\ k <= hi
        \/ k > hi /\ \E j \in 1..Len(g) : g[j] = m[k]
  <2> SUFFICES ASSUME NEW k \in 1..Len(m), k >= lo, k > hi PROVE \E j \in 1..Len(g) : g[j] = m[k]
    BY <1>1
  <2>1. k - (hi - lo) \in (lo + 1)..Len(g) /\ (k - (hi - lo)) + (hi - lo) = k BY <1>1
  <2>2. k - (hi - lo) \in 1..Len(g) BY <2>1, <1>1
  <2> QED BY <2>1, <2>2
<1>5. lo \in 1..Len(g) BY <1>1
<1>6. InOrder(g)
  <2> SUFFICES ASSUME NEW j \in 1..Len(g), NEW l \in 1..Len(g), j < l PROVE End(g[j]) < g[l].addr
    BY DEF InOrder
  <2>1. CASE j < lo
    <3>1. j \in 1..Len(m) /\ g[j] = m[j] BY <1>3, <2>1
    <3>2. CASE l < lo BY <1>2, <1>3, <3>1, <3>2
    <3>3. CASE l = lo BY <1>3, <2>1, <3>1, <3>3
    <3>4. CASE l > lo
      <4>1. l + (hi - lo) \in 1..Len(m) /\ g[l] = m[l + (hi - lo)] /\ l + (hi - lo) > hi BY <1>3, <3>4
      <4>2. j < l + (hi - lo) BY <1>1, <2>1, <4>1
      <4> QED BY <1>2, <3>1, <4>1, <4>2
    <3> QED BY <3>2, <3>3, <3>4
  <2>2. CASE j = lo BY <1>3, <2>2
  <2>3. CASE j > lo
    <3>1. j + (hi - lo) \in 1..Len(m) /\ g[j] = m[j + (hi - lo)] BY <1>3, <2>3
    <3>2. l + (hi - lo) \in 1..Len(m) /\ g[l] = m[l + (hi - lo)] BY <1>3, <2>3
    <3>3. j + (hi - lo) < l + (hi - lo) BY <1>1
    <3> QED BY <1>2, <3>1, <3>2, <3>3
  <2> QED BY <2>1, <2>2, <2>3
<1>7. \A x : x \in Cover(g) => x \in Cover(m) \cup UnitsOf(a, n)
  <2> SUFFICES ASSUME NEW x, x \in Cover(g) PROVE x \in Cover(m) \cup UnitsOf(a, n) OBVIOUS
  <2>1. PICK j \in 1..Len(g) : x \in Nat /\ g[j].addr <= x /\ x < End(g[j]) BY <1>6, InCover
  <2>2. CASE g[j] = e
    <3>1. \/ x \in UnitsOf(a, n)
          \/ \E k \in 1..Len(m) : m[k].addr <= x /\ x < End(m[k])
      BY <2>1, <2>2
    <3> QED BY <2>1, <3>1, InCover
  <2>3. CASE \E k \in 1..Len(m) : g[j] = m[k] BY <2>1, <2>3, InCover
  <2> QED BY <1>3, <2>2, <2>3
<1>8. \A x : x \in Cover(m) => x \in Cover(g)
  <2> SUFFICES ASSUME NEW x, x \in Cover(m) PROVE x \in Cover(g) OBVIOUS
  <2>1. PICK k \in 1..Len(m) : x \in Nat /\ m[k].addr <= x /\ x < End(m[k]) BY InCover
  <2>2. \E j \in 1..Len(g) : g[j].addr <= x /\ x < End(g[j])
    <3>1. CASE lo <= k /\ k <= hi
      <4>1. e.addr <= x /\ x < End(e) BY <2>1, <3>1
      <4> QED BY <1>5, <4>1
    <3>2. CASE \E j \in 1..Len(g) : g[j] = m[k] BY <2>1, <3>2
    <3> QED BY <1>4, <3>1, <3>2
  <2> QED BY <1>6, <2>1, <2>2, InCover
<1>9. \A x : x \in UnitsOf(a, n) => x \in Cover(g)
  <2> SUFFICES ASSUME NEW x, x \in UnitsOf(a, n) PROVE x \in Cover(g) OBVIOUS
  <2>1. x \in Nat BY DEF UnitsOf
  <2>2. g[lo].addr <= x /\ x < End(g[lo]) BY <2>1
  <2> QED BY <1>5, <1>6, <2>1, <2>2, InCover
<1> QED BY <1>6, <1>7, <1>8, <1>9

(* mfree finds the place of an address.                                    *)
LEMMA AboveFacts ==
  ASSUME InOrder(map), NEW a \in Nat
  PROVE  /\ Above(a) \in 1..(Len(map) + 1)
         /\ \A j \in 1..Len(map) : j < Above(a) => map[j].addr <= a
         /\ \A j \in 1..Len(map) : j >= Above(a) => map[j].addr > a
<1>1. Len(map) \in Nat BY DEF InOrder
<1>2. \A j \in 1..Len(map) : map[j].addr \in Nat /\ End(map[j]) \in Nat /\ map[j].addr < End(map[j])
  BY EntryFacts
<1> DEFINE T == {i \in 1..(Len(map) + 1) : i <= Len(map) => map[i].addr > a}
<1>3. Len(map) + 1 \in T /\ T \subseteq Nat BY <1>1
<1> HIDE DEF T
<1>4. PICK i \in T : \A j \in T : i <= j BY <1>3, Least
<1>5. i \in 1..(Len(map) + 1) /\ (i <= Len(map) => map[i].addr > a) BY DEF T
<1>6. \A j \in 1..(i - 1) : j \in 1..Len(map) /\ j \in 1..(Len(map) + 1) /\ j \notin T
  BY <1>1, <1>4, <1>5
<1>7. \A j \in 1..(i - 1) : map[j].addr <= a BY <1>2, <1>6 DEF T
<1>8. /\ Above(a) \in 1..(Len(map) + 1)
      /\ \A j \in 1..(Above(a) - 1) : map[j].addr <= a
      /\ Above(a) <= Len(map) => map[Above(a)].addr > a
  BY <1>5, <1>7 DEF Above
<1> HIDE DEF Above
<1>9. ASSUME NEW j \in 1..Len(map), j >= Above(a) PROVE map[j].addr > a
  <2>1. Above(a) \in 1..Len(map) /\ map[Above(a)].addr > a BY <1>1, <1>8, <1>9
  <2>2. j = Above(a) \/ End(map[Above(a)]) < map[j].addr BY <1>9, <2>1 DEF InOrder
  <2> QED BY <1>2, <2>1, <2>2
<1> QED BY <1>1, <1>8, <1>9

(* Giving units back to the map, which has none of them, adds just these   *)
(* and leaves the map in order, whichever ends combine.                    *)
LEMMA GiveFacts ==
  ASSUME InOrder(map), NEW a \in Nat, NEW n \in Nat, UnitsOf(a, n) \cap Cover(map) = {}
  PROVE  InOrder(Give(n, a)) /\ Cover(Give(n, a)) = Cover(map) \cup UnitsOf(a, n)
<1> DEFINE L == Len(map)
           i == Above(a)
           before == i > 1 /\ End(map[i - 1]) = a
           behind == i <= Len(map) /\ a + n = map[i].addr
           g == Give(n, a)
<1>1. \A j \in 1..L :
        /\ map[j] \in Span /\ map[j].addr \in Nat /\ map[j].size \in Nat /\ map[j].size > 0
        /\ End(map[j]) \in Nat /\ map[j].addr < End(map[j])
        /\ End(map[j]) = map[j].addr + map[j].size
  BY EntryFacts
<1>2. /\ map \in Seq(Span) /\ L \in Nat
      /\ \A j, k \in 1..L : j < k => End(map[j]) < map[k].addr
  BY DEF InOrder
<1>3. /\ i \in 1..(L + 1)
      /\ \A j \in 1..L : j < i => map[j].addr <= a
      /\ \A j \in 1..L : j >= i => map[j].addr > a
  BY AboveFacts
<1>4. g = IF before /\ behind
          THEN RemoveAt([map EXCEPT ![i - 1] =
                           Entry(map[i - 1].addr, map[i - 1].size + n + map[i].size)], i)
          ELSE IF before THEN [map EXCEPT ![i - 1] = Entry(map[i - 1].addr, map[i - 1].size + n)]
          ELSE IF behind THEN [map EXCEPT ![i] = Entry(a, map[i].size + n)]
          ELSE IF n = 0 THEN map
          ELSE InsertAt(map, i, Entry(a, n))
  BY DEF Give
<1> HIDE DEF i, g, L
<1>5. \A x : x \in UnitsOf(a, n) <=> x \in Nat /\ a <= x /\ x < a + n BY DEF UnitsOf
(* The entries before a end there at the latest, those behind do not start *)
(* before the end of the units given back.                                 *)
<1>6. ASSUME n > 0, NEW j \in 1..L, j < i PROVE End(map[j]) <= a
  <2>1. a \in UnitsOf(a, n) BY <1>5, <1>6
  <2>2. a \notin Cover(map) BY <2>1
  <2>3. ~(map[j].addr <= a /\ a < End(map[j])) BY <2>2, InCover DEF L
  <2> QED BY <1>1, <1>3, <1>6, <2>3
<1>7. ASSUME NEW j \in 1..L, j >= i PROVE a + n <= map[j].addr
  <2>1. map[j].addr > a /\ map[j].addr \in Nat BY <1>1, <1>3, <1>7
  <2>a. \E k \in 1..L : map[k].addr <= map[j].addr /\ map[j].addr < End(map[k]) BY <1>1
  <2>2. map[j].addr \in Cover(map) BY <2>1, <2>a, InCover DEF L
  <2>3. map[j].addr \notin UnitsOf(a, n) BY <2>2
  <2> QED BY <1>5, <2>1, <2>3
<1>8. \A b \in Nat, k \in Nat \ {0} :
        /\ Entry(b, k) \in Span /\ Entry(b, k).addr = b /\ Entry(b, k).size = k
        /\ End(Entry(b, k)) = b + k
  BY DEF Entry, Span, End
<1>9. CASE before
  <2>1. i - 1 \in 1..L /\ End(map[i - 1]) = a BY <1>2, <1>3, <1>9 DEF L
  <2>2. /\ map[i - 1].addr \in Nat /\ map[i - 1].size \in Nat /\ map[i - 1].size > 0
        /\ map[i - 1].addr + map[i - 1].size = a
    BY <1>1, <2>1
  <2>3. \A j \in 1..L : j < i - 1 => End(map[j]) < map[i - 1].addr BY <1>2, <2>1
  <2>4. CASE behind
    <3> DEFINE e == Entry(map[i - 1].addr, map[i - 1].size + n + map[i].size)
               h == [map EXCEPT ![i - 1] = e]
    <3>1. i \in 1..L /\ map[i].addr = a + n BY <1>3, <2>4 DEF L
    <3>2. /\ map[i].size \in Nat /\ map[i].size > 0 /\ map[i].addr \in Nat
          /\ End(map[i]) = a + n + map[i].size
      BY <1>1, <3>1
    <3>3. map[i - 1].size + n + map[i].size \in Nat \ {0} BY <2>2, <3>2
    <3>4. /\ e \in Span /\ e.addr = map[i - 1].addr
          /\ End(e) = map[i - 1].addr + (map[i - 1].size + n + map[i].size)
      BY <1>8, <2>2, <3>3
    <3>5. End(e) = End(map[i]) BY <2>2, <3>2, <3>4
    <3>6. g = RemoveAt(h, i) BY <1>4, <1>9, <2>4
    <3> HIDE DEF e
    <3>7. /\ h \in Seq(Span) /\ Len(h) = L /\ h[i - 1] = e
          /\ \A j \in 1..L : j # i - 1 => h[j] = map[j]
      BY <1>2, <2>1, <3>4 DEF L
    <3> HIDE DEF h
    <3>8. /\ g \in Seq(Span) /\ Len(g) = L - 1
          /\ \A j \in 1..(i - 1) : g[j] = h[j]
          /\ \A j \in i..(L - 1) : g[j] = h[j + 1]
      BY <3>1, <3>6, <3>7, RemoveFacts
    <3>9. \A j \in 1..((i - 1) - 1) : g[j] = map[j]
      <4> SUFFICES ASSUME NEW j \in 1..((i - 1) - 1) PROVE g[j] = map[j] OBVIOUS
      <4>1. j \in 1..(i - 1) /\ j \in 1..L /\ j # i - 1 BY <1>2, <1>3
      <4> QED BY <3>7, <3>8, <4>1
    <3>10. g[i - 1] = e BY <2>1, <3>7, <3>8
    <3>11. \A j \in ((i - 1) + 1)..Len(g) : g[j] = map[j + (i - (i - 1))]
      <4> SUFFICES ASSUME NEW j \in i..(L - 1) PROVE g[j] = map[j + 1] BY <1>2, <1>3, <3>8
      <4>1. j + 1 \in 1..L /\ j + 1 # i - 1 BY <1>2, <1>3
      <4> QED BY <3>7, <3>8, <4>1
    <3>12. \A j \in 1..L : j > i => End(e) < map[j].addr BY <1>2, <3>1, <3>5
    <3>13. \A x \in Nat : e.addr <= x /\ x < End(e) <=>
             \/ x \in UnitsOf(a, n)
             \/ \E j \in 1..L : i - 1 <= j /\ j <= i /\ map[j].addr <= x /\ x < End(map[j])
      <4> TAKE x \in Nat
      <4>1. \A j \in 1..L : i - 1 <= j /\ j <= i => j = i - 1 \/ j = i BY <1>2, <1>3
      <4>2. (\E j \in 1..L : i - 1 <= j /\ j <= i /\ map[j].addr <= x /\ x < End(map[j])) <=>
              \/ map[i - 1].addr <= x /\ x < End(map[i - 1])
              \/ map[i].addr <= x /\ x < End(map[i])
        BY <1>3, <2>1, <3>1, <4>1
      <4>3. e.addr <= x /\ x < End(e) <=>
              \/ a <= x /\ x < a + n
              \/ map[i - 1].addr <= x /\ x < End(map[i - 1])
              \/ map[i].addr <= x /\ x < End(map[i])
        BY <2>1, <2>2, <3>1, <3>2, <3>4, <3>5
      <4> QED BY <1>5, <4>2, <4>3
    <3>14. Len(g) = L - (i - (i - 1)) BY <1>2, <1>3, <3>8
    <3>15. \A j \in 1..L : j < i - 1 => End(map[j]) < e.addr BY <2>3, <3>4
    <3>16. i - 1 \in 1..(L + 1) /\ i \in 0..L /\ i - 1 <= i + 1 BY <1>2, <2>1, <3>1
    <3>17. Replaced(map, g, i - 1, i, e, a, n)
      BY <3>4, <3>8, <3>9, <3>10, <3>11, <3>12, <3>13, <3>14, <3>15, <3>16 DEF Replaced, L
    <3> QED BY <3>17, ReplaceFacts DEF g
  <2>5. CASE ~behind
    <3> DEFINE e == Entry(map[i - 1].addr, map[i - 1].size + n)
    <3>1. map[i - 1].size + n \in Nat \ {0} BY <2>2
    <3>2. /\ e \in Span /\ e.addr = map[i - 1].addr /\ End(e) = map[i - 1].addr + (map[i - 1].size + n)
      BY <1>8, <2>2, <3>1
    <3>3. End(e) = a + n BY <2>2, <3>2
    <3>4. g = [map EXCEPT ![i - 1] = e] BY <1>4, <1>9, <2>5
    <3> HIDE DEF e
    <3>5. /\ g \in Seq(Span) /\ Len(g) = L /\ g[i - 1] = e
          /\ \A j \in 1..L : j # i - 1 => g[j] = map[j]
      BY <1>2, <2>1, <3>2, <3>4 DEF L
    <3>6. \A j \in 1..L : j > i - 1 => End(e) < map[j].addr
      <4> SUFFICES ASSUME NEW j \in 1..L, j >= i PROVE a + n < map[j].addr BY <1>3, <3>3
      <4>1. i \in 1..L /\ map[i].addr # a + n BY <1>2, <1>3, <2>5 DEF L
      <4>2. a + n < map[i].addr BY <1>1, <1>7, <4>1
      <4>3. j = i \/ End(map[i]) < map[j].addr BY <1>2, <1>3, <4>1
      <4> QED BY <1>1, <4>1, <4>2, <4>3
    <3>7. \A x \in Nat : e.addr <= x /\ x < End(e) <=>
             \/ x \in UnitsOf(a, n)
             \/ \E j \in 1..L : i - 1 <= j /\ j <= i - 1 /\ map[j].addr <= x /\ x < End(map[j])
      <4> TAKE x \in Nat
      <4>1. \A j \in 1..L : i - 1 <= j /\ j <= i - 1 => j = i - 1 BY <1>2, <1>3
      <4>2. (\E j \in 1..L : i - 1 <= j /\ j <= i - 1 /\ map[j].addr <= x /\ x < End(map[j])) <=>
              map[i - 1].addr <= x /\ x < End(map[i - 1])
        BY <1>3, <2>1, <4>1
      <4>3. e.addr <= x /\ x < End(e) <=>
              \/ a <= x /\ x < a + n
              \/ map[i - 1].addr <= x /\ x < End(map[i - 1])
        BY <2>1, <2>2, <3>2, <3>3
      <4> QED BY <1>5, <4>2, <4>3
    <3>8. Len(g) = L - ((i - 1) - (i - 1)) BY <1>2, <1>3, <3>5
    <3>9. \A j \in 1..((i - 1) - 1) : g[j] = map[j] BY <1>2, <2>1, <3>5
    <3>10. \A j \in ((i - 1) + 1)..Len(g) : g[j] = map[j + ((i - 1) - (i - 1))]
      <4> SUFFICES ASSUME NEW j \in i..L PROVE g[j] = map[j] BY <1>2, <1>3, <3>5
      <4>1. j \in 1..L /\ j # i - 1 BY <1>2, <1>3
      <4> QED BY <3>5, <4>1
    <3>11. \A j \in 1..L : j < i - 1 => End(map[j]) < e.addr BY <2>3, <3>2
    <3>12. i - 1 \in 1..(L + 1) /\ i - 1 \in 0..L /\ i - 1 <= (i - 1) + 1 BY <1>2, <2>1
    <3>13. Replaced(map, g, i - 1, i - 1, e, a, n)
      BY <3>2, <3>5, <3>6, <3>7, <3>8, <3>9, <3>10, <3>11, <3>12 DEF Replaced, L
    <3> QED BY <3>13, ReplaceFacts DEF g
  <2> QED BY <2>4, <2>5
<1>10. CASE ~before
  (* The entry before does not touch. *)
  <2>1. n > 0 => \A j \in 1..L : j < i => End(map[j]) < a
    <3> SUFFICES ASSUME n > 0, NEW j \in 1..L, j < i PROVE End(map[j]) < a OBVIOUS
    <3>1. i - 1 \in 1..L /\ i > 1 BY <1>2, <1>3
    <3>2. End(map[i - 1]) <= a /\ End(map[i - 1]) # a BY <1>3, <1>6, <1>10, <3>1
    <3>3. j = i - 1 \/ End(map[j]) < map[i - 1].addr BY <1>2, <1>3, <3>1
    <3> QED BY <1>1, <3>1, <3>2, <3>3
  <2>2. CASE behind
    <3> DEFINE e == Entry(a, map[i].size + n)
    <3>1. i \in 1..L /\ map[i].addr = a + n /\ map[i].addr > a BY <1>3, <2>2 DEF L
    <3>2. /\ map[i].size \in Nat /\ map[i].size > 0 /\ End(map[i]) = a + n + map[i].size /\ n > 0
      BY <1>1, <3>1
    <3>3. map[i].size + n \in Nat \ {0} BY <3>2
    <3>4. e \in Span /\ e.addr = a /\ End(e) = a + (map[i].size + n) BY <1>8, <3>3
    <3>5. End(e) = End(map[i]) BY <3>2, <3>4
    <3>6. g = [map EXCEPT ![i] = e] BY <1>4, <1>10, <2>2
    <3> HIDE DEF e
    <3>7. /\ g \in Seq(Span) /\ Len(g) = L /\ g[i] = e
          /\ \A j \in 1..L : j # i => g[j] = map[j]
      BY <1>2, <3>1, <3>4, <3>6 DEF L
    <3>8. \A j \in 1..L : j > i => End(e) < map[j].addr BY <1>2, <3>1, <3>5
    <3>9. \A x \in Nat : e.addr <= x /\ x < End(e) <=>
             \/ x \in UnitsOf(a, n)
             \/ \E j \in 1..L : i <= j /\ j <= i /\ map[j].addr <= x /\ x < End(map[j])
      <4> TAKE x \in Nat
      <4>1. \A j \in 1..L : i <= j /\ j <= i => j = i BY <1>2, <1>3
      <4>2. (\E j \in 1..L : i <= j /\ j <= i /\ map[j].addr <= x /\ x < End(map[j])) <=>
              map[i].addr <= x /\ x < End(map[i])
        BY <1>3, <3>1, <4>1
      <4>3. e.addr <= x /\ x < End(e) <=>
              \/ a <= x /\ x < a + n
              \/ map[i].addr <= x /\ x < End(map[i])
        BY <3>1, <3>2, <3>4, <3>5
      <4> QED BY <1>5, <4>2, <4>3
    <3>10. Len(g) = L - (i - i) BY <1>2, <1>3, <3>7
    <3>11. \A j \in 1..(i - 1) : g[j] = map[j] BY <1>2, <3>1, <3>7
    <3>12. \A j \in (i + 1)..Len(g) : g[j] = map[j + (i - i)]
      <4> SUFFICES ASSUME NEW j \in (i + 1)..L PROVE g[j] = map[j] BY <1>2, <1>3, <3>7
      <4>1. j \in 1..L /\ j # i BY <1>2, <1>3
      <4> QED BY <3>7, <4>1
    <3>13. \A j \in 1..L : j < i => End(map[j]) < e.addr BY <2>1, <3>2, <3>4
    <3>14. i \in 1..(L + 1) /\ i \in 0..L /\ i <= i + 1 BY <1>2, <3>1
    <3>15. Replaced(map, g, i, i, e, a, n)
      BY <3>4, <3>7, <3>8, <3>9, <3>10, <3>11, <3>12, <3>13, <3>14 DEF Replaced, L
    <3> QED BY <3>15, ReplaceFacts DEF g
  <2>3. CASE ~behind /\ n = 0
    <3>1. g = map BY <1>4, <1>10, <2>3
    <3>2. UnitsOf(a, n) = {} BY <1>5, <2>3
    <3> QED BY <3>1, <3>2 DEF g
  <2>4. CASE ~behind /\ n # 0
    <3> DEFINE e == Entry(a, n)
    <3>1. e \in Span /\ e.addr = a /\ End(e) = a + n BY <1>8, <2>4
    <3>2. g = InsertAt(map, i, e) BY <1>4, <1>10, <2>4
    <3> HIDE DEF e
    <3>3. /\ g \in Seq(Span) /\ Len(g) = L + 1
          /\ \A j \in 1..(i - 1) : g[j] = map[j]
          /\ g[i] = e
          /\ \A j \in (i + 1)..(L + 1) : g[j] = map[j - 1]
      <4>1. i \in 1..(Len(map) + 1) BY <1>3 DEF L
      <4>2. e \in Span /\ map \in Seq(Span) BY <1>2, <3>1
      <4>3. /\ InsertAt(map, i, e) \in Seq(Span)
            /\ Len(InsertAt(map, i, e)) = Len(map) + 1
            /\ \A j \in 1..(i - 1) : InsertAt(map, i, e)[j] = map[j]
            /\ InsertAt(map, i, e)[i] = e
            /\ \A j \in (i + 1)..(Len(map) + 1) : InsertAt(map, i, e)[j] = map[j - 1]
        BY <4>1, <4>2, InsertSpan, Zenon
      <4> QED BY <3>2, <4>3, Zenon DEF L
    <3>4. \A j \in 1..L : j > i - 1 => End(e) < map[j].addr
      <4> SUFFICES ASSUME NEW j \in 1..L, j >= i PROVE a + n < map[j].addr BY <1>3, <3>1
      <4>1. i \in 1..L /\ map[i].addr # a + n BY <1>2, <1>3, <2>4 DEF L
      <4>2. a + n < map[i].addr BY <1>1, <1>7, <4>1
      <4>3. j = i \/ End(map[i]) < map[j].addr BY <1>2, <1>3, <4>1
      <4> QED BY <1>1, <4>1, <4>2, <4>3
    <3>5. \A x \in Nat : e.addr <= x /\ x < End(e) <=>
             \/ x \in UnitsOf(a, n)
             \/ \E j \in 1..L : i <= j /\ j <= i - 1 /\ map[j].addr <= x /\ x < End(map[j])
      <4>1. \A j \in 1..L : ~(i <= j /\ j <= i - 1) BY <1>2, <1>3
      <4> QED BY <1>5, <3>1, <4>1
    <3>6. Len(g) = L - ((i - 1) - i) BY <1>2, <1>3, <3>3
    <3>7. \A j \in (i + 1)..Len(g) : g[j] = map[j + ((i - 1) - i)]
      <4> SUFFICES ASSUME NEW j \in (i + 1)..(L + 1) PROVE g[j] = map[j + ((i - 1) - i)] BY <3>3
      <4>1. j + ((i - 1) - i) = j - 1 BY <1>2, <1>3
      <4> QED BY <3>3, <4>1
    <3>8. \A j \in 1..L : j < i => End(map[j]) < e.addr BY <2>1, <2>4, <3>1
    <3>9. i \in 1..(L + 1) /\ i - 1 \in 0..L /\ i <= (i - 1) + 1 BY <1>2, <1>3
    <3>10. Replaced(map, g, i, i - 1, e, a, n)
      BY <3>1, <3>3, <3>4, <3>5, <3>6, <3>7, <3>8, <3>9 DEF Replaced, L
    <3> QED BY <3>10, ReplaceFacts DEF g
  <2> QED BY <2>2, <2>3, <2>4
<1> QED BY <1>9, <1>10

----------------------------------------------------------------------------
(* The inductive invariant.  That the map is sorted and its entries apart  *)
(* needs that no unit given back is free already, and that needs to know   *)
(* where every unit is: the units are divided between the map and the      *)
(* segments, and no two segments share one.                                *)
SegsOK ==
  /\ IsFiniteSet(segs)
  /\ \A s \in segs : UnitsOf(s.addr, s.size) \subseteq Space
  /\ \A s, t \in segs : s # t => UnitsOf(s.addr, s.size) \cap UnitsOf(t.addr, t.size) = {}

Partition == Cover(map) = Space \ Held

SleepsFor == asleep => want # 0

IInv == TypeOK /\ InOrder(map) /\ SegsOK /\ Partition /\ NoIdleRoom /\ SleepsFor

(* startup gives the map a space that does not begin at 0 and is not empty.*)
LEMMA SpaceFact == Base \in Nat \ {0} /\ Size \in Nat \ {0}
BY SpaceAssumption

(* The units a segment holds are its own, and not in the map.              *)
LEMMA SegFacts ==
  ASSUME IInv, NEW s \in segs
  PROVE  /\ s.addr \in Nat /\ s.size \in 1..Size /\ s.size \in Nat /\ s = Entry(s.addr, s.size)
         /\ UnitsOf(s.addr, s.size) \subseteq Held
         /\ UnitsOf(s.addr, s.size) \subseteq Space
         /\ UnitsOf(s.addr, s.size) \cap Cover(map) = {}
<1>1. s \in [addr : Nat, size : 1..Size] /\ Size \in Nat BY SpaceFact DEF IInv, TypeOK
<1>2. UnitsOf(s.addr, s.size) \subseteq Held BY DEF Held
<1>3. UnitsOf(s.addr, s.size) \subseteq Space BY DEF IInv, SegsOK
<1> QED BY <1>1, <1>2, <1>3 DEF IInv, Partition, Entry

(* A map in order that describes no unit outside the space has the type of *)
(* a map: m_size does not overflow.                                        *)
LEMMA MapType ==
  ASSUME NEW m, InOrder(m), Cover(m) \subseteq Space
  PROVE  /\ m \in Seq([addr : Nat, size : 1..Size])
         /\ \A i \in 1..Len(m) : m[i].addr \in Space /\ End(m[i]) <= Base + Size
<1>1. Base \in Nat \ {0} /\ Size \in Nat \ {0} BY SpaceFact
<1>2. ASSUME NEW i \in 1..Len(m)
      PROVE  /\ m[i] \in [addr : Nat, size : 1..Size]
             /\ m[i].addr \in Space /\ End(m[i]) <= Base + Size
  <2>1. /\ m[i] \in Span /\ m[i].addr \in Nat /\ m[i].size \in Nat /\ m[i].size > 0
        /\ End(m[i]) \in Nat /\ m[i].addr < End(m[i])
        /\ End(m[i]) = m[i].addr + m[i].size
    BY EntryFacts
  <2>2. m[i].addr \in Cover(m)
    <3>1. \E j \in 1..Len(m) : m[j].addr <= m[i].addr /\ m[i].addr < End(m[j]) BY <2>1
    <3> QED BY <2>1, <3>1, InCover
  <2>3. End(m[i]) - 1 \in Cover(m)
    <3>1. End(m[i]) - 1 \in Nat BY <2>1
    <3>2. \E j \in 1..Len(m) : m[j].addr <= End(m[i]) - 1 /\ End(m[i]) - 1 < End(m[j]) BY <2>1
    <3> QED BY <3>1, <3>2, InCover
  <2>4. m[i].addr \in Space /\ End(m[i]) - 1 \in Space BY <2>2, <2>3
  <2>5. Base <= m[i].addr /\ End(m[i]) <= Base + Size BY <1>1, <2>1, <2>4 DEF Space
  <2>6. m[i].size \in 1..Size BY <1>1, <2>1, <2>5
  <2>7. m[i] = [addr |-> m[i].addr, size |-> m[i].size] BY <2>1 DEF Span
  <2>8. [addr |-> m[i].addr, size |-> m[i].size] \in [addr : Nat, size : 1..Size] BY <2>1, <2>6
  <2> QED BY <2>4, <2>5, <2>7, <2>8
<1>3. m \in Seq(Span) BY DEF InOrder
<1>4. m \in Seq([addr : Nat, size : 1..Size])
  <2>1. \A i \in 1..Len(m) : m[i] \in [addr : Nat, size : 1..Size] BY <1>2
  <2>2. Len(m) \in Nat /\ m = [i \in 1..Len(m) |-> m[i]] BY <1>3
  <2>3. m \in [1..Len(m) -> [addr : Nat, size : 1..Size]] BY <2>1, <2>2
  <2> QED BY <2>2, <2>3, SeqDef
<1> QED BY <1>2, <1>4

(* The free units are inside the space.                                    *)
LEMMA MapFacts ==
  ASSUME IInv
  PROVE  /\ InOrder(map) /\ Len(map) \in Nat /\ Cover(map) \subseteq Space
         /\ \A i \in 1..Len(map) : map[i].addr \in Space /\ End(map[i]) <= Base + Size
<1>1. InOrder(map) /\ Cover(map) \subseteq Space BY DEF IInv, Partition
<1>2. Len(map) \in Nat BY <1>1 DEF InOrder
<1> QED BY <1>1, <1>2, MapType

(* malloc finds room only in front of an entry, and keeps the order of the *)
(* map and the division of the units.                                      *)
LEMMA MallocKeeps ==
  ASSUME IInv, NEW n \in Sizes, Malloc(n)
  PROVE  /\ map' \in Seq([addr : Nat, size : 1..Size])
         /\ segs' \subseteq [addr : Nat, size : 1..Size]
         /\ ret' \in Nat \X Nat
         /\ InOrder(map)' /\ SegsOK' /\ Partition'
         /\ \A w \in Nat : FirstFit(w) = {} => FirstFit(w)' = {}
         /\ ret'[2] = 0 => FirstFit(n)' = {}
<1>1. n \in Nat \ {0} BY SizesAssumption
<1>2. InOrder(map) /\ Cover(map) \subseteq Space /\ Len(map) \in Nat BY MapFacts
<1>3. Base \in Nat \ {0} /\ Size \in Nat \ {0} BY SpaceFact
<1>4. CASE FirstFit(n) = {} /\ ret' = <<n, 0>> /\ UNCHANGED <<map, segs>>
  <2>1. SegsOK' /\ Partition' /\ InOrder(map)' BY <1>2, <1>4 DEF IInv, SegsOK, Partition, Held
  <2>2. \A w \in Nat : FirstFit(w)' = FirstFit(w) BY <1>4 DEF FirstFit
  <2>3. ret' \in Nat \X Nat BY <1>1, <1>4
  <2> QED BY <1>1, <1>4, <2>1, <2>2, <2>3 DEF IInv, TypeOK
<1>5. ASSUME NEW i \in FirstFit(n), map' = Carve(i, n),
             segs' = segs \cup {Entry(map[i].addr, n)}, ret' = <<n, map[i].addr>>
      PROVE  /\ map' \in Seq([addr : Nat, size : 1..Size])
             /\ segs' \subseteq [addr : Nat, size : 1..Size]
             /\ ret' \in Nat \X Nat
             /\ InOrder(map)' /\ SegsOK' /\ Partition'
             /\ \A w \in Nat : FirstFit(w) = {} => FirstFit(w)' = {}
             /\ ret'[2] # 0
  <2> DEFINE a == map[i].addr
             e == Entry(a, n)
  <2>1. i \in 1..Len(map) /\ map[i].size >= n BY DEF FirstFit
  <2>2. a \in Nat /\ map[i].size \in Nat /\ n <= map[i].size BY <1>1, <1>2, <2>1, EntryFacts
  <2>3. /\ InOrder(map')
        /\ Cover(map') = Cover(map) \ UnitsOf(a, n)
        /\ \A j \in 1..Len(map') : \E k \in 1..Len(map) : map'[j].size <= map[k].size
    BY <1>1, <1>2, <1>5, <2>1, <2>2, CarveFacts
  <2>4. UnitsOf(a, n) \subseteq Cover(map) BY <1>1, <1>2, <2>1, <2>2, EntryFree
  <2>5. a \in Space BY <2>1, MapFacts
  <2>6. a # 0 BY <1>3, <2>2, <2>5 DEF Space
  <2>7. e.addr = a /\ e.size = n BY DEF Entry
  <2>8. n \in 1..Size
    <3>1. map \in Seq([addr : Nat, size : 1..Size]) BY DEF IInv, TypeOK
    <3>2. map[i] \in [addr : Nat, size : 1..Size] BY <2>1, <3>1, ElementOfSeq
    <3> QED BY <1>1, <1>3, <2>2, <3>2
  <2>9. e \in [addr : Nat, size : 1..Size] BY <2>2, <2>8 DEF Entry
  <2> HIDE DEF e, a
  <2>10. segs' = segs \cup {e} BY <1>5 DEF e, a
  <2>11. segs' \subseteq [addr : Nat, size : 1..Size] BY <2>9, <2>10 DEF IInv, TypeOK
  <2>12. \A s \in segs : UnitsOf(s.addr, s.size) \cap UnitsOf(a, n) = {} BY <2>4, SegFacts
  <2>13. SegsOK'
    <3>1. IsFiniteSet(segs') BY <2>10, FS_AddElement DEF IInv, SegsOK
    <3>2. \A s \in segs' : UnitsOf(s.addr, s.size) \subseteq Space
      BY <1>2, <2>4, <2>7, <2>10 DEF IInv, SegsOK
    <3>3. \A s, t \in segs' : s # t => UnitsOf(s.addr, s.size) \cap UnitsOf(t.addr, t.size) = {}
      BY <2>7, <2>10, <2>12 DEF IInv, SegsOK
    <3> QED BY <3>1, <3>2, <3>3 DEF SegsOK, Space
  <2>14. Held' = Held \cup UnitsOf(a, n)
    <3>1. Held' = UNION {UnitsOf(s.addr, s.size) : s \in segs'} BY DEF Held
    <3> QED BY <2>7, <2>10, <3>1 DEF Held
  <2>15. Partition' BY <1>2, <2>3, <2>14 DEF IInv, Partition, Space
  <2>16. map' \in Seq([addr : Nat, size : 1..Size])
    <3>1. Cover(map') \subseteq Space BY <1>2, <2>3
    <3> QED BY <2>3, <3>1, MapType
  <2>17. ASSUME NEW w \in Nat, FirstFit(w) = {} PROVE FirstFit(w)' = {}
    <3>1. \A k \in 1..Len(map) : ~(map[k].size >= w) BY <1>2, <2>17, FirstFitFound
    <3>2. \A k \in 1..Len(map) : map[k].size \in Nat BY <1>2, EntryFacts
    <3>3. \A j \in 1..Len(map') : map'[j].size \in Nat BY <2>3, EntryFacts
    <3>4. \A j \in 1..Len(map') : ~(map'[j].size >= w) BY <2>3, <3>1, <3>2, <3>3
    <3> QED BY <3>4 DEF FirstFit
  <2>18. ret' \in Nat \X Nat /\ ret'[2] # 0 BY <1>1, <1>5, <2>2, <2>6 DEF a
  <2>19. InOrder(map)' BY <2>3 DEF InOrder
  <2> QED BY <2>11, <2>13, <2>15, <2>16, <2>17, <2>18, <2>19
<1> QED BY <1>4, <1>5 DEF Malloc

(* What the callers of mfree give back of a segment: all but its first k   *)
(* units.                                                                  *)
Released(s, k) ==
  /\ Mfree(s.size - k, s.addr + k)
  /\ segs' = (segs \ {s}) \cup (IF k = 0 THEN {} ELSE {Entry(s.addr, k)})

LEMMA FreeReleases ==
  ASSUME IInv, NEW s \in segs, Free(s)
  PROVE  Released(s, 0)
<1>1. s.addr \in Nat /\ s.size \in 1..Size BY SegFacts
<1>2. s.size - 0 = s.size /\ s.addr + 0 = s.addr BY <1>1
<1> QED BY <1>2 DEF Free, Released

LEMMA ShrinkReleases ==
  ASSUME IInv, NEW s \in segs, NEW k \in 1..s.size, Shrink(s, k)
  PROVE  Released(s, k)
BY DEF Shrink, Released

(* mfree keeps the order of the map and the division of the units, and     *)
(* leaves the scheduler awake.                                             *)
LEMMA MfreeKeeps ==
  ASSUME IInv, NEW s \in segs, NEW k \in 0..s.size, Released(s, k)
  PROVE  /\ IInv'
         /\ Cover(map') = Cover(map) \cup UnitsOf(s.addr + k, s.size - k)
<1> DEFINE a == s.addr + k
           n == s.size - k
           kept == IF k = 0 THEN {} ELSE {Entry(s.addr, k)}
<1>1. /\ s.addr \in Nat /\ s.size \in 1..Size
      /\ UnitsOf(s.addr, s.size) \subseteq Held
      /\ UnitsOf(s.addr, s.size) \subseteq Space
      /\ UnitsOf(s.addr, s.size) \cap Cover(map) = {}
  BY SegFacts
<1>2. InOrder(map) /\ Cover(map) \subseteq Space BY MapFacts
<1>3. k \in Nat /\ a \in Nat /\ n \in Nat BY <1>1
<1>4. /\ UnitsOf(s.addr, s.size) = UnitsOf(s.addr, k) \cup UnitsOf(a, n)
      /\ UnitsOf(s.addr, k) \cap UnitsOf(a, n) = {}
  BY <1>1, <1>3 DEF UnitsOf
<1>5. /\ map' = Give(n, a) /\ segs' = (segs \ {s}) \cup kept
      /\ runin' = FALSE /\ asleep' = (asleep /\ ~runin) /\ UNCHANGED <<ret, want>>
  BY DEF Released, Mfree
<1> HIDE DEF a, n
<1>6. UnitsOf(a, n) \cap Cover(map) = {} BY <1>1, <1>4
<1>7. InOrder(map') /\ Cover(map') = Cover(map) \cup UnitsOf(a, n) BY <1>2, <1>3, <1>5, <1>6, GiveFacts
<1>8. \A t \in kept : /\ t \in [addr : Nat, size : 1..Size]
                      /\ t.addr = s.addr /\ t.size = k
  <2> SUFFICES ASSUME k # 0 PROVE /\ Entry(s.addr, k) \in [addr : Nat, size : 1..Size]
                                  /\ Entry(s.addr, k).addr = s.addr /\ Entry(s.addr, k).size = k
    OBVIOUS
  <2>1. k \in 1..Size BY <1>1, <1>3, SpaceFact
  <2> QED BY <1>1, <2>1 DEF Entry
<1>9. k = 0 => UnitsOf(s.addr, k) = {} BY <1>1 DEF UnitsOf
<1>10. k # 0 => \E t \in kept : t.addr = s.addr /\ t.size = k BY DEF Entry
<1>11. IsFiniteSet(segs')
  <2>1. IsFiniteSet(kept) BY FS_EmptySet, FS_Singleton
  <2>2. IsFiniteSet(segs \ {s}) BY FS_Subset DEF IInv, SegsOK
  <2> QED BY <1>5, <2>1, <2>2, FS_Union
<1> HIDE DEF kept
<1>12. /\ UnitsOf(s.addr, k) \subseteq UnitsOf(s.addr, s.size)
       /\ UnitsOf(a, n) \subseteq UnitsOf(s.addr, s.size)
  BY <1>4
<1>13. \A t \in segs : t # s => UnitsOf(t.addr, t.size) \cap UnitsOf(s.addr, s.size) = {}
  BY DEF IInv, SegsOK
<1>14. \A t \in segs : UnitsOf(t.addr, t.size) \subseteq Space BY DEF IInv, SegsOK
<1>15. \A t \in segs' : (t \in segs /\ t # s) \/ (t \in kept /\ t.addr = s.addr /\ t.size = k)
  BY <1>5, <1>8
<1>16. \A t \in kept, r \in kept : t = r BY DEF kept
<1>17. SegsOK'
  <2>1. \A t \in segs' : UnitsOf(t.addr, t.size) \subseteq Space BY <1>1, <1>12, <1>14, <1>15
  <2>2. ASSUME NEW t \in segs', NEW r \in segs', t # r
        PROVE  UnitsOf(t.addr, t.size) \cap UnitsOf(r.addr, r.size) = {}
    <3>1. CASE t \in segs /\ t # s /\ r \in segs /\ r # s BY <2>2, <3>1 DEF IInv, SegsOK
    <3>2. CASE t \in segs /\ t # s /\ r \in kept /\ r.addr = s.addr /\ r.size = k
      BY <1>12, <1>13, <3>2
    <3>3. CASE r \in segs /\ r # s /\ t \in kept /\ t.addr = s.addr /\ t.size = k
      BY <1>12, <1>13, <3>3
    <3> QED BY <1>15, <1>16, <2>2, <3>1, <3>2, <3>3
  <2> QED BY <1>11, <2>1, <2>2 DEF SegsOK, Space
<1>18. Held' = Held \ UnitsOf(a, n)
  <2>1. Held' = UNION {UnitsOf(t.addr, t.size) : t \in segs'} BY DEF Held
  <2>2. ASSUME NEW x \in Held' PROVE x \in Held \ UnitsOf(a, n)
    <3>1. PICK t \in segs' : x \in UnitsOf(t.addr, t.size) BY <2>1, <2>2
    <3>2. CASE t \in segs /\ t # s BY <1>12, <1>13, <3>1, <3>2 DEF Held
    <3>3. CASE t.addr = s.addr /\ t.size = k BY <1>1, <1>4, <1>12, <3>1, <3>3
    <3> QED BY <1>15, <3>2, <3>3
  <2>3. ASSUME NEW x \in Held, x \notin UnitsOf(a, n) PROVE x \in Held'
    <3>1. PICK t \in segs : x \in UnitsOf(t.addr, t.size) BY DEF Held
    <3>2. CASE t # s BY <1>5, <2>1, <3>1, <3>2
    <3>3. CASE t = s
      <4>1. x \in UnitsOf(s.addr, k) BY <1>4, <2>3, <3>1, <3>3
      <4>2. PICK r \in kept : r.addr = s.addr /\ r.size = k BY <1>9, <1>10, <4>1
      <4> QED BY <1>5, <2>1, <4>1, <4>2
    <3> QED BY <3>2, <3>3
  <2> QED BY <2>2, <2>3
<1>19. Partition' BY <1>1, <1>7, <1>12, <1>18 DEF IInv, Partition, Space
<1>20. Cover(map') \subseteq Space BY <1>1, <1>2, <1>7, <1>12
<1>21. asleep' = FALSE BY <1>5 DEF IInv, NoIdleRoom, TypeOK
<1>22. TypeOK'
  <2>1. map' \in Seq([addr : Nat, size : 1..Size]) BY <1>7, <1>20, MapType
  <2>2. segs' \subseteq [addr : Nat, size : 1..Size] BY <1>5, <1>8 DEF IInv, TypeOK
  <2>3. ret' \in (Nat \X Nat) /\ want' \in Sizes \cup {0} /\ runin' \in BOOLEAN /\ asleep' \in BOOLEAN
    BY <1>5, <1>21 DEF IInv, TypeOK
  <2> QED BY <2>1, <2>2, <2>3 DEF TypeOK
<1>23. InOrder(map)' BY <1>7 DEF InOrder
<1> QED BY <1>7, <1>17, <1>19, <1>21, <1>22, <1>23 DEF IInv, NoIdleRoom, SleepsFor, a, n

(* startup: the whole space is one entry.                                  *)
LEMMA InitIInv == Init => IInv /\ Cover(map) = Space
<1> SUFFICES ASSUME Init PROVE IInv /\ Cover(map) = Space OBVIOUS
<1> DEFINE e == Entry(Base, Size)
<1>1. e \in Span /\ e \in [addr : Nat, size : 1..Size] /\ e.addr = Base /\ End(e) = Base + Size
  BY SpaceFact DEF Span, Entry, End
<1> HIDE DEF e
<1>2. map = <<e>> BY DEF Init, e
<1>3. map \in Seq(Span) /\ map \in Seq([addr : Nat, size : 1..Size]) /\ Len(map) = 1 /\ map[1] = e
  BY <1>1, <1>2
<1>4. InOrder(map) BY <1>3 DEF InOrder
<1>5. \A x : x \in Cover(map) <=> x \in Space
  <2> TAKE x
  <2>1. (\E i \in 1..Len(map) : map[i].addr <= x /\ x < End(map[i])) <=> Base <= x /\ x < Base + Size
    BY <1>1, <1>3
  <2>2. x \in Cover(map) <=> x \in Nat /\ Base <= x /\ x < Base + Size BY <1>4, <2>1, InCover
  <2> QED BY <2>2, SpaceFact DEF Space
<1>6. Held = {} BY DEF Init, Held
<1>7. Cover(map) = Space /\ Partition BY <1>5, <1>6 DEF Partition
<1>8. SegsOK BY FS_EmptySet DEF Init, SegsOK
<1>9. TypeOK BY <1>3 DEF Init, TypeOK
<1> QED BY <1>4, <1>7, <1>8, <1>9 DEF Init, IInv, NoIdleRoom, SleepsFor

(* newproc, expand and xexpand take core, which wakes nobody and leaves    *)
(* the scheduler with no more room than before.                            *)
LEMMA AllocateKeeps ==
  ASSUME IInv, NEW n \in Sizes, Allocate(n)
  PROVE  IInv'
<1>1. /\ map' \in Seq([addr : Nat, size : 1..Size])
      /\ segs' \subseteq [addr : Nat, size : 1..Size]
      /\ ret' \in Nat \X Nat
      /\ InOrder(map)' /\ SegsOK' /\ Partition'
      /\ \A w \in Nat : FirstFit(w) = {} => FirstFit(w)' = {}
  BY MallocKeeps DEF Allocate
<1>2. UNCHANGED <<want, runin, asleep>> BY DEF Allocate
<1>3. want \in Nat BY SizesAssumption DEF IInv, TypeOK
<1>5. FirstFit(want) = {} => FirstFit(want)' = {} BY <1>1, <1>2, <1>3 DEF FirstFit
<1>6. NoIdleRoom' /\ SleepsFor' BY <1>2, <1>5 DEF IInv, NoIdleRoom, SleepsFor
<1>7. TypeOK' BY <1>1, <1>2 DEF IInv, TypeOK
<1> QED BY <1>1, <1>6, <1>7 DEF IInv

(* sched chooses a process while it does not sleep.                        *)
LEMMA SchedSelectKeeps ==
  ASSUME IInv, NEW n \in Sizes, SchedSelect(n)
  PROVE  IInv'
<1>1. UNCHANGED <<map, segs, ret, runin, asleep>> /\ want' = n /\ want = 0 BY DEF SchedSelect
<1>2. asleep' = FALSE BY <1>1 DEF IInv, SleepsFor, TypeOK
<1>3. InOrder(map)' /\ SegsOK' /\ Partition' BY <1>1 DEF IInv, InOrder, SegsOK, Partition, Held
<1>4. TypeOK' BY <1>1 DEF IInv, TypeOK
<1> QED BY <1>2, <1>3, <1>4 DEF IInv, NoIdleRoom, SleepsFor

(* sched goes to sleep only when malloc has just failed.                   *)
LEMMA SchedSwapinKeeps ==
  ASSUME IInv, SchedSwapin
  PROVE  IInv'
<1>1. want \in Sizes /\ want # 0 /\ asleep = FALSE /\ Malloc(want) BY DEF SchedSwapin, IInv, TypeOK
<1>a. PICK n \in Sizes : n = want /\ n # 0 /\ Malloc(n) BY <1>1
<1>2. /\ map' \in Seq([addr : Nat, size : 1..Size])
      /\ segs' \subseteq [addr : Nat, size : 1..Size]
      /\ ret' \in Nat \X Nat
      /\ InOrder(map)' /\ SegsOK' /\ Partition'
      /\ ret'[2] = 0 => FirstFit(n)' = {}
  BY <1>a, MallocKeeps
<1>3. CASE ret'[2] # 0
  <2>1. want' = 0 /\ runin' = runin /\ asleep' = FALSE BY <1>1, <1>3 DEF SchedSwapin
  <2>2. TypeOK' BY <1>2, <2>1 DEF IInv, TypeOK
  <2> QED BY <1>2, <2>1, <2>2 DEF IInv, NoIdleRoom, SleepsFor
<1>4. CASE ret'[2] = 0
  <2>1. want' = want /\ runin' = TRUE /\ asleep' = TRUE BY <1>4 DEF SchedSwapin
  <2>2. FirstFit(want)' = {} BY <1>a, <1>2, <1>4, <2>1 DEF FirstFit
  <2>3. TypeOK' BY <1>2, <2>1 DEF IInv, TypeOK
  <2> QED BY <1>1, <1>2, <2>1, <2>2, <2>3 DEF IInv, NoIdleRoom, SleepsFor
<1> QED BY <1>3, <1>4

(* The clock wakes the scheduler.                                          *)
LEMMA ProdKeeps ==
  ASSUME IInv, Prod \/ UNCHANGED vars
  PROVE  IInv'
<1>1. UNCHANGED <<map, segs, ret, want>> BY DEF Prod, vars
<1>2. \/ runin' = FALSE /\ asleep' = FALSE
      \/ UNCHANGED <<runin, asleep>>
  BY DEF Prod, vars
<1>3. InOrder(map)' /\ SegsOK' /\ Partition' BY <1>1 DEF IInv, InOrder, SegsOK, Partition, Held
<1>4. TypeOK' BY <1>1, <1>2 DEF IInv, TypeOK
<1>5. NoIdleRoom' /\ SleepsFor' BY <1>1, <1>2 DEF IInv, NoIdleRoom, SleepsFor, FirstFit
<1> QED BY <1>3, <1>4, <1>5 DEF IInv

(* Every step keeps the invariant.                                         *)
LEMMA NextKeeps == IInv /\ [Next]_vars => IInv'
<1> SUFFICES ASSUME IInv, [Next]_vars PROVE IInv' OBVIOUS
<1>1. ASSUME NEW n \in Sizes, Allocate(n) \/ SchedSelect(n) PROVE IInv'
  BY <1>1, AllocateKeeps, SchedSelectKeeps
<1>2. ASSUME NEW s \in segs, Free(s) PROVE IInv'
  <2>1. Released(s, 0) BY <1>2, FreeReleases
  <2>2. 0 \in 0..s.size BY SegFacts
  <2> QED BY <2>1, <2>2, MfreeKeeps
<1>3. ASSUME NEW s \in segs, NEW k \in 1..s.size, Shrink(s, k) PROVE IInv'
  <2>1. Released(s, k) BY <1>3, ShrinkReleases
  <2>2. k \in 0..s.size BY SegFacts
  <2> QED BY <2>1, <2>2, MfreeKeeps
<1>4. CASE SchedSwapin BY <1>4, SchedSwapinKeeps
<1>5. CASE Prod \/ UNCHANGED vars BY <1>5, ProdKeeps
<1> QED BY <1>1, <1>2, <1>3, <1>4, <1>5 DEF Next

(* The invariant holds in every reachable state.                           *)
THEOREM MapInvariant == Spec => []IInv
<1>1. Init => IInv BY InitIInv
<1>2. IInv /\ [Next]_vars => IInv' BY NextKeeps
<1> QED BY <1>1, <1>2, PTL DEF Spec

(* The addresses of the map are increasing and no two entries touch: mfree *)
(* has combined them.                                                      *)
THEOREM MapIsSorted == Spec => []MapSorted
<1>1. IInv => MapSorted
  <2> SUFFICES ASSUME IInv PROVE MapSorted OBVIOUS
  <2>1. TypeOK /\ InOrder(map) /\ Len(map) \in Nat BY MapFacts DEF IInv
  <2>2. ASSUME NEW i \in 1..(Len(map) - 1) PROVE End(map[i]) < map[i + 1].addr
    <3>1. i \in 1..Len(map) /\ i + 1 \in 1..Len(map) /\ i < i + 1 BY <2>1
    <3> QED BY <2>1, <3>1 DEF InOrder
  <2> QED BY <2>1, <2>2 DEF MapSorted
<1> QED BY <1>1, MapInvariant, PTL

(* The scheduler does not sleep on while there is room: whichever mfree    *)
(* makes it, wakes it.                                                     *)
THEOREM MapNoIdleRoom == Spec => []NoIdleRoom
<1>1. IInv => NoIdleRoom BY DEF IInv
<1> QED BY <1>1, MapInvariant, PTL

(* Between two neighbours of the map lies a segment in use, so that the    *)
(* map of CMAPSIZ entries is not overrun while fewer segments are in use.  *)
THEOREM MapHolesBounded == Spec => []HolesBounded
<1>1. IInv => HolesBounded
  <2> SUFFICES ASSUME IInv PROVE HolesBounded OBVIOUS
  <2> DEFINE I == 1..(Len(map) - 1)
             At(s, i) == End(map[i]) \in UnitsOf(s.addr, s.size)
             f == [i \in I |-> CHOOSE s \in segs : At(s, i)]
  <2>1. InOrder(map) /\ Len(map) \in Nat /\ Partition BY MapFacts DEF IInv
  <2>2. \A i \in 1..Len(map) :
          /\ map[i].addr \in Nat /\ End(map[i]) \in Nat /\ map[i].addr < End(map[i])
          /\ map[i].addr \in Space /\ End(map[i]) <= Base + Size
    BY <2>1, EntryFacts, MapFacts
  <2>3. ASSUME NEW i \in I PROVE \E s \in segs : At(s, i)
    <3>1. i \in 1..Len(map) /\ i + 1 \in 1..Len(map) /\ i < i + 1 BY <2>1
    <3>2. End(map[i]) < map[i + 1].addr BY <2>1, <3>1 DEF InOrder
    <3>a. /\ Base <= map[i].addr /\ map[i].addr < End(map[i])
          /\ map[i].addr \in Nat /\ End(map[i]) \in Nat
      BY <2>2, <3>1, SpaceFact DEF Space
    <3>b. map[i + 1].addr \in Nat /\ map[i + 1].addr <= Base + Size - 1
      BY <2>2, <3>1, SpaceFact DEF Space
    <3>c. Base <= End(map[i]) /\ End(map[i]) <= Base + Size - 1 BY <3>2, <3>a, <3>b, SpaceFact
    <3>3. End(map[i]) \in Space BY <3>a, <3>c, SpaceFact DEF Space
    <3>4. End(map[i]) \notin Cover(map) BY <2>1, <3>1, EndNotFree
    <3>5. End(map[i]) \in Held BY <2>1, <3>3, <3>4 DEF Partition
    <3> QED BY <3>5 DEF Held
  <2>4. ASSUME NEW i \in I, NEW j \in I, i < j, NEW s \in segs, At(s, i), At(s, j) PROVE FALSE
    <3>1. i \in 1..Len(map) /\ j \in 1..Len(map) BY <2>1
    <3>2. End(map[i]) < map[j].addr BY <2>1, <2>4, <3>1 DEF InOrder
    <3>3. s.addr \in Nat /\ s.size \in Nat BY SegFacts
    <3>4. map[j].addr \in UnitsOf(s.addr, s.size)
      <4>1. End(map[i]) \in UnitsOf(s.addr, s.size) /\ End(map[j]) \in UnitsOf(s.addr, s.size)
        BY <2>4
      <4>2. /\ End(map[i]) \in Nat /\ End(map[j]) \in Nat /\ map[j].addr \in Nat
            /\ map[j].addr < End(map[j])
        BY <2>2, <3>1, Zenon
      <4>3. \A a, n, d, x, e \in Nat :
              d \in UnitsOf(a, n) /\ e \in UnitsOf(a, n) /\ d < x /\ x < e => x \in UnitsOf(a, n)
        BY DEF UnitsOf
      <4> QED BY <3>2, <3>3, <4>1, <4>2, <4>3, Zenon
    <3>5. \E k \in 1..Len(map) : map[k].addr <= map[j].addr /\ map[j].addr < End(map[k])
      BY <2>2, <3>1
    <3>6. map[j].addr \in Cover(map) BY <2>1, <2>2, <3>1, <3>5, InCover
    <3> QED BY <3>4, <3>6, SegFacts
  <2> HIDE DEF At
  <2>5. \A i \in I : f[i] \in segs /\ At(f[i], i) BY <2>3
  <2>6. f \in [I -> segs] BY <2>5
  <2> HIDE DEF f
  <2>7. \A i, j \in I : f[i] = f[j] => i = j BY <2>1, <2>4, <2>5
  <2>8. f \in Injection(I, segs) BY <2>6, <2>7 DEF Injection, IsInjective
  <2>9. IsFiniteSet(segs) /\ Cardinality(segs) \in Nat BY FS_CardinalityType DEF IInv, SegsOK
  <2>10. Cardinality(I) <= Cardinality(segs) BY <2>8, <2>9, FS_Injection
  <2>11. Len(map) > 0 => Cardinality(I) = Len(map) - 1
    <3>1. 1 \in Int /\ Len(map) - 1 \in Int BY <2>1
    <3>2. Cardinality(I) = IF 1 > Len(map) - 1 THEN 0 ELSE Len(map) - 1 - 1 + 1 BY <3>1, FS_Interval
    <3> QED BY <2>1, <3>2
  <2> QED BY <2>1, <2>9, <2>10, <2>11 DEF HolesBounded
<1> QED BY <1>1, MapInvariant, PTL

----------------------------------------------------------------------------
(* The map implements the arena: Cover(map) is the set of free units.      *)
avars == <<Cover(map), segs, ret>>

(* The runs of free units that fit are those within a large enough entry.  *)
LEMMA MallocStep ==
  ASSUME IInv, NEW n \in Sizes, Malloc(n)
  PROVE  Abstract!ANext
<1>1. n \in Nat \ {0} BY SizesAssumption
<1>2. InOrder(map) BY MapFacts
<1> DEFINE Fits == Abstract!Fits(n)
<1>3. \A x : x \in Fits <=> x \in Cover(map) /\ UnitsOf(x, n) \subseteq Cover(map)
  BY DEF Abstract!Fits, Abstract!UnitsOf, UnitsOf, Cover
<1> HIDE DEF Fits
<1>4. ASSUME NEW x \in Fits
      PROVE  x \in Nat /\ \E j \in 1..Len(map) : map[j].addr <= x /\ map[j].size >= n
  <2>1. x \in Nat BY <1>2, <1>3, InCover
  <2> QED BY <1>1, <1>2, <1>3, <2>1, RunInEntry
<1>5. CASE FirstFit(n) = {} /\ ret' = <<n, 0>> /\ UNCHANGED <<map, segs>>
  <2>1. Fits = {} BY <1>1, <1>2, <1>4, <1>5, FirstFitFound
  <2>2. UNCHANGED Cover(map) BY <1>5 DEF Cover
  <2>3. Abstract!NoRoom(n) BY <1>5, <2>1, <2>2 DEF Abstract!NoRoom, Cover, Fits
  <2> QED BY <2>3 DEF Abstract!ANext
<1>6. ASSUME NEW i \in FirstFit(n), map' = Carve(i, n),
             segs' = segs \cup {Entry(map[i].addr, n)}, ret' = <<n, map[i].addr>>
      PROVE  Abstract!ANext
  <2>1. i \in 1..Len(map) /\ map[i].size >= n /\ \A j \in 1..(i - 1) : map[j].size < n
    BY DEF FirstFit
  <2>2. \A j \in 1..Len(map) :
          /\ map[j].addr \in Nat /\ map[j].size \in Nat /\ End(map[j]) \in Nat
          /\ map[j].addr < End(map[j])
    BY <1>2, EntryFacts
  <2>3. UnitsOf(map[i].addr, n) \subseteq Cover(map) BY <1>1, <1>2, <2>1, <2>2, EntryFree
  <2>4. map[i].addr \in Fits
    <3>1. map[i].addr \in UnitsOf(map[i].addr, n) BY <1>1, <2>1, <2>2 DEF UnitsOf
    <3> QED BY <1>3, <2>3, <3>1
  <2>5. ASSUME NEW x \in Fits PROVE map[i].addr <= x
    <3>1. PICK j \in 1..Len(map) : x \in Nat /\ map[j].addr <= x /\ map[j].size >= n BY <1>4
    <3>2. ~(j < i) BY <1>1, <2>1, <2>2, <3>1
    <3>a. i \in Nat /\ j \in Nat BY <2>1, MapFacts
    <3>b. j = i \/ i < j BY <3>2, <3>a
    <3>3. j = i \/ End(map[i]) < map[j].addr BY <1>2, <2>1, <3>b DEF InOrder
    <3> QED BY <2>1, <2>2, <3>1, <3>3
  <2>6. Cover(map') = Cover(map) \ UnitsOf(map[i].addr, n)
    BY <1>1, <1>2, <1>6, <2>1, <2>2, CarveFacts
  <2>7. Abstract!Take(n)
    BY <1>6, <2>4, <2>5, <2>6 DEF Abstract!Take, Abstract!UnitsOf, UnitsOf, Entry, Cover, Fits
  <2> QED BY <2>7 DEF Abstract!ANext
<1> QED BY <1>5, <1>6 DEF Malloc

(* Giving units back makes them free; giving back none is not seen.        *)
LEMMA MfreeStep ==
  ASSUME IInv, NEW s \in segs, NEW k \in 0..s.size, Released(s, k)
  PROVE  Abstract!ANext \/ UNCHANGED avars
<1>1. s.addr \in Nat /\ s.size \in Nat /\ s = Entry(s.addr, s.size) /\ s.size # 0 BY SegFacts
<1>2. Cover(map') = Cover(map) \cup UnitsOf(s.addr + k, s.size - k) BY MfreeKeeps
<1>3. ret' = ret /\ segs' = (segs \ {s}) \cup (IF k = 0 THEN {} ELSE {Entry(s.addr, k)})
  BY DEF Released, Mfree
<1>4. CASE k = s.size
  <2>1. UnitsOf(s.addr + k, s.size - k) = {} BY <1>1, <1>4 DEF UnitsOf
  <2>2. Cover(map)' = Cover(map) BY <1>2, <2>1 DEF Cover
  <2>3. segs' = segs BY <1>1, <1>3, <1>4
  <2> QED BY <1>3, <2>2, <2>3 DEF avars
<1>5. CASE k # s.size
  <2>1. k \in 0..(s.size - 1) BY <1>1, <1>5
  <2>2. [s EXCEPT !.size = k] = Entry(s.addr, k)
    <3>1. [Entry(s.addr, s.size) EXCEPT !.size = k] = Entry(s.addr, k) BY DEF Entry
    <3> QED BY <1>1, <3>1
  <2>3. Abstract!GiveBack(s, k)
    BY <1>2, <1>3, <2>2 DEF Abstract!GiveBack, Abstract!UnitsOf, UnitsOf, Cover
  <2> QED BY <2>1, <2>3 DEF Abstract!ANext
<1> QED BY <1>4, <1>5

(* malloc fails only if no run of free units is long enough, takes the     *)
(* lowest that is, and mfree gives back what it is told: no unit is handed *)
(* out twice, and none is lost.                                            *)
THEOREM MapImplementsArena == Spec => ImplementsArena
<1>1. Init => Abstract!AInit
  <2> SUFFICES ASSUME Init PROVE Abstract!AInit OBVIOUS
  <2>1. Cover(map) = Space BY InitIInv
  <2> QED BY <2>1 DEF Init, Abstract!AInit, Cover, Space
<1>2. IInv /\ [Next]_vars => Abstract!ANext \/ UNCHANGED avars
  <2> SUFFICES ASSUME IInv, [Next]_vars PROVE Abstract!ANext \/ UNCHANGED avars OBVIOUS
  <2>1. ASSUME NEW n \in Sizes, Allocate(n) PROVE Abstract!ANext BY <2>1, MallocStep DEF Allocate
  <2>2. ASSUME NEW n \in Sizes, SchedSelect(n) PROVE UNCHANGED avars
    BY <2>2 DEF SchedSelect, avars, Cover
  <2>3. ASSUME NEW s \in segs, Free(s) PROVE Abstract!ANext \/ UNCHANGED avars
    <3>1. Released(s, 0) BY <2>3, FreeReleases
    <3>2. 0 \in 0..s.size BY SegFacts
    <3> QED BY <3>1, <3>2, MfreeStep
  <2>4. ASSUME NEW s \in segs, NEW k \in 1..s.size, Shrink(s, k) PROVE Abstract!ANext \/ UNCHANGED avars
    <3>1. Released(s, k) BY <2>4, ShrinkReleases
    <3>2. k \in 0..s.size BY SegFacts
    <3> QED BY <3>1, <3>2, MfreeStep
  <2>5. CASE SchedSwapin
    <3>1. PICK n \in Sizes : n = want /\ Malloc(n) BY <2>5 DEF SchedSwapin, IInv, TypeOK
    <3> QED BY <3>1, MallocStep
  <2>6. CASE Prod \/ UNCHANGED vars BY <2>6 DEF Prod, vars, avars, Cover
  <2> QED BY <2>1, <2>2, <2>3, <2>4, <2>5, <2>6 DEF Next
<1>3. (Abstract!ANext \/ UNCHANGED avars) =>
        [Abstract!ANext]_<<UNION {map[i].addr..(End(map[i]) - 1) : i \in 1..Len(map)}, segs, ret>>
  BY DEF avars, Cover
<1>4. Spec => []IInv BY MapInvariant
<1> QED BY <1>1, <1>2, <1>3, <1>4, PTL DEF Spec, ImplementsArena, Abstract!ASpec

----------------------------------------------------------------------------
(* The time-out table.                                                     *)

Entries == [time : Nat, call : Calls]

(* When an entry is due: the entries before it and its own, added up.      *)
LEMMA DueIs ==
  ASSUME NEW t \in Seq(Entries)
  PROVE  /\ DueTimes(t)[0] = 0
         /\ \A i \in 1..Len(t) : DueTimes(t)[i] = DueTimes(t)[i - 1] + t[i].time
<1> DEFINE Loop(a) == a = [i \in 0..Len(t) |-> IF i = 0 THEN 0 ELSE a[i - 1] + t[i].time]
           f == CHOOSE a : Loop(a)
           Up(a, n) == a = [i \in 0..n |-> IF i = 0 THEN 0 ELSE a[i - 1] + t[i].time]
           T == {n \in 0..Len(t) : \A a : ~Up(a, n)}
<1>1. Len(t) \in Nat OBVIOUS
<1>2. DueTimes(t) = f BY Zenon DEF DueTimes
<1>3. \E a : Loop(a)
  <2> SUFFICES ASSUME \A a : ~Loop(a) PROVE FALSE OBVIOUS
  <2>1. Len(t) \in T
    <3>1. \A a : ~Up(a, Len(t)) BY Zenon
    <3> HIDE DEF Up
    <3> QED BY <1>1, <3>1
  <2>2. PICK n \in T : \A i \in T : n <= i
    <3>1. T \subseteq Nat OBVIOUS
    <3> HIDE DEF T
    <3> QED BY <2>1, <3>1, Least
  <2>3. CASE n = 0
    <3> DEFINE a == [x \in 0..0 |-> 0]
    <3>1. \A x \in 0..0 : x = 0 OBVIOUS
    <3>2. a = [x \in 0..0 |-> IF x = 0 THEN 0 ELSE a[x - 1] + t[x].time] BY <3>1
    <3>3. Up(a, 0) BY <3>2, Zenon
    <3> HIDE DEF Up
    <3> QED BY <2>2, <2>3, <3>3
  <2>4. CASE n # 0
    <3>1. n \in 0..Len(t) /\ n - 1 \in 0..Len(t) /\ ~(n <= n - 1) /\ n \in Nat BY <1>1, <2>2, <2>4
    <3>2. PICK b : Up(b, n - 1)
      <4>1. n - 1 \notin T BY <2>2, <3>1
      <4> HIDE DEF Up
      <4> QED BY <3>1, <4>1
    <3> DEFINE a == [x \in 0..n |-> IF x = n THEN b[n - 1] + t[n].time ELSE b[x]]
    <3>3. \A x \in 0..(n - 1) : b[x] = IF x = 0 THEN 0 ELSE b[x - 1] + t[x].time BY <3>2, Zenon
    <3>4. \A x \in 0..n : a[x] = IF x = n THEN b[n - 1] + t[n].time ELSE b[x] OBVIOUS
    <3> HIDE DEF a
    <3>5. \A x \in 0..n : a[x] = IF x = 0 THEN 0 ELSE a[x - 1] + t[x].time
      <4> TAKE x \in 0..n
      <4>1. CASE x = 0
        <5>1. 0 \in 0..(n - 1) /\ 0 # n BY <2>4, <3>1
        <5> QED BY <3>3, <3>4, <4>1, <5>1
      <4>2. CASE x # 0 /\ x = n
        <5>1. n - 1 \in 0..n /\ n - 1 # n BY <3>1, <4>2
        <5>2. a[n - 1] = b[n - 1] BY <3>4, <5>1
        <5> QED BY <3>4, <4>2, <5>2
      <4>3. CASE x # 0 /\ x # n
        <5>1. x \in 0..(n - 1) /\ x - 1 \in 0..n /\ x - 1 # n BY <3>1, <4>3
        <5>2. a[x] = b[x] /\ a[x - 1] = b[x - 1] BY <3>4, <4>3, <5>1
        <5> QED BY <3>3, <4>3, <5>1, <5>2
      <4> QED BY <4>1, <4>2, <4>3
    <3>6. a = [x \in 0..n |-> a[x]] BY DEF a
    <3>7. Up(a, n) BY <3>5, <3>6, Zenon
    <3> HIDE DEF Up
    <3> QED BY <2>2, <3>7
  <2> QED BY <2>3, <2>4
<1>4. Loop(f) BY <1>3, Zenon
<1> HIDE DEF f
<1>5. \A x \in 0..Len(t) : f[x] = IF x = 0 THEN 0 ELSE f[x - 1] + t[x].time BY <1>4, Zenon
<1>6. 0 \in 0..Len(t) /\ \A x \in 1..Len(t) : x \in 0..Len(t) /\ x # 0 BY <1>1
<1>7. f[0] = 0 BY <1>5, <1>6
<1>8. \A x \in 1..Len(t) : f[x] = f[x - 1] + t[x].time BY <1>5, <1>6
<1> QED BY <1>2, <1>7, <1>8

(* Every entry is due after a number of ticks.                             *)
LEMMA DueNat ==
  ASSUME NEW t \in Seq(Entries)
  PROVE  \A i \in 0..Len(t) : DueTimes(t)[i] \in Nat
<1> DEFINE T == {i \in 0..Len(t) : DueTimes(t)[i] \notin Nat}
<1> SUFFICES ASSUME T # {} PROVE FALSE OBVIOUS
<1>1. PICK n \in T : \A i \in T : n <= i
  <2>1. T \subseteq Nat OBVIOUS
  <2> HIDE DEF T
  <2> QED BY <2>1, Least
<1>2. n \in 1..Len(t) BY DueIs
<1>3. DueTimes(t)[n - 1] \in Nat BY <1>1, <1>2
<1>4. t[n].time \in Nat
  <2>1. t[n] \in Entries BY <1>2
  <2> QED BY <2>1 DEF Entries
<1>5. DueTimes(t)[n] \in Nat BY <1>2, <1>3, <1>4, DueIs
<1> QED BY <1>1, <1>5

(* What two tables have the same entries along is due at the same distance *)
(* in both.                                                                *)
LEMMA DueAlong ==
  ASSUME NEW t \in Seq(Entries), NEW u \in Seq(Entries),
         NEW a \in 0..Len(t), NEW b \in a..Len(t), NEW p \in 0..Len(u), NEW q \in p..Len(u),
         q - p = b - a, \A j \in 1..(b - a) : u[p + j].time = t[a + j].time
  PROVE  DueTimes(u)[q] - DueTimes(u)[p] = DueTimes(t)[b] - DueTimes(t)[a]
<1> DEFINE Same(i) == DueTimes(u)[p + i] - DueTimes(u)[p] = DueTimes(t)[a + i] - DueTimes(t)[a]
           T == {i \in 0..(b - a) : ~Same(i)}
<1>1. \A i \in 0..(b - a) : /\ a + i \in 0..Len(t) /\ p + i \in 0..Len(u)
                            /\ DueTimes(t)[a + i] \in Nat /\ DueTimes(u)[p + i] \in Nat
  <2> TAKE i \in 0..(b - a)
  <2>1. a + i \in 0..Len(t) /\ p + i \in 0..Len(u) OBVIOUS
  <2> QED BY <2>1, DueNat
<1>2. Same(0)
  <2>1. a + 0 = a /\ p + 0 = p /\ DueTimes(t)[a] \in Nat /\ DueTimes(u)[p] \in Nat BY DueNat
  <2> QED BY <2>1
<1>3. ASSUME T # {} PROVE FALSE
  <2>1. PICK n \in T : \A i \in T : n <= i
    <3>1. T \subseteq Nat OBVIOUS
    <3> HIDE DEF T
    <3> QED BY <1>3, <3>1, Least
  <2>2. n \in 0..(b - a) /\ ~Same(n) BY <2>1
  <2>3. n # 0 BY <1>2, <2>2
  <2>4. n \in 1..(b - a) /\ n - 1 \in 0..(b - a) /\ ~(n <= n - 1) BY <2>2, <2>3
  <2>5. Same(n - 1) BY <2>1, <2>4
  <2>6. /\ a + n \in 1..Len(t) /\ p + n \in 1..Len(u)
        /\ a + (n - 1) = (a + n) - 1 /\ p + (n - 1) = (p + n) - 1
    BY <2>4
  <2>7. t[a + n] \in Entries BY <2>6
  <2>8. u[p + n].time = t[a + n].time /\ t[a + n].time \in Nat BY <2>4, <2>7 DEF Entries
  <2>9. DueTimes(t)[a + n] = DueTimes(t)[a + (n - 1)] + t[a + n].time BY <2>6, DueIs
  <2>10. DueTimes(u)[p + n] = DueTimes(u)[p + (n - 1)] + t[a + n].time BY <2>6, <2>8, DueIs
  <2>11. DueTimes(t)[a] \in Nat /\ DueTimes(u)[p] \in Nat BY DueNat
  <2>12. DueTimes(t)[a + (n - 1)] \in Nat /\ DueTimes(u)[p + (n - 1)] \in Nat BY <1>1, <2>4
  <2> DEFINE w == DueTimes(t)[a + (n - 1)]
             x == DueTimes(u)[p + (n - 1)]
             y == DueTimes(t)[a + n]
             z == DueTimes(u)[p + n]
             v == t[a + n].time
             ct == DueTimes(t)[a]
             cu == DueTimes(u)[p]
  <2>13. x - cu = w - ct /\ y = w + v /\ z = x + v BY <2>5, <2>9, <2>10
  <2>14. w \in Nat /\ x \in Nat /\ v \in Nat /\ cu \in Nat /\ ct \in Nat BY <2>8, <2>11, <2>12
  <2>15. ~(z - cu = y - ct) BY <2>2
  <2> HIDE DEF w, x, y, z, v, ct, cu
  <2> QED BY <2>13, <2>14, <2>15
<1>4. Same(b - a)
  <2>1. b - a \in 0..(b - a) OBVIOUS
  <2> QED BY <1>3, <2>1
<1>5. a + (b - a) = b /\ p + (b - a) = q OBVIOUS
<1> QED BY <1>4, <1>5

(* No entry is due before one that is ahead of it.                         *)
LEMMA DueGrows ==
  ASSUME NEW t \in Seq(Entries), NEW i \in 0..Len(t), NEW j \in i..Len(t)
  PROVE  DueTimes(t)[i] <= DueTimes(t)[j]
<1> DEFINE T == {k \in i..Len(t) : ~(DueTimes(t)[i] <= DueTimes(t)[k])}
<1> SUFFICES ASSUME T # {} PROVE FALSE OBVIOUS
<1>1. PICK n \in T : \A k \in T : n <= k
  <2>1. T \subseteq Nat OBVIOUS
  <2> HIDE DEF T
  <2> QED BY <2>1, Least
<1>2. DueTimes(t)[i] \in Nat BY DueNat
<1>3. n \in (i + 1)..Len(t) /\ n - 1 \in i..Len(t) BY <1>2
<1>4. DueTimes(t)[i] <= DueTimes(t)[n - 1] BY <1>1, <1>3
<1>5. n \in 1..Len(t) /\ n - 1 \in 0..Len(t) BY <1>3
<1>6. t[n].time \in Nat
  <2>1. t[n] \in Entries BY <1>5
  <2> QED BY <2>1 DEF Entries
<1>7. DueTimes(t)[n - 1] \in Nat BY <1>5, DueNat
<1>8. DueTimes(t)[n] = DueTimes(t)[n - 1] + t[n].time BY <1>5, DueIs
<1> QED BY <1>1, <1>2, <1>4, <1>6, <1>7, <1>8

(* An entry is due now when it and all before it have counted down, and    *)
(* only then.                                                              *)
LEMMA DueNowIs ==
  ASSUME NEW t \in Seq(Entries), NEW i \in 0..Len(t)
  PROVE  DueTimes(t)[i] = 0 <=> \A j \in 1..i : t[j].time = 0
<1>1. ASSUME DueTimes(t)[i] = 0, NEW j \in 1..i PROVE t[j].time = 0
  <2>1. j \in 1..Len(t) /\ j - 1 \in 0..Len(t) /\ j \in 0..Len(t) /\ i \in j..Len(t) OBVIOUS
  <2>2. DueTimes(t)[j] <= 0 BY <1>1, <2>1, DueGrows
  <2>3. DueTimes(t)[j - 1] \in Nat /\ DueTimes(t)[j] \in Nat BY <2>1, DueNat
  <2>4. t[j].time \in Nat
    <3>1. t[j] \in Entries BY <2>1
    <3> QED BY <3>1 DEF Entries
  <2>5. DueTimes(t)[j] = DueTimes(t)[j - 1] + t[j].time BY <2>1, DueIs
  <2> QED BY <2>2, <2>3, <2>4, <2>5
<1>2. ASSUME \A j \in 1..i : t[j].time = 0 PROVE DueTimes(t)[i] = 0
  <2> DEFINE T == {k \in 0..i : DueTimes(t)[k] # 0}
  <2> SUFFICES ASSUME T # {} PROVE FALSE OBVIOUS
  <2>1. PICK n \in T : \A k \in T : n <= k
    <3>1. T \subseteq Nat OBVIOUS
    <3> HIDE DEF T
    <3> QED BY <3>1, Least
  <2>2. n \in 1..i /\ n - 1 \in 0..i BY DueIs
  <2>3. DueTimes(t)[n - 1] = 0 BY <2>1, <2>2
  <2>4. DueTimes(t)[n] = 0 BY <1>2, <2>2, <2>3, DueIs
  <2> QED BY <2>1, <2>4
<1> QED BY <1>1, <1>2

(* How long each call has left, for any table and any place in it.         *)
LeftOf(t, p) ==
  [c \in Calls |->
     IF c \in {t[i].call : i \in {k \in 1..Len(t) : k >= p}}
     THEN DueTimes(t)[CHOOSE i \in {k \in 1..Len(t) : k >= p} : t[i].call = c]
     ELSE NotPending]

(* No two entries whose call has not run are for the same call.            *)
Apart(t, p) == \A i, j \in 1..Len(t) : p <= i /\ i < j => t[i].call # t[j].call

(* A call that waits has left what its entry says; another has nothing.    *)
LEMMA LeftIs ==
  ASSUME NEW t \in Seq(Entries), NEW p \in Nat, Apart(t, p)
  PROVE  /\ \A i \in 1..Len(t) : p <= i => /\ t[i].call \in Calls
                                           /\ LeftOf(t, p)[t[i].call] = DueTimes(t)[i]
         /\ \A c \in Calls : (\A i \in 1..Len(t) : p <= i => t[i].call # c)
                               => LeftOf(t, p)[c] = NotPending
<1> DEFINE W == {k \in 1..Len(t) : k >= p}
<1>1. ASSUME NEW i \in 1..Len(t), p <= i
      PROVE  t[i].call \in Calls /\ LeftOf(t, p)[t[i].call] = DueTimes(t)[i]
  <2>1. t[i] \in Entries BY <1>1
  <2>2. t[i].call \in Calls BY <2>1 DEF Entries
  <2>3. i \in W BY <1>1
  <2>4. \A j \in W : t[j].call = t[i].call => j = i BY <1>1 DEF Apart
  <2> HIDE DEF W
  <2>5. (CHOOSE j \in W : t[j].call = t[i].call) = i BY <2>3, <2>4
  <2>6. t[i].call \in {t[j].call : j \in W} BY <2>3
  <2>7. LeftOf(t, p)[t[i].call] = DueTimes(t)[CHOOSE j \in W : t[j].call = t[i].call]
    BY <2>2, <2>6 DEF LeftOf, W
  <2> QED BY <2>2, <2>5, <2>7
<1>2. ASSUME NEW c \in Calls, \A i \in 1..Len(t) : p <= i => t[i].call # c
      PROVE  LeftOf(t, p)[c] = NotPending
  <2>1. c \notin {t[i].call : i \in W} BY <1>2
  <2> QED BY <2>1 DEF LeftOf, W
<1> QED BY <1>1, <1>2

(* Each call has an entry that waits, or none.                             *)
LEMMA LeftCases ==
  ASSUME NEW t \in Seq(Entries), NEW p \in Nat, Apart(t, p), NEW c \in Calls
  PROVE  \/ \E i \in 1..Len(t) : /\ p <= i /\ t[i].call = c /\ LeftOf(t, p)[c] = DueTimes(t)[i]
                                 /\ LeftOf(t, p)[c] \in Nat /\ LeftOf(t, p)[c] # NotPending
         \/ /\ \A i \in 1..Len(t) : p <= i => t[i].call # c
            /\ LeftOf(t, p)[c] = NotPending /\ LeftOf(t, p)[c] # 0
<1>1. CASE \E i \in 1..Len(t) : p <= i /\ t[i].call = c
  <2>1. PICK i \in 1..Len(t) : p <= i /\ t[i].call = c BY <1>1
  <2>2. LeftOf(t, p)[c] = DueTimes(t)[i] BY <2>1, LeftIs
  <2>3. DueTimes(t)[i] \in Nat BY DueNat
  <2> QED BY <2>1, <2>2, <2>3, NotPendingAssumption
<1>2. CASE \A i \in 1..Len(t) : p <= i => t[i].call # c
  <2>1. LeftOf(t, p)[c] = NotPending BY <1>2, LeftIs
  <2>2. NotPending # 0 BY NotPendingAssumption
  <2> QED BY <1>2, <2>1, <2>2
<1> QED BY <1>1, <1>2

----------------------------------------------------------------------------
(* What timeout does to a table.                                           *)

(* There is a place for the new entry, behind all that are due as soon.    *)
LEMMA SlotFacts ==
  ASSUME tab \in Seq(Entries), NEW tim \in Nat
  PROVE  /\ Slot(tim) \in 1..(Len(tab) + 1)
         /\ \A j \in 1..(Slot(tim) - 1) : DueIn(j) <= tim
         /\ Slot(tim) <= Len(tab) => DueIn(Slot(tim)) > tim
<1> DEFINE T == {i \in 1..(Len(tab) + 1) : i <= Len(tab) => DueIn(i) > tim}
<1>1. PICK n \in T : \A i \in T : n <= i
  <2>1. T \subseteq Nat /\ Len(tab) + 1 \in T OBVIOUS
  <2> HIDE DEF T
  <2> QED BY <2>1, Least
<1>2. \A j \in 1..(n - 1) : DueIn(j) <= tim
  <2> TAKE j \in 1..(n - 1)
  <2>1. j \in 1..(Len(tab) + 1) /\ ~(n <= j) /\ j \in 0..Len(tab) OBVIOUS
  <2>2. j \notin T BY <1>1, <2>1
  <2>3. ~(DueIn(j) > tim) BY <2>1, <2>2
  <2>4. DueIn(j) \in Nat BY <2>1, DueNat DEF DueIn
  <2> QED BY <2>3, <2>4
<1> QED BY <1>1, <1>2 DEF Slot

(* The state of the table: the calls that wait are apart, and the entries  *)
(* whose call has run are due.                                             *)
CalloutInv ==
  /\ tab \in Seq(Entries)
  /\ p1 \in 0..(Len(tab) + 1)
  /\ Apart(tab, p1)
  /\ \A i \in 1..Len(tab) : i < p1 => tab[i].time = 0

(* The new entry is due when it was asked for; what was there stays in     *)
(* order and is due when it was.                                           *)
LEMMA InsertIs ==
  ASSUME CalloutInv, NEW c \in Calls, NEW tim \in Nat
  PROVE  LET i == Slot(tim)
             u == Insert(c, tim)
         IN  /\ u \in Seq(Entries) /\ Len(u) = Len(tab) + 1 /\ i \in 1..Len(u) /\ p1 <= i
             /\ u[i].call = c /\ DueTimes(u)[i] = tim
             /\ \A j \in 1..Len(tab) : LET k == IF j < i THEN j ELSE j + 1
                                       IN  u[k].call = tab[j].call /\ DueTimes(u)[k] = DueTimes(tab)[j]
             /\ \A j \in 1..(i - 1) : u[j] = tab[j]
<1> DEFINE i == Slot(tim)
           u == Insert(c, tim)
           x == tim - DueIn(i - 1)
           g == IF i <= Len(tab) THEN [tab EXCEPT ![i].time = @ - x] ELSE tab
           D(j) == DueTimes(tab)[j]
<1>1. tab \in Seq(Entries) /\ Len(tab) \in Nat /\ tim \in Nat BY DEF CalloutInv
<1>2. /\ i \in 1..(Len(tab) + 1)
      /\ \A j \in 1..(i - 1) : D(j) <= tim
      /\ i <= Len(tab) => D(i) > tim
  BY <1>1, SlotFacts DEF DueIn
<1> HIDE DEF i
<1>3. u = InsertAt(g, i, [time |-> x, call |-> c]) BY DEF Insert, i
<1>4. \A j \in 0..Len(tab) : D(j) \in Nat BY <1>1, DueNat
<1>5. x = tim - D(i - 1) /\ D(i - 1) \in Nat /\ D(i - 1) <= tim /\ x \in Nat
  <2>1. i - 1 \in 0..Len(tab) BY <1>1, <1>2
  <2>2. D(i - 1) <= tim
    <3>1. CASE i = 1
      <4>1. D(0) = 0 BY <1>1, DueIs
      <4> QED BY <1>1, <3>1, <4>1
    <3>2. CASE i # 1
      <4>1. i - 1 \in 1..(i - 1) BY <1>2, <3>2
      <4> QED BY <1>2, <4>1
    <3> QED BY <3>1, <3>2
  <2>3. D(i - 1) \in Nat BY <1>4, <2>1
  <2>4. x = tim - D(i - 1) BY DEF DueIn
  <2> QED BY <1>1, <2>2, <2>3, <2>4
<1> HIDE DEF x
<1>6. /\ g \in Seq(Entries) /\ Len(g) = Len(tab)
      /\ \A j \in 1..Len(tab) : j # i => g[j] = tab[j]
      /\ \A j \in 1..Len(tab) : g[j].call = tab[j].call
      /\ i <= Len(tab) => g[i].time = tab[i].time - x
  <2>1. CASE i <= Len(tab)
    <3>1. i \in 1..Len(tab) /\ i - 1 \in 0..Len(tab) BY <1>2, <2>1
    <3>2. tab[i] \in Entries BY <1>1, <3>1
    <3>3. tab[i].time \in Nat /\ tab[i].call \in Calls BY <3>2 DEF Entries
    <3>4. D(i) = D(i - 1) + tab[i].time BY <1>1, <3>1, DueIs
    <3>5. tab[i].time - x \in Nat BY <1>1, <1>2, <1>4, <1>5, <2>1, <3>1, <3>3, <3>4
    <3> DEFINE e == [tab[i] EXCEPT !.time = @ - x]
    <3>6. e \in Entries /\ e.time = tab[i].time - x /\ e.call = tab[i].call
      BY <3>2, <3>5 DEF Entries
    <3>7. g = [tab EXCEPT ![i] = e] BY <2>1
    <3> HIDE DEF g, e
    <3>8. g \in Seq(Entries) /\ Len(g) = Len(tab) BY <1>1, <3>1, <3>6, <3>7
    <3>9. g[i] = e /\ \A j \in 1..Len(tab) : j # i => g[j] = tab[j] BY <1>1, <3>1, <3>7
    <3> QED BY <3>6, <3>8, <3>9
  <2>2. CASE ~(i <= Len(tab))
    <3>1. g = tab BY <2>2
    <3> HIDE DEF g
    <3> QED BY <1>1, <2>2, <3>1
  <2> QED BY <2>1, <2>2
<1> HIDE DEF g
<1>7. [time |-> x, call |-> c] \in Entries BY <1>5 DEF Entries
<1>8. /\ u \in Seq(Entries) /\ Len(u) = Len(tab) + 1
      /\ \A j \in 1..(i - 1) : u[j] = g[j]
      /\ u[i] = [time |-> x, call |-> c]
      /\ \A j \in (i + 1)..(Len(tab) + 1) : u[j] = g[j - 1]
  <2> DEFINE e == [time |-> x, call |-> c]
  <2>1. u = InsertAt(g, i, e) /\ e \in Entries BY <1>3, <1>7
  <2>2. i \in 1..(Len(g) + 1) /\ Len(g) = Len(tab) /\ g \in Seq(Entries) BY <1>2, <1>6
  <2> HIDE DEF e, u
  <2>3. /\ InsertAt(g, i, e) \in Seq(Entries)
        /\ Len(InsertAt(g, i, e)) = Len(g) + 1
        /\ \A j \in 1..(i - 1) : InsertAt(g, i, e)[j] = g[j]
        /\ InsertAt(g, i, e)[i] = e
        /\ \A j \in (i + 1)..(Len(g) + 1) : InsertAt(g, i, e)[j] = g[j - 1]
    BY <2>1, <2>2, InsertFacts
  <2> QED BY <2>1, <2>2, <2>3 DEF e
<1> HIDE DEF u
<1>9. \A j \in 1..(i - 1) : u[j] = tab[j]
  <2>1. \A j \in 1..(i - 1) : j \in 1..Len(tab) /\ j # i BY <1>1, <1>2
  <2> QED BY <1>6, <1>8, <2>1
<1>10. \A j \in 1..Len(tab) : j >= i => u[j + 1] = g[j]
  <2> SUFFICES ASSUME NEW j \in 1..Len(tab), j >= i PROVE u[j + 1] = g[j] OBVIOUS
  <2>1. j + 1 \in (i + 1)..(Len(tab) + 1) /\ (j + 1) - 1 = j BY <1>1, <1>2
  <2> QED BY <1>8, <2>1
<1>11. i \in 1..Len(u) /\ u[i].call = c /\ u[i].time = x BY <1>1, <1>2, <1>8
<1>12. p1 <= i
  <2> SUFFICES ASSUME i < p1 PROVE FALSE BY <1>1, <1>2 DEF CalloutInv
  <2>1. i \in 1..Len(tab) BY <1>1, <1>2 DEF CalloutInv
  <2>2. \A j \in 1..i : tab[j].time = 0
    <3>1. \A j \in 1..i : j \in 1..Len(tab) /\ j < p1 BY <1>1, <1>2, <2>1 DEF CalloutInv
    <3> QED BY <3>1 DEF CalloutInv
  <2>3. D(i) = 0
    <3>1. i \in 0..Len(tab) BY <2>1
    <3> QED BY <1>1, <2>2, <3>1, DueNowIs
  <2> QED BY <1>1, <1>2, <2>1, <2>3
<1>13. \A j \in 0..(i - 1) : DueTimes(u)[j] = D(j)
  <2> TAKE j \in 0..(i - 1)
  <2>1. j \in 0..Len(tab) /\ j \in 0..Len(u) /\ 0 \in 0..Len(tab) /\ 0 \in 0..Len(u) /\ j - 0 = j
    BY <1>1, <1>2, <1>8
  <2>2. \A k \in 1..(j - 0) : 0 + k = k /\ k \in 1..(i - 1) BY <1>2, <2>1
  <2>3. \A k \in 1..(j - 0) : u[0 + k].time = tab[0 + k].time BY <1>9, <2>2
  <2>4. DueTimes(u)[0] = 0 /\ D(0) = 0 BY <1>1, <1>8, DueIs
  <2>5. DueTimes(u)[j] - DueTimes(u)[0] = D(j) - D(0) BY <1>1, <1>8, <2>1, <2>3, DueAlong
  <2>6. D(j) \in Nat /\ DueTimes(u)[j] \in Nat BY <1>4, <1>8, <2>1, DueNat
  <2> HIDE DEF D
  <2> QED BY <2>4, <2>5, <2>6
<1>14. DueTimes(u)[i] = tim
  <2>1. DueTimes(u)[i] = DueTimes(u)[i - 1] + x BY <1>8, <1>11, DueIs
  <2>2. i - 1 \in 0..(i - 1) BY <1>2
  <2>3. DueTimes(u)[i - 1] = D(i - 1) BY <1>13, <2>2
  <2> QED BY <1>1, <1>5, <2>1, <2>3
<1>15. \A j \in i..Len(tab) : DueTimes(u)[j + 1] = D(j)
  <2> TAKE j \in i..Len(tab)
  <2>1. i <= Len(tab) /\ i \in 1..Len(tab) /\ i + 1 \in 1..Len(u) /\ i \in 0..Len(tab)
    BY <1>1, <1>2, <1>8
  <2>2. DueTimes(u)[i + 1] = D(i) + 0
    <3>1. u[i + 1].time = tab[i].time - x BY <1>2, <1>6, <1>10, <2>1
    <3>2. DueTimes(u)[i + 1] = DueTimes(u)[(i + 1) - 1] + u[i + 1].time BY <1>8, <2>1, DueIs
    <3>3. (i + 1) - 1 = i BY <1>2
    <3>4. D(i) = D(i - 1) + tab[i].time BY <1>1, <2>1, DueIs
    <3>5. tab[i] \in Entries BY <1>1, <2>1
    <3>6. tab[i].time \in Nat BY <3>5 DEF Entries
    <3>7. DueTimes(u)[i + 1] = tim + (tab[i].time - x) BY <1>14, <3>1, <3>2, <3>3
    <3> HIDE DEF D
    <3> QED BY <1>1, <1>5, <3>4, <3>6, <3>7
  <2>3. \A k \in 1..(j - i) : u[(i + 1) + k].time = tab[i + k].time
    <3> TAKE k \in 1..(j - i)
    <3>1. i + k \in 1..Len(tab) /\ i + k >= i /\ i + k # i /\ (i + k) + 1 = (i + 1) + k
      BY <1>1, <1>2
    <3>2. u[(i + k) + 1] = g[i + k] /\ g[i + k] = tab[i + k] BY <1>6, <1>10, <3>1
    <3> QED BY <3>1, <3>2
  <2>4. /\ j \in 0..Len(tab) /\ i + 1 \in 0..Len(u) /\ j + 1 \in (i + 1)..Len(u)
        /\ (j + 1) - (i + 1) = j - i
    BY <1>1, <1>2, <1>8
  <2>5. DueTimes(u)[j + 1] - DueTimes(u)[i + 1] = D(j) - D(i)
    BY <1>1, <1>8, <2>1, <2>3, <2>4, DueAlong
  <2>6. D(j) \in Nat /\ D(i) \in Nat /\ DueTimes(u)[j + 1] \in Nat
    <3>1. j + 1 \in 0..Len(u) BY <2>4
    <3> QED BY <1>4, <1>8, <2>1, <2>4, <3>1, DueNat
  <2> HIDE DEF D
  <2> QED BY <2>2, <2>5, <2>6
<1>16. \A j \in 1..Len(tab) : LET k == IF j < i THEN j ELSE j + 1
                              IN  u[k].call = tab[j].call /\ DueTimes(u)[k] = D(j)
  <2> TAKE j \in 1..Len(tab)
  <2>1. CASE j < i
    <3>1. j \in 1..(i - 1) /\ j \in 0..(i - 1) BY <1>2, <2>1
    <3> QED BY <1>9, <1>13, <2>1, <3>1
  <2>2. CASE ~(j < i)
    <3>1. j \in i..Len(tab) /\ j >= i BY <1>2, <2>2
    <3> QED BY <1>6, <1>10, <1>15, <2>2, <3>1
  <2> QED BY <2>1, <2>2
<1> QED BY <1>8, <1>9, <1>11, <1>12, <1>14, <1>16 DEF i, u

----------------------------------------------------------------------------
(* Every step keeps the table so, and is a step of Timers.                 *)

(* What the model's Left says, of the table and the place in it.           *)
LEMMA LeftNow == Left = LeftOf(tab, p1)
BY DEF Left, LeftOf, Pending, Waiting, DueIn

(* timeout: the new call has left what it asks for, the others what they   *)
(* had.                                                                    *)
LEMMA TimeoutStep ==
  ASSUME CalloutInv, NEW c \in Calls, NEW tim \in Delays, Timeout(c, tim)
  PROVE  CalloutInv' /\ (Ticks!Ask(c, tim) \/ UNCHANGED <<Left, p1 # 0>>)
<1>1. p1' = p1 /\ tab \in Seq(Entries) /\ p1 \in Nat /\ Len(tab) \in Nat /\ Apart(tab, p1)
  BY DEF Timeout, CalloutInv
<1>2. tim \in Nat BY DelaysAssumption
<1>3. CASE tab' = tab
  <2>1. CalloutInv' BY <1>1, <1>3 DEF CalloutInv, Apart
  <2>2. Left' = Left BY <1>1, <1>3 DEF Left, Pending, Waiting, DueIn
  <2> QED BY <1>1, <2>1, <2>2
<1>4. CASE tab' = Insert(c, tim)
  <2> DEFINE i == Slot(tim)
             u == Insert(c, tim)
             At(j) == IF j < i THEN j ELSE j + 1
             Old(k) == IF k < i THEN k ELSE k - 1
  <2>1. /\ u \in Seq(Entries) /\ Len(u) = Len(tab) + 1 /\ i \in 1..Len(u) /\ p1 <= i
        /\ u[i].call = c /\ DueTimes(u)[i] = tim
        /\ \A j \in 1..Len(tab) : u[At(j)].call = tab[j].call /\ DueTimes(u)[At(j)] = DueTimes(tab)[j]
        /\ \A j \in 1..(i - 1) : u[j] = tab[j]
    BY <1>2, InsertIs
  <2>2. tab' = u BY <1>4
  <2> HIDE DEF i, u
  <2>3. \A j \in 1..Len(tab) : p1 <= j => tab[j].call # c
    BY <1>1 DEF Timeout, Pending, Waiting
  <2>4. \A k \in 1..Len(u) : k # i =>
          /\ Old(k) \in 1..Len(tab) /\ At(Old(k)) = k /\ u[k].call = tab[Old(k)].call
          /\ p1 <= k => p1 <= Old(k)
    <3> SUFFICES ASSUME NEW k \in 1..Len(u), k # i
                 PROVE  /\ Old(k) \in 1..Len(tab) /\ At(Old(k)) = k /\ u[k].call = tab[Old(k)].call
                        /\ p1 <= k => p1 <= Old(k)
      OBVIOUS
    <3>1. Old(k) \in 1..Len(tab) /\ At(Old(k)) = k /\ (p1 <= k => p1 <= Old(k)) BY <1>1, <2>1
    <3> QED BY <2>1, <3>1
  <2>5. Apart(u, p1)
    <3> SUFFICES ASSUME NEW k \in 1..Len(u), NEW l \in 1..Len(u), p1 <= k, k < l
                 PROVE  u[k].call # u[l].call
      BY DEF Apart
    <3>1. CASE k = i
      <4>1. l # i /\ p1 <= l BY <1>1, <3>1
      <4> QED BY <2>1, <2>3, <2>4, <3>1, <4>1
    <3>2. CASE l = i
      <4>1. k # i BY <3>2
      <4> QED BY <2>1, <2>3, <2>4, <3>2, <4>1
    <3>3. CASE k # i /\ l # i
      <4>1. Old(k) < Old(l) /\ p1 <= Old(k) BY <1>1, <2>1, <2>4, <3>3
      <4>2. tab[Old(k)].call # tab[Old(l)].call BY <1>1, <2>4, <3>3, <4>1 DEF Apart
      <4> QED BY <2>4, <3>3, <4>2
    <3> QED BY <3>1, <3>2, <3>3
  <2>6. CalloutInv'
    <3>1. p1 \in 0..(Len(u) + 1) BY <1>1, <2>1
    <3>2. \A k \in 1..Len(u) : k < p1 => u[k].time = 0
      <4> SUFFICES ASSUME NEW k \in 1..Len(u), k < p1 PROVE u[k].time = 0 OBVIOUS
      <4>1. k \in 1..(i - 1) /\ k \in 1..Len(tab) BY <1>1, <2>1
      <4> QED BY <2>1, <4>1 DEF CalloutInv
    <3> QED BY <1>1, <2>1, <2>2, <2>5, <3>1, <3>2 DEF CalloutInv, Apart
  <2>7. \A d \in Calls : LeftOf(u, p1)[d] = IF d = c THEN tim ELSE LeftOf(tab, p1)[d]
    <3> TAKE d \in Calls
    <3>1. CASE d = c
      <4>1. LeftOf(u, p1)[u[i].call] = DueTimes(u)[i] BY <1>1, <2>1, <2>5, LeftIs
      <4> QED BY <2>1, <3>1, <4>1
    <3>2. CASE d # c /\ \E j \in 1..Len(tab) : p1 <= j /\ tab[j].call = d
      <4>1. PICK j \in 1..Len(tab) : p1 <= j /\ tab[j].call = d BY <3>2
      <4>2. LeftOf(tab, p1)[d] = DueTimes(tab)[j] BY <1>1, <4>1, LeftIs
      <4>3. At(j) \in 1..Len(u) /\ p1 <= At(j) BY <1>1, <2>1, <4>1
      <4>4. LeftOf(u, p1)[u[At(j)].call] = DueTimes(u)[At(j)] BY <1>1, <2>1, <2>5, <4>3, LeftIs
      <4> HIDE DEF At
      <4> QED BY <2>1, <3>2, <4>1, <4>2, <4>4
    <3>3. CASE d # c /\ \A j \in 1..Len(tab) : p1 <= j => tab[j].call # d
      <4>1. \A k \in 1..Len(u) : p1 <= k => u[k].call # d
        <5> SUFFICES ASSUME NEW k \in 1..Len(u), p1 <= k PROVE u[k].call # d OBVIOUS
        <5>1. CASE k = i BY <2>1, <3>3, <5>1
        <5>2. CASE k # i BY <2>4, <3>3, <5>2
        <5> QED BY <5>1, <5>2
      <4>2. LeftOf(u, p1)[d] = NotPending BY <1>1, <2>1, <2>5, <4>1, LeftIs
      <4>3. LeftOf(tab, p1)[d] = NotPending BY <1>1, <3>3, LeftIs
      <4> QED BY <3>3, <4>2, <4>3
    <3> QED BY <3>1, <3>2, <3>3
  <2>8. LeftOf(tab', p1') = [LeftOf(tab, p1) EXCEPT ![c] = tim]
    <3>1. LeftOf(u, p1) = [d \in Calls |-> LeftOf(u, p1)[d]]
          /\ LeftOf(tab, p1) = [d \in Calls |-> LeftOf(tab, p1)[d]]
      BY DEF LeftOf
    <3>2. LeftOf(u, p1) = [LeftOf(tab, p1) EXCEPT ![c] = tim] BY <2>7, <3>1
    <3> QED BY <1>1, <2>2, <3>2
  <2>9. LeftOf(tab, p1)[c] = NotPending BY <1>1, <2>3, LeftIs
  <2>10. Left = LeftOf(tab, p1) BY LeftNow
  <2>11. Left' = LeftOf(tab', p1') BY DEF Left, LeftOf, Pending, Waiting, DueIn
  <2>12. Ticks!Ask(c, tim) BY <1>1, <2>8, <2>9, <2>10, <2>11 DEF Ticks!Ask
  <2> QED BY <2>6, <2>12
<1> QED BY <1>3, <1>4 DEF Timeout

(* The tick takes one from what each call has left that is not due yet.    *)
LEMMA ClockStep ==
  ASSUME CalloutInv, Clock
  PROVE  CalloutInv' /\ Ticks!Tick
<1>1. p1 = 0 /\ tab \in Seq(Entries) /\ Len(tab) \in Nat \ {0} /\ Apart(tab, 0)
  BY DEF Clock, CalloutInv
<1>2. \A j \in 1..Len(tab) : tab[j] \in Entries /\ tab[j].time \in Nat /\ tab[j].call \in Calls
  <2>1. \A j \in 1..Len(tab) : tab[j] \in Entries BY <1>1
  <2> QED BY <2>1 DEF Entries
<1>3. PICK u : u = tab' OBVIOUS
<1>4. /\ u \in Seq(Entries) /\ Len(u) = Len(tab)
      /\ \A j \in 1..Len(tab) : u[j].call = tab[j].call
      /\ \A j \in 1..Len(tab) :
           DueTimes(u)[j] = IF DueTimes(tab)[j] = 0 THEN 0 ELSE DueTimes(tab)[j] - 1
  <2>1. CASE NotDue = {}
    <3>1. u = tab BY <1>3, <2>1 DEF Clock
    <3>2. \A j \in 1..Len(tab) : DueTimes(tab)[j] = 0
      <4> TAKE j \in 1..Len(tab)
      <4>1. \A i \in 1..j : tab[i].time = 0 BY <1>1, <1>2, <2>1 DEF NotDue
      <4>2. j \in 0..Len(tab) OBVIOUS
      <4> QED BY <1>1, <4>1, <4>2, DueNowIs
    <3> QED BY <1>1, <3>1, <3>2
  <2>2. CASE NotDue # {}
    <3> DEFINE k == CHOOSE i \in NotDue : \A j \in NotDue : i <= j
    <3>1. \E i \in NotDue : \A j \in NotDue : i <= j
      <4>1. NotDue \subseteq Nat BY DEF NotDue
      <4> QED BY <2>2, <4>1, Least
    <3>2. k \in NotDue /\ \A j \in NotDue : k <= j BY <3>1
    <3>3. u = [tab EXCEPT ![k].time = @ - 1] BY <1>3, <2>2 DEF Clock
    <3> HIDE DEF k
    <3>4. k \in 1..Len(tab) /\ tab[k].time \in Nat /\ tab[k].time > 0 BY <1>2, <3>2 DEF NotDue
    <3> DEFINE e == [tab[k] EXCEPT !.time = @ - 1]
    <3>5. e \in Entries /\ e.time = tab[k].time - 1 /\ e.call = tab[k].call
      <4>1. tab[k] \in Entries BY <1>2, <3>4
      <4>2. tab[k].time - 1 \in Nat BY <3>4
      <4> QED BY <4>1, <4>2 DEF Entries
    <3>6. u = [tab EXCEPT ![k] = e] BY <3>3
    <3> HIDE DEF e
    <3>7. u \in Seq(Entries) /\ Len(u) = Len(tab) BY <1>1, <3>4, <3>5, <3>6
    <3>8. u[k] = e /\ \A j \in 1..Len(tab) : j # k => u[j] = tab[j] BY <1>1, <3>4, <3>6
    <3>9. \A j \in 1..(k - 1) : tab[j].time = 0 /\ u[j].time = 0
      <4> SUFFICES ASSUME NEW j \in 1..(k - 1) PROVE tab[j].time = 0 /\ u[j].time = 0 OBVIOUS
      <4>1. j \in 1..Len(tab) /\ j # k /\ ~(k <= j) BY <1>1, <3>4
      <4>2. j \notin NotDue BY <3>2, <4>1
      <4>3. tab[j].time = 0 BY <1>2, <4>1, <4>2 DEF NotDue
      <4> QED BY <3>8, <4>1, <4>3
    <3>10. \A j \in 0..(k - 1) : DueTimes(tab)[j] = 0 /\ DueTimes(u)[j] = 0
      <4> TAKE j \in 0..(k - 1)
      <4>1. j \in 0..Len(tab) /\ j \in 0..Len(u) BY <1>1, <3>4, <3>7
      <4>2. \A i \in 1..j : i \in 1..(k - 1) BY <3>4
      <4> QED BY <1>1, <3>7, <3>9, <4>1, <4>2, DueNowIs
    <3>11. DueTimes(tab)[k] = tab[k].time /\ DueTimes(u)[k] = tab[k].time - 1
      <4>1. k - 1 \in 0..(k - 1) /\ k \in 1..Len(u) BY <3>4, <3>7
      <4>2. DueTimes(tab)[k] = DueTimes(tab)[k - 1] + tab[k].time BY <1>1, <3>4, DueIs
      <4>3. DueTimes(u)[k] = DueTimes(u)[k - 1] + u[k].time BY <3>7, <4>1, DueIs
      <4> QED BY <3>4, <3>5, <3>8, <3>10, <4>1, <4>2, <4>3
    <3>12. \A j \in k..Len(tab) : DueTimes(tab)[j] > 0 /\ DueTimes(u)[j] = DueTimes(tab)[j] - 1
      <4> TAKE j \in k..Len(tab)
      <4>1. k \in 0..Len(tab) /\ j \in 0..Len(tab) /\ k \in 0..Len(u) /\ j \in k..Len(u)
        BY <1>1, <3>4, <3>7
      <4>2. \A i \in 1..(j - k) : u[k + i].time = tab[k + i].time
        <5> TAKE i \in 1..(j - k)
        <5>1. k + i \in 1..Len(tab) /\ k + i # k BY <1>1, <3>4
        <5> QED BY <3>8, <5>1
      <4>3. DueTimes(u)[j] - DueTimes(u)[k] = DueTimes(tab)[j] - DueTimes(tab)[k]
        BY <1>1, <3>7, <4>1, <4>2, DueAlong
      <4>4. DueTimes(tab)[k] <= DueTimes(tab)[j] BY <1>1, <4>1, DueGrows
      <4>5. DueTimes(tab)[j] \in Nat /\ DueTimes(u)[j] \in Nat
        <5>1. j \in 0..Len(u) BY <1>1, <3>4, <3>7
        <5> QED BY <1>1, <3>7, <4>1, <5>1, DueNat
      <4> DEFINE w == DueTimes(tab)[k]
                 x == DueTimes(u)[k]
                 y == DueTimes(tab)[j]
                 z == DueTimes(u)[j]
      <4>6. /\ w \in Nat /\ w > 0 /\ x = w - 1 /\ z - x = y - w /\ w <= y
            /\ y \in Nat /\ z \in Nat
        BY <3>4, <3>11, <4>3, <4>4, <4>5
      <4> HIDE DEF w, x, y, z
      <4>7. y > 0 /\ z = y - 1 BY <4>6
      <4> QED BY <4>7 DEF y, z
    <3>13. \A j \in 1..Len(tab) : u[j].call = tab[j].call BY <3>5, <3>8
    <3>14. \A j \in 1..Len(tab) :
             DueTimes(u)[j] = IF DueTimes(tab)[j] = 0 THEN 0 ELSE DueTimes(tab)[j] - 1
      <4> TAKE j \in 1..Len(tab)
      <4>1. j \in 0..(k - 1) \/ j \in k..Len(tab) BY <1>1, <3>4
      <4> QED BY <3>10, <3>12, <4>1
    <3> QED BY <3>7, <3>13, <3>14
  <2> QED BY <2>1, <2>2
<1>5. p1' = IF u[1].time <= 0 THEN 1 ELSE 0 BY <1>3 DEF Clock
<1>6. p1' \in {0, 1} BY <1>5
<1>7. Apart(u, 0) /\ Apart(u, p1') BY <1>1, <1>4, <1>6 DEF Apart
<1>8. CalloutInv'
  <2>1. p1' \in 0..(Len(u) + 1) /\ \A j \in 1..Len(u) : ~(j < p1') BY <1>1, <1>4, <1>6
  <2>2. Apart(u, p1') = Apart(tab, p1)' BY <1>3 DEF Apart
  <2> QED BY <1>3, <1>4, <1>7, <2>1, <2>2 DEF CalloutInv
<1>9. LeftOf(u, p1') = LeftOf(u, 0)
  <2> DEFINE V == {k \in 1..Len(u) : k >= p1'}
             W == {k \in 1..Len(u) : k >= 0}
             Of(X) == [c \in Calls |-> IF c \in {u[i].call : i \in X}
                                       THEN DueTimes(u)[CHOOSE i \in X : u[i].call = c]
                                       ELSE NotPending]
  <2>1. \A k \in 1..Len(u) : (k >= p1') = (k >= 0) BY <1>6
  <2>2. V = W BY <2>1
  <2>3. LeftOf(u, p1') = Of(V) /\ LeftOf(u, 0) = Of(W) BY Zenon DEF LeftOf
  <2> HIDE DEF V, W, Of
  <2> QED BY <2>2, <2>3
<1>10. \A d \in Calls :
         LeftOf(u, 0)[d] = IF LeftOf(tab, 0)[d] \in {NotPending, 0} THEN LeftOf(tab, 0)[d]
                           ELSE LeftOf(tab, 0)[d] - 1
  <2> TAKE d \in Calls
  <2>1. CASE \E j \in 1..Len(tab) : tab[j].call = d
    <3>1. PICK j \in 1..Len(tab) : tab[j].call = d BY <2>1
    <3>2. 0 <= j /\ j \in 1..Len(u) /\ u[j].call = d BY <1>4, <3>1
    <3>3. LeftOf(tab, 0)[d] = DueTimes(tab)[j] BY <1>1, <3>1, <3>2, LeftIs
    <3>4. LeftOf(u, 0)[d] = DueTimes(u)[j] BY <1>4, <1>7, <3>2, LeftIs
    <3>5. DueTimes(tab)[j] \in Nat
      <4>1. j \in 0..Len(tab) BY <3>1
      <4> QED BY <1>1, <4>1, DueNat
    <3>6. DueTimes(tab)[j] # NotPending BY <3>5, NotPendingAssumption
    <3> QED BY <1>4, <3>1, <3>3, <3>4, <3>6
  <2>2. CASE \A j \in 1..Len(tab) : tab[j].call # d
    <3>1. \A j \in 1..Len(u) : u[j].call # d BY <1>4, <2>2
    <3>2. LeftOf(tab, 0)[d] = NotPending BY <1>1, <2>2, LeftIs
    <3>3. LeftOf(u, 0)[d] = NotPending BY <1>4, <1>7, <3>1, LeftIs
    <3> QED BY <3>2, <3>3
  <2> QED BY <2>1, <2>2
<1>11. (p1' # 0) = (\E d \in Calls : LeftOf(u, 0)[d] = 0)
  <2>1. 1 \in 1..Len(u) /\ 1 \in 1..Len(tab) /\ 0 <= 1 BY <1>1, <1>4
  <2>2. DueTimes(u)[1] = u[1].time /\ u[1].time \in Nat
    <3>1. u[1] \in Entries BY <1>4, <2>1
    <3>2. u[1].time \in Nat BY <3>1 DEF Entries
    <3>3. 1 - 1 = 0 OBVIOUS
    <3>4. DueTimes(u)[1] = DueTimes(u)[0] + u[1].time BY <1>4, <2>1, <3>3, DueIs
    <3>5. DueTimes(u)[0] = 0 BY <1>4, DueIs
    <3> QED BY <3>2, <3>4, <3>5
  <2>3. CASE u[1].time = 0
    <3>1. u[1].call \in Calls /\ LeftOf(u, 0)[u[1].call] = 0 BY <1>4, <1>7, <2>1, <2>2, <2>3, LeftIs
    <3>2. p1' # 0 BY <1>5, <2>3
    <3> QED BY <3>1, <3>2
  <2>4. CASE u[1].time # 0
    <3>1. p1' = 0 BY <1>5, <2>2, <2>4
    <3>2. ASSUME NEW d \in Calls, LeftOf(u, 0)[d] = 0 PROVE FALSE
      <4>1. PICK j \in 1..Len(u) : LeftOf(u, 0)[d] = DueTimes(u)[j]
        BY <1>4, <1>7, <3>2, LeftCases
      <4>2. 1 \in 0..Len(u) /\ j \in 1..Len(u) BY <2>1
      <4>3. DueTimes(u)[1] <= DueTimes(u)[j] BY <1>4, <4>2, DueGrows
      <4> QED BY <2>2, <2>4, <3>2, <4>1, <4>3
    <3> QED BY <3>1, <3>2
  <2> QED BY <2>2, <2>3, <2>4
<1>12. Left = LeftOf(tab, 0) BY <1>1, LeftNow
<1>13. Left' = LeftOf(u, 0)
  <2>1. Left' = LeftOf(tab', p1') BY DEF Left, LeftOf, Pending, Waiting, DueIn
  <2> QED BY <1>3, <1>9, <2>1
<1>14. LeftOf(u, 0) = [d \in Calls |-> IF LeftOf(tab, 0)[d] \in {NotPending, 0} THEN LeftOf(tab, 0)[d]
                                       ELSE LeftOf(tab, 0)[d] - 1]
  <2>1. LeftOf(u, 0) = [d \in Calls |-> LeftOf(u, 0)[d]] BY DEF LeftOf
  <2> QED BY <1>10, <2>1
<1>15. Ticks!Tick BY <1>1, <1>11, <1>12, <1>13, <1>14 DEF Ticks!Tick
<1> QED BY <1>8, <1>15

(* The clock runs a call that is due, and has nothing left to do for it.   *)
LEMMA RunStep ==
  ASSUME CalloutInv, Run
  PROVE  CalloutInv' /\ Ticks!Fire(tab[p1].call)
<1> DEFINE c == tab[p1].call
           p == p1 + 1
<1>1. /\ tab \in Seq(Entries) /\ Len(tab) \in Nat /\ Apart(tab, p1) /\ p1 \in Nat
      /\ p1 \in 1..Len(tab) /\ tab' = tab /\ p1' = p
  BY DEF Run, IsDue, CalloutInv
<1>2. tab[p1] \in Entries BY <1>1
<1>3. tab[p1].time = 0 /\ c \in Calls BY <1>2 DEF Run, IsDue, Entries
<1>4. \A j \in 1..p1 : tab[j].time = 0
  <2> SUFFICES ASSUME NEW j \in 1..p1 PROVE tab[j].time = 0 OBVIOUS
  <2>1. j \in 1..Len(tab) /\ (j < p1 \/ j = p1) BY <1>1
  <2> QED BY <1>3, <2>1 DEF CalloutInv
<1>5. Apart(tab, p) BY <1>1 DEF Apart
<1>6. CalloutInv'
  <2>1. p \in 0..(Len(tab) + 1) BY <1>1
  <2>2. \A i \in 1..Len(tab) : i < p => tab[i].time = 0
    <3> SUFFICES ASSUME NEW i \in 1..Len(tab), i < p PROVE tab[i].time = 0 OBVIOUS
    <3>1. i \in 1..p1 BY <1>1
    <3> QED BY <1>4, <3>1
  <2>3. Apart(tab, p1)' = Apart(tab, p) BY <1>1 DEF Apart
  <2> HIDE DEF p
  <2> QED BY <1>1, <1>5, <2>1, <2>2, <2>3 DEF CalloutInv
<1>7. LeftOf(tab, p1)[c] = 0
  <2>1. p1 <= p1 /\ p1 \in 0..Len(tab) BY <1>1
  <2>2. LeftOf(tab, p1)[c] = DueTimes(tab)[p1] BY <1>1, <2>1, LeftIs
  <2>3. DueTimes(tab)[p1] = 0 BY <1>1, <1>4, <2>1, DueNowIs
  <2> QED BY <2>2, <2>3
<1>8. \A d \in Calls : LeftOf(tab, p)[d] = IF d = c THEN NotPending ELSE LeftOf(tab, p1)[d]
  <2> TAKE d \in Calls
  <2>0. p \in Nat BY <1>1
  <2>1. CASE d = c
    <3>1. \A i \in 1..Len(tab) : p <= i => tab[i].call # c
      <4> SUFFICES ASSUME NEW i \in 1..Len(tab), p <= i PROVE tab[i].call # c OBVIOUS
      <4>1. p1 <= p1 /\ p1 < i BY <1>1
      <4> QED BY <1>1, <4>1 DEF Apart
    <3>2. LeftOf(tab, p)[c] = NotPending BY <1>1, <1>3, <1>5, <2>0, <3>1, LeftIs
    <3> QED BY <2>1, <3>2
  <2>2. CASE d # c /\ \E j \in 1..Len(tab) : p1 <= j /\ tab[j].call = d
    <3>1. PICK j \in 1..Len(tab) : p1 <= j /\ tab[j].call = d BY <2>2
    <3>2. p <= j
      <4>1. j # p1 BY <2>2, <3>1
      <4> QED BY <1>1, <3>1, <4>1
    <3>3. LeftOf(tab, p1)[d] = DueTimes(tab)[j] BY <1>1, <3>1, LeftIs
    <3>4. LeftOf(tab, p)[d] = DueTimes(tab)[j] BY <1>1, <1>5, <2>0, <3>1, <3>2, LeftIs
    <3> QED BY <2>2, <3>3, <3>4
  <2>3. CASE d # c /\ \A j \in 1..Len(tab) : p1 <= j => tab[j].call # d
    <3>1. \A j \in 1..Len(tab) : p <= j => tab[j].call # d BY <1>1, <2>3
    <3>2. LeftOf(tab, p1)[d] = NotPending BY <1>1, <2>3, LeftIs
    <3>3. LeftOf(tab, p)[d] = NotPending BY <1>1, <1>5, <2>0, <3>1, LeftIs
    <3> QED BY <2>3, <3>2, <3>3
  <2> QED BY <2>1, <2>2, <2>3
<1>9. LeftOf(tab, p) = [LeftOf(tab, p1) EXCEPT ![c] = NotPending]
  <2>1. LeftOf(tab, p) = [d \in Calls |-> LeftOf(tab, p)[d]]
        /\ LeftOf(tab, p1) = [d \in Calls |-> LeftOf(tab, p1)[d]]
    BY DEF LeftOf
  <2> QED BY <1>8, <2>1
<1>10. Left = LeftOf(tab, p1) BY LeftNow
<1>11. Left' = LeftOf(tab, p)
  <2>1. Left' = LeftOf(tab', p1') BY DEF Left, LeftOf, Pending, Waiting, DueIn
  <2> QED BY <1>1, <2>1
<1>12. (p1 # 0) = TRUE /\ (p1' # 0) = TRUE BY <1>1
<1>13. Ticks!Fire(c) BY <1>3, <1>7, <1>9, <1>10, <1>11, <1>12 DEF Ticks!Fire, Ticks!DueNow
<1> QED BY <1>6, <1>13

(* Closing the gap changes nothing of what the calls have left, and is done*)
(* when no call is due any more.                                           *)
LEMMA CloseStep ==
  ASSUME CalloutInv, Close
  PROVE  CalloutInv' /\ Ticks!EndOfTick
<1>1. /\ tab \in Seq(Entries) /\ Len(tab) \in Nat /\ Apart(tab, p1)
      /\ p1 \in 1..(Len(tab) + 1) /\ p1 \in Nat /\ p1' = 0
  BY DEF Close, CalloutInv
<1> DEFINE n == Len(tab) - (p1 - 1)
<1>2. PICK u : u = SubSeq(tab, p1, Len(tab)) OBVIOUS
<1>3. tab' = u BY <1>2 DEF Close
<1>4. /\ u \in Seq(Entries) /\ Len(u) = n /\ n \in Nat
      /\ \A j \in 1..n : u[j] = tab[(p1 - 1) + j]
  <2>1. \A j \in p1..Len(tab) : tab[j] \in Entries BY <1>1
  <2>2. /\ u \in Seq(Entries) /\ Len(u) = IF p1 <= Len(tab) THEN Len(tab) - p1 + 1 ELSE 0
        /\ \A j \in 1..(Len(tab) - p1 + 1) : u[j] = tab[p1 + j - 1]
    BY <1>1, <1>2, <2>1, SubSeqProperties
  <2>3. Len(u) = n /\ n \in Nat /\ n = Len(tab) - p1 + 1 BY <1>1, <2>2
  <2>4. \A j \in 1..n : p1 + j - 1 = (p1 - 1) + j BY <1>1
  <2> HIDE DEF n
  <2> QED BY <2>2, <2>3, <2>4
<1>5. \A j \in 1..n : (p1 - 1) + j \in p1..Len(tab) /\ (p1 - 1) + j \in 1..Len(tab) BY <1>1
<1>6. \A j \in p1..Len(tab) : /\ j - (p1 - 1) \in 1..n /\ (p1 - 1) + (j - (p1 - 1)) = j
  BY <1>1
<1> HIDE DEF n
<1>7. \A j \in 1..n : DueTimes(u)[j] = DueTimes(tab)[(p1 - 1) + j]
  <2> TAKE j \in 1..n
  <2>1. /\ p1 - 1 \in 0..Len(tab) /\ (p1 - 1) + j \in (p1 - 1)..Len(tab)
        /\ 0 \in 0..Len(u) /\ j \in 0..Len(u) /\ ((p1 - 1) + j) - (p1 - 1) = j - 0
    BY <1>1, <1>4, <1>5
  <2>2. \A k \in 1..(((p1 - 1) + j) - (p1 - 1)) : u[0 + k].time = tab[(p1 - 1) + k].time
    <3> TAKE k \in 1..(((p1 - 1) + j) - (p1 - 1))
    <3>1. 0 + k = k /\ k \in 1..n BY <1>1, <1>4
    <3> QED BY <1>4, <3>1
  <2>3. DueTimes(tab)[p1 - 1] = 0
    <3>1. \A k \in 1..(p1 - 1) : k \in 1..Len(tab) /\ k < p1 BY <1>1
    <3>2. \A k \in 1..(p1 - 1) : tab[k].time = 0 BY <3>1 DEF CalloutInv
    <3> QED BY <1>1, <2>1, <3>2, DueNowIs
  <2>4. DueTimes(u)[0] = 0 BY <1>4, DueIs
  <2>5. DueTimes(u)[j] - DueTimes(u)[0] = DueTimes(tab)[(p1 - 1) + j] - DueTimes(tab)[p1 - 1]
    BY <1>1, <1>4, <2>1, <2>2, DueAlong
  <2>6. DueTimes(u)[j] \in Nat /\ DueTimes(tab)[(p1 - 1) + j] \in Nat
    <3>1. (p1 - 1) + j \in 0..Len(tab) BY <1>5
    <3> QED BY <1>1, <1>4, <2>1, <3>1, DueNat
  <2> QED BY <2>3, <2>4, <2>5, <2>6
<1>8. Apart(u, 0)
  <2> SUFFICES ASSUME NEW i \in 1..Len(u), NEW j \in 1..Len(u), i < j PROVE u[i].call # u[j].call
    BY DEF Apart
  <2> DEFINE x == (p1 - 1) + i
             y == (p1 - 1) + j
  <2>1. x \in 1..Len(tab) /\ y \in 1..Len(tab) /\ p1 <= x /\ x < y
    <3>1. i \in 1..n /\ j \in 1..n BY <1>4
    <3>2. x \in p1..Len(tab) /\ x \in 1..Len(tab) /\ y \in 1..Len(tab) BY <1>5, <3>1
    <3>3. x < y BY <1>1
    <3> QED BY <1>1, <3>2, <3>3
  <2>2. u[i] = tab[x] /\ u[j] = tab[y] BY <1>4
  <2> HIDE DEF x, y
  <2> QED BY <1>1, <2>1, <2>2 DEF Apart
<1>9. CalloutInv'
  <2>1. 0 \in 0..(Len(u) + 1) /\ \A j \in 1..Len(u) : ~(j < 0) BY <1>4
  <2>2. Apart(tab, p1)' = Apart(u, 0) BY <1>1, <1>3 DEF Apart
  <2> QED BY <1>1, <1>3, <1>4, <1>8, <2>1, <2>2 DEF CalloutInv
<1>10. \A d \in Calls : LeftOf(u, 0)[d] = LeftOf(tab, p1)[d]
  <2> TAKE d \in Calls
  <2>1. CASE \E j \in 1..Len(tab) : p1 <= j /\ tab[j].call = d
    <3>1. PICK j \in 1..Len(tab) : p1 <= j /\ tab[j].call = d BY <2>1
    <3>2. LeftOf(tab, p1)[d] = DueTimes(tab)[j] BY <1>1, <3>1, LeftIs
    <3>3. PICK k \in 1..n : (p1 - 1) + k = j
      <4>1. j \in p1..Len(tab) BY <1>1, <3>1
      <4> QED BY <1>6, <4>1
    <3>4. u[k].call = d /\ k \in 1..Len(u) /\ 0 <= k /\ DueTimes(u)[k] = DueTimes(tab)[j]
      BY <1>4, <1>7, <3>1, <3>3
    <3>5. LeftOf(u, 0)[d] = DueTimes(u)[k] BY <1>4, <1>8, <3>4, LeftIs
    <3> QED BY <3>2, <3>4, <3>5
  <2>2. CASE \A j \in 1..Len(tab) : p1 <= j => tab[j].call # d
    <3>1. \A k \in 1..Len(u) : u[k].call # d
      <4> TAKE k \in 1..Len(u)
      <4>0. k \in 1..n BY <1>4
      <4>1. u[k] = tab[(p1 - 1) + k] /\ (p1 - 1) + k \in 1..Len(tab) /\ (p1 - 1) + k \in p1..Len(tab)
        BY <1>4, <1>5, <4>0
      <4>2. p1 <= (p1 - 1) + k BY <1>1, <4>1
      <4> QED BY <2>2, <4>1, <4>2
    <3>2. LeftOf(tab, p1)[d] = NotPending BY <1>1, <2>2, LeftIs
    <3>3. LeftOf(u, 0)[d] = NotPending BY <1>4, <1>8, <3>1, LeftIs
    <3> QED BY <3>2, <3>3
  <2> QED BY <2>1, <2>2
<1>11. \A d \in Calls : LeftOf(tab, p1)[d] # 0
  <2> SUFFICES ASSUME NEW d \in Calls, LeftOf(tab, p1)[d] = 0 PROVE FALSE OBVIOUS
  <2>1. PICK j \in 1..Len(tab) : p1 <= j /\ LeftOf(tab, p1)[d] = DueTimes(tab)[j]
    BY <1>1, LeftCases
  <2>2. p1 \in 1..Len(tab) /\ p1 \in 0..Len(tab) /\ j \in p1..Len(tab) /\ p1 \in 1..p1 BY <1>1, <2>1
  <2>3. DueTimes(tab)[p1] <= DueTimes(tab)[j] BY <1>1, <2>2, DueGrows
  <2>4. DueTimes(tab)[p1] \in Nat BY <1>1, <2>2, DueNat
  <2>5. DueTimes(tab)[p1] = 0 BY <2>1, <2>3, <2>4
  <2>6. \A i \in 1..p1 : tab[i].time = 0 BY <1>1, <2>2, <2>5, DueNowIs
  <2>7. tab[p1].time = 0 BY <2>2, <2>6
  <2> QED BY <2>2, <2>7 DEF Close, IsDue
<1>12. Left = LeftOf(tab, p1) BY LeftNow
<1>13. Left' = Left
  <2>1. Left' = LeftOf(tab', p1') BY DEF Left, LeftOf, Pending, Waiting, DueIn
  <2>2. Left' = LeftOf(u, 0) BY <1>1, <1>3, <2>1
  <2>3. LeftOf(u, 0) = [d \in Calls |-> LeftOf(u, 0)[d]]
        /\ LeftOf(tab, p1) = [d \in Calls |-> LeftOf(tab, p1)[d]]
    BY DEF LeftOf
  <2> QED BY <1>10, <1>12, <2>2, <2>3
<1>14. Ticks!EndOfTick BY <1>1, <1>11, <1>12, <1>13 DEF Ticks!EndOfTick, Ticks!DueNow
<1> QED BY <1>9, <1>14

----------------------------------------------------------------------------
(* The table is empty at the start.                                        *)
LEMMA CInitInv == CInit => CalloutInv /\ Ticks!TInit
<1> SUFFICES ASSUME CInit PROVE CalloutInv /\ Ticks!TInit OBVIOUS
<1>1. tab = <<>> /\ p1 = 0 /\ tab \in Seq(Entries) /\ Len(tab) = 0 BY DEF CInit
<1>2. CalloutInv BY <1>1 DEF CalloutInv, Apart
<1>3. Left = [c \in Calls |-> NotPending] BY <1>1 DEF Left, Pending, Waiting
<1> QED BY <1>1, <1>2, <1>3 DEF Ticks!TInit

(* Every step of the table is a step of Timers, or leaves what it shows.   *)
LEMMA CNextStep ==
  ASSUME CalloutInv, [CNext]_cvars
  PROVE  CalloutInv' /\ [Ticks!TNext]_<<Left, p1 # 0>>
<1>1. CASE Clock BY <1>1, ClockStep DEF Ticks!TNext
<1>2. CASE Run
  <2>1. tab[p1].call \in Calls
    <3>1. tab[p1] \in Entries BY <1>2 DEF Run, IsDue, CalloutInv
    <3> QED BY <3>1 DEF Entries
  <2> QED BY <1>2, <2>1, RunStep DEF Ticks!TNext
<1>3. CASE Close BY <1>3, CloseStep DEF Ticks!TNext
<1>4. ASSUME NEW c \in Calls, NEW tim \in Delays, Request(c, tim) \/ RunAgain(c, tim)
      PROVE  CalloutInv' /\ [Ticks!TNext]_<<Left, p1 # 0>>
  <2>1. Timeout(c, tim) BY <1>4 DEF Request, RunAgain
  <2>2. CalloutInv' /\ (Ticks!Ask(c, tim) \/ UNCHANGED <<Left, p1 # 0>>) BY <2>1, TimeoutStep
  <2> QED BY <2>2 DEF Ticks!TNext
<1>5. CASE UNCHANGED cvars
  <2>1. tab' = tab /\ p1' = p1 BY <1>5 DEF cvars
  <2>2. CalloutInv' BY <2>1 DEF CalloutInv, Apart
  <2>3. Left' = Left BY <2>1 DEF Left, Pending, Waiting, DueIn
  <2> QED BY <2>1, <2>2, <2>3
<1> QED BY <1>1, <1>2, <1>3, <1>4, <1>5 DEF CNext

(* The table stays so in every state: no call waits twice, and what is     *)
(* ahead of the clock's place in it has been counted down.                 *)
THEOREM CalloutInvariant == CSpec => []CalloutInv
<1>1. CInit => CalloutInv BY CInitInv
<1>2. CalloutInv /\ [CNext]_cvars => CalloutInv' BY CNextStep
<1> QED BY <1>1, <1>2, PTL DEF CSpec

(* timeout and clock do what Timers promises: every call runs in exactly   *)
(* the tick it was asked for, whatever is asked for before it, behind it   *)
(* or by the calls that run.                                               *)
THEOREM CalloutImplementsTimers == CSpec => ImplementsTimers
<1>1. CInit => Ticks!TInit BY CInitInv
<1>2. CalloutInv /\ [CNext]_cvars => [Ticks!TNext]_<<Left, p1 # 0>> BY CNextStep
<1> QED BY <1>1, <1>2, CalloutInvariant, PTL DEF CSpec, ImplementsTimers, Ticks!TSpec

=============================================================================
