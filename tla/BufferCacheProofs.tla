------------------------- MODULE BufferCacheProofs -------------------------
(***************************************************************************)
(* The safety properties of the buffer cache, for any number of processes, *)
(* buffers and blocks, in an environment where asynchronous transfers do   *)
(* not fail and the store of B_AGE is not interrupted; then, that what its *)
(* callers see of it is BlockStore; then, that the processes never hang.   *)
(***************************************************************************)
EXTENDS BufferCache, Functions, FiniteSetTheorems, SequenceTheorems, TLAPS

(***************************************************************************)
(* What the list operations of the kernel do to the set of elements and to *)
(* the absence of duplicates.                                              *)
(***************************************************************************)

(* Membership in a list is an index.                                       *)
LEMMA InList ==
  ASSUME NEW S, NEW l \in Seq(S), NEW x
  PROVE  x \in ToSet(l) <=> \E i \in 1..Len(l) : l[i] = x
BY DEF ToSet

(* The elements of a list have its type.                                   *)
LEMMA MembersType ==
  ASSUME NEW S, NEW l \in Seq(S)
  PROVE  ToSet(l) \subseteq S
BY InList

(* A list that has an element is not the empty list.                       *)
LEMMA MemberNonempty ==
  ASSUME NEW S, NEW l \in Seq(S), NEW x \in ToSet(l)
  PROVE  l # <<>>
BY InList

(* Appending to the tail of a list adds one element.                       *)
LEMMA AppendFacts ==
  ASSUME NEW S, NEW l \in Seq(S), NEW e \in S
  PROVE  /\ Append(l, e) \in Seq(S)
         /\ ToSet(Append(l, e)) = ToSet(l) \cup {e}
         /\ IsInjective(l) /\ e \notin ToSet(l) => IsInjective(Append(l, e))
<1> DEFINE m == Append(l, e)
<1>1. /\ m \in Seq(S) /\ Len(m) = Len(l) + 1
      /\ \A i \in 1..Len(l) : m[i] = l[i]
      /\ m[Len(l) + 1] = e
  BY AppendProperties
<1> HIDE DEF m
<1>2. ASSUME NEW x \in ToSet(m) PROVE x \in ToSet(l) \cup {e}
  <2>1. PICK i \in 1..Len(m) : m[i] = x BY <1>1, InList
  <2> QED BY <2>1, <1>1, InList
<1>3. ASSUME NEW x \in ToSet(l) \cup {e} PROVE x \in ToSet(m)
  <2>1. CASE x = e BY <2>1, <1>1, InList
  <2>2. CASE x \in ToSet(l)
    <3>1. PICK i \in 1..Len(l) : l[i] = x BY <2>2, InList
    <3>2. i \in 1..Len(m) /\ m[i] = x BY <3>1, <1>1
    <3> QED BY <3>2, <1>1, InList
  <2> QED BY <2>1, <2>2
<1>4. ASSUME IsInjective(l), e \notin ToSet(l) PROVE IsInjective(m)
  <2>1. \A i \in 1..Len(l) : l[i] # e BY <1>4, InList
  <2> QED BY <1>1, <1>4, <2>1 DEF IsInjective
<1> QED BY <1>1, <1>2, <1>3, <1>4 DEF m

(* Inserting at the head of a list adds one element.                       *)
LEMMA ConsFacts ==
  ASSUME NEW S, NEW l \in Seq(S), NEW e \in S
  PROVE  /\ <<e>> \o l \in Seq(S)
         /\ ToSet(<<e>> \o l) = ToSet(l) \cup {e}
         /\ IsInjective(l) /\ e \notin ToSet(l) => IsInjective(<<e>> \o l)
<1> DEFINE m == <<e>> \o l
<1>1. /\ m \in Seq(S) /\ Len(m) = Len(l) + 1
      /\ m[1] = e
      /\ \A i \in 2..(Len(l) + 1) : m[i] = l[i - 1]
  <2>1. <<e>> \in Seq(S) /\ Len(<<e>>) = 1 OBVIOUS
  <2> QED BY <2>1, ConcatProperties
<1> HIDE DEF m
<1>2. ASSUME NEW x \in ToSet(m) PROVE x \in ToSet(l) \cup {e}
  <2>1. PICK i \in 1..Len(m) : m[i] = x BY <1>1, InList
  <2>2. CASE i = 1 BY <2>1, <2>2, <1>1
  <2>3. CASE i # 1
    <3>1. i - 1 \in 1..Len(l) /\ l[i - 1] = x BY <2>1, <2>3, <1>1
    <3> QED BY <3>1, InList
  <2> QED BY <2>2, <2>3
<1>3. ASSUME NEW x \in ToSet(l) \cup {e} PROVE x \in ToSet(m)
  <2>1. CASE x = e BY <2>1, <1>1, InList
  <2>2. CASE x \in ToSet(l)
    <3>1. PICK i \in 1..Len(l) : l[i] = x BY <2>2, InList
    <3>2. i + 1 \in 1..Len(m) /\ m[i + 1] = x BY <3>1, <1>1
    <3> QED BY <3>2, <1>1, InList
  <2> QED BY <2>1, <2>2
<1>4. ASSUME IsInjective(l), e \notin ToSet(l) PROVE IsInjective(m)
  <2>1. \A i \in 1..Len(l) : l[i] # e BY <1>4, InList
  <2>2. ASSUME NEW i \in 1..Len(m), NEW j \in 1..Len(m), m[i] = m[j], i # j PROVE FALSE
    <3>1. CASE i = 1
      <4>1. j - 1 \in 1..Len(l) /\ l[j - 1] = e BY <3>1, <2>2, <1>1
      <4> QED BY <4>1, <2>1
    <3>2. CASE j = 1
      <4>1. i - 1 \in 1..Len(l) /\ l[i - 1] = e BY <3>2, <2>2, <1>1
      <4> QED BY <4>1, <2>1
    <3>3. CASE i # 1 /\ j # 1
      <4>1. /\ i - 1 \in DOMAIN l /\ j - 1 \in DOMAIN l
            /\ l[i - 1] = l[j - 1] /\ i - 1 # j - 1
        BY <3>3, <2>2, <1>1
      <4> QED BY <4>1, <1>4 DEF IsInjective
    <3> QED BY <3>1, <3>2, <3>3
  <2> QED BY <2>2, <1>1 DEF IsInjective
<1> QED BY <1>1, <1>2, <1>3, <1>4 DEF m

(* Where the elements of a list are after one of them has been unlinked.   *)
LEMMA UnlinkShape ==
  ASSUME NEW S, NEW l \in Seq(S), NEW e \in ToSet(l)
  PROVE  \E k \in 1..Len(l) :
           /\ l[k] = e
           /\ Unlink(l, e) \in Seq(S) /\ Len(Unlink(l, e)) = Len(l) - 1
           /\ \A i \in 1..(Len(l) - 1) : Unlink(l, e)[i] = IF i < k THEN l[i] ELSE l[i + 1]
<1> DEFINE k == CHOOSE i \in DOMAIN l : l[i] = e
           a == SubSeq(l, 1, k - 1)
           c == SubSeq(l, k + 1, Len(l))
<1>1. k \in 1..Len(l) /\ l[k] = e BY InList
<1>2. Unlink(l, e) = a \o c BY DEF Unlink, RemoveAt
<1> HIDE DEF k
<1>3. a \in Seq(S) /\ Len(a) = k - 1 /\ \A i \in 1..(k - 1) : a[i] = l[i]
  BY <1>1, SubSeqProperties
<1>4. c \in Seq(S) /\ Len(c) = Len(l) - k /\ \A i \in 1..(Len(l) - k) : c[i] = l[k + i]
  BY <1>1, SubSeqProperties
<1> HIDE DEF a, c
<1>5. /\ a \o c \in Seq(S) /\ Len(a \o c) = Len(a) + Len(c)
      /\ \A i \in 1..(Len(a) + Len(c)) : (a \o c)[i] = IF i <= Len(a) THEN a[i] ELSE c[i - Len(a)]
  BY <1>3, <1>4, ConcatProperties
<1>6. ASSUME NEW i \in 1..(Len(l) - 1)
      PROVE  (a \o c)[i] = IF i < k THEN l[i] ELSE l[i + 1]
  <2>1. i \in 1..(Len(a) + Len(c)) BY <1>1, <1>3, <1>4
  <2>2. CASE i < k
    <3>1. i <= Len(a) /\ i \in 1..(k - 1) BY <1>1, <1>3, <2>2
    <3> QED BY <2>1, <2>2, <3>1, <1>3, <1>5
  <2>3. CASE ~(i < k)
    <3>1. ~(i <= Len(a)) /\ i - Len(a) \in 1..(Len(l) - k) /\ k + (i - Len(a)) = i + 1
      BY <1>1, <1>3, <2>3
    <3>2. (a \o c)[i] = c[i - Len(a)] BY <2>1, <3>1, <1>5
    <3>3. c[i - Len(a)] = l[i + 1] BY <3>1, <1>4
    <3> QED BY <3>2, <3>3, <2>3
  <2> QED BY <2>2, <2>3
<1>7. Len(a \o c) = Len(l) - 1 BY <1>1, <1>3, <1>4, <1>5
<1> QED BY <1>1, <1>2, <1>5, <1>6, <1>7

(* Unlinking takes exactly that element off a list without duplicates.     *)
LEMMA UnlinkFacts ==
  ASSUME NEW S, NEW l \in Seq(S), NEW e \in ToSet(l), IsInjective(l)
  PROVE  /\ Unlink(l, e) \in Seq(S)
         /\ ToSet(Unlink(l, e)) = ToSet(l) \ {e}
         /\ IsInjective(Unlink(l, e))
<1> DEFINE u == Unlink(l, e)
<1>1. PICK k \in 1..Len(l) :
        /\ l[k] = e
        /\ u \in Seq(S) /\ Len(u) = Len(l) - 1
        /\ \A i \in 1..(Len(l) - 1) : u[i] = IF i < k THEN l[i] ELSE l[i + 1]
  BY UnlinkShape
<1> HIDE DEF u
<1>2. IsInjective(u)
  <2>1. ASSUME NEW i \in 1..(Len(l) - 1), NEW j \in 1..(Len(l) - 1), u[i] = u[j]
        PROVE  i = j
    <3> DEFINE at(n) == IF n < k THEN n ELSE n + 1
    <3>1. at(i) \in DOMAIN l /\ at(j) \in DOMAIN l BY <1>1
    <3>2. u[i] = l[at(i)] /\ u[j] = l[at(j)] BY <1>1
    <3>3. at(i) = at(j) BY <3>1, <3>2, <2>1 DEF IsInjective
    <3> QED BY <3>3
  <2>2. DOMAIN u = 1..(Len(l) - 1) BY <1>1
  <2> QED BY <2>1, <2>2 DEF IsInjective
<1>3. ASSUME NEW x \in ToSet(u) PROVE x \in ToSet(l) \ {e}
  <2>1. PICK i \in 1..(Len(l) - 1) : u[i] = x BY <1>1, InList
  <2>2. CASE i < k
    <3>1. i \in DOMAIN l /\ k \in DOMAIN l /\ l[i] = x /\ i # k BY <2>1, <2>2, <1>1
    <3> QED BY <3>1, <1>1, InList DEF IsInjective
  <2>3. CASE ~(i < k)
    <3>1. i + 1 \in DOMAIN l /\ k \in DOMAIN l /\ l[i + 1] = x /\ i + 1 # k BY <2>1, <2>3, <1>1
    <3> QED BY <3>1, <1>1, InList DEF IsInjective
  <2> QED BY <2>2, <2>3
<1>4. ASSUME NEW x \in ToSet(l) \ {e} PROVE x \in ToSet(u)
  <2>1. PICK i \in 1..Len(l) : l[i] = x BY InList
  <2>2. CASE i < k
    <3>1. i \in 1..Len(u) /\ u[i] = x BY <2>1, <2>2, <1>1
    <3> QED BY <3>1, <1>1, InList
  <2>3. CASE i > k
    <3>1. i - 1 \in 1..Len(u) /\ u[i - 1] = x BY <2>1, <2>3, <1>1
    <3> QED BY <3>1, <1>1, InList
  <2> QED BY <2>1, <2>2, <2>3, <1>1
<1> QED BY <1>1, <1>2, <1>3, <1>4 DEF u

(* Taking the head of a list without duplicates.                           *)
LEMMA TailFacts ==
  ASSUME NEW S, NEW l \in Seq(S), l # <<>>
  PROVE  /\ Tail(l) \in Seq(S) /\ Head(l) \in S /\ Head(l) \in ToSet(l)
         /\ IsInjective(l) => ToSet(Tail(l)) = ToSet(l) \ {Head(l)} /\ IsInjective(Tail(l))
<1> DEFINE t == Tail(l)
<1>1. /\ t \in Seq(S) /\ Len(t) = Len(l) - 1 /\ Len(l) \in Nat \ {0}
      /\ \A i \in 1..(Len(l) - 1) : t[i] = l[i + 1]
      /\ Head(l) = l[1] /\ l[1] \in S
  BY HeadTailProperties, LenProperties, EmptySeq
<1> HIDE DEF t
<1>2. Head(l) \in ToSet(l) BY <1>1, InList
<1>3. ASSUME IsInjective(l) PROVE IsInjective(t)
  BY <1>1, <1>3 DEF IsInjective
<1>4. ASSUME IsInjective(l), NEW x \in ToSet(t) PROVE x \in ToSet(l) \ {Head(l)}
  <2>1. PICK i \in 1..(Len(l) - 1) : t[i] = x BY <1>1, InList
  <2>2. i + 1 \in DOMAIN l /\ 1 \in DOMAIN l /\ l[i + 1] = x /\ i + 1 # 1 BY <2>1, <1>1
  <2>3. x # l[1] BY <2>2, <1>4 DEF IsInjective
  <2> QED BY <2>2, <2>3, <1>1, InList
<1>5. ASSUME NEW x \in ToSet(l) \ {Head(l)} PROVE x \in ToSet(t)
  <2>1. PICK i \in 1..Len(l) : l[i] = x BY InList
  <2>2. i - 1 \in 1..Len(t) /\ t[i - 1] = x BY <2>1, <1>1
  <2> QED BY <2>2, <1>1, InList
<1> QED BY <1>1, <1>2, <1>3, <1>4, <1>5 DEF t

----------------------------------------------------------------------------

(* The states the cache routines work on.                                  *)
CacheType ==
  [flags : [Bufs -> SUBSET Flag], assoc : [Bufs -> Blocks \cup {NODEV}],
   free : Seq(Bufs), fwanted : BOOLEAN, actq : Seq(Bufs), active : BOOLEAN,
   wchan : [Procs -> Bufs \cup {FreeList, Nil}],
   data : [Bufs -> Vals], disk : [Blocks -> Vals]]

----------------------------------------------------------------------------
(* What each routine does, field by field, from state s to state t.        *)

SameData(s, t) == t.data = s.data /\ t.disk = s.disk

Released(s, t, b) ==
  /\ t \in CacheType
  /\ t.flags = [s.flags EXCEPT ![b] = @ \ {"WANTED", "BUSY", "ASYNC", "AGE"}]
  /\ t.assoc = [s.assoc EXCEPT ![b] = IF "ERROR" \in s.flags[b] THEN NODEV ELSE @]
  /\ ToSet(t.free) = ToSet(s.free) \cup {b}
  /\ IsInjective(s.free) /\ b \notin ToSet(s.free) => IsInjective(t.free)
  /\ t.fwanted = FALSE
  /\ t.wchan = [p \in Procs |-> IF \/ s.wchan[p] = b /\ "WANTED" \in s.flags[b]
                                   \/ s.wchan[p] = FreeList /\ s.fwanted
                                THEN Nil ELSE s.wchan[p]]
  /\ t.actq = s.actq /\ t.active = s.active /\ SameData(s, t)

Completed(s, t, b) ==
  /\ t \in CacheType
  /\ t.flags = [s.flags EXCEPT ![b] = (@ \cup {"DONE"}) \ {"WANTED"}]
  /\ t.wchan = [p \in Procs |-> IF s.wchan[p] = b THEN Nil ELSE s.wchan[p]]
  /\ t.assoc = s.assoc /\ t.free = s.free /\ t.fwanted = s.fwanted
  /\ t.actq = s.actq /\ t.active = s.active /\ SameData(s, t)

Queued(s, t, b) ==
  /\ t \in CacheType
  /\ t.actq = Append(s.actq, b) /\ t.active = TRUE
  /\ t.flags = s.flags /\ t.assoc = s.assoc /\ t.free = s.free
  /\ t.fwanted = s.fwanted /\ t.wchan = s.wchan /\ SameData(s, t)

(* Setting and clearing flags of one buffer.                               *)
LEMMA SetFFields ==
  ASSUME NEW s \in CacheType, NEW b \in Bufs, NEW on \in SUBSET Flag, NEW off
  PROVE  /\ SetF(s, b, on, off) \in CacheType
         /\ SetF(s, b, on, off).flags = [s.flags EXCEPT ![b] = (@ \cup on) \ off]
         /\ SetF(s, b, on, off).assoc = s.assoc
         /\ SetF(s, b, on, off).free = s.free
         /\ SetF(s, b, on, off).fwanted = s.fwanted
         /\ SetF(s, b, on, off).actq = s.actq
         /\ SetF(s, b, on, off).active = s.active
         /\ SetF(s, b, on, off).wchan = s.wchan
         /\ SameData(s, SetF(s, b, on, off))
BY DEF CacheType, SetF, SameData

(* wakeup changes nothing but the sleepers on its channel.                 *)
LEMMA WakeupFields ==
  ASSUME NEW s \in CacheType, NEW c
  PROVE  /\ Wakeup(s, c) \in CacheType
         /\ Wakeup(s, c).wchan = [p \in Procs |-> IF s.wchan[p] = c THEN Nil ELSE s.wchan[p]]
         /\ Wakeup(s, c).flags = s.flags
         /\ Wakeup(s, c).assoc = s.assoc
         /\ Wakeup(s, c).free = s.free
         /\ Wakeup(s, c).fwanted = s.fwanted
         /\ Wakeup(s, c).actq = s.actq
         /\ Wakeup(s, c).active = s.active
         /\ SameData(s, Wakeup(s, c))
BY DEF CacheType, Wakeup, SameData

(* The wakeups of brelse.                                                  *)
LEMMA BrelseWakeFields ==
  ASSUME NEW s \in CacheType, NEW b \in Bufs
  PROVE  LET w == BrelseWake(s, b) IN
         /\ w \in CacheType
         /\ w.wchan = [p \in Procs |-> IF \/ s.wchan[p] = b /\ "WANTED" \in s.flags[b]
                                          \/ s.wchan[p] = FreeList /\ s.fwanted
                                       THEN Nil ELSE s.wchan[p]]
         /\ w.fwanted = FALSE
         /\ w.flags = s.flags /\ w.assoc = s.assoc /\ w.free = s.free
         /\ w.actq = s.actq /\ w.active = s.active /\ SameData(s, w)
<1> DEFINE u == IF "WANTED" \in s.flags[b] THEN Wakeup(s, b) ELSE s
           v == [u EXCEPT !.fwanted = FALSE]
<1>1. /\ u \in CacheType
      /\ u.wchan = [p \in Procs |-> IF s.wchan[p] = b /\ "WANTED" \in s.flags[b] THEN Nil ELSE s.wchan[p]]
      /\ u.flags = s.flags /\ u.assoc = s.assoc /\ u.free = s.free /\ u.fwanted = s.fwanted
      /\ u.actq = s.actq /\ u.active = s.active /\ SameData(s, u)
  <2>1. CASE "WANTED" \in s.flags[b] BY <2>1, WakeupFields
  <2>2. CASE "WANTED" \notin s.flags[b]
    <3>1. s.wchan = [p \in Procs |-> s.wchan[p]] BY DEF CacheType
    <3> QED BY <2>2, <3>1 DEF SameData
  <2> QED BY <2>1, <2>2
<1>2. BrelseWake(s, b) = IF u.fwanted THEN Wakeup(v, FreeList) ELSE u BY DEF BrelseWake
<1> HIDE DEF u
<1>3. /\ v \in CacheType /\ v.fwanted = FALSE
      /\ v.wchan = u.wchan /\ v.flags = u.flags /\ v.assoc = u.assoc /\ v.free = u.free
      /\ v.actq = u.actq /\ v.active = u.active /\ SameData(u, v)
  BY <1>1 DEF CacheType, SameData
<1> HIDE DEF v
<1>4. CASE u.fwanted
  <2>1. Wakeup(v, FreeList).wchan = [p \in Procs |-> IF v.wchan[p] = FreeList THEN Nil ELSE v.wchan[p]]
    BY <1>3, WakeupFields
  <2>2. ASSUME NEW p \in Procs
        PROVE  Wakeup(v, FreeList).wchan[p] = IF \/ s.wchan[p] = b /\ "WANTED" \in s.flags[b]
                                                 \/ s.wchan[p] = FreeList /\ s.fwanted
                                             THEN Nil ELSE s.wchan[p]
    BY <1>1, <1>3, <1>4, <2>1, BufsAssumption
  <2>3. Wakeup(v, FreeList).wchan = [p \in Procs |-> IF \/ s.wchan[p] = b /\ "WANTED" \in s.flags[b]
                                                        \/ s.wchan[p] = FreeList /\ s.fwanted
                                             THEN Nil ELSE s.wchan[p]]
    BY <2>1, <2>2
  <2>4. SameData(s, Wakeup(v, FreeList)) BY <1>1, <1>3, WakeupFields DEF SameData
  <2> QED BY <1>1, <1>2, <1>3, <1>4, <2>3, <2>4, WakeupFields
<1>5. CASE ~u.fwanted
  <2>1. s.fwanted = FALSE /\ u.fwanted = FALSE BY <1>1, <1>5 DEF CacheType
  <2> QED BY <1>1, <1>2, <1>5, <2>1
<1> QED BY <1>4, <1>5

(* brelse releases.                                                        *)
LEMMA BrelseReleases ==
  ASSUME NEW s \in CacheType, NEW b \in Bufs
  PROVE  Released(s, Brelse(s, b), b)
<1> DEFINE w == BrelseWake(s, b)
           f == IF "AGE" \in s.flags[b] THEN <<b>> \o w.free ELSE Append(w.free, b)
           t == Brelse(s, b)
<1>1. /\ w \in CacheType
      /\ w.wchan = [p \in Procs |-> IF \/ s.wchan[p] = b /\ "WANTED" \in s.flags[b]
                                       \/ s.wchan[p] = FreeList /\ s.fwanted
                                    THEN Nil ELSE s.wchan[p]]
      /\ w.fwanted = FALSE
      /\ w.flags = s.flags /\ w.assoc = s.assoc /\ w.free = s.free
      /\ w.actq = s.actq /\ w.active = s.active /\ SameData(s, w)
  BY BrelseWakeFields
<1>2. t = [w EXCEPT !.assoc[b] = IF "ERROR" \in s.flags[b] THEN NODEV ELSE @,
                    !.free = f,
                    !.flags[b] = @ \ {"WANTED", "BUSY", "ASYNC", "AGE"}]
  BY DEF Brelse
<1> HIDE DEF w, t
<1>3. /\ f \in Seq(Bufs) /\ ToSet(f) = ToSet(s.free) \cup {b}
      /\ IsInjective(s.free) /\ b \notin ToSet(s.free) => IsInjective(f)
  BY <1>1, ConsFacts, AppendFacts DEF CacheType
<1> HIDE DEF f
<1>4. /\ t \in CacheType
      /\ t.flags = [w.flags EXCEPT ![b] = @ \ {"WANTED", "BUSY", "ASYNC", "AGE"}]
      /\ t.assoc = [w.assoc EXCEPT ![b] = IF "ERROR" \in s.flags[b] THEN NODEV ELSE @]
      /\ t.free = f /\ t.fwanted = w.fwanted /\ t.wchan = w.wchan
      /\ t.actq = w.actq /\ t.active = w.active /\ SameData(w, t)
  BY <1>1, <1>2, <1>3 DEF CacheType, SameData
<1> QED BY <1>1, <1>3, <1>4 DEF Released, SameData, t

(* iodone releases an asynchronous buffer and completes any other.         *)
LEMMA IodoneCases ==
  ASSUME NEW s \in CacheType, NEW b \in Bufs
  PROVE  /\ "ASYNC" \in s.flags[b] => Released(SetF(s, b, {"DONE"}, {}), Iodone(s, b), b)
         /\ "ASYNC" \notin s.flags[b] => Completed(s, Iodone(s, b), b)
<1> DEFINE d == SetF(s, b, {"DONE"}, {})
           e == SetF(d, b, {}, {"WANTED"})
<1>1. Iodone(s, b) = IF "ASYNC" \in s.flags[b] THEN Brelse(d, b) ELSE Wakeup(e, b) BY DEF Iodone
<1>2. /\ d \in CacheType
      /\ d.flags = [s.flags EXCEPT ![b] = (@ \cup {"DONE"}) \ {}]
      /\ d.assoc = s.assoc /\ d.free = s.free /\ d.fwanted = s.fwanted
      /\ d.actq = s.actq /\ d.active = s.active /\ d.wchan = s.wchan /\ SameData(s, d)
  BY SetFFields DEF Flag
<1> HIDE DEF d
<1>3. /\ e \in CacheType
      /\ e.flags = [d.flags EXCEPT ![b] = (@ \cup {}) \ {"WANTED"}]
      /\ e.assoc = d.assoc /\ e.free = d.free /\ e.fwanted = d.fwanted
      /\ e.actq = d.actq /\ e.active = d.active /\ e.wchan = d.wchan /\ SameData(d, e)
  BY <1>2, SetFFields DEF Flag
<1> HIDE DEF e
<1>4. e.flags = [s.flags EXCEPT ![b] = (@ \cup {"DONE"}) \ {"WANTED"}]
  BY <1>2, <1>3 DEF CacheType
<1>5. CASE "ASYNC" \in s.flags[b] BY <1>1, <1>2, <1>5, BrelseReleases DEF d
<1>6. CASE "ASYNC" \notin s.flags[b]
  BY <1>1, <1>2, <1>3, <1>4, <1>6, WakeupFields DEF Completed, SameData
<1> QED BY <1>5, <1>6

(* The strategy routine queues a request it can serve.                     *)
LEMMA StrategyQueues ==
  ASSUME NEW s \in CacheType, NEW b \in Bufs, s.assoc[b] \notin BadBlocks
  PROVE  Queued(s, Sdxstrategy(s, b), b)
<1> DEFINE q == [s EXCEPT !.actq = Append(@, b)]
<1>1. /\ q \in CacheType /\ q.actq = Append(s.actq, b) /\ q.active = s.active
      /\ q.flags = s.flags /\ q.assoc = s.assoc /\ q.free = s.free
      /\ q.fwanted = s.fwanted /\ q.wchan = s.wchan /\ SameData(s, q)
  BY AppendProperties DEF CacheType, SameData
<1>2. q.actq # <<>>
  <2>1. s.actq \in Seq(Bufs) BY DEF CacheType
  <2>2. Append(s.actq, b) # <<>> BY <2>1, AppendProperties
  <2> QED BY <1>1, <2>2
<1>3. Sdxstrategy(s, b) = IF s.active THEN q ELSE [q EXCEPT !.active = TRUE]
  BY <1>2 DEF Sdxstrategy, Sdxstart
<1> HIDE DEF q
<1>4. CASE s.active BY <1>1, <1>3, <1>4 DEF Queued, CacheType
<1>5. CASE ~s.active BY <1>1, <1>3, <1>5 DEF Queued, CacheType, SameData
<1> QED BY <1>4, <1>5
----------------------------------------------------------------------------
(* The cache half and the process half of the type invariant.              *)
ProcType ==
  /\ cur \in Procs \cup {Nobody}
  /\ pc \in [Procs -> PC] /\ op \in [Procs -> Op]
  /\ blk \in [Procs -> Blocks \cup {NODEV, Nil}] /\ ra \in [Procs -> Blocks \cup {Nil}]
  /\ bp \in [Procs -> Bufs \cup {Nil}] /\ tgt \in [Procs -> Bufs \cup {Nil}]
  /\ reg \in [Procs -> SUBSET Flag]

(* The type invariant is the type of the cache state the routines work on  *)
(* and that of the processes' locals.                                      *)
LEMMA TypeSplit == TypeOK <=> Cache \in CacheType /\ ProcType
BY DEF TypeOK, Cache, CacheType, ProcType

(* Applying a routine makes its result the next cache state.               *)
LEMMA SetCacheSets ==
  ASSUME NEW t \in CacheType, SetCache(t)
  PROVE  Cache' = t
BY DEF SetCache, Cache, CacheType

(* What notavail leaves: b is marked busy and is off the available list,   *)
(* and nothing else has changed.                                           *)
LEMMA NotavailFields ==
  ASSUME NEW s \in CacheType, NEW b \in ToSet(s.free), IsInjective(s.free)
  PROVE  LET t == Notavail(s, b) IN
         /\ t \in CacheType
         /\ t.flags = [s.flags EXCEPT ![b] = @ \cup {"BUSY"}]
         /\ ToSet(t.free) = ToSet(s.free) \ {b} /\ IsInjective(t.free)
         /\ t.assoc = s.assoc /\ t.fwanted = s.fwanted /\ t.actq = s.actq
         /\ t.active = s.active /\ t.wchan = s.wchan /\ SameData(s, t)
<1> DEFINE u == [s EXCEPT !.free = Unlink(@, b)]
<1>1. s.free \in Seq(Bufs) BY DEF CacheType
<1>2. b \in Bufs BY <1>1, InList
<1>3. /\ Unlink(s.free, b) \in Seq(Bufs) /\ IsInjective(Unlink(s.free, b))
      /\ ToSet(Unlink(s.free, b)) = ToSet(s.free) \ {b}
  BY <1>1, UnlinkFacts
<1>4. /\ u \in CacheType /\ u.free = Unlink(s.free, b)
      /\ u.flags = s.flags /\ u.assoc = s.assoc /\ u.fwanted = s.fwanted /\ u.actq = s.actq
      /\ u.active = s.active /\ u.wchan = s.wchan /\ SameData(s, u)
  BY <1>3 DEF CacheType, SameData
<1>5. Notavail(s, b) = SetF(u, b, {"BUSY"}, {}) BY DEF Notavail
<1> HIDE DEF u
<1>6. /\ SetF(u, b, {"BUSY"}, {}) \in CacheType
      /\ SetF(u, b, {"BUSY"}, {}).flags = [u.flags EXCEPT ![b] = (@ \cup {"BUSY"}) \ {}]
      /\ SetF(u, b, {"BUSY"}, {}).free = u.free
      /\ SetF(u, b, {"BUSY"}, {}).assoc = u.assoc
      /\ SetF(u, b, {"BUSY"}, {}).fwanted = u.fwanted
      /\ SetF(u, b, {"BUSY"}, {}).actq = u.actq
      /\ SetF(u, b, {"BUSY"}, {}).active = u.active
      /\ SetF(u, b, {"BUSY"}, {}).wchan = u.wchan
      /\ SameData(u, SetF(u, b, {"BUSY"}, {}))
  BY <1>2, <1>4, SetFFields DEF Flag
<1>7. [u.flags EXCEPT ![b] = (@ \cup {"BUSY"}) \ {}] = [s.flags EXCEPT ![b] = @ \cup {"BUSY"}]
  BY <1>2, <1>4 DEF CacheType
<1> QED BY <1>3, <1>4, <1>5, <1>6, <1>7 DEF SameData

(* getblk's reassignment of the oldest clean buffer preserves the          *)
(* invariant: the victim is nobody's, and the block it gets had no buffer. *)
LEMMA ReassignKeeps ==
  ASSUME IInv, NEW p \in Procs, GetblkReassign(p)
  PROVE  IInv'
<1> DEFINE b == Head(free)
           n == Notavail(Cache, b)
           t == [n EXCEPT !.flags[b] = {"BUSY"}, !.assoc[b] = Arg(p)]
<1>1. /\ TypeOK /\ CpuOK /\ LocalsOK /\ QueueOK /\ AssocOK
      /\ BusyIffNotAvailable /\ Accounted /\ NoAlias /\ NoLostWakeup /\ DriverBusy
      /\ Cache \in CacheType /\ ProcType
  BY TypeSplit DEF IInv
<1>2. /\ pc[p] = "take" /\ cur = p /\ tgt[p] = Nil /\ free # <<>> /\ wchan[p] = Nil
      /\ "DELWRI" \notin flags[b] /\ SetCache(t)
      /\ tgt' = [tgt EXCEPT ![p] = b] /\ pc' = [pc EXCEPT ![p] = "got"]
      /\ UNCHANGED <<cur, op, blk, ra, bp, reg>>
  BY <1>1 DEF GetblkReassign, Runs, Goto, CpuOK
<1>3. b \in Bufs /\ b \in ToSet(free) BY <1>1, <1>2, TailFacts DEF TypeOK
<1>4. Arg(p) \in Blocks \cup {NODEV} BY <1>1, <1>2 DEF LocalsOK, Arg, ProcType
<1>5. /\ n \in CacheType
      /\ n.flags = [flags EXCEPT ![b] = @ \cup {"BUSY"}]
      /\ ToSet(n.free) = ToSet(free) \ {b} /\ IsInjective(n.free)
      /\ n.assoc = assoc /\ n.fwanted = fwanted /\ n.actq = actq
      /\ n.active = active /\ n.wchan = wchan
  <2>1. Cache.free = free /\ Cache.flags = flags /\ Cache.assoc = assoc /\ Cache.fwanted = fwanted
        /\ Cache.actq = actq /\ Cache.active = active /\ Cache.wchan = wchan
    BY DEF Cache
  <2> QED BY <2>1, <1>1, <1>3, NotavailFields DEF BusyIffNotAvailable
<1> HIDE DEF n
<1>6. t \in CacheType BY <1>3, <1>4, <1>5 DEF CacheType, Flag
<1>7. Cache' = t BY <1>2, <1>6, SetCacheSets
<1>8. /\ flags' = [flags EXCEPT ![b] = {"BUSY"}] /\ assoc' = [assoc EXCEPT ![b] = Arg(p)]
      /\ ToSet(free') = ToSet(free) \ {b} /\ IsInjective(free')
      /\ fwanted' = fwanted /\ actq' = actq /\ active' = active /\ wchan' = wchan
  BY <1>2, <1>3, <1>5, <1>1 DEF SetCache, CacheType, TypeOK
<1>9. TypeOK'
  <2>1. ProcType' BY <1>1, <1>2, <1>3 DEF ProcType, PC
  <2> QED BY <2>1, <1>6, <1>7 DEF TypeOK, Cache, CacheType, ProcType
<1>10. CpuOK' BY <1>1, <1>2, <1>8 DEF CpuOK, TypeOK
<1>11. b \notin ToSet(actq) /\ "BUSY" \notin flags[b]  BY <1>1, <1>3 DEF BusyIffNotAvailable, Accounted
<1>12. LocalsOK' BY <1>1, <1>2, <1>3, <1>8, <1>11, BufsAssumption DEF LocalsOK, TypeOK, Accounted, Owns
<1>13. QueueOK' BY <1>1, <1>2, <1>3, <1>8, <1>11 DEF QueueOK, TypeOK, Accounted, Owns
<1>14. BusyIffNotAvailable' BY <1>1, <1>3, <1>8 DEF BusyIffNotAvailable, TypeOK
<1>15. Accounted' BY <1>1, <1>2, <1>3, <1>8, <1>11 DEF Accounted, TypeOK, Owns
<1>16. NoAlias' BY <1>1, <1>2, <1>3, <1>8 DEF NoAlias, TypeOK, AssocOK, LocalsOK, Incore, Arg
<1>17. NoLostWakeup' BY <1>1, <1>2, <1>3, <1>8, <1>11 DEF NoLostWakeup, TypeOK, CpuOK
<1>18. AssocOK' BY <1>1, <1>2, <1>3, <1>8, <1>11, BufsAssumption DEF AssocOK, TypeOK, Accounted, Owns, CpuOK, Incore, Arg
<1>19. DriverBusy' BY <1>1, <1>8 DEF DriverBusy
<1> QED BY <1>9, <1>10, <1>12, <1>13, <1>14, <1>15, <1>16, <1>17, <1>18, <1>19 DEF IInv
----------------------------------------------------------------------------
(* Actions that move a process along and leave the cache alone.            *)

(* What does not depend on the processes' locals is then preserved.        *)
LEMMA CacheUnchanged ==
  ASSUME IInv, UNCHANGED cvars
  PROVE  BusyIffNotAvailable' /\ NoAlias' /\ DriverBusy'
<1> USE DEF IInv, cvars
<1>2. BusyIffNotAvailable' BY DEF BusyIffNotAvailable
<1>3. NoAlias' BY DEF NoAlias
<1>4. DriverBusy' BY DEF DriverBusy
<1> QED BY <1>2, <1>3, <1>4

(* Entering getblk, bread or geteblk preserves the invariant.              *)
LEMMA CallKeeps ==
  ASSUME IInv, NEW p \in Procs, NEW o \in {"getblk", "bread", "geteblk"},
         NEW x, IF o = "geteblk" THEN x = NODEV ELSE x \in Blocks, Call(p, o, x)
  PROVE  IInv'
<1>1. /\ TypeOK /\ CpuOK /\ LocalsOK /\ QueueOK /\ AssocOK /\ Accounted /\ NoLostWakeup BY DEF IInv
<1>2. /\ pc[p] = "idle" /\ wchan[p] = Nil /\ cur \in {p, Nobody} /\ bp[p] = Nil
      /\ pc' = [pc EXCEPT ![p] = "getblk"] /\ cur' = p /\ op' = [op EXCEPT ![p] = o]
      /\ blk' = [blk EXCEPT ![p] = x] /\ UNCHANGED <<ra, bp, tgt, reg>> /\ UNCHANGED cvars
  BY <1>1 DEF Call, Runs, Goto, LocalsOK
<1>3. TypeOK' BY <1>1, <1>2 DEF TypeOK, cvars, PC, Op
<1>4. CpuOK' BY <1>1, <1>2, ProcsAssumption DEF CpuOK, TypeOK, cvars
<1>5. LocalsOK' BY <1>1, <1>2 DEF LocalsOK, TypeOK, cvars
<1>6. AssocOK' BY <1>1, <1>2 DEF AssocOK, TypeOK, cvars, Incore, Arg
<1>7. Accounted' BY <1>1, <1>2 DEF Accounted, Owns, TypeOK, cvars
<1>8. NoLostWakeup' BY <1>1, <1>2, BufsAssumption DEF NoLostWakeup, TypeOK, cvars
<1>9. QueueOK' BY <1>1, <1>2, BufsAssumption DEF QueueOK, TypeOK, cvars
<1> QED BY <1>2, <1>3, <1>4, <1>5, <1>6, <1>7, <1>8, <1>9, CacheUnchanged DEF IInv

(* Entering breada preserves the invariant, whether or not incore finds    *)
(* the block.                                                              *)
LEMMA BreadaKeeps ==
  ASSUME IInv, NEW p \in Procs, NEW x \in Blocks, NEW r \in Blocks \cup {Nil}, Breada(p, x, r)
  PROVE  IInv'
<1>1. TypeOK /\ CpuOK /\ LocalsOK /\ QueueOK /\ AssocOK /\ Accounted /\ NoLostWakeup BY DEF IInv
<1>2. /\ pc[p] = "idle" /\ wchan[p] = Nil /\ cur \in {p, Nobody} /\ bp[p] = Nil
      /\ pc' = [pc EXCEPT ![p] = IF Incore(x) THEN "ra" ELSE "getblk"] /\ cur' = p
      /\ op' = [op EXCEPT ![p] = "breada"] /\ blk' = [blk EXCEPT ![p] = x]
      /\ ra' = [ra EXCEPT ![p] = r] /\ UNCHANGED <<bp, tgt, reg>> /\ UNCHANGED cvars
  BY <1>1 DEF Breada, Runs, Goto, LocalsOK
<1>3. TypeOK' BY <1>1, <1>2 DEF TypeOK, cvars, PC, Op
<1>4. CpuOK' BY <1>1, <1>2, ProcsAssumption DEF CpuOK, TypeOK, cvars
<1>5. LocalsOK' BY <1>1, <1>2 DEF LocalsOK, TypeOK, cvars
<1>6. AssocOK' BY <1>1, <1>2 DEF AssocOK, TypeOK, cvars, Incore, Arg
<1>7. Accounted' BY <1>1, <1>2 DEF Accounted, Owns, TypeOK, cvars
<1>8. NoLostWakeup' BY <1>1, <1>2, BufsAssumption DEF NoLostWakeup, TypeOK, cvars
<1>9. QueueOK' BY <1>1, <1>2, BufsAssumption DEF QueueOK, TypeOK, cvars
<1> QED BY <1>2, <1>3, <1>4, <1>5, <1>6, <1>7, <1>8, <1>9, CacheUnchanged DEF IInv

(* getblk's search of the device list preserves the invariant: what it     *)
(* finds is associated with the block, and a miss means that no buffer is. *)
LEMMA SearchKeeps ==
  ASSUME IInv, NEW p \in Procs, GetblkSearch(p)
  PROVE  IInv'
<1> DEFINE f == IF op[p] # "geteblk" /\ Incore(Arg(p)) THEN CHOOSE b \in Bufs : assoc[b] = Arg(p) ELSE Nil
<1>1. TypeOK /\ CpuOK /\ LocalsOK /\ QueueOK /\ AssocOK /\ Accounted /\ NoLostWakeup BY DEF IInv
<1>2. /\ pc[p] = "getblk" /\ wchan[p] = Nil /\ cur \in {p, Nobody}
      /\ pc' = [pc EXCEPT ![p] = "take"] /\ cur' = p /\ tgt' = [tgt EXCEPT ![p] = f]
      /\ UNCHANGED <<op, blk, ra, bp, reg>> /\ UNCHANGED cvars
  BY DEF GetblkSearch, Runs, Goto
<1>3. /\ f \in Bufs \cup {Nil} /\ (op[p] = "geteblk" => f = Nil)
      /\ f # Nil => assoc[f] = Arg(p)
      /\ f = Nil /\ op[p] # "geteblk" => ~Incore(Arg(p))
  <2>1. CASE op[p] # "geteblk" /\ Incore(Arg(p)) BY <2>1, BufsAssumption DEF Incore
  <2>2. CASE ~(op[p] # "geteblk" /\ Incore(Arg(p))) BY <2>2
  <2> QED BY <2>1, <2>2
<1> HIDE DEF f
<1>4. TypeOK' BY <1>1, <1>2, <1>3 DEF TypeOK, cvars, PC
<1>5. CpuOK' BY <1>1, <1>2, ProcsAssumption DEF CpuOK, TypeOK, cvars
<1>6. LocalsOK' BY <1>1, <1>2, <1>3 DEF LocalsOK, TypeOK, cvars
<1>7. AssocOK' BY <1>1, <1>2, <1>3 DEF AssocOK, TypeOK, cvars, Incore, Arg
<1>8. Accounted' BY <1>1, <1>2 DEF Accounted, Owns, TypeOK, cvars
<1>9. NoLostWakeup' BY <1>1, <1>2, BufsAssumption DEF NoLostWakeup, TypeOK, cvars
<1>10. QueueOK' BY <1>1, <1>2, BufsAssumption DEF QueueOK, TypeOK, cvars
<1> QED BY <1>2, <1>4, <1>5, <1>6, <1>7, <1>8, <1>9, <1>10, CacheUnchanged DEF IInv

(* Returning a buffer from getblk or geteblk, or a valid one from bread,   *)
(* preserves the invariant.                                                *)
LEMMA GotHeldKeeps ==
  ASSUME IInv, NEW p \in Procs, GotHeld(p)
  PROVE  IInv'
<1>1. TypeOK /\ CpuOK /\ LocalsOK /\ QueueOK /\ AssocOK /\ Accounted /\ NoLostWakeup BY DEF IInv
<1>2. /\ pc[p] = "got" /\ wchan[p] = Nil /\ cur = p /\ op[p] \in {"getblk", "geteblk", "bread"}
      /\ bp[p] = Nil /\ tgt[p] \in Bufs
      /\ pc' = [pc EXCEPT ![p] = "held"] /\ cur' = Nobody
      /\ bp' = [bp EXCEPT ![p] = tgt[p]] /\ tgt' = [tgt EXCEPT ![p] = Nil]
      /\ UNCHANGED <<op, blk, ra, reg>> /\ UNCHANGED cvars
  BY <1>1 DEF GotHeld, Hold, Runs, Goto, CpuOK, LocalsOK, TypeOK
<1>3. TypeOK' BY <1>1, <1>2 DEF TypeOK, cvars, PC
<1>4. CpuOK' BY <1>1, <1>2 DEF CpuOK, TypeOK, cvars
<1>5. LocalsOK' BY <1>1, <1>2, BufsAssumption DEF LocalsOK, TypeOK, cvars
<1>6. AssocOK' BY <1>1, <1>2 DEF AssocOK, TypeOK, cvars, Incore, Arg
<1>7. Accounted' BY <1>1, <1>2, BufsAssumption DEF Accounted, Owns, TypeOK, cvars
<1>8. NoLostWakeup' BY <1>1, <1>2, BufsAssumption DEF NoLostWakeup, TypeOK, cvars
<1>9. QueueOK' BY <1>1, <1>2, BufsAssumption DEF QueueOK, TypeOK, cvars
<1> QED BY <1>2, <1>3, <1>4, <1>5, <1>6, <1>7, <1>8, <1>9, CacheUnchanged DEF IInv

(* Returning from bread after the wait for the transfer preserves the      *)
(* invariant: a done buffer has left the driver's queue.                   *)
LEMMA IowaitReadKeeps ==
  ASSUME IInv, NEW p \in Procs, IowaitRead(p)
  PROVE  IInv'
<1>1. TypeOK /\ CpuOK /\ LocalsOK /\ QueueOK /\ AssocOK /\ Accounted /\ NoLostWakeup BY DEF IInv
<1>2. /\ pc[p] = "iowait" /\ wchan[p] = Nil /\ op[p] = "bread"
      /\ "DONE" \in flags[bp[p]] /\ bp[p] \in Bufs
      /\ pc' = [pc EXCEPT ![p] = "held"] /\ cur' = Nobody /\ bp' = bp
      /\ tgt' = [tgt EXCEPT ![p] = Nil] /\ cur \in {p, Nobody}
      /\ UNCHANGED <<op, blk, ra, reg>> /\ UNCHANGED cvars
  <2>1. bp' = [bp EXCEPT ![p] = bp[p]] BY DEF IowaitRead, Hold
  <2>2. bp' = bp BY <1>1, <2>1 DEF TypeOK
  <2> QED BY <1>1, <2>2 DEF IowaitRead, Hold, Runs, Goto, LocalsOK, TypeOK
<1>3. TypeOK' BY <1>1, <1>2 DEF TypeOK, cvars, PC
<1>4. CpuOK' BY <1>1, <1>2, ProcsAssumption DEF CpuOK, TypeOK, cvars
<1>5. LocalsOK' BY <1>1, <1>2, BufsAssumption DEF LocalsOK, TypeOK, cvars, QueueOK
<1>6. AssocOK' BY <1>1, <1>2 DEF AssocOK, TypeOK, cvars, Incore, Arg
<1>7. Accounted' BY <1>1, <1>2 DEF Accounted, Owns, TypeOK, cvars
<1>8. NoLostWakeup' BY <1>1, <1>2, BufsAssumption DEF NoLostWakeup, TypeOK, cvars
<1>9. QueueOK' BY <1>1, <1>2, BufsAssumption DEF QueueOK, TypeOK, cvars
<1> QED BY <1>2, <1>3, <1>4, <1>5, <1>6, <1>7, <1>8, <1>9, CacheUnchanged DEF IInv

(* breada's decision to read ahead or not preserves the invariant.         *)
LEMMA ReadAheadKeeps ==
  ASSUME IInv, NEW p \in Procs, ReadAhead(p)
  PROVE  IInv'
<1> DEFINE a == ra[p] # Nil /\ ~Incore(ra[p])
<1>1. TypeOK /\ CpuOK /\ LocalsOK /\ QueueOK /\ AssocOK /\ Accounted /\ NoLostWakeup BY DEF IInv
<1>2. /\ pc[p] = "ra" /\ wchan[p] = Nil /\ cur \in {p, Nobody} /\ op[p] = "breada"
      /\ cur' = p /\ UNCHANGED <<blk, bp, reg>> /\ UNCHANGED cvars
  BY <1>1 DEF ReadAhead, BreadaEnd, Runs, LocalsOK
<1>3. CASE a
  <2>1. /\ op' = [op EXCEPT ![p] = "ahead"] /\ pc' = [pc EXCEPT ![p] = "getblk"]
        /\ UNCHANGED <<ra, tgt>> /\ ra[p] \in Blocks
    BY <1>1, <1>3 DEF ReadAhead, Goto, TypeOK
  <2>2. TypeOK' BY <1>1, <1>2, <2>1 DEF TypeOK, cvars, PC, Op
  <2>3. CpuOK' BY <1>1, <1>2, <2>1, ProcsAssumption DEF CpuOK, TypeOK, cvars
  <2>4. LocalsOK' BY <1>1, <1>2, <2>1 DEF LocalsOK, TypeOK, cvars
  <2>5. AssocOK' BY <1>1, <1>2, <2>1 DEF AssocOK, TypeOK, cvars, Incore, Arg
  <2>6. Accounted' BY <1>1, <1>2, <2>1 DEF Accounted, Owns, TypeOK, cvars
  <2>7. NoLostWakeup' BY <1>1, <1>2, <2>1, BufsAssumption DEF NoLostWakeup, TypeOK, cvars
  <2>8. QueueOK' BY <1>1, <1>2, <2>1, BufsAssumption DEF QueueOK, TypeOK, cvars
  <2> QED BY <1>2, <2>2, <2>3, <2>4, <2>5, <2>6, <2>7, <2>8, CacheUnchanged DEF IInv
<1>4. CASE ~a
  <2>1. /\ op' = [op EXCEPT ![p] = "bread"]
        /\ pc' = [pc EXCEPT ![p] = IF bp[p] = Nil THEN "getblk" ELSE "iowait"]
        /\ tgt' = [tgt EXCEPT ![p] = Nil] /\ ra' = [ra EXCEPT ![p] = Nil]
    BY <1>4 DEF ReadAhead, BreadaEnd, Goto
  <2>2. TypeOK' BY <1>1, <1>2, <2>1 DEF TypeOK, cvars, PC, Op
  <2>3. CpuOK' BY <1>1, <1>2, <2>1, ProcsAssumption DEF CpuOK, TypeOK, cvars
  <2>4. LocalsOK' BY <1>1, <1>2, <2>1 DEF LocalsOK, TypeOK, cvars
  <2>5. AssocOK' BY <1>1, <1>2, <2>1 DEF AssocOK, TypeOK, cvars, Incore, Arg
  <2>6. Accounted' BY <1>1, <1>2, <2>1 DEF Accounted, Owns, TypeOK, cvars
  <2>7. NoLostWakeup' BY <1>1, <1>2, <2>1, BufsAssumption DEF NoLostWakeup, TypeOK, cvars
  <2>8. QueueOK' BY <1>1, <1>2, <2>1, BufsAssumption DEF QueueOK, TypeOK, cvars
  <2> QED BY <1>2, <2>2, <2>3, <2>4, <2>5, <2>6, <2>7, <2>8, CacheUnchanged DEF IInv
<1> QED BY <1>3, <1>4

(* Entering bflush, which masks interrupts, preserves the invariant.       *)
LEMMA BflushCallKeeps ==
  ASSUME IInv, NEW p \in Procs, BflushCall(p)
  PROVE  IInv'
<1>1. TypeOK /\ CpuOK /\ LocalsOK /\ QueueOK /\ AssocOK /\ Accounted /\ NoLostWakeup BY DEF IInv
<1>2. /\ pc[p] = "idle" /\ wchan[p] = Nil /\ cur \in {p, Nobody} /\ bp[p] = Nil
      /\ pc' = [pc EXCEPT ![p] = "bflush"] /\ cur' = p
      /\ UNCHANGED <<op, blk, ra, bp, tgt, reg>> /\ UNCHANGED cvars
  BY <1>1 DEF BflushCall, Runs, Goto, LocalsOK
<1>3. TypeOK' BY <1>1, <1>2 DEF TypeOK, cvars, PC
<1>4. CpuOK' BY <1>1, <1>2, ProcsAssumption DEF CpuOK, TypeOK, cvars
<1>5. LocalsOK' BY <1>1, <1>2 DEF LocalsOK, TypeOK, cvars
<1>6. AssocOK' BY <1>1, <1>2 DEF AssocOK, TypeOK, cvars, Incore, Arg
<1>7. Accounted' BY <1>1, <1>2 DEF Accounted, Owns, TypeOK, cvars
<1>8. NoLostWakeup' BY <1>1, <1>2 DEF NoLostWakeup, TypeOK, cvars
<1>9. QueueOK' BY <1>1, <1>2, BufsAssumption DEF QueueOK, TypeOK, cvars
<1> QED BY <1>2, <1>3, <1>4, <1>5, <1>6, <1>7, <1>8, <1>9, CacheUnchanged DEF IInv

(* Returning from bflush preserves the invariant.                          *)
LEMMA BflushEndKeeps ==
  ASSUME IInv, NEW p \in Procs, BflushEnd(p)
  PROVE  IInv'
<1>1. TypeOK /\ CpuOK /\ LocalsOK /\ QueueOK /\ AssocOK /\ Accounted /\ NoLostWakeup BY DEF IInv
<1>2. /\ pc[p] = "bflush" /\ wchan[p] = Nil /\ cur = p /\ bp[p] = Nil
      /\ pc' = [pc EXCEPT ![p] = "idle"] /\ cur' = Nobody
      /\ op' = [op EXCEPT ![p] = "none"] /\ blk' = [blk EXCEPT ![p] = Nil]
      /\ ra' = [ra EXCEPT ![p] = Nil] /\ bp' = [bp EXCEPT ![p] = Nil]
      /\ tgt' = [tgt EXCEPT ![p] = Nil] /\ reg' = [reg EXCEPT ![p] = {}]
      /\ UNCHANGED cvars
  BY <1>1 DEF BflushEnd, Return, Runs, Goto, LocalsOK, CpuOK
<1>3. TypeOK' BY <1>1, <1>2 DEF TypeOK, cvars, PC, Op
<1>4. CpuOK' BY <1>1, <1>2 DEF CpuOK, TypeOK, cvars
<1>5. LocalsOK' BY <1>1, <1>2 DEF LocalsOK, TypeOK, cvars
<1>6. AssocOK' BY <1>1, <1>2 DEF AssocOK, TypeOK, cvars, Incore, Arg
<1>7. Accounted' BY <1>1, <1>2, BufsAssumption DEF Accounted, Owns, TypeOK, cvars
<1>8. NoLostWakeup' BY <1>1, <1>2 DEF NoLostWakeup, TypeOK, cvars
<1>9. QueueOK' BY <1>1, <1>2, BufsAssumption DEF QueueOK, TypeOK, cvars
<1> QED BY <1>2, <1>3, <1>4, <1>5, <1>6, <1>7, <1>8, <1>9, CacheUnchanged DEF IInv
----------------------------------------------------------------------------
(* Actions that put the process to sleep.                                  *)

LEMMA BusyKeeps ==
  ASSUME IInv, NEW p \in Procs, GetblkBusy(p)
  PROVE  IInv'
<1>1. /\ TypeOK /\ CpuOK /\ LocalsOK /\ QueueOK /\ AssocOK /\ Accounted
      /\ BusyIffNotAvailable /\ NoAlias /\ NoLostWakeup /\ DriverBusy
      BY DEF IInv
<1>2. /\ pc[p] = "take" /\ wchan[p] = Nil /\ cur = p /\ tgt[p] \in Bufs
      /\ "BUSY" \in flags[tgt[p]]
      /\ pc' = [pc EXCEPT ![p] = "getblk"] /\ cur' = Nobody /\ tgt' = [tgt EXCEPT ![p] = Nil]
      /\ UNCHANGED <<op, blk, ra, bp, reg>>
      /\ flags' = [flags EXCEPT ![tgt[p]] = (@ \cup {"WANTED"}) \ {}]
      /\ wchan' = [wchan EXCEPT ![p] = tgt[p]]
      /\ UNCHANGED <<assoc, free, fwanted, actq, active, data, disk>>
  BY <1>1 DEF GetblkBusy, SleepOn, SetCache, SetF, Cache, Runs, Goto, CpuOK, TypeOK
<1>3. TypeOK' BY <1>1, <1>2 DEF TypeOK, PC, Flag
<1>4. CpuOK' BY <1>1, <1>2 DEF CpuOK, TypeOK
<1>5. LocalsOK' BY <1>1, <1>2 DEF LocalsOK, TypeOK
<1>6. QueueOK' BY <1>1, <1>2 DEF QueueOK, TypeOK
<1>7. AssocOK' BY <1>1, <1>2 DEF AssocOK, TypeOK, Incore, Arg
<1>8. BusyIffNotAvailable' BY <1>1, <1>2 DEF BusyIffNotAvailable, TypeOK
<1>9. Accounted' BY <1>1, <1>2 DEF Accounted, Owns, TypeOK
<1>10. NoAlias' BY <1>1, <1>2 DEF NoAlias
<1>11. NoLostWakeup' BY <1>1, <1>2, BufsAssumption DEF NoLostWakeup, TypeOK
<1>12. DriverBusy' BY <1>1, <1>2 DEF DriverBusy
<1> QED BY <1>3, <1>4, <1>5, <1>6, <1>7, <1>8, <1>9, <1>10, <1>11, <1>12 DEF IInv

(* Sleeping in getblk on the empty available list preserves the invariant: *)
(* B_WANTED of the list is set before the sleep.                           *)
LEMMA NoneKeeps ==
  ASSUME IInv, NEW p \in Procs, GetblkNone(p)
  PROVE  IInv'
<1>1. /\ TypeOK /\ CpuOK /\ LocalsOK /\ QueueOK /\ AssocOK /\ Accounted
      /\ BusyIffNotAvailable /\ NoAlias /\ NoLostWakeup /\ DriverBusy
      BY DEF IInv
<1>2. /\ pc[p] = "take" /\ wchan[p] = Nil /\ cur = p /\ tgt[p] = Nil /\ free = <<>>
      /\ pc' = [pc EXCEPT ![p] = "getblk"] /\ cur' = Nobody /\ tgt' = [tgt EXCEPT ![p] = Nil]
      /\ UNCHANGED <<op, blk, ra, bp, reg>>
      /\ fwanted' = TRUE /\ wchan' = [wchan EXCEPT ![p] = FreeList]
      /\ UNCHANGED <<flags, assoc, free, actq, active, data, disk>>
  BY <1>1 DEF GetblkNone, SleepOn, SetCache, Cache, Runs, Goto, CpuOK
<1>3. TypeOK' BY <1>1, <1>2 DEF TypeOK, PC
<1>4. CpuOK' BY <1>1, <1>2 DEF CpuOK, TypeOK
<1>5. LocalsOK' BY <1>1, <1>2 DEF LocalsOK, TypeOK
<1>6. QueueOK' BY <1>1, <1>2 DEF QueueOK
<1>7. AssocOK' BY <1>1, <1>2 DEF AssocOK, TypeOK, Incore, Arg
<1>8. BusyIffNotAvailable' BY <1>1, <1>2 DEF BusyIffNotAvailable
<1>9. Accounted' BY <1>1, <1>2 DEF Accounted, Owns, TypeOK
<1>10. NoAlias' BY <1>1, <1>2 DEF NoAlias
<1>11. NoLostWakeup' BY <1>1, <1>2, BufsAssumption DEF NoLostWakeup, TypeOK
<1>12. DriverBusy' BY <1>1, <1>2 DEF DriverBusy
<1> QED BY <1>3, <1>4, <1>5, <1>6, <1>7, <1>8, <1>9, <1>10, <1>11, <1>12 DEF IInv

(* Sleeping in iowait preserves the invariant: the transfer that is not    *)
(* done is on the driver's queue.                                          *)
LEMMA IowaitSleepKeeps ==
  ASSUME IInv, NEW p \in Procs, IowaitSleep(p)
  PROVE  IInv'
<1>1. /\ TypeOK /\ CpuOK /\ LocalsOK /\ QueueOK /\ AssocOK /\ Accounted
      /\ BusyIffNotAvailable /\ NoAlias /\ NoLostWakeup /\ DriverBusy
      BY DEF IInv
<1>2. /\ pc[p] = "iowait" /\ wchan[p] = Nil /\ cur \in {p, Nobody} /\ bp[p] \in Bufs
      /\ "DONE" \notin flags[bp[p]]
      /\ cur' = Nobody /\ UNCHANGED <<pc, op, blk, ra, bp, tgt, reg>>
      /\ wchan' = [wchan EXCEPT ![p] = bp[p]]
      /\ UNCHANGED <<flags, assoc, free, fwanted, actq, active, data, disk>>
  BY <1>1 DEF IowaitSleep, SetCache, Cache, Runs, LocalsOK, TypeOK
<1>3. TypeOK' BY <1>1, <1>2 DEF TypeOK
<1>4. CpuOK' BY <1>1, <1>2, ProcsAssumption DEF CpuOK, TypeOK
<1>5. LocalsOK' BY <1>1, <1>2 DEF LocalsOK
<1>6. QueueOK' BY <1>1, <1>2 DEF QueueOK
<1>7. AssocOK' BY <1>1, <1>2 DEF AssocOK, Incore, Arg
<1>8. BusyIffNotAvailable' BY <1>1, <1>2 DEF BusyIffNotAvailable
<1>9. Accounted' BY <1>1, <1>2 DEF Accounted, Owns
<1>10. NoAlias' BY <1>1, <1>2 DEF NoAlias
<1>11. NoLostWakeup' BY <1>1, <1>2, BufsAssumption DEF NoLostWakeup, TypeOK, QueueOK
<1>12. DriverBusy' BY <1>1, <1>2 DEF DriverBusy
<1> QED BY <1>3, <1>4, <1>5, <1>6, <1>7, <1>8, <1>9, <1>10, <1>11, <1>12 DEF IInv
----------------------------------------------------------------------------
(* getblk takes a buffer, or has marked one to be reused soon.             *)

LEMMA FoundKeeps ==
  ASSUME IInv, NEW p \in Procs, GetblkFound(p)
  PROVE  IInv'
<1> DEFINE b == tgt[p]
           n == Notavail(Cache, b)
<1>1. /\ TypeOK /\ CpuOK /\ LocalsOK /\ QueueOK /\ AssocOK /\ Accounted
      /\ BusyIffNotAvailable /\ NoAlias /\ NoLostWakeup /\ DriverBusy
      /\ Cache \in CacheType
      BY TypeSplit DEF IInv
<1>2. /\ pc[p] = "take" /\ wchan[p] = Nil /\ cur = p /\ b \in Bufs
      /\ "BUSY" \notin flags[b] /\ SetCache(n)
      /\ pc' = [pc EXCEPT ![p] = "got"]
      /\ UNCHANGED <<cur, op, blk, ra, bp, tgt, reg>>
  BY <1>1 DEF GetblkFound, Runs, Goto, CpuOK, TypeOK
<1>3. /\ b \in ToSet(free) /\ b \notin ToSet(actq) /\ \A q \in Procs : ~Owns(q, b)
      /\ "ASYNC" \notin flags[b] /\ free # <<>>
  <2>1. b \in ToSet(free) BY <1>1, <1>2 DEF BusyIffNotAvailable
  <2> QED BY <1>1, <1>2, <2>1, MemberNonempty DEF TypeOK, Accounted, AssocOK
<1>4. /\ flags' = [flags EXCEPT ![b] = @ \cup {"BUSY"}]
      /\ free' \in Seq(Bufs) /\ ToSet(free') = ToSet(free) \ {b} /\ IsInjective(free')
      /\ UNCHANGED <<assoc, fwanted, actq, active, wchan, data, disk>>
  <2>1. Cache.free = free /\ IsInjective(Cache.free) BY <1>1 DEF Cache, BusyIffNotAvailable
  <2>2. /\ n \in CacheType /\ n.flags = [Cache.flags EXCEPT ![b] = @ \cup {"BUSY"}]
        /\ ToSet(n.free) = ToSet(Cache.free) \ {b} /\ IsInjective(n.free)
        /\ n.assoc = Cache.assoc /\ n.fwanted = Cache.fwanted /\ n.actq = Cache.actq
        /\ n.active = Cache.active /\ n.wchan = Cache.wchan /\ SameData(Cache, n)
    BY <1>1, <1>3, <2>1, NotavailFields
  <2> HIDE DEF n
  <2> QED BY <1>2, <2>2 DEF SetCache, Cache, CacheType, SameData
<1>5. TypeOK' BY <1>1, <1>2, <1>4 DEF TypeOK, PC, Flag
<1>6. CpuOK' BY <1>1, <1>2, <1>4 DEF CpuOK, TypeOK
<1>7. LocalsOK' BY <1>1, <1>2, <1>3, <1>4, BufsAssumption DEF LocalsOK, TypeOK, Accounted, Owns
<1>8. QueueOK' BY <1>1, <1>2, <1>4 DEF QueueOK, TypeOK
<1>9. AssocOK'
  <2>1. assoc[b] # NODEV
    BY <1>1, <1>2, BufsAssumption, BlocksAssumption DEF AssocOK, LocalsOK, Arg
  <2>2. "ERROR" \notin flags[b] BY <1>1, <1>2, <2>1 DEF AssocOK
  <2> QED BY <1>1, <1>2, <1>4, <2>2 DEF AssocOK, TypeOK, Incore, Arg
<1>10. BusyIffNotAvailable' BY <1>1, <1>2, <1>4 DEF BusyIffNotAvailable, TypeOK
<1>11. Accounted'
  <2>1. \A q \in Procs, c \in Bufs : Owns(q, c)' <=> Owns(q, c) \/ (q = p /\ c = b)
    BY <1>1, <1>2 DEF Owns, TypeOK
  <2>2. \A q \in Procs, c \in Bufs : Owns(q, c)' => "BUSY" \in flags'[c] /\ "ASYNC" \notin flags'[c]
    BY <1>1, <1>2, <1>3, <1>4, <2>1 DEF Accounted, TypeOK
  <2>3. \A q, r \in Procs, c \in Bufs : Owns(q, c)' /\ Owns(r, c)' => q = r
    BY <1>1, <1>3, <2>1 DEF Accounted
  <2>4. \A c \in ToSet(actq') : "BUSY" \in flags'[c]
    BY <1>1, <1>2, <1>4 DEF Accounted, TypeOK
  <2>5. \A c \in Bufs : "BUSY" \in flags'[c] =>
          (\E q \in Procs : Owns(q, c)') \/ ("ASYNC" \in flags'[c] /\ c \in ToSet(actq'))
    BY <1>1, <1>2, <1>4, <2>1 DEF Accounted, TypeOK
  <2> QED BY <2>2, <2>3, <2>4, <2>5 DEF Accounted
<1>12. NoAlias' BY <1>1, <1>4 DEF NoAlias
<1>13. NoLostWakeup' BY <1>1, <1>2, <1>3, <1>4, BufsAssumption DEF NoLostWakeup, TypeOK
<1>14. DriverBusy' BY <1>1, <1>4 DEF DriverBusy
<1> QED BY <1>5, <1>6, <1>7, <1>8, <1>9, <1>10, <1>11, <1>12, <1>13, <1>14 DEF IInv

(* bwrite's indivisible b_flags |= B_AGE preserves the invariant even when *)
(* the interrupt has released the buffer before it.                        *)
LEMMA SetAgeKeeps ==
  ASSUME IInv, NEW p \in Procs, SetAge(p)
  PROVE  IInv'
<1>1. /\ TypeOK /\ CpuOK /\ LocalsOK /\ QueueOK /\ AssocOK /\ Accounted
      /\ BusyIffNotAvailable /\ NoAlias /\ NoLostWakeup /\ DriverBusy
      BY DEF IInv
<1>2. /\ pc[p] = "age" /\ wchan[p] = Nil /\ cur = p /\ tgt[p] \in Bufs
      /\ flags' = [flags EXCEPT ![tgt[p]] = (@ \cup {"AGE"}) \ {}]
      /\ UNCHANGED <<assoc, free, fwanted, actq, active, wchan, data, disk>>
      /\ AfterAge(p)
  BY <1>1 DEF SetAge, SetCache, SetF, Cache, Runs, CpuOK, LocalsOK, TypeOK
<1>4. BusyIffNotAvailable' BY <1>1, <1>2 DEF BusyIffNotAvailable, TypeOK
<1>5. NoAlias' BY <1>1, <1>2 DEF NoAlias
<1>6. DriverBusy' BY <1>1, <1>2 DEF DriverBusy
<1>7. CASE op[p] = "bawrite"
  <2>1. /\ pc' = [pc EXCEPT ![p] = "idle"] /\ cur' = Nobody
        /\ op' = [op EXCEPT ![p] = "none"] /\ blk' = [blk EXCEPT ![p] = Nil]
        /\ ra' = [ra EXCEPT ![p] = Nil] /\ bp' = [bp EXCEPT ![p] = Nil]
        /\ tgt' = [tgt EXCEPT ![p] = Nil] /\ reg' = [reg EXCEPT ![p] = {}]
        /\ bp[p] = Nil
    BY <1>1, <1>2, <1>7 DEF AfterAge, Return, Goto, LocalsOK
  <2>2. TypeOK' BY <1>1, <1>2, <2>1 DEF TypeOK, PC, Op, Flag
  <2>3. CpuOK' BY <1>1, <1>2, <2>1 DEF CpuOK, TypeOK
  <2>4. LocalsOK' BY <1>1, <1>2, <2>1 DEF LocalsOK, TypeOK
  <2>5. AssocOK' BY <1>1, <1>2, <2>1 DEF AssocOK, TypeOK, Incore, Arg
  <2>6. Accounted'
    <3>1. \A q \in Procs, c \in Bufs : Owns(q, c)' <=> Owns(q, c)
      BY <1>1, <1>2, <2>1, BufsAssumption DEF Owns, TypeOK
    <3> QED BY <1>1, <1>2, <3>1 DEF Accounted, TypeOK
  <2>7. NoLostWakeup' BY <1>1, <1>2, <2>1 DEF NoLostWakeup, TypeOK
  <2>8. QueueOK' BY <1>1, <1>2, <2>1 DEF QueueOK, TypeOK
  <2> QED BY <1>4, <1>5, <1>6, <2>2, <2>3, <2>4, <2>5, <2>6, <2>7, <2>8 DEF IInv
<1>8. CASE op[p] # "bawrite"
  <2>1. /\ pc' = [pc EXCEPT ![p] = "getblk"] /\ tgt' = [tgt EXCEPT ![p] = Nil]
        /\ reg' = [reg EXCEPT ![p] = {}] /\ UNCHANGED <<cur, op, blk, ra, bp>>
    BY <1>2, <1>8 DEF AfterAge, Goto
  <2>2. TypeOK' BY <1>1, <1>2, <2>1 DEF TypeOK, PC, Flag
  <2>3. CpuOK' BY <1>1, <1>2, <2>1 DEF CpuOK, TypeOK
  <2>4. LocalsOK' BY <1>1, <1>2, <2>1 DEF LocalsOK, TypeOK
  <2>5. AssocOK' BY <1>1, <1>2, <2>1 DEF AssocOK, TypeOK, Incore, Arg
  <2>6. Accounted' BY <1>1, <1>2, <2>1 DEF Accounted, Owns, TypeOK
  <2>7. NoLostWakeup' BY <1>1, <1>2, <2>1, BufsAssumption DEF NoLostWakeup, TypeOK
  <2>8. QueueOK' BY <1>1, <1>2, <2>1 DEF QueueOK, TypeOK
  <2> QED BY <1>4, <1>5, <1>6, <2>2, <2>3, <2>4, <2>5, <2>6, <2>7, <2>8 DEF IInv
<1> QED BY <1>7, <1>8
----------------------------------------------------------------------------
(* The three things that can become of buffer b, whose flags the calling   *)
(* routine has set to G: it is released, it joins the driver's queue, or   *)
(* its transfer is refused and the caller will find that out in iowait.    *)
(* B_AGE, which bflush sets after all that, matters to none of it.         *)

FlagsBecome(b, F) ==
  /\ flags' \in [Bufs -> SUBSET Flag]
  /\ \A c \in Bufs \ {b} : flags'[c] = flags[c]
  /\ flags'[b] \ {"AGE"} = F \ {"AGE"}

FreedTo(b, G) ==
  /\ FlagsBecome(b, G \ {"WANTED", "BUSY", "ASYNC"})
  /\ assoc' = [assoc EXCEPT ![b] = IF "ERROR" \in G THEN NODEV ELSE @]
  /\ free' \in Seq(Bufs) /\ ToSet(free') = ToSet(free) \cup {b} /\ IsInjective(free')
  /\ fwanted' = FALSE
  /\ wchan' = [q \in Procs |-> IF \/ wchan[q] = b /\ "WANTED" \in G
                                  \/ wchan[q] = FreeList /\ fwanted
                               THEN Nil ELSE wchan[q]]
  /\ data' \in [Bufs -> Vals] /\ disk' \in [Blocks -> Vals]

QueuedTo(b, G) ==
  /\ FlagsBecome(b, G)
  /\ free' \in Seq(Bufs) /\ ToSet(free') = ToSet(free) \ {b} /\ IsInjective(free')
  /\ free = <<>> => free' = <<>>
  /\ actq' = Append(actq, b) /\ active' = TRUE
  /\ UNCHANGED <<assoc, fwanted, wchan>>
  /\ data' \in [Bufs -> Vals] /\ disk' \in [Blocks -> Vals]

RefusedTo(b, G) ==
  /\ FlagsBecome(b, (G \cup {"ERROR", "DONE"}) \ {"WANTED"})
  /\ wchan' = [q \in Procs |-> IF wchan[q] = b THEN Nil ELSE wchan[q]]
  /\ free' \in Seq(Bufs) /\ ToSet(free') = ToSet(free) \ {b} /\ IsInjective(free')
  /\ free = <<>> => free' = <<>>
  /\ UNCHANGED <<assoc, fwanted, actq, active>>
  /\ data' \in [Bufs -> Vals] /\ disk' \in [Blocks -> Vals]

(* The next cache state is t, up to B_AGE of b.                            *)
Reaches(t, b) ==
  /\ \E age \in {{}, {"AGE"}} : flags' = [t.flags EXCEPT ![b] = @ \cup age]
  /\ assoc' = t.assoc /\ free' = t.free /\ fwanted' = t.fwanted
  /\ actq' = t.actq /\ active' = t.active /\ wchan' = t.wchan
  /\ data' = t.data /\ disk' = t.disk

(* Storing a cache state reaches it.                                       *)
LEMMA SetCacheReaches ==
  ASSUME NEW t \in CacheType, NEW b \in Bufs, SetCache(t)
  PROVE  Reaches(t, b)
BY DEF SetCache, Reaches, CacheType

(* A state whose flags differ at b only, once reached up to B_AGE, gives   *)
(* the next flags of b.                                                    *)
LEMMA FlagsReached ==
  ASSUME TypeOK, NEW t \in CacheType, NEW b \in Bufs, NEW F \in SUBSET Flag,
         t.flags = [flags EXCEPT ![b] = F], Reaches(t, b)
  PROVE  FlagsBecome(b, F)
BY DEF Reaches, TypeOK, CacheType, FlagsBecome, Flag

(* brelse, called on a state in which b is not on the available list.      *)
LEMMA BrelseFrees ==
  ASSUME TypeOK, NEW s \in CacheType, NEW b \in Bufs, NEW G \in SUBSET Flag, NEW t,
         s.flags = [flags EXCEPT ![b] = G], s.assoc = assoc, s.fwanted = fwanted,
         s.wchan = wchan, ToSet(s.free) = ToSet(free) \ {b}, IsInjective(s.free),
         Released(s, t, b), Reaches(t, b)
  PROVE  FreedTo(b, G) /\ actq' = s.actq /\ active' = s.active
<1>1. s.flags[b] = G BY DEF TypeOK
<1>2. /\ assoc' = t.assoc /\ free' = t.free /\ fwanted' = t.fwanted
      /\ actq' = t.actq /\ active' = t.active /\ wchan' = t.wchan
      /\ data' = t.data /\ disk' = t.disk
  BY DEF Reaches
<1>3. FlagsBecome(b, G \ {"WANTED", "BUSY", "ASYNC"})
  <2> DEFINE F == G \ {"WANTED", "BUSY", "ASYNC", "AGE"}
  <2>1. t.flags = [flags EXCEPT ![b] = F] BY <1>1 DEF Released, TypeOK
  <2>2. F \in SUBSET Flag /\ t \in CacheType BY DEF Released
  <2>3. FlagsBecome(b, F) BY <2>1, <2>2, FlagsReached
  <2> QED BY <2>3 DEF FlagsBecome
<1>4. /\ t.free \in Seq(Bufs) /\ t.data \in [Bufs -> Vals] /\ t.disk \in [Blocks -> Vals]
  BY DEF Released, CacheType
<1>5. ToSet(t.free) = ToSet(free) \cup {b} /\ IsInjective(t.free) BY DEF Released
<1> QED BY <1>1, <1>2, <1>3, <1>4, <1>5 DEF Released, FreedTo

(* It refuses a request it cannot serve: error, and done.                  *)
LEMMA StrategyRefuses ==
  ASSUME NEW s \in CacheType, NEW b \in Bufs, s.assoc[b] \in BadBlocks
  PROVE  \E d \in CacheType :
           /\ d.flags = [s.flags EXCEPT ![b] = @ \cup {"ERROR", "DONE"}]
           /\ d.assoc = s.assoc /\ d.free = s.free /\ d.fwanted = s.fwanted
           /\ d.actq = s.actq /\ d.active = s.active /\ d.wchan = s.wchan
           /\ "ASYNC" \in s.flags[b] => Released(d, Sdxstrategy(s, b), b)
           /\ "ASYNC" \notin s.flags[b] => Completed(d, Sdxstrategy(s, b), b)
<1> DEFINE e == SetF(s, b, {"ERROR"}, {})
           d == SetF(e, b, {"DONE"}, {})
<1>1. Sdxstrategy(s, b) = Iodone(e, b) BY DEF Sdxstrategy
<1>2. /\ e \in CacheType
      /\ e.flags = [s.flags EXCEPT ![b] = (@ \cup {"ERROR"}) \ {}]
      /\ e.assoc = s.assoc /\ e.free = s.free /\ e.fwanted = s.fwanted
      /\ e.actq = s.actq /\ e.active = s.active /\ e.wchan = s.wchan /\ SameData(s, e)
  BY SetFFields DEF Flag
<1> HIDE DEF e
<1>3. /\ d \in CacheType
      /\ d.flags = [e.flags EXCEPT ![b] = (@ \cup {"DONE"}) \ {}]
      /\ d.assoc = e.assoc /\ d.free = e.free /\ d.fwanted = e.fwanted
      /\ d.actq = e.actq /\ d.active = e.active /\ d.wchan = e.wchan /\ SameData(e, d)
  BY <1>2, SetFFields DEF Flag
<1>4. /\ "ASYNC" \in e.flags[b] => Released(d, Iodone(e, b), b)
      /\ "ASYNC" \notin e.flags[b] => Completed(e, Iodone(e, b), b)
  BY <1>2, IodoneCases
<1> HIDE DEF d
<1>5. "ASYNC" \in e.flags[b] <=> "ASYNC" \in s.flags[b] BY <1>2 DEF CacheType
<1>6. d.flags = [s.flags EXCEPT ![b] = @ \cup {"ERROR", "DONE"}] BY <1>2, <1>3 DEF CacheType
<1>7. ASSUME NEW t, Completed(e, t, b)
      PROVE  Completed(d, t, b)
  <2>1. [d.flags EXCEPT ![b] = (@ \cup {"DONE"}) \ {"WANTED"}]
          = [e.flags EXCEPT ![b] = (@ \cup {"DONE"}) \ {"WANTED"}]
    BY <1>2, <1>3 DEF CacheType
  <2> QED BY <1>3, <1>7, <2>1 DEF Completed, SameData
<1> QED BY <1>1, <1>2, <1>3, <1>4, <1>5, <1>6, <1>7

(* sdxstrategy keeps the type of the cache state.                          *)
LEMMA StrategyType ==
  ASSUME NEW s \in CacheType, NEW b \in Bufs
  PROVE  Sdxstrategy(s, b) \in CacheType
BY StrategyQueues, StrategyRefuses DEF Queued, Released, Completed

(* The strategy routine, in its three outcomes.                            *)
LEMMA StrategyCases ==
  ASSUME TypeOK, NEW s \in CacheType, NEW b \in Bufs, NEW G \in SUBSET Flag,
         s.flags = [flags EXCEPT ![b] = G], s.assoc = assoc, s.fwanted = fwanted,
         s.wchan = wchan, s.actq = actq, s.active = active,
         ToSet(s.free) = ToSet(free) \ {b}, IsInjective(s.free),
         free = <<>> => s.free = <<>>,
         Reaches(Sdxstrategy(s, b), b)
  PROVE  \/ assoc[b] \notin BadBlocks /\ QueuedTo(b, G)
         \/ "ASYNC" \in G /\ FreedTo(b, G \cup {"ERROR", "DONE"}) /\ UNCHANGED <<actq, active>>
         \/ "ASYNC" \notin G /\ RefusedTo(b, G)
<1> DEFINE t == Sdxstrategy(s, b)
<1>1. s.flags[b] = G BY DEF TypeOK
<1>2. /\ assoc' = t.assoc /\ free' = t.free /\ fwanted' = t.fwanted
      /\ actq' = t.actq /\ active' = t.active /\ wchan' = t.wchan
      /\ data' = t.data /\ disk' = t.disk /\ Reaches(t, b)
  BY DEF Reaches
<1>3. CASE assoc[b] \notin BadBlocks
  <2>1. Queued(s, t, b) BY <1>3, StrategyQueues
  <2> HIDE DEF t
  <2>2. FlagsBecome(b, G) BY <1>2, <2>1, FlagsReached DEF Queued
  <2>3. QueuedTo(b, G) BY <1>2, <2>1, <2>2 DEF Queued, QueuedTo, CacheType
  <2> QED BY <1>3, <2>3
<1>4. CASE assoc[b] \in BadBlocks
  <2>1. PICK d \in CacheType :
           /\ d.flags = [s.flags EXCEPT ![b] = @ \cup {"ERROR", "DONE"}]
           /\ d.assoc = s.assoc /\ d.free = s.free /\ d.fwanted = s.fwanted
           /\ d.actq = s.actq /\ d.active = s.active /\ d.wchan = s.wchan
           /\ "ASYNC" \in s.flags[b] => Released(d, t, b)
           /\ "ASYNC" \notin s.flags[b] => Completed(d, t, b)
    BY <1>4, StrategyRefuses
  <2> HIDE DEF t
  <2>2. d.flags = [flags EXCEPT ![b] = G \cup {"ERROR", "DONE"}] BY <1>1, <2>1 DEF TypeOK
  <2>3. G \cup {"ERROR", "DONE"} \in SUBSET Flag BY DEF Flag
  <2>4. CASE "ASYNC" \in G
    <3>1. Released(d, t, b) BY <1>1, <2>1, <2>4
    <3>2. /\ d.assoc = assoc /\ d.fwanted = fwanted /\ d.wchan = wchan
          /\ ToSet(d.free) = ToSet(free) \ {b} /\ IsInjective(d.free)
      BY <2>1
    <3>3. FreedTo(b, G \cup {"ERROR", "DONE"}) /\ actq' = d.actq /\ active' = d.active
      BY <1>2, <2>1, <2>2, <2>3, <3>1, <3>2, BrelseFrees
    <3> QED BY <2>1, <2>4, <3>3
  <2>5. CASE "ASYNC" \notin G
    <3>1. Completed(d, t, b) BY <1>1, <2>1, <2>5
    <3>2. FlagsBecome(b, (G \cup {"ERROR", "DONE"}) \ {"WANTED"})
      <4>1. t.flags = [flags EXCEPT ![b] = (G \cup {"ERROR", "DONE"}) \ {"WANTED"}] /\ t \in CacheType
        BY <2>2, <3>1 DEF Completed, TypeOK
      <4> QED BY <1>2, <2>3, <4>1, FlagsReached
    <3>3. t.wchan = [q \in Procs |-> IF wchan[q] = b THEN Nil ELSE wchan[q]]
      BY <2>1, <3>1 DEF Completed
    <3>4. /\ t.free \in Seq(Bufs) /\ t.free = s.free /\ t.assoc = assoc /\ t.fwanted = fwanted
          /\ t.actq = actq /\ t.active = active
          /\ t.data \in [Bufs -> Vals] /\ t.disk \in [Blocks -> Vals]
      BY <2>1, <3>1 DEF Completed, CacheType
    <3>5. RefusedTo(b, G) BY <1>2, <3>2, <3>3, <3>4 DEF RefusedTo
    <3> QED BY <2>5, <3>5
  <2> QED BY <2>4, <2>5
<1> QED BY <1>3, <1>4
----------------------------------------------------------------------------
(* What the three outcomes do to the parts of the invariant that do not    *)
(* depend on where the calling process goes.                               *)

(* No sleeper has moved.                                                   *)
SleepersStay == \A q \in Procs : wchan[q] # Nil => pc'[q] = pc[q]

(* A buffer that ends up released (FreedTo), and owned by nobody,          *)
(* preserves the parts of the invariant that speak of the cache.           *)
LEMMA FreedKeeps ==
  ASSUME IInv, NEW b \in Bufs, NEW G \in SUBSET Flag, FreedTo(b, G),
         actq' = actq, active' = active, b \notin ToSet(actq),
         "WANTED" \in flags[b] => "WANTED" \in G, SleepersStay,
         \A q \in Procs, c \in Bufs : Owns(q, c)' <=> Owns(q, c) /\ c # b
  PROVE  BusyIffNotAvailable' /\ NoAlias' /\ DriverBusy' /\ Accounted' /\ NoLostWakeup'
<1>1. TypeOK /\ BusyIffNotAvailable /\ NoAlias /\ DriverBusy /\ Accounted /\ NoLostWakeup BY DEF IInv
<1>2. \A c \in Bufs \ {b} : flags'[c] = flags[c] /\ assoc'[c] = assoc[c]
  BY <1>1 DEF FreedTo, FlagsBecome, TypeOK
<1>3. "BUSY" \notin flags'[b] /\ assoc'[b] \in {assoc[b], NODEV}
  BY <1>1 DEF FreedTo, FlagsBecome, TypeOK
<1>4. BusyIffNotAvailable' BY <1>1, <1>2, <1>3 DEF BusyIffNotAvailable, FreedTo
<1>5. NoAlias' BY <1>1, <1>2, <1>3 DEF NoAlias
<1>6. DriverBusy' BY <1>1 DEF DriverBusy
<1>7. Accounted'
  <2>1. \A q \in Procs, c \in Bufs : Owns(q, c)' => "BUSY" \in flags'[c] /\ "ASYNC" \notin flags'[c]
    BY <1>1, <1>2 DEF Accounted
  <2>2. \A q, r \in Procs, c \in Bufs : Owns(q, c)' /\ Owns(r, c)' => q = r BY <1>1 DEF Accounted
  <2>3. \A c \in ToSet(actq') : c \in Bufs BY <1>1, MembersType DEF TypeOK
  <2>4. \A c \in ToSet(actq') : "BUSY" \in flags'[c] BY <1>1, <1>2, <2>3 DEF Accounted
  <2>5. \A c \in Bufs : "BUSY" \in flags'[c] =>
          (\E q \in Procs : Owns(q, c)') \/ ("ASYNC" \in flags'[c] /\ c \in ToSet(actq'))
    BY <1>1, <1>2, <1>3 DEF Accounted
  <2> QED BY <2>1, <2>2, <2>4, <2>5 DEF Accounted
<1>8. NoLostWakeup'
  <2>1. ASSUME NEW q \in Procs, wchan'[q] # Nil
        PROVE  wchan'[q] = wchan[q] /\ wchan[q] # FreeList /\ pc'[q] = pc[q]
               /\ (wchan[q] = b => pc[q] # "getblk") /\ (wchan[q] = b => pc[q] # "iowait")
    BY <1>1, <2>1 DEF FreedTo, SleepersStay, NoLostWakeup
  <2> QED BY <1>1, <1>2, <2>1, BufsAssumption DEF NoLostWakeup
<1> QED BY <1>4, <1>5, <1>6, <1>7, <1>8

(* A buffer that ends up on the driver's queue (QueuedTo), asynchronous    *)
(* and nobody's or synchronous and somebody's, preserves the parts of the  *)
(* invariant that speak of the cache.                                      *)
LEMMA QueuedKeeps ==
  ASSUME IInv, NEW b \in Bufs, NEW G \in SUBSET Flag, QueuedTo(b, G),
         b \notin ToSet(actq), "BUSY" \in G,
         "WANTED" \in flags[b] => "WANTED" \in G, SleepersStay,
         \/ /\ "ASYNC" \in G
            /\ \A q \in Procs, c \in Bufs : Owns(q, c)' <=> Owns(q, c) /\ c # b
         \/ /\ "ASYNC" \notin G /\ \E q \in Procs : Owns(q, b)
            /\ \A q \in Procs, c \in Bufs : Owns(q, c)' <=> Owns(q, c)
  PROVE  BusyIffNotAvailable' /\ NoAlias' /\ DriverBusy' /\ Accounted' /\ NoLostWakeup'
<1>1. TypeOK /\ BusyIffNotAvailable /\ NoAlias /\ DriverBusy /\ Accounted /\ NoLostWakeup BY DEF IInv
<1>2. \A c \in Bufs \ {b} : flags'[c] = flags[c] BY DEF QueuedTo, FlagsBecome
<1>3. flags'[b] \ {"AGE"} = G \ {"AGE"} BY DEF QueuedTo, FlagsBecome
<1>4. ToSet(actq') = ToSet(actq) \cup {b} /\ actq' \in Seq(Bufs) BY <1>1, AppendFacts DEF QueuedTo, TypeOK
<1>5. BusyIffNotAvailable' BY <1>1, <1>2, <1>3 DEF BusyIffNotAvailable, QueuedTo
<1>6. NoAlias' BY <1>1 DEF NoAlias, QueuedTo
<1>7. DriverBusy' BY <1>4, MemberNonempty DEF DriverBusy, QueuedTo
<1>8. Accounted'
  <2>1. \A q \in Procs, c \in Bufs : Owns(q, c)' => "BUSY" \in flags'[c] /\ "ASYNC" \notin flags'[c]
    BY <1>1, <1>2, <1>3 DEF Accounted
  <2>2. \A q, r \in Procs, c \in Bufs : Owns(q, c)' /\ Owns(r, c)' => q = r BY <1>1 DEF Accounted
  <2>3. \A c \in ToSet(actq) : c \in Bufs BY <1>1, MembersType DEF TypeOK
  <2>4. \A c \in ToSet(actq') : "BUSY" \in flags'[c] BY <1>1, <1>2, <1>3, <1>4, <2>3 DEF Accounted
  <2>5. \A c \in Bufs : "BUSY" \in flags'[c] =>
          (\E q \in Procs : Owns(q, c)') \/ ("ASYNC" \in flags'[c] /\ c \in ToSet(actq'))
    BY <1>1, <1>2, <1>3, <1>4 DEF Accounted
  <2> QED BY <2>1, <2>2, <2>4, <2>5 DEF Accounted
<1>9. NoLostWakeup'
  <2>1. ASSUME NEW q \in Procs, wchan'[q] # Nil
        PROVE  wchan'[q] = wchan[q] /\ pc'[q] = pc[q]
    BY <2>1 DEF QueuedTo, SleepersStay
  <2>2. fwanted' = fwanted /\ (free = <<>> => free' = <<>>) BY DEF QueuedTo
  <2> QED BY <1>1, <1>2, <1>3, <1>4, <2>1, <2>2, BufsAssumption DEF NoLostWakeup
<1> QED BY <1>5, <1>6, <1>7, <1>8, <1>9

(* A buffer whose transfer the driver refuses or finishes (RefusedTo), and *)
(* that its owner keeps, preserves the parts of the invariant that speak   *)
(* of the cache.                                                           *)
LEMMA RefusedKeeps ==
  ASSUME IInv, NEW b \in Bufs, NEW G \in SUBSET Flag, RefusedTo(b, G),
         b \notin ToSet(actq), "BUSY" \in G, "ASYNC" \notin G, SleepersStay,
         \E q \in Procs : Owns(q, b),
         \A q \in Procs, c \in Bufs : Owns(q, c)' <=> Owns(q, c)
  PROVE  BusyIffNotAvailable' /\ NoAlias' /\ DriverBusy' /\ Accounted' /\ NoLostWakeup'
<1>1. TypeOK /\ BusyIffNotAvailable /\ NoAlias /\ DriverBusy /\ Accounted /\ NoLostWakeup BY DEF IInv
<1>2. \A c \in Bufs \ {b} : flags'[c] = flags[c] BY DEF RefusedTo, FlagsBecome
<1>3. "BUSY" \in flags'[b] /\ "ASYNC" \notin flags'[b] BY DEF RefusedTo, FlagsBecome
<1>4. actq' = actq BY DEF RefusedTo
<1>5. BusyIffNotAvailable' BY <1>1, <1>2, <1>3 DEF BusyIffNotAvailable, RefusedTo
<1>6. NoAlias' BY <1>1 DEF NoAlias, RefusedTo
<1>7. DriverBusy' BY <1>1 DEF DriverBusy, RefusedTo
<1>8. Accounted'
  <2>1. \A q \in Procs, c \in Bufs : Owns(q, c)' => "BUSY" \in flags'[c] /\ "ASYNC" \notin flags'[c]
    BY <1>1, <1>2, <1>3 DEF Accounted
  <2>2. \A q, r \in Procs, c \in Bufs : Owns(q, c)' /\ Owns(r, c)' => q = r BY <1>1 DEF Accounted
  <2>3. \A c \in ToSet(actq) : c \in Bufs BY <1>1, MembersType DEF TypeOK
  <2>4. \A c \in ToSet(actq') : "BUSY" \in flags'[c] BY <1>1, <1>2, <1>3, <1>4, <2>3 DEF Accounted
  <2>5. \A c \in Bufs : "BUSY" \in flags'[c] =>
          (\E q \in Procs : Owns(q, c)') \/ ("ASYNC" \in flags'[c] /\ c \in ToSet(actq'))
    BY <1>1, <1>2, <1>3, <1>4 DEF Accounted
  <2> QED BY <2>1, <2>2, <2>4, <2>5 DEF Accounted
<1>9. NoLostWakeup'
  <2>1. ASSUME NEW q \in Procs, wchan'[q] # Nil
        PROVE  wchan'[q] = wchan[q] /\ pc'[q] = pc[q] /\ wchan[q] # b
    BY <1>1, <2>1, BufsAssumption DEF RefusedTo, SleepersStay
  <2>2. fwanted' = fwanted /\ (free = <<>> => free' = <<>>) BY DEF RefusedTo
  <2> QED BY <1>1, <1>2, <1>4, <2>1, <2>2, BufsAssumption DEF NoLostWakeup
<1> QED BY <1>5, <1>6, <1>7, <1>8, <1>9
----------------------------------------------------------------------------
(* A process parts with a buffer: it releases it, or starts a transfer     *)
(* that it is not going to wait for.                                       *)

LEMMA PartKeeps ==
  ASSUME IInv, NEW p \in Procs, NEW b \in Bufs, NEW G \in SUBSET Flag,
         wchan[p] = Nil, cur \in {p, Nobody}, b \notin ToSet(actq),
         "WANTED" \in flags[b] => "WANTED" \in G,
         \/ /\ QueuedTo(b, G) /\ {"BUSY", "ASYNC"} \subseteq G
            /\ {"DONE", "ERROR", "DELWRI"} \cap G = {} /\ assoc[b] \in Blocks
         \/ /\ FreedTo(b, G) /\ UNCHANGED <<actq, active>>
            /\ "DELWRI" \in G => assoc[b] \in Blocks /\ "DONE" \in G /\ "ERROR" \notin G,
         \A q \in Procs, c \in Bufs : Owns(q, c)' <=> Owns(q, c) /\ c # b,
         \A q \in Procs \ {p} : /\ pc'[q] = pc[q] /\ op'[q] = op[q] /\ blk'[q] = blk[q]
                                /\ ra'[q] = ra[q] /\ bp'[q] = bp[q] /\ tgt'[q] = tgt[q],
         ProcType', cur' = p \/ (cur' = Nobody /\ pc'[p] \notin {"age", "bflush"}),
         pc'[p] \in {"idle", "bflush", "getblk", "age", "iowait"},
         bp'[p] \in {bp[p], Nil}, bp'[p] # Nil => pc[p] # "held" /\ blk'[p] = blk[p],
         pc'[p] = "iowait" => bp'[p] # Nil,
         pc'[p] # "iowait" /\ op'[p] # "ahead" => bp'[p] = Nil,
         pc'[p] \in {"idle", "bflush"} => bp'[p] = Nil,
         pc'[p] = "age" => tgt'[p] # Nil,
         op'[p] = "ahead" => ra'[p] \in Blocks,
         pc'[p] \notin {"idle", "bflush"} => IF op'[p] = "geteblk" THEN blk'[p] = NODEV ELSE blk'[p] \in Blocks
  PROVE  IInv'
<1>1. TypeOK /\ CpuOK /\ LocalsOK /\ QueueOK /\ AssocOK /\ Accounted BY DEF IInv
<1>2. SleepersStay BY DEF SleepersStay
<1>3. BusyIffNotAvailable' /\ NoAlias' /\ DriverBusy' /\ Accounted' /\ NoLostWakeup'
  BY <1>2, FreedKeeps, QueuedKeeps
<1>4. /\ \A c \in Bufs \ {b} : flags'[c] = flags[c] /\ assoc'[c] = assoc[c]
      /\ wchan' \in [Procs -> Bufs \cup {FreeList, Nil}]
      /\ \A q \in Procs : wchan'[q] \in {wchan[q], Nil}
      /\ assoc' \in [Bufs -> Blocks \cup {NODEV}] /\ flags' \in [Bufs -> SUBSET Flag]
      /\ free' \in Seq(Bufs) /\ data' \in [Bufs -> Vals] /\ disk' \in [Blocks -> Vals]
      /\ fwanted' \in BOOLEAN /\ active' \in BOOLEAN
  <2>1. CASE QueuedTo(b, G) BY <1>1, <2>1 DEF QueuedTo, FlagsBecome, TypeOK
  <2>2. CASE FreedTo(b, G) /\ UNCHANGED <<actq, active>> BY <1>1, <2>2 DEF FreedTo, FlagsBecome, TypeOK
  <2> QED BY <2>1, <2>2
<1>5. /\ actq' \in Seq(Bufs) /\ IsInjective(actq') /\ ToSet(actq') \subseteq ToSet(actq) \cup {b}
      /\ ToSet(actq) \subseteq ToSet(actq')
      /\ b \in ToSet(actq') => {"DONE", "ERROR"} \cap flags'[b] = {} /\ assoc'[b] \in Blocks
  <2>1. CASE QueuedTo(b, G) /\ {"DONE", "ERROR"} \cap G = {} /\ assoc[b] \in Blocks
    <3>1. flags'[b] \ {"AGE"} = G \ {"AGE"} /\ actq' = Append(actq, b) /\ assoc' = assoc
      BY <2>1 DEF QueuedTo, FlagsBecome
    <3> QED BY <1>1, <2>1, <3>1, AppendFacts DEF TypeOK, QueueOK
  <2>2. CASE UNCHANGED actq BY <1>1, <2>2 DEF TypeOK, QueueOK
  <2> QED BY <2>1, <2>2
<1>6. TypeOK' BY <1>4, <1>5 DEF TypeOK, ProcType
<1>7. CpuOK' BY <1>1, <1>4, ProcsAssumption DEF CpuOK
<1>8. \A q \in Procs \ {p} : pc[q] \notin {"take", "got"} BY <1>1, ProcsAssumption DEF CpuOK
<1>9. \A q \in Procs : bp'[q] # Nil => bp'[q] \in Bufs \ {b} BY DEF Owns, ProcType
<1>10. \A q \in Procs : bp'[q] # Nil =>
         bp'[q] = bp[q] /\ blk'[q] = blk[q] /\ (pc[q] = "held" => pc'[q] = "held")
  OBVIOUS
<1>11. LocalsOK'
  <2>1. \A q \in Procs \ {p} : pc'[q] = "held" => bp'[q] \notin ToSet(actq')
    BY <1>1, <1>5, <1>9 DEF LocalsOK
  <2> QED BY <1>1, <1>8, <2>1 DEF LocalsOK
<1>12. QueueOK'
  <2>1. \A c \in ToSet(actq') : c \in Bufs BY <1>5, MembersType
  <2>2. \A c \in ToSet(actq') : {"DONE", "ERROR"} \cap flags'[c] = {} /\ assoc'[c] \in Blocks
    BY <1>1, <1>4, <1>5, <2>1 DEF QueueOK
  <2>3. ASSUME NEW q \in Procs, bp'[q] # Nil, pc'[q] # "held"
        PROVE  "DONE" \in flags'[bp'[q]] \/ bp'[q] \in ToSet(actq')
    BY <1>1, <1>4, <1>5, <1>9, <1>10, <2>3 DEF QueueOK
  <2> QED BY <1>5, <2>2, <2>3 DEF QueueOK
<1>13. AssocOK'
  <2>1. \A q \in Procs : bp'[q] # Nil => assoc'[bp'[q]] = blk'[q] BY <1>1, <1>4, <1>9, <1>10 DEF AssocOK
  <2>2. \A q \in Procs : pc'[q] \notin {"take", "got"} BY <1>8
  <2>3. /\ "DELWRI" \in flags'[b] =>
              assoc'[b] \in Blocks /\ "DONE" \in flags'[b] /\ "ERROR" \notin flags'[b]
        /\ "BUSY" \notin flags'[b] => "ASYNC" \notin flags'[b]
        /\ "BUSY" \notin flags'[b] /\ assoc'[b] # NODEV => "ERROR" \notin flags'[b]
    <3>1. CASE QueuedTo(b, G) /\ {"BUSY", "ASYNC"} \subseteq G /\ "DELWRI" \notin G
      BY <3>1 DEF QueuedTo, FlagsBecome
    <3>2. CASE FreedTo(b, G) /\ ("DELWRI" \in G => assoc[b] \in Blocks /\ "DONE" \in G /\ "ERROR" \notin G)
      BY <1>1, <3>2 DEF FreedTo, FlagsBecome, TypeOK
    <3> QED BY <3>1, <3>2
  <2> QED BY <1>1, <1>4, <2>1, <2>2, <2>3 DEF AssocOK
<1> QED BY <1>3, <1>6, <1>7, <1>11, <1>12, <1>13 DEF IInv
----------------------------------------------------------------------------
(* The holder gives its buffer back and leaves the cache.                  *)

LEMMA FreedReturnKeeps ==
  ASSUME IInv, NEW p \in Procs, NEW G \in SUBSET Flag,
         bp[p] # Nil, wchan[p] = Nil, cur \in {p, Nobody}, pc[p] \in {"held", "iowait"},
         bp[p] \notin ToSet(actq),
         "WANTED" \in flags[bp[p]] => "WANTED" \in G,
         \/ /\ QueuedTo(bp[p], G) /\ {"BUSY", "ASYNC"} \subseteq G
            /\ {"DONE", "ERROR", "DELWRI"} \cap G = {} /\ assoc[bp[p]] \in Blocks
         \/ /\ FreedTo(bp[p], G) /\ UNCHANGED <<actq, active>>
            /\ "DELWRI" \in G => assoc[bp[p]] \in Blocks /\ "DONE" \in G /\ "ERROR" \notin G,
         Return(p)
  PROVE  IInv'
<1> DEFINE b == bp[p]
<1>1. TypeOK /\ Accounted BY DEF IInv
<1>2. /\ pc' = [pc EXCEPT ![p] = "idle"] /\ cur' = Nobody
      /\ op' = [op EXCEPT ![p] = "none"] /\ blk' = [blk EXCEPT ![p] = Nil]
      /\ ra' = [ra EXCEPT ![p] = Nil] /\ bp' = [bp EXCEPT ![p] = Nil]
      /\ tgt' = [tgt EXCEPT ![p] = Nil] /\ reg' = [reg EXCEPT ![p] = {}]
  BY DEF Return, Goto
<1>3. b \in Bufs /\ Owns(p, b) BY <1>1 DEF TypeOK, Owns
<1>4. \A q \in Procs, c \in Bufs : Owns(q, c)' <=> Owns(q, c) /\ c # b
  BY <1>1, <1>2, <1>3, BufsAssumption DEF Owns, TypeOK, Accounted
<1>5. \A q \in Procs \ {p} : /\ pc'[q] = pc[q] /\ op'[q] = op[q] /\ blk'[q] = blk[q]
                             /\ ra'[q] = ra[q] /\ bp'[q] = bp[q] /\ tgt'[q] = tgt[q]
  BY <1>1, <1>2 DEF TypeOK
<1>6. pc'[p] = "idle" /\ op'[p] = "none" /\ bp'[p] = Nil BY <1>1, <1>2 DEF TypeOK
<1>7. ProcType' BY <1>1, <1>2 DEF TypeOK, ProcType, PC, Op
<1> QED BY <1>2, <1>3, <1>4, <1>5, <1>6, <1>7, PartKeeps

(* brelse by the holder, from a caller or at the end of a synchronous      *)
(* bwrite, preserves the invariant.                                        *)
LEMMA ReleaseKeeps ==
  ASSUME IInv, NEW p \in Procs, Release(p) \/ IowaitWrite(p)
  PROVE  IInv'
<1> DEFINE b == bp[p]
<1>1. /\ TypeOK /\ LocalsOK /\ QueueOK /\ AssocOK /\ Accounted /\ BusyIffNotAvailable
      /\ Cache \in CacheType
      BY TypeSplit DEF IInv
<1>2. /\ pc[p] \in {"held", "iowait"} /\ wchan[p] = Nil /\ cur \in {p, Nobody}
      /\ (pc[p] = "iowait" => "DONE" \in flags[b]) /\ b # Nil /\ b \in Bufs
      /\ SetCache(Brelse(Cache, b)) /\ Return(p)
  BY <1>1 DEF Release, IowaitWrite, Runs, LocalsOK, TypeOK
<1>3. b \notin ToSet(actq) /\ b \notin ToSet(free)
  BY <1>1, <1>2 DEF LocalsOK, QueueOK, BusyIffNotAvailable, Accounted, Owns
<1>4. FreedTo(b, flags[b]) /\ UNCHANGED <<actq, active>>
  <2>1. /\ Cache.flags = [flags EXCEPT ![b] = flags[b]] /\ Cache.assoc = assoc
        /\ Cache.fwanted = fwanted /\ Cache.wchan = wchan /\ Cache.free = free
        /\ Cache.actq = actq /\ Cache.active = active
    BY <1>1 DEF Cache, TypeOK
  <2>2. ToSet(Cache.free) = ToSet(free) \ {b} /\ IsInjective(Cache.free)
    BY <1>1, <1>3, <2>1 DEF BusyIffNotAvailable
  <2>3. flags[b] \in SUBSET Flag BY <1>1, <1>2 DEF TypeOK
  <2>4. Released(Cache, Brelse(Cache, b), b) BY <1>1, <1>2, BrelseReleases
  <2>5. Reaches(Brelse(Cache, b), b) BY <1>2, <2>4, SetCacheReaches DEF Released
  <2> QED BY <1>1, <1>2, <2>1, <2>2, <2>3, <2>4, <2>5, BrelseFrees
<1>5. flags[b] \in SUBSET Flag BY <1>1, <1>2 DEF TypeOK
<1>6. "DELWRI" \in flags[b] => assoc[b] \in Blocks /\ "DONE" \in flags[b] /\ "ERROR" \notin flags[b]
  BY <1>1, <1>2 DEF AssocOK
<1> QED BY <1>2, <1>3, <1>4, <1>5, <1>6, FreedReturnKeeps

(* bdwrite preserves the invariant: the buffer is released with B_DELWRI   *)
(* and B_DONE set.                                                         *)
LEMMA BdwriteKeeps ==
  ASSUME IInv, NEW p \in Procs, NEW v \in Vals, Bdwrite(p, v)
  PROVE  IInv'
<1> DEFINE b == bp[p]
           m == Modified(p, v)
           s == SetF(m, b, {"DELWRI", "DONE"}, {})
           G == flags[b] \cup {"DELWRI", "DONE"}
<1>1. /\ TypeOK /\ LocalsOK /\ QueueOK /\ AssocOK /\ Accounted /\ BusyIffNotAvailable
      /\ Cache \in CacheType
      BY TypeSplit DEF IInv
<1>2. /\ pc[p] = "held" /\ wchan[p] = Nil /\ cur \in {p, Nobody}
      /\ b # Nil /\ b \in Bufs /\ assoc[b] # NODEV /\ "ERROR" \notin flags[b]
      /\ SetCache(Brelse(s, b)) /\ Return(p)
  BY <1>1 DEF Bdwrite, CanWrite, Runs, LocalsOK, TypeOK
<1>3. b \notin ToSet(actq) /\ b \notin ToSet(free) /\ assoc[b] \in Blocks /\ G \in SUBSET Flag
  BY <1>1, <1>2 DEF LocalsOK, BusyIffNotAvailable, Accounted, Owns, TypeOK, Flag
<1>4. /\ m \in CacheType /\ m.flags = flags /\ m.assoc = assoc /\ m.free = free
      /\ m.fwanted = fwanted /\ m.actq = actq /\ m.active = active /\ m.wchan = wchan
  BY <1>1, <1>2 DEF Modified, Cache, CacheType
<1> HIDE DEF m
<1>5. /\ s \in CacheType /\ s.flags = [m.flags EXCEPT ![b] = (@ \cup {"DELWRI", "DONE"}) \ {}]
      /\ s.assoc = m.assoc /\ s.free = m.free /\ s.fwanted = m.fwanted
      /\ s.actq = m.actq /\ s.active = m.active /\ s.wchan = m.wchan
  BY <1>2, <1>4, SetFFields DEF Flag
<1> HIDE DEF s
<1>6. FreedTo(b, G) /\ UNCHANGED <<actq, active>>
  <2>1. s.flags = [flags EXCEPT ![b] = G] BY <1>1, <1>2, <1>4, <1>5 DEF TypeOK
  <2>2. ToSet(s.free) = ToSet(free) \ {b} /\ IsInjective(s.free)
    BY <1>1, <1>3, <1>4, <1>5 DEF BusyIffNotAvailable
  <2>3. Released(s, Brelse(s, b), b) BY <1>2, <1>5, BrelseReleases
  <2>4. s.assoc = assoc /\ s.fwanted = fwanted /\ s.wchan = wchan /\ s.actq = actq /\ s.active = active
    BY <1>4, <1>5
  <2>5. Reaches(Brelse(s, b), b) BY <1>2, <2>3, SetCacheReaches DEF Released
  <2> QED BY <1>1, <1>2, <1>3, <1>5, <2>1, <2>2, <2>3, <2>4, <2>5, BrelseFrees
<1> QED BY <1>2, <1>3, <1>6, FreedReturnKeeps
----------------------------------------------------------------------------
(* A process starts a transfer that it is going to wait for.               *)

LEMMA SyncKeeps ==
  ASSUME IInv, NEW p \in Procs, NEW b \in Bufs, NEW G \in SUBSET Flag,
         NEW l \in {"iowait", "ra"}, NEW o \in {"bread", "breada", "bwrite"}, l = "ra" => o = "breada",
         wchan[p] = Nil, cur \in {p, Nobody}, b \notin ToSet(actq),
         \/ pc[p] = "held" /\ bp[p] = b
         \/ pc[p] = "got" /\ tgt[p] = b /\ bp[p] = Nil,
         "BUSY" \in G, {"ASYNC", "DONE", "ERROR", "DELWRI"} \cap G = {},
         "WANTED" \in flags[b] => "WANTED" \in G,
         assoc[b] = blk[p], assoc[b] \in Blocks,
         QueuedTo(b, G) \/ RefusedTo(b, G),
         pc' = [pc EXCEPT ![p] = l], cur' = p, op' = [op EXCEPT ![p] = o],
         bp' = [bp EXCEPT ![p] = b], tgt' \in [Procs -> Bufs \cup {Nil}],
         \A q \in Procs \ {p} : tgt'[q] = tgt[q], UNCHANGED <<blk, ra, reg>>
  PROVE  IInv'
<1>1. TypeOK /\ CpuOK /\ LocalsOK /\ QueueOK /\ AssocOK /\ Accounted BY DEF IInv
<1>2. Owns(p, b) BY DEF Owns
<1>3. \A q \in Procs \ {p} : ~Owns(q, b) BY <1>1, <1>2 DEF Accounted
<1>4. pc'[p] = l /\ bp'[p] = b /\ op'[p] = o /\ blk'[p] = blk[p] BY <1>1 DEF TypeOK
<1>5. \A q \in Procs \ {p} : pc'[q] = pc[q] /\ bp'[q] = bp[q] /\ op'[q] = op[q] BY <1>1 DEF TypeOK
<1>6. \A q \in Procs, c \in Bufs : Owns(q, c)' <=> Owns(q, c)
  <2>1. \A c \in Bufs : Owns(p, c)' <=> c = b BY <1>4 DEF Owns
  <2>2. \A c \in Bufs : Owns(p, c) <=> c = b
    <3>1. CASE pc[p] = "held" /\ bp[p] = b BY <3>1 DEF Owns
    <3>2. CASE pc[p] = "got" /\ tgt[p] = b /\ bp[p] = Nil BY <3>2, BufsAssumption DEF Owns
    <3> QED BY <3>1, <3>2
  <2>3. \A q \in Procs \ {p}, c \in Bufs : Owns(q, c)' <=> Owns(q, c) BY <1>5 DEF Owns
  <2> QED BY <2>1, <2>2, <2>3
<1>7. SleepersStay BY <1>5 DEF SleepersStay
<1>8. BusyIffNotAvailable' /\ NoAlias' /\ DriverBusy' /\ Accounted' /\ NoLostWakeup'
  BY <1>2, <1>6, <1>7, QueuedKeeps, RefusedKeeps
<1>9. /\ flags' \in [Bufs -> SUBSET Flag] /\ assoc' = assoc
      /\ \A c \in Bufs \ {b} : flags'[c] = flags[c]
      /\ {"ASYNC", "DELWRI"} \cap flags'[b] = {} /\ "BUSY" \in flags'[b]
      /\ wchan' \in [Procs -> Bufs \cup {FreeList, Nil}]
      /\ \A q \in Procs : wchan'[q] \in {wchan[q], Nil}
  <2>1. CASE QueuedTo(b, G) BY <1>1, <2>1 DEF QueuedTo, FlagsBecome, TypeOK
  <2>2. CASE RefusedTo(b, G) BY <1>1, <2>2 DEF RefusedTo, FlagsBecome, TypeOK
  <2> QED BY <2>1, <2>2
<1>10. /\ actq' \in Seq(Bufs) /\ IsInjective(actq') /\ ToSet(actq') \subseteq ToSet(actq) \cup {b}
       /\ ToSet(actq) \subseteq ToSet(actq')
       /\ b \in ToSet(actq') => {"DONE", "ERROR"} \cap flags'[b] = {}
       /\ b \notin ToSet(actq') => "DONE" \in flags'[b]
  <2>1. CASE QueuedTo(b, G)
    <3>1. flags'[b] \ {"AGE"} = G \ {"AGE"} /\ actq' = Append(actq, b) BY <2>1 DEF QueuedTo, FlagsBecome
    <3>2. actq' \in Seq(Bufs) /\ IsInjective(actq') /\ ToSet(actq') = ToSet(actq) \cup {b}
      BY <1>1, <3>1, AppendFacts DEF TypeOK, QueueOK
    <3>3. {"DONE", "ERROR"} \cap flags'[b] = {} BY <3>1
    <3> QED BY <3>2, <3>3
  <2>2. CASE RefusedTo(b, G) BY <1>1, <2>2 DEF RefusedTo, FlagsBecome, TypeOK, QueueOK
  <2> QED BY <2>1, <2>2
<1>11. TypeOK'
  <2>1. /\ free' \in Seq(Bufs) /\ data' \in [Bufs -> Vals] /\ disk' \in [Blocks -> Vals]
        /\ fwanted' \in BOOLEAN /\ active' \in BOOLEAN
    BY <1>1 DEF QueuedTo, RefusedTo, TypeOK
  <2>2. pc' \in [Procs -> PC] /\ op' \in [Procs -> Op] /\ bp' \in [Procs -> Bufs \cup {Nil}]
    BY <1>1 DEF TypeOK, PC, Op
  <2> QED BY <1>1, <1>9, <1>10, <2>1, <2>2 DEF TypeOK
<1>12. CpuOK' BY <1>1, <1>4, <1>5, <1>9, ProcsAssumption DEF CpuOK
<1>13. LocalsOK'
  <2>1. \A q \in Procs \ {p} : /\ pc[q] = "got" => tgt[q] # b
                               /\ pc[q] = "held" => bp[q] # b
    BY <1>3 DEF Owns
  <2> QED BY <1>1, <1>4, <1>5, <1>10, <2>1, BufsAssumption DEF LocalsOK
<1>14. QueueOK'
  <2>1. \A c \in ToSet(actq) : c \in Bufs BY <1>1, MembersType DEF TypeOK
  <2>2. \A q \in Procs \ {p} : bp[q] # Nil => bp[q] \in Bufs \ {b} BY <1>1, <1>3 DEF TypeOK, Owns
  <2> QED BY <1>1, <1>4, <1>5, <1>9, <1>10, <2>1, <2>2 DEF QueueOK
<1>15. AssocOK'
  <2>1. ASSUME NEW q \in Procs, pc'[q] \in {"take", "got"} PROVE FALSE
    BY <1>1, <1>4, <1>5, <2>1, ProcsAssumption DEF CpuOK
  <2> QED BY <1>1, <1>4, <1>5, <1>9, <2>1 DEF AssocOK
<1> QED BY <1>8, <1>11, <1>12, <1>13, <1>14, <1>15 DEF IInv

(* bread and breada read a block that is not in core.                      *)
LEMMA GotReadKeeps ==
  ASSUME IInv, NEW p \in Procs, NEW l \in {"iowait", "ra"}, NEW o \in {"bread", "breada"},
         l = "ra" => o = "breada", Runs(p, "got"), op[p] = o, "DONE" \notin flags[tgt[p]],
         SetCache(Sdxstrategy(SetF(Cache, tgt[p], {"READ"}, {}), tgt[p])), Goto(p, l),
         bp' = [bp EXCEPT ![p] = tgt[p]], tgt' = [tgt EXCEPT ![p] = Nil],
         UNCHANGED <<cur, op, blk, ra, reg>>
  PROVE  IInv'
<1> DEFINE b == tgt[p]
           s == SetF(Cache, b, {"READ"}, {})
           G == flags[b] \cup {"READ"}
<1>1. /\ TypeOK /\ CpuOK /\ LocalsOK /\ AssocOK /\ Accounted /\ BusyIffNotAvailable
      /\ Cache \in CacheType
      BY TypeSplit DEF IInv
<1>2. /\ pc[p] = "got" /\ wchan[p] = Nil /\ cur = p /\ bp[p] = Nil /\ b \in Bufs
      /\ b \notin ToSet(actq) /\ Owns(p, b)
  BY <1>1 DEF Runs, CpuOK, LocalsOK, TypeOK, Owns
<1>3. /\ "BUSY" \in flags[b] /\ "ASYNC" \notin flags[b] /\ "ERROR" \notin flags[b]
      /\ "DELWRI" \notin flags[b] /\ assoc[b] = blk[p] /\ blk[p] \in Blocks
      /\ b \notin ToSet(free)
  BY <1>1, <1>2, BufsAssumption DEF Accounted, AssocOK, LocalsOK, Arg, BusyIffNotAvailable
<1>4. /\ s \in CacheType /\ s.flags = [flags EXCEPT ![b] = (@ \cup {"READ"}) \ {}]
      /\ s.assoc = assoc /\ s.free = free /\ s.fwanted = fwanted
      /\ s.actq = actq /\ s.active = active /\ s.wchan = wchan
  <2>1. /\ Cache.flags = flags /\ Cache.assoc = assoc /\ Cache.free = free /\ Cache.fwanted = fwanted
        /\ Cache.actq = actq /\ Cache.active = active /\ Cache.wchan = wchan
    BY DEF Cache
  <2> QED BY <1>1, <1>2, <2>1, SetFFields DEF Flag
<1> HIDE DEF s
<1>5. G \in SUBSET Flag BY <1>1, <1>2 DEF TypeOK, Flag
<1>6. QueuedTo(b, G) \/ RefusedTo(b, G)
  <2>1. s.flags = [flags EXCEPT ![b] = G] BY <1>1, <1>2, <1>4 DEF TypeOK
  <2>2. ToSet(s.free) = ToSet(free) \ {b} /\ IsInjective(s.free)
    BY <1>1, <1>3, <1>4 DEF BusyIffNotAvailable
  <2>3. Reaches(Sdxstrategy(s, b), b) BY <1>2, <1>4, StrategyType, SetCacheReaches DEF s
  <2>4. "ASYNC" \notin G BY <1>3
  <2> QED BY <1>1, <1>2, <1>4, <1>5, <2>1, <2>2, <2>3, <2>4, StrategyCases
<1>7. /\ pc' = [pc EXCEPT ![p] = l] /\ cur' = p /\ op' = [op EXCEPT ![p] = o]
      /\ tgt' \in [Procs -> Bufs \cup {Nil}] /\ \A q \in Procs \ {p} : tgt'[q] = tgt[q]
  BY <1>1, <1>2 DEF Goto, TypeOK
<1>8. "BUSY" \in G /\ {"ASYNC", "DONE", "ERROR", "DELWRI"} \cap G = {} BY <1>3
<1> QED BY <1>2, <1>3, <1>5, <1>6, <1>7, <1>8, SyncKeeps

(* breada found the block valid: it goes on to the read-ahead.             *)
LEMMA GotBreadaKeeps ==
  ASSUME IInv, NEW p \in Procs, GotBreada(p)
  PROVE  IInv'
<1>1. CASE "DONE" \in flags[tgt[p]]
  <2>1. TypeOK /\ CpuOK /\ LocalsOK /\ QueueOK /\ AssocOK /\ Accounted /\ NoLostWakeup BY DEF IInv
  <2>2. /\ pc[p] = "got" /\ wchan[p] = Nil /\ cur = p /\ op[p] = "breada" /\ bp[p] = Nil
        /\ tgt[p] \in Bufs /\ UNCHANGED cvars
        /\ pc' = [pc EXCEPT ![p] = "ra"] /\ bp' = [bp EXCEPT ![p] = tgt[p]]
        /\ tgt' = [tgt EXCEPT ![p] = Nil] /\ UNCHANGED <<cur, op, blk, ra, reg>>
    BY <1>1, <2>1 DEF GotBreada, Runs, Goto, SetCache, Cache, cvars, CpuOK, LocalsOK, TypeOK
  <2>3. TypeOK' BY <2>1, <2>2 DEF TypeOK, cvars, PC
  <2>4. CpuOK' BY <2>1, <2>2 DEF CpuOK, TypeOK, cvars
  <2>5. LocalsOK' BY <2>1, <2>2, BufsAssumption DEF LocalsOK, TypeOK, cvars
  <2>6. AssocOK' BY <2>1, <2>2 DEF AssocOK, TypeOK, cvars, Incore, Arg
  <2>7. Accounted'
    <3>1. \A q \in Procs, c \in Bufs : Owns(q, c)' <=> Owns(q, c)
      BY <2>1, <2>2, BufsAssumption DEF Owns, TypeOK
    <3> QED BY <2>1, <2>2, <3>1 DEF Accounted, cvars
  <2>8. NoLostWakeup' BY <2>1, <2>2, BufsAssumption DEF NoLostWakeup, TypeOK, cvars
  <2>9. QueueOK' BY <1>1, <2>1, <2>2, BufsAssumption DEF QueueOK, TypeOK, cvars
  <2> QED BY <2>2, <2>3, <2>4, <2>5, <2>6, <2>7, <2>8, <2>9, CacheUnchanged DEF IInv
<1>2. CASE "DONE" \notin flags[tgt[p]]
  BY <1>2, GotReadKeeps DEF GotBreada
<1> QED BY <1>1, <1>2

(* bread's start of the transfer it will wait for preserves the invariant. *)
LEMMA GotBreadKeeps ==
  ASSUME IInv, NEW p \in Procs, GotBread(p)
  PROVE  IInv'
BY GotReadKeeps DEF GotBread
----------------------------------------------------------------------------
(* bwrite, synchronous, asynchronous and of a delayed write.               *)

(* bwrite first clears flags.                                              *)
LEMMA BwriteClears ==
  ASSUME NEW s \in CacheType, NEW b \in Bufs, NEW off
  PROVE  /\ SetF(s, b, {}, off) \in CacheType
         /\ SetF(s, b, {}, off).flags = [s.flags EXCEPT ![b] = @ \ off]
         /\ SetF(s, b, {}, off).assoc = s.assoc
         /\ SetF(s, b, {}, off).free = s.free
         /\ SetF(s, b, {}, off).fwanted = s.fwanted
         /\ SetF(s, b, {}, off).actq = s.actq
         /\ SetF(s, b, {}, off).active = s.active
         /\ SetF(s, b, {}, off).wchan = s.wchan
BY DEF CacheType, SetF

(* bwrite calls the strategy routine with a state in which only the flags  *)
(* of b have changed.                                                      *)
LEMMA BwriteStartClears ==
  ASSUME NEW s \in CacheType, NEW b \in Bufs
  PROVE  \E r \in CacheType :
           /\ BwriteStart(s, b) = Sdxstrategy(r, b)
           /\ r.flags = [s.flags EXCEPT ![b] = @ \ {"READ", "DONE", "ERROR", "DELWRI", "AGE"}]
           /\ r.assoc = s.assoc /\ r.free = s.free /\ r.fwanted = s.fwanted
           /\ r.actq = s.actq /\ r.active = s.active /\ r.wchan = s.wchan
BY BwriteClears DEF BwriteStart

(* What bwrite makes of a buffer whose flags are F.                        *)
LEMMA BwriteCases ==
  ASSUME TypeOK, NEW s \in CacheType, NEW b \in Bufs, NEW F \in SUBSET Flag,
         s.flags = [flags EXCEPT ![b] = F], s.assoc = assoc, s.fwanted = fwanted,
         s.wchan = wchan, s.actq = actq, s.active = active,
         ToSet(s.free) = ToSet(free) \ {b}, IsInjective(s.free),
         free = <<>> => s.free = <<>>,
         Reaches(BwriteStart(s, b), b)
  PROVE  \E G \in SUBSET Flag :
         /\ G = F \ {"READ", "DONE", "ERROR", "DELWRI", "AGE"}
         /\ \/ assoc[b] \notin BadBlocks /\ QueuedTo(b, G)
            \/ "ASYNC" \in G /\ FreedTo(b, G \cup {"ERROR", "DONE"}) /\ UNCHANGED <<actq, active>>
            \/ "ASYNC" \notin G /\ RefusedTo(b, G)
<1> DEFINE G == F \ {"READ", "DONE", "ERROR", "DELWRI", "AGE"}
<1>1. PICK r \in CacheType :
           /\ BwriteStart(s, b) = Sdxstrategy(r, b)
           /\ r.flags = [s.flags EXCEPT ![b] = @ \ {"READ", "DONE", "ERROR", "DELWRI", "AGE"}]
           /\ r.assoc = s.assoc /\ r.free = s.free /\ r.fwanted = s.fwanted
           /\ r.actq = s.actq /\ r.active = s.active /\ r.wchan = s.wchan
  BY BwriteStartClears
<1>2. Reaches(Sdxstrategy(r, b), b) BY <1>1
<1>3. r.flags = [flags EXCEPT ![b] = G] BY <1>1 DEF TypeOK
<1>4. G \in SUBSET Flag OBVIOUS
<1>5. /\ r.assoc = assoc /\ r.fwanted = fwanted /\ r.wchan = wchan
      /\ r.actq = actq /\ r.active = active /\ ToSet(r.free) = ToSet(free) \ {b}
      /\ IsInjective(r.free) /\ (free = <<>> => r.free = <<>>)
  BY <1>1
<1> HIDE DEF G
<1>6. \/ assoc[b] \notin BadBlocks /\ QueuedTo(b, G)
      \/ "ASYNC" \in G /\ FreedTo(b, G \cup {"ERROR", "DONE"}) /\ UNCHANGED <<actq, active>>
      \/ "ASYNC" \notin G /\ RefusedTo(b, G)
  BY <1>2, <1>3, <1>4, <1>5, StrategyCases
<1> QED BY <1>4, <1>6 DEF G

(* bwrite up to the strategy call keeps the type of the cache state.       *)
LEMMA BwriteType ==
  ASSUME NEW s \in CacheType, NEW b \in Bufs
  PROVE  BwriteStart(s, b) \in CacheType
<1>1. SetF(s, b, {}, {"READ", "DONE", "ERROR", "DELWRI", "AGE"}) \in CacheType BY BwriteClears
<1> QED BY <1>1, StrategyType DEF BwriteStart

(* What a holder that may write knows of its buffer.                       *)
LEMMA HeldBuffer ==
  ASSUME IInv, NEW p \in Procs, Runs(p, "held"), CanWrite(p), NEW v \in Vals
  PROVE  /\ bp[p] \in Bufs /\ bp[p] # Nil /\ Owns(p, bp[p])
         /\ bp[p] \notin ToSet(actq) /\ bp[p] \notin ToSet(free)
         /\ "BUSY" \in flags[bp[p]] /\ "ASYNC" \notin flags[bp[p]]
         /\ assoc[bp[p]] = blk[p] /\ assoc[bp[p]] \in Blocks
         /\ Modified(p, v) \in CacheType
         /\ Modified(p, v).flags = flags /\ Modified(p, v).assoc = assoc
         /\ Modified(p, v).free = free /\ Modified(p, v).fwanted = fwanted
         /\ Modified(p, v).actq = actq /\ Modified(p, v).active = active
         /\ Modified(p, v).wchan = wchan
<1>1. TypeOK /\ LocalsOK /\ AssocOK /\ Accounted /\ BusyIffNotAvailable /\ Cache \in CacheType
  BY TypeSplit DEF IInv
<1>2. /\ bp[p] \in Bufs /\ bp[p] # Nil /\ Owns(p, bp[p]) /\ bp[p] \notin ToSet(actq)
  BY <1>1 DEF Runs, LocalsOK, TypeOK, Owns
<1>3. /\ "BUSY" \in flags[bp[p]] /\ "ASYNC" \notin flags[bp[p]] /\ bp[p] \notin ToSet(free)
      /\ assoc[bp[p]] = blk[p] /\ assoc[bp[p]] \in Blocks
  BY <1>1, <1>2 DEF Accounted, BusyIffNotAvailable, AssocOK, CanWrite, TypeOK
<1>4. /\ Modified(p, v) \in CacheType
      /\ Modified(p, v).flags = flags /\ Modified(p, v).assoc = assoc
      /\ Modified(p, v).free = free /\ Modified(p, v).fwanted = fwanted
      /\ Modified(p, v).actq = actq /\ Modified(p, v).active = active
      /\ Modified(p, v).wchan = wchan
  BY <1>1, <1>2 DEF Modified, Cache, CacheType
<1> QED BY <1>2, <1>3, <1>4

(* A synchronous bwrite preserves the invariant.                           *)
LEMMA BwriteKeeps ==
  ASSUME IInv, NEW p \in Procs, NEW v \in Vals, Bwrite(p, v)
  PROVE  IInv'
<1> DEFINE b == bp[p]
           m == Modified(p, v)
<1>1. TypeOK /\ BusyIffNotAvailable BY DEF IInv
<1>2. /\ Runs(p, "held") /\ CanWrite(p) /\ SetCache(BwriteStart(m, b))
      /\ pc' = [pc EXCEPT ![p] = "iowait"] /\ cur' = p /\ op' = [op EXCEPT ![p] = "bwrite"]
      /\ UNCHANGED <<blk, ra, bp, tgt, reg>>
  BY DEF Bwrite, Goto
<1>3. /\ b \in Bufs /\ b # Nil /\ b \notin ToSet(actq) /\ b \notin ToSet(free)
      /\ "BUSY" \in flags[b] /\ "ASYNC" \notin flags[b]
      /\ assoc[b] = blk[p] /\ assoc[b] \in Blocks
      /\ m \in CacheType /\ m.flags = flags /\ m.assoc = assoc /\ m.free = free
      /\ m.fwanted = fwanted /\ m.actq = actq /\ m.active = active /\ m.wchan = wchan
  BY <1>2, HeldBuffer
<1> HIDE DEF m
<1>4. PICK G \in SUBSET Flag :
         /\ G = flags[b] \ {"READ", "DONE", "ERROR", "DELWRI", "AGE"}
         /\ \/ assoc[b] \notin BadBlocks /\ QueuedTo(b, G)
            \/ "ASYNC" \in G /\ FreedTo(b, G \cup {"ERROR", "DONE"}) /\ UNCHANGED <<actq, active>>
            \/ "ASYNC" \notin G /\ RefusedTo(b, G)
  <2>1. Reaches(BwriteStart(m, b), b) BY <1>2, <1>3, BwriteType, SetCacheReaches
  <2>2. m.flags = [flags EXCEPT ![b] = flags[b]] BY <1>1, <1>3 DEF TypeOK
  <2>3. ToSet(m.free) = ToSet(free) \ {b} /\ IsInjective(m.free) BY <1>1, <1>3 DEF BusyIffNotAvailable
  <2>4. flags[b] \in SUBSET Flag BY <1>1, <1>3 DEF TypeOK
  <2> QED BY <1>1, <1>3, <2>1, <2>2, <2>3, <2>4, BwriteCases
<1>5. QueuedTo(b, G) \/ RefusedTo(b, G) BY <1>3, <1>4
<1>6. /\ "BUSY" \in G /\ {"ASYNC", "DONE", "ERROR", "DELWRI"} \cap G = {}
      /\ "WANTED" \in flags[b] => "WANTED" \in G
  BY <1>3, <1>4
<1>7. /\ wchan[p] = Nil /\ cur \in {p, Nobody} /\ pc[p] = "held"
      /\ bp' = [bp EXCEPT ![p] = b] /\ tgt' \in [Procs -> Bufs \cup {Nil}]
      /\ \A q \in Procs \ {p} : tgt'[q] = tgt[q]
  BY <1>1, <1>2 DEF Runs, TypeOK
<1> QED BY <1>2, <1>3, <1>5, <1>6, <1>7, SyncKeeps

(* bawrite preserves the invariant, with or without a delayed write        *)
(* pending in the buffer.                                                  *)
LEMMA BawriteKeeps ==
  ASSUME IInv, NEW p \in Procs, NEW v \in Vals, Bawrite(p, v)
  PROVE  IInv'
<1> DEFINE b == bp[p]
           m == Modified(p, v)
           s == SetF(m, b, {"ASYNC"}, {})
           F == flags[b] \cup {"ASYNC"}
<1>1. TypeOK /\ BusyIffNotAvailable /\ Accounted BY DEF IInv
<1>2. Runs(p, "held") /\ CanWrite(p) /\ SetCache(BwriteStart(s, b)) BY DEF Bawrite
<1>3. /\ b \in Bufs /\ b # Nil /\ Owns(p, b) /\ b \notin ToSet(actq) /\ b \notin ToSet(free)
      /\ "BUSY" \in flags[b] /\ assoc[b] = blk[p] /\ assoc[b] \in Blocks
      /\ m \in CacheType /\ m.flags = flags /\ m.assoc = assoc /\ m.free = free
      /\ m.fwanted = fwanted /\ m.actq = actq /\ m.active = active /\ m.wchan = wchan
  BY <1>2, HeldBuffer
<1> HIDE DEF m
<1>4. /\ s \in CacheType /\ s.flags = [m.flags EXCEPT ![b] = (@ \cup {"ASYNC"}) \ {}]
      /\ s.assoc = m.assoc /\ s.free = m.free /\ s.fwanted = m.fwanted
      /\ s.actq = m.actq /\ s.active = m.active /\ s.wchan = m.wchan
  BY <1>3, SetFFields DEF Flag
<1> HIDE DEF s
<1>5. PICK G \in SUBSET Flag :
         /\ G = F \ {"READ", "DONE", "ERROR", "DELWRI", "AGE"}
         /\ \/ assoc[b] \notin BadBlocks /\ QueuedTo(b, G)
            \/ "ASYNC" \in G /\ FreedTo(b, G \cup {"ERROR", "DONE"}) /\ UNCHANGED <<actq, active>>
            \/ "ASYNC" \notin G /\ RefusedTo(b, G)
  <2>1. Reaches(BwriteStart(s, b), b) BY <1>2, <1>3, <1>4, BwriteType, SetCacheReaches
  <2>2. s.flags = [flags EXCEPT ![b] = F] BY <1>1, <1>3, <1>4 DEF TypeOK
  <2>3. ToSet(s.free) = ToSet(free) \ {b} /\ IsInjective(s.free) /\ s.free = free
    BY <1>1, <1>3, <1>4 DEF BusyIffNotAvailable
  <2>4. F \in SUBSET Flag BY <1>1, <1>3 DEF TypeOK, Flag
  <2>5. /\ s.assoc = assoc /\ s.fwanted = fwanted /\ s.actq = actq
        /\ s.active = active /\ s.wchan = wchan /\ s \in CacheType /\ b \in Bufs
    BY <1>3, <1>4
  <2> HIDE DEF F
  <2> QED BY <1>1, <2>1, <2>2, <2>3, <2>4, <2>5, BwriteCases
<1>6. PICK H \in SUBSET Flag :
        /\ "WANTED" \in flags[b] => "WANTED" \in H
        /\ \/ /\ QueuedTo(b, H) /\ {"BUSY", "ASYNC"} \subseteq H
              /\ {"DONE", "ERROR", "DELWRI"} \cap H = {} /\ assoc[b] \in Blocks
           \/ /\ FreedTo(b, H) /\ UNCHANGED <<actq, active>>
              /\ "DELWRI" \in H => assoc[b] \in Blocks /\ "DONE" \in H /\ "ERROR" \notin H
  <2>1. CASE QueuedTo(b, G) BY <1>3, <1>5, <2>1
  <2>2. CASE FreedTo(b, G \cup {"ERROR", "DONE"}) /\ UNCHANGED <<actq, active>>
    <3>1. G \cup {"ERROR", "DONE"} \in SUBSET Flag BY DEF Flag
    <3> QED BY <1>5, <2>2, <3>1
  <2> QED BY <1>5, <2>1, <2>2
<1>7. wchan[p] = Nil /\ cur \in {p, Nobody} /\ pc[p] = "held" BY <1>2 DEF Runs
<1>8. CASE Return(p) BY <1>3, <1>6, <1>7, <1>8, FreedReturnKeeps
<1>9. CASE /\ Goto(p, "age") /\ cur' = p
           /\ op' = [op EXCEPT ![p] = "bawrite"]
           /\ tgt' = [tgt EXCEPT ![p] = bp[p]] /\ bp' = [bp EXCEPT ![p] = Nil]
           /\ UNCHANGED <<blk, ra, reg>>
  <2>1. pc' = [pc EXCEPT ![p] = "age"] BY <1>9 DEF Goto
  <2>2. \A q \in Procs, c \in Bufs : Owns(q, c)' <=> Owns(q, c) /\ c # b
    BY <1>1, <1>3, <1>7, <1>9, <2>1, BufsAssumption DEF Owns, TypeOK, Accounted
  <2>3. \A q \in Procs \ {p} : /\ pc'[q] = pc[q] /\ op'[q] = op[q] /\ blk'[q] = blk[q]
                               /\ ra'[q] = ra[q] /\ bp'[q] = bp[q] /\ tgt'[q] = tgt[q]
    BY <1>1, <1>9, <2>1 DEF TypeOK
  <2>4. pc'[p] = "age" /\ op'[p] = "bawrite" /\ bp'[p] = Nil /\ tgt'[p] = b /\ blk'[p] = blk[p]
    BY <1>1, <1>9, <2>1 DEF TypeOK
  <2>5. ProcType' BY <1>1, <1>3, <1>9, <2>1 DEF TypeOK, ProcType, PC, Op
  <2> QED BY <1>3, <1>6, <1>7, <1>9, <2>2, <2>3, <2>4, <2>5, PartKeeps
<1> QED BY <1>8, <1>9 DEF Bawrite
----------------------------------------------------------------------------
(* The read-ahead of breada.                                               *)
LEMMA GotAheadKeeps ==
  ASSUME IInv, NEW p \in Procs, GotAhead(p)
  PROVE  IInv'
<1> DEFINE b == tgt[p]
           F == flags[b] \cup {"READ", "ASYNC"}
           s == SetF(Cache, b, {"READ", "ASYNC"}, {})
<1>1. /\ TypeOK /\ CpuOK /\ LocalsOK /\ AssocOK /\ Accounted /\ BusyIffNotAvailable
      /\ Cache \in CacheType
      BY TypeSplit DEF IInv
<1>2. /\ pc[p] = "got" /\ wchan[p] = Nil /\ cur = p /\ op[p] = "ahead" /\ b \in Bufs
      /\ b \notin ToSet(actq) /\ bp[p] # b /\ Owns(p, b) /\ cur' = p
      /\ op' = [op EXCEPT ![p] = "bread"]
      /\ pc' = [pc EXCEPT ![p] = IF bp[p] = Nil THEN "getblk" ELSE "iowait"]
      /\ tgt' = [tgt EXCEPT ![p] = Nil] /\ ra' = [ra EXCEPT ![p] = Nil]
      /\ UNCHANGED <<blk, bp, reg>>
  BY <1>1 DEF GotAhead, BreadaEnd, Runs, Goto, CpuOK, LocalsOK, TypeOK, Owns
<1>3. /\ "BUSY" \in flags[b] /\ "ERROR" \notin flags[b] /\ assoc[b] \in Blocks
      /\ "DELWRI" \in flags[b] => "DONE" \in flags[b]
      /\ b \notin ToSet(free) /\ blk[p] \in Blocks
  BY <1>1, <1>2, BufsAssumption DEF Accounted, AssocOK, LocalsOK, Arg, BusyIffNotAvailable
<1>4. /\ Cache.flags = flags /\ Cache.assoc = assoc /\ Cache.free = free /\ Cache.fwanted = fwanted
      /\ Cache.actq = actq /\ Cache.active = active /\ Cache.wchan = wchan
  BY DEF Cache
<1>5. PICK H \in SUBSET Flag :
        /\ "WANTED" \in flags[b] => "WANTED" \in H
        /\ \/ /\ QueuedTo(b, H) /\ {"BUSY", "ASYNC"} \subseteq H
              /\ {"DONE", "ERROR", "DELWRI"} \cap H = {} /\ assoc[b] \in Blocks
           \/ /\ FreedTo(b, H) /\ UNCHANGED <<actq, active>>
              /\ "DELWRI" \in H => assoc[b] \in Blocks /\ "DONE" \in H /\ "ERROR" \notin H
  <2>1. CASE "DONE" \in flags[b]
    <3>1. SetCache(Brelse(Cache, b)) BY <2>1 DEF GotAhead
    <3>2. Released(Cache, Brelse(Cache, b), b) BY <1>1, <1>2, BrelseReleases
    <3>3. Reaches(Brelse(Cache, b), b) BY <1>2, <3>1, <3>2, SetCacheReaches DEF Released
    <3>4. Cache.flags = [flags EXCEPT ![b] = flags[b]] /\ flags[b] \in SUBSET Flag
      BY <1>1, <1>2, <1>4 DEF TypeOK
    <3>5. ToSet(Cache.free) = ToSet(free) \ {b} /\ IsInjective(Cache.free)
      BY <1>1, <1>3, <1>4 DEF BusyIffNotAvailable
    <3>6. FreedTo(b, flags[b]) /\ UNCHANGED <<actq, active>>
      BY <1>1, <1>2, <1>4, <3>2, <3>3, <3>4, <3>5, BrelseFrees
    <3> QED BY <1>3, <2>1, <3>4, <3>6
  <2>2. CASE "DONE" \notin flags[b]
    <3>1. SetCache(Sdxstrategy(s, b)) BY <2>2 DEF GotAhead
    <3>2. /\ s \in CacheType /\ s.flags = [flags EXCEPT ![b] = (@ \cup {"READ", "ASYNC"}) \ {}]
          /\ s.assoc = assoc /\ s.free = free /\ s.fwanted = fwanted
          /\ s.actq = actq /\ s.active = active /\ s.wchan = wchan
      BY <1>1, <1>2, <1>4, SetFFields DEF Flag
    <3> HIDE DEF s
    <3>3. Reaches(Sdxstrategy(s, b), b) BY <1>2, <3>1, <3>2, StrategyType, SetCacheReaches
    <3>4. s.flags = [flags EXCEPT ![b] = F] /\ F \in SUBSET Flag BY <1>1, <1>2, <3>2 DEF TypeOK, Flag
    <3>5. ToSet(s.free) = ToSet(free) \ {b} /\ IsInjective(s.free)
      BY <1>1, <1>3, <3>2 DEF BusyIffNotAvailable
    <3>6. "ASYNC" \in F /\ "BUSY" \in F /\ {"DONE", "ERROR", "DELWRI"} \cap F = {}
          /\ ("WANTED" \in flags[b] => "WANTED" \in F)
      BY <1>3, <2>2
    <3>7. F \cup {"ERROR", "DONE"} \in SUBSET Flag BY <3>4 DEF Flag
    <3>8. /\ s \in CacheType /\ s.assoc = assoc /\ s.free = free /\ s.fwanted = fwanted
          /\ s.actq = actq /\ s.active = active /\ s.wchan = wchan
      BY <3>2
    <3> HIDE DEF F
    <3>9. QueuedTo(b, F) \/ (FreedTo(b, F \cup {"ERROR", "DONE"}) /\ UNCHANGED <<actq, active>>)
      BY <1>1, <1>2, <3>3, <3>4, <3>5, <3>6, <3>8, StrategyCases
    <3> QED BY <1>3, <3>4, <3>6, <3>7, <3>9
  <2> QED BY <2>1, <2>2
<1>6. \A q \in Procs, c \in Bufs : Owns(q, c)' <=> Owns(q, c) /\ c # b
  BY <1>1, <1>2, BufsAssumption DEF Owns, TypeOK, Accounted
<1>7. \A q \in Procs \ {p} : /\ pc'[q] = pc[q] /\ op'[q] = op[q] /\ blk'[q] = blk[q]
                             /\ ra'[q] = ra[q] /\ bp'[q] = bp[q] /\ tgt'[q] = tgt[q]
  BY <1>1, <1>2 DEF TypeOK
<1>8. /\ pc'[p] = (IF bp[p] = Nil THEN "getblk" ELSE "iowait")
      /\ op'[p] = "bread" /\ bp'[p] = bp[p] /\ blk'[p] = blk[p]
  BY <1>1, <1>2 DEF TypeOK
<1>9. ProcType' BY <1>1, <1>2 DEF TypeOK, ProcType, PC, Op
<1> QED BY <1>2, <1>3, <1>5, <1>6, <1>7, <1>8, <1>9, PartKeeps
----------------------------------------------------------------------------
(* A delayed write taken off the available list is written asynchronously. *)

LEMMA DelayedCases ==
  ASSUME IInv, NEW s \in CacheType, NEW b \in ToSet(free), "DELWRI" \in flags[b],
         s.flags = [flags EXCEPT ![b] = @ \cup {"BUSY", "ASYNC"}], s.assoc = assoc,
         s.fwanted = fwanted, s.wchan = wchan, s.actq = actq, s.active = active,
         ToSet(s.free) = ToSet(free) \ {b}, IsInjective(s.free),
         Reaches(BwriteStart(s, b), b)
  PROVE  /\ b \in Bufs /\ b \notin ToSet(actq) /\ \A q \in Procs : ~Owns(q, b)
         /\ \E H \in SUBSET Flag :
              /\ "WANTED" \in flags[b] => "WANTED" \in H
              /\ \/ /\ QueuedTo(b, H) /\ {"BUSY", "ASYNC"} \subseteq H
                    /\ {"DONE", "ERROR", "DELWRI"} \cap H = {} /\ assoc[b] \in Blocks
                 \/ /\ FreedTo(b, H) /\ UNCHANGED <<actq, active>>
                    /\ "DELWRI" \in H => assoc[b] \in Blocks /\ "DONE" \in H /\ "ERROR" \notin H
<1> DEFINE F == flags[b] \cup {"BUSY", "ASYNC"}
<1>1. TypeOK /\ AssocOK /\ Accounted /\ BusyIffNotAvailable BY DEF IInv
<1>2. b \in Bufs /\ free # <<>> BY <1>1, MembersType, MemberNonempty DEF TypeOK
<1>3. /\ "BUSY" \notin flags[b] /\ b \notin ToSet(actq) /\ assoc[b] \in Blocks
      /\ \A q \in Procs : ~Owns(q, b)
  BY <1>1, <1>2 DEF BusyIffNotAvailable, Accounted, AssocOK
<1>4. s.flags = [flags EXCEPT ![b] = F] /\ F \in SUBSET Flag BY <1>1, <1>2 DEF TypeOK, Flag
<1> HIDE DEF F
<1>5. PICK G \in SUBSET Flag :
         /\ G = F \ {"READ", "DONE", "ERROR", "DELWRI", "AGE"}
         /\ \/ assoc[b] \notin BadBlocks /\ QueuedTo(b, G)
            \/ "ASYNC" \in G /\ FreedTo(b, G \cup {"ERROR", "DONE"}) /\ UNCHANGED <<actq, active>>
            \/ "ASYNC" \notin G /\ RefusedTo(b, G)
  BY <1>1, <1>2, <1>4, BwriteCases
<1>6. /\ {"BUSY", "ASYNC"} \subseteq G /\ {"DONE", "ERROR", "DELWRI"} \cap G = {}
      /\ "WANTED" \in flags[b] => "WANTED" \in G
  BY <1>5 DEF F
<1>7. G \cup {"ERROR", "DONE"} \in SUBSET Flag BY DEF Flag
<1> QED BY <1>2, <1>3, <1>5, <1>6, <1>7

(* getblk's write of a delayed victim preserves the invariant.             *)
LEMMA DelwriKeeps ==
  ASSUME IInv, NEW p \in Procs, GetblkDelwri(p)
  PROVE  IInv'
<1> DEFINE b == Head(free)
           n == Notavail(Cache, b)
           s == SetF(n, b, {"ASYNC"}, {})
<1>1. /\ TypeOK /\ CpuOK /\ LocalsOK /\ Accounted /\ BusyIffNotAvailable /\ Cache \in CacheType
  BY TypeSplit DEF IInv
<1>2. /\ pc[p] = "take" /\ cur = p /\ wchan[p] = Nil /\ free # <<>> /\ "DELWRI" \in flags[b]
      /\ SetCache(BwriteStart(s, b)) /\ tgt' = [tgt EXCEPT ![p] = b]
      /\ pc' = [pc EXCEPT ![p] = "age"] /\ UNCHANGED <<cur, op, blk, ra, bp, reg>>
  BY <1>1 DEF GetblkDelwri, Runs, Goto, CpuOK
<1>3. b \in Bufs /\ b \in ToSet(free) BY <1>1, <1>2, TailFacts DEF TypeOK
<1>4. /\ n \in CacheType /\ n.flags = [flags EXCEPT ![b] = @ \cup {"BUSY"}]
      /\ ToSet(n.free) = ToSet(free) \ {b} /\ IsInjective(n.free)
      /\ n.assoc = assoc /\ n.fwanted = fwanted /\ n.actq = actq
      /\ n.active = active /\ n.wchan = wchan
  <2>1. /\ Cache.free = free /\ Cache.flags = flags /\ Cache.assoc = assoc /\ Cache.fwanted = fwanted
        /\ Cache.actq = actq /\ Cache.active = active /\ Cache.wchan = wchan
    BY DEF Cache
  <2> QED BY <2>1, <1>1, <1>3, NotavailFields DEF BusyIffNotAvailable
<1> HIDE DEF n
<1>5. /\ s \in CacheType /\ s.flags = [n.flags EXCEPT ![b] = (@ \cup {"ASYNC"}) \ {}]
      /\ s.assoc = n.assoc /\ s.free = n.free /\ s.fwanted = n.fwanted
      /\ s.actq = n.actq /\ s.active = n.active /\ s.wchan = n.wchan
  <2>1. n \in CacheType BY <1>4
  <2> QED BY <1>3, <2>1, SetFFields DEF Flag
<1> HIDE DEF s
<1>6. s.flags = [flags EXCEPT ![b] = @ \cup {"BUSY", "ASYNC"}] BY <1>1, <1>3, <1>4, <1>5 DEF TypeOK
<1>7. Reaches(BwriteStart(s, b), b) BY <1>2, <1>3, <1>5, BwriteType, SetCacheReaches
<1>8. /\ s \in CacheType /\ s.assoc = assoc /\ s.fwanted = fwanted /\ s.actq = actq
      /\ s.active = active /\ s.wchan = wchan
      /\ ToSet(s.free) = ToSet(free) \ {b} /\ IsInjective(s.free)
  BY <1>4, <1>5
<1>9. /\ b \notin ToSet(actq) /\ \A q \in Procs : ~Owns(q, b)
      /\ \E H \in SUBSET Flag :
              /\ "WANTED" \in flags[b] => "WANTED" \in H
              /\ \/ /\ QueuedTo(b, H) /\ {"BUSY", "ASYNC"} \subseteq H
                    /\ {"DONE", "ERROR", "DELWRI"} \cap H = {} /\ assoc[b] \in Blocks
                 \/ /\ FreedTo(b, H) /\ UNCHANGED <<actq, active>>
                    /\ "DELWRI" \in H => assoc[b] \in Blocks /\ "DONE" \in H /\ "ERROR" \notin H
  BY <1>2, <1>3, <1>6, <1>7, <1>8, DelayedCases
<1>10. \A q \in Procs, c \in Bufs : Owns(q, c)' <=> Owns(q, c) /\ c # b
  BY <1>1, <1>2, <1>9 DEF Owns, TypeOK
<1>11. \A q \in Procs \ {p} : /\ pc'[q] = pc[q] /\ op'[q] = op[q] /\ blk'[q] = blk[q]
                              /\ ra'[q] = ra[q] /\ bp'[q] = bp[q] /\ tgt'[q] = tgt[q]
  BY <1>1, <1>2 DEF TypeOK
<1>12. /\ pc'[p] = "age" /\ op'[p] = op[p] /\ bp'[p] = bp[p] /\ blk'[p] = blk[p] /\ ra'[p] = ra[p]
       /\ tgt'[p] # Nil /\ (op[p] # "ahead" => bp[p] = Nil) /\ (op[p] = "ahead" => ra[p] \in Blocks)
       /\ IF op[p] = "geteblk" THEN blk[p] = NODEV ELSE blk[p] \in Blocks
  BY <1>1, <1>2, <1>3, BufsAssumption DEF TypeOK, LocalsOK
<1>13. ProcType' BY <1>1, <1>2, <1>3 DEF TypeOK, ProcType, PC
<1> QED BY <1>2, <1>3, <1>9, <1>10, <1>11, <1>12, <1>13, PartKeeps

(* Every iteration of bflush preserves the invariant.                      *)
LEMMA BflushWriteKeeps ==
  ASSUME IInv, NEW p \in Procs, BflushWrite(p)
  PROVE  IInv'
<1>1. /\ TypeOK /\ CpuOK /\ LocalsOK /\ Accounted /\ BusyIffNotAvailable /\ Cache \in CacheType
  BY TypeSplit DEF IInv
<1>2. /\ pc[p] = "bflush" /\ cur = p /\ wchan[p] = Nil /\ bp[p] = Nil /\ UNCHANGED pvars
  BY <1>1 DEF BflushWrite, Runs, CpuOK, LocalsOK
<1>3. PICK i \in Delayed :
        SetCache(SetF(BwriteStart(Notavail(SetF(Cache, free[i], {"ASYNC"}, {}), free[i]), free[i]),
                      free[i], {"AGE"}, {}))
  BY DEF BflushWrite
<1> DEFINE b == free[i]
           e == SetF(Cache, b, {"ASYNC"}, {})
           s == Notavail(e, b)
           w == BwriteStart(s, b)
<1>4. b \in Bufs /\ b \in ToSet(free) /\ "DELWRI" \in flags[b] BY <1>1, InList DEF Delayed, TypeOK
<1>5. /\ e \in CacheType /\ e.flags = [flags EXCEPT ![b] = (@ \cup {"ASYNC"}) \ {}]
      /\ e.assoc = assoc /\ e.free = free /\ e.fwanted = fwanted
      /\ e.actq = actq /\ e.active = active /\ e.wchan = wchan
  <2>1. /\ Cache.free = free /\ Cache.flags = flags /\ Cache.assoc = assoc /\ Cache.fwanted = fwanted
        /\ Cache.actq = actq /\ Cache.active = active /\ Cache.wchan = wchan
    BY DEF Cache
  <2> QED BY <2>1, <1>1, <1>4, SetFFields DEF Flag
<1> HIDE DEF e
<1>6. /\ s \in CacheType /\ s.flags = [e.flags EXCEPT ![b] = @ \cup {"BUSY"}]
      /\ ToSet(s.free) = ToSet(e.free) \ {b} /\ IsInjective(s.free)
      /\ s.assoc = e.assoc /\ s.fwanted = e.fwanted /\ s.actq = e.actq
      /\ s.active = e.active /\ s.wchan = e.wchan
  <2>1. e \in CacheType /\ b \in ToSet(e.free) /\ IsInjective(e.free)
    BY <1>1, <1>4, <1>5 DEF BusyIffNotAvailable
  <2> QED BY <2>1, NotavailFields
<1> HIDE DEF s
<1>7. s.flags = [flags EXCEPT ![b] = @ \cup {"BUSY", "ASYNC"}] BY <1>1, <1>4, <1>5, <1>6 DEF TypeOK
<1>8. Reaches(w, b)
  <2>1. w \in CacheType BY <1>4, <1>6, BwriteType
  <2>2. SetCache(SetF(w, b, {"AGE"}, {})) BY <1>3 DEF s, e
  <2> HIDE DEF w
  <2>3. SetF(w, b, {"AGE"}, {}).flags = [w.flags EXCEPT ![b] = @ \cup {"AGE"}]
    BY <1>4, <2>1 DEF SetF, CacheType
  <2>4. /\ SetF(w, b, {"AGE"}, {}).assoc = w.assoc /\ SetF(w, b, {"AGE"}, {}).free = w.free
        /\ SetF(w, b, {"AGE"}, {}).fwanted = w.fwanted /\ SetF(w, b, {"AGE"}, {}).actq = w.actq
        /\ SetF(w, b, {"AGE"}, {}).active = w.active /\ SetF(w, b, {"AGE"}, {}).wchan = w.wchan
        /\ SetF(w, b, {"AGE"}, {}).data = w.data /\ SetF(w, b, {"AGE"}, {}).disk = w.disk
    BY <2>1 DEF SetF, CacheType
  <2> QED BY <2>2, <2>3, <2>4 DEF SetCache, Reaches
<1>9. /\ s \in CacheType /\ s.assoc = assoc /\ s.fwanted = fwanted /\ s.actq = actq
      /\ s.active = active /\ s.wchan = wchan
      /\ ToSet(s.free) = ToSet(free) \ {b} /\ IsInjective(s.free)
  BY <1>5, <1>6
<1>10. /\ b \notin ToSet(actq) /\ \A q \in Procs : ~Owns(q, b)
       /\ \E H \in SUBSET Flag :
              /\ "WANTED" \in flags[b] => "WANTED" \in H
              /\ \/ /\ QueuedTo(b, H) /\ {"BUSY", "ASYNC"} \subseteq H
                    /\ {"DONE", "ERROR", "DELWRI"} \cap H = {} /\ assoc[b] \in Blocks
                 \/ /\ FreedTo(b, H) /\ UNCHANGED <<actq, active>>
                    /\ "DELWRI" \in H => assoc[b] \in Blocks /\ "DONE" \in H /\ "ERROR" \notin H
  BY <1>4, <1>7, <1>8, <1>9, DelayedCases
<1>11. \A q \in Procs, c \in Bufs : Owns(q, c)' <=> Owns(q, c) /\ c # b
  BY <1>2, <1>10 DEF Owns, pvars
<1>12. \A q \in Procs \ {p} : /\ pc'[q] = pc[q] /\ op'[q] = op[q] /\ blk'[q] = blk[q]
                              /\ ra'[q] = ra[q] /\ bp'[q] = bp[q] /\ tgt'[q] = tgt[q]
  BY <1>2 DEF pvars
<1>13. /\ pc'[p] = "bflush" /\ bp'[p] = Nil /\ cur' = p /\ op'[p] = op[p] /\ ra'[p] = ra[p]
       /\ op[p] = "ahead" => ra[p] \in Blocks
  BY <1>1, <1>2 DEF pvars, LocalsOK
<1>14. ProcType' BY <1>1, <1>2 DEF TypeOK, ProcType, pvars
<1> QED BY <1>2, <1>4, <1>10, <1>11, <1>12, <1>13, <1>14, PartKeeps
----------------------------------------------------------------------------
(* The interrupt.                                                          *)

(* iofinish has left u, which differs from the cache state in the data and *)
(* perhaps in B_ERROR of b; the rest of the handler leads to t.            *)
LEMMA IntrDoneCases ==
  ASSUME NEW u \in CacheType, NEW b \in Bufs, u.actq # <<>>, NEW t, t = SdxintrDone(u, b)
  PROVE  \E d \in CacheType :
           /\ d.flags = u.flags /\ d.assoc = u.assoc /\ d.free = u.free /\ d.fwanted = u.fwanted
           /\ d.wchan = u.wchan /\ SameData(u, d)
           /\ t \in CacheType /\ t.actq = Tail(u.actq)
           /\ t.active = (Tail(u.actq) # <<>>)
           /\ \E r \in CacheType :
                /\ t.flags = r.flags /\ t.assoc = r.assoc /\ t.free = r.free
                /\ t.fwanted = r.fwanted /\ t.wchan = r.wchan /\ SameData(r, t)
                /\ "ASYNC" \in u.flags[b] => Released(SetF(d, b, {"DONE"}, {}), r, b)
                /\ "ASYNC" \notin u.flags[b] => Completed(d, r, b)
<1> DEFINE d == [u EXCEPT !.active = FALSE, !.actq = Tail(@)]
           r == Iodone(d, b)
<1>1. Tail(u.actq) \in Seq(Bufs) BY TailFacts DEF CacheType
<1>2. /\ d \in CacheType /\ d.flags = u.flags /\ d.assoc = u.assoc /\ d.free = u.free
      /\ d.fwanted = u.fwanted /\ d.wchan = u.wchan /\ SameData(u, d)
      /\ d.actq = Tail(u.actq) /\ d.active = FALSE
  BY <1>1 DEF CacheType, SameData
<1>3. t = Sdxstart(r) BY DEF SdxintrDone
<1> HIDE DEF d
<1>4. /\ "ASYNC" \in u.flags[b] => Released(SetF(d, b, {"DONE"}, {}), r, b)
      /\ "ASYNC" \notin u.flags[b] => Completed(d, r, b)
  <2>1. d.flags[b] = u.flags[b] BY <1>2
  <2>2. d \in CacheType BY <1>2
  <2> QED BY <2>1, <2>2, IodoneCases
<1> HIDE DEF r
<1>5. r \in CacheType /\ r.actq = d.actq /\ r.active = d.active
  <2>1. CASE "ASYNC" \in u.flags[b]
    <3>1. /\ SetF(d, b, {"DONE"}, {}).actq = d.actq /\ SetF(d, b, {"DONE"}, {}).active = d.active
      BY <1>2 DEF SetF, CacheType
    <3> QED BY <1>4, <2>1, <3>1 DEF Released
  <2>2. CASE "ASYNC" \notin u.flags[b] BY <1>4, <2>2 DEF Completed
  <2> QED BY <2>1, <2>2
<1>6. /\ t \in CacheType /\ t.flags = r.flags /\ t.assoc = r.assoc /\ t.free = r.free
      /\ t.fwanted = r.fwanted /\ t.wchan = r.wchan /\ SameData(r, t) /\ t.actq = r.actq
      /\ t.active = (r.actq # <<>>)
  <2>1. CASE r.actq = <<>> BY <1>2, <1>3, <1>5, <2>1 DEF Sdxstart, SameData
  <2>2. CASE r.actq # <<>>
    <3>1. t = [r EXCEPT !.active = TRUE] BY <1>3, <2>2 DEF Sdxstart
    <3> QED BY <1>5, <2>2, <3>1 DEF CacheType, SameData
  <2> QED BY <2>1, <2>2
<1> QED BY <1>2, <1>4, <1>5, <1>6

(* The two outcomes of the interrupt.                                      *)
LEMMA IntrCases ==
  ASSUME IInv, Faults \subseteq {"finish"}, Sdxintr
  PROVE  LET b == Head(actq) IN
         /\ b \in Bufs /\ b \in ToSet(actq) /\ actq # <<>>
         /\ actq' = Tail(actq) /\ active' = (Tail(actq) # <<>>) /\ UNCHANGED pvars
         /\ \/ "ASYNC" \in flags[b] /\ FreedTo(b, flags[b] \cup {"DONE"})
            \/ /\ "ASYNC" \notin flags[b]
               /\ \E F \in {flags[b] \cup {"DONE"}, flags[b] \cup {"ERROR", "DONE"}} :
                    FlagsBecome(b, F \ {"WANTED"})
               /\ wchan' = [q \in Procs |-> IF wchan[q] = b THEN Nil ELSE wchan[q]]
               /\ UNCHANGED <<assoc, free, fwanted>>
               /\ data' \in [Bufs -> Vals] /\ disk' \in [Blocks -> Vals]
<1> DEFINE b == Head(actq)
<1>1. /\ TypeOK /\ QueueOK /\ Accounted /\ BusyIffNotAvailable /\ DriverBusy /\ Cache \in CacheType
  BY TypeSplit DEF IInv
<1>2. actq # <<>> /\ UNCHANGED pvars BY <1>1 DEF Sdxintr, DriverBusy
<1>3. b \in Bufs /\ b \in ToSet(actq) BY <1>1, <1>2, TailFacts DEF TypeOK
<1>4. "BUSY" \in flags[b] /\ b \notin ToSet(free) /\ assoc[b] \in Blocks
  BY <1>1, <1>3 DEF Accounted, BusyIffNotAvailable, QueueOK
<1>5. PICK u \in CacheType :
        /\ SetCache(SdxintrDone(u, b))
        /\ u.flags = flags \/ ("ASYNC" \notin flags[b] /\ u.flags = [flags EXCEPT ![b] = @ \cup {"ERROR"}])
        /\ u.assoc = assoc /\ u.free = free /\ u.fwanted = fwanted /\ u.wchan = wchan /\ u.actq = actq
  <2>1. CASE SetCache(SdxintrDone(Transfer(Cache, b), b))
    <3> DEFINE x == Transfer(Cache, b)
    <3>1. /\ x \in CacheType /\ x.flags = flags /\ x.assoc = assoc /\ x.free = free
          /\ x.fwanted = fwanted /\ x.wchan = wchan /\ x.actq = actq
      BY <1>1, <1>3, <1>4 DEF Transfer, Cache, CacheType
    <3> QED BY <2>1, <3>1
  <2>2. CASE FinishFails(b) /\ SetCache(SdxintrDone(SetF(Cache, b, {"ERROR"}, {}), b))
    <3> DEFINE x == SetF(Cache, b, {"ERROR"}, {})
    <3>1. /\ x \in CacheType /\ x.flags = [flags EXCEPT ![b] = @ \cup {"ERROR"}]
          /\ x.assoc = assoc /\ x.free = free
          /\ x.fwanted = fwanted /\ x.wchan = wchan /\ x.actq = actq
      BY <1>1, <1>3 DEF SetF, Cache, CacheType, Flag
    <3>2. "ASYNC" \notin flags[b] BY <2>2 DEF FinishFails
    <3> QED BY <2>2, <3>1, <3>2
  <2> QED BY <2>1, <2>2 DEF Sdxintr
<1> DEFINE t == SdxintrDone(u, b)
<1>6. "ASYNC" \in u.flags[b] <=> "ASYNC" \in flags[b]
  <2>1. CASE u.flags = flags BY <2>1
  <2>2. CASE u.flags = [flags EXCEPT ![b] = @ \cup {"ERROR"}] BY <1>1, <1>3, <2>2 DEF TypeOK
  <2> QED BY <1>5, <2>1, <2>2
<1>7. PICK d \in CacheType :
           /\ d.flags = u.flags /\ d.assoc = u.assoc /\ d.free = u.free /\ d.fwanted = u.fwanted
           /\ d.wchan = u.wchan /\ SameData(u, d)
           /\ t \in CacheType /\ t.actq = Tail(u.actq)
           /\ t.active = (Tail(u.actq) # <<>>)
           /\ \E r \in CacheType :
                /\ t.flags = r.flags /\ t.assoc = r.assoc /\ t.free = r.free
                /\ t.fwanted = r.fwanted /\ t.wchan = r.wchan /\ SameData(r, t)
                /\ "ASYNC" \in u.flags[b] => Released(SetF(d, b, {"DONE"}, {}), r, b)
                /\ "ASYNC" \notin u.flags[b] => Completed(d, r, b)
  <2>1. u.actq # <<>> BY <1>2, <1>5
  <2> QED BY <1>3, <2>1, IntrDoneCases
<1>8. PICK r \in CacheType :
                /\ t.flags = r.flags /\ t.assoc = r.assoc /\ t.free = r.free
                /\ t.fwanted = r.fwanted /\ t.wchan = r.wchan /\ SameData(r, t)
                /\ "ASYNC" \in u.flags[b] => Released(SetF(d, b, {"DONE"}, {}), r, b)
                /\ "ASYNC" \notin u.flags[b] => Completed(d, r, b)
  BY <1>7
<1> HIDE DEF t
<1>9. /\ flags' = r.flags /\ assoc' = r.assoc /\ free' = r.free /\ fwanted' = r.fwanted
      /\ wchan' = r.wchan /\ data' = r.data /\ disk' = r.disk
      /\ actq' = Tail(actq) /\ active' = (Tail(actq) # <<>>)
  BY <1>5, <1>7, <1>8 DEF SetCache, SameData, t
<1>12. /\ d.flags = u.flags /\ d.assoc = assoc /\ d.free = free /\ d.fwanted = fwanted
       /\ d.wchan = wchan
  BY <1>5, <1>7
<1>10. CASE "ASYNC" \in flags[b]
  <2> DEFINE e == SetF(d, b, {"DONE"}, {})
  <2>1. Released(e, r, b) BY <1>6, <1>8, <1>10
  <2>2. d.flags = flags BY <1>5, <1>12, <1>10
  <2>3. /\ e \in CacheType /\ e.flags = [d.flags EXCEPT ![b] = (@ \cup {"DONE"}) \ {}]
        /\ e.assoc = d.assoc /\ e.free = d.free /\ e.fwanted = d.fwanted /\ e.wchan = d.wchan
    BY <1>3, SetFFields DEF Flag
  <2> HIDE DEF e
  <2> DEFINE G == flags[b] \cup {"DONE"}
  <2>4. e.flags = [flags EXCEPT ![b] = G] /\ G \in SUBSET Flag
    BY <1>1, <1>3, <2>2, <2>3 DEF TypeOK, Flag
  <2>5. /\ e.flags[b] = G /\ e.assoc = assoc /\ e.free = free /\ e.fwanted = fwanted
        /\ e.wchan = wchan
    BY <1>1, <1>3, <1>12, <2>3, <2>4 DEF TypeOK
  <2> HIDE DEF G
  <2>6. FlagsBecome(b, G \ {"WANTED", "BUSY", "ASYNC"})
    <3>1. r.flags = [flags EXCEPT ![b] = G \ {"WANTED", "BUSY", "ASYNC", "AGE"}]
      BY <1>1, <1>3, <2>1, <2>4, <2>5 DEF Released, TypeOK
    <3> QED BY <1>1, <1>3, <1>9, <2>4, <3>1 DEF FlagsBecome, TypeOK
  <2>7. /\ r.assoc = [e.assoc EXCEPT ![b] = IF "ERROR" \in e.flags[b] THEN NODEV ELSE @]
        /\ r.wchan = [q \in Procs |-> IF \/ e.wchan[q] = b /\ "WANTED" \in e.flags[b]
                                         \/ e.wchan[q] = FreeList /\ e.fwanted
                                       THEN Nil ELSE e.wchan[q]]
        /\ r.fwanted = FALSE
    BY <2>1 DEF Released
  <2>11. assoc' = [assoc EXCEPT ![b] = IF "ERROR" \in G THEN NODEV ELSE @] BY <1>9, <2>5, <2>7
  <2>12. wchan' = [q \in Procs |-> IF \/ wchan[q] = b /\ "WANTED" \in G
                                      \/ wchan[q] = FreeList /\ fwanted
                                   THEN Nil ELSE wchan[q]]
    BY <1>9, <2>5, <2>7, Zenon
  <2>13. fwanted' = FALSE BY <1>9, <2>7
  <2>8. free' \in Seq(Bufs) /\ ToSet(free') = ToSet(free) \cup {b} /\ IsInjective(free')
    BY <1>1, <1>4, <1>9, <2>1, <2>5 DEF Released, CacheType, BusyIffNotAvailable
  <2>9. data' \in [Bufs -> Vals] /\ disk' \in [Blocks -> Vals] BY <1>9 DEF CacheType
  <2>10. FreedTo(b, G) BY <2>6, <2>11, <2>12, <2>13, <2>8, <2>9, Zenon DEF FreedTo
  <2> QED BY <1>2, <1>3, <1>9, <1>10, <2>10 DEF G
<1>11. CASE "ASYNC" \notin flags[b]
  <2>1. Completed(d, r, b) BY <1>6, <1>8, <1>11
  <2>2. PICK F \in {flags[b] \cup {"DONE"}, flags[b] \cup {"ERROR", "DONE"}} :
          r.flags = [flags EXCEPT ![b] = F \ {"WANTED"}]
    <3>1. CASE u.flags = flags BY <1>1, <1>3, <1>12, <2>1, <3>1 DEF Completed, TypeOK
    <3>2. CASE u.flags = [flags EXCEPT ![b] = @ \cup {"ERROR"}]
      <4>1. r.flags = [d.flags EXCEPT ![b] = (@ \cup {"DONE"}) \ {"WANTED"}] BY <2>1 DEF Completed
      <4>2. r.flags = [flags EXCEPT ![b] = (flags[b] \cup {"ERROR", "DONE"}) \ {"WANTED"}]
        BY <1>1, <1>3, <1>12, <3>2, <4>1 DEF TypeOK
      <4> QED BY <4>2
    <3> QED BY <1>5, <3>1, <3>2
  <2>3. FlagsBecome(b, F \ {"WANTED"})
    BY <1>1, <1>3, <1>9, <2>2 DEF FlagsBecome, TypeOK, CacheType
  <2>4. wchan' = [q \in Procs |-> IF wchan[q] = b THEN Nil ELSE wchan[q]]
    BY <1>9, <1>12, <2>1 DEF Completed
  <2>5. UNCHANGED <<assoc, free, fwanted>> BY <1>9, <1>12, <2>1 DEF Completed
  <2>6. data' \in [Bufs -> Vals] /\ disk' \in [Blocks -> Vals] BY <1>9 DEF CacheType
  <2> QED BY <1>2, <1>3, <1>9, <1>11, <2>3, <2>4, <2>5, <2>6
<1> QED BY <1>10, <1>11

(* The disk interrupt preserves the invariant in the fault-free and the    *)
(* "finish" environment: it completes the head of the queue and starts the *)
(* next transfer.                                                          *)
LEMMA SdxintrKeeps ==
  ASSUME IInv, Faults \subseteq {"finish"}, Sdxintr
  PROVE  IInv'
<1> DEFINE b == Head(actq)
<1>1. /\ TypeOK /\ CpuOK /\ LocalsOK /\ QueueOK /\ AssocOK /\ BusyIffNotAvailable
      /\ Accounted /\ NoAlias /\ NoLostWakeup /\ DriverBusy
  BY DEF IInv
<1>2. /\ b \in Bufs /\ b \in ToSet(actq) /\ actq # <<>>
      /\ actq' = Tail(actq) /\ active' = (Tail(actq) # <<>>) /\ UNCHANGED pvars
      /\ \/ "ASYNC" \in flags[b] /\ FreedTo(b, flags[b] \cup {"DONE"})
         \/ /\ "ASYNC" \notin flags[b]
            /\ \E F \in {flags[b] \cup {"DONE"}, flags[b] \cup {"ERROR", "DONE"}} :
                 FlagsBecome(b, F \ {"WANTED"})
            /\ wchan' = [q \in Procs |-> IF wchan[q] = b THEN Nil ELSE wchan[q]]
            /\ UNCHANGED <<assoc, free, fwanted>>
            /\ data' \in [Bufs -> Vals] /\ disk' \in [Blocks -> Vals]
  BY IntrCases
<1> HIDE DEF b
<1>3. /\ actq' \in Seq(Bufs) /\ ToSet(actq') = ToSet(actq) \ {b} /\ IsInjective(actq')
      /\ ToSet(actq) \subseteq Bufs
  BY <1>1, <1>2, TailFacts, MembersType DEF TypeOK, QueueOK, b
<1>4. /\ "BUSY" \in flags[b] /\ b \notin ToSet(free) /\ "DONE" \notin flags[b]
      /\ "ERROR" \notin flags[b] /\ "DELWRI" \notin flags[b]
  BY <1>1, <1>2 DEF Accounted, BusyIffNotAvailable, QueueOK, AssocOK
<1>5. \A q \in Procs, c \in Bufs : Owns(q, c)' <=> Owns(q, c) BY <1>2 DEF Owns, pvars
<1>6. /\ assoc' = assoc /\ flags' \in [Bufs -> SUBSET Flag]
      /\ \A c \in Bufs \ {b} : flags'[c] = flags[c]
      /\ "DONE" \in flags'[b] /\ "DELWRI" \notin flags'[b] /\ "ASYNC" \notin flags'[b]
      /\ free' \in Seq(Bufs) /\ IsInjective(free') /\ fwanted' \in BOOLEAN
      /\ wchan' \in [Procs -> Bufs \cup {FreeList, Nil}]
      /\ \A q \in Procs : wchan'[q] \in {wchan[q], Nil}
      /\ data' \in [Bufs -> Vals] /\ disk' \in [Blocks -> Vals]
      /\ \/ /\ "ASYNC" \in flags[b] /\ "BUSY" \notin flags'[b] /\ "ERROR" \notin flags'[b]
            /\ ToSet(free') = ToSet(free) \cup {b}
            /\ \A q \in Procs : wchan[q] = FreeList /\ fwanted => wchan'[q] = Nil
            /\ \A q \in Procs : wchan[q] = b /\ "WANTED" \in flags[b] => wchan'[q] = Nil
         \/ /\ "ASYNC" \notin flags[b] /\ "BUSY" \in flags'[b] /\ free' = free /\ fwanted' = fwanted
            /\ \A q \in Procs : wchan[q] = b => wchan'[q] = Nil
  <2>1. CASE "ASYNC" \in flags[b] /\ FreedTo(b, flags[b] \cup {"DONE"})
    <3>1. FlagsBecome(b, (flags[b] \cup {"DONE"}) \ {"WANTED", "BUSY", "ASYNC"}) BY <2>1 DEF FreedTo
    <3>2. /\ flags' \in [Bufs -> SUBSET Flag] /\ \A c \in Bufs \ {b} : flags'[c] = flags[c]
          /\ "DONE" \in flags'[b] /\ "DELWRI" \notin flags'[b] /\ "ASYNC" \notin flags'[b]
          /\ "BUSY" \notin flags'[b] /\ "ERROR" \notin flags'[b]
      BY <1>4, <3>1 DEF FlagsBecome
    <3>3. assoc' = assoc BY <1>1, <1>2, <1>4, <2>1 DEF FreedTo, TypeOK
    <3>4. /\ free' \in Seq(Bufs) /\ IsInjective(free') /\ ToSet(free') = ToSet(free) \cup {b}
          /\ fwanted' \in BOOLEAN /\ data' \in [Bufs -> Vals] /\ disk' \in [Blocks -> Vals]
      BY <2>1 DEF FreedTo
    <3>5. /\ wchan' \in [Procs -> Bufs \cup {FreeList, Nil}]
          /\ \A q \in Procs : wchan'[q] \in {wchan[q], Nil}
          /\ \A q \in Procs : wchan[q] = FreeList /\ fwanted => wchan'[q] = Nil
          /\ \A q \in Procs : wchan[q] = b /\ "WANTED" \in flags[b] => wchan'[q] = Nil
      BY <1>1, <2>1 DEF FreedTo, TypeOK
    <3> QED BY <2>1, <3>2, <3>3, <3>4, <3>5
  <2>2. CASE "ASYNC" \notin flags[b]
    <3>1. PICK F \in {flags[b] \cup {"DONE"}, flags[b] \cup {"ERROR", "DONE"}} :
            FlagsBecome(b, F \ {"WANTED"})
      BY <1>2, <2>2
    <3>2. /\ flags' \in [Bufs -> SUBSET Flag] /\ \A c \in Bufs \ {b} : flags'[c] = flags[c]
          /\ "DONE" \in flags'[b] /\ "DELWRI" \notin flags'[b] /\ "ASYNC" \notin flags'[b]
          /\ "BUSY" \in flags'[b]
      BY <1>4, <2>2, <3>1 DEF FlagsBecome
    <3>3. /\ wchan' \in [Procs -> Bufs \cup {FreeList, Nil}]
          /\ \A q \in Procs : wchan'[q] \in {wchan[q], Nil}
          /\ \A q \in Procs : wchan[q] = b => wchan'[q] = Nil
      BY <1>1, <1>2, <2>2 DEF TypeOK
    <3> QED BY <1>1, <1>2, <2>2, <3>2, <3>3 DEF TypeOK, BusyIffNotAvailable
  <2> QED BY <1>2, <2>1, <2>2
<1>7. TypeOK' BY <1>1, <1>2, <1>3, <1>6 DEF TypeOK, pvars
<1>8. CpuOK' BY <1>1, <1>2, <1>6 DEF CpuOK, pvars
<1>9. LocalsOK' BY <1>1, <1>2, <1>3 DEF LocalsOK, pvars
<1>10. QueueOK'
  <2>1. \A c \in ToSet(actq') : flags'[c] = flags[c] /\ assoc'[c] = assoc[c] BY <1>3, <1>6
  <2>2. ASSUME NEW q \in Procs, bp'[q] # Nil, pc'[q] # "held"
        PROVE  "DONE" \in flags'[bp'[q]] \/ bp'[q] \in ToSet(actq')
    BY <1>1, <1>2, <1>3, <1>6, <2>2 DEF QueueOK, TypeOK, pvars
  <2> QED BY <1>1, <1>3, <2>1, <2>2 DEF QueueOK
<1>11. \A q \in Procs : pc[q] = "got" => tgt[q] \in Bufs \ {b}
  BY <1>1, <1>2 DEF LocalsOK, TypeOK
<1>12. AssocOK'
  <2>1. \A c \in Bufs :
         /\ "DELWRI" \in flags'[c] =>
              assoc'[c] \in Blocks /\ "DONE" \in flags'[c] /\ "ERROR" \notin flags'[c]
         /\ "BUSY" \notin flags'[c] => "ASYNC" \notin flags'[c]
         /\ "BUSY" \notin flags'[c] /\ assoc'[c] # NODEV => "ERROR" \notin flags'[c]
    BY <1>1, <1>6 DEF AssocOK
  <2>2. \A q \in Procs : pc[q] = "got" => "ERROR" \notin flags'[tgt[q]] BY <1>1, <1>6, <1>11 DEF AssocOK
  <2> QED BY <1>1, <1>2, <1>6, <2>1, <2>2 DEF AssocOK, Arg, Incore, pvars
<1>13. BusyIffNotAvailable' BY <1>1, <1>4, <1>6 DEF BusyIffNotAvailable
<1>14. NoAlias' BY <1>1, <1>6 DEF NoAlias
<1>15. Accounted'
  <2>1. "ASYNC" \in flags[b] => \A q \in Procs : ~Owns(q, b) BY <1>1, <1>2 DEF Accounted
  <2>2. "ASYNC" \notin flags[b] => \E q \in Procs : Owns(q, b) BY <1>1, <1>2, <1>4 DEF Accounted
  <2>3. \A q \in Procs, c \in Bufs : Owns(q, c)' => "BUSY" \in flags'[c] /\ "ASYNC" \notin flags'[c]
    BY <1>1, <1>5, <1>6, <2>1 DEF Accounted
  <2>4. \A q, r \in Procs, c \in Bufs : Owns(q, c)' /\ Owns(r, c)' => q = r BY <1>1, <1>5 DEF Accounted
  <2>5. \A c \in ToSet(actq') : "BUSY" \in flags'[c] BY <1>1, <1>3, <1>6 DEF Accounted
  <2>6. \A c \in Bufs : "BUSY" \in flags'[c] =>
          (\E q \in Procs : Owns(q, c)') \/ ("ASYNC" \in flags'[c] /\ c \in ToSet(actq'))
    BY <1>1, <1>3, <1>5, <1>6, <2>2 DEF Accounted
  <2> QED BY <2>3, <2>4, <2>5, <2>6 DEF Accounted
<1>16. NoLostWakeup'
  <2>1. \A q \in Procs : pc'[q] = pc[q] BY <1>2 DEF pvars
  <2>2. CASE "ASYNC" \in flags[b] /\ \A q \in Procs : wchan[q] = FreeList /\ fwanted => wchan'[q] = Nil
    <3>1. ASSUME NEW q \in Procs, wchan[q] = b PROVE wchan'[q] = Nil
      <4>1. \A r \in Procs : ~Owns(r, b) BY <1>1, <1>2, <2>2 DEF Accounted
      <4>2. pc[q] # "iowait" BY <1>1, <1>2, <3>1, <4>1, BufsAssumption DEF CpuOK, Owns
      <4>3. pc[q] = "getblk" BY <1>1, <1>2, <3>1, <4>2, BufsAssumption DEF CpuOK
      <4>4. "WANTED" \in flags[b] BY <1>1, <1>2, <3>1, <4>3 DEF NoLostWakeup
      <4> QED BY <1>6, <2>2, <3>1, <4>4
    <3>2. ASSUME NEW q \in Procs, wchan'[q] # Nil
          PROVE  wchan'[q] = wchan[q] /\ wchan[q] # FreeList /\ wchan[q] # b
      BY <1>1, <1>6, <2>2, <3>1, <3>2 DEF NoLostWakeup
    <3> QED BY <1>1, <1>3, <1>6, <2>1, <3>2, BufsAssumption DEF NoLostWakeup
  <2>3. CASE /\ \A q \in Procs : wchan[q] = b => wchan'[q] = Nil
             /\ free' = free /\ fwanted' = fwanted
    <3>1. ASSUME NEW q \in Procs, wchan'[q] # Nil
          PROVE  wchan'[q] = wchan[q] /\ wchan[q] # b
      BY <1>6, <2>3, <3>1
    <3> QED BY <1>1, <1>3, <1>6, <2>1, <2>3, <3>1, BufsAssumption DEF NoLostWakeup
  <2> QED BY <1>6, <2>2, <2>3
<1>17. DriverBusy' BY <1>2 DEF DriverBusy
<1> QED BY <1>7, <1>8, <1>9, <1>10, <1>12, <1>13, <1>14, <1>15, <1>16, <1>17 DEF IInv
----------------------------------------------------------------------------
(* Initially every buffer is available and nobody is in the cache.         *)
LEMMA InitIInv == Init => IInv
<1> SUFFICES ASSUME Init PROVE IInv
  OBVIOUS
<1>1. free \in Seq(Bufs) /\ ToSet(free) = Bufs /\ IsInjective(free)
  <2>1. NBUF \in Nat BY BufsAssumption
  <2>2. free \in Seq(Bufs) /\ Len(free) = NBUF /\ \A i \in 1..NBUF : free[i] = i
    BY <2>1 DEF Init, Bufs
  <2>3. \A x : x \in ToSet(free) <=> x \in Bufs BY <2>2, InList DEF Bufs
  <2>4. IsInjective(free) BY <2>1, <2>2 DEF IsInjective, Init
  <2> QED BY <2>2, <2>3, <2>4
<1>2. actq \in Seq(Bufs) /\ ToSet(actq) = {} /\ IsInjective(actq) /\ actq = <<>>
  <2>1. actq = <<>> /\ actq \in Seq(Bufs) BY DEF Init
  <2>2. ToSet(actq) = {} BY <2>1, MemberNonempty
  <2> QED BY <2>1, <2>2 DEF IsInjective
<1>3. TypeOK BY <1>1, <1>2, ValsAssumption DEF Init, TypeOK, PC, Op
<1>4. CpuOK BY DEF Init, CpuOK
<1>5. LocalsOK BY DEF Init, LocalsOK
<1>6. QueueOK BY <1>2 DEF Init, QueueOK
<1>7. AssocOK BY DEF Init, AssocOK
<1>8. BusyIffNotAvailable BY <1>1 DEF Init, BusyIffNotAvailable
<1>9. Accounted BY <1>2, BufsAssumption DEF Init, Accounted, Owns
<1>10. NoAlias BY DEF Init, NoAlias
<1>11. NoLostWakeup BY BufsAssumption DEF Init, NoLostWakeup
<1>12. DriverBusy BY DEF Init, DriverBusy
<1> QED BY <1>3, <1>4, <1>5, <1>6, <1>7, <1>8, <1>9, <1>10, <1>11, <1>12 DEF IInv

(* Every step keeps the invariant.                                         *)
LEMMA NextKeeps ==
  ASSUME IInv, Faults \subseteq {"finish"}, [Next]_vars
  PROVE  IInv'
<1>1. CASE Sdxintr BY <1>1, SdxintrKeeps
<1>2. ASSUME NEW p \in Procs, Calls(p) PROVE IInv'
  <2>1. ASSUME NEW x \in Blocks, Getblk(p, x) \/ Bread(p, x) PROVE IInv'
    BY <2>1, CallKeeps DEF Getblk, Bread
  <2>2. ASSUME NEW x \in Blocks, NEW r \in Blocks \cup {Nil}, Breada(p, x, r) PROVE IInv'
    BY <2>2, BreadaKeeps
  <2>3. CASE Geteblk(p) BY <2>3, CallKeeps DEF Geteblk
  <2>4. CASE BflushCall(p) BY <2>4, BflushCallKeeps
  <2> QED BY <1>2, <2>1, <2>2, <2>3, <2>4 DEF Calls
<1>3. ASSUME NEW p \in Procs, Releases(p) PROVE IInv'
  BY <1>3, ReleaseKeeps, BdwriteKeeps, BwriteKeeps, BawriteKeeps DEF Releases
<1>4. ASSUME NEW p \in Procs, Inside(p) PROVE IInv'
  <2>1. ~LoadAge(p) BY DEF LoadAge
  <2>2. ~StoreAge(p) BY DEF IInv, LocalsOK, StoreAge, Runs
  <2>3. CASE GetblkSearch(p) \/ GetblkBusy(p) \/ GetblkFound(p) \/ GetblkNone(p)
             \/ GetblkDelwri(p) \/ GetblkReassign(p)
    BY <2>3, SearchKeeps, BusyKeeps, FoundKeeps, NoneKeeps, DelwriKeeps, ReassignKeeps
  <2>4. CASE SetAge(p) \/ GotHeld(p) \/ GotBread(p) \/ GotBreada(p) \/ GotAhead(p) \/ ReadAhead(p)
    BY <2>4, SetAgeKeeps, GotHeldKeeps, GotBreadKeeps, GotBreadaKeeps, GotAheadKeeps, ReadAheadKeeps
  <2>5. CASE IowaitSleep(p) \/ IowaitRead(p) \/ IowaitWrite(p) \/ BflushWrite(p) \/ BflushEnd(p)
    BY <2>5, IowaitSleepKeeps, IowaitReadKeeps, ReleaseKeeps, BflushWriteKeeps, BflushEndKeeps
  <2> QED BY <1>4, <2>1, <2>2, <2>3, <2>4, <2>5 DEF Inside
<1>5. CASE UNCHANGED vars
  BY <1>5 DEF vars, IInv, TypeOK, CpuOK, LocalsOK, QueueOK, AssocOK, BusyIffNotAvailable, Accounted,
              NoAlias, NoLostWakeup, DriverBusy, Owns, Incore, Arg
<1> QED BY <1>1, <1>2, <1>3, <1>4, <1>5 DEF Next

(* The cache is correct for any number of processes, buffers and blocks,   *)
(* as long as asynchronous transfers do not fail (a waited-for one may)    *)
(* and the store of B_AGE in bwrite is not interrupted: the invariant      *)
(* holds in every reachable state.                                         *)
THEOREM CacheInvariant ==
  ASSUME Faults \subseteq {"finish"}
  PROVE  Spec => []IInv
<1>1. Init => IInv BY InitIInv
<1>2. IInv /\ [Next]_vars => IInv' BY NextKeeps
<1> QED BY <1>1, <1>2, PTL DEF Spec

(* Type correctness of the cache, the driver's queue and the processes.    *)
THEOREM CacheTypes ==
  ASSUME Faults \subseteq {"finish"}
  PROVE  Spec => []TypeOK
<1>1. IInv => TypeOK BY DEF IInv
<1> QED BY <1>1, CacheInvariant, PTL

(* buf.h: a buffer is on the available list exactly when it is not busy    *)
(* (getblk and notavail take it off, brelse puts it back), and once.       *)
THEOREM CacheAvailable ==
  ASSUME Faults \subseteq {"finish"}
  PROVE  Spec => []BusyIffNotAvailable
<1>1. IInv => BusyIffNotAvailable BY DEF IInv
<1> QED BY <1>1, CacheInvariant, PTL

(* No buffer leaks and none is shared: a busy one belongs to exactly one   *)
(* process or to an asynchronous transfer (brelse, iodone).                *)
THEOREM CacheAccounted ==
  ASSUME Faults \subseteq {"finish"}
  PROVE  Spec => []Accounted
<1>1. IInv => Accounted BY DEF IInv
<1> QED BY <1>1, CacheInvariant, PTL

(* No two buffers hold the same block, although getblk sleeps between its  *)
(* search of the hash chain and the moment it takes a buffer.              *)
THEOREM CacheNoAlias ==
  ASSUME Faults \subseteq {"finish"}
  PROVE  Spec => []NoAlias
<1>1. IInv => NoAlias BY DEF IInv
<1> QED BY <1>1, CacheInvariant, PTL

(* Nobody sleeps in getblk or iowait for something that has happened       *)
(* already: the flags that make brelse and iodone wake it are set.         *)
THEOREM CacheNoLostWakeup ==
  ASSUME Faults \subseteq {"finish"}
  PROVE  Spec => []NoLostWakeup
<1>1. IInv => NoLostWakeup BY DEF IInv
<1> QED BY <1>1, CacheInvariant, PTL

(* The driver never idles over a queued request (sdxstrategy, sdxintr).    *)
THEOREM CacheDriverBusy ==
  ASSUME Faults \subseteq {"finish"}
  PROVE  Spec => []DriverBusy
<1>1. IInv => DriverBusy BY DEF IInv
<1> QED BY <1>1, CacheInvariant, PTL

(* getblk and bread give the caller the block it asked for.                *)
THEOREM CacheRightBlock ==
  ASSUME Faults \subseteq {"finish"}
  PROVE  Spec => []RightBlock
<1>1. IInv => RightBlock BY DEF IInv, RightBlock, LocalsOK, AssocOK
<1> QED BY <1>1, CacheInvariant, PTL
----------------------------------------------------------------------------
(* The store that a cache state shows.                                     *)

ValidOf(F, q, b) ==
  /\ "ERROR" \notin F[b]
  /\ "DONE" \in F[b] \/ (b \in ToSet(q) /\ "READ" \notin F[b])

StoreOf(F, A, q, D, K) ==
  [x \in Blocks |-> IF \E b \in Bufs : A[b] = x /\ ValidOf(F, q, b)
                    THEN D[CHOOSE b \in Bufs : A[b] = x /\ ValidOf(F, q, b)] ELSE K[x]]

StoreIn(s) == StoreOf(s.flags, s.assoc, s.actq, s.data, s.disk)

Shows(s, b, x) == s.assoc[b] = x /\ ValidOf(s.flags, s.actq, b)

(* What the store has at x if no buffer but b can hold x.                  *)
Content(s, b, x) == IF Shows(s, b, x) THEN s.data[b] ELSE s.disk[x]

NoAliasIn(s) == \A a, b \in Bufs : s.assoc[a] = s.assoc[b] /\ s.assoc[a] # NODEV => a = b

(* From s to t only buffer b has changed, and the card at its block; b may *)
(* have lost its association.                                              *)
Only(s, t, b) ==
  /\ t.assoc[b] \in {s.assoc[b], NODEV}
  /\ \A c \in Bufs \ {b} : /\ t.flags[c] = s.flags[c] /\ t.assoc[c] = s.assoc[c]
                           /\ t.data[c] = s.data[c]
                           /\ c \in ToSet(t.actq) <=> c \in ToSet(s.actq)
  /\ \A x \in Blocks \ {s.assoc[b]} : t.disk[x] = s.disk[x]

(* The store at a block that a valid buffer holds, and at any other.       *)
LEMMA StoreHere ==
  ASSUME NEW s, NoAliasIn(s), NEW b \in Bufs, NEW x \in Blocks
  PROVE  /\ Shows(s, b, x) => StoreIn(s)[x] = s.data[b]
         /\ (\A c \in Bufs : ~Shows(s, c, x)) => StoreIn(s)[x] = s.disk[x]
<1>1. StoreIn(s)[x] = IF \E c \in Bufs : Shows(s, c, x)
                      THEN s.data[CHOOSE c \in Bufs : Shows(s, c, x)] ELSE s.disk[x]
  BY DEF StoreIn, StoreOf, Shows
<1>2. ASSUME Shows(s, b, x) PROVE StoreIn(s)[x] = s.data[b]
  <2> DEFINE c == CHOOSE c \in Bufs : Shows(s, c, x)
  <2>1. c \in Bufs /\ Shows(s, c, x) BY <1>2
  <2>2. c = b BY <1>2, <2>1, BlocksAssumption DEF NoAliasIn, Shows
  <2> QED BY <1>1, <1>2, <2>2
<1> QED BY <1>1, <1>2

(* After a change of one buffer the store differs at its block only.       *)
LEMMA StoreChanges ==
  ASSUME NEW s, NEW t, NoAliasIn(s), NEW b \in Bufs, Only(s, t, b)
  PROVE  /\ NoAliasIn(t)
         /\ \A x \in Blocks : x # s.assoc[b] => StoreIn(t)[x] = StoreIn(s)[x]
         /\ s.assoc[b] \in Blocks => /\ StoreIn(s)[s.assoc[b]] = Content(s, b, s.assoc[b])
                                     /\ StoreIn(t)[s.assoc[b]] = Content(t, b, s.assoc[b])
<1>1. NoAliasIn(t) BY DEF NoAliasIn, Only
<1>2. ASSUME NEW c \in Bufs \ {b}, NEW x
      PROVE  Shows(t, c, x) <=> Shows(s, c, x)
  BY DEF Shows, ValidOf, Only
<1>3. ASSUME NEW x \in Blocks, x # s.assoc[b] PROVE StoreIn(t)[x] = StoreIn(s)[x]
  <2>1. ~Shows(t, b, x) /\ ~Shows(s, b, x) BY <1>3, BlocksAssumption DEF Shows, Only
  <2>2. ASSUME NEW c \in Bufs, Shows(s, c, x) PROVE StoreIn(t)[x] = StoreIn(s)[x]
    <3>1. c \in Bufs \ {b} /\ Shows(t, c, x) BY <1>2, <2>1, <2>2
    <3>2. StoreIn(s)[x] = s.data[c] /\ StoreIn(t)[x] = t.data[c] BY <1>1, <2>2, <3>1, StoreHere
    <3> QED BY <3>1, <3>2 DEF Only
  <2>3. CASE \A c \in Bufs : ~Shows(s, c, x)
    <3>1. \A c \in Bufs : ~Shows(t, c, x) BY <1>2, <2>1, <2>3
    <3>2. StoreIn(s)[x] = s.disk[x] /\ StoreIn(t)[x] = t.disk[x] BY <1>1, <2>3, <3>1, StoreHere
    <3> QED BY <1>3, <3>2 DEF Only
  <2> QED BY <2>2, <2>3
<1>4. ASSUME NEW u \in {s, t}, s.assoc[b] \in Blocks
      PROVE  StoreIn(u)[s.assoc[b]] = Content(u, b, s.assoc[b])
  <2> DEFINE x == s.assoc[b]
  <2>1. \A c \in Bufs \ {b} : ~Shows(s, c, x) BY <1>4, BlocksAssumption DEF Shows, NoAliasIn
  <2>2. \A c \in Bufs \ {b} : ~Shows(u, c, x) BY <1>2, <2>1
  <2>3. NoAliasIn(u) BY <1>1
  <2>4. x \in Blocks BY <1>4
  <2> HIDE DEF x
  <2> SUFFICES StoreIn(u)[x] = Content(u, b, x) BY DEF x
  <2>5. CASE Shows(u, b, x) BY <2>3, <2>4, <2>5, StoreHere DEF Content
  <2>6. CASE ~Shows(u, b, x)
    <3>1. \A c \in Bufs : ~Shows(u, c, x) BY <2>2, <2>6
    <3> QED BY <2>3, <2>4, <2>6, <3>1, StoreHere DEF Content
  <2> QED BY <2>5, <2>6
<1> QED BY <1>1, <1>3, <1>4

(* The model's Store is that of the cache state, now and after a step.     *)
LEMMA StoreNow == Store = StoreIn(Cache) /\ Store' = StoreIn(Cache')
<1>1. /\ Cache.flags = flags /\ Cache.assoc = assoc /\ Cache.actq = actq
      /\ Cache.data = data /\ Cache.disk = disk
  BY DEF Cache
<1>2. /\ Cache'.flags = flags' /\ Cache'.assoc = assoc' /\ Cache'.actq = actq'
      /\ Cache'.data = data' /\ Cache'.disk = disk'
  BY DEF Cache
<1>3. Store = StoreOf(flags, assoc, actq, data, disk) BY Zenon DEF Store, StoreOf, Valid, ValidOf
<1>4. Store' = StoreOf(flags', assoc', actq', data', disk') BY Zenon DEF Store, StoreOf, Valid, ValidOf
<1> QED BY <1>1, <1>2, <1>3, <1>4, Zenon DEF StoreIn
----------------------------------------------------------------------------
(* A buffer that is done, without error and not delayed is a copy of its   *)
(* block.                                                                  *)
CleanAt(s, b) ==
  s.assoc[b] \in Blocks /\ "DONE" \in s.flags[b] /\ "ERROR" \notin s.flags[b]
    /\ "DELWRI" \notin s.flags[b] => s.data[b] = s.disk[s.assoc[b]]

CleanIn(s) == \A b \in Bufs : CleanAt(s, b)

Clean == CleanIn(Cache)

(* A change of one buffer leaves all others clean.                         *)
LEMMA CleanKept ==
  ASSUME NEW s, NEW t, NoAliasIn(s), CleanIn(s), NEW b \in Bufs, Only(s, t, b), CleanAt(t, b)
  PROVE  CleanIn(t)
<1> SUFFICES ASSUME NEW c \in Bufs \ {b}, s.assoc[c] \in Blocks PROVE CleanAt(t, c)
  BY DEF CleanIn, CleanAt, Only
<1>1. s.assoc[c] # s.assoc[b] BY BlocksAssumption DEF NoAliasIn
<1> QED BY <1>1 DEF CleanIn, CleanAt, Only

(* Changes of one buffer add up to one.                                    *)
LEMMA OnlyTwice ==
  ASSUME NEW s, NEW u, NEW t, NEW b \in Bufs, Only(s, u, b), Only(u, t, b)
  PROVE  Only(s, t, b)
BY BlocksAssumption DEF Only
----------------------------------------------------------------------------
(* What the routines do to the store.                                      *)

(* A routine that changes flags of one buffer.                             *)
LEMMA FlagsOnly ==
  ASSUME NEW s \in CacheType, NEW t, NEW b \in Bufs, NEW F,
         t.flags = [s.flags EXCEPT ![b] = F], t.assoc = s.assoc, t.actq = s.actq, SameData(s, t)
  PROVE  Only(s, t, b) /\ t.flags[b] = F
BY DEF CacheType, SameData, Only

(* brelse.                                                                 *)
LEMMA ReleasedOnly ==
  ASSUME NEW s \in CacheType, NEW t, NEW b \in Bufs, Released(s, t, b)
  PROVE  /\ Only(s, t, b) /\ SameData(s, t) /\ t.actq = s.actq
         /\ t.flags[b] = s.flags[b] \ {"WANTED", "BUSY", "ASYNC", "AGE"}
         /\ t.assoc[b] = IF "ERROR" \in s.flags[b] THEN NODEV ELSE s.assoc[b]
BY DEF CacheType, SameData, Only, Released

(* The driver has refused the request.                                     *)
Lost(t, b) == t.assoc[b] = NODEV \/ "ERROR" \in t.flags[b]

(* iodone.                                                                 *)
LEMMA IodoneOnly ==
  ASSUME NEW s \in CacheType, NEW b \in Bufs, NEW t, t = Iodone(s, b)
  PROVE  /\ Only(s, t, b) /\ SameData(s, t) /\ t.actq = s.actq /\ t \in CacheType
         /\ "DONE" \in t.flags[b]
         /\ \A f \in {"ERROR", "DELWRI"} : f \in t.flags[b] <=> f \in s.flags[b]
         /\ "ERROR" \in s.flags[b] => Lost(t, b)
         /\ "ERROR" \notin s.flags[b] => t.assoc[b] = s.assoc[b]
<1>1. CASE "ASYNC" \in s.flags[b]
  <2> DEFINE d == SetF(s, b, {"DONE"}, {})
  <2>1. /\ d \in CacheType /\ d.flags = [s.flags EXCEPT ![b] = (@ \cup {"DONE"}) \ {}]
        /\ d.assoc = s.assoc /\ d.actq = s.actq /\ SameData(s, d)
    BY SetFFields DEF Flag
  <2>2. Released(d, t, b) BY <1>1, IodoneCases
  <2> HIDE DEF d
  <2>3. Only(s, d, b) /\ d.flags[b] = (s.flags[b] \cup {"DONE"}) \ {}
    <3>1. d.flags = [s.flags EXCEPT ![b] = (s.flags[b] \cup {"DONE"}) \ {}] BY <2>1
    <3> QED BY <2>1, <3>1, FlagsOnly
  <2>4. /\ Only(d, t, b) /\ SameData(d, t) /\ t.actq = d.actq /\ t \in CacheType
        /\ t.flags[b] = d.flags[b] \ {"WANTED", "BUSY", "ASYNC", "AGE"}
        /\ t.assoc[b] = IF "ERROR" \in d.flags[b] THEN NODEV ELSE d.assoc[b]
    <3>1. t \in CacheType BY <2>2 DEF Released
    <3>2. d \in CacheType BY <2>1
    <3> QED BY <2>2, <3>1, <3>2, ReleasedOnly
  <2>5. Only(s, t, b) BY <2>3, <2>4, OnlyTwice
  <2>6. SameData(s, t) BY <2>1, <2>4 DEF SameData
  <2> QED BY <2>1, <2>3, <2>4, <2>5, <2>6 DEF Lost
<1>2. CASE "ASYNC" \notin s.flags[b]
  <2> DEFINE F == (s.flags[b] \cup {"DONE"}) \ {"WANTED"}
  <2>1. Completed(s, t, b) BY <1>2, IodoneCases
  <2>2. t.flags = [s.flags EXCEPT ![b] = F] BY <2>1 DEF Completed
  <2>3. t.assoc = s.assoc /\ t.actq = s.actq /\ SameData(s, t) /\ t \in CacheType BY <2>1 DEF Completed
  <2>4. Only(s, t, b) /\ t.flags[b] = F BY <2>2, <2>3, FlagsOnly
  <2> QED BY <2>3, <2>4 DEF Lost
<1> QED BY <1>1, <1>2

(* The strategy routine: the request is queued, or lost.                   *)
LEMMA StrategyOnly ==
  ASSUME NEW s \in CacheType, NEW b \in Bufs, NEW t, t = Sdxstrategy(s, b)
  PROVE  /\ Only(s, t, b) /\ SameData(s, t) /\ t \in CacheType
         /\ s.assoc[b] \notin BadBlocks =>
              t.flags[b] = s.flags[b] /\ t.assoc[b] = s.assoc[b] /\ b \in ToSet(t.actq)
         /\ s.assoc[b] \in BadBlocks => Lost(t, b)
<1>1. CASE s.assoc[b] \notin BadBlocks
  <2>1. Queued(s, t, b) BY <1>1, StrategyQueues
  <2>2. ToSet(t.actq) = ToSet(s.actq) \cup {b} BY <2>1, AppendFacts DEF Queued, CacheType
  <2> QED BY <1>1, <2>1, <2>2 DEF Queued, Only, SameData
<1>2. CASE s.assoc[b] \in BadBlocks
  <2> DEFINE e == SetF(s, b, {"ERROR"}, {})
  <2>1. t = Iodone(e, b) BY <1>2 DEF Sdxstrategy
  <2>2. /\ e \in CacheType /\ e.flags = [s.flags EXCEPT ![b] = (@ \cup {"ERROR"}) \ {}]
        /\ e.assoc = s.assoc /\ e.actq = s.actq /\ SameData(s, e)
    BY SetFFields DEF Flag
  <2> HIDE DEF e
  <2>3. Only(s, e, b) /\ e.flags[b] = (s.flags[b] \cup {"ERROR"}) \ {}
    <3>1. e.flags = [s.flags EXCEPT ![b] = (s.flags[b] \cup {"ERROR"}) \ {}] BY <2>2
    <3> QED BY <2>2, <3>1, FlagsOnly
  <2>4. Only(e, t, b) /\ SameData(e, t) /\ t \in CacheType /\ ("ERROR" \in e.flags[b] => Lost(t, b))
    BY <2>1, <2>2, IodoneOnly
  <2>5. Only(s, t, b) BY <2>3, <2>4, OnlyTwice
  <2>6. SameData(s, t) BY <2>2, <2>4 DEF SameData
  <2> QED BY <1>2, <2>3, <2>4, <2>5, <2>6
<1> QED BY <1>1, <1>2

(* bwrite has sent the contents of b to the card, or they are lost.        *)
Sent(s, t, b) ==
  /\ t \in CacheType /\ Only(s, t, b) /\ SameData(s, t)
  /\ s.assoc[b] \notin BadBlocks =>
       t.assoc[b] = s.assoc[b] /\ ValidOf(t.flags, t.actq, b) /\ "DONE" \notin t.flags[b]
  /\ s.assoc[b] \in BadBlocks => Lost(t, b)

(* bwrite.                                                                 *)
LEMMA BwriteSends ==
  ASSUME NEW s \in CacheType, NEW b \in Bufs, NEW t, t = BwriteStart(s, b)
  PROVE  Sent(s, t, b)
<1> DEFINE off == {"READ", "DONE", "ERROR", "DELWRI", "AGE"}
           u == SetF(s, b, {}, off)
<1>1. t = Sdxstrategy(u, b) BY DEF BwriteStart
<1>2. /\ u \in CacheType /\ u.flags = [s.flags EXCEPT ![b] = (@ \cup {}) \ off]
      /\ u.assoc = s.assoc /\ u.actq = s.actq /\ SameData(s, u)
  BY SetFFields DEF Flag
<1> HIDE DEF u
<1>3. Only(s, u, b) /\ u.flags[b] = (s.flags[b] \cup {}) \ off
  <2>1. u.flags = [s.flags EXCEPT ![b] = (s.flags[b] \cup {}) \ off] BY <1>2
  <2> HIDE DEF off
  <2> QED BY <1>2, <2>1, FlagsOnly
<1>4. /\ Only(u, t, b) /\ SameData(u, t) /\ t \in CacheType
      /\ u.assoc[b] \notin BadBlocks =>
           t.flags[b] = u.flags[b] /\ t.assoc[b] = u.assoc[b] /\ b \in ToSet(t.actq)
      /\ u.assoc[b] \in BadBlocks => Lost(t, b)
  BY <1>1, <1>2, StrategyOnly
<1>5. Only(s, t, b) BY <1>3, <1>4, OnlyTwice
<1>6. SameData(s, t) BY <1>2, <1>4 DEF SameData
<1>7. s.assoc[b] \notin BadBlocks =>
        t.assoc[b] = s.assoc[b] /\ ValidOf(t.flags, t.actq, b) /\ "DONE" \notin t.flags[b]
  BY <1>2, <1>3, <1>4 DEF ValidOf
<1> QED BY <1>2, <1>4, <1>5, <1>6, <1>7 DEF Sent
(* The end of a transfer: the request leaves the queue and is done, and    *)
(* the driver goes on to the next.                                         *)
LEMMA IntrOnly ==
  ASSUME NEW u \in CacheType, u.actq # <<>>, IsInjective(u.actq),
         NEW b, b = Head(u.actq), NEW t, t = SdxintrDone(u, b)
  PROVE  /\ b \in Bufs /\ Only(u, t, b) /\ SameData(u, t) /\ b \notin ToSet(t.actq)
         /\ "DONE" \in t.flags[b]
         /\ \A f \in {"ERROR", "DELWRI"} : f \in t.flags[b] <=> f \in u.flags[b]
         /\ "ERROR" \in u.flags[b] => Lost(t, b)
         /\ "ERROR" \notin u.flags[b] => t.assoc[b] = u.assoc[b]
<1> DEFINE v == [u EXCEPT !.active = FALSE, !.actq = Tail(@)]
           w == Iodone(v, b)
<1>1. u.actq \in Seq(Bufs) BY DEF CacheType
<1>2. /\ Tail(u.actq) \in Seq(Bufs) /\ b \in Bufs
      /\ ToSet(Tail(u.actq)) = ToSet(u.actq) \ {b}
  BY <1>1, TailFacts
<1>3. /\ v \in CacheType /\ v.actq = Tail(u.actq) /\ v.flags = u.flags /\ v.assoc = u.assoc
      /\ SameData(u, v)
  BY <1>2 DEF CacheType, SameData
<1>4. t = Sdxstart(w) BY DEF SdxintrDone
<1> HIDE DEF v
<1>5. Only(u, v, b) BY <1>2, <1>3 DEF Only, SameData
<1>6. /\ Only(v, w, b) /\ SameData(v, w) /\ w.actq = v.actq /\ w \in CacheType
      /\ "DONE" \in w.flags[b]
      /\ \A f \in {"ERROR", "DELWRI"} : f \in w.flags[b] <=> f \in v.flags[b]
      /\ "ERROR" \in v.flags[b] => Lost(w, b)
      /\ "ERROR" \notin v.flags[b] => w.assoc[b] = v.assoc[b]
  <2>1. v \in CacheType /\ b \in Bufs BY <1>2, <1>3
  <2>2. w = Iodone(v, b) OBVIOUS
  <2> HIDE DEF w
  <2> QED BY <2>1, <2>2, IodoneOnly
<1> HIDE DEF w
<1>7. /\ t.flags = w.flags /\ t.assoc = w.assoc /\ t.actq = w.actq /\ SameData(w, t)
  <2>1. t = w \/ t = [w EXCEPT !.active = TRUE] BY <1>4 DEF Sdxstart
  <2> QED BY <1>6, <2>1 DEF CacheType, SameData
<1>8. Only(u, w, b) BY <1>2, <1>5, <1>6, OnlyTwice
<1>9. Only(u, t, b) /\ SameData(u, t) BY <1>3, <1>6, <1>7, <1>8 DEF Only, SameData
<1> QED BY <1>2, <1>3, <1>6, <1>7, <1>9 DEF Lost
----------------------------------------------------------------------------
(* Steps of the cache, as a caller sees them.                              *)

(* A step to cache state t that changes buffer b only, and leaves it clean. *)
Touches(t, b) == SetCache(t) /\ Only(Cache, t, b) /\ CleanAt(t, b)

(* The next cache state has the fields of what SetCache stores.            *)
LEMMA SetCacheFields ==
  ASSUME NEW t, SetCache(t)
  PROVE  /\ Cache'.flags = t.flags /\ Cache'.assoc = t.assoc /\ Cache'.actq = t.actq
         /\ Cache'.data = t.data /\ Cache'.disk = t.disk
         /\ flags' = t.flags /\ assoc' = t.assoc /\ data' = t.data /\ disk' = t.disk
BY DEF SetCache, Cache

(* The fields of the cache state are the variables.                        *)
LEMMA CacheFields ==
  /\ Cache.flags = flags /\ Cache.assoc = assoc /\ Cache.actq = actq
  /\ Cache.data = data /\ Cache.disk = disk
BY DEF Cache

(* Such a step keeps the others clean and changes the store at the block   *)
(* of b only.                                                              *)
LEMMA Touched ==
  ASSUME IInv, Clean, NEW b \in Bufs, NEW t, Touches(t, b)
  PROVE  /\ Clean'
         /\ \A x \in Blocks : x # assoc[b] => Store'[x] = Store[x]
         /\ assoc[b] \in Blocks => /\ Store[assoc[b]] = Content(Cache, b, assoc[b])
                                   /\ Store'[assoc[b]] = Content(t, b, assoc[b])
<1> DEFINE s == Cache
           u == Cache'
<1>1. /\ u.flags = t.flags /\ u.assoc = t.assoc /\ u.actq = t.actq
      /\ u.data = t.data /\ u.disk = t.disk
  BY SetCacheFields DEF Touches
<1>2. s.assoc = assoc /\ NoAliasIn(s) BY CacheFields DEF IInv, NoAlias, NoAliasIn
<1>3. Store = StoreIn(s) /\ Store' = StoreIn(u) BY StoreNow
<1>4. CleanIn(s) /\ (Clean' <=> CleanIn(u)) BY DEF Clean
<1> HIDE DEF s, u
<1>5. Only(s, u, b) /\ CleanAt(u, b) BY <1>1 DEF Touches, Only, CleanAt, s
<1>6. CleanIn(u) BY <1>2, <1>4, <1>5, CleanKept
<1>7. /\ \A x \in Blocks : x # s.assoc[b] => StoreIn(u)[x] = StoreIn(s)[x]
      /\ s.assoc[b] \in Blocks => /\ StoreIn(s)[s.assoc[b]] = Content(s, b, s.assoc[b])
                                  /\ StoreIn(u)[s.assoc[b]] = Content(u, b, s.assoc[b])
  BY <1>2, <1>5, StoreChanges
<1>8. Content(u, b, assoc[b]) = Content(t, b, assoc[b]) BY <1>1 DEF Content, Shows, ValidOf
<1> QED BY <1>2, <1>3, <1>4, <1>6, <1>7, <1>8 DEF s
SameSeen(t, b) == t.data[b] = data[b] /\ ("ERROR" \in t.flags[b] <=> "ERROR" \in flags[b])

(* Nobody but p moves, and no holder of b but p sees a difference.         *)
OthersStay(p, t, b) ==
  \A q \in Procs \ {p} :
    /\ pc'[q] = pc[q] /\ op'[q] = op[q] /\ blk'[q] = blk[q] /\ bp'[q] = bp[q]
    /\ pc[q] = "held" /\ bp[q] = b => SameSeen(t, b)

(* The others then see what they saw.                                      *)
LEMMA OthersSee ==
  ASSUME IInv, NEW p, NEW b \in Bufs, NEW t, Touches(t, b), OthersStay(p, t, b)
  PROVE  \A q \in Procs \ {p} : View'[q] = View[q]
<1> SUFFICES ASSUME NEW q \in Procs \ {p} PROVE View'[q] = View[q] OBVIOUS
<1>1. flags' = t.flags /\ data' = t.data BY SetCacheFields DEF Touches
<1>2. pc'[q] = pc[q] /\ op'[q] = op[q] /\ blk'[q] = blk[q] /\ bp'[q] = bp[q] BY DEF OthersStay
<1>3. CASE pc[q] # "held" BY <1>2, <1>3 DEF View
<1>4. CASE pc[q] = "held"
  <2>1. bp[q] \in Bufs BY <1>4 DEF IInv, TypeOK, LocalsOK
  <2>2. data'[bp[q]] = data[bp[q]] /\ ("ERROR" \in flags'[bp[q]] <=> "ERROR" \in flags[bp[q]])
    <3>1. CASE bp[q] = b BY <1>1, <1>4, <3>1 DEF OthersStay, SameSeen
    <3>2. CASE bp[q] # b BY <1>1, <2>1, <3>2, CacheFields DEF Touches, Only
    <3> QED BY <3>1, <3>2
  <2> QED BY <1>2, <2>2, Zenon DEF View
<1> QED BY <1>3, <1>4

(* Views of blocks, and who has a block.                                   *)
LEMMA HoldersSee ==
  ASSUME IInv, NEW q \in Procs, NEW x
  PROVE  /\ pc[q] # "held" => View[q] = Nil
         /\ View[q] # Nil => /\ pc[q] = "held" /\ bp[q] \in Bufs /\ assoc[bp[q]] = blk[q]
                             /\ blk[q] \in Blocks /\ "ERROR" \notin flags[bp[q]] /\ View[q][1] = blk[q]
         /\ pc[q] = "held" /\ op[q] # "geteblk" /\ "ERROR" \notin flags[bp[q]] => View[q] # Nil
<1>1. pc[q] = "held" => /\ bp[q] \in Bufs /\ assoc[bp[q]] = blk[q]
                        /\ op[q] # "geteblk" => blk[q] \in Blocks
  BY DEF IInv, TypeOK, LocalsOK, AssocOK
<1>2. pc[q] = "held" => data[bp[q]] \in Vals BY <1>1 DEF IInv, TypeOK
<1>3. View[q] = IF pc[q] = "held" /\ op[q] # "geteblk" /\ "ERROR" \notin flags[bp[q]]
                THEN <<blk[q], IF op[q] = "bread" THEN data[bp[q]] ELSE Nil>> ELSE Nil
  BY DEF View
<1>4. CASE pc[q] = "held" /\ op[q] # "geteblk" /\ "ERROR" \notin flags[bp[q]]
  <2> DEFINE c == IF op[q] = "bread" THEN data[bp[q]] ELSE Nil
  <2>1. c \in Vals \cup {Nil} /\ View[q] = <<blk[q], c>> BY <1>2, <1>3, <1>4
  <2> HIDE DEF c
  <2>2. View[q] \in Blocks \X (Vals \cup {Nil}) /\ View[q][1] = blk[q] BY <1>1, <1>4, <2>1
  <2> QED BY <1>1, <1>4, <2>2, ViewAssumption
<1>5. CASE ~(pc[q] = "held" /\ op[q] # "geteblk" /\ "ERROR" \notin flags[bp[q]])
  BY <1>3, <1>5
<1> QED BY <1>4, <1>5

(* A step that changes neither what a block holds nor what p sees.         *)
LEMMA QuietStep ==
  ASSUME IInv, Clean, NEW p, NEW b \in Bufs, NEW t, Touches(t, b), OthersStay(p, t, b),
         p \in Procs => pc[p] # "held" /\ pc'[p] # "held",
         assoc[b] \in Blocks => Content(t, b, assoc[b]) = Content(Cache, b, assoc[b])
  PROVE  Clean' /\ Abstract!BNext
<1>1. \A x \in Blocks : Store'[x] = Store[x] BY Touched
<1>2. Store' = Store BY <1>1 DEF Store
<1>3. \A q \in Procs : View'[q] = View[q]
  <2>1. p \in Procs => View'[p] = View[p] BY DEF View
  <2> QED BY <2>1, OthersSee
<1>4. View' = View BY <1>3 DEF View
<1> QED BY <1>2, <1>4, Touched DEF Abstract!BNext, Abstract!bvars

(* A step that loses what b holds, in the hands of nobody.                 *)
LEMMA LoseStep ==
  ASSUME IInv, IInv', Clean, NEW p, NEW b \in Bufs, NEW t, Touches(t, b), OthersStay(p, t, b),
         p \in Procs => pc[p] # "held" /\ pc'[p] # "held",
         \A q \in Procs : pc[q] = "held" => bp[q] # b,
         assoc[b] \in (IF "finish" \in Faults THEN Blocks ELSE BadBlocks)
  PROVE  Clean' /\ Abstract!BNext
<1> DEFINE x == assoc[b]
           v == Content(t, b, x)
<1>1. x \in Blocks BY BlocksAssumption
<1>2. Store'[x] = v /\ \A y \in Blocks : y # x => Store'[y] = Store[y] BY <1>1, Touched
<1>3. v \in Vals
  <2>1. data' = t.data /\ disk' = t.disk BY SetCacheFields DEF Touches
  <2>2. t.data \in [Bufs -> Vals] /\ t.disk \in [Blocks -> Vals] BY <2>1 DEF IInv, TypeOK
  <2> QED BY <1>1, <2>2 DEF Content
<1> HIDE DEF v
<1>4. Store' = [Store EXCEPT ![x] = v]
  <2>1. \A y \in Blocks : Store'[y] = IF y = x THEN v ELSE Store[y] BY <1>2
  <2> HIDE DEF x
  <2> QED BY <2>1 DEF Store
<1>5. \A q \in Procs : View'[q] = View[q]
  <2>1. p \in Procs => View'[p] = View[p] BY DEF View
  <2> QED BY <2>1, OthersSee
<1>6. View' = View BY <1>5 DEF View
<1>7. \A q \in Procs : ~Abstract!Has(q, x)
  <2> SUFFICES ASSUME NEW q \in Procs, View[q] # Nil, View[q][1] = x PROVE FALSE BY DEF Abstract!Has
  <2>1. pc[q] = "held" /\ bp[q] \in Bufs /\ assoc[bp[q]] = x BY HoldersSee
  <2>2. bp[q] = b BY <1>1, <2>1, BlocksAssumption DEF IInv, NoAlias
  <2> QED BY <2>1, <2>2
<1>8. Abstract!Lose(x, v) BY <1>4, <1>6, <1>7 DEF Abstract!Lose
<1> QED BY <1>1, <1>3, <1>8, Touched DEF Abstract!BNext

(* The holder's step: it gives the buffer back and leaves the store alone, *)
(* or what it has written becomes the contents of its block.               *)
LEMMA HolderStep ==
  ASSUME IInv, IInv', Clean, NEW p \in Procs, NEW t, pc[p] = "held", pc'[p] # "held",
         Touches(t, bp[p]), OthersStay(p, t, bp[p]),
         \/ assoc[bp[p]] \in Blocks =>
              Content(t, bp[p], assoc[bp[p]]) = Content(Cache, bp[p], assoc[bp[p]])
         \/ CanWrite(p)
  PROVE  Clean' /\ Abstract!BNext
<1> DEFINE b == bp[p]
           x == assoc[b]
           v == Content(t, b, x)
<1>1. b \in Bufs BY DEF IInv, TypeOK, LocalsOK
<1>2. \A q \in Procs \ {p} : View'[q] = View[q] BY <1>1, OthersSee
<1>3. View' = [View EXCEPT ![p] = Nil]
  <2>1. View'[p] = Nil BY DEF View
  <2> QED BY <1>2, <2>1 DEF View
<1>4. /\ Clean' /\ \A y \in Blocks : y # x => Store'[y] = Store[y]
      /\ x \in Blocks => Store[x] = Content(Cache, b, x) /\ Store'[x] = v
  BY <1>1, Touched
<1>5. CASE x \in Blocks => Content(t, b, x) = Content(Cache, b, x)
  <2>1. \A y \in Blocks : Store'[y] = Store[y] BY <1>4, <1>5
  <2>2. Store' = Store BY <2>1 DEF Store
  <2>3. CASE View[p] = Nil
    <3>1. View' = View BY <1>3, <2>3 DEF View
    <3> QED BY <1>4, <2>2, <3>1 DEF Abstract!BNext, Abstract!bvars
  <2>4. CASE View[p] # Nil
    <3>1. Abstract!GiveBack(p) BY <1>3, <2>2, <2>4 DEF Abstract!GiveBack
    <3> QED BY <1>4, <3>1 DEF Abstract!BNext
  <2> QED BY <2>3, <2>4
<1>6. CASE CanWrite(p)
  <2>1. x = blk[p] /\ x # NODEV /\ "ERROR" \notin flags[b] BY <1>6 DEF CanWrite, IInv, LocalsOK, AssocOK
  <2>2. op[p] # "geteblk" BY <2>1 DEF IInv, LocalsOK
  <2>3. x \in Blocks BY <1>1, <2>1 DEF IInv, TypeOK
  <2>4. v \in Vals
    <3>1. data' = t.data /\ disk' = t.disk BY SetCacheFields DEF Touches
    <3>2. t.data \in [Bufs -> Vals] /\ t.disk \in [Blocks -> Vals] BY <3>1 DEF IInv, TypeOK
    <3> QED BY <1>1, <2>3, <3>2 DEF Content
  <2> HIDE DEF v
  <2>5. Store' = [Store EXCEPT ![x] = v]
    <3>1. \A y \in Blocks : Store'[y] = IF y = x THEN v ELSE Store[y] BY <1>4
    <3> HIDE DEF x
    <3> QED BY <3>1 DEF Store
  <2>6. Abstract!Has(p, x) BY <2>1, <2>2, HoldersSee DEF Abstract!Has
  <2>7. Abstract!Put(p, x, v) BY <1>3, <2>5, <2>6 DEF Abstract!Put
  <2> QED BY <1>4, <2>3, <2>4, <2>7 DEF Abstract!BNext
<1> QED BY <1>5, <1>6
(* A step that leaves the cache alone touches no buffer.                   *)
LEMMA Untouched ==
  ASSUME Clean, UNCHANGED cvars, NEW b \in Bufs
  PROVE  Touches(Cache, b)
<1>1. SetCache(Cache) BY DEF cvars, SetCache, Cache
<1> QED BY <1>1 DEF Touches, Only, Clean, CleanIn

(* Only p moves.                                                           *)
Moves(p) ==
  \A q \in Procs \ {p} : pc'[q] = pc[q] /\ op'[q] = op[q] /\ blk'[q] = blk[q] /\ bp'[q] = bp[q]

(* Nobody but p can be the holder of b.                                    *)
Alone(p, b) == "BUSY" \notin flags[b] \/ b \in ToSet(actq) \/ (p \in Procs /\ Owns(p, b))

(* If nobody but p can hold b, a step of p on b is seen by nobody else.    *)
LEMMA AloneStay ==
  ASSUME IInv, NEW p, NEW b \in Bufs, NEW t, Moves(p), Alone(p, b)
  PROVE  /\ OthersStay(p, t, b)
         /\ \A q \in Procs \ {p} : pc[q] = "held" => bp[q] # b
<1>1. ASSUME NEW q \in Procs \ {p}, pc[q] = "held", bp[q] = b PROVE FALSE
  <2>1. Owns(q, b) /\ b \notin ToSet(actq) BY <1>1 DEF Owns, IInv, LocalsOK
  <2> QED BY <1>1, <2>1 DEF Alone, IInv, Accounted
<1> QED BY <1>1 DEF OthersStay, Moves

(* A step that leaves the cache alone, outside the callers' own code.      *)
LEMMA PlainStep ==
  ASSUME IInv, Clean, NEW p \in Procs, UNCHANGED cvars, Moves(p), pc[p] # "held", pc'[p] # "held"
  PROVE  Clean' /\ Abstract!BNext
<1>1. 1 \in Bufs BY BufsAssumption DEF Bufs
<1>2. Touches(Cache, 1) BY <1>1, Untouched
<1>3. OthersStay(p, Cache, 1) BY CacheFields DEF Moves, OthersStay, SameSeen
<1> QED BY <1>1, <1>2, <1>3, QuietStep

(* The return of a buffer: the caller is given its block.                  *)
LEMMA AcquireStep ==
  ASSUME IInv, Clean, NEW p \in Procs, NEW b \in Bufs, UNCHANGED cvars, Moves(p),
         pc[p] \in {"got", "iowait"}, Owns(p, b), assoc[b] = blk[p],
         op[p] = "bread" => "DONE" \in flags[b],
         pc'[p] = "held", bp'[p] = b, op'[p] = op[p], blk'[p] = blk[p]
  PROVE  Clean' /\ Abstract!BNext
<1>1. Touches(Cache, b) /\ OthersStay(p, Cache, b) BY Untouched, AloneStay DEF Alone
<1>2. /\ Clean' /\ \A y \in Blocks : y # assoc[b] => Store'[y] = Store[y]
      /\ assoc[b] \in Blocks => /\ Store[assoc[b]] = Content(Cache, b, assoc[b])
                                /\ Store'[assoc[b]] = Content(Cache, b, assoc[b])
  BY <1>1, Touched
<1>3. Store' = Store
  <2>1. \A y \in Blocks : Store'[y] = Store[y] BY <1>2
  <2> QED BY <2>1 DEF Store
<1>4. \A q \in Procs \ {p} : View'[q] = View[q] BY <1>1, OthersSee
<1>5. View[p] = Nil BY HoldersSee
<1>6. flags' = flags /\ data' = data BY DEF cvars
<1>7. View'[p] = IF op[p] # "geteblk" /\ "ERROR" \notin flags[b]
                 THEN <<blk[p], IF op[p] = "bread" THEN data[b] ELSE Nil>> ELSE Nil
  BY <1>6 DEF View
<1>8. CASE op[p] # "geteblk" /\ "ERROR" \notin flags[b]
  <2> DEFINE x == blk[p]
             c == IF op[p] = "bread" THEN data[b] ELSE Nil
  <2>1. x \in Blocks BY <1>8 DEF IInv, LocalsOK
  <2>2. op[p] = "bread" => Store[x] = data[b]
    BY <1>2, <1>8, <2>1, CacheFields DEF Content, Shows, ValidOf
  <2>3. c \in {Store[x], Nil} /\ c \in Vals \cup {Nil} BY <2>2 DEF IInv, TypeOK
  <2>4. View' = [View EXCEPT ![p] = <<x, c>>] BY <1>4, <1>7, <1>8 DEF View
  <2>5. \A q \in Procs : ~Abstract!Has(q, x)
    <3> SUFFICES ASSUME NEW q \in Procs, View[q] # Nil, View[q][1] = x PROVE FALSE BY DEF Abstract!Has
    <3>1. pc[q] = "held" /\ bp[q] \in Bufs /\ assoc[bp[q]] = x BY HoldersSee
    <3>2. bp[q] = b BY <2>1, <3>1, BlocksAssumption DEF IInv, NoAlias
    <3>3. q = p BY <3>2 DEF IInv, Accounted, Owns
    <3> QED BY <3>1, <3>3
  <2> HIDE DEF x, c
  <2>6. Abstract!Acquire(p, x, c) BY <1>3, <1>5, <2>3, <2>4, <2>5 DEF Abstract!Acquire
  <2> QED BY <1>2, <2>1, <2>3, <2>6 DEF Abstract!BNext, x
<1>9. CASE ~(op[p] # "geteblk" /\ "ERROR" \notin flags[b])
  <2>1. \A q \in Procs : View'[q] = View[q] BY <1>4, <1>5, <1>7, <1>9
  <2>2. View' = View BY <2>1 DEF View
  <2> QED BY <1>2, <1>3, <2>2 DEF Abstract!BNext, Abstract!bvars
<1> QED BY <1>8, <1>9
----------------------------------------------------------------------------
(* What the routines do to the buffer they are called for.                 *)

(* The store at the block of b is as it was.                               *)
SameContent(t, b) ==
  assoc[b] \in Blocks => Content(t, b, assoc[b]) = Content(Cache, b, assoc[b])

(* Changes of B_WANTED, B_BUSY, B_ASYNC and B_AGE.                         *)
LEMMA FlagsTouch ==
  ASSUME TypeOK, Clean, NEW b \in Bufs, NEW F, NEW t, SetCache(t),
         t.flags = [flags EXCEPT ![b] = F], t.assoc = assoc, t.actq = actq,
         t.data = data, t.disk = disk,
         \A f \in {"READ", "DONE", "ERROR", "DELWRI"} : f \in F <=> f \in flags[b]
  PROVE  Touches(t, b) /\ SameContent(t, b) /\ SameSeen(t, b)
<1>1. /\ t.flags[b] = F /\ \A c \in Bufs \ {b} : t.flags[c] = flags[c] BY DEF TypeOK
<1>2. Only(Cache, t, b) BY <1>1, CacheFields DEF Only
<1>3. CleanAt(Cache, b) BY DEF Clean, CleanIn
<1>4. CleanAt(t, b) BY <1>1, <1>3, CacheFields DEF CleanAt
<1>5. SameContent(t, b) BY <1>1, CacheFields DEF SameContent, Content, Shows, ValidOf
<1> QED BY <1>1, <1>2, <1>4, <1>5 DEF Touches, SameSeen

(* brelse: a buffer with an error did not show its block to begin with.    *)
LEMMA BrelseTouch ==
  ASSUME TypeOK, Clean, NEW b \in Bufs, NEW t, t = Brelse(Cache, b), SetCache(t)
  PROVE  Touches(t, b) /\ SameContent(t, b)
<1>1. Cache \in CacheType BY TypeSplit
<1>2. Released(Cache, t, b) BY <1>1, BrelseReleases
<1>3. t \in CacheType BY <1>2 DEF Released
<1>4. /\ Only(Cache, t, b) /\ SameData(Cache, t) /\ t.actq = Cache.actq
      /\ t.flags[b] = Cache.flags[b] \ {"WANTED", "BUSY", "ASYNC", "AGE"}
      /\ t.assoc[b] = IF "ERROR" \in Cache.flags[b] THEN NODEV ELSE Cache.assoc[b]
  BY <1>1, <1>2, <1>3, ReleasedOnly
<1>5. CleanAt(Cache, b) BY DEF Clean, CleanIn
<1>6. CleanAt(t, b) BY <1>4, <1>5, BlocksAssumption DEF CleanAt, SameData
<1>7. SameContent(t, b)
  BY <1>4, CacheFields, BlocksAssumption DEF SameContent, Content, Shows, ValidOf, SameData
<1> QED BY <1>4, <1>6, <1>7 DEF Touches

(* The start of a read into a buffer that holds nothing yet.               *)
LEMMA ReadTouch ==
  ASSUME TypeOK, Clean, NEW b \in Bufs, NEW on \in SUBSET Flag, "READ" \in on, "DONE" \notin on,
         "DONE" \notin flags[b], b \notin ToSet(actq),
         NEW t, t = Sdxstrategy(SetF(Cache, b, on, {}), b), SetCache(t)
  PROVE  Touches(t, b) /\ SameContent(t, b)
<1> DEFINE u == SetF(Cache, b, on, {})
<1>1. Cache \in CacheType BY TypeSplit
<1>2. /\ u \in CacheType /\ u.flags = [Cache.flags EXCEPT ![b] = (@ \cup on) \ {}]
      /\ u.assoc = Cache.assoc /\ u.actq = Cache.actq /\ SameData(Cache, u)
  BY <1>1, SetFFields
<1>3. t = Sdxstrategy(u, b) OBVIOUS
<1> HIDE DEF u
<1>4. Only(Cache, u, b) /\ u.flags[b] = (Cache.flags[b] \cup on) \ {}
  <2>1. u.flags = [Cache.flags EXCEPT ![b] = (Cache.flags[b] \cup on) \ {}] BY <1>2
  <2> QED BY <1>1, <1>2, <2>1, FlagsOnly
<1>5. /\ Only(u, t, b) /\ SameData(u, t) /\ t \in CacheType
      /\ u.assoc[b] \notin BadBlocks =>
           t.flags[b] = u.flags[b] /\ t.assoc[b] = u.assoc[b] /\ b \in ToSet(t.actq)
      /\ u.assoc[b] \in BadBlocks => Lost(t, b)
  BY <1>2, <1>3, StrategyOnly
<1>6. Only(Cache, t, b) BY <1>4, <1>5, OnlyTwice
<1>7. Lost(t, b) \/ ("READ" \in t.flags[b] /\ "DONE" \notin t.flags[b])
  BY <1>4, <1>5, CacheFields
<1>8. CleanAt(t, b) BY <1>7, BlocksAssumption DEF CleanAt, Lost
<1>9. \A x \in Blocks : ~Shows(t, b, x) /\ ~Shows(Cache, b, x)
  BY <1>7, CacheFields, BlocksAssumption DEF Shows, ValidOf, Lost
<1>10. t.disk = Cache.disk BY <1>2, <1>5 DEF SameData
<1>11. SameContent(t, b) BY <1>9, <1>10 DEF SameContent, Content
<1> QED BY <1>6, <1>8, <1>11 DEF Touches

(* The start of a write of what b holds in cache state s.                  *)
LEMMA WriteTouch ==
  ASSUME NEW b \in Bufs, NEW s \in CacheType, Only(Cache, s, b), s.disk = disk, s.assoc = assoc,
         NEW t, t = BwriteStart(s, b)
  PROVE  /\ Only(Cache, t, b) /\ CleanAt(t, b) /\ t \in CacheType
         /\ assoc[b] \in Blocks \ BadBlocks => Content(t, b, assoc[b]) = s.data[b]
<1>1. Sent(s, t, b) BY BwriteSends
<1>2. Only(Cache, t, b) BY <1>1, OnlyTwice DEF Sent
<1>3. CleanAt(t, b) BY <1>1, BlocksAssumption DEF CleanAt, Sent, Lost
<1> QED BY <1>1, <1>2, <1>3 DEF Sent, Content, Shows, SameData

(* The start of an asynchronous write of a delayed buffer that nobody has. *)
LEMMA DelayedStep ==
  ASSUME IInv, IInv', Clean, NEW p \in Procs, NEW b \in ToSet(free), "DELWRI" \in flags[b],
         NEW t, Touches(t, b),
         assoc[b] \in Blocks \ BadBlocks => Content(t, b, assoc[b]) = data[b],
         Moves(p), pc[p] # "held", pc'[p] # "held"
  PROVE  Clean' /\ Abstract!BNext
<1>1. b \in Bufs /\ "BUSY" \notin flags[b]
  <2>1. b \in Bufs BY MembersType DEF IInv, TypeOK
  <2> QED BY <2>1 DEF IInv, BusyIffNotAvailable
<1>2. assoc[b] \in Blocks /\ "DONE" \in flags[b] /\ "ERROR" \notin flags[b] BY <1>1 DEF IInv, AssocOK
<1>3. OthersStay(p, t, b) /\ \A q \in Procs \ {p} : pc[q] = "held" => bp[q] # b
  BY <1>1, AloneStay DEF Alone
<1>4. Content(Cache, b, assoc[b]) = data[b] BY <1>2, CacheFields DEF Content, Shows, ValidOf
<1>5. CASE assoc[b] \notin BadBlocks BY <1>1, <1>2, <1>3, <1>4, <1>5, QuietStep
<1>6. CASE assoc[b] \in BadBlocks BY <1>1, <1>2, <1>3, <1>6, LoseStep
<1> QED BY <1>5, <1>6

----------------------------------------------------------------------------
(* The actions, one by one: each changes the store and the views the way   *)
(* BlockStore allows.                                                      *)

(* What an action makes of the abstract state.                             *)
Implements == Clean' /\ Abstract!BNext

(* Calls leave the cache alone.                                            *)
LEMMA CallImplements ==
  ASSUME IInv, Clean, NEW p \in Procs, Calls(p)
  PROVE  Implements
<1>1. TypeOK BY DEF IInv
<1>2. UNCHANGED cvars /\ pc[p] = "idle"
  BY DEF Calls, Getblk, Bread, Geteblk, Call, Breada, BflushCall, Runs
<1>3. /\ \E l \in {"getblk", "ra", "bflush"} : pc' = [pc EXCEPT ![p] = l]
      /\ (\E o \in Op : op' = [op EXCEPT ![p] = o]) \/ op' = op
      /\ (\E x : blk' = [blk EXCEPT ![p] = x]) \/ blk' = blk
      /\ bp' = bp
  <2>1. ASSUME NEW o \in {"getblk", "bread", "geteblk"}, NEW x, Call(p, o, x)
        PROVE  /\ pc' = [pc EXCEPT ![p] = "getblk"] /\ op' = [op EXCEPT ![p] = o]
               /\ blk' = [blk EXCEPT ![p] = x] /\ bp' = bp
    BY <2>1 DEF Call, Goto
  <2>2. CASE \E x \in Blocks : Getblk(p, x) \/ Bread(p, x) BY <2>1, <2>2 DEF Getblk, Bread, Op
  <2>3. CASE Geteblk(p) BY <2>1, <2>3 DEF Geteblk, Op
  <2>4. CASE \E x \in Blocks, r \in Blocks \cup {Nil} : Breada(p, x, r) BY <2>4 DEF Breada, Goto, Op
  <2>5. CASE BflushCall(p) BY <2>5 DEF BflushCall, Goto
  <2> QED BY <2>2, <2>3, <2>4, <2>5 DEF Calls
<1>4. Moves(p) /\ pc'[p] # "held" BY <1>1, <1>3 DEF TypeOK, Moves
<1> QED BY <1>2, <1>4, PlainStep DEF Implements

(* The search of the device list, the decision to read ahead, the end of   *)
(* bflush.                                                                 *)
LEMMA SearchImplements ==
  ASSUME IInv, Clean, NEW p \in Procs, GetblkSearch(p) \/ ReadAhead(p) \/ BflushEnd(p)
  PROVE  Implements
<1>1. TypeOK BY DEF IInv
<1>2. UNCHANGED cvars /\ pc[p] # "held" BY DEF GetblkSearch, ReadAhead, BflushEnd, Runs
<1>3. Moves(p) /\ pc'[p] # "held"
  <2>1. CASE GetblkSearch(p) BY <1>1, <2>1 DEF GetblkSearch, Goto, TypeOK, Moves
  <2>2. CASE ReadAhead(p) BY <1>1, <2>2 DEF ReadAhead, BreadaEnd, Goto, TypeOK, Moves
  <2>3. CASE BflushEnd(p) BY <1>1, <2>3 DEF BflushEnd, Return, Goto, TypeOK, Moves
  <2> QED BY <2>1, <2>2, <2>3
<1> QED BY <1>2, <1>3, PlainStep DEF Implements

(* The returns of getblk and bread: the caller is given the block.         *)
LEMMA GotHeldImplements ==
  ASSUME IInv, Clean, NEW p \in Procs, GotHeld(p)
  PROVE  Implements
<1>1. TypeOK BY DEF IInv
<1>2. /\ UNCHANGED cvars /\ pc[p] = "got" /\ tgt[p] \in Bufs /\ Owns(p, tgt[p])
      /\ op[p] # "ahead" /\ (op[p] = "bread" => "DONE" \in flags[tgt[p]])
  BY DEF GotHeld, Runs, IInv, TypeOK, LocalsOK, Owns
<1>3. assoc[tgt[p]] = blk[p] BY <1>2, BufsAssumption DEF IInv, AssocOK, Arg
<1>4. Moves(p) /\ pc'[p] = "held" /\ bp'[p] = tgt[p] /\ op'[p] = op[p] /\ blk'[p] = blk[p]
  BY <1>1 DEF GotHeld, Hold, Goto, Moves, TypeOK
<1> QED BY <1>2, <1>3, <1>4, AcquireStep DEF Implements

(* bread returns after the wait for its transfer.                          *)
LEMMA IowaitReadImplements ==
  ASSUME IInv, Clean, NEW p \in Procs, IowaitRead(p)
  PROVE  Implements
<1>1. TypeOK BY DEF IInv
<1>2. /\ UNCHANGED cvars /\ pc[p] = "iowait" /\ bp[p] \in Bufs /\ Owns(p, bp[p])
      /\ "DONE" \in flags[bp[p]] /\ assoc[bp[p]] = blk[p]
  BY DEF IowaitRead, Runs, IInv, TypeOK, LocalsOK, AssocOK, Owns
<1>3. Moves(p) /\ pc'[p] = "held" /\ bp'[p] = bp[p] /\ op'[p] = op[p] /\ blk'[p] = blk[p]
  BY <1>1 DEF IowaitRead, Hold, Goto, Moves, TypeOK
<1> QED BY <1>2, <1>3, AcquireStep DEF Implements

(* The sleeps of getblk and iowait.                                        *)
LEMMA SleepImplements ==
  ASSUME IInv, Clean, NEW p \in Procs, GetblkBusy(p) \/ GetblkNone(p) \/ IowaitSleep(p)
  PROVE  Implements
<1>1. TypeOK /\ Cache \in CacheType BY TypeSplit DEF IInv
<1>2. pc[p] \in {"take", "iowait"} BY DEF GetblkBusy, GetblkNone, IowaitSleep, Runs
<1>3. Moves(p) /\ pc'[p] # "held"
  BY <1>1, <1>2 DEF GetblkBusy, GetblkNone, IowaitSleep, SleepOn, Goto, Moves, TypeOK
<1>4. \E b \in Bufs : \E t : Touches(t, b) /\ SameContent(t, b) /\ SameSeen(t, b)
  <2>1. CASE GetblkBusy(p)
    <3> DEFINE b == tgt[p]
               u == SetF(Cache, b, {"WANTED"}, {})
               t == [u EXCEPT !.wchan[p] = b]
    <3>1. b \in Bufs /\ SetCache(t) BY <1>1, <2>1 DEF GetblkBusy, SleepOn, TypeOK
    <3>2. /\ u \in CacheType /\ u.flags = [flags EXCEPT ![b] = (@ \cup {"WANTED"}) \ {}]
          /\ u.assoc = assoc /\ u.actq = actq /\ u.data = data /\ u.disk = disk
      BY <1>1, <3>1, SetFFields, CacheFields DEF Flag, SameData
    <3> HIDE DEF u
    <3>3. /\ t.flags = u.flags /\ t.assoc = u.assoc /\ t.actq = u.actq
          /\ t.data = u.data /\ t.disk = u.disk
      BY <3>2 DEF CacheType
    <3> HIDE DEF t
    <3>4. t.flags = [flags EXCEPT ![b] = (flags[b] \cup {"WANTED"}) \ {}] BY <3>2, <3>3
    <3>5. Touches(t, b) /\ SameContent(t, b) /\ SameSeen(t, b)
      BY <1>1, <3>1, <3>2, <3>3, <3>4, FlagsTouch
    <3> QED BY <3>1, <3>5
  <2>2. CASE GetblkNone(p) \/ IowaitSleep(p)
    <3>1. /\ flags' = flags /\ assoc' = assoc /\ actq' = actq /\ data' = data /\ disk' = disk
      BY <2>2 DEF GetblkNone, IowaitSleep, SleepOn, SetCache, Cache
    <3>2. 1 \in Bufs BY BufsAssumption DEF Bufs
    <3>3. SetCache(Cache') BY DEF SetCache, Cache
    <3>4. /\ Cache'.flags = flags /\ Cache'.assoc = assoc /\ Cache'.actq = actq
          /\ Cache'.data = data /\ Cache'.disk = disk
      BY <3>1 DEF Cache
    <3>5. flags = [flags EXCEPT ![1] = flags[1]] BY <1>1, <3>2 DEF TypeOK
    <3> DEFINE t == Cache'
    <3> HIDE DEF t
    <3>6. /\ t.flags = [flags EXCEPT ![1] = flags[1]] /\ t.assoc = assoc /\ t.actq = actq
          /\ t.data = data /\ t.disk = disk /\ SetCache(t)
      BY <3>3, <3>4, <3>5 DEF t
    <3>7. Touches(t, 1) /\ SameContent(t, 1) /\ SameSeen(t, 1) BY <1>1, <3>2, <3>6, FlagsTouch
    <3> QED BY <3>2, <3>7
  <2> QED BY <2>1, <2>2
<1>5. PICK b \in Bufs : \E t : Touches(t, b) /\ SameContent(t, b) /\ SameSeen(t, b) BY <1>4
<1>6. PICK t : Touches(t, b) /\ SameContent(t, b) /\ SameSeen(t, b) BY <1>5
<1>7. OthersStay(p, t, b) BY <1>3, <1>6 DEF OthersStay, Moves
<1> QED BY <1>2, <1>3, <1>6, <1>7, QuietStep DEF Implements, SameContent
(* getblk takes the available buffer that it has found.                    *)
LEMMA FoundImplements ==
  ASSUME IInv, Clean, NEW p \in Procs, GetblkFound(p)
  PROVE  Implements
<1> DEFINE b == tgt[p]
           t == Notavail(Cache, b)
<1>1. TypeOK /\ Cache \in CacheType BY TypeSplit DEF IInv
<1>2. /\ b \in Bufs /\ "BUSY" \notin flags[b] /\ SetCache(t) /\ pc[p] = "take"
      /\ b \in ToSet(free) /\ IsInjective(free)
  BY <1>1 DEF GetblkFound, Runs, TypeOK, IInv, BusyIffNotAvailable
<1>3. Cache.free = free BY DEF Cache
<1>4. /\ t.flags = [flags EXCEPT ![b] = @ \cup {"BUSY"}] /\ t.assoc = assoc
      /\ t.actq = actq /\ t.data = data /\ t.disk = disk
  BY <1>1, <1>2, <1>3, NotavailFields, CacheFields DEF SameData
<1> HIDE DEF t
<1>5. t.flags = [flags EXCEPT ![b] = flags[b] \cup {"BUSY"}] BY <1>4
<1>6. Touches(t, b) /\ SameContent(t, b) BY <1>1, <1>2, <1>4, <1>5, FlagsTouch
<1>7. Moves(p) /\ pc'[p] # "held" BY <1>1 DEF GetblkFound, Goto, Moves, TypeOK
<1>8. OthersStay(p, t, b) BY <1>2, <1>7, AloneStay DEF Alone
<1> QED BY <1>2, <1>6, <1>7, <1>8, QuietStep DEF Implements, SameContent

(* bwrite marks the buffer of a delayed write as old.                      *)
LEMMA SetAgeImplements ==
  ASSUME IInv, Clean, NEW p \in Procs, SetAge(p)
  PROVE  Implements
<1> DEFINE b == tgt[p]
           t == SetF(Cache, b, {"AGE"}, {})
<1>1. TypeOK /\ Cache \in CacheType BY TypeSplit DEF IInv
<1>2. b \in Bufs /\ SetCache(t) /\ pc[p] = "age" BY <1>1 DEF SetAge, Runs, TypeOK, IInv, LocalsOK
<1>3. /\ t.flags = [flags EXCEPT ![b] = (@ \cup {"AGE"}) \ {}] /\ t.assoc = assoc
      /\ t.actq = actq /\ t.data = data /\ t.disk = disk
  BY <1>1, <1>2, SetFFields, CacheFields DEF SameData, Flag
<1> HIDE DEF t
<1>4. t.flags = [flags EXCEPT ![b] = (flags[b] \cup {"AGE"}) \ {}] BY <1>3
<1>5. Touches(t, b) /\ SameContent(t, b) /\ SameSeen(t, b) BY <1>1, <1>2, <1>3, <1>4, FlagsTouch
<1>6. Moves(p) /\ pc'[p] # "held"
  BY <1>1 DEF SetAge, AfterAge, Return, Goto, Moves, TypeOK
<1>7. OthersStay(p, t, b) BY <1>5, <1>6 DEF OthersStay, Moves
<1> QED BY <1>2, <1>5, <1>6, <1>7, QuietStep DEF Implements, SameContent

(* What bread, breada and the read-ahead do with the buffer from getblk:   *)
(* they start a read of a block the buffer does not hold.                  *)
LEMMA ReadImplements ==
  ASSUME IInv, Clean, NEW p \in Procs, pc[p] = "got", "DONE" \notin flags[tgt[p]],
         NEW on \in SUBSET Flag, "READ" \in on, "DONE" \notin on,
         SetCache(Sdxstrategy(SetF(Cache, tgt[p], on, {}), tgt[p])), Moves(p), pc'[p] # "held"
  PROVE  Implements
<1> DEFINE b == tgt[p]
           t == Sdxstrategy(SetF(Cache, b, on, {}), b)
<1>1. TypeOK BY DEF IInv
<1>2. b \in Bufs /\ b \notin ToSet(actq) /\ Owns(p, b) BY <1>1 DEF TypeOK, IInv, LocalsOK, Owns
<1>3. SetCache(t) /\ t = Sdxstrategy(SetF(Cache, b, on, {}), b) OBVIOUS
<1> HIDE DEF t
<1>4. Touches(t, b) /\ SameContent(t, b) BY <1>1, <1>2, <1>3, ReadTouch
<1>5. OthersStay(p, t, b) BY <1>2, AloneStay DEF Alone
<1> QED BY <1>2, <1>4, <1>5, QuietStep DEF Implements, SameContent

(* bread and breada read their block unless the buffer has it.             *)
LEMMA GotBreadImplements ==
  ASSUME IInv, Clean, NEW p \in Procs, GotBread(p) \/ GotBreada(p)
  PROVE  Implements
<1>1. TypeOK BY DEF IInv
<1>2. pc[p] = "got" BY DEF GotBread, GotBreada, Runs
<1>3. Moves(p) /\ pc'[p] # "held" BY <1>1 DEF GotBread, GotBreada, Goto, Moves, TypeOK
<1>4. CASE "DONE" \in flags[tgt[p]]
  <2>1. UNCHANGED cvars BY <1>4 DEF GotBread, GotBreada, SetCache, Cache, cvars
  <2> QED BY <1>2, <1>3, <2>1, PlainStep DEF Implements
<1>5. CASE "DONE" \notin flags[tgt[p]]
  <2>1. SetCache(Sdxstrategy(SetF(Cache, tgt[p], {"READ"}, {}), tgt[p]))
    BY <1>5 DEF GotBread, GotBreada
  <2>2. {"READ"} \in SUBSET Flag BY DEF Flag
  <2> QED BY <1>2, <1>3, <1>5, <2>1, <2>2, ReadImplements
<1> QED BY <1>4, <1>5

(* The read-ahead reads its block, or releases a buffer that has it.       *)
LEMMA GotAheadImplements ==
  ASSUME IInv, Clean, NEW p \in Procs, GotAhead(p)
  PROVE  Implements
<1>1. TypeOK BY DEF IInv
<1>2. pc[p] = "got" BY DEF GotAhead, Runs
<1>3. Moves(p) /\ pc'[p] # "held" BY <1>1 DEF GotAhead, BreadaEnd, Goto, Moves, TypeOK
<1>4. CASE "DONE" \in flags[tgt[p]]
  <2> DEFINE b == tgt[p]
             t == Brelse(Cache, b)
  <2>1. b \in Bufs /\ Owns(p, b) BY <1>1, <1>2 DEF TypeOK, IInv, LocalsOK, Owns
  <2>2. SetCache(t) /\ t = Brelse(Cache, b) BY <1>4 DEF GotAhead
  <2> HIDE DEF t
  <2>3. Touches(t, b) /\ SameContent(t, b) BY <1>1, <2>1, <2>2, BrelseTouch
  <2>4. OthersStay(p, t, b) BY <1>3, <2>1, AloneStay DEF Alone
  <2> QED BY <1>2, <1>3, <2>1, <2>3, <2>4, QuietStep DEF Implements, SameContent
<1>5. CASE "DONE" \notin flags[tgt[p]]
  <2>1. SetCache(Sdxstrategy(SetF(Cache, tgt[p], {"READ", "ASYNC"}, {}), tgt[p]))
    BY <1>5 DEF GotAhead
  <2>2. {"READ", "ASYNC"} \in SUBSET Flag BY DEF Flag
  <2> QED BY <1>2, <1>3, <1>5, <2>1, <2>2, ReadImplements
<1> QED BY <1>4, <1>5

(* brelse at the end of a write, and by the holder.                        *)
LEMMA ReleaseImplements ==
  ASSUME IInv, IInv', Clean, NEW p \in Procs, Release(p) \/ IowaitWrite(p)
  PROVE  Implements
<1> DEFINE b == bp[p]
           t == Brelse(Cache, b)
<1>1. TypeOK BY DEF IInv
<1>2. b \in Bufs /\ Owns(p, b) /\ pc[p] \in {"held", "iowait"}
  BY <1>1 DEF Release, IowaitWrite, Runs, TypeOK, IInv, LocalsOK, Owns
<1>3. SetCache(t) /\ t = Brelse(Cache, b) BY DEF Release, IowaitWrite
<1>4. Moves(p) /\ pc'[p] # "held"
  <2>1. Return(p) BY DEF Release, IowaitWrite
  <2> QED BY <1>1, <2>1 DEF Return, Goto, Moves, TypeOK
<1> HIDE DEF t
<1>5. Touches(t, b) /\ SameContent(t, b) BY <1>1, <1>2, <1>3, BrelseTouch
<1>6. OthersStay(p, t, b) BY <1>2, <1>4, AloneStay DEF Alone
<1>7. CASE pc[p] = "held" BY <1>4, <1>5, <1>6, <1>7, HolderStep DEF Implements, SameContent
<1>8. CASE pc[p] # "held" BY <1>2, <1>4, <1>5, <1>6, <1>8, QuietStep DEF Implements, SameContent
<1> QED BY <1>7, <1>8
(* The holder changes the contents of its buffer and of no other.          *)
LEMMA ModifiedOnly ==
  ASSUME IInv, NEW p \in Procs, bp[p] \in Bufs, NEW v \in Vals
  PROVE  Only(Cache, Modified(p, v), bp[p]) /\ Modified(p, v).disk = disk
<1>1. Cache \in CacheType BY TypeSplit DEF IInv
<1> QED BY <1>1, CacheFields DEF Only, Modified, CacheType

(* A write by the holder, delayed.                                         *)
LEMMA BdwriteImplements ==
  ASSUME IInv, IInv', Clean, NEW p \in Procs, NEW v \in Vals, Bdwrite(p, v)
  PROVE  Implements
<1> DEFINE b == bp[p]
           m == Modified(p, v)
           d == SetF(m, b, {"DELWRI", "DONE"}, {})
           t == Brelse(d, b)
<1>1. TypeOK BY DEF IInv
<1>2. Runs(p, "held") /\ CanWrite(p) /\ SetCache(t) /\ Return(p) BY DEF Bdwrite
<1>3. b \in Bufs /\ Owns(p, b) /\ m \in CacheType /\ m.flags = flags /\ m.assoc = assoc
  BY <1>2, HeldBuffer
<1>4. Only(Cache, m, b) BY <1>3, ModifiedOnly
<1> HIDE DEF m
<1>5. /\ d \in CacheType /\ d.flags = [m.flags EXCEPT ![b] = (@ \cup {"DELWRI", "DONE"}) \ {}]
      /\ d.assoc = m.assoc /\ d.actq = m.actq /\ SameData(m, d)
  BY <1>3, SetFFields DEF Flag
<1> HIDE DEF d
<1>6. Only(m, d, b) /\ d.flags[b] = (m.flags[b] \cup {"DELWRI", "DONE"}) \ {}
  <2>1. d.flags = [m.flags EXCEPT ![b] = (m.flags[b] \cup {"DELWRI", "DONE"}) \ {}] BY <1>5
  <2> QED BY <1>3, <1>5, <2>1, FlagsOnly
<1>7. Released(d, t, b) BY <1>3, <1>5, BrelseReleases
<1> HIDE DEF t
<1>8. t \in CacheType BY <1>7 DEF Released
<1>9. Only(d, t, b) /\ t.flags[b] = d.flags[b] \ {"WANTED", "BUSY", "ASYNC", "AGE"}
  <2>1. d \in CacheType BY <1>5
  <2> QED BY <1>3, <1>7, <1>8, <2>1, ReleasedOnly
<1>10. Only(Cache, d, b) BY <1>3, <1>4, <1>6, OnlyTwice
<1>11. Only(Cache, t, b) BY <1>3, <1>9, <1>10, OnlyTwice
<1>12. CleanAt(t, b) BY <1>6, <1>9 DEF CleanAt
<1>13. Touches(t, b) BY <1>2, <1>11, <1>12 DEF Touches
<1>14. Moves(p) /\ pc'[p] # "held" BY <1>1, <1>2 DEF Return, Goto, Moves, TypeOK
<1>15. OthersStay(p, t, b) BY <1>3, <1>14, AloneStay DEF Alone
<1>16. pc[p] = "held" BY <1>2 DEF Runs
<1> QED BY <1>2, <1>13, <1>14, <1>15, <1>16, HolderStep DEF Implements

(* A write by the holder, sent to the driver.                              *)
LEMMA BwriteImplements ==
  ASSUME IInv, IInv', Clean, NEW p \in Procs, NEW v \in Vals, Bwrite(p, v) \/ Bawrite(p, v)
  PROVE  Implements
<1> DEFINE b == bp[p]
           m == Modified(p, v)
           n == SetF(m, b, {"ASYNC"}, {})
<1>1. TypeOK BY DEF IInv
<1>2. Runs(p, "held") /\ CanWrite(p) /\ pc[p] = "held" BY DEF Bwrite, Bawrite, Runs
<1>3. b \in Bufs /\ Owns(p, b) /\ m \in CacheType /\ m.flags = flags /\ m.assoc = assoc
  BY <1>2, HeldBuffer
<1>4. Only(Cache, m, b) /\ m.disk = disk BY <1>3, ModifiedOnly
<1>5. Moves(p) /\ pc'[p] # "held"
  BY <1>1 DEF Bwrite, Bawrite, Return, Goto, Moves, TypeOK
<1>6. \E s \in CacheType : /\ Only(Cache, s, b) /\ s.disk = disk /\ s.assoc = assoc
                           /\ SetCache(BwriteStart(s, b))
  <2>1. CASE Bwrite(p, v)
    <3>1. SetCache(BwriteStart(m, b)) BY <2>1 DEF Bwrite
    <3> QED BY <1>3, <1>4, <3>1
  <2>2. CASE Bawrite(p, v)
    <3>1. SetCache(BwriteStart(n, b)) BY <2>2 DEF Bawrite
    <3> HIDE DEF m
    <3>2. /\ n \in CacheType /\ n.flags = [m.flags EXCEPT ![b] = (@ \cup {"ASYNC"}) \ {}]
          /\ n.assoc = m.assoc /\ n.actq = m.actq /\ SameData(m, n)
      BY <1>3, SetFFields DEF Flag
    <3> HIDE DEF n
    <3>3. n.flags = [m.flags EXCEPT ![b] = (m.flags[b] \cup {"ASYNC"}) \ {}] BY <3>2
    <3>4. Only(m, n, b) BY <1>3, <3>2, <3>3, FlagsOnly
    <3>5. Only(Cache, n, b) BY <1>3, <1>4, <3>4, OnlyTwice
    <3> QED BY <1>3, <1>4, <3>1, <3>2, <3>5 DEF SameData
  <2> QED BY <2>1, <2>2
<1>7. PICK s \in CacheType : /\ Only(Cache, s, b) /\ s.disk = disk /\ s.assoc = assoc
                             /\ SetCache(BwriteStart(s, b))
  BY <1>6
<1> DEFINE t == BwriteStart(s, b)
<1>8. SetCache(t) /\ t = BwriteStart(s, b) BY <1>7
<1> HIDE DEF t
<1>9. Only(Cache, t, b) /\ CleanAt(t, b) BY <1>3, <1>7, <1>8, WriteTouch
<1>10. Touches(t, b) BY <1>8, <1>9 DEF Touches
<1>11. OthersStay(p, t, b) BY <1>3, <1>5, AloneStay DEF Alone
<1> QED BY <1>2, <1>5, <1>10, <1>11, HolderStep DEF Implements

(* getblk's write of a delayed victim.                                     *)
LEMMA DelwriImplements ==
  ASSUME IInv, IInv', Clean, NEW p \in Procs, GetblkDelwri(p)
  PROVE  Implements
<1> DEFINE b == Head(free)
           n == Notavail(Cache, b)
           s == SetF(n, b, {"ASYNC"}, {})
           t == BwriteStart(s, b)
<1>1. TypeOK /\ Cache \in CacheType /\ IsInjective(free) /\ Cache.free = free
  BY TypeSplit DEF IInv, BusyIffNotAvailable, Cache
<1>2. free # <<>> /\ "DELWRI" \in flags[b] /\ SetCache(t) /\ pc[p] = "take"
  BY DEF GetblkDelwri, Runs
<1>3. b \in Bufs /\ b \in ToSet(free) BY <1>1, <1>2, TailFacts DEF TypeOK
<1>4. /\ n \in CacheType /\ n.flags = [flags EXCEPT ![b] = @ \cup {"BUSY"}]
      /\ n.assoc = Cache.assoc /\ n.actq = Cache.actq /\ SameData(Cache, n)
  BY <1>1, <1>3, NotavailFields, CacheFields
<1> HIDE DEF n
<1>5. /\ s \in CacheType /\ s.flags = [n.flags EXCEPT ![b] = (@ \cup {"ASYNC"}) \ {}]
      /\ s.assoc = n.assoc /\ s.actq = n.actq /\ SameData(n, s)
  <2>1. n \in CacheType BY <1>4
  <2> QED BY <1>3, <2>1, SetFFields DEF Flag
<1>6. t = BwriteStart(s, b) OBVIOUS
<1> HIDE DEF s, t
<1>7. Only(Cache, s, b)
  <2>1. n.flags = [Cache.flags EXCEPT ![b] = flags[b] \cup {"BUSY"}] BY <1>4, CacheFields
  <2>2. Only(Cache, n, b) BY <1>1, <1>3, <1>4, <2>1, FlagsOnly
  <2>3. s.flags = [n.flags EXCEPT ![b] = (n.flags[b] \cup {"ASYNC"}) \ {}] BY <1>5
  <2>4. Only(n, s, b) BY <1>3, <1>4, <1>5, <2>3, FlagsOnly
  <2> QED BY <1>3, <2>2, <2>4, OnlyTwice
<1>8. s.disk = disk /\ s.assoc = assoc /\ s.data = data BY <1>4, <1>5, CacheFields DEF SameData
<1>9. /\ Only(Cache, t, b) /\ CleanAt(t, b)
      /\ assoc[b] \in Blocks \ BadBlocks => Content(t, b, assoc[b]) = data[b]
  BY <1>3, <1>5, <1>6, <1>7, <1>8, WriteTouch
<1>10. Touches(t, b) BY <1>2, <1>9 DEF Touches
<1>11. Moves(p) /\ pc'[p] # "held" BY <1>1 DEF GetblkDelwri, Goto, Moves, TypeOK
<1> QED BY <1>2, <1>3, <1>9, <1>10, <1>11, DelayedStep DEF Implements
(* An iteration of bflush.                                                 *)
LEMMA BflushWriteImplements ==
  ASSUME IInv, IInv', Clean, NEW p \in Procs, BflushWrite(p)
  PROVE  Implements
<1>1. TypeOK /\ Cache \in CacheType /\ IsInjective(free) /\ Cache.free = free
  BY TypeSplit DEF IInv, BusyIffNotAvailable, Cache
<1>2. PICK i \in Delayed :
        SetCache(SetF(BwriteStart(Notavail(SetF(Cache, free[i], {"ASYNC"}, {}), free[i]), free[i]),
                      free[i], {"AGE"}, {}))
  BY DEF BflushWrite
<1> DEFINE b == free[i]
           n == SetF(Cache, b, {"ASYNC"}, {})
           s == Notavail(n, b)
           w == BwriteStart(s, b)
           t == SetF(w, b, {"AGE"}, {})
<1>3. b \in Bufs /\ b \in ToSet(free) /\ "DELWRI" \in flags[b]
  <2>1. i \in 1..Len(free) /\ "DELWRI" \in flags[free[i]] BY DEF Delayed
  <2>2. free \in Seq(Bufs) BY <1>1 DEF TypeOK
  <2>3. free[i] \in Bufs /\ free[i] \in ToSet(free) BY <2>1, <2>2, InList
  <2> QED BY <2>1, <2>3
<1>4. /\ n \in CacheType /\ n.flags = [Cache.flags EXCEPT ![b] = (@ \cup {"ASYNC"}) \ {}]
      /\ n.assoc = Cache.assoc /\ n.actq = Cache.actq /\ SameData(Cache, n) /\ n.free = free
  BY <1>1, <1>3, SetFFields DEF Flag
<1> HIDE DEF n
<1>5. /\ s \in CacheType /\ s.flags = [n.flags EXCEPT ![b] = @ \cup {"BUSY"}]
      /\ s.assoc = n.assoc /\ s.actq = n.actq /\ SameData(n, s)
  <2>1. n \in CacheType /\ b \in ToSet(n.free) /\ IsInjective(n.free) BY <1>1, <1>3, <1>4
  <2> QED BY <2>1, NotavailFields
<1>6. SetCache(t) /\ w = BwriteStart(s, b) /\ t = SetF(w, b, {"AGE"}, {}) BY <1>2 DEF s, n
<1> HIDE DEF s, w, t
<1>7. Only(Cache, s, b)
  <2>1. n.flags = [Cache.flags EXCEPT ![b] = (Cache.flags[b] \cup {"ASYNC"}) \ {}] BY <1>4
  <2>2. Only(Cache, n, b) BY <1>1, <1>3, <1>4, <2>1, FlagsOnly
  <2>3. s.flags = [n.flags EXCEPT ![b] = n.flags[b] \cup {"BUSY"}] BY <1>5
  <2>4. Only(n, s, b) BY <1>3, <1>4, <1>5, <2>3, FlagsOnly
  <2> QED BY <1>3, <2>2, <2>4, OnlyTwice
<1>8. s.disk = disk /\ s.assoc = assoc /\ s.data = data BY <1>4, <1>5, CacheFields DEF SameData
<1>9. /\ Only(Cache, w, b) /\ CleanAt(w, b) /\ w \in CacheType
      /\ assoc[b] \in Blocks \ BadBlocks => Content(w, b, assoc[b]) = data[b]
  BY <1>3, <1>5, <1>6, <1>7, <1>8, WriteTouch
<1>10. /\ t.flags = [w.flags EXCEPT ![b] = (@ \cup {"AGE"}) \ {}]
       /\ t.assoc = w.assoc /\ t.actq = w.actq /\ SameData(w, t)
  <2>1. w \in CacheType BY <1>9
  <2> QED BY <1>3, <1>6, <2>1, SetFFields DEF Flag
<1>11. Only(w, t, b) /\ t.flags[b] = (w.flags[b] \cup {"AGE"}) \ {}
  <2>1. w \in CacheType BY <1>9
  <2>2. t.flags = [w.flags EXCEPT ![b] = (w.flags[b] \cup {"AGE"}) \ {}] BY <1>10
  <2> QED BY <1>3, <1>10, <2>1, <2>2, FlagsOnly
<1>12. Only(Cache, t, b) BY <1>3, <1>9, <1>11, OnlyTwice
<1>13. CleanAt(t, b) BY <1>9, <1>10, <1>11 DEF CleanAt, SameData
<1>14. Content(t, b, assoc[b]) = Content(w, b, assoc[b])
  BY <1>10, <1>11 DEF Content, Shows, ValidOf, SameData
<1>15. Touches(t, b) BY <1>6, <1>12, <1>13 DEF Touches
<1>16. Moves(p) /\ pc[p] # "held" /\ pc'[p] # "held"
  BY DEF BflushWrite, Runs, pvars, Moves
<1> QED BY <1>3, <1>9, <1>14, <1>15, <1>16, DelayedStep DEF Implements

(* getblk gives the oldest clean buffer another block.  What the victim    *)
(* showed is what the card has, and no buffer showed the new block.        *)
LEMMA ReassignImplements ==
  ASSUME IInv, IInv', Clean, NEW p \in Procs, GetblkReassign(p)
  PROVE  Implements
<1> DEFINE b == Head(free)
           n == Notavail(Cache, b)
           t == [n EXCEPT !.flags[b] = {"BUSY"}, !.assoc[b] = Arg(p)]
           u == [n EXCEPT !.flags[b] = {"BUSY"}, !.assoc[b] = NODEV]
<1>1. TypeOK /\ Cache \in CacheType /\ IsInjective(free) /\ Cache.free = free
  BY TypeSplit DEF IInv, BusyIffNotAvailable, Cache
<1>2. free # <<>> /\ "DELWRI" \notin flags[b] /\ SetCache(t) /\ pc[p] = "take" /\ tgt[p] = Nil
  BY DEF GetblkReassign, Runs
<1>3. b \in Bufs /\ b \in ToSet(free) BY <1>1, <1>2, TailFacts DEF TypeOK
<1>4. "BUSY" \notin flags[b] /\ b \notin ToSet(actq)
  BY <1>3 DEF IInv, BusyIffNotAvailable, Accounted
<1>5. /\ n \in CacheType /\ n.flags = [flags EXCEPT ![b] = @ \cup {"BUSY"}]
      /\ n.assoc = assoc /\ n.actq = actq /\ n.data = data /\ n.disk = disk
  BY <1>1, <1>3, NotavailFields, CacheFields DEF SameData
<1> HIDE DEF n
<1>6. /\ \A c \in Bufs \ {b} : t.flags[c] = flags[c] /\ t.assoc[c] = assoc[c]
      /\ \A c \in Bufs \ {b} : u.flags[c] = flags[c] /\ u.assoc[c] = assoc[c]
      /\ t.flags[b] = {"BUSY"} /\ t.assoc[b] = Arg(p) /\ u.flags[b] = {"BUSY"} /\ u.assoc[b] = NODEV
      /\ t.actq = actq /\ t.data = data /\ t.disk = disk
      /\ u.actq = actq /\ u.data = data /\ u.disk = disk
  BY <1>3, <1>5 DEF CacheType, TypeOK
<1> HIDE DEF t, u
<1>7. Only(Cache, u, b) /\ Only(t, u, b) BY <1>6, CacheFields DEF Only
<1>8. NoAliasIn(Cache) /\ NoAliasIn(t)
  <2>1. NoAlias /\ NoAlias' BY DEF IInv
  <2>2. assoc' = t.assoc BY <1>2, SetCacheFields
  <2> QED BY <2>1, <2>2, CacheFields DEF NoAlias, NoAliasIn
<1>9. ASSUME NEW x \in Blocks PROVE StoreIn(t)[x] = StoreIn(Cache)[x]
  <2>1. ~Shows(t, b, x) /\ ~Shows(u, b, x) BY <1>4, <1>6 DEF Shows, ValidOf
  <2>2. StoreIn(u)[x] = StoreIn(Cache)[x]
    <3>1. CASE x # assoc[b] BY <1>3, <1>7, <1>8, <3>1, StoreChanges, CacheFields
    <3>2. CASE x = assoc[b]
      <4>1. StoreIn(Cache)[x] = Content(Cache, b, x) /\ StoreIn(u)[x] = Content(u, b, x)
        BY <1>3, <1>7, <1>8, <3>2, StoreChanges, CacheFields
      <4>2. Content(u, b, x) = disk[x] BY <1>6, <2>1 DEF Content
      <4>3. Content(Cache, b, x) = disk[x]
        <5>1. CASE Shows(Cache, b, x)
          <6>1. "DONE" \in flags[b] /\ "ERROR" \notin flags[b]
            BY <1>4, <5>1, CacheFields DEF Shows, ValidOf
          <6>2. CleanAt(Cache, b) BY <1>3 DEF Clean, CleanIn
          <6>3. data[b] = disk[x] BY <1>2, <3>2, <6>1, <6>2, CacheFields DEF CleanAt
          <6> QED BY <5>1, <6>3, CacheFields DEF Content
        <5>2. CASE ~Shows(Cache, b, x) BY <5>2, CacheFields DEF Content
        <5> QED BY <5>1, <5>2
      <4> QED BY <4>1, <4>2, <4>3
    <3> QED BY <3>1, <3>2
  <2>3. StoreIn(u)[x] = StoreIn(t)[x]
    <3>1. CASE x # t.assoc[b] BY <1>3, <1>7, <1>8, <3>1, StoreChanges
    <3>2. CASE x = t.assoc[b]
      <4>1. StoreIn(t)[x] = Content(t, b, x) /\ StoreIn(u)[x] = Content(u, b, x)
        BY <1>3, <1>7, <1>8, <3>2, StoreChanges
      <4> QED BY <1>6, <2>1, <4>1 DEF Content
    <3> QED BY <3>1, <3>2
  <2> QED BY <2>2, <2>3
<1>10. Store' = Store
  <2> DEFINE w == Cache'
  <2>1. w.flags = t.flags /\ w.assoc = t.assoc /\ w.actq = t.actq /\ w.data = t.data /\ w.disk = t.disk
    BY <1>2, SetCacheFields
  <2>2. Store = StoreIn(Cache) /\ Store' = StoreIn(w) BY StoreNow
  <2> HIDE DEF w
  <2>3. StoreIn(w) = StoreIn(t) BY <2>1 DEF StoreIn
  <2>4. \A x \in Blocks : Store'[x] = Store[x] BY <1>9, <2>2, <2>3
  <2> QED BY <2>4 DEF Store
<1>11. Clean'
  <2> DEFINE w == Cache'
  <2>1. w.flags = t.flags /\ w.assoc = t.assoc /\ w.data = t.data /\ w.disk = t.disk
    BY <1>2, SetCacheFields
  <2>2. Clean' <=> CleanIn(w) BY DEF Clean
  <2> HIDE DEF w
  <2>3. ASSUME NEW c \in Bufs PROVE CleanAt(w, c)
    <3>1. CASE c = b BY <1>6, <2>1, <3>1 DEF CleanAt
    <3>2. CASE c # b
      <4>1. CleanAt(Cache, c) BY DEF Clean, CleanIn
      <4> QED BY <1>6, <2>1, <3>2, <4>1, CacheFields DEF CleanAt
    <3> QED BY <3>1, <3>2
  <2> QED BY <2>2, <2>3 DEF CleanIn
<1>12. Moves(p) /\ pc'[p] # "held" BY <1>1 DEF GetblkReassign, Goto, Moves, TypeOK
<1>13. \A q \in Procs \ {p} : pc[q] = "held" => bp[q] # b
  BY <1>3, <1>4, <1>12, AloneStay DEF Alone
<1>14. ASSUME NEW q \in Procs PROVE View'[q] = View[q]
  <2>1. CASE q = p BY <1>2, <1>12, <2>1 DEF View
  <2>2. CASE q # p
    <3>1. pc'[q] = pc[q] /\ op'[q] = op[q] /\ blk'[q] = blk[q] /\ bp'[q] = bp[q]
      BY <1>12, <2>2 DEF Moves
    <3>2. CASE pc[q] # "held" BY <3>1, <3>2 DEF View
    <3>3. CASE pc[q] = "held"
      <4>1. bp[q] \in Bufs \ {b} BY <1>13, <2>2, <3>3 DEF IInv, TypeOK, LocalsOK
      <4>2. flags'[bp[q]] = flags[bp[q]] /\ data' = data BY <1>2, <1>6, <4>1, SetCacheFields
      <4> QED BY <3>1, <4>2, Zenon DEF View
    <3> QED BY <3>2, <3>3
  <2> QED BY <2>1, <2>2
<1>15. View' = View BY <1>14 DEF View
<1> QED BY <1>10, <1>11, <1>15 DEF Implements, Abstract!BNext, Abstract!bvars
(* The interrupt: a read brings in what the store has already, a write     *)
(* takes to the card what the store has already, and a transfer that fails *)
(* loses a block that nobody has.                                          *)
LEMMA SdxintrImplements ==
  ASSUME IInv, IInv', Clean, Faults \subseteq {"finish"}, Sdxintr
  PROVE  Implements
<1> DEFINE b == Head(actq)
           x == assoc[b]
<1>1. TypeOK /\ Cache \in CacheType /\ IsInjective(actq) /\ actq # <<>>
  BY TypeSplit DEF IInv, QueueOK, Sdxintr, DriverBusy
<1>2. b \in Bufs /\ b \in ToSet(actq) BY <1>1, TailFacts DEF TypeOK
<1>3. /\ "DONE" \notin flags[b] /\ "ERROR" \notin flags[b] /\ x \in Blocks
      /\ "DELWRI" \notin flags[b]
  BY <1>2 DEF IInv, QueueOK, AssocOK
<1>4. Moves(Nobody) /\ Nobody \notin Procs BY ProcsAssumption DEF Sdxintr, pvars, Moves
<1>5. Alone(Nobody, b) BY <1>2 DEF Alone
<1>6. CASE SetCache(SdxintrDone(Transfer(Cache, b), b))
  <2> DEFINE u == Transfer(Cache, b)
             t == SdxintrDone(u, b)
  <2>1. SetCache(t) /\ t = SdxintrDone(u, b) BY <1>6
  <2>2. u = IF "READ" \in flags[b] THEN [Cache EXCEPT !.data[b] = disk[x]]
                                   ELSE [Cache EXCEPT !.disk[x] = data[b]]
    BY CacheFields DEF Transfer
  <2> HIDE DEF t, u
  <2>3. disk[x] \in Vals /\ data[b] \in Vals BY <1>1, <1>2, <1>3 DEF TypeOK
  <2>4. /\ u \in CacheType /\ u.flags = flags /\ u.assoc = assoc /\ u.actq = actq
        /\ \A c \in Bufs \ {b} : u.data[c] = data[c]
        /\ \A y \in Blocks \ {x} : u.disk[y] = disk[y]
        /\ u.data[b] = u.disk[x]
        /\ u.disk[x] = IF "READ" \in flags[b] THEN disk[x] ELSE data[b]
    <3> HIDE DEF x, b
    <3>1. CASE "READ" \in flags[b]
      <4>1. u = [Cache EXCEPT !.data[b] = disk[x]] BY <2>2, <3>1
      <4> QED BY <1>1, <1>2, <1>3, <2>3, <3>1, <4>1, CacheFields DEF CacheType
    <3>2. CASE "READ" \notin flags[b]
      <4>1. u = [Cache EXCEPT !.disk[x] = data[b]] BY <2>2, <3>2
      <4> QED BY <1>1, <1>2, <1>3, <2>3, <3>2, <4>1, CacheFields DEF CacheType
    <3> QED BY <3>1, <3>2
  <2>5. Only(Cache, u, b) BY <2>4, CacheFields DEF Only
  <2>6. /\ Only(u, t, b) /\ SameData(u, t) /\ "DONE" \in t.flags[b]
        /\ \A f \in {"ERROR", "DELWRI"} : f \in t.flags[b] <=> f \in u.flags[b]
        /\ "ERROR" \notin u.flags[b] => t.assoc[b] = u.assoc[b]
    <3>1. u \in CacheType /\ u.actq # <<>> /\ IsInjective(u.actq) /\ b = Head(u.actq)
      BY <1>1, <2>4
    <3> HIDE DEF b
    <3> QED BY <2>1, <3>1, IntrOnly
  <2>7. Only(Cache, t, b) BY <1>2, <2>5, <2>6, OnlyTwice
  <2>8. t.data[b] = t.disk[x] /\ t.assoc[b] = x /\ "ERROR" \notin t.flags[b]
    BY <1>3, <2>4, <2>6 DEF SameData
  <2>9. CleanAt(t, b) BY <2>8 DEF CleanAt
  <2>10. Content(t, b, x) = Content(Cache, b, x)
    <3>1. Content(t, b, x) = u.disk[x] BY <2>6, <2>8 DEF Content, SameData
    <3>2. Content(Cache, b, x) = IF "READ" \in flags[b] THEN disk[x] ELSE data[b]
      BY <1>2, <1>3, CacheFields DEF Content, Shows, ValidOf
    <3> QED BY <2>4, <3>1, <3>2
  <2>11. Touches(t, b) BY <2>1, <2>7, <2>9 DEF Touches
  <2>12. OthersStay(Nobody, t, b) BY <1>2, <1>4, <1>5, AloneStay
  <2> QED BY <1>2, <1>4, <2>10, <2>11, <2>12, QuietStep DEF Implements
<1>7. CASE FinishFails(b) /\ SetCache(SdxintrDone(SetF(Cache, b, {"ERROR"}, {}), b))
  <2> DEFINE u == SetF(Cache, b, {"ERROR"}, {})
             t == SdxintrDone(u, b)
  <2>1. SetCache(t) /\ t = SdxintrDone(u, b) BY <1>7
  <2>2. /\ u \in CacheType /\ u.flags = [Cache.flags EXCEPT ![b] = (@ \cup {"ERROR"}) \ {}]
        /\ u.assoc = Cache.assoc /\ u.actq = Cache.actq /\ SameData(Cache, u)
    BY <1>1, <1>2, SetFFields DEF Flag
  <2> HIDE DEF t, u
  <2>3. Only(Cache, u, b) /\ "ERROR" \in u.flags[b]
    <3>1. u.flags = [Cache.flags EXCEPT ![b] = (Cache.flags[b] \cup {"ERROR"}) \ {}] BY <2>2
    <3>2. Only(Cache, u, b) /\ u.flags[b] = (Cache.flags[b] \cup {"ERROR"}) \ {}
      <4>1. Cache \in CacheType /\ b \in Bufs /\ SameData(Cache, u) BY <1>1, <1>2, <2>2
      <4>2. u.assoc = Cache.assoc /\ u.actq = Cache.actq BY <2>2
      <4> HIDE DEF b
      <4> QED BY <3>1, <4>1, <4>2, FlagsOnly
    <3> QED BY <3>2
  <2>4. Only(u, t, b) /\ Lost(t, b)
    <3>1. u \in CacheType /\ u.actq # <<>> /\ IsInjective(u.actq) /\ b = Head(u.actq)
      BY <1>1, <2>2, CacheFields
    <3> HIDE DEF b
    <3> QED BY <2>1, <2>3, <3>1, IntrOnly
  <2>5. Only(Cache, t, b) BY <1>2, <2>3, <2>4, OnlyTwice
  <2>6. CleanAt(t, b) BY <2>4, BlocksAssumption DEF CleanAt, Lost
  <2>7. Touches(t, b) BY <2>1, <2>5, <2>6 DEF Touches
  <2>8. /\ OthersStay(Nobody, t, b)
        /\ \A q \in Procs \ {Nobody} : pc[q] = "held" => bp[q] # b
    BY <1>2, <1>4, <1>5, AloneStay
  <2>9. "finish" \in Faults BY <1>7 DEF FinishFails
  <2> QED BY <1>2, <1>3, <1>4, <2>7, <2>8, <2>9, LoseStep DEF Implements
<1> QED BY <1>6, <1>7 DEF Sdxintr

(* Every step of the cache is one that BlockStore allows.                  *)
LEMMA NextImplements ==
  ASSUME IInv, IInv', Clean, Faults \subseteq {"finish"}, [Next]_vars
  PROVE  Clean' /\ (Abstract!BNext \/ UNCHANGED <<Store, View>>)
<1>1. CASE Sdxintr BY <1>1, SdxintrImplements DEF Implements
<1>2. ASSUME NEW p \in Procs, Calls(p) PROVE Implements BY <1>2, CallImplements
<1>3. ASSUME NEW p \in Procs, Releases(p) PROVE Implements
  BY <1>3, ReleaseImplements, BdwriteImplements, BwriteImplements DEF Releases
<1>4. ASSUME NEW p \in Procs, Inside(p) PROVE Implements
  <2>1. ~LoadAge(p) BY DEF LoadAge
  <2>2. ~StoreAge(p) BY DEF IInv, LocalsOK, StoreAge, Runs
  <2>3. CASE GetblkSearch(p) \/ ReadAhead(p) \/ BflushEnd(p) BY <2>3, SearchImplements
  <2>4. CASE GetblkBusy(p) \/ GetblkNone(p) \/ IowaitSleep(p) BY <2>4, SleepImplements
  <2>5. CASE GetblkFound(p) \/ GetblkDelwri(p) \/ GetblkReassign(p) \/ SetAge(p)
    BY <2>5, FoundImplements, DelwriImplements, ReassignImplements, SetAgeImplements
  <2>6. CASE GotHeld(p) \/ GotBread(p) \/ GotBreada(p) \/ GotAhead(p)
    BY <2>6, GotHeldImplements, GotBreadImplements, GotAheadImplements
  <2>7. CASE IowaitRead(p) \/ IowaitWrite(p) \/ BflushWrite(p)
    BY <2>7, IowaitReadImplements, ReleaseImplements, BflushWriteImplements
  <2> QED BY <1>4, <2>1, <2>2, <2>3, <2>4, <2>5, <2>6, <2>7 DEF Inside
<1>5. CASE UNCHANGED vars
  <2>1. Cache' = Cache BY <1>5 DEF vars, Cache
  <2>2. Clean' BY <2>1 DEF Clean
  <2>3. Store' = Store BY <2>1, StoreNow
  <2>4. View' = View BY <1>5 DEF vars, View
  <2> QED BY <2>2, <2>3, <2>4
<1> QED BY <1>1, <1>2, <1>3, <1>4, <1>5 DEF Next, Implements

(* Initially no buffer has a block.                                        *)
LEMMA InitClean == Init => Clean
BY BlocksAssumption, CacheFields DEF Init, Clean, CleanIn, CleanAt

(* What getblk relies on when it gives a buffer that is not delayed        *)
(* another block: the contents it drops are on the card.                   *)
THEOREM CacheClean ==
  ASSUME Faults \subseteq {"finish"}
  PROVE  Spec => []Clean
<1>1. Init => Clean BY InitClean
<1>2. IInv /\ IInv' /\ Clean /\ [Next]_vars => Clean' BY NextImplements
<1>3. Spec => []IInv BY CacheInvariant
<1> QED BY <1>1, <1>2, <1>3, PTL DEF Spec

(* Callers of the buffer cache see a store in which only the holder of a   *)
(* block changes it: getblk's victims, delayed and asynchronous writes and *)
(* the driver's interrupts, in any order, lose or mix up nothing; only a   *)
(* write that the driver reports as failed is lost, in nobody's hands.     *)
THEOREM CacheImplementsBlockStore ==
  ASSUME Faults \subseteq {"finish"}
  PROVE  Spec => ImplementsBlockStore
<1>1. Init => Abstract!BInit /\ Clean
  <2> SUFFICES ASSUME Init PROVE Abstract!BInit /\ Clean OBVIOUS
  <2>1. TypeOK BY InitIInv DEF IInv
  <2>2. \A x \in Blocks : Store[x] = disk[x] BY BlocksAssumption DEF Init, Store
  <2>3. Store \in [Blocks -> Vals] BY <2>1, <2>2 DEF Store, TypeOK
  <2>4. View = [p \in Procs |-> Nil] BY DEF Init, View
  <2>5. Clean BY InitClean
  <2> QED BY <2>3, <2>4, <2>5 DEF Abstract!BInit
<1>2. IInv /\ IInv' /\ Clean /\ [Next]_vars => Clean' /\ (Abstract!BNext \/ UNCHANGED <<Store, View>>)
  BY NextImplements
<1>3. (Abstract!BNext \/ UNCHANGED <<Store, View>>) => [Abstract!BNext]_<<Store, View>> OBVIOUS
<1>4. Spec => []IInv BY CacheInvariant
<1> QED BY <1>1, <1>2, <1>3, <1>4, PTL DEF Spec, ImplementsBlockStore, Abstract!BSpec, Abstract!bvars
----------------------------------------------------------------------------
(* Why the processes never all hang.                                       *)

(* The processes in breada that hold their block while getblk looks for    *)
(* the block to read ahead: the only ones that hold a buffer and wait for  *)
(* another.                                                                *)
Ahead == {p \in Procs : op[p] = "ahead" /\ bp[p] # Nil}

(* They do not wait in a circle: of any such processes one waits for a     *)
(* block that none of them holds.                                          *)
NoCircle == \A S \in SUBSET Ahead : S # {} => \E p \in S : \A q \in S : blk[q] # ra[p]

(* Who sleeps for a buffer in getblk sleeps for the one with its block.    *)
WaitsForIts == \A p \in Procs : pc[p] = "getblk" /\ wchan[p] \in Bufs => assoc[wchan[p]] = Arg(p)

(* From s to t nobody falls asleep, and a buffer that changes its block is *)
(* no longer busy.                                                         *)
Heeds(s, t) ==
  /\ \A q \in Procs : t.wchan[q] \in {s.wchan[q], Nil}
  /\ \A c \in Bufs : t.assoc[c] = s.assoc[c] \/ "BUSY" \notin t.flags[c]

(* What brelse and iodone leave behind.                                    *)
LEMMA ReleasedHeeds ==
  ASSUME NEW s \in CacheType, NEW t, NEW b \in Bufs, Released(s, t, b)
  PROVE  Heeds(s, t)
<1>1. \A q \in Procs : t.wchan[q] \in {s.wchan[q], Nil} BY DEF Released
<1>2. \A c \in Bufs \ {b} : t.assoc[c] = s.assoc[c] BY DEF Released, CacheType
<1>3. "BUSY" \notin t.flags[b] BY DEF Released, CacheType
<1> QED BY <1>1, <1>2, <1>3 DEF Heeds

(* iodone.                                                                 *)
LEMMA IodoneHeeds ==
  ASSUME NEW s \in CacheType, NEW b \in Bufs, NEW t, t = Iodone(s, b)
  PROVE  Heeds(s, t)
<1>1. CASE "ASYNC" \in s.flags[b]
  <2> DEFINE d == SetF(s, b, {"DONE"}, {})
  <2>1. d \in CacheType /\ d.wchan = s.wchan /\ d.assoc = s.assoc BY DEF SetF, CacheType, Flag
  <2>2. Released(d, t, b) BY <1>1, IodoneCases
  <2> HIDE DEF d
  <2>3. Heeds(d, t) BY <2>1, <2>2, ReleasedHeeds
  <2> QED BY <2>1, <2>3 DEF Heeds
<1>2. CASE "ASYNC" \notin s.flags[b]
  <2>1. Completed(s, t, b) BY <1>2, IodoneCases
  <2>2. t.assoc = s.assoc /\ \A q \in Procs : t.wchan[q] \in {s.wchan[q], Nil}
    BY <2>1 DEF Completed
  <2> QED BY <2>2 DEF Heeds
<1> QED BY <1>1, <1>2

(* brelse.                                                                 *)
LEMMA BrelseHeeds ==
  ASSUME NEW s \in CacheType, NEW b \in Bufs, NEW t, t = Brelse(s, b)
  PROVE  Heeds(s, t)
<1>1. Released(s, t, b) BY BrelseReleases
<1> QED BY <1>1, ReleasedHeeds

(* The strategy routine.                                                   *)
LEMMA StrategyHeeds ==
  ASSUME NEW s \in CacheType, NEW b \in Bufs, NEW t, t = Sdxstrategy(s, b)
  PROVE  Heeds(s, t)
<1>1. CASE s.assoc[b] \notin BadBlocks
  <2>1. Queued(s, t, b) BY <1>1, StrategyQueues
  <2>2. t.assoc = s.assoc /\ t.wchan = s.wchan BY <2>1 DEF Queued
  <2> QED BY <2>2 DEF Heeds
<1>2. CASE s.assoc[b] \in BadBlocks
  <2> DEFINE e == SetF(s, b, {"ERROR"}, {})
  <2>1. t = Iodone(e, b) BY <1>2 DEF Sdxstrategy
  <2>2. e \in CacheType /\ e.wchan = s.wchan /\ e.assoc = s.assoc BY DEF SetF, CacheType, Flag
  <2> HIDE DEF e
  <2>3. Heeds(e, t) BY <2>1, <2>2, IodoneHeeds
  <2> QED BY <2>1, <2>2, <2>3 DEF Heeds
<1> QED BY <1>1, <1>2

(* bwrite.                                                                 *)
LEMMA BwriteHeeds ==
  ASSUME NEW s \in CacheType, NEW b \in Bufs, NEW t, t = BwriteStart(s, b)
  PROVE  Heeds(s, t)
<1>1. PICK r \in CacheType :
           /\ BwriteStart(s, b) = Sdxstrategy(r, b)
           /\ r.assoc = s.assoc /\ r.wchan = s.wchan
  BY BwriteStartClears
<1>2. Heeds(r, t) BY <1>1, StrategyHeeds
<1> QED BY <1>1, <1>2 DEF Heeds

(* The end of a transfer.                                                  *)
LEMMA IntrHeeds ==
  ASSUME NEW s \in CacheType, NEW b \in Bufs, s.actq # <<>>,
         NEW t, t = SdxintrDone(s, b)
  PROVE  Heeds(s, t)
<1> DEFINE v == [s EXCEPT !.active = FALSE, !.actq = Tail(@)]
           w == Iodone(v, b)
<1>1. s.actq \in Seq(Bufs) BY DEF CacheType
<1>2. Tail(s.actq) \in Seq(Bufs) BY <1>1, TailFacts
<1>3. v \in CacheType /\ v.wchan = s.wchan /\ v.assoc = s.assoc BY <1>2 DEF CacheType
<1>4. t = Sdxstart(w) BY DEF SdxintrDone
<1> HIDE DEF v
<1>5. Heeds(v, w) BY <1>3, IodoneHeeds
<1>6. w \in CacheType
  <2>1. v \in CacheType /\ w = Iodone(v, b) BY <1>3
  <2> HIDE DEF w
  <2> QED BY <2>1, IodoneOnly
<1> HIDE DEF w
<1>7. /\ Sdxstart(w).flags = w.flags /\ Sdxstart(w).assoc = w.assoc
      /\ Sdxstart(w).wchan = w.wchan
  BY <1>6 DEF Sdxstart, CacheType
<1> QED BY <1>3, <1>4, <1>5, <1>7 DEF Heeds

----------------------------------------------------------------------------
(* The steps of p leave the others where they are, wake them at most, and  *)
(* no busy buffer changes its block while it stays busy.                   *)
Stays(p) ==
  \A q \in Procs \ {p} : /\ pc'[q] = pc[q] /\ op'[q] = op[q] /\ blk'[q] = blk[q]
                         /\ ra'[q] = ra[q] /\ bp'[q] = bp[q]

Calm(p) ==
  /\ \A q \in Procs \ {p} : wchan'[q] \in {wchan[q], Nil}
  /\ \A c \in Bufs : assoc'[c] = assoc[c] \/ "BUSY" \notin flags'[c] \/ "BUSY" \notin flags[c]

(* If p now sleeps for a buffer in getblk, it is the one with its block.   *)
Settles(p) ==
  p \in Procs /\ pc'[p] = "getblk" /\ wchan'[p] \in Bufs => assoc'[wchan'[p]] = Arg(p)'

(* p does not begin to read ahead in this step.                            *)
NotJoining(p) ==
  p \in Procs /\ op'[p] = "ahead" /\ bp'[p] # Nil =>
    op[p] = "ahead" /\ bp[p] # Nil /\ blk'[p] = blk[p] /\ ra'[p] = ra[p]

(* Such steps keep both.                                                   *)
LEMMA WaitsKept ==
  ASSUME IInv, IInv', WaitsForIts, NEW p, Stays(p), Calm(p), Settles(p)
  PROVE  WaitsForIts'
<1> SUFFICES ASSUME NEW q \in Procs \ {p}, pc'[q] = "getblk", wchan'[q] \in Bufs
             PROVE  assoc'[wchan'[q]] = Arg(q)'
  BY DEF WaitsForIts, Settles
<1>1. wchan'[q] = wchan[q] BY BufsAssumption DEF Calm
<1>2. pc[q] = "getblk" /\ Arg(q)' = Arg(q) BY DEF Stays, Arg
<1>3. assoc[wchan[q]] = Arg(q) BY <1>1, <1>2 DEF WaitsForIts
<1>4. "BUSY" \in flags[wchan[q]] /\ "BUSY" \in flags'[wchan[q]]
  BY <1>1, <1>2 DEF IInv, NoLostWakeup
<1> QED BY <1>1, <1>2, <1>3, <1>4 DEF Calm

(* Who is in breada's read-ahead was there before, with the same blocks.   *)
LEMMA CircleKept ==
  ASSUME NoCircle, NEW p, Stays(p), NotJoining(p)
  PROVE  NoCircle'
<1>1. ASSUME NEW q \in Ahead' PROVE q \in Ahead /\ blk'[q] = blk[q] /\ ra'[q] = ra[q]
  BY DEF Ahead, Stays, NotJoining
<1>2. ASSUME NEW S \in SUBSET Ahead', S # {}
      PROVE  \E q \in S : \A r \in S : blk'[r] # ra'[q]
  <2>1. S \in SUBSET Ahead BY <1>1
  <2>2. PICK q \in S : \A r \in S : blk[r] # ra[q] BY <1>2, <2>1 DEF NoCircle
  <2> QED BY <1>1, <2>2
<1> QED BY <1>2 DEF NoCircle

(* Who begins to read ahead asks for a block that nobody holds.            *)
LEMMA ReadAheadJoins ==
  ASSUME IInv, NoCircle, NEW p \in Procs, ReadAhead(p), Stays(p)
  PROVE  NoCircle'
<1>1. CASE NotJoining(p) BY <1>1, CircleKept
<1>2. CASE ~NotJoining(p)
  <2>1. ~Incore(ra[p]) /\ UNCHANGED <<blk, ra, bp>> /\ ra[p] # Nil
    BY <1>2 DEF ReadAhead, BreadaEnd, NotJoining, IInv, TypeOK
  <2>2. ASSUME NEW q \in Procs, bp[q] # Nil PROVE blk[q] # ra[p]
    BY <2>1, <2>2 DEF IInv, TypeOK, AssocOK, Incore
  <2>3. ASSUME NEW q \in Ahead' \ {p} PROVE q \in Ahead
    BY <2>3 DEF Ahead, Stays
  <2>4. ASSUME NEW S \in SUBSET Ahead', S # {}
        PROVE  \E q \in S : \A r \in S : blk'[r] # ra'[q]
    <3>1. CASE p \in S
      <4>1. \A r \in S : r \in Procs /\ bp[r] # Nil BY <2>1 DEF Ahead
      <4> QED BY <2>1, <2>2, <3>1, <4>1
    <3>2. CASE p \notin S
      <4>1. S \in SUBSET Ahead BY <2>3, <3>2
      <4>2. PICK q \in S : \A r \in S : blk[r] # ra[q] BY <2>4, <4>1 DEF NoCircle
      <4> QED BY <2>1, <4>2
    <3> QED BY <3>1, <3>2
  <2> QED BY <2>4 DEF NoCircle
<1> QED BY <1>1, <1>2

(* A state in which the processes all hang although the driver is idle is  *)
(* one in which breada holds every buffer.                                 *)
HeldAhead == \A b \in Bufs : \E p \in Ahead : bp[p] = b

LEMMA HangsOnlyAhead ==
  ASSUME IInv, WaitsForIts, NoCircle, Procs # {}
  PROVE  NotHungUp \/ HeldAhead
<1> SUFFICES ASSUME \A p \in Procs : wchan[p] # Nil, ~active
             PROVE  HeldAhead
  BY DEF NotHungUp
<1>1. TypeOK /\ CpuOK /\ LocalsOK /\ AssocOK /\ BusyIffNotAvailable /\ Accounted /\ NoLostWakeup
      /\ DriverBusy
  BY DEF IInv
<1>2. actq = <<>> /\ ToSet(actq) = {}
  <2>1. actq = <<>> /\ actq \in Seq(Bufs) BY <1>1 DEF DriverBusy, TypeOK
  <2> QED BY <2>1, MemberNonempty
<1>3. ASSUME NEW p \in Procs PROVE pc[p] = "getblk" /\ wchan[p] \in Bufs \cup {FreeList}
  <2>1. pc[p] # "iowait"
    <3>1. pc[p] = "iowait" => wchan[p] \in Bufs BY <1>1 DEF CpuOK, LocalsOK, TypeOK
    <3> QED BY <1>1, <1>2, <3>1 DEF NoLostWakeup
  <2> QED BY <1>1, <2>1 DEF CpuOK, TypeOK
<1>4. ASSUME NEW p \in Procs, bp[p] # Nil PROVE p \in Ahead
  BY <1>1, <1>3, <1>4 DEF LocalsOK, Ahead
<1>5. ASSUME NEW b \in Bufs, "BUSY" \in flags[b] PROVE \E p \in Procs : p \in Ahead /\ bp[p] = b
  <2>1. PICK p \in Procs : Owns(p, b) BY <1>1, <1>2, <1>5 DEF Accounted
  <2>2. bp[p] = b BY <1>3, <2>1 DEF Owns
  <2> QED BY <1>4, <2>2, BufsAssumption
<1>6. CASE \E p \in Procs : wchan[p] = FreeList
  <2>1. free = <<>> /\ free \in Seq(Bufs) BY <1>1, <1>6 DEF NoLostWakeup, TypeOK
  <2>2. ToSet(free) = {} BY <2>1, MemberNonempty
  <2>3. \A b \in Bufs : "BUSY" \in flags[b] BY <1>1, <2>2 DEF BusyIffNotAvailable
  <2> QED BY <1>5, <2>3 DEF HeldAhead
<1>7. CASE \A p \in Procs : wchan[p] # FreeList
  <2>1. ASSUME NEW p \in Procs
        PROVE  /\ wchan[p] \in Bufs
               /\ \E r \in Procs : r \in Ahead /\ bp[r] = wchan[p]
    <3>1. wchan[p] \in Bufs /\ pc[p] = "getblk" BY <1>3, <1>7
    <3>2. "BUSY" \in flags[wchan[p]] BY <1>1, <3>1 DEF NoLostWakeup
    <3> QED BY <1>5, <3>1, <3>2
  <2> DEFINE S == {r \in Ahead : \E p \in Procs : bp[r] = wchan[p]}
  <2>2. S # {} BY <2>1
  <2>3. PICK p \in S : \A q \in S : blk[q] # ra[p]
    <3>1. S \in SUBSET Ahead OBVIOUS
    <3> HIDE DEF S
    <3> QED BY <2>2, <3>1 DEF NoCircle
  <2>4. p \in Procs /\ op[p] = "ahead" BY DEF Ahead
  <2>5. PICK r \in Procs : r \in Ahead /\ bp[r] = wchan[p] BY <2>1, <2>4
  <2>6. r \in S BY <2>4, <2>5
  <2>7. assoc[wchan[p]] = ra[p] BY <1>3, <2>1, <2>4 DEF WaitsForIts, Arg
  <2>8. assoc[bp[r]] = blk[r] BY <1>1, <2>1, <2>4, <2>5, BufsAssumption DEF AssocOK
  <2> QED BY <2>3, <2>5, <2>6, <2>7, <2>8
<1> QED BY <1>6, <1>7

----------------------------------------------------------------------------
(* The actions.                                                            *)

(* The routines, called on the state of the cache or on one with the same  *)
(* channels and associations.                                              *)
LEMMA HeedsCalm ==
  ASSUME NEW p, NEW s, NEW t, s.wchan = wchan, s.assoc = assoc, Heeds(s, t), SetCache(t)
  PROVE  Calm(p)
BY DEF Heeds, SetCache, Calm

(* Setting and clearing flags changes neither.                             *)
LEMMA FlagsWait ==
  ASSUME NEW s \in CacheType, NEW b \in Bufs, NEW on \in SUBSET Flag, NEW off
  PROVE  /\ SetF(s, b, on, off) \in CacheType
         /\ SetF(s, b, on, off).wchan = s.wchan /\ SetF(s, b, on, off).assoc = s.assoc
BY DEF SetF, CacheType

(* What an action does to the sleepers.                                    *)
Minds(p) == Stays(p) /\ Calm(p) /\ Settles(p)

(* A process that is awake settles for nothing.                            *)
LEMMA AwakeSettles ==
  ASSUME TypeOK, NEW p \in Procs, wchan'[p] \in {wchan[p], Nil}, wchan[p] = Nil
  PROVE  Settles(p)
BY BufsAssumption DEF Settles

(* The channels of all are at most emptied.                                *)
LEMMA HeedsSettles ==
  ASSUME TypeOK, NEW p \in Procs, wchan[p] = Nil, NEW s, NEW t, s.wchan = wchan, Heeds(s, t),
         SetCache(t)
  PROVE  Settles(p)
<1>1. wchan'[p] \in {wchan[p], Nil} BY DEF Heeds, SetCache
<1> QED BY <1>1, AwakeSettles

(* Steps that leave the cache alone.                                       *)
LEMMA PlainMinds ==
  ASSUME IInv, NEW p \in Procs, UNCHANGED cvars, wchan[p] = Nil, Stays(p)
  PROVE  Minds(p)
<1>1. Calm(p) BY DEF cvars, Calm
<1>2. wchan'[p] = Nil BY DEF cvars
<1>3. Settles(p) BY <1>2, BufsAssumption DEF Settles
<1> QED BY <1>1, <1>3 DEF Minds

(* Steps in which p calls a routine.                                       *)
LEMMA RoutineMinds ==
  ASSUME IInv, NEW p \in Procs, wchan[p] = Nil, Stays(p),
         NEW s, NEW t, s.wchan = wchan, s.assoc = assoc, Heeds(s, t), SetCache(t)
  PROVE  Minds(p)
<1>1. Calm(p) BY HeedsCalm
<1>2. Settles(p) BY HeedsSettles DEF IInv
<1> QED BY <1>1, <1>2 DEF Minds

(* Every step of p but the last of breada is one that does not join those  *)
(* who read ahead.                                                         *)
LEMMA NobodyJoins ==
  ASSUME IInv, NEW p \in Procs, Calls(p) \/ Releases(p) \/ Inside(p)
  PROVE  Stays(p) /\ (ReadAhead(p) \/ NotJoining(p))
<1>1. TypeOK BY DEF IInv
<1> USE DEF Stays, NotJoining, Goto
<1>2. CASE Calls(p)
  BY <1>1, <1>2 DEF Calls, Getblk, Bread, Geteblk, Call, Breada, BflushCall, TypeOK
<1>3. ASSUME Return(p) PROVE Stays(p) /\ NotJoining(p)
  BY <1>1, <1>3 DEF Return, TypeOK
<1>4. CASE Releases(p)
  <2>1. CASE Release(p) \/ \E v \in Vals : Bdwrite(p, v) BY <1>3, <2>1 DEF Release, Bdwrite
  <2>2. CASE \E v \in Vals : Bwrite(p, v) BY <1>1, <2>2 DEF Bwrite, TypeOK
  <2>3. CASE \E v \in Vals : Bawrite(p, v) BY <1>1, <1>3, <2>3 DEF Bawrite, TypeOK
  <2> QED BY <1>4, <2>1, <2>2, <2>3 DEF Releases
<1>5. CASE Inside(p)
  <2>1. CASE GetblkSearch(p) \/ GetblkFound(p) \/ GetblkDelwri(p) \/ GetblkReassign(p)
    BY <1>1, <2>1 DEF GetblkSearch, GetblkFound, GetblkDelwri, GetblkReassign, TypeOK
  <2>2. CASE GetblkBusy(p) \/ GetblkNone(p) BY <1>1, <2>2 DEF GetblkBusy, GetblkNone, SleepOn, TypeOK
  <2>3. CASE SetAge(p) \/ LoadAge(p) \/ StoreAge(p)
    BY <1>1, <1>3, <2>3 DEF SetAge, LoadAge, StoreAge, AfterAge, TypeOK
  <2>4. CASE GotHeld(p) \/ IowaitRead(p)
    BY <1>1, <2>4 DEF GotHeld, IowaitRead, Hold, TypeOK
  <2>5. CASE GotBread(p) \/ GotBreada(p) BY <1>1, <2>5 DEF GotBread, GotBreada, TypeOK
  <2>6. CASE GotAhead(p) \/ ReadAhead(p) BY <1>1, <2>6 DEF GotAhead, ReadAhead, BreadaEnd, TypeOK
  <2>7. CASE IowaitSleep(p) BY <2>7 DEF IowaitSleep
  <2>8. CASE IowaitWrite(p) \/ BflushEnd(p) BY <1>3, <2>8 DEF IowaitWrite, BflushEnd
  <2>9. CASE BflushWrite(p) BY <2>9 DEF BflushWrite, pvars
  <2> QED BY <1>5, <2>1, <2>2, <2>3, <2>4, <2>5, <2>6, <2>7, <2>8, <2>9 DEF Inside
<1> QED BY <1>2, <1>4, <1>5

(* The steps that do not touch the cache.                                  *)
LEMMA PlainActionsMind ==
  ASSUME IInv, NEW p \in Procs, Stays(p),
         \/ Calls(p) \/ GetblkSearch(p) \/ LoadAge(p) \/ GotHeld(p) \/ ReadAhead(p)
         \/ IowaitRead(p) \/ BflushEnd(p)
  PROVE  Minds(p)
<1>1. UNCHANGED cvars /\ wchan[p] = Nil
  BY DEF Calls, Getblk, Bread, Geteblk, Call, Breada, BflushCall, GetblkSearch, LoadAge, GotHeld,
         ReadAhead, IowaitRead, BflushEnd, Runs
<1> QED BY <1>1, PlainMinds

(* The sleeps.                                                             *)
LEMMA SleepsMind ==
  ASSUME IInv, NEW p \in Procs, Stays(p), GetblkBusy(p) \/ GetblkNone(p) \/ IowaitSleep(p)
  PROVE  Minds(p)
<1>1. TypeOK /\ AssocOK BY DEF IInv
<1>2. /\ assoc' = assoc
      /\ \E ch : wchan' = [wchan EXCEPT ![p] = ch]
  <2>1. CASE GetblkBusy(p) BY <2>1 DEF GetblkBusy, SleepOn, SetCache, SetF, Cache
  <2>2. CASE GetblkNone(p) BY <2>2 DEF GetblkNone, SleepOn, SetCache, Cache
  <2>3. CASE IowaitSleep(p) BY <2>3 DEF IowaitSleep, SetCache, Cache
  <2> QED BY <2>1, <2>2, <2>3
<1>3. Calm(p) BY <1>1, <1>2 DEF Calm, TypeOK
<1>4. Settles(p)
  <2>1. CASE GetblkBusy(p)
    <3>1. /\ pc[p] = "take" /\ tgt[p] # Nil /\ wchan'[p] = tgt[p] /\ op' = op /\ blk' = blk /\ ra' = ra
      BY <1>1, <2>1 DEF GetblkBusy, Runs, SleepOn, SetCache, SetF, Cache, TypeOK
    <3> QED BY <1>1, <1>2, <3>1 DEF AssocOK, Settles, Arg
  <2>2. CASE GetblkNone(p)
    <3>1. wchan'[p] = FreeList BY <1>1, <2>2 DEF GetblkNone, SleepOn, SetCache, Cache, TypeOK
    <3> QED BY <3>1, BufsAssumption DEF Settles
  <2>3. CASE IowaitSleep(p) BY <2>3 DEF IowaitSleep, Runs, Settles
  <2> QED BY <2>1, <2>2, <2>3
<1> QED BY <1>3, <1>4 DEF Minds

(* The steps that only set flags, or take a buffer off the available list: *)
(* one that gets another block was available.                              *)
LEMMA TakesMind ==
  ASSUME IInv, NEW p \in Procs, Stays(p), GetblkFound(p) \/ GetblkReassign(p) \/ SetAge(p)
  PROVE  Minds(p)
<1>1. TypeOK /\ BusyIffNotAvailable BY DEF IInv
<1>2. wchan[p] = Nil /\ wchan' = wchan
  <2>1. CASE GetblkFound(p) BY <2>1 DEF GetblkFound, Runs, SetCache, Notavail, SetF, Cache
  <2>2. CASE GetblkReassign(p) BY <2>2 DEF GetblkReassign, Runs, SetCache, Notavail, SetF, Cache
  <2>3. CASE SetAge(p) BY <2>3 DEF SetAge, Runs, SetCache, SetF, Cache
  <2> QED BY <2>1, <2>2, <2>3
<1>3. \A c \in Bufs : assoc'[c] = assoc[c] \/ "BUSY" \notin flags[c]
  <2>1. CASE GetblkFound(p) BY <2>1 DEF GetblkFound, SetCache, Notavail, SetF, Cache
  <2>2. CASE GetblkReassign(p)
    <3>1. assoc' = [assoc EXCEPT ![Head(free)] = Arg(p)] /\ free # <<>>
      BY <2>2 DEF GetblkReassign, SetCache, Notavail, SetF, Cache
    <3>2. Head(free) \in Bufs /\ Head(free) \in ToSet(free) BY <1>1, <3>1, TailFacts DEF TypeOK
    <3>3. "BUSY" \notin flags[Head(free)] BY <1>1, <3>2 DEF BusyIffNotAvailable
    <3> QED BY <1>1, <3>1, <3>3 DEF TypeOK
  <2>3. CASE SetAge(p) BY <2>3 DEF SetAge, SetCache, SetF, Cache
  <2> QED BY <2>1, <2>2, <2>3
<1>4. Calm(p) BY <1>2, <1>3 DEF Calm
<1>5. Settles(p) BY <1>1, <1>2, AwakeSettles
<1> QED BY <1>4, <1>5 DEF Minds

(* What bread, breada and the read-ahead do with the buffer from getblk.   *)
LEMMA ReadsMind ==
  ASSUME IInv, NEW p \in Procs, Stays(p), GotBread(p) \/ GotBreada(p) \/ GotAhead(p)
  PROVE  Minds(p)
<1> DEFINE b == tgt[p]
<1>1. TypeOK /\ Cache \in CacheType BY TypeSplit DEF IInv
<1>2. pc[p] = "got" /\ wchan[p] = Nil BY DEF GotBread, GotBreada, GotAhead, Runs
<1>3. b \in Bufs BY <1>1, <1>2 DEF IInv, LocalsOK, TypeOK
<1>4. Cache.wchan = wchan /\ Cache.assoc = assoc BY DEF Cache
<1>5. CASE SetCache(Cache)
  <2>1. UNCHANGED cvars BY <1>5 DEF SetCache, Cache, cvars
  <2> QED BY <1>2, <2>1, PlainMinds
<1>6. CASE SetCache(Brelse(Cache, b))
  <2> DEFINE t == Brelse(Cache, b)
  <2>1. Heeds(Cache, t) BY <1>1, <1>3, BrelseHeeds
  <2> HIDE DEF t
  <2> QED BY <1>2, <1>4, <1>6, <2>1, RoutineMinds DEF t
<1>7. ASSUME NEW on \in SUBSET Flag, SetCache(Sdxstrategy(SetF(Cache, b, on, {}), b))
      PROVE  Minds(p)
  <2> DEFINE s == SetF(Cache, b, on, {})
             t == Sdxstrategy(s, b)
  <2>1. s \in CacheType /\ s.wchan = wchan /\ s.assoc = assoc BY <1>1, <1>3, <1>4, FlagsWait
  <2>2. SetCache(t) BY <1>7
  <2>3. Heeds(s, t)
    <3> HIDE DEF s
    <3> QED BY <1>3, <2>1, StrategyHeeds
  <2> HIDE DEF s, t
  <2> QED BY <1>2, <2>1, <2>2, <2>3, RoutineMinds
<1>8. {"READ"} \in SUBSET Flag /\ {"READ", "ASYNC"} \in SUBSET Flag BY DEF Flag
<1>9. \/ SetCache(Cache) \/ SetCache(Brelse(Cache, b))
      \/ SetCache(Sdxstrategy(SetF(Cache, b, {"READ"}, {}), b))
      \/ SetCache(Sdxstrategy(SetF(Cache, b, {"READ", "ASYNC"}, {}), b))
  BY DEF GotBread, GotBreada, GotAhead
<1> QED BY <1>5, <1>6, <1>7, <1>8, <1>9

(* brelse at the end of a write, and by the holder.                        *)
LEMMA ReleasesMind ==
  ASSUME IInv, NEW p \in Procs, Stays(p), Release(p) \/ IowaitWrite(p)
  PROVE  Minds(p)
<1> DEFINE t == Brelse(Cache, bp[p])
<1>1. TypeOK /\ Cache \in CacheType BY TypeSplit DEF IInv
<1>2. pc[p] \in {"held", "iowait"} /\ wchan[p] = Nil /\ SetCache(t)
  BY DEF Release, IowaitWrite, Runs
<1>3. bp[p] \in Bufs BY <1>1, <1>2 DEF IInv, LocalsOK, TypeOK
<1>4. Cache.wchan = wchan /\ Cache.assoc = assoc BY DEF Cache
<1>5. Heeds(Cache, t) BY <1>1, <1>3, BrelseHeeds
<1> HIDE DEF t
<1> QED BY <1>2, <1>4, <1>5, RoutineMinds

(* The writes by the holder.                                               *)
LEMMA WritesMind ==
  ASSUME IInv, NEW p \in Procs, Stays(p), NEW v \in Vals, Bdwrite(p, v) \/ Bwrite(p, v) \/ Bawrite(p, v)
  PROVE  Minds(p)
<1> DEFINE b == bp[p]
           m == Modified(p, v)
           d == SetF(m, b, {"DELWRI", "DONE"}, {})
           n == SetF(m, b, {"ASYNC"}, {})
<1>1. Runs(p, "held") /\ CanWrite(p) /\ wchan[p] = Nil BY DEF Bdwrite, Bwrite, Bawrite, Runs
<1>2. b \in Bufs /\ m \in CacheType /\ m.assoc = assoc BY <1>1, HeldBuffer
<1>3. m.wchan = wchan BY DEF Modified, Cache
<1>4. SetCache(Brelse(d, b)) \/ SetCache(BwriteStart(m, b)) \/ SetCache(BwriteStart(n, b))
  BY DEF Bdwrite, Bwrite, Bawrite
<1> HIDE DEF m
<1>5. d \in CacheType /\ d.wchan = wchan /\ d.assoc = assoc
  BY <1>2, <1>3, FlagsWait DEF Flag
<1>6. n \in CacheType /\ n.wchan = wchan /\ n.assoc = assoc
  BY <1>2, <1>3, FlagsWait DEF Flag
<1> HIDE DEF d, n
<1>7. CASE SetCache(Brelse(d, b))
  <2> DEFINE t == Brelse(d, b)
  <2>1. Heeds(d, t) BY <1>2, <1>5, BrelseHeeds
  <2>2. SetCache(t) BY <1>7
  <2> HIDE DEF t
  <2> QED BY <1>1, <1>5, <2>1, <2>2, RoutineMinds
<1>8. ASSUME NEW s \in {m, n}, SetCache(BwriteStart(s, b)) PROVE Minds(p)
  <2> DEFINE t == BwriteStart(s, b)
  <2>1. s \in CacheType /\ s.wchan = wchan /\ s.assoc = assoc BY <1>2, <1>3, <1>6
  <2>2. Heeds(s, t) BY <1>2, <2>1, BwriteHeeds
  <2>3. SetCache(t) BY <1>8
  <2> HIDE DEF t
  <2> QED BY <1>1, <2>1, <2>2, <2>3, RoutineMinds
<1> QED BY <1>4, <1>7, <1>8

(* The writes of delayed victims by getblk, and by bflush, which goes on   *)
(* to set B_AGE.                                                           *)
LEMMA DelayedMind ==
  ASSUME IInv, NEW p \in Procs, Stays(p), GetblkDelwri(p) \/ BflushWrite(p)
  PROVE  Minds(p)
<1>1. TypeOK /\ Cache \in CacheType /\ IsInjective(free)
  BY TypeSplit DEF IInv, BusyIffNotAvailable
<1>2. wchan[p] = Nil BY DEF GetblkDelwri, BflushWrite, Runs
<1>3. /\ Cache.wchan = wchan /\ Cache.assoc = assoc /\ Cache.free = free BY DEF Cache
<1>4. CASE GetblkDelwri(p)
  <2> DEFINE b == Head(free)
             n == Notavail(Cache, b)
             s == SetF(n, b, {"ASYNC"}, {})
             t == BwriteStart(s, b)
  <2>1. free # <<>> /\ SetCache(t) BY <1>4 DEF GetblkDelwri
  <2>2. b \in Bufs /\ b \in ToSet(free) BY <1>1, <2>1, TailFacts DEF TypeOK
  <2>3. n \in CacheType /\ n.wchan = wchan /\ n.assoc = assoc
    BY <1>1, <1>3, <2>2, NotavailFields
  <2> HIDE DEF n
  <2>4. s \in CacheType /\ s.wchan = wchan /\ s.assoc = assoc BY <2>2, <2>3, FlagsWait DEF Flag
  <2> HIDE DEF s
  <2>5. Heeds(s, t) BY <2>2, <2>4, BwriteHeeds
  <2> HIDE DEF t
  <2> QED BY <1>2, <2>1, <2>4, <2>5, RoutineMinds
<1>5. CASE BflushWrite(p)
  <2>1. PICK i \in Delayed :
        SetCache(SetF(BwriteStart(Notavail(SetF(Cache, free[i], {"ASYNC"}, {}), free[i]), free[i]),
                      free[i], {"AGE"}, {}))
    BY <1>5 DEF BflushWrite
  <2> DEFINE b == free[i]
             n == SetF(Cache, b, {"ASYNC"}, {})
             s == Notavail(n, b)
             w == BwriteStart(s, b)
             t == SetF(w, b, {"AGE"}, {})
  <2>2. b \in Bufs /\ b \in ToSet(free)
    <3>1. i \in 1..Len(free) /\ free \in Seq(Bufs) BY <1>1 DEF Delayed, TypeOK
    <3> QED BY <3>1, InList
  <2>3. n \in CacheType /\ n.wchan = wchan /\ n.assoc = assoc /\ n.free = free
    BY <1>1, <1>3, <2>2 DEF SetF, CacheType, Flag
  <2>4. SetCache(t) BY <2>1
  <2> HIDE DEF n
  <2>5. s \in CacheType /\ s.wchan = wchan /\ s.assoc = assoc
    <3>1. b \in ToSet(n.free) /\ IsInjective(n.free) /\ n \in CacheType BY <1>1, <2>2, <2>3
    <3> HIDE DEF b
    <3>2. s \in CacheType /\ s.wchan = n.wchan /\ s.assoc = n.assoc BY <3>1, NotavailFields
    <3> QED BY <2>3, <3>2
  <2> HIDE DEF s
  <2>6. Heeds(s, w) BY <2>2, <2>5, BwriteHeeds
  <2>7. w \in CacheType BY <2>2, <2>5, BwriteType
  <2> HIDE DEF w
  <2>8. /\ t.wchan = w.wchan /\ t.assoc = w.assoc
        /\ \A c \in Bufs : "BUSY" \in t.flags[c] <=> "BUSY" \in w.flags[c]
    BY <2>2, <2>7 DEF SetF, CacheType
  <2>9. Heeds(s, t) BY <2>6, <2>8 DEF Heeds
  <2> HIDE DEF t
  <2> QED BY <1>2, <2>4, <2>5, <2>9, RoutineMinds
<1> QED BY <1>4, <1>5

(* The interrupt.                                                          *)
LEMMA SdxintrMinds ==
  ASSUME IInv, Sdxintr
  PROVE  Minds(Nobody) /\ NotJoining(Nobody)
<1> DEFINE b == Head(actq)
           e == SetF(Cache, b, {"ERROR"}, {})
           x == Transfer(Cache, b)
<1>1. TypeOK /\ Cache \in CacheType BY TypeSplit DEF IInv
<1>2. actq # <<>> BY DEF Sdxintr, IInv, DriverBusy
<1>3. b \in Bufs /\ b \in ToSet(actq) BY <1>1, <1>2, TailFacts DEF TypeOK
<1>4. Cache.wchan = wchan /\ Cache.assoc = assoc /\ Cache.actq = actq BY DEF Cache
<1>5. e \in CacheType /\ e.wchan = wchan /\ e.assoc = assoc /\ e.actq = actq
  BY <1>1, <1>3, <1>4 DEF SetF, CacheType, Flag
<1>6. x \in CacheType /\ x.wchan = wchan /\ x.assoc = assoc /\ x.actq = actq
  <2>1. assoc[b] \in Blocks BY <1>3 DEF IInv, QueueOK
  <2> QED BY <1>1, <1>3, <1>4, <2>1 DEF Transfer, CacheType
<1>7. SetCache(SdxintrDone(e, b)) \/ SetCache(SdxintrDone(x, b)) BY DEF Sdxintr
<1>8. UNCHANGED pvars BY DEF Sdxintr
<1> HIDE DEF e, x
<1>9. Calm(Nobody)
  <2>1. PICK s \in {e, x} : SetCache(SdxintrDone(s, b)) BY <1>7
  <2> DEFINE t == SdxintrDone(s, b)
  <2>2. s \in CacheType /\ s.wchan = wchan /\ s.assoc = assoc /\ s.actq # <<>> BY <1>2, <1>5, <1>6
  <2>3. Heeds(s, t) BY <1>3, <2>2, IntrHeeds
  <2>4. SetCache(t) BY <2>1
  <2> HIDE DEF t
  <2> QED BY <2>2, <2>3, <2>4, HeedsCalm
<1>10. Stays(Nobody) BY <1>8 DEF Stays, pvars
<1>11. Settles(Nobody) /\ NotJoining(Nobody) BY ProcsAssumption DEF Settles, NotJoining
<1> QED BY <1>9, <1>10, <1>11 DEF Minds

(* Every step of the system keeps both.                                    *)
LEMMA NextWaits ==
  ASSUME IInv, IInv', WaitsForIts, NoCircle, [Next]_vars
  PROVE  WaitsForIts' /\ NoCircle'
<1>1. CASE Sdxintr BY <1>1, SdxintrMinds, WaitsKept, CircleKept DEF Minds
<1>2. ASSUME NEW p \in Procs, Calls(p) \/ Releases(p) \/ Inside(p)
      PROVE  WaitsForIts' /\ NoCircle'
  <2>1. Stays(p) /\ (ReadAhead(p) \/ NotJoining(p)) BY <1>2, NobodyJoins
  <2>2. NoCircle' BY <2>1, CircleKept, ReadAheadJoins
  <2>3. Minds(p)
    <3>1. CASE Releases(p) BY <2>1, <3>1, ReleasesMind, WritesMind DEF Releases
    <3>2. CASE Calls(p) BY <2>1, <3>2, PlainActionsMind
    <3>3. CASE Inside(p)
      <4>1. ~StoreAge(p) BY DEF IInv, LocalsOK, StoreAge, Runs
      <4>2. CASE GetblkSearch(p) \/ LoadAge(p) \/ GotHeld(p) \/ ReadAhead(p) \/ IowaitRead(p)
                 \/ BflushEnd(p)
        BY <2>1, <4>2, PlainActionsMind
      <4>3. CASE GetblkBusy(p) \/ GetblkNone(p) \/ IowaitSleep(p) BY <2>1, <4>3, SleepsMind
      <4>4. CASE GetblkFound(p) \/ GetblkReassign(p) \/ SetAge(p) BY <2>1, <4>4, TakesMind
      <4>5. CASE GotBread(p) \/ GotBreada(p) \/ GotAhead(p) BY <2>1, <4>5, ReadsMind
      <4>6. CASE IowaitWrite(p) BY <2>1, <4>6, ReleasesMind
      <4>7. CASE GetblkDelwri(p) \/ BflushWrite(p) BY <2>1, <4>7, DelayedMind
      <4> QED BY <3>3, <4>1, <4>2, <4>3, <4>4, <4>5, <4>6, <4>7 DEF Inside
    <3> QED BY <1>2, <3>1, <3>2, <3>3
  <2> QED BY <2>1, <2>2, <2>3, WaitsKept DEF Minds
<1>3. CASE UNCHANGED vars
  BY <1>3 DEF vars, WaitsForIts, NoCircle, Ahead, Arg
<1> QED BY <1>1, <1>2, <1>3 DEF Next

(* At boot nobody waits.                                                   *)
LEMMA InitWaits == Init => WaitsForIts /\ NoCircle
BY BufsAssumption DEF Init, WaitsForIts, NoCircle, Ahead

(* A process holds one buffer at most, so the processes do not hold them   *)
(* all if there are more buffers than processes.                           *)
LEMMA TooFewToHold ==
  ASSUME IsFiniteSet(Procs), NBUF > Cardinality(Procs)
  PROVE  ~HeldAhead
<1> SUFFICES ASSUME HeldAhead PROVE FALSE
  OBVIOUS
<1> DEFINE f == [b \in Bufs |-> CHOOSE p \in Ahead : bp[p] = b]
<1>1. \A b \in Bufs : f[b] \in Procs /\ bp[f[b]] = b BY DEF HeldAhead, Ahead
<1>2. f \in Injection(Bufs, Procs)
  <2>1. f \in [Bufs -> Procs] BY <1>1
  <2> HIDE DEF f
  <2>2. \A a, b \in Bufs : f[a] = f[b] => a = b BY <1>1
  <2> QED BY <2>1, <2>2 DEF Injection, IsInjective
<1>3. Cardinality(Bufs) <= Cardinality(Procs) BY <1>2, FS_Injection
<1>4. Cardinality(Bufs) = NBUF
  <2>1. NBUF \in Nat BY BufsAssumption
  <2> QED BY <2>1, FS_Interval DEF Bufs
<1>5. Cardinality(Procs) \in Nat BY FS_CardinalityType
<1> QED BY <1>3, <1>4, <1>5, BufsAssumption

(* If all processes sleep in the cache and no transfer is under way, every *)
(* buffer is held by a breada that waits in getblk for the block to read   *)
(* ahead (bio.c:99-100).  There is no other way for them to hang: breada   *)
(* never waits in a circle, because it asks incore first.                  *)
THEOREM CacheHangsOnlyAhead ==
  ASSUME Faults \subseteq {"finish"}, Procs # {}
  PROVE  Spec => [](NotHungUp \/ HeldAhead)
<1>1. Init => IInv /\ WaitsForIts /\ NoCircle BY InitIInv, InitWaits
<1>2. IInv /\ WaitsForIts /\ NoCircle /\ [Next]_vars => (IInv /\ WaitsForIts /\ NoCircle)'
  <2>1. IInv /\ [Next]_vars => IInv' BY NextKeeps
  <2> QED BY <2>1, NextWaits
<1>3. IInv /\ WaitsForIts /\ NoCircle => NotHungUp \/ HeldAhead BY HangsOnlyAhead
<1> QED BY <1>1, <1>2, <1>3, PTL DEF Spec

(* With more buffers than processes, the processes never all sleep in the  *)
(* cache without a transfer under way that will wake one of them.          *)
THEOREM CacheNotHungUp ==
  ASSUME Faults \subseteq {"finish"}, Procs # {}, IsFiniteSet(Procs), NBUF > Cardinality(Procs)
  PROVE  Spec => []NotHungUp
<1>1. ~HeldAhead BY TooFewToHold
<1>2. (NotHungUp \/ HeldAhead) => NotHungUp BY <1>1
<1> QED BY <1>2, CacheHangsOnlyAhead, PTL
=============================================================================
