--------------------------- MODULE SleepQueueProofs ---------------------------
(***************************************************************************)
(* The queues of slp.c as linked lists, for any number of processes and    *)
(* channels, when no other channel is in the bucket of &runout: the lists  *)
(* that share p_link never run into each other, wakeup wakes all, and the  *)
(* swapper is called.                                                      *)
(***************************************************************************)
EXTENDS SleepQueue, FiniteSetTheorems, SequenceTheorems, WellFoundedInduction, TLAPS

----------------------------------------------------------------------------
(* Linked lists.                                                           *)

Ptr == All \cup {Nil}

Links == [All -> Ptr]

(* The i-th of a sequence, or NULL behind its end.                         *)
Nth(q, i) == IF i <= Len(q) THEN q[i] ELSE Nil

(* From hd along lk one meets q and then NULL.                             *)
Path(lk, hd, q) ==
  /\ q \in Seq(All)
  /\ \A i, j \in 1..Len(q) : q[i] = q[j] => i = j
  /\ hd = Nth(q, 1)
  /\ \A i \in 1..Len(q) : lk[q[i]] = Nth(q, i + 1)

(* The list at hd has the members S.                                       *)
List(lk, hd, S) == \E q : Path(lk, hd, q) /\ S = {q[i] : i \in 1..Len(q)}

(* A set of numbers that is not empty has a least.                         *)
LEMMA Least ==
  ASSUME NEW T, T \subseteq Nat, T # {}
  PROVE  \E x \in T : \A y \in T : x <= y
<1>1. \E x \in T : \A y \in T : ~(y < x)
  <2>1. \E x \in T : \A y \in T : <<y, x>> \notin OpToRel(<, Nat)
    BY WFMin, NatLessThanWellFounded, Zenon
  <2>2. PICK x \in T : \A y \in T : <<y, x>> \notin OpToRel(<, Nat)
    BY <2>1, Zenon
  <2>3. \A y \in T : y < x => <<y, x>> \in OpToRel(<, Nat) BY Zenon DEF OpToRel
  <2> QED BY <2>2, <2>3, Zenon
<1> QED BY <1>1

(* There are finitely many processes, and NULL is none of them.            *)
LEMMA AllFacts ==
  /\ IsFiniteSet(All) /\ Cardinality(All) \in Nat /\ Cardinality(All) > 0
  /\ Nil \notin All /\ Sched \in All /\ Procs = All \ {Sched}
<1>1. IsFiniteSet(All) BY ProcsAssumption, FS_AddElement DEF All
<1>2. Sched \in All BY DEF All
<1>3. Cardinality(All) \in Nat /\ Cardinality(All) # 0 BY <1>1, <1>2, FS_CardinalityType, FS_EmptySet
<1> QED BY <1>1, <1>2, <1>3, ProcsAssumption DEF All

(* The members of a path are as many as it is long.                        *)
LEMMA PathLength ==
  ASSUME NEW lk, NEW hd, NEW q, Path(lk, hd, q)
  PROVE  /\ Len(q) \in Nat /\ Len(q) <= Cardinality(All)
         /\ Cardinality({q[i] : i \in 1..Len(q)}) = Len(q)
<1> DEFINE S == {q[i] : i \in 1..Len(q)}
           f == [i \in 1..Len(q) |-> q[i]]
<1>1. q \in Seq(All) /\ Len(q) \in Nat BY DEF Path
<1>2. f \in [1..Len(q) -> S] OBVIOUS
<1>3. \A i, j \in 1..Len(q) : f[i] = f[j] => i = j BY DEF Path
<1>4. \A x \in S : \E i \in 1..Len(q) : f[i] = x OBVIOUS
<1>5. S \subseteq All BY <1>1
<1> HIDE DEF f, S
<1>6. ExistsBijection(1..Len(q), S)
  BY <1>2, <1>3, <1>4 DEF ExistsBijection, Bijection, Injection, Surjection, IsInjective
<1>7. IsFiniteSet(1..Len(q)) /\ Cardinality(1..Len(q)) = Len(q)
  <2>1. 1 \in Int /\ Len(q) \in Int BY <1>1
  <2>2. /\ IsFiniteSet(1..Len(q))
        /\ Cardinality(1..Len(q)) = IF 1 > Len(q) THEN 0 ELSE Len(q) - 1 + 1
    BY <2>1, FS_Interval, Zenon
  <2> QED BY <1>1, <2>2
<1>8. Cardinality(S) = Len(q) BY <1>6, <1>7, FS_Bijection
<1>9. Cardinality(S) <= Cardinality(All) BY <1>5, AllFacts, FS_Subset
<1> QED BY <1>1, <1>8, <1>9 DEF S

(* The equation that the walk along a list solves.                         *)
Walks(f, lk, hd) ==
  f = [k \in 0..Cardinality(All) |->
         IF k = 0 THEN hd ELSE IF f[k - 1] = Nil THEN Nil ELSE lk[f[k - 1]]]

(* The walk follows a path to its end, and then stands still.              *)
LEMMA WalkPath ==
  ASSUME NEW lk, NEW hd, NEW q, Path(lk, hd, q)
  PROVE  /\ Walks([k \in 0..Cardinality(All) |-> Nth(q, k + 1)], lk, hd)
         /\ \A f : Walks(f, lk, hd) => \A k \in 0..Cardinality(All) : f[k] = Nth(q, k + 1)
<1> DEFINE N == Cardinality(All)
<1>1. N \in Nat /\ Nil \notin All BY AllFacts
<1>2. /\ q \in Seq(All) /\ Len(q) \in Nat /\ hd = Nth(q, 1)
      /\ \A i \in 1..Len(q) : q[i] \in All /\ lk[q[i]] = Nth(q, i + 1)
  BY DEF Path
<1> HIDE DEF N
<1>3. \A k \in 0..N : k # 0 =>
        Nth(q, k + 1) = IF Nth(q, k) = Nil THEN Nil ELSE lk[Nth(q, k)]
  <2> TAKE k \in 0..N
  <2>1. CASE k \in 1..Len(q) BY <1>1, <1>2, <2>1 DEF Nth
  <2>2. CASE k # 0 /\ k \notin 1..Len(q)
    <3>1. ~(k <= Len(q)) /\ ~(k + 1 <= Len(q)) BY <1>1, <1>2, <2>2
    <3> QED BY <3>1 DEF Nth
  <2> QED BY <2>1, <2>2
<1>4. Walks([k \in 0..N |-> Nth(q, k + 1)], lk, hd)
  <2> DEFINE f == [k \in 0..N |-> Nth(q, k + 1)]
             g == [k \in 0..N |-> IF k = 0 THEN hd ELSE IF f[k - 1] = Nil THEN Nil ELSE lk[f[k - 1]]]
  <2>1. \A k \in 0..N : k # 0 => f[k - 1] = Nth(q, k)
    <3> TAKE k \in 0..N
    <3> HAVE k # 0
    <3>1. k - 1 \in 0..N /\ (k - 1) + 1 = k BY <1>1
    <3> QED BY <3>1
  <2>2. \A k \in 0..N : f[k] = Nth(q, k + 1) OBVIOUS
  <2>3. \A k \in 0..N : f[k] = IF k = 0 THEN hd ELSE IF f[k - 1] = Nil THEN Nil ELSE lk[f[k - 1]]
    <3> HIDE DEF f
    <3> TAKE k \in 0..N
    <3>1. CASE k = 0
      <4>1. f[0] = Nth(q, 0 + 1) BY <2>2, <3>1
      <4>2. Nth(q, 0 + 1) = hd BY <1>2
      <4> QED BY <3>1, <4>1, <4>2
    <3>2. CASE k # 0 BY <1>3, <2>1, <2>2, <3>2
    <3> QED BY <3>1, <3>2
  <2>4. f = g
    <3>1. \A k \in 0..N : f[k] = g[k] BY <2>3
    <3>2. f = [k \in 0..N |-> f[k]] OBVIOUS
    <3>3. g = [k \in 0..N |-> g[k]] OBVIOUS
    <3> HIDE DEF f, g
    <3> QED BY <3>1, <3>2, <3>3
  <2> QED BY <2>4, Zenon DEF Walks, N
<1>5. ASSUME NEW f, Walks(f, lk, hd) PROVE \A k \in 0..N : f[k] = Nth(q, k + 1)
  <2> DEFINE T == {k \in 0..N : f[k] # Nth(q, k + 1)}
  <2>1. \A k \in 0..N : f[k] = IF k = 0 THEN hd ELSE IF f[k - 1] = Nil THEN Nil ELSE lk[f[k - 1]]
    BY <1>5, Zenon DEF Walks, N
  <2> SUFFICES ASSUME T # {} PROVE FALSE OBVIOUS
  <2>2. PICK k \in T : \A y \in T : k <= y
    <3>1. T \subseteq Nat OBVIOUS
    <3> HIDE DEF T
    <3> QED BY <3>1, Least
  <2>3. CASE k = 0
    <3>1. f[0] = hd /\ Nth(q, 0 + 1) = hd BY <1>1, <1>2, <2>1
    <3> QED BY <2>2, <2>3, <3>1
  <2>4. CASE k # 0
    <3>1. k - 1 \in 0..N /\ k - 1 < k /\ (k - 1) + 1 = k BY <1>1, <2>4
    <3>2. k - 1 \notin T BY <1>1, <2>2, <3>1
    <3>3. f[k - 1] = Nth(q, k) BY <3>1, <3>2
    <3>4. f[k] = Nth(q, k + 1) BY <1>3, <2>1, <2>4, <3>3
    <3> QED BY <2>2, <3>4
  <2> QED BY <2>3, <2>4
<1> QED BY <1>4, <1>5 DEF N

(* What the walk meets are the members of the list.                        *)
LEMMA WalkList ==
  ASSUME NEW lk, NEW hd, NEW S, List(lk, hd, S)
  PROVE  Walk(lk, hd) = S
<1> DEFINE N == Cardinality(All)
           at == CHOOSE f : Walks(f, lk, hd)
<1>1. PICK q : Path(lk, hd, q) /\ S = {q[i] : i \in 1..Len(q)} BY DEF List
<1>2. Walks(at, lk, hd) BY <1>1, WalkPath
<1>3. Walk(lk, hd) = {at[k] : k \in 0..N} \ {Nil} BY Zenon DEF Walk, Walks
<1> HIDE DEF at
<1>4. \A k \in 0..N : at[k] = Nth(q, k + 1) BY <1>1, <1>2, WalkPath
<1>5. N \in Nat /\ Nil \notin All BY AllFacts
<1>6. Len(q) \in Nat /\ Len(q) <= N BY <1>1, PathLength
<1>7. \A i \in 1..Len(q) : q[i] \in All BY <1>1 DEF Path
<1> HIDE DEF N
<1>8. ASSUME NEW x \in {at[k] : k \in 0..N} \ {Nil} PROVE x \in S
  <2>1. PICK k \in 0..N : x = at[k] BY <1>8
  <2>2. x = Nth(q, k + 1) /\ x # Nil BY <1>4, <1>8, <2>1
  <2>3. k + 1 \in 1..Len(q) /\ x = q[k + 1] BY <1>5, <1>6, <2>2 DEF Nth
  <2> QED BY <1>1, <2>3
<1>9. ASSUME NEW x \in S PROVE x \in {at[k] : k \in 0..N} \ {Nil}
  <2>1. PICK i \in 1..Len(q) : x = q[i] BY <1>1, <1>9
  <2>2. i - 1 \in 0..N /\ (i - 1) + 1 = i /\ i <= Len(q) BY <1>5, <1>6
  <2>3. at[i - 1] = Nth(q, i) BY <1>4, <2>2
  <2>4. at[i - 1] = x BY <2>1, <2>2, <2>3 DEF Nth
  <2> QED BY <1>5, <1>7, <2>1, <2>2, <2>4
<1> QED BY <1>3, <1>8, <1>9

(* A list is empty where its head is NULL.                                 *)
LEMMA ListHead ==
  ASSUME NEW lk, NEW hd, NEW S, List(lk, hd, S)
  PROVE  /\ S \subseteq All /\ IsFiniteSet(S)
         /\ hd = Nil => S = {}
         /\ hd # Nil => hd \in S
<1>1. PICK q : Path(lk, hd, q) /\ S = {q[i] : i \in 1..Len(q)} BY DEF List
<1>2. q \in Seq(All) /\ Len(q) \in Nat /\ hd = Nth(q, 1) BY <1>1 DEF Path
<1>3. S \subseteq All BY <1>1, <1>2
<1>4. IsFiniteSet(S) BY <1>3, AllFacts, FS_Subset
<1>5. CASE Len(q) = 0
  <2>1. hd = Nil /\ S = {} BY <1>1, <1>2, <1>5 DEF Nth
  <2> QED BY <1>3, <1>4, <2>1
<1>6. CASE Len(q) # 0
  <2>1. 1 \in 1..Len(q) /\ hd = q[1] BY <1>2, <1>6 DEF Nth
  <2>2. hd \in S BY <1>1, <2>1
  <2>3. hd # Nil BY <1>3, <2>2, AllFacts
  <2> QED BY <1>3, <1>4, <2>2, <2>3
<1> QED BY <1>5, <1>6

(* The list without members.                                               *)
LEMMA ListEmpty ==
  ASSUME NEW lk
  PROVE  List(lk, Nil, {})
<1>1. Path(lk, Nil, <<>>) BY DEF Path, Nth
<1>2. {<<>>[i] : i \in 1..Len(<<>>)} = {} OBVIOUS
<1> QED BY <1>1, <1>2 DEF List

(* Links of others do not matter.                                          *)
LEMMA ListFrame ==
  ASSUME NEW lk, NEW hd, NEW S, List(lk, hd, S), NEW lk2, \A x \in S : lk2[x] = lk[x]
  PROVE  List(lk2, hd, S)
<1>1. PICK q : Path(lk, hd, q) /\ S = {q[i] : i \in 1..Len(q)} BY DEF List
<1>2. \A i \in 1..Len(q) : lk2[q[i]] = lk[q[i]] BY <1>1
<1>3. Path(lk2, hd, q) BY <1>1, <1>2 DEF Path
<1> QED BY <1>1, <1>3 DEF List

(* One more in front.                                                      *)
LEMMA ListPush ==
  ASSUME NEW lk \in Links, NEW hd, NEW S, List(lk, hd, S), NEW p \in All, p \notin S
  PROVE  List([lk EXCEPT ![p] = hd], p, S \cup {p})
<1> DEFINE lk2 == [lk EXCEPT ![p] = hd]
<1>1. PICK q : Path(lk, hd, q) /\ S = {q[i] : i \in 1..Len(q)} BY DEF List
<1> DEFINE r == <<p>> \o q
<1>2. /\ q \in Seq(All) /\ Len(q) \in Nat /\ hd = Nth(q, 1)
      /\ \A i, j \in 1..Len(q) : q[i] = q[j] => i = j
      /\ \A i \in 1..Len(q) : lk[q[i]] = Nth(q, i + 1)
  BY <1>1 DEF Path
<1>3. /\ r \in Seq(All) /\ Len(r) = Len(q) + 1 /\ r[1] = p
      /\ \A i \in 2..(Len(q) + 1) : r[i] = q[i - 1]
  <2>1. <<p>> \in Seq(All) /\ Len(<<p>>) = 1 /\ <<p>>[1] = p OBVIOUS
  <2> QED BY <1>2, <2>1, ConcatProperties
<1> HIDE DEF r
<1>4. \A i \in 1..Len(q) : q[i] \in S /\ q[i] # p BY <1>1
<1>5. lk2[p] = hd /\ \A x \in All \ {p} : lk2[x] = lk[x] BY DEF Links
<1> HIDE DEF lk2
<1>6. \A i \in 1..Len(r) : i = 1 \/ (i - 1 \in 1..Len(q) /\ r[i] = q[i - 1]) BY <1>2, <1>3
<1>7. \A i, j \in 1..Len(r) : r[i] = r[j] => i = j
  <2> TAKE i, j \in 1..Len(r)
  <2> HAVE r[i] = r[j]
  <2>1. CASE i = 1 /\ j = 1 BY <2>1
  <2>2. CASE i = 1 /\ j # 1
    <3>1. j - 1 \in 1..Len(q) /\ r[j] = q[j - 1] BY <1>6, <2>2
    <3>2. r[j] # p BY <1>4, <3>1
    <3> QED BY <1>3, <2>2, <3>2
  <2>3. CASE i # 1 /\ j = 1
    <3>1. i - 1 \in 1..Len(q) /\ r[i] = q[i - 1] BY <1>6, <2>3
    <3>2. r[i] # p BY <1>4, <3>1
    <3> QED BY <1>3, <2>3, <3>2
  <2>4. CASE i # 1 /\ j # 1
    <3>1. i - 1 \in 1..Len(q) /\ r[i] = q[i - 1] BY <1>6, <2>4
    <3>2. j - 1 \in 1..Len(q) /\ r[j] = q[j - 1] BY <1>6, <2>4
    <3>3. i - 1 = j - 1 BY <1>2, <3>1, <3>2
    <3> QED BY <3>3
  <2> QED BY <2>1, <2>2, <2>3, <2>4
<1>8. \A i \in 1..Len(q) : Nth(r, i + 1) = q[i]
  <2> TAKE i \in 1..Len(q)
  <2>1. i + 1 \in 2..(Len(q) + 1) /\ (i + 1) - 1 = i BY <1>2
  <2> QED BY <1>3, <2>1 DEF Nth
<1>9. Nth(r, Len(q) + 2) = Nil /\ Nth(q, Len(q) + 1) = Nil BY <1>2, <1>3 DEF Nth
<1>10. \A i \in 1..(Len(q) + 1) : Nth(r, i + 1) = Nth(q, i)
  <2> TAKE i \in 1..(Len(q) + 1)
  <2>1. CASE i \in 1..Len(q) BY <1>8, <2>1 DEF Nth
  <2>2. CASE i = Len(q) + 1 BY <1>2, <1>9, <2>2
  <2> QED BY <1>2, <2>1, <2>2
<1>11. \A i \in 1..Len(r) : lk2[r[i]] = Nth(r, i + 1)
  <2> TAKE i \in 1..Len(r)
  <2>1. Nth(r, i + 1) = Nth(q, i) BY <1>3, <1>10
  <2>2. CASE i = 1 BY <1>2, <1>3, <1>5, <2>1, <2>2
  <2>3. CASE i # 1
    <3>1. i - 1 \in 1..Len(q) /\ r[i] = q[i - 1] BY <1>6, <2>3
    <3>4. (i - 1) + 1 = i OBVIOUS
    <3>2. lk2[r[i]] = lk[q[i - 1]] BY <1>2, <1>4, <1>5, <3>1
    <3>3. lk[q[i - 1]] = Nth(q, i) BY <1>2, <3>1, <3>4
    <3> QED BY <2>1, <3>2, <3>3
  <2> QED BY <2>2, <2>3
<1>12. Nth(r, 1) = p BY <1>2, <1>3 DEF Nth
<1>13. Path(lk2, p, r) BY <1>3, <1>7, <1>11, <1>12 DEF Path
<1>14. S \cup {p} = {r[i] : i \in 1..Len(r)}
  <2>1. ASSUME NEW x \in S PROVE x \in {r[i] : i \in 1..Len(r)}
    <3>1. PICK i \in 1..Len(q) : x = q[i] BY <1>1, <2>1
    <3>2. i + 1 \in 2..(Len(q) + 1) /\ (i + 1) - 1 = i /\ i + 1 \in 1..Len(r) BY <1>2, <1>3
    <3> QED BY <1>3, <3>1, <3>2
  <2>2. p \in {r[i] : i \in 1..Len(r)} BY <1>2, <1>3
  <2>3. \A i \in 1..Len(r) : r[i] \in S \cup {p} BY <1>3, <1>4, <1>6
  <2> QED BY <2>1, <2>2, <2>3
<1> QED BY <1>13, <1>14, Zenon DEF List, lk2

(* The first taken off.                                                    *)
LEMMA ListPop ==
  ASSUME NEW lk, NEW p, NEW S, List(lk, p, S), p # Nil
  PROVE  p \in S /\ lk[p] # p /\ List(lk, lk[p], S \ {p})
<1>1. PICK q : Path(lk, p, q) /\ S = {q[i] : i \in 1..Len(q)} BY DEF List
<1> DEFINE r == Tail(q)
<1>2. /\ q \in Seq(All) /\ Len(q) \in Nat /\ p = Nth(q, 1)
      /\ \A i, j \in 1..Len(q) : q[i] = q[j] => i = j
      /\ \A i \in 1..Len(q) : lk[q[i]] = Nth(q, i + 1)
  BY <1>1 DEF Path
<1>3. Len(q) > 0 /\ q[1] = p /\ q # <<>> BY <1>2 DEF Nth
<1>4. /\ r \in Seq(All) /\ Len(r) = Len(q) - 1 /\ \A i \in 1..Len(r) : r[i] = q[i + 1]
  BY <1>2, <1>3, HeadTailProperties
<1> HIDE DEF r
<1>5. \A i \in 1..Len(r) : i + 1 \in 1..Len(q) /\ i + 1 # 1 BY <1>2, <1>4
<1>6. \A i, j \in 1..Len(r) : r[i] = r[j] => i = j
  <2> TAKE i, j \in 1..Len(r)
  <2> HAVE r[i] = r[j]
  <2>1. q[i + 1] = q[j + 1] BY <1>4
  <2>2. i + 1 = j + 1 BY <1>2, <1>5, <2>1
  <2> QED BY <2>2
<1>7. \A i \in Nat : Nth(r, i) = IF i = 0 THEN Nth(r, i) ELSE Nth(q, i + 1)
  <2> TAKE i \in Nat
  <2>1. CASE i \in 1..Len(r)
    <3>1. i <= Len(r) /\ i + 1 <= Len(q) BY <1>2, <1>4, <2>1
    <3> QED BY <1>4, <2>1, <3>1 DEF Nth
  <2>2. CASE i # 0 /\ i \notin 1..Len(r)
    <3>1. ~(i <= Len(r)) /\ ~(i + 1 <= Len(q)) BY <1>2, <1>4, <2>2
    <3> QED BY <2>2, <3>1 DEF Nth
  <2> QED BY <2>1, <2>2
<1>8. \A i \in 1..Len(r) : lk[r[i]] = Nth(r, i + 1)
  <2> TAKE i \in 1..Len(r)
  <2>1. lk[r[i]] = Nth(q, (i + 1) + 1) BY <1>2, <1>4, <1>5
  <2>2. i + 1 \in Nat /\ i + 1 # 0 BY <1>4
  <2> QED BY <1>7, <2>1, <2>2
<1>9. lk[p] = Nth(r, 1)
  <2>1. 1 \in 1..Len(q) BY <1>2, <1>3
  <2>2. lk[p] = Nth(q, 1 + 1) BY <1>2, <1>3, <2>1
  <2> QED BY <1>7, <2>2
<1>10. Path(lk, lk[p], r) BY <1>4, <1>6, <1>8, <1>9 DEF Path
<1>11. S \ {p} = {r[i] : i \in 1..Len(r)}
  <2>1. ASSUME NEW x \in S \ {p} PROVE x \in {r[i] : i \in 1..Len(r)}
    <3>1. PICK i \in 1..Len(q) : x = q[i] BY <1>1, <2>1
    <3>2. i # 1 BY <1>3, <2>1, <3>1
    <3>3. i - 1 \in 1..Len(r) /\ (i - 1) + 1 = i BY <1>2, <1>4, <3>2
    <3> QED BY <1>4, <3>1, <3>3
  <2>2. ASSUME NEW i \in 1..Len(r) PROVE r[i] \in S \ {p}
    <3>1. r[i] = q[i + 1] /\ i + 1 \in 1..Len(q) /\ i + 1 # 1 /\ 1 \in 1..Len(q)
      BY <1>2, <1>3, <1>4, <1>5
    <3>2. q[i + 1] # q[1] BY <1>2, <3>1
    <3> QED BY <1>1, <1>3, <3>1, <3>2
  <2> QED BY <2>1, <2>2
<1>12. p \in S BY <1>1, <1>2, <1>3
<1>13. lk[p] # p
  <2>1. List(lk, lk[p], S \ {p}) BY <1>10, <1>11 DEF List
  <2>2. lk[p] # Nil => lk[p] \in S \ {p} BY <2>1, ListHead
  <2>3. p # Nil OBVIOUS
  <2> QED BY <2>2, <2>3
<1> QED BY <1>10, <1>11, <1>12, <1>13 DEF List

(* The successor of a member unlinked.                                     *)
LEMMA ListUnlink ==
  ASSUME NEW lk \in Links, NEW hd, NEW S, List(lk, hd, S), NEW x \in S, NEW p, lk[x] = p, p # Nil
  PROVE  p \in S /\ p # x /\ List([lk EXCEPT ![x] = lk[p]], hd, S \ {p})
<1> DEFINE lk2 == [lk EXCEPT ![x] = lk[p]]
<1>1. PICK q : Path(lk, hd, q) /\ S = {q[i] : i \in 1..Len(q)} BY DEF List
<1>2. /\ q \in Seq(All) /\ Len(q) \in Nat /\ hd = Nth(q, 1)
      /\ \A i, j \in 1..Len(q) : q[i] = q[j] => i = j
      /\ \A i \in 1..Len(q) : q[i] \in All /\ lk[q[i]] = Nth(q, i + 1)
  BY <1>1 DEF Path
<1>3. PICK k \in 1..Len(q) : x = q[k] BY <1>1
<1>4. k + 1 \in 1..Len(q) /\ p = q[k + 1] BY <1>2, <1>3 DEF Nth
<1>5. p \in S /\ p # x
  <2>1. k + 1 # k BY <1>3
  <2> QED BY <1>1, <1>2, <1>3, <1>4, <2>1
<1> DEFINE n == Len(q) - 1
           r == [i \in 1..n |-> IF i <= k THEN q[i] ELSE q[i + 1]]
<1>6. n \in Nat /\ n + 1 = Len(q) /\ k \in 1..n BY <1>2, <1>3, <1>4
<1> HIDE DEF n
<1>7. /\ \A i \in 1..k : i \in 1..n /\ i \in 1..Len(q) /\ r[i] = q[i]
      /\ \A i \in (k + 1)..n : i \in 1..n /\ i + 1 \in 1..Len(q) /\ r[i] = q[i + 1]
  BY <1>6
<1>8. r \in Seq(All) /\ Len(r) = n
  <2>1. \A i \in 1..n : (IF i <= k THEN q[i] ELSE q[i + 1]) \in All
    <3> TAKE i \in 1..n
    <3>1. i \in 1..Len(q) /\ i + 1 \in 1..Len(q) BY <1>6
    <3> QED BY <1>2, <3>1
  <2>2. r \in [1..n -> All] BY <2>1
  <2> HIDE DEF r
  <2> QED BY <1>6, <2>2, SeqDef
<1> HIDE DEF r
<1>9. \A i \in 1..n : i \in 1..k \/ i \in (k + 1)..n BY <1>6
<1>10. \A i, j \in 1..n : r[i] = r[j] => i = j
  <2> TAKE i, j \in 1..n
  <2> HAVE r[i] = r[j]
  <2>1. CASE i \in 1..k /\ j \in 1..k BY <1>2, <1>7, <2>1
  <2>2. CASE i \in 1..k /\ j \in (k + 1)..n
    <3>1. q[i] = q[j + 1] BY <1>7, <2>2
    <3>2. i = j + 1 BY <1>2, <1>7, <2>2, <3>1
    <3> QED BY <1>6, <2>2, <3>2
  <2>3. CASE i \in (k + 1)..n /\ j \in 1..k
    <3>1. q[i + 1] = q[j] BY <1>7, <2>3
    <3>2. i + 1 = j BY <1>2, <1>7, <2>3, <3>1
    <3> QED BY <1>6, <2>3, <3>2
  <2>4. CASE i \in (k + 1)..n /\ j \in (k + 1)..n
    <3>1. q[i + 1] = q[j + 1] BY <1>7, <2>4
    <3>2. i + 1 = j + 1 BY <1>2, <1>7, <2>4, <3>1
    <3> QED BY <3>2
  <2> QED BY <1>9, <2>1, <2>2, <2>3, <2>4
<1>11. \A i \in 1..k : Nth(r, i) = Nth(q, i) BY <1>6, <1>7, <1>8 DEF Nth
<1>12. \A i \in (k + 1)..(n + 1) : Nth(r, i) = Nth(q, i + 1)
  <2> TAKE i \in (k + 1)..(n + 1)
  <2>1. CASE i \in (k + 1)..n
    <3>1. i <= n /\ i + 1 <= n + 1 BY <1>6, <2>1
    <3> QED BY <1>6, <1>7, <1>8, <2>1, <3>1 DEF Nth
  <2>2. CASE i = n + 1
    <3>1. ~(i <= n) /\ ~(i + 1 <= n + 1) BY <1>6, <2>2
    <3> QED BY <1>6, <1>8, <3>1 DEF Nth
  <2> QED BY <1>6, <2>1, <2>2
<1>13. lk2[x] = lk[p] /\ \A y \in All \ {x} : lk2[y] = lk[y]
  <2>1. x \in All BY <1>2, <1>3
  <2> QED BY <2>1 DEF Links
<1> HIDE DEF lk2
<1>14. \A i \in 1..n : lk2[r[i]] = Nth(r, i + 1)
  <2> TAKE i \in 1..n
  <2>1. CASE i \in 1..(k - 1)
    <3>1. i \in 1..k /\ i + 1 \in 1..k /\ i # k BY <1>6, <2>1
    <3>2. r[i] = q[i] /\ q[i] # x /\ q[i] \in All BY <1>2, <1>3, <1>7, <3>1
    <3>3. lk2[r[i]] = Nth(q, i + 1) BY <1>2, <1>7, <1>13, <3>1, <3>2
    <3> QED BY <1>11, <3>1, <3>3
  <2>2. CASE i = k
    <3>1. r[i] = x BY <1>3, <1>6, <1>7, <2>2
    <3>2. lk[p] = Nth(q, (k + 1) + 1) BY <1>2, <1>4
    <3>3. k + 1 \in (k + 1)..(n + 1) BY <1>6
    <3>4. Nth(r, k + 1) = Nth(q, (k + 1) + 1) BY <1>12, <3>3
    <3> QED BY <1>13, <2>2, <3>1, <3>2, <3>4
  <2>3. CASE i \in (k + 1)..n
    <3>1. i + 1 \in (k + 1)..(n + 1) /\ i + 1 \in 1..Len(q) /\ i + 1 # k BY <1>6, <1>7, <2>3
    <3>2. r[i] = q[i + 1] /\ q[i + 1] # x /\ q[i + 1] \in All BY <1>2, <1>3, <1>7, <2>3, <3>1
    <3>3. lk2[r[i]] = Nth(q, (i + 1) + 1) BY <1>2, <1>13, <3>1, <3>2
    <3> QED BY <1>12, <3>1, <3>3
  <2> QED BY <1>6, <2>1, <2>2, <2>3
<1>15. hd = Nth(r, 1) BY <1>2, <1>6, <1>11
<1>16. Path(lk2, hd, r) BY <1>8, <1>10, <1>14, <1>15 DEF Path
<1>17. S \ {p} = {r[i] : i \in 1..Len(r)}
  <2>1. ASSUME NEW y \in S \ {p} PROVE y \in {r[i] : i \in 1..Len(r)}
    <3>1. PICK i \in 1..Len(q) : y = q[i] BY <1>1, <2>1
    <3>2. i # k + 1 BY <1>4, <2>1, <3>1
    <3>3. CASE i <= k
      <4>1. i \in 1..k BY <3>3
      <4> QED BY <1>7, <1>8, <3>1, <4>1
    <3>4. CASE ~(i <= k)
      <4>1. i - 1 \in (k + 1)..n /\ (i - 1) + 1 = i BY <1>6, <3>2, <3>4
      <4> QED BY <1>7, <1>8, <3>1, <4>1
    <3> QED BY <3>3, <3>4
  <2>2. ASSUME NEW i \in 1..n PROVE r[i] \in S \ {p}
    <3>1. CASE i \in 1..k
      <4>1. i # k + 1 BY <1>6, <3>1
      <4>2. q[i] # q[k + 1] BY <1>2, <1>4, <1>7, <3>1, <4>1
      <4> QED BY <1>1, <1>4, <1>7, <3>1, <4>2
    <3>2. CASE i \in (k + 1)..n
      <4>1. i + 1 # k + 1 BY <1>6, <3>2
      <4>2. q[i + 1] # q[k + 1] BY <1>2, <1>4, <1>7, <3>2, <4>1
      <4> QED BY <1>1, <1>4, <1>7, <3>2, <4>2
    <3> QED BY <1>9, <3>1, <3>2
  <2> QED BY <1>8, <2>1, <2>2
<1> QED BY <1>5, <1>16, <1>17, Zenon DEF List, lk2
----------------------------------------------------------------------------
(* The queues while a routine works on them.                               *)

QueueSet ==
  [slpque : [Buckets -> Ptr], runq : Ptr, link : Links, wchan : [All -> Chans \cup {Runout, Nil}],
   stat : [All -> {"none", "SRUN", "SSLEEP"}], runout : BOOLEAN]

(* Those asleep on a channel of bucket h.                                  *)
Sleepers(wc, h) == {p \in All : wc[p] # Nil /\ Hash[wc[p]] = h}

(* The lists hold the sleepers, bucket by bucket, and R.                   *)
Sound(s, R) ==
  /\ s \in QueueSet
  /\ \A h \in Buckets : List(s.link, s.slpque[h], Sleepers(s.wchan, h))
  /\ List(s.link, s.runq, R)
  /\ \A p \in R : s.wchan[p] = Nil

(* Buckets hold nobody twice.                                              *)
LEMMA SleepersApart ==
  ASSUME NEW s \in QueueSet, NEW p \in All
  PROVE  /\ s.wchan[p] # Nil => Hash[s.wchan[p]] \in Buckets
         /\ \A h : p \in Sleepers(s.wchan, h) <=> s.wchan[p] # Nil /\ Hash[s.wchan[p]] = h
  BY DEF QueueSet, Sleepers, Buckets

(* What setrq stores, for a process that is not on the run queue.          *)
LEMMA SetrqStores ==
  ASSUME NEW s \in QueueSet, NEW p \in All, p \notin Walk(s.link, s.runq)
  PROVE  /\ Setrq(s, p) \in QueueSet
         /\ Setrq(s, p).runq = p /\ Setrq(s, p).link = [s.link EXCEPT ![p] = s.runq]
         /\ Setrq(s, p).slpque = s.slpque /\ Setrq(s, p).wchan = s.wchan
         /\ Setrq(s, p).stat = s.stat /\ Setrq(s, p).runout = s.runout
<1> DEFINE t == [s EXCEPT !.link[p] = s.runq, !.runq = p]
<1>1. Setrq(s, p) = t BY Zenon DEF Setrq
<1>2. /\ t.runq = p /\ t.link = [s.link EXCEPT ![p] = s.runq] /\ t.slpque = s.slpque
      /\ t.wchan = s.wchan /\ t.stat = s.stat /\ t.runout = s.runout
  BY DEF QueueSet
<1>3. [s.link EXCEPT ![p] = s.runq] \in Links BY DEF QueueSet, Links
<1>4. p \in Ptr BY DEF Ptr
<1>5. t \in QueueSet BY <1>3, <1>4 DEF QueueSet
<1> QED BY <1>1, <1>2, <1>5, Zenon

(* setrq of a process that is on no list.                                  *)
LEMMA SetrqSound ==
  ASSUME NEW s, NEW R, Sound(s, R), NEW p \in All, s.wchan[p] = Nil, p \notin R
  PROVE  /\ Sound(Setrq(s, p), R \cup {p})
         /\ Setrq(s, p).slpque = s.slpque /\ Setrq(s, p).wchan = s.wchan
         /\ Setrq(s, p).stat = s.stat /\ Setrq(s, p).runout = s.runout
         /\ \A x \in All \ {p} : Setrq(s, p).link[x] = s.link[x]
<1> DEFINE t == Setrq(s, p)
<1>1. /\ s \in QueueSet /\ List(s.link, s.runq, R) /\ \A x \in R : s.wchan[x] = Nil
      /\ \A h \in Buckets : List(s.link, s.slpque[h], Sleepers(s.wchan, h))
  BY DEF Sound
<1>2. Walk(s.link, s.runq) = R BY <1>1, WalkList
<1>3. /\ t \in QueueSet /\ t.runq = p /\ t.link = [s.link EXCEPT ![p] = s.runq]
      /\ t.slpque = s.slpque /\ t.wchan = s.wchan /\ t.stat = s.stat /\ t.runout = s.runout
  BY <1>1, <1>2, SetrqStores
<1> HIDE DEF t
<1>4. s.link \in Links BY <1>1 DEF QueueSet
<1>5. List(t.link, t.runq, R \cup {p}) BY <1>1, <1>3, <1>4, ListPush
<1>6. \A x \in All \ {p} : t.link[x] = s.link[x] BY <1>3, <1>4 DEF Links
<1>7. ASSUME NEW h \in Buckets PROVE List(t.link, t.slpque[h], Sleepers(t.wchan, h))
  <2>1. List(s.link, s.slpque[h], Sleepers(s.wchan, h)) BY <1>1
  <2>2. \A x \in Sleepers(s.wchan, h) : t.link[x] = s.link[x] BY <1>6 DEF Sleepers
  <2>3. List(t.link, s.slpque[h], Sleepers(s.wchan, h)) BY <2>1, <2>2, ListFrame
  <2> QED BY <1>3, <2>3
<1>8. \A x \in R \cup {p} : t.wchan[x] = Nil BY <1>1, <1>3
<1>9. Sound(t, R \cup {p}) BY <1>3, <1>5, <1>7, <1>8 DEF Sound
<1> QED BY <1>3, <1>6, <1>9, Zenon DEF t

(* A new p_stat alone.                                                     *)
LEMMA StatSound ==
  ASSUME NEW s, NEW R, Sound(s, R), NEW p \in All
  PROVE  /\ Sound([s EXCEPT !.stat[p] = "SRUN"], R)
         /\ [s EXCEPT !.stat[p] = "SRUN"].slpque = s.slpque
         /\ [s EXCEPT !.stat[p] = "SRUN"].link = s.link
         /\ [s EXCEPT !.stat[p] = "SRUN"].wchan = s.wchan
         /\ [s EXCEPT !.stat[p] = "SRUN"].stat = [s.stat EXCEPT ![p] = "SRUN"]
         /\ [s EXCEPT !.stat[p] = "SRUN"].runout = s.runout
<1> DEFINE t == [s EXCEPT !.stat[p] = "SRUN"]
<1>1. s \in QueueSet BY DEF Sound
<1>2. /\ t.runq = s.runq /\ t.link = s.link /\ t.slpque = s.slpque /\ t.wchan = s.wchan
      /\ t.stat = [s.stat EXCEPT ![p] = "SRUN"] /\ t.runout = s.runout /\ t \in QueueSet
  BY <1>1 DEF QueueSet
<1> HIDE DEF t
<1>3. Sound(t, R) BY <1>2 DEF Sound
<1> QED BY <1>2, <1>3, Zenon DEF t

(* From s to t process p, which was on no list, has joined the run queue.  *)
Joined(s, t, R, p) ==
  /\ Sound(t, R \cup {p})
  /\ t.slpque = s.slpque /\ t.wchan = s.wchan /\ t.runout = s.runout
  /\ t.stat = [s.stat EXCEPT ![p] = "SRUN"]
  /\ \A x \in All \ {p} : t.link[x] = s.link[x]

(* setrun of a process that is on no list, in core.                        *)
LEMMA SetrunLoadedSound ==
  ASSUME NEW s, NEW R, Sound(s, R), NEW p \in All, s.wchan[p] = Nil, p \notin R
  PROVE  Joined(s, SetrunLoaded(s, p), R, p)
<1> DEFINE t == [s EXCEPT !.stat[p] = "SRUN"]
<1>1. /\ Sound(t, R) /\ t.slpque = s.slpque /\ t.link = s.link /\ t.wchan = s.wchan
      /\ t.stat = [s.stat EXCEPT ![p] = "SRUN"] /\ t.runout = s.runout
  BY StatSound, Zenon
<1>2. SetrunLoaded(s, p) = Setrq(t, p) BY Zenon DEF SetrunLoaded
<1> HIDE DEF t
<1>3. t.wchan[p] = Nil BY <1>1
<1>4. /\ Sound(Setrq(t, p), R \cup {p})
      /\ Setrq(t, p).slpque = t.slpque /\ Setrq(t, p).wchan = t.wchan
      /\ Setrq(t, p).stat = t.stat /\ Setrq(t, p).runout = t.runout
      /\ \A x \in All \ {p} : Setrq(t, p).link[x] = t.link[x]
  BY <1>1, <1>3, SetrqSound
<1> DEFINE u == SetrunLoaded(s, p)
<1>5. /\ Sound(u, R \cup {p}) /\ u.slpque = s.slpque /\ u.wchan = s.wchan
      /\ u.stat = [s.stat EXCEPT ![p] = "SRUN"] /\ u.runout = s.runout
      /\ \A x \in All \ {p} : u.link[x] = s.link[x]
  BY <1>1, <1>2, <1>4, Zenon
<1> HIDE DEF u
<1>6. Joined(s, u, R, p) BY <1>5, Zenon DEF Joined
<1> QED BY <1>6 DEF u
----------------------------------------------------------------------------
(* The loop of wakeup.                                                     *)

LoopSet == [s : QueueSet, p : Ptr, q : Ptr, run : Ptr]

(* The loop has Rest before it: what it has passed is not asleep on c, and *)
(* q is the process that has p for its successor.                          *)
At(l, c, Rest) ==
  /\ List(l.s.link, l.p, Rest) /\ Rest \subseteq Sleepers(l.s.wchan, Hash[c])
  /\ \/ l.q = Nil /\ l.p = l.s.slpque[Hash[c]] /\ Rest = Sleepers(l.s.wchan, Hash[c])
     \/ l.q \in Sleepers(l.s.wchan, Hash[c]) \ Rest /\ l.s.link[l.q] = l.p
  /\ \A x \in Sleepers(l.s.wchan, Hash[c]) \ Rest : l.s.wchan[x] # c

(* Before the first round.                                                 *)
LEMMA LoopStarts ==
  ASSUME NEW s, NEW R, Sound(s, R), NEW c \in Chans \cup {Runout}
  PROVE  /\ Loop(s, c) \in LoopSet /\ Loop(s, c).s = s
         /\ At(Loop(s, c), c, Sleepers(s.wchan, Hash[c]))
<1> DEFINE l == Loop(s, c)
<1>1. Hash[c] \in Buckets BY DEF Buckets
<1>2. s \in QueueSet /\ List(s.link, s.slpque[Hash[c]], Sleepers(s.wchan, Hash[c]))
  BY <1>1 DEF Sound
<1>3. l.s = s /\ l.p = s.slpque[Hash[c]] /\ l.q = Nil /\ l.run = Nil BY DEF Loop
<1>4. s.slpque[Hash[c]] \in Ptr /\ Nil \in Ptr BY <1>1, <1>2 DEF QueueSet, Ptr
<1>5. l \in LoopSet BY <1>2, <1>4 DEF Loop, LoopSet
<1> HIDE DEF l
<1>6. At(l, c, Sleepers(s.wchan, Hash[c])) BY <1>2, <1>3 DEF At
<1> QED BY <1>3, <1>5, <1>6 DEF l

(* Nothing more to do.                                                     *)
LEMMA StepEnds ==
  ASSUME NEW l \in LoopSet, NEW c, l.p = Nil
  PROVE  /\ WakeStep(l, c) \in LoopSet /\ WakeStep(l, c).s = l.s /\ WakeStep(l, c).p = l.p
         /\ WakeStep(l, c).q = l.q /\ WakeStep(l, c).run = Nil
<1> DEFINE n == [l EXCEPT !.run = Nil]
<1>1. WakeStep(l, c) = n BY Zenon DEF WakeStep
<1>2. n.s = l.s /\ n.p = l.p /\ n.q = l.q /\ n.run = Nil /\ n \in LoopSet BY DEF LoopSet, Ptr
<1> QED BY <1>1, <1>2, Zenon

(* Past a process that sleeps on another channel of the bucket.            *)
LEMMA StepPasses ==
  ASSUME NEW l \in LoopSet, NEW c, NEW Rest, At(l, c, Rest), l.p # Nil, l.s.wchan[l.p] # c
  PROVE  /\ WakeStep(l, c) \in LoopSet /\ WakeStep(l, c).s = l.s
         /\ WakeStep(l, c).run = Nil /\ l.p \in Rest
         /\ At(WakeStep(l, c), c, Rest \ {l.p})
<1> DEFINE n == [l EXCEPT !.q = l.p, !.p = l.s.link[l.p], !.run = Nil]
<1>1. WakeStep(l, c) = n BY Zenon DEF WakeStep
<1>2. l.p \in All /\ l.s \in QueueSet BY DEF LoopSet, Ptr
<1>3. l.s.link[l.p] \in Ptr BY <1>2 DEF QueueSet, Links
<1>4. n.s = l.s /\ n.p = l.s.link[l.p] /\ n.q = l.p /\ n.run = Nil BY DEF LoopSet
<1>5. n \in LoopSet BY <1>2, <1>3 DEF LoopSet, Ptr
<1> HIDE DEF n
<1>6. /\ List(l.s.link, l.p, Rest) /\ Rest \subseteq Sleepers(l.s.wchan, Hash[c])
      /\ \A x \in Sleepers(l.s.wchan, Hash[c]) \ Rest : l.s.wchan[x] # c
  BY DEF At
<1>7. l.p \in Rest /\ List(l.s.link, l.s.link[l.p], Rest \ {l.p}) BY <1>6, ListPop
<1>8. At(n, c, Rest \ {l.p}) BY <1>4, <1>6, <1>7 DEF At
<1> QED BY <1>1, <1>4, <1>5, <1>7, <1>8, Zenon

(* What a round that takes a process off its bucket stores.                *)
Stored(l, n, c) ==
  /\ n \in LoopSet /\ n.run = l.p /\ n.p = l.s.link[l.p] /\ n.q = l.q
  /\ n.s.wchan = [l.s.wchan EXCEPT ![l.p] = Nil]
  /\ n.s.stat = l.s.stat /\ n.s.runq = l.s.runq /\ n.s.runout = l.s.runout
  /\ l.q = Nil => /\ n.s.slpque = [l.s.slpque EXCEPT ![Hash[c]] = l.s.link[l.p]]
                  /\ n.s.link = l.s.link
  /\ l.q # Nil => /\ n.s.slpque = l.s.slpque
                  /\ n.s.link = [l.s.link EXCEPT ![l.q] = l.s.link[l.p]]

(* The round does store that.                                              *)
LEMMA StepStores ==
  ASSUME NEW l \in LoopSet, NEW c \in Chans \cup {Runout}, l.p # Nil, l.s.wchan[l.p] = c
  PROVE  Stored(l, WakeStep(l, c), c)
<1> DEFINE s == l.s
           sp == l.s.link[l.p]
           a == [s EXCEPT !.slpque[Hash[c]] = sp]
           b == [s EXCEPT !.link[l.q] = sp]
           cut == IF l.q = Nil THEN a ELSE b
           t == [cut EXCEPT !.wchan[l.p] = Nil]
           n == WakeStep(l, c)
<1>1. n = [l EXCEPT !.s = t, !.p = sp, !.run = l.p] BY Zenon DEF WakeStep
<1> HIDE DEF n
<1>2. l.p \in All /\ s \in QueueSet /\ l.q \in Ptr BY DEF LoopSet, Ptr
<1>3. sp \in Ptr /\ Hash[c] \in Buckets BY <1>2 DEF QueueSet, Links, Buckets
<1>4. ASSUME l.q = Nil PROVE Stored(l, n, c)
  <2>1. cut = a BY <1>4
  <2>2. [s.slpque EXCEPT ![Hash[c]] = sp] \in [Buckets -> Ptr] BY <1>2, <1>3 DEF QueueSet
  <2>3. /\ a.slpque = [s.slpque EXCEPT ![Hash[c]] = sp] /\ a.link = s.link /\ a.wchan = s.wchan
        /\ a.stat = s.stat /\ a.runq = s.runq /\ a.runout = s.runout
    BY <1>2 DEF QueueSet
  <2>4. a \in QueueSet BY <1>2, <2>2 DEF QueueSet
  <2> HIDE DEF a, s
  <2>5. [a.wchan EXCEPT ![l.p] = Nil] \in [All -> Chans \cup {Runout, Nil}] BY <2>4 DEF QueueSet
  <2>6. /\ t.wchan = [a.wchan EXCEPT ![l.p] = Nil] /\ t.slpque = a.slpque /\ t.link = a.link
        /\ t.stat = a.stat /\ t.runq = a.runq /\ t.runout = a.runout /\ t \in QueueSet
    BY <2>1, <2>4, <2>5 DEF QueueSet
  <2> HIDE DEF t, sp
  <2>7. n \in LoopSet /\ n.s = t /\ n.p = sp /\ n.q = l.q /\ n.run = l.p
    BY <1>1, <1>2, <1>3, <2>6 DEF LoopSet, Ptr
  <2> QED BY <1>4, <2>3, <2>6, <2>7, Zenon DEF s, sp, Stored
<1>5. ASSUME l.q # Nil PROVE Stored(l, n, c)
  <2>1. cut = b /\ l.q \in All BY <1>2, <1>5 DEF Ptr
  <2>2. [s.link EXCEPT ![l.q] = sp] \in Links BY <1>2, <1>3 DEF QueueSet, Links
  <2>3. /\ b.link = [s.link EXCEPT ![l.q] = sp] /\ b.slpque = s.slpque /\ b.wchan = s.wchan
        /\ b.stat = s.stat /\ b.runq = s.runq /\ b.runout = s.runout
    BY <1>2 DEF QueueSet
  <2>4. b \in QueueSet BY <1>2, <2>2 DEF QueueSet
  <2> HIDE DEF b, s
  <2>5. [b.wchan EXCEPT ![l.p] = Nil] \in [All -> Chans \cup {Runout, Nil}] BY <2>4 DEF QueueSet
  <2>6. /\ t.wchan = [b.wchan EXCEPT ![l.p] = Nil] /\ t.slpque = b.slpque /\ t.link = b.link
        /\ t.stat = b.stat /\ t.runq = b.runq /\ t.runout = b.runout /\ t \in QueueSet
    BY <2>1, <2>4, <2>5 DEF QueueSet
  <2> HIDE DEF t, sp
  <2>7. n \in LoopSet /\ n.s = t /\ n.p = sp /\ n.q = l.q /\ n.run = l.p
    BY <1>1, <1>2, <1>3, <2>6 DEF LoopSet, Ptr
  <2> QED BY <1>5, <2>3, <2>6, <2>7, Zenon DEF s, sp, Stored
<1> QED BY <1>4, <1>5 DEF n

(* The process that the scan is at has been taken off its bucket, and no    *)
(* list lost another.                                                       *)
Took(l, n, c, R, Rest) ==
  /\ n \in LoopSet /\ n.run = l.p /\ l.p \in Rest /\ l.p \notin R
  /\ n.s.wchan = [l.s.wchan EXCEPT ![l.p] = Nil]
  /\ n.s.stat = l.s.stat /\ n.s.runout = l.s.runout
  /\ Sound(n.s, R) /\ At(n, c, Rest \ {l.p})

(* A process that sleeps on c is taken off the bucket.                     *)
LEMMA StepTakes ==
  ASSUME NEW l \in LoopSet, NEW c \in Chans \cup {Runout}, NEW R, Sound(l.s, R),
         NEW Rest, At(l, c, Rest), l.p # Nil, l.s.wchan[l.p] = c,
         NEW n, n = WakeStep(l, c)
  PROVE  Took(l, n, c, R, Rest)
<1> DEFINE s == l.s
           t == n.s
           h == Hash[c]
           S == Sleepers(s.wchan, h)
           p == l.p
<1>1. /\ n \in LoopSet /\ n.run = p /\ n.p = s.link[p] /\ n.q = l.q
      /\ t.wchan = [s.wchan EXCEPT ![p] = Nil]
      /\ t.stat = s.stat /\ t.runq = s.runq /\ t.runout = s.runout
      /\ l.q = Nil => t.slpque = [s.slpque EXCEPT ![h] = s.link[p]] /\ t.link = s.link
      /\ l.q # Nil => t.slpque = s.slpque /\ t.link = [s.link EXCEPT ![l.q] = s.link[p]]
  <2>1. Stored(l, n, c) BY StepStores
  <2> QED BY <2>1, Zenon DEF Stored
<1>2. /\ s \in QueueSet /\ t \in QueueSet /\ p \in All /\ h \in Buckets /\ c # Nil
  BY <1>1, ChansAssumption DEF LoopSet, Ptr, Buckets
<1>3. /\ List(s.link, p, Rest) /\ Rest \subseteq S
      /\ (l.q = Nil /\ p = s.slpque[h] /\ Rest = S) \/ (l.q \in S \ Rest /\ s.link[l.q] = p)
      /\ \A x \in S \ Rest : s.wchan[x] # c
  BY DEF At
<1>4. /\ List(s.link, s.runq, R) /\ \A x \in R : s.wchan[x] = Nil
      /\ \A g \in Buckets : List(s.link, s.slpque[g], Sleepers(s.wchan, g))
  BY DEF Sound
<1>5. s.wchan[p] = c BY DEF s
<1> HIDE DEF s, t, h, p
<1>6. s.wchan \in [All -> Chans \cup {Runout, Nil}] /\ s.link \in Links
      /\ s.slpque \in [Buckets -> Ptr]
  BY <1>2 DEF QueueSet
<1>7. p \notin R BY <1>2, <1>4, <1>5
<1>8. p \in Rest /\ s.link[p] # p /\ List(s.link, s.link[p], Rest \ {p})
  BY <1>2, <1>3, <1>5, ListPop, AllFacts
<1>9. \A g : Sleepers(t.wchan, g) = IF g = h THEN S \ {p} ELSE Sleepers(s.wchan, g)
  <2> TAKE g
  <2>1. t.wchan[p] = Nil /\ \A x \in All \ {p} : t.wchan[x] = s.wchan[x] BY <1>1, <1>2, <1>6
  <2> QED BY <1>2, <1>5, <2>1 DEF Sleepers, h
<1> HIDE DEF S
<1>10. S \subseteq All /\ \A x \in S : s.wchan[x] # Nil /\ Hash[s.wchan[x]] = h
  BY DEF S, Sleepers
<1>11. \A x \in All \ {l.q} : t.link[x] = s.link[x] BY <1>1, <1>6 DEF Links
<1>12. l.q = Nil \/ l.q \in S \ Rest BY <1>3
<1>13. List(t.link, t.runq, R)
  <2>1. \A x \in R : x \in All /\ x # l.q BY <1>4, <1>10, <1>12, ListHead, AllFacts
  <2>2. \A x \in R : t.link[x] = s.link[x] BY <1>11, <2>1
  <2>3. List(t.link, s.runq, R) BY <1>4, <2>2, ListFrame
  <2> QED BY <1>1, <2>3
<1>14. ASSUME NEW g \in Buckets, g # h PROVE List(t.link, t.slpque[g], Sleepers(t.wchan, g))
  <2>1. \A x \in Sleepers(s.wchan, g) : x \in All /\ x # l.q
    BY <1>10, <1>12, <1>14, AllFacts DEF Sleepers
  <2>2. \A x \in Sleepers(s.wchan, g) : t.link[x] = s.link[x] BY <1>11, <2>1
  <2>3. List(s.link, s.slpque[g], Sleepers(s.wchan, g)) BY <1>4
  <2>4. List(t.link, s.slpque[g], Sleepers(s.wchan, g)) BY <2>2, <2>3, ListFrame
  <2>5. t.slpque[g] = s.slpque[g] BY <1>1, <1>2, <1>6, <1>14
  <2> QED BY <1>9, <1>14, <2>4, <2>5
<1>15. List(t.link, t.slpque[h], S \ {p})
  <2>1. List(s.link, s.slpque[h], S) BY <1>2, <1>4 DEF S
  <2>2. CASE l.q = Nil
    <3>1. Rest = S /\ t.link = s.link /\ t.slpque[h] = s.link[p]
      BY <1>1, <1>2, <1>3, <1>6, <1>10, <2>2, AllFacts
    <3> QED BY <1>8, <3>1
  <2>3. CASE l.q # Nil
    <3>1. l.q \in S /\ s.link[l.q] = p /\ p # Nil BY <1>2, <1>3, <2>3, AllFacts
    <3>2. List([s.link EXCEPT ![l.q] = s.link[p]], s.slpque[h], S \ {p})
      BY <1>6, <2>1, <3>1, ListUnlink
    <3> QED BY <1>1, <2>3, <3>2
  <2> QED BY <2>2, <2>3
<1>16. ASSUME NEW g \in Buckets PROVE List(t.link, t.slpque[g], Sleepers(t.wchan, g))
  BY <1>9, <1>14, <1>15
<1>17. \A x \in R : t.wchan[x] = Nil
  <2>1. R \subseteq All BY <1>4, ListHead
  <2> QED BY <1>1, <1>4, <1>6, <1>7, <2>1
<1>18. Sound(t, R) BY <1>2, <1>13, <1>16, <1>17 DEF Sound
<1>19. List(t.link, n.p, Rest \ {p})
  <2>1. \A x \in Rest \ {p} : x \in All /\ x # l.q BY <1>3, <1>10, <1>12, AllFacts
  <2>2. \A x \in Rest \ {p} : t.link[x] = s.link[x] BY <1>11, <2>1
  <2>3. List(t.link, s.link[p], Rest \ {p}) BY <1>8, <2>2, ListFrame
  <2> QED BY <1>1, <2>3
<1>20. Sleepers(t.wchan, h) = S \ {p} BY <1>9
<1>21. \/ n.q = Nil /\ n.p = t.slpque[h] /\ Rest \ {p} = S \ {p}
       \/ n.q \in (S \ {p}) \ (Rest \ {p}) /\ t.link[n.q] = n.p
  <2>1. CASE l.q = Nil
    <3>1. Rest = S /\ t.slpque[h] = s.link[p]
      BY <1>1, <1>2, <1>3, <1>6, <1>10, <2>1, AllFacts
    <3> QED BY <1>1, <2>1, <3>1
  <2>2. CASE l.q # Nil
    <3>1. l.q \in S \ Rest /\ l.q # p BY <1>8, <1>12, <2>2
    <3>2. t.link[l.q] = s.link[p] BY <1>1, <1>6, <1>10, <2>2, <3>1 DEF Links
    <3> QED BY <1>1, <3>1, <3>2
  <2> QED BY <2>1, <2>2
<1>22. \A x \in (S \ {p}) \ (Rest \ {p}) : t.wchan[x] # c
  <2> TAKE x \in (S \ {p}) \ (Rest \ {p})
  <2>1. x \in S \ Rest /\ x # p /\ x \in All BY <1>10
  <2>2. t.wchan[x] = s.wchan[x] BY <1>1, <1>6, <2>1
  <2> QED BY <1>3, <2>1, <2>2 DEF S
<1>23. At(n, c, Rest \ {p})
  BY <1>3, <1>19, <1>20, <1>21, <1>22 DEF At, h, t, S
<1> QED BY <1>1, <1>7, <1>8, <1>18, <1>23 DEF Took, s, t, p

(* Queues that agree on the bucket of c leave the loop where it was.       *)
LEMMA AtKept ==
  ASSUME NEW l \in LoopSet, NEW c, NEW Rest, At(l, c, Rest), NEW t \in QueueSet,
         t.slpque[Hash[c]] = l.s.slpque[Hash[c]],
         Sleepers(t.wchan, Hash[c]) = Sleepers(l.s.wchan, Hash[c]),
         \A x \in Sleepers(l.s.wchan, Hash[c]) :
           t.link[x] = l.s.link[x] /\ t.wchan[x] = l.s.wchan[x]
  PROVE  [l EXCEPT !.s = t] \in LoopSet /\ At([l EXCEPT !.s = t], c, Rest)
<1> DEFINE n == [l EXCEPT !.s = t]
<1>1. n \in LoopSet /\ n.s = t /\ n.p = l.p /\ n.q = l.q BY DEF LoopSet
<1> HIDE DEF n
<1>2. /\ List(l.s.link, l.p, Rest) /\ Rest \subseteq Sleepers(l.s.wchan, Hash[c])
      /\ \/ l.q = Nil /\ l.p = l.s.slpque[Hash[c]] /\ Rest = Sleepers(l.s.wchan, Hash[c])
         \/ l.q \in Sleepers(l.s.wchan, Hash[c]) \ Rest /\ l.s.link[l.q] = l.p
      /\ \A x \in Sleepers(l.s.wchan, Hash[c]) \ Rest : l.s.wchan[x] # c
  BY DEF At
<1>3. \A x \in Rest : t.link[x] = l.s.link[x] BY <1>2
<1>4. List(t.link, n.p, Rest) BY <1>1, <1>2, <1>3, ListFrame
<1>5. At(n, c, Rest) BY <1>1, <1>2, <1>4 DEF At
<1> QED BY <1>1, <1>5 DEF n

(* The measure of the loop is the number of processes before it.           *)
Left(l) == Cardinality(Walk(l.s.link, l.p))

(* A round that passes or takes a process leaves one less.                 *)
LEMMA LeftFacts ==
  ASSUME NEW l, NEW c, NEW Rest, At(l, c, Rest)
  PROVE  /\ Left(l) \in Nat /\ Left(l) <= Cardinality(All)
         /\ Left(l) = 0 <=> Rest = {}
         /\ l.p = Nil => Rest = {}
         /\ \A n, x : At(n, c, Rest \ {x}) /\ x \in Rest => Left(n) < Left(l)
<1>1. List(l.s.link, l.p, Rest) BY DEF At
<1>2. Walk(l.s.link, l.p) = Rest BY <1>1, WalkList
<1>3. Rest \subseteq All /\ IsFiniteSet(Rest) /\ (l.p = Nil => Rest = {}) BY <1>1, ListHead
<1>4. Left(l) = Cardinality(Rest) /\ Left(l) \in Nat BY <1>2, <1>3, FS_CardinalityType DEF Left
<1>5. Left(l) <= Cardinality(All) BY <1>3, <1>4, AllFacts, FS_Subset
<1>6. Left(l) = 0 <=> Rest = {} BY <1>3, <1>4, FS_EmptySet
<1>7. ASSUME NEW n, NEW x \in Rest, At(n, c, Rest \ {x}) PROVE Left(n) < Left(l)
  <2>1. Walk(n.s.link, n.p) = Rest \ {x} BY <1>7, WalkList DEF At
  <2>2. Cardinality(Rest \ {x}) = Cardinality(Rest) - 1 BY <1>3, <1>7, FS_RemoveElement
  <2> QED BY <1>4, <2>1, <2>2 DEF Left
<1> QED BY <1>3, <1>4, <1>5, <1>6, <1>7

(* n rounds from x are a function, and end in D with M at 0.               *)
Ends(D, F, M, x, n) ==
  /\ \E f \in [0..n -> D] : f[0] = x /\ \A k \in 1..n : f[k] = F[f[k - 1]]
  /\ \A f : f[0] = x /\ (\A k \in 1..n : f[k - 1] \in D => f[k] = F[f[k - 1]])
            => f[n] \in D /\ M[f[n]] = 0

(* So do the rounds of a loop that keep D and make M less until it is 0.   *)
LEMMA LoopEnds ==
  ASSUME NEW D, NEW F \in [D -> D], NEW M \in [D -> Nat],
         \A d \in D : M[F[d]] = 0 \/ M[F[d]] < M[d],
         NEW x \in D, NEW n \in Nat \ {0}, M[x] <= n
  PROVE  Ends(D, F, M, x, n)
<1> DEFINE Sol(m, f) == f[0] = x /\ \A k \in 1..m : f[k] = F[f[k - 1]]
           Has(m) == \E f \in [0..m -> D] : Sol(m, f)
<1>1. \A m \in 0..n : Has(m)
  <2> DEFINE T == {m \in 0..n : ~Has(m)}
  <2>1. T \subseteq Nat OBVIOUS
  <2>2. Has(0)
    <3> DEFINE f == [k \in 0..0 |-> x]
    <3>1. f \in [0..0 -> D] /\ f[0] = x /\ \A k \in 1..0 : f[k] = F[f[k - 1]] OBVIOUS
    <3> QED BY <3>1
  <2>3. ASSUME NEW m \in 1..n, Has(m - 1) PROVE Has(m)
    <3>1. m \in Nat /\ m - 1 \in Nat OBVIOUS
    <3>2. PICK g \in [0..(m - 1) -> D] : Sol(m - 1, g) BY <2>3
    <3> DEFINE f == [k \in 0..m |-> IF k = m THEN F[g[m - 1]] ELSE g[k]]
    <3>3. \A k \in 0..(m - 1) : k \in 0..m /\ f[k] = g[k] BY <3>1
    <3>4. m \in 0..m /\ f[m] = F[g[m - 1]] BY <3>1
    <3>5. f \in [0..m -> D]
      <4>1. m - 1 \in 0..(m - 1) BY <3>1
      <4>2. g[m - 1] \in D BY <3>2, <4>1
      <4>3. \A k \in 0..m : k # m => k \in 0..(m - 1) BY <3>1
      <4>4. \A k \in 0..m : (IF k = m THEN F[g[m - 1]] ELSE g[k]) \in D BY <3>2, <4>2, <4>3
      <4> QED BY <4>4
    <3> HIDE DEF f
    <3>6. ASSUME NEW k \in 1..m PROVE f[k] = F[f[k - 1]]
      <4>1. k - 1 \in 0..(m - 1) BY <3>1
      <4>2. f[k - 1] = g[k - 1] BY <3>3, <4>1
      <4>3. CASE k = m BY <3>4, <4>2, <4>3
      <4>4. CASE k # m
        <5>1. k \in 0..(m - 1) /\ k \in 1..(m - 1) BY <3>1, <4>4
        <5>2. f[k] = g[k] /\ g[k] = F[g[k - 1]] BY <3>2, <3>3, <5>1
        <5> QED BY <4>2, <5>2
      <4> QED BY <4>3, <4>4
    <3>7. f[0] = x
      <4>1. 0 \in 0..(m - 1) BY <3>1
      <4> QED BY <3>2, <3>3, <4>1
    <3> QED BY <3>5, <3>6, <3>7
  <2> HIDE DEF Has
  <2> SUFFICES ASSUME T # {} PROVE FALSE OBVIOUS
  <2>4. PICK m \in T : \A y \in T : m <= y
    <3> HIDE DEF T
    <3> QED BY <2>1, Least
  <2>5. m # 0 BY <2>2, <2>4
  <2>6. m \in 1..n /\ m - 1 \in 0..n /\ ~(m <= m - 1) BY <2>4, <2>5
  <2>7. Has(m - 1) BY <2>4, <2>6
  <2> QED BY <2>3, <2>4, <2>6, <2>7
<1>2. ASSUME NEW f, f[0] = x, \A k \in 1..n : f[k - 1] \in D => f[k] = F[f[k - 1]]
      PROVE  f[n] \in D /\ M[f[n]] = 0
  <2> DEFINE Ok(k) == f[k] \in D /\ (M[f[k]] = 0 \/ M[f[k]] + k <= n)
             T == {k \in 0..n : ~Ok(k)}
  <2>1. T \subseteq Nat OBVIOUS
  <2>2. Ok(0)
    <3>1. M[x] \in Nat /\ M[x] + 0 <= n OBVIOUS
    <3> QED BY <1>2, <3>1
  <2>3. ASSUME NEW k \in 1..n, Ok(k - 1) PROVE Ok(k)
    <3> DEFINE d == f[k - 1]
    <3>1. d \in D /\ (M[d] = 0 \/ M[d] + (k - 1) <= n) BY <2>3
    <3>2. f[k] = F[d] BY <1>2, <3>1
    <3> HIDE DEF d
    <3>3. M[d] \in Nat /\ F[d] \in D /\ M[F[d]] \in Nat BY <3>1
    <3>4. M[F[d]] = 0 \/ M[F[d]] < M[d] BY <3>1
    <3>5. M[F[d]] = 0 \/ M[F[d]] + k <= n BY <3>1, <3>3, <3>4
    <3> QED BY <3>2, <3>3, <3>5
  <2> HIDE DEF Ok
  <2>4. \A k \in 0..n : Ok(k)
    <3> SUFFICES ASSUME T # {} PROVE FALSE OBVIOUS
    <3>1. PICK m \in T : \A y \in T : m <= y
      <4> HIDE DEF T
      <4> QED BY <2>1, Least
    <3>2. m # 0 BY <2>2, <3>1
    <3>3. m \in 1..n /\ m - 1 \in 0..n /\ ~(m <= m - 1) BY <3>1, <3>2
    <3>4. Ok(m - 1) BY <3>1, <3>3
    <3> QED BY <2>3, <3>1, <3>3, <3>4
  <2>5. n \in 0..n OBVIOUS
  <2>6. f[n] \in D /\ (M[f[n]] = 0 \/ M[f[n]] + n <= n) BY <2>4, <2>5 DEF Ok
  <2>7. M[f[n]] \in Nat BY <2>6
  <2> QED BY <2>6, <2>7
<1>3. Has(n)
  <2> HIDE DEF Has
  <2>1. n \in 0..n OBVIOUS
  <2> QED BY <1>1, <2>1
<1>4. \A f : f[0] = x /\ (\A k \in 1..n : f[k - 1] \in D => f[k] = F[f[k - 1]])
              => f[n] \in D /\ M[f[n]] = 0
  BY <1>2
<1> QED BY <1>3, <1>4, Zenon DEF Ends
----------------------------------------------------------------------------
(* The swapper is called.                                                  *)

(* Nobody else sleeps in the bucket of &runout.                            *)
BucketApart == \A c \in Chans : Hash[c] # Hash[Runout]

OnlySched(s) == \A p \in All : s.wchan[p] = Runout => p = Sched

(* From s to t the processes P were made runnable.                         *)
Made(s, t, R, P) ==
  /\ Sound(t, R \cup P)
  /\ \A x \in All : /\ t.wchan[x] = IF x \in P THEN Nil ELSE s.wchan[x]
                    /\ t.stat[x] = IF x \in P THEN "SRUN" ELSE s.stat[x]
                    /\ x \notin P => t.link[x] = s.link[x]
  /\ \A h \in Buckets \ {Hash[Runout]} : t.slpque[h] = s.slpque[h]

(* A round of wakeup(&runout).                                             *)
SwapperTurn(l) ==
  LET n == WakeStep(l, Runout)
  IN  IF n.run = Nil THEN n ELSE [n EXCEPT !.s = SetrunLoaded(n.s, n.run)]

(* Where its loop can be.                                                  *)
SwapperAt(l, s, R) ==
  /\ l \in LoopSet
  /\ \E Rest : At(l, Runout, Rest)
  /\ \E P \in SUBSET {Sched} : (\A x \in P : s.wchan[x] = Runout) /\ Made(s, l.s, R, P)

(* All that sleep in the bucket of &runout sleep on &runout.               *)
LEMMA SwapperBucket ==
  ASSUME BucketApart, NEW s \in QueueSet, NEW x \in Sleepers(s.wchan, Hash[Runout])
  PROVE  s.wchan[x] = Runout
<1>1. x \in All /\ s.wchan[x] \in Chans \cup {Runout, Nil} /\ s.wchan[x] # Nil
  BY DEF Sleepers, QueueSet
<1>2. Hash[s.wchan[x]] = Hash[Runout] BY DEF Sleepers
<1> QED BY <1>1, <1>2 DEF BucketApart

(* A round takes the swapper off its bucket, or finds nobody.              *)
LEMMA SwapperTurns ==
  ASSUME BucketApart, NEW s, OnlySched(s), NEW R, NEW l, SwapperAt(l, s, R)
  PROVE  /\ SwapperAt(SwapperTurn(l), s, R)
         /\ Left(SwapperTurn(l)) = 0 \/ Left(SwapperTurn(l)) < Left(l)
<1> DEFINE n == WakeStep(l, Runout)
           t == SetrunLoaded(n.s, n.run)
           u == [n EXCEPT !.s = t]
<1>1. l \in LoopSet /\ l.s \in QueueSet BY DEF SwapperAt, LoopSet
<1>2. PICK Rest : At(l, Runout, Rest) BY DEF SwapperAt
<1>3. PICK P \in SUBSET {Sched} : (\A x \in P : s.wchan[x] = Runout) /\ Made(s, l.s, R, P)
  BY DEF SwapperAt
<1>4. SwapperTurn(l) = IF n.run = Nil THEN n ELSE u BY Zenon DEF SwapperTurn
<1>5. CASE l.p = Nil
  <2>1. n \in LoopSet /\ n.s = l.s /\ n.p = l.p /\ n.q = l.q /\ n.run = Nil
    BY <1>1, <1>5, StepEnds
  <2>2. SwapperTurn(l) = n BY <1>4, <2>1
  <2> HIDE DEF n
  <2>3. At(n, Runout, Rest) BY <1>2, <2>1 DEF At
  <2>4. Rest = {} BY <1>2, <1>5, LeftFacts
  <2>5. Left(n) = 0 BY <2>3, <2>4, LeftFacts
  <2>6. SwapperAt(n, s, R) BY <1>3, <2>1, <2>3 DEF SwapperAt
  <2> QED BY <2>2, <2>5, <2>6
<1>6. CASE l.p # Nil
  <2>1. l.p \in Rest /\ Rest \subseteq Sleepers(l.s.wchan, Hash[Runout])
    BY <1>2, <1>6, ListPop DEF At
  <2>2. l.s.wchan[l.p] = Runout BY <1>1, <2>1, SwapperBucket
  <2>3. l.p \in All /\ Runout # Nil BY <2>1, ChansAssumption DEF Sleepers
  <2>4. l.p \notin P /\ s.wchan[l.p] = Runout /\ l.p = Sched /\ P = {}
    <3>1. l.s.wchan[l.p] = IF l.p \in P THEN Nil ELSE s.wchan[l.p] BY <1>3, <2>3 DEF Made
    <3>2. l.p \notin P /\ s.wchan[l.p] = Runout BY <2>2, <2>3, <3>1
    <3> QED BY <1>3, <2>3, <3>2 DEF OnlySched
  <2>5. Sound(l.s, R) BY <1>3, <2>4 DEF Made
  <2>6. /\ n \in LoopSet /\ n.run = l.p /\ n.s.wchan = [l.s.wchan EXCEPT ![l.p] = Nil]
        /\ n.s.stat = l.s.stat /\ Sound(n.s, R) /\ At(n, Runout, Rest \ {l.p}) /\ l.p \notin R
    <3>1. n = WakeStep(l, Runout) OBVIOUS
    <3> HIDE DEF n
    <3>2. Took(l, n, Runout, R, Rest) BY <1>1, <1>2, <1>6, <2>2, <2>5, <3>1, StepTakes
    <3> QED BY <3>2, Zenon DEF Took
  <2>7. l.q = Nil
    <3>1. \/ l.q = Nil
          \/ l.q \in Sleepers(l.s.wchan, Hash[Runout]) \ Rest
      BY <1>2 DEF At
    <3>2. \A x \in Sleepers(l.s.wchan, Hash[Runout]) \ Rest : l.s.wchan[x] # Runout BY <1>2 DEF At
    <3> QED BY <1>1, <3>1, <3>2, SwapperBucket
  <2>8. /\ n.s.slpque = [l.s.slpque EXCEPT ![Hash[Runout]] = l.s.link[l.p]]
        /\ n.s.link = l.s.link
    <3>1. Stored(l, n, Runout) BY <1>1, <1>6, <2>2, StepStores
    <3> HIDE DEF n
    <3> QED BY <2>7, <3>1, Zenon DEF Stored
  <2>9. n.s \in QueueSet /\ n.s.wchan[l.p] = Nil BY <1>1, <2>3, <2>6 DEF LoopSet, QueueSet
  <2> HIDE DEF n
  <2>10. /\ Sound(t, R \cup {l.p}) /\ t.slpque = n.s.slpque /\ t.wchan = n.s.wchan
         /\ t.stat = [n.s.stat EXCEPT ![l.p] = "SRUN"]
         /\ \A x \in All \ {l.p} : t.link[x] = n.s.link[x]
    <3>1. t = SetrunLoaded(n.s, l.p) BY <2>6
    <3> HIDE DEF t
    <3>2. Sound(n.s, R) /\ n.s.wchan[l.p] = Nil /\ l.p \notin R /\ l.p \in All BY <2>3, <2>6, <2>9
    <3>3. Joined(n.s, t, R, l.p) BY <3>1, <3>2, SetrunLoadedSound
    <3> QED BY <3>3, Zenon DEF Joined
  <2>11. SwapperTurn(l) = u BY <1>4, <1>6, <2>6
  <2> HIDE DEF t
  <2>12. t \in QueueSet BY <2>10 DEF Sound
  <2>13. \A x \in Sleepers(n.s.wchan, Hash[Runout]) :
           t.link[x] = n.s.link[x] /\ t.wchan[x] = n.s.wchan[x]
    BY <2>9, <2>10 DEF Sleepers
  <2>14. u \in LoopSet /\ At(u, Runout, Rest \ {l.p})
    BY <2>6, <2>10, <2>12, <2>13, AtKept
  <2>15. u.s = t BY <2>6 DEF LoopSet
  <2> HIDE DEF u
  <2>16. Made(s, t, R, {l.p})
    <3>1. \A x \in All : /\ l.s.wchan[x] = s.wchan[x] /\ l.s.stat[x] = s.stat[x]
                         /\ l.s.link[x] = s.link[x]
      BY <1>3, <2>4 DEF Made
    <3>2. \A h \in Buckets \ {Hash[Runout]} : l.s.slpque[h] = s.slpque[h] BY <1>3 DEF Made
    <3>3. \A h \in Buckets \ {Hash[Runout]} : t.slpque[h] = s.slpque[h]
      <4>1. l.s.slpque \in [Buckets -> Ptr] BY <1>1 DEF QueueSet
      <4> QED BY <2>8, <2>10, <3>2, <4>1
    <3>4. l.s.wchan \in [All -> Chans \cup {Runout, Nil}]
          /\ l.s.stat \in [All -> {"none", "SRUN", "SSLEEP"}]
      BY <1>1 DEF QueueSet
    <3>5. \A x \in All : /\ t.wchan[x] = IF x \in {l.p} THEN Nil ELSE s.wchan[x]
                         /\ t.stat[x] = IF x \in {l.p} THEN "SRUN" ELSE s.stat[x]
                         /\ x \notin {l.p} => t.link[x] = s.link[x]
      BY <2>3, <2>6, <2>8, <2>10, <3>1, <3>4
    <3> QED BY <2>10, <3>3, <3>5 DEF Made
  <2>17. {l.p} \in SUBSET {Sched} /\ \A x \in {l.p} : s.wchan[x] = Runout BY <2>4
  <2>18. SwapperAt(u, s, R) BY <2>14, <2>15, <2>16, <2>17 DEF SwapperAt
  <2>19. Left(u) < Left(l) BY <1>2, <2>1, <2>14, LeftFacts
  <2> QED BY <2>11, <2>18, <2>19
<1> QED BY <1>5, <1>6

(* The equation that the loop of wakeup(&runout) solves.                   *)
SwapperLoop(f, s) ==
  f = [k \in 0..Rounds |->
         IF k = 0 THEN Loop([s EXCEPT !.runout = FALSE], Runout) ELSE SwapperTurn(f[k - 1])]

(* The rounds suffice for every process.                                   *)
LEMMA RoundsFact == Rounds \in Nat \ {0} /\ Cardinality(All) <= Rounds
  BY AllFacts DEF Rounds

(* Once the swapper has been called, it no longer sleeps on &runout, and   *)
(* nothing else has changed.                                               *)
LEMMA SwapperCalls ==
  ASSUME BucketApart, NEW s, OnlySched(s), NEW R, Sound(s, R), s.runout
  PROVE  /\ \E P \in SUBSET {Sched} : /\ (\A x \in P : s.wchan[x] = Runout)
                                      /\ Made(s, CallSwapper(s), R, P)
         /\ CallSwapper(s).wchan[Sched] # Runout
<1> DEFINE z == [s EXCEPT !.runout = FALSE]
           x == Loop(z, Runout)
           D == {l \in LoopSet : SwapperAt(l, s, R)}
           F == [l \in D |-> SwapperTurn(l)]
           M == [l \in D |-> Left(l)]
           g == CHOOSE f : SwapperLoop(f, s)
<1>1. CallSwapper(s) = g[Rounds].s BY Zenon DEF CallSwapper, SwapperLoop, SwapperTurn
<1>2. s \in QueueSet BY DEF Sound
<1>3. /\ z \in QueueSet /\ z.slpque = s.slpque /\ z.runq = s.runq /\ z.link = s.link
      /\ z.wchan = s.wchan /\ z.stat = s.stat
  BY <1>2 DEF QueueSet
<1>4. \A f : SwapperLoop(f, s) <=>
        f = [k \in 0..Rounds |-> IF k = 0 THEN x ELSE SwapperTurn(f[k - 1])]
  BY Zenon DEF SwapperLoop
<1> HIDE DEF z
<1>5. Sound(z, R) BY <1>3 DEF Sound
<1>6. /\ x \in LoopSet /\ x.s = z /\ At(x, Runout, Sleepers(z.wchan, Hash[Runout]))
  BY <1>5, LoopStarts
<1> HIDE DEF x, g
<1>7. x \in D
  <2>1. Made(s, x.s, R, {}) BY <1>3, <1>5, <1>6 DEF Made
  <2> QED BY <1>6, <2>1 DEF SwapperAt
<1>8. \A l \in D : SwapperTurn(l) \in D /\ (Left(SwapperTurn(l)) = 0 \/ Left(SwapperTurn(l)) < Left(l))
  <2> TAKE l \in D
  <2>1. SwapperAt(SwapperTurn(l), s, R) /\ (Left(SwapperTurn(l)) = 0 \/ Left(SwapperTurn(l)) < Left(l))
    BY SwapperTurns
  <2>2. SwapperTurn(l) \in LoopSet BY <2>1 DEF SwapperAt
  <2> QED BY <2>1, <2>2
<1>9. \A l \in D : Left(l) \in Nat /\ Left(l) <= Cardinality(All)
  BY LeftFacts DEF SwapperAt
<1> DEFINE n == Rounds
<1>10. n \in Nat \ {0} /\ Cardinality(All) <= n /\ Cardinality(All) \in Nat BY RoundsFact, AllFacts
<1> HIDE DEF D, n
<1>11. F \in [D -> D] /\ M \in [D -> Nat] BY <1>8, <1>9
<1>12. \A d \in D : F[d] = SwapperTurn(d) /\ M[d] = Left(d) OBVIOUS
<1> HIDE DEF F, M
<1>13. \A d \in D : M[F[d]] = 0 \/ M[F[d]] < M[d] BY <1>8, <1>12
<1>14. M[x] <= n
  <2>1. M[x] = Left(x) /\ Left(x) \in Nat /\ Left(x) <= Cardinality(All) BY <1>7, <1>9, <1>12
  <2> QED BY <1>10, <2>1
<1>15. /\ \E f \in [0..n -> D] : f[0] = x /\ \A k \in 1..n : f[k] = F[f[k - 1]]
       /\ \A f : f[0] = x /\ (\A k \in 1..n : f[k - 1] \in D => f[k] = F[f[k - 1]])
                 => f[n] \in D /\ M[f[n]] = 0
  <2>1. Ends(D, F, M, x, n) BY <1>7, <1>10, <1>11, <1>13, <1>14, LoopEnds
  <2> QED BY <2>1, Zenon DEF Ends
<1>16. g = [k \in 0..n |-> IF k = 0 THEN x ELSE SwapperTurn(g[k - 1])]
  <2>1. PICK f \in [0..n -> D] : f[0] = x /\ \A k \in 1..n : f[k] = F[f[k - 1]] BY <1>15
  <2>2. \A k \in 0..n : f[k] = IF k = 0 THEN x ELSE SwapperTurn(f[k - 1])
    <3> TAKE k \in 0..n
    <3>1. CASE k = 0 BY <2>1, <3>1
    <3>2. CASE k # 0
      <4>1. k \in 1..n /\ k - 1 \in 0..n BY <1>10, <3>2
      <4>2. f[k - 1] \in D BY <2>1, <4>1
      <4> QED BY <1>12, <2>1, <3>2, <4>1, <4>2
    <3> QED BY <3>1, <3>2
  <2>3. f = [k \in 0..n |-> f[k]] BY <2>1
  <2>4. f = [k \in 0..n |-> IF k = 0 THEN x ELSE SwapperTurn(f[k - 1])] BY <2>2, <2>3, Zenon
  <2>5. SwapperLoop(f, s) BY <1>4, <2>4, Zenon DEF n
  <2>6. SwapperLoop(g, s) BY <2>5, Zenon DEF g
  <2> QED BY <1>4, <2>6, Zenon DEF n
<1>17. g[0] = x /\ \A k \in 1..n : g[k - 1] \in D => g[k] = F[g[k - 1]]
  <2>1. \A k \in 0..n : g[k] = IF k = 0 THEN x ELSE SwapperTurn(g[k - 1]) BY <1>16, Zenon
  <2>2. \A k \in 1..n : k \in 0..n /\ k # 0 BY <1>10
  <2>3. 0 \in 0..n BY <1>10
  <2> QED BY <1>12, <2>1, <2>2, <2>3
<1> DEFINE l == g[n]
<1>18. l \in D /\ M[l] = 0 BY <1>15, <1>17
<1>19. l \in LoopSet /\ SwapperAt(l, s, R) /\ Left(l) = 0 BY <1>12, <1>18 DEF D
<1>20. CallSwapper(s) = l.s BY <1>1 DEF n
<1> HIDE DEF l
<1>21. PICK Rest : At(l, Runout, Rest) BY <1>19 DEF SwapperAt
<1>22. \A y \in Sleepers(l.s.wchan, Hash[Runout]) : l.s.wchan[y] # Runout
  BY <1>19, <1>21, LeftFacts DEF At
<1>23. l.s.wchan[Sched] # Runout BY <1>22, AllFacts, ChansAssumption DEF Sleepers
<1>24. \E P \in SUBSET {Sched} : (\A y \in P : s.wchan[y] = Runout) /\ Made(s, l.s, R, P)
  BY <1>19 DEF SwapperAt
<1> QED BY <1>20, <1>23, <1>24
----------------------------------------------------------------------------
(* A process is made runnable.                                             *)

(* The swapper does not sleep on while a process that is ready is out.     *)
Swapper(s) ==
  s.wchan[Sched] = Runout => s.runout /\ \A x \in Procs : s.stat[x] = "SRUN" => x \in loaded

(* One process that joined the run queue was made runnable.                *)
LEMMA MadeAlone ==
  ASSUME NEW s \in QueueSet, NEW t, NEW R, NEW p \in All, s.wchan[p] = Nil, Joined(s, t, R, p)
  PROVE  Made(s, t, R, {p})
<1>1. /\ Sound(t, R \cup {p}) /\ t.slpque = s.slpque /\ t.wchan = s.wchan
      /\ t.stat = [s.stat EXCEPT ![p] = "SRUN"] /\ \A x \in All \ {p} : t.link[x] = s.link[x]
  BY Zenon DEF Joined
<1>2. s.stat \in [All -> {"none", "SRUN", "SSLEEP"}] BY DEF QueueSet
<1> QED BY <1>1, <1>2 DEF Made

(* One after the other.                                                    *)
LEMMA MadeBoth ==
  ASSUME NEW s, NEW u, NEW t, NEW R, NEW p, Made(s, u, R, {p}), NEW P, Made(u, t, R \cup {p}, P)
  PROVE  Made(s, t, R, P \cup {p})
<1>1. (R \cup {p}) \cup P = R \cup (P \cup {p}) OBVIOUS
<1>2. Sound(t, R \cup (P \cup {p})) BY <1>1, Zenon DEF Made
<1>3. \A x \in All :
        /\ u.wchan[x] = IF x \in {p} THEN Nil ELSE s.wchan[x]
        /\ u.stat[x] = IF x \in {p} THEN "SRUN" ELSE s.stat[x]
        /\ x \notin {p} => u.link[x] = s.link[x]
        /\ t.wchan[x] = IF x \in P THEN Nil ELSE u.wchan[x]
        /\ t.stat[x] = IF x \in P THEN "SRUN" ELSE u.stat[x]
        /\ x \notin P => t.link[x] = u.link[x]
  BY DEF Made
<1>4. \A h \in Buckets \ {Hash[Runout]} : t.slpque[h] = s.slpque[h] BY DEF Made
<1> QED BY <1>2, <1>3, <1>4 DEF Made

(* setrun of a process that has been taken off its bucket: the swapper is  *)
(* woken as well if it sleeps on and the process is not in core.           *)
LEMMA SetrunWorks ==
  ASSUME BucketApart, NEW s, NEW R, Sound(s, R), OnlySched(s), Swapper(s),
         NEW p \in All, s.wchan[p] = Nil, p \notin R
  PROVE  /\ \E P \in SUBSET {Sched} : /\ (\A x \in P : s.wchan[x] = Runout)
                                      /\ Made(s, Setrun(s, p), R, P \cup {p})
         /\ OnlySched(Setrun(s, p)) /\ Swapper(Setrun(s, p))
<1> DEFINE u == SetrunLoaded(s, p)
           t == Setrun(s, p)
<1>1. s \in QueueSet BY DEF Sound
<1>2. Joined(s, u, R, p) BY SetrunLoadedSound
<1>3. Made(s, u, R, {p}) BY <1>1, <1>2, MadeAlone
<1>4. t = IF p \notin loaded THEN CallSwapper(u) ELSE u BY Zenon DEF Setrun
<1> HIDE DEF t, u
<1>5. /\ Sound(u, R \cup {p}) /\ u.wchan = s.wchan /\ u.runout = s.runout
      /\ \A x \in All : u.stat[x] = IF x = p THEN "SRUN" ELSE s.stat[x]
  <2>1. s.stat \in [All -> {"none", "SRUN", "SSLEEP"}] BY <1>1 DEF QueueSet
  <2>2. /\ Sound(u, R \cup {p}) /\ u.wchan = s.wchan /\ u.runout = s.runout
        /\ u.stat = [s.stat EXCEPT ![p] = "SRUN"]
    BY <1>2, Zenon DEF Joined
  <2> QED BY <2>1, <2>2
<1>6. Procs \subseteq All /\ Runout # Nil /\ Sched \in All BY AllFacts, ChansAssumption
<1>7. OnlySched(u) BY <1>5 DEF OnlySched
<1>8. ASSUME t = u, p \in loaded \/ ~u.runout
      PROVE  /\ \E P \in SUBSET {Sched} : /\ (\A x \in P : s.wchan[x] = Runout)
                                          /\ Made(s, t, R, P \cup {p})
             /\ OnlySched(t) /\ Swapper(t)
  <2>1. Made(s, t, R, {} \cup {p}) BY <1>3, <1>8
  <2>2. Swapper(u) BY <1>5, <1>6, <1>8 DEF Swapper
  <2> QED BY <1>7, <1>8, <2>1, <2>2
<1>9. ASSUME p \notin loaded, u.runout
      PROVE  /\ \E P \in SUBSET {Sched} : /\ (\A x \in P : s.wchan[x] = Runout)
                                          /\ Made(s, t, R, P \cup {p})
             /\ OnlySched(t) /\ Swapper(t)
  <2>1. t = CallSwapper(u) BY <1>4, <1>9
  <2>2. /\ \E P \in SUBSET {Sched} : (\A x \in P : u.wchan[x] = Runout) /\ Made(u, t, R \cup {p}, P)
        /\ t.wchan[Sched] # Runout
    BY <1>5, <1>7, <1>9, <2>1, SwapperCalls
  <2>3. PICK P \in SUBSET {Sched} : (\A x \in P : u.wchan[x] = Runout) /\ Made(u, t, R \cup {p}, P)
    BY <2>2
  <2>4. Made(s, t, R, P \cup {p}) BY <1>3, <2>3, MadeBoth
  <2>5. \A x \in P : s.wchan[x] = Runout BY <1>5, <2>3
  <2>6. OnlySched(t) BY <1>6, <1>7, <2>3 DEF OnlySched, Made
  <2>7. Swapper(t) BY <2>2 DEF Swapper
  <2> QED BY <2>4, <2>5, <2>6, <2>7
<1>10. p \notin loaded /\ ~u.runout => t = u BY <1>4, Zenon DEF CallSwapper
<1>11. p \in loaded => t = u BY <1>4
<1>12. /\ \E P \in SUBSET {Sched} : (\A x \in P : s.wchan[x] = Runout) /\ Made(s, t, R, P \cup {p})
       /\ OnlySched(t) /\ Swapper(t)
  BY <1>8, <1>9, <1>10, <1>11
<1> QED BY <1>12 DEF t

----------------------------------------------------------------------------
(* wakeup wakes all.                                                       *)

(* The processes that wait for the processor.                              *)
Runnable(st) == {p \in All : st[p] = "SRUN" /\ (p = cur => window)}

(* The queues between two calls.                                           *)
Steady(s) ==
  /\ Sound(s, Runnable(s.stat)) /\ OnlySched(s) /\ Swapper(s)
  /\ \A p \in All : s.stat[p] = "SSLEEP" <=> s.wchan[p] # Nil
  /\ cur \in Ptr /\ (cur # Nil /\ ~window => s.stat[cur] = "SRUN")

(* A round of wakeup(c).                                                   *)
Turn(l, c) ==
  LET n == WakeStep(l, c)
  IN  IF n.run = Nil THEN n ELSE [n EXCEPT !.s = Setrun(n.s, n.run)]

(* Where its loop can be when it has started from s.                       *)
WakerAt(l, s, c) ==
  /\ l \in LoopSet /\ Steady(l.s)
  /\ \E Rest : At(l, c, Rest)
  /\ \A x \in All : /\ l.s.wchan[x] = s.wchan[x] \/ l.s.wchan[x] = Nil
                    /\ l.s.stat[x] = s.stat[x] \/ l.s.stat[x] = "SRUN"

(* A process that was asleep when it was made runnable does not run.       *)
LEMMA SteadyMade ==
  ASSUME NEW v, Steady(v), NEW s, NEW p \in All, s.stat = v.stat,
         v.wchan \in [All -> Chans \cup {Runout, Nil}],
         s.wchan = [v.wchan EXCEPT ![p] = Nil], v.wchan[p] # Nil,
         NEW t, NEW P \in SUBSET {Sched}, \A x \in P : s.wchan[x] = Runout,
         Made(s, t, Runnable(v.stat), P \cup {p}), OnlySched(t), Swapper(t)
  PROVE  Steady(t)
<1> DEFINE Q == P \cup {p}
<1>1. /\ Sound(t, Runnable(v.stat) \cup Q)
      /\ \A x \in All : /\ t.wchan[x] = IF x \in Q THEN Nil ELSE s.wchan[x]
                        /\ t.stat[x] = IF x \in Q THEN "SRUN" ELSE v.stat[x]
  BY DEF Made
<1>2. /\ \A x \in All : v.stat[x] = "SSLEEP" <=> v.wchan[x] # Nil
      /\ cur \in Ptr /\ (cur # Nil /\ ~window => v.stat[cur] = "SRUN")
  BY DEF Steady
<1>3. \A x \in All : x # p => s.wchan[x] = v.wchan[x] OBVIOUS
<1>4. \A x \in Q : x \in All /\ v.wchan[x] # Nil
  <2> TAKE x \in Q
  <2>1. x \in All BY AllFacts
  <2>2. x # p => v.wchan[x] = Runout BY <1>3, <2>1
  <2> QED BY <2>1, <2>2, ChansAssumption
<1> HIDE DEF Q
<1>5. \A x \in Q : x = cur => window BY <1>2, <1>4, AllFacts
<1>6. Runnable(t.stat) = Runnable(v.stat) \cup Q
  <2>1. \A x \in All : x \in Runnable(t.stat) <=> t.stat[x] = "SRUN" /\ (x = cur => window)
    BY DEF Runnable
  <2>2. \A x \in All : x \in Runnable(v.stat) <=> v.stat[x] = "SRUN" /\ (x = cur => window)
    BY DEF Runnable
  <2>3. \A x \in All : x \in Runnable(t.stat) <=> x \in Runnable(v.stat) \cup Q
    BY <1>1, <1>5, <2>1, <2>2
  <2>4. Runnable(t.stat) \subseteq All /\ Runnable(v.stat) \cup Q \subseteq All BY <1>4 DEF Runnable
  <2> QED BY <2>3, <2>4
<1>7. \A x \in All : t.stat[x] = "SSLEEP" <=> t.wchan[x] # Nil
  <2> TAKE x \in All
  <2>1. CASE x \in Q BY <1>1, <2>1
  <2>2. CASE x \notin Q
    <3>1. x # p BY <2>2 DEF Q
    <3> QED BY <1>1, <1>2, <1>3, <2>2, <3>1
  <2> QED BY <2>1, <2>2
<1>8. cur # Nil /\ ~window => t.stat[cur] = "SRUN"
  <2>1. Sound(t, Runnable(t.stat)) BY <1>1, <1>6
  <2> SUFFICES ASSUME cur # Nil, ~window PROVE t.stat[cur] = "SRUN" OBVIOUS
  <2>2. v.stat[cur] = "SRUN" BY <1>2
  <2>3. cur \in All BY <1>2 DEF Ptr
  <2> QED BY <1>1, <2>2, <2>3
<1> QED BY <1>1, <1>2, <1>6, <1>7, <1>8 DEF Steady

(* A round of wakeup leaves the queues in order and makes progress.        *)
LEMMA WakerTurns ==
  ASSUME BucketApart, NEW c \in Chans, NEW s, NEW l, WakerAt(l, s, c)
  PROVE  /\ WakerAt(Turn(l, c), s, c)
         /\ Left(Turn(l, c)) = 0 \/ Left(Turn(l, c)) < Left(l)
<1> DEFINE n == WakeStep(l, c)
           t == Setrun(n.s, n.run)
           u == [n EXCEPT !.s = t]
           h == Hash[c]
           R == Runnable(l.s.stat)
<1>1. l \in LoopSet /\ l.s \in QueueSet /\ Steady(l.s) BY DEF WakerAt, LoopSet
<1>2. PICK Rest : At(l, c, Rest) BY DEF WakerAt
<1>3. \A x \in All : /\ l.s.wchan[x] = s.wchan[x] \/ l.s.wchan[x] = Nil
                     /\ l.s.stat[x] = s.stat[x] \/ l.s.stat[x] = "SRUN"
  BY DEF WakerAt
<1>4. Turn(l, c) = IF n.run = Nil THEN n ELSE u BY Zenon DEF Turn
<1>5. CASE l.p = Nil
  <2>1. n \in LoopSet /\ n.s = l.s /\ n.p = l.p /\ n.q = l.q /\ n.run = Nil
    BY <1>1, <1>5, StepEnds
  <2>2. Turn(l, c) = n BY <1>4, <2>1
  <2> HIDE DEF n
  <2>3. At(n, c, Rest) BY <1>2, <2>1 DEF At
  <2>4. Rest = {} BY <1>2, <1>5, LeftFacts
  <2>5. Left(n) = 0 BY <2>3, <2>4, LeftFacts
  <2>6. WakerAt(n, s, c) BY <1>1, <1>3, <2>1, <2>3 DEF WakerAt
  <2> QED BY <2>2, <2>5, <2>6
<1>6. CASE l.p # Nil /\ l.s.wchan[l.p] # c
  <2>1. /\ n \in LoopSet /\ n.s = l.s /\ n.run = Nil /\ l.p \in Rest /\ At(n, c, Rest \ {l.p})
    BY <1>1, <1>2, <1>6, StepPasses
  <2>2. Turn(l, c) = n BY <1>4, <2>1
  <2> HIDE DEF n
  <2>3. Left(n) < Left(l) BY <1>2, <2>1, LeftFacts
  <2>4. WakerAt(n, s, c) BY <1>1, <1>3, <2>1 DEF WakerAt
  <2> QED BY <2>2, <2>3, <2>4
<1>7. CASE l.p # Nil /\ l.s.wchan[l.p] = c
  <2>1. /\ Sound(l.s, R) /\ OnlySched(l.s) /\ Swapper(l.s) BY <1>1 DEF Steady
  <2>2. /\ n \in LoopSet /\ n.run = l.p /\ n.s.wchan = [l.s.wchan EXCEPT ![l.p] = Nil]
        /\ n.s.stat = l.s.stat /\ n.s.runout = l.s.runout /\ Sound(n.s, R)
        /\ At(n, c, Rest \ {l.p}) /\ l.p \notin R /\ l.p \in Rest
    <3>1. n = WakeStep(l, c) OBVIOUS
    <3> HIDE DEF n, R
    <3>2. Took(l, n, c, R, Rest) BY <1>1, <1>2, <1>7, <2>1, <3>1, StepTakes
    <3> QED BY <3>2, Zenon DEF Took
  <2>3. l.p \in All /\ c # Nil /\ c # Runout /\ Runout # Nil /\ h \in Buckets /\ h # Hash[Runout]
    BY <1>1, <1>7, ChansAssumption DEF LoopSet, Ptr, Buckets, BucketApart
  <2>4. Turn(l, c) = u BY <1>4, <1>7, <2>2
  <2>5. t = Setrun(n.s, l.p) BY <2>2
  <2> HIDE DEF t
  <2> HIDE DEF n
  <2> HIDE DEF R
  <2>6. l.s.wchan \in [All -> Chans \cup {Runout, Nil}] BY <1>1 DEF QueueSet
  <2>7. n.s.wchan[l.p] = Nil /\ \A x \in All : x # l.p => n.s.wchan[x] = l.s.wchan[x]
    BY <2>2, <2>3, <2>6
  <2>8. OnlySched(n.s) BY <2>1, <2>3, <2>7 DEF OnlySched
  <2>9. Swapper(n.s)
    <3>1. n.s.wchan[Sched] = Runout => l.s.wchan[Sched] = Runout BY <2>3, <2>7, AllFacts
    <3> QED BY <2>1, <2>2, <3>1 DEF Swapper
  <2>10. /\ \E P \in SUBSET {Sched} : /\ (\A x \in P : n.s.wchan[x] = Runout)
                                      /\ Made(n.s, t, R, P \cup {l.p})
         /\ OnlySched(t) /\ Swapper(t)
    BY <2>2, <2>3, <2>5, <2>7, <2>8, <2>9, SetrunWorks
  <2>11. PICK P \in SUBSET {Sched} : /\ (\A x \in P : n.s.wchan[x] = Runout)
                                     /\ Made(n.s, t, R, P \cup {l.p})
    BY <2>10
  <2>12. Steady(t) BY <1>1, <1>7, <2>2, <2>3, <2>6, <2>10, <2>11, SteadyMade DEF R
  <2>13. /\ t \in QueueSet /\ t.slpque[h] = n.s.slpque[h]
         /\ \A x \in All : /\ t.wchan[x] = IF x \in P \cup {l.p} THEN Nil ELSE n.s.wchan[x]
                           /\ t.stat[x] = IF x \in P \cup {l.p} THEN "SRUN" ELSE n.s.stat[x]
                           /\ x \notin P \cup {l.p} => t.link[x] = n.s.link[x]
    BY <2>3, <2>11 DEF Made, Sound
  <2> HIDE DEF h
  <2>14. \A x \in Sleepers(n.s.wchan, h) : x \in All /\ x \notin P \cup {l.p}
    BY <2>3, <2>7, <2>11 DEF Sleepers
  <2>15. Sleepers(t.wchan, h) = Sleepers(n.s.wchan, h)
    <3>1. \A x \in Sleepers(n.s.wchan, h) : x \in Sleepers(t.wchan, h) BY <2>13, <2>14 DEF Sleepers
    <3>2. \A x \in Sleepers(t.wchan, h) : x \in Sleepers(n.s.wchan, h) BY <2>13 DEF Sleepers
    <3> QED BY <3>1, <3>2
  <2>16. \A x \in Sleepers(n.s.wchan, h) : t.link[x] = n.s.link[x] /\ t.wchan[x] = n.s.wchan[x]
    BY <2>13, <2>14
  <2>17. u \in LoopSet /\ At(u, c, Rest \ {l.p}) BY <2>2, <2>13, <2>15, <2>16, AtKept DEF h
  <2>18. u.s = t BY <2>2 DEF LoopSet
  <2> HIDE DEF u
  <2>19. \A x \in All : /\ t.wchan[x] = s.wchan[x] \/ t.wchan[x] = Nil
                        /\ t.stat[x] = s.stat[x] \/ t.stat[x] = "SRUN"
    BY <1>3, <2>2, <2>7, <2>13
  <2>20. WakerAt(u, s, c) BY <2>12, <2>17, <2>18, <2>19 DEF WakerAt
  <2>21. Left(u) < Left(l) BY <1>2, <2>2, <2>17, LeftFacts
  <2> QED BY <2>4, <2>20, <2>21
<1> QED BY <1>5, <1>6, <1>7

(* The equation that the loop of wakeup(c) solves.                         *)
WakerLoop(f, s, c) ==
  f = [k \in 0..Rounds |-> IF k = 0 THEN Loop(s, c) ELSE Turn(f[k - 1], c)]

(* wakeup makes every process that slept on c runnable, and leaves the     *)
(* queues in order.                                                        *)
LEMMA WakeupWorks ==
  ASSUME BucketApart, NEW c \in Chans, NEW s, Steady(s)
  PROVE  /\ Steady(Wakeup(s, c))
         /\ \A x \in All : s.wchan[x] = c => x \in Runnable(Wakeup(s, c).stat)
         /\ \A x \in All : /\ Wakeup(s, c).wchan[x] = s.wchan[x] \/ Wakeup(s, c).wchan[x] = Nil
                           /\ Wakeup(s, c).stat[x] = s.stat[x] \/ Wakeup(s, c).stat[x] = "SRUN"
<1> DEFINE x == Loop(s, c)
           D == {l \in LoopSet : WakerAt(l, s, c)}
           F == [l \in D |-> Turn(l, c)]
           M == [l \in D |-> Left(l)]
           g == CHOOSE f : WakerLoop(f, s, c)
<1>1. Wakeup(s, c) = g[Rounds].s BY Zenon DEF Wakeup, WakerLoop, Turn
<1>2. Sound(s, Runnable(s.stat)) BY DEF Steady
<1>3. /\ x \in LoopSet /\ x.s = s /\ At(x, c, Sleepers(s.wchan, Hash[c])) BY <1>2, LoopStarts
<1>4. \A f : WakerLoop(f, s, c) <=>
        f = [k \in 0..Rounds |-> IF k = 0 THEN x ELSE Turn(f[k - 1], c)]
  BY Zenon DEF WakerLoop
<1> HIDE DEF x, g
<1>7. x \in D BY <1>3 DEF WakerAt
<1>8. \A l \in D : Turn(l, c) \in D /\ (Left(Turn(l, c)) = 0 \/ Left(Turn(l, c)) < Left(l))
  <2> TAKE l \in D
  <2>1. WakerAt(Turn(l, c), s, c) /\ (Left(Turn(l, c)) = 0 \/ Left(Turn(l, c)) < Left(l))
    BY WakerTurns
  <2>2. Turn(l, c) \in LoopSet BY <2>1 DEF WakerAt
  <2> QED BY <2>1, <2>2
<1>9. \A l \in D : Left(l) \in Nat /\ Left(l) <= Cardinality(All) BY LeftFacts DEF WakerAt
<1> DEFINE n == Rounds
<1>10. n \in Nat \ {0} /\ Cardinality(All) <= n /\ Cardinality(All) \in Nat BY RoundsFact, AllFacts
<1> HIDE DEF D, n
<1>11. F \in [D -> D] /\ M \in [D -> Nat] BY <1>8, <1>9
<1>12. \A d \in D : F[d] = Turn(d, c) /\ M[d] = Left(d) OBVIOUS
<1> HIDE DEF F, M
<1>13. \A d \in D : M[F[d]] = 0 \/ M[F[d]] < M[d] BY <1>8, <1>12
<1>14. M[x] <= n
  <2>1. M[x] = Left(x) /\ Left(x) \in Nat /\ Left(x) <= Cardinality(All) BY <1>7, <1>9, <1>12
  <2> QED BY <1>10, <2>1
<1>15. /\ \E f \in [0..n -> D] : f[0] = x /\ \A k \in 1..n : f[k] = F[f[k - 1]]
       /\ \A f : f[0] = x /\ (\A k \in 1..n : f[k - 1] \in D => f[k] = F[f[k - 1]])
                 => f[n] \in D /\ M[f[n]] = 0
  <2>1. Ends(D, F, M, x, n) BY <1>7, <1>10, <1>11, <1>13, <1>14, LoopEnds
  <2> QED BY <2>1, Zenon DEF Ends
<1>16. g = [k \in 0..n |-> IF k = 0 THEN x ELSE Turn(g[k - 1], c)]
  <2>1. PICK f \in [0..n -> D] : f[0] = x /\ \A k \in 1..n : f[k] = F[f[k - 1]] BY <1>15
  <2>2. \A k \in 0..n : f[k] = IF k = 0 THEN x ELSE Turn(f[k - 1], c)
    <3> TAKE k \in 0..n
    <3>1. CASE k = 0 BY <2>1, <3>1
    <3>2. CASE k # 0
      <4>1. k \in 1..n /\ k - 1 \in 0..n BY <1>10, <3>2
      <4>2. f[k - 1] \in D BY <2>1, <4>1
      <4> QED BY <1>12, <2>1, <3>2, <4>1, <4>2
    <3> QED BY <3>1, <3>2
  <2>3. f = [k \in 0..n |-> f[k]] BY <2>1
  <2>4. f = [k \in 0..n |-> IF k = 0 THEN x ELSE Turn(f[k - 1], c)] BY <2>2, <2>3, Zenon
  <2>5. WakerLoop(f, s, c) BY <1>4, <2>4, Zenon DEF n
  <2>6. WakerLoop(g, s, c) BY <2>5, Zenon DEF g
  <2> QED BY <1>4, <2>6, Zenon DEF n
<1>17. g[0] = x /\ \A k \in 1..n : g[k - 1] \in D => g[k] = F[g[k - 1]]
  <2>1. \A k \in 0..n : g[k] = IF k = 0 THEN x ELSE Turn(g[k - 1], c) BY <1>16, Zenon
  <2>2. \A k \in 1..n : k \in 0..n /\ k # 0 BY <1>10
  <2>3. 0 \in 0..n BY <1>10
  <2> QED BY <1>12, <2>1, <2>2, <2>3
<1> DEFINE l == g[n]
<1>18. l \in D /\ M[l] = 0 BY <1>15, <1>17
<1>19. l \in LoopSet /\ WakerAt(l, s, c) /\ Left(l) = 0 BY <1>12, <1>18 DEF D
<1>20. Wakeup(s, c) = l.s BY <1>1 DEF n
<1> HIDE DEF l
<1>21. PICK Rest : At(l, c, Rest) BY <1>19 DEF WakerAt
<1>22. \A y \in Sleepers(l.s.wchan, Hash[c]) : l.s.wchan[y] # c BY <1>19, <1>21, LeftFacts DEF At
<1>23. c # Nil BY ChansAssumption
<1>24. \A y \in All : l.s.wchan[y] # c BY <1>22, <1>23 DEF Sleepers
<1>25. /\ Steady(l.s)
       /\ \A y \in All : /\ l.s.wchan[y] = s.wchan[y] \/ l.s.wchan[y] = Nil
                         /\ l.s.stat[y] = s.stat[y] \/ l.s.stat[y] = "SRUN"
  BY <1>19 DEF WakerAt
<1>26. ASSUME NEW y \in All, s.wchan[y] = c PROVE y \in Runnable(l.s.stat)
  <2>1. l.s.wchan[y] = Nil BY <1>24, <1>25, <1>26
  <2>2. l.s.stat[y] # "SSLEEP" BY <1>25, <2>1 DEF Steady
  <2>3. s.stat[y] = "SSLEEP" BY <1>23, <1>26 DEF Steady
  <2>4. l.s.stat[y] = "SRUN" BY <1>25, <2>2, <2>3
  <2>5. y = cur => window BY <2>3, AllFacts DEF Steady
  <2> QED BY <2>4, <2>5 DEF Runnable
<1> QED BY <1>20, <1>25, <1>26

(* From s to t the swapper was called, if it slept on, and p was made      *)
(* runnable.                                                               *)
Called(s, t, R, p) ==
  /\ \E P \in SUBSET {Sched} : (\A x \in P : s.wchan[x] = Runout) /\ Made(s, t, R, P \cup {p})
  /\ t.wchan[Sched] # Runout

(* The swapper is called, and then p joins the run queue.                  *)
LEMMA CallThenQueue ==
  ASSUME BucketApart, NEW s, NEW R, Sound(s, R), OnlySched(s), s.wchan[Sched] = Runout => s.runout,
         NEW p \in All, s.wchan[p] = Nil, s.stat[p] = "SRUN", p \notin R
  PROVE  Called(s, Setrq(CallSwapper(s), p), R, p)
<1> DEFINE u == CallSwapper(s)
           t == Setrq(u, p)
<1>1. /\ \E P \in SUBSET {Sched} : (\A x \in P : s.wchan[x] = Runout) /\ Made(s, u, R, P)
      /\ u.wchan[Sched] # Runout
  <2>1. CASE s.runout BY <2>1, SwapperCalls
  <2>2. CASE ~s.runout
    <3>1. u = s BY <2>2, Zenon DEF CallSwapper
    <3>2. Made(s, s, R, {})
      <4>1. R \cup {} = R OBVIOUS
      <4> QED BY <4>1 DEF Made
    <3> QED BY <2>2, <3>1, <3>2
  <2> QED BY <2>1, <2>2
<1> HIDE DEF u, t
<1>2. PICK P \in SUBSET {Sched} : (\A x \in P : s.wchan[x] = Runout) /\ Made(s, u, R, P) BY <1>1
<1>3. /\ Sound(u, R \cup P)
      /\ \A x \in All : /\ u.wchan[x] = IF x \in P THEN Nil ELSE s.wchan[x]
                        /\ u.stat[x] = IF x \in P THEN "SRUN" ELSE s.stat[x]
                        /\ x \notin P => u.link[x] = s.link[x]
      /\ \A h \in Buckets \ {Hash[Runout]} : u.slpque[h] = s.slpque[h]
  BY <1>2 DEF Made
<1>4. p \notin R \cup P /\ u.wchan[p] = Nil BY <1>2, <1>3, ChansAssumption
<1>5. /\ Sound(Setrq(u, p), (R \cup P) \cup {p})
      /\ Setrq(u, p).slpque = u.slpque /\ Setrq(u, p).wchan = u.wchan
      /\ Setrq(u, p).stat = u.stat /\ Setrq(u, p).runout = u.runout
      /\ \A x \in All \ {p} : Setrq(u, p).link[x] = u.link[x]
  BY <1>3, <1>4, SetrqSound
<1>6. t = Setrq(u, p) BY DEF t
<1>7. (R \cup P) \cup {p} = R \cup (P \cup {p}) OBVIOUS
<1>8. /\ Sound(t, R \cup (P \cup {p})) /\ t.slpque = u.slpque /\ t.wchan = u.wchan
      /\ t.stat = u.stat /\ \A x \in All \ {p} : t.link[x] = u.link[x]
  BY <1>5, <1>6, <1>7, Zenon
<1>9. Made(s, t, R, P \cup {p}) BY <1>3, <1>8 DEF Made
<1>10. Called(s, t, R, p) BY <1>1, <1>2, <1>8, <1>9 DEF Called
<1> QED BY <1>10 DEF t, u

----------------------------------------------------------------------------
(* The inductive invariant.                                                *)

(* The processes that wait for the processor.                              *)
Waiting == {p \in All : stat[p] = "SRUN" /\ (p = cur => window)}

(* The lists are those of the sleepers and of the processes that wait for  *)
(* the processor; nobody but the swapper sleeps on &runout; whoever runs   *)
(* is runnable; the swapper is called and wakeup has woken all.            *)
IInv ==
  /\ TypeOK /\ Sound(Queues, Waiting) /\ OnlySched(Queues)
  /\ SwapperCalled
  /\ cur # Nil /\ ~window => stat[cur] = "SRUN"
  /\ woke \subseteq Waiting

(* What is not in the queues.                                              *)
Others ==
  /\ loaded \subseteq All /\ window \in BOOLEAN /\ cur \in Ptr
  /\ pri \in [All -> {"signals", "nosignals"}] /\ asked \in [All -> {"signals", "nosignals"}]

(* The record of the queues, now and after a step.                         *)
LEMMA QueuesFields ==
  /\ Queues.slpque = slpque /\ Queues.runq = runq /\ Queues.link = link
  /\ Queues.wchan = wchan /\ Queues.stat = stat /\ Queues.runout = runout
  BY DEF Queues

(* After a step.                                                           *)
LEMMA QueuesFieldsNext ==
  /\ Queues'.slpque = slpque' /\ Queues'.runq = runq' /\ Queues'.link = link'
  /\ Queues'.wchan = wchan' /\ Queues'.stat = stat' /\ Queues'.runout = runout'
  BY DEF Queues

(* A routine stores all of the queues.                                     *)
LEMMA Stores ==
  ASSUME NEW t \in QueueSet, SetQueues(t)
  PROVE  Queues' = t
  BY DEF SetQueues, Queues, QueueSet

(* What the queues and the rest of the state after a step must satisfy.    *)
LEMMA Assembled ==
  ASSUME NEW t, SetQueues(t), Sound(t, Waiting'), OnlySched(t),
         \A x \in All : t.stat[x] = "SSLEEP" <=> t.wchan[x] # Nil,
         t.wchan[Sched] = Runout => t.runout /\ \A x \in Procs : t.stat[x] = "SRUN" => x \in loaded',
         Others', cur' # Nil /\ ~window' => t.stat[cur'] = "SRUN", woke' \subseteq Waiting'
  PROVE  IInv'
<1>1. t \in QueueSet BY DEF Sound
<1>2. Queues' = t BY <1>1, Stores
<1>3. /\ slpque' = t.slpque /\ runq' = t.runq /\ link' = t.link
      /\ wchan' = t.wchan /\ stat' = t.stat /\ runout' = t.runout
  BY DEF SetQueues
<1>4. /\ slpque' \in [Buckets -> All \cup {Nil}] /\ runq' \in All \cup {Nil}
      /\ link' \in [All -> All \cup {Nil}] /\ wchan' \in [All -> Chans \cup {Runout, Nil}]
      /\ stat' \in [All -> {"none", "SRUN", "SSLEEP"}] /\ runout' \in BOOLEAN
  BY <1>1, <1>3 DEF QueueSet, Links, Ptr
<1>5. \A x \in All : stat'[x] = "SSLEEP" <=> wchan'[x] # Nil BY <1>3
<1>6. woke' \subseteq All BY DEF Waiting
<1>7. TypeOK' BY <1>4, <1>5, <1>6 DEF TypeOK, Others, Ptr
<1>8. Sound(Queues, Waiting)' /\ OnlySched(Queues)' BY <1>2
<1>9. SwapperCalled' BY <1>3 DEF SwapperCalled, Ready
<1>10. cur' # Nil /\ ~window' => stat'[cur'] = "SRUN" BY <1>3
<1> QED BY <1>7, <1>8, <1>9, <1>10 DEF IInv

(* What the invariant says, for the queues and for the rest.               *)
LEMMA Now ==
  ASSUME IInv
  PROVE  /\ Queues \in QueueSet /\ Sound(Queues, Waiting) /\ OnlySched(Queues) /\ Others
         /\ \A x \in All : stat[x] = "SSLEEP" <=> wchan[x] # Nil
         /\ \A x \in All : wchan[x] = Runout => x = Sched
         /\ wchan[Sched] = Runout => runout /\ \A x \in Procs : stat[x] = "SRUN" => x \in loaded
         /\ cur # Nil /\ ~window => stat[cur] = "SRUN"
         /\ Steady(Queues)
<1>1. /\ Sound(Queues, Waiting) /\ OnlySched(Queues) /\ TypeOK /\ SwapperCalled
      /\ cur # Nil /\ ~window => stat[cur] = "SRUN"
  BY DEF IInv
<1>2. Others BY <1>1 DEF TypeOK, Others, Ptr
<1>3. \A x \in All : stat[x] = "SSLEEP" <=> wchan[x] # Nil BY <1>1 DEF TypeOK
<1>4. \A x \in All : wchan[x] = Runout => x = Sched BY <1>1, QueuesFields DEF OnlySched
<1>5. wchan[Sched] = Runout => runout /\ \A x \in Procs : stat[x] = "SRUN" => x \in loaded
  BY <1>1 DEF SwapperCalled, Ready
<1>6. Runnable(Queues.stat) = Waiting BY QueuesFields DEF Runnable, Waiting
<1>7. Swapper(Queues) BY <1>5, QueuesFields DEF Swapper
<1>8. \A x \in All : Queues.stat[x] = "SSLEEP" <=> Queues.wchan[x] # Nil BY <1>3, QueuesFields
<1>9. cur \in Ptr /\ (cur # Nil /\ ~window => Queues.stat[cur] = "SRUN")
  BY <1>1, <1>2, QueuesFields DEF Others
<1>10. Steady(Queues) BY <1>1, <1>6, <1>7, <1>8, <1>9 DEF Steady
<1>11. Queues \in QueueSet BY <1>1 DEF Sound
<1> QED BY <1>1, <1>2, <1>3, <1>4, <1>5, <1>10, <1>11

(* main: no list has a member.                                             *)
LEMMA InitIInv ==
  ASSUME Init
  PROVE  IInv
<1>1. /\ slpque = [h \in Buckets |-> Nil] /\ runq = Nil
      /\ link = [p \in All |-> Nil] /\ wchan = [p \in All |-> Nil]
      /\ stat = [p \in All |-> IF p = Sched THEN "SRUN" ELSE "none"]
      /\ loaded = {Sched} /\ runout = FALSE /\ cur = Sched /\ window = FALSE
      /\ pri = [p \in All |-> "signals"] /\ asked = [p \in All |-> "signals"] /\ woke = {}
  BY DEF Init
<1>2. Sched \in All /\ Runout # Nil BY AllFacts, ChansAssumption
<1>3. TypeOK BY <1>1, <1>2 DEF TypeOK
<1>4. Waiting = {} BY <1>1, <1>2 DEF Waiting
<1>5. \A h : Sleepers(wchan, h) = {} BY <1>1 DEF Sleepers
<1>6. Queues \in QueueSet BY <1>1 DEF Queues, QueueSet, Links, Ptr
<1>7. \A h \in Buckets : List(link, slpque[h], Sleepers(wchan, h)) BY <1>1, <1>5, ListEmpty
<1>8. List(link, runq, {}) BY <1>1, ListEmpty
<1>9. Sound(Queues, Waiting) BY <1>4, <1>6, <1>7, <1>8, QueuesFields DEF Sound
<1>10. OnlySched(Queues) BY <1>1, <1>2, QueuesFields DEF OnlySched
<1>11. SwapperCalled BY <1>1, <1>2 DEF SwapperCalled
<1> QED BY <1>1, <1>2, <1>3, <1>9, <1>10, <1>11 DEF IInv

(* newproc queues the child, which is in core.                             *)
LEMMA NewProcKeeps ==
  ASSUME IInv, NEW p \in Procs, NewProc(p)
  PROVE  IInv'
<1> DEFINE t == SetrunLoaded(Queues, p)
<1>1. /\ cur # Nil /\ ~window /\ stat[p] = "none" /\ SetQueues(t) /\ loaded' = loaded \cup {p}
      /\ woke' = {} /\ cur' = cur /\ window' = window /\ pri' = pri /\ asked' = asked
  BY Zenon DEF NewProc, SetrunLoaded
<1>2. p \in All /\ p # Sched BY AllFacts
<1>3. /\ Queues \in QueueSet /\ Sound(Queues, Waiting) /\ Others
      /\ \A x \in All : stat[x] = "SSLEEP" <=> wchan[x] # Nil
      /\ \A x \in All : wchan[x] = Runout => x = Sched
      /\ wchan[Sched] = Runout => runout /\ \A x \in Procs : stat[x] = "SRUN" => x \in loaded
      /\ cur # Nil /\ ~window => stat[cur] = "SRUN"
  BY Now
<1>4. p \notin Waiting /\ wchan[p] = Nil /\ p # cur BY <1>1, <1>2, <1>3 DEF Waiting
<1>5. Joined(Queues, t, Waiting, p) BY <1>2, <1>3, <1>4, SetrunLoadedSound, QueuesFields
<1> HIDE DEF t
<1>6. /\ Sound(t, Waiting \cup {p}) /\ t.wchan = wchan /\ t.runout = runout
      /\ t.stat = [stat EXCEPT ![p] = "SRUN"]
  BY <1>5, QueuesFields DEF Joined
<1>7. \A x \in All : t.stat[x] = IF x = p THEN "SRUN" ELSE stat[x]
  BY <1>3, <1>6, QueuesFields DEF QueueSet
<1>8. Waiting' = Waiting \cup {p}
  <2>1. stat' = t.stat BY <1>1 DEF SetQueues
  <2> QED BY <1>1, <1>2, <1>4, <1>7, <2>1 DEF Waiting
<1>9. OnlySched(t) BY <1>3, <1>6 DEF OnlySched
<1>10. \A x \in All : t.stat[x] = "SSLEEP" <=> t.wchan[x] # Nil BY <1>3, <1>4, <1>6, <1>7
<1>11. t.wchan[Sched] = Runout => t.runout /\ \A x \in Procs : t.stat[x] = "SRUN" => x \in loaded'
  BY <1>1, <1>3, <1>6, <1>7, AllFacts
<1>12. Others' BY <1>1, <1>2, <1>3 DEF Others
<1>13. cur' # Nil /\ ~window' => t.stat[cur'] = "SRUN"
  <2>1. cur \in All BY <1>1, <1>3 DEF Others, Ptr
  <2> QED BY <1>1, <1>3, <1>7, <2>1
<1>14. woke' \subseteq Waiting' BY <1>1
<1> QED BY <1>1, <1>6, <1>8, <1>9, <1>10, <1>11, <1>12, <1>13, <1>14, Assembled

(* newproc and expand call the swapper and then queue the process.         *)
LEMMA CallKeeps ==
  ASSUME BucketApart, IInv, NEW p \in Procs, NEW s, Sound(s, Waiting),
         s.wchan = wchan, s.runout = runout,
         \A x \in All : s.stat[x] = IF x = p THEN "SRUN" ELSE stat[x],
         wchan[p] = Nil, p \notin Waiting, cur # Nil, ~window,
         SetQueues(Setrq(CallSwapper(s), p)), window' = window, pri' = pri, asked' = asked,
         loaded' \subseteq loaded, woke' = {},
         (cur' = cur /\ p # cur) \/ (cur' = Nil /\ p = cur)
  PROVE  IInv'
<1> DEFINE t == Setrq(CallSwapper(s), p)
<1>2. p \in All /\ p # Sched BY AllFacts
<1>3. /\ Queues \in QueueSet /\ Others
      /\ \A x \in All : stat[x] = "SSLEEP" <=> wchan[x] # Nil
      /\ \A x \in All : wchan[x] = Runout => x = Sched
      /\ wchan[Sched] = Runout => runout /\ \A x \in Procs : stat[x] = "SRUN" => x \in loaded
      /\ cur # Nil /\ ~window => stat[cur] = "SRUN"
  BY Now
<1>4. OnlySched(s) BY <1>3 DEF OnlySched
<1>5. /\ \E P \in SUBSET {Sched} : (\A x \in P : s.wchan[x] = Runout) /\ Made(s, t, Waiting, P \cup {p})
      /\ t.wchan[Sched] # Runout
  <2>1. s.wchan[p] = Nil /\ s.stat[p] = "SRUN" /\ (s.wchan[Sched] = Runout => s.runout) BY <1>2, <1>3
  <2>2. Called(s, t, Waiting, p) BY <1>2, <1>4, <2>1, CallThenQueue
  <2> HIDE DEF t
  <2> QED BY <2>2 DEF Called
<1>6. SetQueues(t) OBVIOUS
<1> HIDE DEF t
<1>7. PICK P \in SUBSET {Sched} : (\A x \in P : s.wchan[x] = Runout) /\ Made(s, t, Waiting, P \cup {p})
  BY <1>5
<1> DEFINE Q == P \cup {p}
<1>8. /\ Sound(t, Waiting \cup Q)
      /\ \A x \in All : /\ t.wchan[x] = IF x \in Q THEN Nil ELSE wchan[x]
                        /\ t.stat[x] = IF x \in Q THEN "SRUN" ELSE stat[x]
  BY <1>7 DEF Made
<1>9. \A x \in Q : x \in All /\ (x = p \/ wchan[x] # Nil) /\ (x = cur => x = p)
  <2> TAKE x \in Q
  <2>1. x \in All /\ (x = p \/ wchan[x] = Runout) BY <1>2, <1>7, AllFacts
  <2>2. x = p \/ stat[x] = "SSLEEP" BY <1>3, <2>1, ChansAssumption
  <2>3. x = cur => x = p BY <1>3, <2>2
  <2> QED BY <2>1, <2>3, ChansAssumption
<1>10. p \in Q OBVIOUS
<1> HIDE DEF Q
<1>11. stat' = t.stat BY <1>6 DEF SetQueues
<1>12. Waiting' = Waiting \cup Q
  <2>1. \A x \in All : x \in Waiting' <=> t.stat[x] = "SRUN" /\ (x = cur' => window')
    BY <1>11 DEF Waiting
  <2>2. \A x \in All : x \in Waiting <=> stat[x] = "SRUN" /\ x # cur BY DEF Waiting
  <2>3. Waiting' \subseteq All /\ Waiting \cup Q \subseteq All BY <1>9 DEF Waiting
  <2>4. \A x \in All : x = cur' <=> (x = cur /\ p # cur) BY AllFacts
  <2>5. \A x \in All : x \in Q => (x = cur => x = p) BY <1>9
  <2>6. \A x \in All : x \in Waiting' <=> x \in Waiting \cup Q BY <1>8, <1>10, <2>1, <2>2, <2>4, <2>5
  <2> QED BY <2>3, <2>6
<1>13. OnlySched(t) BY <1>3, <1>8, ChansAssumption DEF OnlySched
<1>14. \A x \in All : t.stat[x] = "SSLEEP" <=> t.wchan[x] # Nil BY <1>3, <1>8
<1>15. Others' BY <1>2, <1>3 DEF Others, Ptr
<1>16. cur' # Nil /\ ~window' => t.stat[cur'] = "SRUN"
  <2>1. cur \in All BY <1>3 DEF Others, Ptr
  <2> QED BY <1>3, <1>8, <2>1
<1>17. woke' \subseteq Waiting' OBVIOUS
<1> QED BY <1>5, <1>6, <1>8, <1>12, <1>13, <1>14, <1>15, <1>16, <1>17, Assembled

(* newproc when the image of the child goes to the swap area.              *)
LEMMA NewProcOutKeeps ==
  ASSUME BucketApart, IInv, NEW p \in Procs, NewProcOut(p)
  PROVE  IInv'
<1> DEFINE s == [Queues EXCEPT !.stat[p] = "SRUN"]
<1>1. /\ cur # Nil /\ ~window /\ stat[p] = "none" /\ SetQueues(Setrq(CallSwapper(s), p))
      /\ woke' = {} /\ loaded' = loaded /\ cur' = cur /\ window' = window
      /\ pri' = pri /\ asked' = asked
  BY Zenon DEF NewProcOut
<1>2. /\ Queues \in QueueSet /\ Sound(Queues, Waiting)
      /\ \A x \in All : stat[x] = "SSLEEP" <=> wchan[x] # Nil
      /\ cur # Nil /\ ~window => stat[cur] = "SRUN"
  BY Now
<1>3. p \in All BY AllFacts
<1>4. /\ Sound(s, Waiting) /\ s.wchan = wchan /\ s.stat = [stat EXCEPT ![p] = "SRUN"]
      /\ s.runout = runout
  BY <1>2, <1>3, StatSound, QueuesFields
<1> HIDE DEF s
<1>5. \A x \in All : s.stat[x] = IF x = p THEN "SRUN" ELSE stat[x]
  BY <1>2, <1>4, QueuesFields DEF QueueSet
<1>6. wchan[p] = Nil /\ p \notin Waiting /\ p # cur BY <1>1, <1>2, <1>3 DEF Waiting
<1> QED BY <1>1, <1>4, <1>5, <1>6, CallKeeps

(* expand swaps the process that runs out.                                 *)
LEMMA ExpandKeeps ==
  ASSUME BucketApart, IInv, NEW p \in Procs, Expand(p)
  PROVE  IInv'
<1>1. /\ cur = p /\ ~window /\ SetQueues(Setrq(CallSwapper(Queues), p)) /\ woke' = {}
      /\ loaded' = loaded \ {p} /\ cur' = Nil /\ window' = window /\ pri' = pri /\ asked' = asked
  BY DEF Expand, Running
<1>2. /\ Sound(Queues, Waiting)
      /\ \A x \in All : stat[x] = "SSLEEP" <=> wchan[x] # Nil
      /\ cur # Nil /\ ~window => stat[cur] = "SRUN"
  BY Now
<1>3. p \in All /\ p # Nil BY AllFacts
<1>4. stat[p] = "SRUN" /\ wchan[p] = Nil /\ p \notin Waiting BY <1>1, <1>2, <1>3 DEF Waiting
<1>5. \A x \in All : Queues.stat[x] = IF x = p THEN "SRUN" ELSE stat[x] BY <1>4, QueuesFields
<1> QED BY <1>1, <1>2, <1>3, <1>4, <1>5, QueuesFields, CallKeeps

(* The process that runs joins the run queue.                              *)
LEMMA QswtchKeeps ==
  ASSUME IInv, NEW p \in Procs, Qswtch(p)
  PROVE  IInv'
<1> DEFINE t == Setrq(Queues, p)
<1>1. /\ cur = p /\ ~window /\ SetQueues(t) /\ woke' = {}
      /\ loaded' = loaded /\ cur' = Nil /\ window' = window /\ pri' = pri /\ asked' = asked
  BY DEF Qswtch, Running
<1>2. /\ Sound(Queues, Waiting) /\ Others /\ OnlySched(Queues)
      /\ \A x \in All : stat[x] = "SSLEEP" <=> wchan[x] # Nil
      /\ wchan[Sched] = Runout => runout /\ \A x \in Procs : stat[x] = "SRUN" => x \in loaded
      /\ cur # Nil /\ ~window => stat[cur] = "SRUN"
  BY Now
<1>3. p \in All /\ p # Nil BY AllFacts
<1>4. stat[p] = "SRUN" /\ wchan[p] = Nil /\ p \notin Waiting BY <1>1, <1>2, <1>3 DEF Waiting
<1>5. /\ Sound(t, Waiting \cup {p}) /\ t.wchan = wchan /\ t.stat = stat /\ t.runout = runout
  BY <1>2, <1>3, <1>4, SetrqSound, QueuesFields
<1> HIDE DEF t
<1>6. stat' = stat BY <1>1, <1>5 DEF SetQueues
<1>7. Waiting' = Waiting \cup {p} BY <1>1, <1>3, <1>4, <1>6, AllFacts DEF Waiting
<1>8. OnlySched(t) BY <1>2, <1>5, QueuesFields DEF OnlySched
<1>9. Others' BY <1>1, <1>2 DEF Others, Ptr
<1> QED BY <1>1, <1>2, <1>5, <1>7, <1>8, <1>9, Assembled

(* sleep up to spl0: the process that runs joins the bucket of c, and is   *)
(* no longer runnable.                                                     *)
LEMMA EnqueueKeeps ==
  ASSUME IInv, NEW p \in All, NEW c \in Chans \cup {Runout}, NEW d \in {"signals", "nosignals"},
         Enqueue(p, c, d), runout' \in BOOLEAN, c = Runout => p = Sched /\ runout' /\ Ready = {},
         c # Runout => runout' = runout
  PROVE  IInv'
<1> DEFINE h == Hash[c]
           t == Queues'
<1>1. /\ cur = p /\ ~window /\ stat' = [stat EXCEPT ![p] = "SSLEEP"] /\ wchan' = [wchan EXCEPT ![p] = c]
      /\ link' = [link EXCEPT ![p] = slpque[h]] /\ slpque' = [slpque EXCEPT ![h] = p]
      /\ pri' = [pri EXCEPT ![p] = d] /\ asked' = [asked EXCEPT ![p] = d]
      /\ window' = TRUE /\ woke' = {} /\ runq' = runq /\ loaded' = loaded /\ cur' = cur
  BY DEF Enqueue, Running
<1>2. /\ Queues \in QueueSet /\ Sound(Queues, Waiting) /\ Others /\ OnlySched(Queues)
      /\ \A x \in All : stat[x] = "SSLEEP" <=> wchan[x] # Nil
      /\ \A x \in All : wchan[x] = Runout => x = Sched
      /\ wchan[Sched] = Runout => runout /\ \A x \in Procs : stat[x] = "SRUN" => x \in loaded
      /\ cur # Nil /\ ~window => stat[cur] = "SRUN"
  BY Now
<1>3. /\ slpque \in [Buckets -> Ptr] /\ runq \in Ptr /\ link \in Links
      /\ wchan \in [All -> Chans \cup {Runout, Nil}] /\ stat \in [All -> {"none", "SRUN", "SSLEEP"}]
  BY <1>2, QueuesFields DEF QueueSet
<1>4. h \in Buckets /\ c # Nil /\ p # Nil BY ChansAssumption, AllFacts DEF Buckets
<1>5. stat[p] = "SRUN" /\ wchan[p] = Nil /\ p \notin Waiting BY <1>1, <1>2, <1>4 DEF Waiting
<1>6. /\ \A x \in All : x # p => link'[x] = link[x] /\ wchan'[x] = wchan[x] /\ stat'[x] = stat[x]
      /\ wchan'[p] = c /\ stat'[p] = "SSLEEP"
  BY <1>1, <1>3 DEF Links
<1>7. t \in QueueSet
  <2>1. slpque' \in [Buckets -> Ptr] /\ runq' \in Ptr BY <1>1, <1>3 DEF Ptr
  <2>2. link' \in Links BY <1>1, <1>3, <1>4 DEF Links
  <2>3. wchan' \in [All -> Chans \cup {Runout, Nil}] BY <1>1, <1>3
  <2>4. stat' \in [All -> {"none", "SRUN", "SSLEEP"}] BY <1>1, <1>3
  <2> QED BY <2>1, <2>2, <2>3, <2>4 DEF Queues, QueueSet
<1>8. /\ List(link, runq, Waiting) /\ \A x \in Waiting : wchan[x] = Nil
      /\ \A g \in Buckets : List(link, slpque[g], Sleepers(wchan, g))
  BY <1>2, QueuesFields DEF Sound
<1> HIDE DEF h
<1>9. Waiting' = Waiting BY <1>1, <1>5, <1>6 DEF Waiting
<1>10. List(link', runq', Waiting)
  <2>1. \A x \in Waiting : link'[x] = link[x] BY <1>5, <1>6 DEF Waiting
  <2> QED BY <1>1, <1>8, <2>1, ListFrame
<1>11. \A x \in Waiting : wchan'[x] = Nil BY <1>5, <1>6, <1>8 DEF Waiting
<1>12. ASSUME NEW g \in Buckets PROVE List(link', slpque'[g], Sleepers(wchan', g))
  <2>1. List(link, slpque[g], Sleepers(wchan, g)) /\ p \notin Sleepers(wchan, g)
    BY <1>5, <1>8 DEF Sleepers
  <2>2. CASE g = h
    <3>1. Sleepers(wchan', g) = Sleepers(wchan, g) \cup {p} BY <1>4, <1>5, <1>6, <2>2 DEF Sleepers, h
    <3>2. List([link EXCEPT ![p] = slpque[h]], p, Sleepers(wchan, h) \cup {p})
      BY <1>3, <2>1, <2>2, ListPush
    <3>3. slpque'[h] = p BY <1>1, <1>3, <1>4
    <3> QED BY <1>1, <2>2, <3>1, <3>2, <3>3
  <2>3. CASE g # h
    <3>1. Sleepers(wchan', g) = Sleepers(wchan, g) BY <1>5, <1>6, <2>3 DEF Sleepers, h
    <3>2. slpque'[g] = slpque[g] BY <1>1, <1>3, <2>3
    <3>3. \A x \in Sleepers(wchan, g) : link'[x] = link[x] BY <1>6, <2>1 DEF Sleepers
    <3> QED BY <2>1, <3>1, <3>2, <3>3, ListFrame
  <2> QED BY <2>2, <2>3
<1>13. Sound(t, Waiting')
  BY <1>7, <1>9, <1>10, <1>11, <1>12, QueuesFieldsNext DEF Sound
<1>14. SetQueues(t) BY QueuesFieldsNext DEF SetQueues
<1>15. \A x \in All : wchan'[x] = Runout => x = Sched BY <1>2, <1>6
<1>16. \A x \in All : stat'[x] = "SSLEEP" <=> wchan'[x] # Nil BY <1>2, <1>4, <1>6
<1>17. wchan'[Sched] = Runout => runout' /\ \A x \in Procs : stat'[x] = "SRUN" => x \in loaded'
  <2>1. \A x \in Procs : stat'[x] = "SRUN" => stat[x] = "SRUN" BY <1>6, AllFacts
  <2>2. CASE c = Runout BY <1>1, <2>1, <2>2 DEF Ready
  <2>3. CASE c # Runout
    <3>1. wchan'[Sched] = Runout => wchan[Sched] = Runout BY <1>6, <2>3, AllFacts
    <3> QED BY <1>1, <1>2, <2>1, <2>3, <3>1
  <2> QED BY <2>2, <2>3
<1>18. Others' BY <1>1, <1>2 DEF Others
<1> HIDE DEF t
<1>19. /\ OnlySched(t) /\ \A x \in All : t.stat[x] = "SSLEEP" <=> t.wchan[x] # Nil
       /\ t.wchan[Sched] = Runout => t.runout /\ \A x \in Procs : t.stat[x] = "SRUN" => x \in loaded'
  <2>1. t.wchan = wchan' /\ t.stat = stat' /\ t.runout = runout' BY QueuesFieldsNext DEF t
  <2> QED BY <1>15, <1>16, <1>17, <2>1 DEF OnlySched
<1> QED BY <1>1, <1>13, <1>14, <1>18, <1>19, Assembled

(* sleep on another channel than &runout.                                  *)
LEMMA SleepKeeps ==
  ASSUME IInv, NEW p \in All, NEW c \in Chans, NEW d \in {"signals", "nosignals"}, Sleep(p, c, d)
  PROVE  IInv'
<1>1. Enqueue(p, c, d) /\ runout' = runout BY DEF Sleep
<1>2. runout \in BOOLEAN BY DEF IInv, TypeOK
<1>3. c # Runout BY ChansAssumption
<1> QED BY <1>1, <1>2, <1>3, EnqueueKeeps

(* The swapper waits on &runout when no process that is ready is out.      *)
LEMMA SchedSleepKeeps ==
  ASSUME IInv, SchedSleep
  PROVE  IInv'
<1>1. Ready = {} /\ Enqueue(Sched, Runout, "nosignals") /\ runout' = TRUE BY DEF SchedSleep
<1> QED BY <1>1, AllFacts, EnqueueKeeps

(* A step that leaves the queues alone.                                    *)
LEMMA QuietKeeps ==
  ASSUME IInv, UNCHANGED <<slpque, runq, link, wchan, stat, runout>>, Others', woke' = {},
         Waiting' = Waiting, cur' # Nil /\ ~window' => stat[cur'] = "SRUN",
         wchan[Sched] = Runout => loaded \subseteq loaded'
  PROVE  IInv'
<1> DEFINE t == Queues
<1>1. /\ Sound(t, Waiting) /\ OnlySched(t)
      /\ \A x \in All : stat[x] = "SSLEEP" <=> wchan[x] # Nil
      /\ wchan[Sched] = Runout => runout /\ \A x \in Procs : stat[x] = "SRUN" => x \in loaded
  BY Now
<1>2. SetQueues(t) BY QueuesFields DEF SetQueues
<1>3. t.wchan = wchan /\ t.stat = stat /\ t.runout = runout BY QueuesFields
<1> HIDE DEF t
<1> QED BY <1>1, <1>2, <1>3, Assembled

(* An interrupt in the window gives the process its user priority.         *)
LEMMA TrapTailKeeps ==
  ASSUME IInv, TrapTail
  PROVE  IInv'
<1>1. /\ UNCHANGED <<slpque, runq, link, wchan, stat, loaded, runout, cur, window, asked>>
      /\ pri' = [pri EXCEPT ![cur] = "signals"] /\ woke' = {} /\ window
  BY DEF TrapTail
<1>2. Others' BY <1>1, Now DEF Others
<1>3. Waiting' = Waiting BY <1>1 DEF Waiting
<1> QED BY <1>1, <1>2, <1>3, QuietKeeps

(* swtch finds nobody to run.                                              *)
LEMMA IdleKeeps ==
  ASSUME IInv, Idle
  PROVE  IInv'
<1>1. /\ UNCHANGED <<slpque, runq, link, wchan, stat, loaded, runout, pri, asked>>
      /\ window /\ cur' = Nil /\ window' = FALSE /\ woke' = {}
  BY DEF Idle
<1>2. Others' BY <1>1, Now DEF Others, Ptr
<1>3. Waiting' = Waiting BY <1>1, AllFacts DEF Waiting
<1> QED BY <1>1, <1>2, <1>3, QuietKeeps

(* The swapper moves the image of a process.                               *)
LEMMA SwapKeeps ==
  ASSUME IInv, NEW p \in Procs, SwapOut(p) \/ SwapIn(p)
  PROVE  IInv'
<1>1. /\ UNCHANGED <<slpque, runq, link, wchan, stat, runout, cur, window, pri, asked>>
      /\ cur = Sched /\ ~window /\ loaded' \subseteq loaded \cup {p} /\ woke' = {}
  BY DEF SwapOut, SwapIn, Running
<1>2. Others' BY <1>1, Now, AllFacts DEF Others
<1>3. Waiting' = Waiting BY <1>1 DEF Waiting
<1>4. wchan[Sched] # Runout
  <2>1. stat[Sched] = "SRUN" BY <1>1, Now, AllFacts
  <2>2. wchan[Sched] = Nil BY <2>1, Now, AllFacts
  <2> QED BY <2>2, ChansAssumption
<1>5. cur' # Nil /\ ~window' => stat[cur'] = "SRUN" BY <1>1, Now
<1> QED BY <1>1, <1>2, <1>3, <1>4, <1>5, QuietKeeps

(* wakeup, by an interrupt or by the process that runs.                    *)
LEMMA WakeKeeps ==
  ASSUME BucketApart, IInv, NEW c \in Chans, Wake(c)
  PROVE  IInv'
<1> DEFINE t == Wakeup(Queues, c)
<1>1. /\ SetQueues(t) /\ woke' = {p \in All : wchan[p] = c}
      /\ UNCHANGED <<loaded, cur, window, pri, asked>>
  BY DEF Wake
<1>2. /\ Steady(Queues) /\ Others /\ (cur # Nil /\ ~window => stat[cur] = "SRUN") BY Now
<1>3. /\ Steady(t)
      /\ \A x \in All : wchan[x] = c => x \in Runnable(t.stat)
  BY <1>2, WakeupWorks, QueuesFields
<1> HIDE DEF t
<1>4. /\ Sound(t, Runnable(t.stat)) /\ OnlySched(t) /\ Swapper(t)
      /\ \A x \in All : t.stat[x] = "SSLEEP" <=> t.wchan[x] # Nil
      /\ cur # Nil /\ ~window => t.stat[cur] = "SRUN"
  BY <1>3 DEF Steady
<1>5. Waiting' = Runnable(t.stat)
  <2>1. stat' = t.stat BY <1>1 DEF SetQueues
  <2> QED BY <1>1, <2>1 DEF Waiting, Runnable
<1>6. woke' \subseteq Waiting' BY <1>1, <1>3, <1>5
<1>7. Others' BY <1>1, <1>2 DEF Others
<1>8. t.wchan[Sched] = Runout => t.runout /\ \A x \in Procs : t.stat[x] = "SRUN" => x \in loaded'
  BY <1>1, <1>4 DEF Swapper
<1> QED BY <1>1, <1>4, <1>5, <1>6, <1>7, <1>8, Assembled

(* psignal wakes up the channel that the process sleeps on.                *)
LEMMA PsignalKeeps ==
  ASSUME BucketApart, IInv, NEW p \in Procs, Psignal(p)
  PROVE  IInv'
<1>1. stat[p] = "SSLEEP" /\ Wake(wchan[p]) BY DEF Psignal
<1>2. p \in All /\ p # Sched BY AllFacts
<1>3. wchan[p] \in Chans \cup {Runout, Nil} BY <1>2 DEF IInv, TypeOK
<1>4. wchan[p] # Nil /\ wchan[p] # Runout BY <1>1, <1>2, Now
<1> QED BY <1>1, <1>3, <1>4, WakeKeeps

(* swtch unlinks the process that it resumes from the run queue.           *)
LEMMA SwtchKeeps ==
  ASSUME IInv, NEW p \in All, Swtch(p)
  PROVE  IInv'
<1> DEFINE t == Queues'
<1>1. /\ cur = Nil \/ window
      /\ p \in Walk(link, runq) /\ stat[p] = "SRUN"
      /\ \/ runq = p /\ runq' = link[p] /\ link' = link
         \/ /\ runq' = runq
            /\ \E q \in Walk(link, runq) : link[q] = p /\ link' = [link EXCEPT ![q] = link[p]]
      /\ cur' = p /\ window' = FALSE /\ woke' = {}
      /\ UNCHANGED <<slpque, wchan, stat, loaded, runout, pri, asked>>
  BY DEF Swtch
<1>2. /\ Queues \in QueueSet /\ Sound(Queues, Waiting) /\ Others
      /\ \A x \in All : stat[x] = "SSLEEP" <=> wchan[x] # Nil
      /\ \A x \in All : wchan[x] = Runout => x = Sched
      /\ wchan[Sched] = Runout => runout /\ \A x \in Procs : stat[x] = "SRUN" => x \in loaded
  BY Now
<1>3. /\ slpque \in [Buckets -> Ptr] /\ runq \in Ptr /\ link \in Links
      /\ wchan \in [All -> Chans \cup {Runout, Nil}] /\ stat \in [All -> {"none", "SRUN", "SSLEEP"}]
      /\ runout \in BOOLEAN
  BY <1>2, QueuesFields DEF QueueSet
<1>4. /\ List(link, runq, Waiting) /\ \A x \in Waiting : wchan[x] = Nil
      /\ \A g \in Buckets : List(link, slpque[g], Sleepers(wchan, g))
  BY <1>2, QueuesFields DEF Sound
<1>5. Walk(link, runq) = Waiting BY <1>4, WalkList
<1>6. p # Nil BY AllFacts
<1>7. List(link', runq', Waiting \ {p}) /\ link' \in Links /\ runq' \in Ptr
      /\ \A x \in All : x \notin Waiting => link'[x] = link[x]
  <2>1. link[p] \in Ptr BY <1>3 DEF Links
  <2>2. CASE runq = p /\ runq' = link[p] /\ link' = link
    <3>1. List(link, link[p], Waiting \ {p}) BY <1>4, <1>6, <2>2, ListPop
    <3> QED BY <1>3, <2>1, <2>2, <3>1
  <2>3. ASSUME runq' = runq, NEW q \in Waiting, link[q] = p, link' = [link EXCEPT ![q] = link[p]]
        PROVE  List(link', runq', Waiting \ {p}) /\ link' \in Links /\ runq' \in Ptr
               /\ \A x \in All : x \notin Waiting => link'[x] = link[x]
    <3>1. List([link EXCEPT ![q] = link[p]], runq, Waiting \ {p}) BY <1>3, <1>4, <1>6, <2>3, ListUnlink
    <3>2. List(link', runq', Waiting \ {p}) BY <2>3, <3>1
    <3>3. link' \in Links BY <1>3, <2>1, <2>3 DEF Links
    <3>4. \A x \in All : x \notin Waiting => link'[x] = link[x] BY <1>3, <2>3 DEF Links
    <3> QED BY <1>3, <2>3, <3>2, <3>3, <3>4
  <2> QED BY <1>1, <1>5, <2>2, <2>3
<1>8. Waiting' = Waiting \ {p} BY <1>1, AllFacts DEF Waiting
<1>9. t \in QueueSet BY <1>1, <1>3, <1>7 DEF Queues, QueueSet
<1>10. ASSUME NEW g \in Buckets PROVE List(link', slpque'[g], Sleepers(wchan', g))
  <2>1. \A x \in Sleepers(wchan, g) : x \in All /\ x \notin Waiting BY <1>4 DEF Sleepers
  <2>2. \A x \in Sleepers(wchan, g) : link'[x] = link[x] BY <1>7, <2>1
  <2>3. List(link', slpque[g], Sleepers(wchan, g)) BY <1>4, <2>2, ListFrame
  <2> QED BY <1>1, <2>3
<1>11. \A x \in Waiting \ {p} : wchan'[x] = Nil BY <1>1, <1>4
<1>12. Sound(t, Waiting') BY <1>7, <1>8, <1>9, <1>10, <1>11, QueuesFieldsNext DEF Sound
<1>13. SetQueues(t) BY QueuesFieldsNext DEF SetQueues
<1>14. Others' BY <1>1, <1>2 DEF Others, Ptr
<1> HIDE DEF t
<1>15. t.wchan = wchan /\ t.stat = stat /\ t.runout = runout BY <1>1, QueuesFieldsNext DEF t
<1>16. OnlySched(t) BY <1>2, <1>15 DEF OnlySched
<1> QED BY <1>1, <1>2, <1>12, <1>13, <1>14, <1>15, <1>16, Assembled

(* Every step keeps the invariant.                                         *)
LEMMA NextKeeps ==
  ASSUME BucketApart, IInv, [Next]_vars
  PROVE  IInv'
<1>1. CASE \E p \in Procs :
             \/ NewProc(p) \/ NewProcOut(p) \/ Expand(p) \/ Qswtch(p)
             \/ SwapOut(p) \/ SwapIn(p) \/ Psignal(p)
             \/ \E c \in Chans, d \in {"signals", "nosignals"} : Sleep(p, c, d)
  <2>1. PICK p \in Procs :
             \/ NewProc(p) \/ NewProcOut(p) \/ Expand(p) \/ Qswtch(p)
             \/ SwapOut(p) \/ SwapIn(p) \/ Psignal(p)
             \/ \E c \in Chans, d \in {"signals", "nosignals"} : Sleep(p, c, d)
    BY <1>1
  <2>2. CASE NewProc(p) BY <2>2, NewProcKeeps
  <2>3. CASE NewProcOut(p) BY <2>3, NewProcOutKeeps
  <2>4. CASE Expand(p) BY <2>4, ExpandKeeps
  <2>5. CASE Qswtch(p) BY <2>5, QswtchKeeps
  <2>6. CASE SwapOut(p) \/ SwapIn(p) BY <2>6, SwapKeeps
  <2>7. CASE Psignal(p) BY <2>7, PsignalKeeps
  <2>8. CASE \E c \in Chans, d \in {"signals", "nosignals"} : Sleep(p, c, d)
    <3>1. p \in All BY AllFacts
    <3> QED BY <2>8, <3>1, SleepKeeps
  <2> QED BY <2>1, <2>2, <2>3, <2>4, <2>5, <2>6, <2>7, <2>8
<1>2. CASE \E p \in All : Swtch(p) BY <1>2, SwtchKeeps
<1>3. CASE \E c \in Chans : Wake(c) BY <1>3, WakeKeeps
<1>4. CASE \E c \in Chans : SchedWait(c)
  <2>1. PICK c \in Chans : Sleep(Sched, c, "nosignals") BY <1>4 DEF SchedWait
  <2> QED BY <2>1, AllFacts, SleepKeeps
<1>5. CASE TrapTail BY <1>5, TrapTailKeeps
<1>6. CASE Idle BY <1>6, IdleKeeps
<1>7. CASE SchedSleep BY <1>7, SchedSleepKeeps
<1>8. CASE UNCHANGED vars
  <2>1. UNCHANGED <<slpque, runq, link, wchan, stat, loaded, runout, cur, window, pri, asked, woke>>
    BY <1>8 DEF vars
  <2>2. Queues' = Queues BY <2>1 DEF Queues
  <2>3. Waiting' = Waiting BY <2>1 DEF Waiting
  <2>4. TypeOK' BY <2>1 DEF IInv, TypeOK
  <2>5. SwapperCalled' BY <2>1 DEF IInv, SwapperCalled, Ready
  <2> QED BY <2>1, <2>2, <2>3, <2>4, <2>5 DEF IInv
<1> QED BY <1>1, <1>2, <1>3, <1>4, <1>5, <1>6, <1>7, <1>8, Zenon DEF Next
----------------------------------------------------------------------------
(* The invariant of the queues of slp.c, when the bucket of &runout holds  *)
(* no other channel.                                                       *)
THEOREM SleepInvariant ==
  ASSUME BucketApart
  PROVE  Spec => []IInv
<1>1. Init => IInv BY InitIInv
<1>2. IInv /\ [Next]_vars => IInv' BY NextKeeps
<1> QED BY <1>1, <1>2, PTL DEF Spec

(* The lists that share p_link never run into each other: whatever sleep,  *)
(* wakeup, setrq, swtch and the swapper do in between, a bucket holds the  *)
(* processes asleep on its channels, and the run queue those that wait for *)
(* the processor.                                                          *)
THEOREM QueuesApart ==
  ASSUME BucketApart
  PROVE  Spec => []QueuesOK
<1>1. IInv => QueuesOK
  <2> SUFFICES ASSUME IInv PROVE QueuesOK OBVIOUS
  <2>1. TypeOK BY DEF IInv
  <2>2. List(link, runq, Waiting) /\ \A h \in Buckets : List(link, slpque[h], Sleepers(wchan, h))
    BY QueuesFields DEF IInv, Sound
  <2>3. Walk(link, runq) = Waiting BY <2>2, WalkList
  <2>4. \A h \in Buckets : Walk(link, slpque[h]) = Sleepers(wchan, h) BY <2>2, WalkList
  <2> QED BY <2>1, <2>3, <2>4, Zenon DEF QueuesOK, Waiting, Sleepers
<1> QED BY <1>1, SleepInvariant, PTL

(* wakeup leaves nobody asleep on the channel: the setrun of one process,  *)
(* which may wake the swapper from within the loop, does not lead the loop *)
(* astray.                                                                 *)
THEOREM WakeupWakesAll ==
  ASSUME BucketApart
  PROVE  Spec => []WakesAll
<1>1. IInv => WakesAll
  <2> SUFFICES ASSUME IInv PROVE WakesAll OBVIOUS
  <2>1. List(link, runq, Waiting) /\ woke \subseteq Waiting BY QueuesFields DEF IInv, Sound
  <2>2. Walk(link, runq) = Waiting BY <2>1, WalkList
  <2> QED BY <2>1, <2>2 DEF WakesAll, Waiting
<1> QED BY <1>1, SleepInvariant, PTL

(* setrun, newproc and expand do not forget the swapper: it does not sleep *)
(* on &runout while a process that is ready is out of core.                *)
THEOREM SwapperIsCalled ==
  ASSUME BucketApart
  PROVE  Spec => []SwapperCalled
<1>1. IInv => SwapperCalled BY DEF IInv
<1> QED BY <1>1, SleepInvariant, PTL
===============================================================================
