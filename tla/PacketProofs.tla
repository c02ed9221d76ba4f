---------------------------- MODULE PacketProofs ----------------------------
(***************************************************************************)
(* Proofs about the packet driver of Packet, for any modulus, window,      *)
(* bursts and faults: the two ends never lose count of buffers, agree on   *)
(* the window, and what one reads is what the other wrote, in order, once. *)
(*                                                                         *)
(* Everything is measured back from the last packet written (Back), so     *)
(* that what the lines and buffers hold has an age that a number modulo    *)
(* MOD tells apart.  Chan says this of one direction, Linked of an end in  *)
(* the middle of an action, with its output not yet on the line; one lemma *)
(* for each routine keeps it, and Joined says it of the state.             *)
(***************************************************************************)
EXTENDS Packet, FiniteSetTheorems, FunctionTheorems, SequenceTheorems, WellFoundedInduction, TLAPS

Payloads == 0..(PAYLOADS - 1)
Controls == {"RJ", "RR", "INITA", "INITB", "INITC"}
Packets == [kind : Controls \cup {"data"}, val : Numbers, seq : Numbers, data : Payloads,
            hdr : BOOLEAN, ok : BOOLEAN]
Buffers == [ok : BOOLEAN, seq : Numbers, data : Payloads]
Packs ==
  [state : SUBSET {"INITa", "INITb", "LIVE", "RXMIT"},
   ps : Numbers, pr : Numbers, rpr : Numbers, nxtps : Numbers, pscopy : Numbers,
   os : [Numbers -> {"null", "ready", "sent"}], ob : [Numbers -> Payloads],
   is : [Numbers -> {"free", "raw", "mark", "copy"}], ib : [Numbers -> Buffers],
   pool : Nat, xcount : Nat, rcount : Nat,
   msg : SUBSET Controls, rmsg : SUBSET Controls, out : Seq(Packets)]

(* The contents of the packet written d packets before the last one, w.    *)
Con(w, d) == (w + PAYLOADS - d) % PAYLOADS

(* How many packets have been written after the one with number x.         *)
Back(k, x) == Dist(x, k.pscopy)

(* The places that hold a buffer.                                          *)
Taken(k) == {x \in Numbers : k.is[x] # "free"}

(* What is sent and not acknowledged are the last xcount packets.          *)
Sending(k) ==
  /\ \A x \in Numbers : k.os[x] # "null" <=> Back(k, x) < k.xcount
  /\ Back(k, k.ps) = k.xcount
  /\ k.xcount <= WINDOWS

(* The packets that can be read are the next rcount; those not yet looked  *)
(* at are in places outside the window.                                    *)
Placed(k) ==
  /\ \A x \in Numbers : k.is[x] = "raw" => Dist(x, k.pr) < WINDOWS
  /\ \A x \in Numbers : k.is[x] = "copy" <=> 1 <= Dist(k.pr, x) /\ Dist(k.pr, x) <= k.rcount
  /\ \A x \in Numbers : k.is[x] = "copy" => k.ib[x].ok /\ k.ib[x].seq = x
  /\ \A x \in Numbers : k.is[x] # "mark"
  /\ k.rcount <= WINDOWS

Pooled(k) == k.pool + Cardinality(Taken(k)) = WINDOWS

(* Before the connection is live nothing has happened.                     *)
Unopened(k) ==
  "LIVE" \notin k.state =>
    /\ k.ps = 0 /\ k.pr = 0 /\ k.pscopy = 0 /\ k.xcount = 0
    /\ \A x \in Numbers : k.is[x] = "free"

Sound(k) == k \in Packs /\ Sending(k) /\ Placed(k) /\ Pooled(k) /\ Unopened(k)

(* One direction: k writes, m reads, w is the last packet written and g    *)
(* the last one read.  What m has not read is still there, and sent if m   *)
(* is past it.                                                             *)
Writes(k, m, w, g) ==
  /\ Back(k, m.pr) <= k.xcount /\ g = Con(w, Back(k, m.pr))
  /\ \A x \in Numbers : k.os[x] # "null" =>
       k.ob[x] = Con(w, Back(k, x)) /\ (Back(k, m.pr) <= Back(k, x) => k.os[x] = "sent")

(* The acknowledgements on the line to k are of packets m has read, and    *)
(* never step back.                                                        *)
Acks(c) == c.kind \in {"RJ", "RR", "data"}

Acked(k, m, A) ==
  /\ \A i \in 1..Len(A) : Acks(A[i]) =>
       Back(k, m.pr) <= Back(k, A[i].val) /\ Back(k, A[i].val) <= k.xcount
  /\ \A i, j \in 1..Len(A) : i < j /\ Acks(A[i]) /\ Acks(A[j]) =>
       Back(k, A[j].val) <= Back(k, A[i].val)

(* c has been sent: it is not so old that its number could be taken for    *)
(* that of a packet m waits for.                                           *)
Was(k, m, w, c) ==
  /\ Back(k, c.seq) < Back(k, m.pr) + WINDOWS
  /\ c.ok => c.data = Con(w, Back(k, c.seq))
  /\ k.os[c.seq] # "ready"

(* The packets on the line to m, and those it holds; one that comes after  *)
(* another is at most a window older.                                      *)
Sent(k, m, w, D) ==
  /\ \A i \in 1..Len(D) : D[i].kind = "data" => Was(k, m, w, D[i])
  /\ \A i, j \in 1..Len(D) : i < j /\ D[i].kind = "data" /\ D[j].kind = "data" =>
       Back(k, D[j].seq) < Back(k, D[i].seq) + WINDOWS

Held(k, m, w, D) ==
  /\ \A x \in Numbers : m.is[x] # "free" => Was(k, m, w, m.ib[x])
  /\ \A x \in Numbers, j \in 1..Len(D) : m.is[x] # "free" /\ D[j].kind = "data" =>
       Back(k, D[j].seq) < Back(k, m.ib[x].seq) + WINDOWS

Chan(k, m, D, A, w, g) == Writes(k, m, w, g) /\ Acked(k, m, A) /\ Sent(k, m, w, D) /\ Held(k, m, w, D)

(* The end k and its peer m; L and A are the lines away from k and to it;  *)
(* k has written w and read h, m has written v and read g.                 *)
Linked(k, m, L, A, w, g, v, h) ==
  /\ Sound(k) /\ m \in Packs /\ L \in Seq(Packets) /\ A \in Seq(Packets)
  /\ w \in Payloads /\ v \in Payloads
  /\ Chan(k, m, L \o k.out, A, w, g) /\ Chan(m, k, A, L \o k.out, v, h)

(* D2 is D without some of its packets, and some damaged.                  *)
Kept(c, b) ==
  c.kind = b.kind /\ c.val = b.val /\ c.seq = b.seq /\ (c.ok => b.ok /\ c.data = b.data)

Thins(D2, D) ==
  \E n \in [1..Len(D2) -> 1..Len(D)] :
    /\ \A i, j \in 1..Len(D2) : i < j => n[i] < n[j]
    /\ \A i \in 1..Len(D2) : Kept(D2[i], D[n[i]])

(* The same as far as the lines and the buffers go.                        *)
Alike(t, k) ==
  /\ t \in Packs /\ t.ps = k.ps /\ t.pr = k.pr /\ t.pscopy = k.pscopy /\ t.os = k.os /\ t.ob = k.ob
  /\ t.is = k.is /\ t.ib = k.ib /\ t.pool = k.pool /\ t.xcount = k.xcount /\ t.rcount = k.rcount
  /\ t.out = k.out
  /\ "LIVE" \in k.state => "LIVE" \in t.state

(* What pkoutput does: k sends the packet c, or nothing.                   *)
Puts(t, k, c) ==
  /\ t.out = Append(k.out, c) /\ (Acks(c) => c.val = k.pr)
  /\ \/ c.kind # "data" /\ t.os = k.os
     \/ /\ c.kind = "data" /\ k.os[c.seq] # "null" /\ c.data = k.ob[c.seq]
        /\ t.os = [k.os EXCEPT ![c.seq] = "sent"]

Outputs(t, k) ==
  /\ t \in Packs /\ t.ps = k.ps /\ t.pr = k.pr /\ t.pscopy = k.pscopy /\ t.ob = k.ob
  /\ t.is = k.is /\ t.ib = k.ib /\ t.pool = k.pool /\ t.xcount = k.xcount /\ t.rcount = k.rcount
  /\ "LIVE" \in t.state <=> "LIVE" \in k.state
  /\ (t.out = k.out /\ t.os = k.os) \/ \E c \in Packets : Puts(t, k, c)

(* What the arrival of a packet leaves as it was.                          *)
Still(t, k) ==
  /\ t \in Packs /\ t.pr = k.pr /\ t.pscopy = k.pscopy /\ t.xcount <= k.xcount
  /\ "LIVE" \in k.state => "LIVE" \in t.state

(* The acknowledgement x is one of those k may get now, and none older is  *)
(* on its way.                                                             *)
MayAck(k, m, A, x) ==
  /\ x \in Numbers /\ Back(k, m.pr) <= Back(k, x) /\ Back(k, x) <= k.xcount
  /\ \A i \in 1..Len(A) : Acks(A[i]) => Back(k, A[i].val) <= Back(k, x)

(* The data packet c is one that m may have sent before those that are     *)
(* still on their way.                                                     *)
MayCome(m, k, A, v, c) ==
  /\ Was(m, k, v, c)
  /\ \A j \in 1..Len(A) : A[j].kind = "data" => Back(m, A[j].seq) < Back(m, c.seq) + WINDOWS

(* c is in place x.                                                        *)
Stored(k, x, c) ==
  [k EXCEPT !.pool = @ - 1, !.is[x] = "raw", !.ib[x] = [ok |-> c.ok, seq |-> c.seq, data |-> c.data]]

(* The loop of pkaccept over the places that were to be looked at.         *)
MarkStep(k, n, x) == IF k.is[x - 1] = "raw" THEN Mark(n, x - 1) ELSE n

MarkLoop(f, k) ==
  f = [x \in 0..MOD |-> IF x = 0 THEN k ELSE MarkStep(k, f[x - 1], x)]

(* n is k after the places below x have been looked at: what is left is    *)
(* where it was, and what is marked is in the place of its number.         *)
Looked(k, n, x) ==
  /\ n \in Packs /\ n.ps = k.ps /\ n.pr = k.pr /\ n.pscopy = k.pscopy /\ n.os = k.os /\ n.ob = k.ob
  /\ n.xcount = k.xcount /\ n.state = k.state /\ n.out = k.out
  /\ Pooled(n)
  /\ \A y \in Numbers : y >= x /\ k.is[y] = "raw" => n.is[y] = "raw" /\ n.ib[y] = k.ib[y]
  /\ \A y \in Numbers : n.is[y] = "raw" => y >= x /\ k.is[y] = "raw"
  /\ \A y \in Numbers : n.is[y] \in {"mark", "copy"} =>
       /\ 1 <= Dist(k.pr, y) /\ Dist(k.pr, y) <= WINDOWS
       /\ n.ib[y].ok /\ n.ib[y].seq = y
  /\ \A y \in Numbers : n.is[y] # "free" =>
       \E z \in Numbers : k.is[z] # "free" /\ n.ib[y] = k.ib[z]

(* The parts that do not change when a packet is looked at.                *)
SameEnd(t, n) ==
  /\ t \in Packs /\ t.ps = n.ps /\ t.pr = n.pr /\ t.pscopy = n.pscopy /\ t.os = n.os /\ t.ob = n.ob
  /\ t.xcount = n.xcount /\ t.rcount = n.rcount /\ t.state = n.state /\ t.out = n.out

Freed(n, y, s) == [Free(n, y) EXCEPT !.msg = @ \cup {s}]

Moved(n, y, s) ==
  [[n EXCEPT !.ib[y] = n.ib[s], !.is[y] = n.is[s], !.ib[s] = n.ib[y]] EXCEPT !.is[s] = "mark"]

(* Nothing is left to be looked at.                                        *)
Settled(k) == \A x \in Numbers : k.is[x] \in {"free", "copy"}

(* pkread and pkwrite without the output that follows.                     *)
Taking(k) == [Free(k, Nxt(k.pr)) EXCEPT !.pr = Nxt(k.pr), !.rcount = @ - 1, !.msg = @ \cup {"RR"}]

Adding(k, n) ==
  [k EXCEPT !.os[Nxt(k.pscopy)] = "ready", !.ob[Nxt(k.pscopy)] = n, !.pscopy = Nxt(k.pscopy),
            !.xcount = @ + 1]

----------------------------------------------------------------------------
(* Numbers modulo MOD.                                                     *)

----------------------------------------------------------------------------
(* Arithmetic modulo MOD and PAYLOADS.                                     *)

(* The constants.                                                          *)
LEMMA Sizes ==
  /\ MOD \in Nat /\ WINDOWS \in Nat /\ PAYLOADS \in Nat
  /\ WINDOWS >= 1 /\ WINDOWS + WINDOWS <= MOD /\ MOD < PAYLOADS
BY NumbersAssumption

(* A remainder of what is less than twice the modulus.                     *)
LEMMA Remainder ==
  ASSUME NEW b \in Nat, b > 0, NEW n \in Nat, n < b + b
  PROVE  n % b = IF n < b THEN n ELSE n - b
<1>1. n < b => n % b = n OBVIOUS
<1>2. ~(n < b) => n % b = n - b
  <2> SUFFICES ASSUME ~(n < b) PROVE n % b = n - b OBVIOUS
  <2>1. n - b \in 0..(b - 1) /\ n = b * 1 + (n - b) OBVIOUS
  <2> QED BY <2>1
<1> QED BY <1>1, <1>2

(* How far y is ahead of x.                                                *)
LEMMA DistIs ==
  ASSUME NEW x \in Numbers, NEW y \in Numbers
  PROVE  /\ x \in Nat /\ y \in Nat /\ x < MOD /\ y < MOD
         /\ Dist(x, y) \in Nat /\ Dist(x, y) < MOD /\ Dist(x, y) \in Numbers
         /\ y >= x => Dist(x, y) = y - x
         /\ y < x => Dist(x, y) = y + MOD - x
<1>1. MOD \in Nat /\ MOD > 0 /\ x \in Nat /\ y \in Nat /\ x < MOD /\ y < MOD BY Sizes DEF Numbers
<1> DEFINE n == y + MOD - x
<1>2. n \in Nat /\ n < MOD + MOD BY <1>1
<1>3. n % MOD = IF n < MOD THEN n ELSE n - MOD
  <2> HIDE DEF n
  <2> QED BY <1>1, <1>2, Remainder
<1>4. Dist(x, y) = n % MOD BY DEF Dist
<1> QED BY <1>1, <1>3, <1>4 DEF Numbers

(* The number i steps on.                                                  *)
LEMMA PlusIs ==
  ASSUME NEW x \in Numbers, NEW i \in 0..MOD
  PROVE  /\ Plus(x, i) \in Numbers
         /\ x + i < MOD => Plus(x, i) = x + i
         /\ x + i >= MOD => Plus(x, i) = x + i - MOD
<1>1. MOD \in Nat /\ MOD > 0 /\ x \in Nat /\ i \in Nat /\ x < MOD /\ i <= MOD BY Sizes DEF Numbers
<1>2. x + i \in Nat /\ x + i < MOD + MOD BY <1>1
<1>3. (x + i) % MOD = IF x + i < MOD THEN x + i ELSE x + i - MOD BY <1>1, <1>2, Remainder
<1> QED BY <1>1, <1>3 DEF Numbers, Plus

(* The next number.                                                        *)
LEMMA NxtIs ==
  ASSUME NEW x \in Numbers
  PROVE  /\ Nxt(x) = Plus(x, 1) /\ Nxt(x) \in Numbers
         /\ x + 1 < MOD => Nxt(x) = x + 1
         /\ x + 1 >= MOD => Nxt(x) = 0
<1>1. 1 \in 0..MOD /\ MOD \in Nat /\ x \in Nat /\ x < MOD BY Sizes DEF Numbers
<1>2. Nxt(x) = Plus(x, 1) BY DEF Nxt, Plus
<1> QED BY <1>1, <1>2, PlusIs

(* Steps and distances.                                                    *)
LEMMA DistPlus ==
  ASSUME NEW x \in Numbers, NEW i \in Numbers
  PROVE  Plus(x, i) \in Numbers /\ Dist(x, Plus(x, i)) = i
<1>1. i \in 0..MOD /\ MOD \in Nat /\ i \in Nat /\ i < MOD /\ x \in Nat /\ x < MOD
  BY Sizes DEF Numbers
<1>2. PICK y \in Numbers : /\ y = Plus(x, i)
                           /\ x + i < MOD => y = x + i
                           /\ x + i >= MOD => y = x + i - MOD
  BY <1>1, PlusIs
<1>3. y \in Nat BY <1>1, <1>2, DistIs
<1>4. CASE x + i < MOD
  <2>1. y = x + i /\ y >= x BY <1>1, <1>2, <1>4
  <2>2. Dist(x, y) = y - x BY <1>2, <2>1, DistIs
  <2> QED BY <1>1, <1>2, <2>1, <2>2
<1>5. CASE x + i >= MOD
  <2>1. y = x + i - MOD /\ y < x BY <1>1, <1>2, <1>5
  <2>2. Dist(x, y) = y + MOD - x BY <1>2, <2>1, DistIs
  <2> QED BY <1>1, <1>2, <2>1, <2>2
<1> QED BY <1>1, <1>4, <1>5

(* To go as far ahead of x as y is, is to come to y.                       *)
LEMMA PlusDist ==
  ASSUME NEW x \in Numbers, NEW y \in Numbers
  PROVE  Plus(x, Dist(x, y)) = y
<1>1. PICK i \in Numbers : /\ i = Dist(x, y)
                           /\ y >= x => i = y - x
                           /\ y < x => i = y + MOD - x
  BY DistIs
<1>2. i \in 0..MOD /\ MOD \in Nat /\ i \in Nat /\ i < MOD BY <1>1, Sizes DEF Numbers
<1>3. x \in Nat /\ y \in Nat /\ x < MOD /\ y < MOD BY DistIs
<1>4. /\ x + i < MOD => Plus(x, i) = x + i
      /\ x + i >= MOD => Plus(x, i) = x + i - MOD
  BY <1>2, PlusIs
<1>5. CASE y >= x BY <1>1, <1>2, <1>3, <1>4, <1>5
<1>6. CASE y < x BY <1>1, <1>2, <1>3, <1>4, <1>6
<1> QED BY <1>1, <1>3, <1>5, <1>6

(* Only a number itself is at distance 0.                                  *)
LEMMA DistZero ==
  ASSUME NEW x \in Numbers, NEW y \in Numbers
  PROVE  Dist(x, y) = 0 <=> x = y
BY DistIs, Sizes

(* Three numbers: the distances add up, once round or not.                 *)
LEMMA DistSum ==
  ASSUME NEW x \in Numbers, NEW y \in Numbers, NEW z \in Numbers
  PROVE  \/ Dist(x, z) = Dist(x, y) + Dist(y, z)
         \/ Dist(x, z) + MOD = Dist(x, y) + Dist(y, z)
BY DistIs, Sizes

(* There and back again.                                                   *)
LEMMA DistBack ==
  ASSUME NEW x \in Numbers, NEW y \in Numbers
  PROVE  Dist(x, y) + Dist(y, x) = IF x = y THEN 0 ELSE MOD
BY DistIs, Sizes

(* One step further.                                                       *)
LEMMA DistNxt ==
  ASSUME NEW x \in Numbers, NEW y \in Numbers
  PROVE  /\ Dist(x, Nxt(y)) = IF Dist(x, y) + 1 < MOD THEN Dist(x, y) + 1 ELSE 0
         /\ Dist(Nxt(x), y) = IF Dist(x, y) > 0 THEN Dist(x, y) - 1 ELSE MOD - 1
<1>1. PICK z \in Numbers : z = Nxt(y) BY NxtIs
<1>2. PICK u \in Numbers : u = Nxt(x) BY NxtIs
<1>3. Dist(x, z) = IF Dist(x, y) + 1 < MOD THEN Dist(x, y) + 1 ELSE 0
  BY <1>1, NxtIs, DistIs, Sizes
<1>4. Dist(u, y) = IF Dist(x, y) > 0 THEN Dist(x, y) - 1 ELSE MOD - 1
  BY <1>2, NxtIs, DistIs, Sizes
<1> QED BY <1>1, <1>2, <1>3, <1>4

(* Two numbers at the same distance are the same.                          *)
LEMMA DistSame ==
  ASSUME NEW x \in Numbers, NEW y \in Numbers, NEW z \in Numbers
  PROVE  /\ Dist(x, y) = Dist(x, z) => y = z
         /\ Dist(x, z) = Dist(y, z) => x = y
BY DistIs, Sizes

(* Contents.                                                               *)
LEMMA ConIs ==
  ASSUME NEW w \in Payloads, NEW d \in Nat, d < MOD
  PROVE  /\ Con(w, d) \in Payloads /\ w \in Nat /\ w < PAYLOADS
         /\ w >= d => Con(w, d) = w - d
         /\ w < d => Con(w, d) = w + PAYLOADS - d
<1>1. w \in Nat /\ w < PAYLOADS /\ PAYLOADS \in Nat /\ d < PAYLOADS /\ PAYLOADS > 0
  BY Sizes DEF Payloads
<1> DEFINE n == w + PAYLOADS - d
<1>2. n \in Nat /\ n < PAYLOADS + PAYLOADS BY <1>1
<1>3. n % PAYLOADS = IF n < PAYLOADS THEN n ELSE n - PAYLOADS
  <2> HIDE DEF n
  <2> QED BY <1>1, <1>2, Remainder
<1>4. Con(w, d) = n % PAYLOADS BY DEF Con
<1> QED BY <1>1, <1>3, <1>4 DEF Payloads

(* The packet after the last one; what was d back is d + 1 back then.      *)
LEMMA ConNext ==
  ASSUME NEW w \in Payloads
  PROVE  LET v == (w + 1) % PAYLOADS
         IN  /\ v \in Payloads /\ Con(w, 0) = w /\ Con(v, 0) = v
             /\ \A d \in Nat : d + 1 < MOD => Con(v, d + 1) = Con(w, d)
             /\ \A d \in Nat : d < MOD /\ d > 0 => Con(w, d) # w
             /\ \A d \in Nat : d < MOD /\ d > 0 => Con(w, d - 1) = (Con(w, d) + 1) % PAYLOADS
<1> DEFINE v == (w + 1) % PAYLOADS
<1>1. w \in Nat /\ w < PAYLOADS /\ PAYLOADS \in Nat /\ PAYLOADS > 1 /\ MOD \in Nat /\ MOD > 0
      /\ MOD < PAYLOADS
  BY Sizes DEF Payloads
<1>2. \A n \in Nat : n < PAYLOADS => (n + 1) % PAYLOADS = IF n + 1 < PAYLOADS THEN n + 1 ELSE 0
  <2> TAKE n \in Nat
  <2> HAVE n < PAYLOADS
  <2>1. n + 1 \in Nat /\ n + 1 < PAYLOADS + PAYLOADS BY <1>1
  <2>2. (n + 1) % PAYLOADS = IF n + 1 < PAYLOADS THEN n + 1 ELSE n + 1 - PAYLOADS
    BY <1>1, <2>1, Remainder
  <2> QED BY <1>1, <2>2
<1>3. v = IF w + 1 < PAYLOADS THEN w + 1 ELSE 0 BY <1>1, <1>2
<1> HIDE DEF v
<1>4. v \in Payloads BY <1>1, <1>3 DEF Payloads
<1>5. Con(w, 0) = w /\ Con(v, 0) = v BY <1>1, <1>4, ConIs
<1>6. ASSUME NEW d \in Nat, d + 1 < MOD PROVE Con(v, d + 1) = Con(w, d)
  <2>1. d + 1 \in Nat /\ d < MOD BY <1>1, <1>6
  <2>2. PICK c \in Nat : c = d + 1 BY <2>1
  <2>3. c < MOD BY <1>6, <2>2
  <2>4. /\ w >= d => Con(w, d) = w - d
        /\ w < d => Con(w, d) = w + PAYLOADS - d
    BY <1>6, <2>1, ConIs
  <2>5. /\ v >= c => Con(v, c) = v - c
        /\ v < c => Con(v, c) = v + PAYLOADS - c
    BY <1>4, <2>2, <2>3, ConIs
  <2>6. Con(v, c) = Con(w, d)
    <3>1. CASE w + 1 < PAYLOADS
      <4>1. v = w + 1 BY <1>3, <3>1
      <4>2. CASE w >= d BY <1>1, <2>2, <2>4, <2>5, <4>1, <4>2
      <4>3. CASE w < d BY <1>1, <2>2, <2>4, <2>5, <4>1, <4>3
      <4> QED BY <1>1, <4>2, <4>3
    <3>2. CASE ~(w + 1 < PAYLOADS)
      <4>1. v = 0 /\ w = PAYLOADS - 1 BY <1>1, <1>3, <3>2
      <4> QED BY <1>1, <1>6, <2>1, <2>2, <2>4, <2>5, <4>1
    <3> QED BY <3>1, <3>2
  <2> QED BY <2>2, <2>6
<1>7. ASSUME NEW d \in Nat, d < MOD, d > 0
      PROVE  Con(w, d) # w /\ Con(w, d - 1) = (Con(w, d) + 1) % PAYLOADS
  <2>1. PICK c \in Nat : c = d - 1 BY <1>7
  <2>2. c < MOD BY <1>1, <1>7, <2>1
  <2>3. PICK n \in Payloads : n = Con(w, d) BY <1>7, ConIs
  <2>4. n \in Nat /\ n < PAYLOADS BY <1>1, <2>3 DEF Payloads
  <2>5. (n + 1) % PAYLOADS = IF n + 1 < PAYLOADS THEN n + 1 ELSE 0 BY <1>2, <2>4
  <2> QED BY <1>1, <1>7, <2>1, <2>2, <2>3, <2>4, <2>5, ConIs
<1> QED BY <1>4, <1>5, <1>6, <1>7 DEF v

(* A set of numbers that is not empty has a least.                         *)
LEMMA Least ==
  ASSUME NEW T, T \subseteq Nat, T # {}
  PROVE  \E x \in T : \A y \in T : x <= y
<1>1. \E x \in T : \A y \in T : ~(y < x)
  <2>1. \E x \in T : \A y \in T : <<y, x>> \notin OpToRel(<, Nat)
    BY WFMin, NatLessThanWellFounded, Zenon
  <2>2. PICK x \in T : \A y \in T : <<y, x>> \notin OpToRel(<, Nat)
    BY <2>1, Zenon
  <2>3. \A y \in T : y < x => <<y, x>> \in OpToRel(<, Nat) BY Zenon DEF OpToRel
  <2> QED BY <2>2, <2>3, Zenon
<1> QED BY <1>1

----------------------------------------------------------------------------
(* Sets of numbers.                                                        *)

(* The types of a pack's fields.                                           *)
LEMMA PackType ==
  ASSUME NEW k \in Packs
  PROVE  /\ k.state \subseteq {"INITa", "INITb", "LIVE", "RXMIT"}
         /\ k.ps \in Numbers /\ k.pr \in Numbers /\ k.rpr \in Numbers /\ k.nxtps \in Numbers
         /\ k.pscopy \in Numbers
         /\ k.os \in [Numbers -> {"null", "ready", "sent"}] /\ k.ob \in [Numbers -> Payloads]
         /\ k.is \in [Numbers -> {"free", "raw", "mark", "copy"}] /\ k.ib \in [Numbers -> Buffers]
         /\ k.pool \in Nat /\ k.xcount \in Nat /\ k.rcount \in Nat
         /\ k.msg \subseteq Controls /\ k.rmsg \subseteq Controls /\ k.out \in Seq(Packets)
BY DEF Packs

(* A set that a function maps one to one onto an interval is as large.     *)
LEMMA SpanCount ==
  ASSUME NEW S, NEW a \in Nat, NEW b \in Nat, NEW f \in [S -> a..b],
         \A x, y \in S : f[x] = f[y] => x = y,
         \A i \in a..b : \E x \in S : f[x] = i
  PROVE  IsFiniteSet(S) /\ Cardinality(S) = IF a > b THEN 0 ELSE b - a + 1
<1>1. IsFiniteSet(a..b) /\ Cardinality(a..b) = IF a > b THEN 0 ELSE b - a + 1
  <2>1. a \in Int /\ b \in Int OBVIOUS
  <2> QED BY <2>1, FS_Interval
<1>2. f \in Bijection(S, a..b) BY DEF Bijection, Injection, Surjection, IsInjective
<1>3. ExistsBijection(a..b, S)
  <2>1. ExistsBijection(S, a..b) BY <1>2 DEF ExistsBijection
  <2> QED BY <2>1, Fun_ExistsBijSymmetric
<1> QED BY <1>1, <1>3, FS_Bijection

(* The numbers i to j before y, and those i to j after it.                 *)
LEMMA BehindCount ==
  ASSUME NEW y \in Numbers, NEW i \in Nat, NEW j \in Nat, i <= j, j <= MOD
  PROVE  LET S == {x \in Numbers : i <= Dist(x, y) /\ Dist(x, y) < j}
         IN  IsFiniteSet(S) /\ Cardinality(S) = j - i
<1> DEFINE S == {x \in Numbers : i <= Dist(x, y) /\ Dist(x, y) < j}
           f == [x \in S |-> Dist(x, y) + 1]
<1>1. f \in [S -> (i + 1)..j]
  <2>1. \A x \in S : Dist(x, y) + 1 \in (i + 1)..j BY DistIs
  <2> QED BY <2>1
<1>2. \A x, z \in S : f[x] = f[z] => x = z
  <2> TAKE x, z \in S
  <2>1. Dist(x, y) = Dist(z, y) => x = z BY DistSame
  <2>2. Dist(x, y) \in Nat /\ Dist(z, y) \in Nat BY DistIs
  <2> QED BY <2>1, <2>2
<1>3. \A n \in (i + 1)..j : \E x \in S : f[x] = n
  <2> TAKE n \in (i + 1)..j
  <2>1. PICK d \in Nat : d = n - 1 /\ i <= d /\ d < j OBVIOUS
  <2>2. d \in Numbers /\ MOD - d \in 0..MOD BY <2>1, Sizes DEF Numbers
  <2>3. PICK x \in Numbers : /\ x = Plus(y, MOD - d)
                             /\ y + (MOD - d) < MOD => x = y + (MOD - d)
                             /\ y + (MOD - d) >= MOD => x = y + (MOD - d) - MOD
    BY <2>2, PlusIs
  <2>4. MOD \in Nat /\ y \in Nat /\ x \in Nat /\ y < MOD BY <2>3, DistIs, Sizes
  <2>5. Dist(x, y) = d
    <3>1. CASE y < d
      <4>1. x = y + (MOD - d) /\ y < x BY <2>1, <2>3, <2>4, <3>1
      <4> QED BY <2>1, <2>3, <2>4, <4>1, DistIs
    <3>2. CASE y >= d
      <4>1. x = y - d /\ y >= x BY <2>1, <2>3, <2>4, <3>2
      <4> QED BY <2>1, <2>3, <2>4, <4>1, DistIs
    <3> QED BY <2>1, <2>4, <3>1, <3>2
  <2>6. x \in S BY <2>1, <2>3, <2>5
  <2>7. f[x] = n BY <2>1, <2>5, <2>6
  <2> QED BY <2>6, <2>7
<1> HIDE DEF S, f
<1>4. PICK c \in Nat : c = i + 1 OBVIOUS
<1>5. f \in [S -> c..j] /\ \A n \in c..j : \E x \in S : f[x] = n BY <1>1, <1>3, <1>4
<1>6. IsFiniteSet(S) /\ Cardinality(S) = IF c > j THEN 0 ELSE j - c + 1
  BY <1>2, <1>5, SpanCount
<1>7. Cardinality(S) = j - i BY <1>4, <1>6
<1> QED BY <1>6, <1>7 DEF S

(* How many numbers are from i to j ahead of y.                            *)
LEMMA AheadCount ==
  ASSUME NEW y \in Numbers, NEW i \in Nat, NEW j \in Nat, j < MOD
  PROVE  LET S == {x \in Numbers : i <= Dist(y, x) /\ Dist(y, x) <= j}
         IN  IsFiniteSet(S) /\ Cardinality(S) = IF i > j THEN 0 ELSE j - i + 1
<1> DEFINE S == {x \in Numbers : i <= Dist(y, x) /\ Dist(y, x) <= j}
           f == [x \in S |-> Dist(y, x)]
<1>1. f \in [S -> i..j]
  <2>1. \A x \in S : Dist(y, x) \in i..j BY DistIs
  <2> QED BY <2>1
<1>2. \A x, z \in S : f[x] = f[z] => x = z
  <2> TAKE x, z \in S
  <2>1. Dist(y, x) = Dist(y, z) => x = z BY DistSame
  <2> QED BY <2>1
<1>3. \A n \in i..j : \E x \in S : f[x] = n
  <2> TAKE n \in i..j
  <2>1. n \in Numbers BY Sizes DEF Numbers
  <2>2. PICK x \in Numbers : x = Plus(y, n) /\ Dist(y, x) = n BY <2>1, DistPlus
  <2>3. x \in S BY <2>2
  <2> QED BY <2>2, <2>3
<1> HIDE DEF S, f
<1>4. IsFiniteSet(S) /\ Cardinality(S) = IF i > j THEN 0 ELSE j - i + 1
  BY <1>1, <1>2, <1>3, SpanCount
<1> QED BY <1>4 DEF S

(* The numbers 1 to n after y are those at a distance of 1 to n.           *)
LEMMA AheadSet ==
  ASSUME NEW y \in Numbers, NEW n \in Nat, n < MOD
  PROVE  {Plus(y, i) : i \in 1..n} = {x \in Numbers : 1 <= Dist(y, x) /\ Dist(y, x) <= n}
<1>1. ASSUME NEW i \in 1..n
      PROVE  Plus(y, i) \in Numbers /\ Dist(y, Plus(y, i)) = i
  <2>1. i \in Numbers BY <1>1, Sizes DEF Numbers
  <2> QED BY <2>1, DistPlus
<1>2. ASSUME NEW x \in Numbers, 1 <= Dist(y, x), Dist(y, x) <= n
      PROVE  \E i \in 1..n : x = Plus(y, i)
  <2>1. Dist(y, x) \in 1..n BY <1>2, DistIs
  <2> QED BY <2>1, PlusDist
<1> QED BY <1>1, <1>2

(* The places are finitely many.                                           *)
LEMMA TakenFinite ==
  ASSUME NEW k
  PROVE  IsFiniteSet(Numbers) /\ IsFiniteSet(Taken(k)) /\ Cardinality(Taken(k)) \in Nat
<1>1. IsFiniteSet(Numbers)
  <2>1. 0 \in Int /\ MOD - 1 \in Int BY Sizes
  <2> QED BY <2>1, FS_Interval DEF Numbers
<1>2. Taken(k) \in SUBSET Numbers BY DEF Taken
<1> QED BY <1>1, <1>2, FS_Subset, FS_CardinalityType

----------------------------------------------------------------------------
(* The lines.                                                              *)

(* How far back a number lies is itself less than MOD.                     *)
LEMMA BackIs ==
  ASSUME NEW k \in Packs, NEW x \in Numbers
  PROVE  Back(k, x) \in Nat /\ Back(k, x) < MOD /\ Back(k, x) \in Numbers
BY PackType, DistIs DEF Back

(* A line and one packet more.                                             *)
LEMMA Appended ==
  ASSUME NEW D \in Seq(Packets), NEW c \in Packets
  PROVE  LET t == Append(D, c)
         IN  /\ t \in Seq(Packets) /\ Len(t) = Len(D) + 1 /\ Len(D) \in Nat
             /\ t[Len(D) + 1] = c /\ \A i \in 1..Len(D) : t[i] = D[i]
             /\ \A i \in 1..Len(t) : i \in 1..Len(D) \/ i = Len(D) + 1
             /\ \A i \in 1..Len(D) : D[i] \in Packets
BY AppendProperties

(* k sends a packet that is still in its output buffer.                    *)
LEMMA EmitAway ==
  ASSUME NEW k \in Packs, NEW m \in Packs, NEW w \in Payloads, NEW D \in Seq(Packets), NEW A, NEW g,
         Sending(k), Chan(k, m, D, A, w, g), NEW c \in Packets,
         c.kind = "data" => k.os[c.seq] = "sent" /\ c.data = k.ob[c.seq]
  PROVE  Chan(k, m, Append(D, c), A, w, g)
<1> DEFINE t == Append(D, c)
<1>1. /\ t \in Seq(Packets) /\ Len(t) = Len(D) + 1 /\ Len(D) \in Nat
      /\ t[Len(D) + 1] = c /\ \A i \in 1..Len(D) : t[i] = D[i]
      /\ \A i \in 1..Len(t) : i \in 1..Len(D) \/ i = Len(D) + 1
      /\ \A i \in 1..Len(D) : D[i] \in Packets
  BY Appended
<1>2. m.pr \in Numbers /\ \A x \in Numbers : m.ib[x] \in Buffers BY PackType
<1>3. \A x \in Numbers : Back(k, x) \in Nat BY BackIs
<1>4. ASSUME c.kind = "data"
      PROVE  /\ Was(k, m, w, c)
             /\ Back(k, c.seq) < WINDOWS
  <2>1. c.seq \in Numbers /\ k.os[c.seq] = "sent" /\ c.data = k.ob[c.seq] BY <1>4 DEF Packets
  <2>2. Back(k, c.seq) < k.xcount /\ k.xcount <= WINDOWS /\ k.xcount \in Nat
    BY <2>1, PackType DEF Sending
  <2>3. k.ob[c.seq] = Con(w, Back(k, c.seq)) BY <2>1 DEF Chan, Writes
  <2>4. Back(k, c.seq) < WINDOWS BY <1>3, <2>1, <2>2, Sizes
  <2> QED BY <1>2, <1>3, <2>1, <2>3, <2>4, Sizes DEF Was
<1> HIDE DEF t
<1>5. \A i \in 1..Len(D) : D[i].seq \in Numbers BY <1>1 DEF Packets
<1>6. \A x \in Numbers : m.ib[x].seq \in Numbers BY <1>2 DEF Buffers
<1>7. Sent(k, m, w, D) /\ Held(k, m, w, D) /\ Writes(k, m, w, g) /\ Acked(k, m, A) BY DEF Chan
<1>8. \A i \in 1..Len(t) : t[i].kind = "data" => Was(k, m, w, t[i])
  BY <1>1, <1>4, <1>7 DEF Sent
<1>9. c.seq \in Numbers BY DEF Packets
<1>10. ASSUME NEW i \in 1..Len(t), NEW j \in 1..Len(t), i < j, t[i].kind = "data", t[j].kind = "data"
       PROVE  Back(k, t[j].seq) < Back(k, t[i].seq) + WINDOWS
  <2>1. i \in 1..Len(D) BY <1>1, <1>10
  <2>2. CASE j \in 1..Len(D) BY <1>1, <1>7, <1>10, <2>1, <2>2 DEF Sent
  <2>3. CASE j = Len(D) + 1
    <3>1. t[j] = c /\ t[i] = D[i] BY <1>1, <2>1, <2>3
    <3>2. Back(k, c.seq) < WINDOWS BY <1>4, <1>10, <3>1
    <3>3. Back(k, D[i].seq) \in Nat /\ Back(k, c.seq) \in Nat BY <1>3, <1>5, <1>9, <2>1
    <3> QED BY <3>1, <3>2, <3>3, Sizes
  <2> QED BY <1>1, <2>2, <2>3
<1>11. ASSUME NEW x \in Numbers, NEW j \in 1..Len(t), m.is[x] # "free", t[j].kind = "data"
       PROVE  Back(k, t[j].seq) < Back(k, m.ib[x].seq) + WINDOWS
  <2>2. CASE j \in 1..Len(D) BY <1>1, <1>7, <1>11, <2>2 DEF Held
  <2>3. CASE j = Len(D) + 1
    <3>1. t[j] = c BY <1>1, <2>3
    <3>2. Back(k, c.seq) < WINDOWS BY <1>4, <1>11, <3>1
    <3>3. Back(k, m.ib[x].seq) \in Nat /\ Back(k, c.seq) \in Nat BY <1>3, <1>6, <1>9
    <3> QED BY <3>1, <3>2, <3>3, Sizes
  <2> QED BY <1>1, <2>2, <2>3
<1>12. Sent(k, m, w, t) BY <1>8, <1>10 DEF Sent
<1>13. Held(k, m, w, t) BY <1>7, <1>11 DEF Held
<1> QED BY <1>7, <1>12, <1>13 DEF Chan, t

(* m sends an acknowledgement of what it has read last.                    *)
LEMMA EmitBack ==
  ASSUME NEW k \in Packs, NEW m \in Packs, NEW w, NEW D, NEW A \in Seq(Packets), NEW g,
         Chan(k, m, D, A, w, g), NEW c \in Packets, Acks(c) => c.val = m.pr
  PROVE  Chan(k, m, D, Append(A, c), w, g)
<1> DEFINE t == Append(A, c)
<1>1. /\ t \in Seq(Packets) /\ Len(t) = Len(A) + 1 /\ Len(A) \in Nat
      /\ t[Len(A) + 1] = c /\ \A i \in 1..Len(A) : t[i] = A[i]
      /\ \A i \in 1..Len(t) : i \in 1..Len(A) \/ i = Len(A) + 1
  BY Appended
<1>2. m.pr \in Numbers BY PackType
<1>3. Back(k, m.pr) \in Nat BY <1>2, BackIs
<1> HIDE DEF t
<1>4. Acked(k, m, A) /\ Back(k, m.pr) <= k.xcount BY DEF Chan, Writes
<1>5. \A i \in 1..Len(t) : Acks(t[i]) =>
       Back(k, m.pr) <= Back(k, t[i].val) /\ Back(k, t[i].val) <= k.xcount
  BY <1>1, <1>3, <1>4 DEF Acked
<1>6. ASSUME NEW i \in 1..Len(t), NEW j \in 1..Len(t), i < j, Acks(t[i]), Acks(t[j])
      PROVE  Back(k, t[j].val) <= Back(k, t[i].val)
  <2>1. i \in 1..Len(A) BY <1>1, <1>6
  <2>2. CASE j \in 1..Len(A) BY <1>1, <1>4, <1>6, <2>1, <2>2 DEF Acked
  <2>3. CASE j = Len(A) + 1
    <3>1. t[j] = c /\ t[j].val = m.pr BY <1>1, <1>6, <2>3
    <3> QED BY <1>5, <1>6, <3>1
  <2> QED BY <1>1, <2>2, <2>3
<1>7. Acked(k, m, t) BY <1>5, <1>6 DEF Acked
<1> QED BY <1>7 DEF Chan, t

(* Packets are lost or damaged on the way to m.                            *)
LEMMA ThinAway ==
  ASSUME NEW k \in Packs, NEW m \in Packs, NEW w, NEW D \in Seq(Packets), NEW A, NEW g,
         Chan(k, m, D, A, w, g), NEW D2 \in Seq(Packets), Thins(D2, D)
  PROVE  Chan(k, m, D2, A, w, g)
<1>1. PICK n \in [1..Len(D2) -> 1..Len(D)] :
        /\ \A i, j \in 1..Len(D2) : i < j => n[i] < n[j]
        /\ \A i \in 1..Len(D2) : Kept(D2[i], D[n[i]])
  BY DEF Thins
<1>2. Sent(k, m, w, D) /\ Held(k, m, w, D) BY DEF Chan
<1>3. \A i \in 1..Len(D2) : /\ n[i] \in 1..Len(D) /\ D2[i].kind = D[n[i]].kind /\ D2[i].seq = D[n[i]].seq
                            /\ D2[i].ok => D[n[i]].ok /\ D2[i].data = D[n[i]].data
  BY <1>1 DEF Kept
<1>4. \A i \in 1..Len(D2) : D2[i].kind = "data" => Was(k, m, w, D2[i])
  BY <1>2, <1>3 DEF Sent, Was
<1>5. Sent(k, m, w, D2) BY <1>1, <1>2, <1>3, <1>4 DEF Sent
<1>6. Held(k, m, w, D2) BY <1>2, <1>3 DEF Held
<1> QED BY <1>5, <1>6 DEF Chan

(* Packets are lost or damaged on the way to k.                            *)
LEMMA ThinBack ==
  ASSUME NEW k \in Packs, NEW m \in Packs, NEW w, NEW D, NEW A \in Seq(Packets), NEW g,
         Chan(k, m, D, A, w, g), NEW A2 \in Seq(Packets), Thins(A2, A)
  PROVE  Chan(k, m, D, A2, w, g)
<1>1. PICK n \in [1..Len(A2) -> 1..Len(A)] :
        /\ \A i, j \in 1..Len(A2) : i < j => n[i] < n[j]
        /\ \A i \in 1..Len(A2) : Kept(A2[i], A[n[i]])
  BY DEF Thins
<1>2. Acked(k, m, A) BY DEF Chan
<1>3. \A i \in 1..Len(A2) : n[i] \in 1..Len(A) /\ A2[i].kind = A[n[i]].kind /\ A2[i].val = A[n[i]].val
  BY <1>1 DEF Kept
<1>4. \A i \in 1..Len(A2) : Acks(A2[i]) <=> Acks(A[n[i]]) BY <1>3 DEF Acks
<1>5. Acked(k, m, A2) BY <1>1, <1>2, <1>3, <1>4 DEF Acked
<1> QED BY <1>5 DEF Chan

(* What is behind the first packet.                                        *)
LEMMA ThinTail ==
  ASSUME NEW D \in Seq(Packets), D # <<>>
  PROVE  /\ Tail(D) \in Seq(Packets) /\ Thins(Tail(D), D) /\ Head(D) \in Packets
         /\ Head(D) = D[1] /\ 1 \in 1..Len(D)
         /\ \A i \in 1..Len(Tail(D)) : Tail(D)[i] = D[i + 1] /\ i + 1 \in 1..Len(D) /\ 1 < i + 1
<1> DEFINE t == Tail(D)
           n == [i \in 1..Len(t) |-> i + 1]
<1>1. /\ t \in Seq(Packets) /\ Len(t) = Len(D) - 1 /\ Len(D) \in Nat /\ Len(D) > 0
      /\ \A i \in 1..Len(t) : t[i] = D[i + 1]
      /\ Head(D) = D[1] /\ Head(D) \in Packets
  BY HeadTailProperties, EmptySeq
<1> HIDE DEF t
<1>2. n \in [1..Len(t) -> 1..Len(D)] BY <1>1
<1>3. \A i \in 1..Len(t) : Kept(t[i], D[n[i]]) BY <1>1 DEF Kept
<1>4. \A i, j \in 1..Len(t) : i < j => n[i] < n[j] OBVIOUS
<1>5. Thins(t, D) BY <1>2, <1>3, <1>4 DEF Thins
<1> QED BY <1>1, <1>5 DEF t

----------------------------------------------------------------------------
(* Output.                                                                 *)

(* Some message has the lowest number.                                     *)
LEMMA FirstMsgIn ==
  ASSUME NEW S, S \subseteq Controls, S # {}
  PROVE  FirstMsg(S) \in S
<1> DEFINE T == {i \in DOMAIN Messages : Messages[i] \in S}
<1>1. /\ Messages \in Seq(Controls)
      /\ {Messages[i] : i \in DOMAIN Messages} = Controls
  BY MessagesAssumption DEF Controls
<1>2. T \subseteq Nat /\ DOMAIN Messages = 1..Len(Messages) /\ Len(Messages) \in Nat BY <1>1
<1>3. T # {}
  <2>1. PICK s \in S : TRUE OBVIOUS
  <2>2. PICK i \in DOMAIN Messages : s = Messages[i] BY <1>1, <2>1
  <2> QED BY <2>1, <2>2
<1>4. PICK i \in T : \A j \in T : i <= j
  <2> HIDE DEF T
  <2> QED BY <1>2, <1>3, Least
<1>5. \A j \in 1..(i - 1) : Messages[j] \notin S
  <2> SUFFICES ASSUME NEW j \in 1..(i - 1), Messages[j] \in S PROVE FALSE OBVIOUS
  <2>1. j \in DOMAIN Messages /\ i \in Nat /\ j < i BY <1>2, <1>4
  <2>2. j \in T BY <2>1
  <2> QED BY <1>2, <1>4, <2>1, <2>2
<1>6. \E n \in DOMAIN Messages : Messages[n] \in S /\ \A j \in 1..(n - 1) : Messages[j] \notin S
  BY <1>4, <1>5
<1> QED BY <1>6, Zenon DEF FirstMsg

(* Where only what does not matter here has changed.                       *)
LEMMA LinkedAlike ==
  ASSUME NEW k, NEW m, NEW L, NEW A, NEW w, NEW g, NEW v, NEW h,
         Linked(k, m, L, A, w, g, v, h), NEW t, Alike(t, k)
  PROVE  Linked(t, m, L, A, w, g, v, h)
<1>1. \A x : Back(t, x) = Back(k, x) BY DEF Alike, Back
<1>2. Sound(k) /\ Chan(k, m, L \o k.out, A, w, g) /\ Chan(m, k, A, L \o k.out, v, h)
      /\ t.out = k.out
  BY DEF Linked, Alike
<1>3. Taken(t) = Taken(k) BY DEF Alike, Taken
<1>4. Sending(t) BY <1>1, <1>2 DEF Alike, Sound, Sending
<1>5. Placed(t) BY <1>2 DEF Alike, Sound, Placed
<1>6. Pooled(t) BY <1>2, <1>3 DEF Alike, Sound, Pooled
<1>7. Unopened(t) BY <1>2 DEF Alike, Sound, Unopened
<1>8. Sound(t) BY <1>4, <1>5, <1>6, <1>7 DEF Sound, Alike
<1>9. Chan(t, m, L \o t.out, A, w, g)
  <2>1. Writes(t, m, w, g) BY <1>1, <1>2 DEF Alike, Chan, Writes
  <2>2. Acked(t, m, A) BY <1>1, <1>2 DEF Alike, Chan, Acked
  <2>3. \A c : Was(t, m, w, c) <=> Was(k, m, w, c) BY <1>1 DEF Alike, Was
  <2> DEFINE D == L \o k.out
  <2>4. Sent(k, m, w, D) /\ Held(k, m, w, D) BY <1>2 DEF Chan
  <2> HIDE DEF D
  <2>5. Sent(t, m, w, D) BY <1>1, <2>3, <2>4 DEF Sent
  <2>6. Held(t, m, w, D) BY <1>1, <2>3, <2>4 DEF Held
  <2> QED BY <1>2, <2>1, <2>2, <2>5, <2>6 DEF Chan, D
<1>10. Chan(m, t, A, L \o t.out, v, h)
  <2>1. Writes(m, t, v, h) BY <1>2 DEF Alike, Chan, Writes
  <2> DEFINE D == L \o k.out
  <2>2. Acked(m, k, D) /\ Sent(m, k, v, A) /\ Held(m, k, v, A) BY <1>2 DEF Chan
  <2> HIDE DEF D
  <2>3. Acked(m, t, D) BY <2>2 DEF Alike, Acked
  <2>4. \A c : Was(m, t, v, c) <=> Was(m, k, v, c) BY DEF Alike, Was
  <2>5. Sent(m, t, v, A) BY <2>2, <2>4 DEF Sent
  <2>6. Held(m, t, v, A) BY <2>2, <2>4 DEF Alike, Held
  <2> QED BY <1>2, <2>1, <2>3, <2>5, <2>6 DEF Chan, D
<1> QED BY <1>8, <1>9, <1>10 DEF Linked

(* What pkoutput does.                                                     *)
LEMMA PkoutputIs ==
  ASSUME NEW k \in Packs
  PROVE  Outputs(Pkoutput(k), k)
<1> DEFINE x == IF "RXMIT" \in k.state THEN Nxt(k.rpr) ELSE k.nxtps
           ready == k.os[x] \in {"ready", "sent"}
           n == FirstMsg(k.msg)
           b == [kind |-> n, val |-> IF n \in {"RJ", "RR"} THEN k.pr ELSE 0,
                 seq |-> 0, data |-> 0, hdr |-> TRUE, ok |-> TRUE]
           d == [kind |-> "data", val |-> k.pr, seq |-> x, data |-> k.ob[x],
                 hdr |-> TRUE, ok |-> TRUE]
           t1 == [k EXCEPT !.nxtps = x, !.msg = @ \ {n}, !.out = Append(@, b)]
           t2 == [k EXCEPT !.nxtps = Nxt(x), !.os[x] = "sent", !.state = @ \ {"RXMIT"},
                           !.out = Append(@, d)]
           t3 == [k EXCEPT !.nxtps = x]
<1>1. Pkoutput(k) = IF k.msg \ {"RR"} # {} \/ (k.msg # {} /\ ~ready) THEN t1
                    ELSE IF ready THEN t2 ELSE t3
  BY Zenon DEF Pkoutput
<1>2. x \in Numbers BY PackType, NxtIs
<1>3. /\ k.out \in Seq(Packets) /\ k.msg \subseteq Controls /\ k.pr \in Numbers
      /\ k.ob \in [Numbers -> Payloads] /\ k.os \in [Numbers -> {"null", "ready", "sent"}]
      /\ k.state \subseteq {"INITa", "INITb", "LIVE", "RXMIT"}
  BY PackType
<1>4. 0 \in Numbers /\ 0 \in Payloads BY Sizes DEF Numbers, Payloads
<1> HIDE DEF x
<1>5. CASE k.msg \ {"RR"} # {} \/ (k.msg # {} /\ ~ready)
  <2>1. n \in k.msg /\ n \in Controls BY <1>3, <1>5, FirstMsgIn
  <2> HIDE DEF n
  <2>2. b \in Packets BY <1>3, <1>4, <2>1 DEF Packets
  <2>3. b.kind # "data" /\ (Acks(b) => b.val = k.pr) BY <2>1 DEF Acks, Controls
  <2> HIDE DEF b
  <2>4. Append(k.out, b) \in Seq(Packets) BY <1>3, <2>2, AppendProperties
  <2>5. /\ t1 \in Packs /\ t1.ps = k.ps /\ t1.pr = k.pr /\ t1.pscopy = k.pscopy /\ t1.ob = k.ob
        /\ t1.is = k.is /\ t1.ib = k.ib /\ t1.pool = k.pool /\ t1.xcount = k.xcount
        /\ t1.rcount = k.rcount /\ t1.state = k.state
        /\ t1.out = Append(k.out, b) /\ t1.os = k.os
    BY <1>2, <2>4 DEF Packs
  <2>6. Puts(t1, k, b) BY <2>3, <2>5 DEF Puts
  <2> QED BY <1>1, <1>5, <2>2, <2>5, <2>6, Zenon DEF Outputs
<1>6. CASE ~(k.msg \ {"RR"} # {} \/ (k.msg # {} /\ ~ready)) /\ ready
  <2>1. d \in Packets BY <1>2, <1>3 DEF Packets
  <2>2. d.kind = "data" /\ d.val = k.pr /\ d.seq = x /\ d.data = k.ob[x] OBVIOUS
  <2>3. k.os[x] # "null" BY <1>6
  <2> HIDE DEF d
  <2>4. Append(k.out, d) \in Seq(Packets) BY <1>3, <2>1, AppendProperties
  <2>5. Nxt(x) \in Numbers BY <1>2, NxtIs
  <2>6. [k.os EXCEPT ![x] = "sent"] \in [Numbers -> {"null", "ready", "sent"}] BY <1>2, <1>3
  <2>7. /\ t2 \in Packs /\ t2.ps = k.ps /\ t2.pr = k.pr /\ t2.pscopy = k.pscopy /\ t2.ob = k.ob
        /\ t2.is = k.is /\ t2.ib = k.ib /\ t2.pool = k.pool /\ t2.xcount = k.xcount
        /\ t2.rcount = k.rcount /\ t2.state = k.state \ {"RXMIT"}
        /\ t2.out = Append(k.out, d) /\ t2.os = [k.os EXCEPT ![x] = "sent"]
    BY <2>4, <2>5, <2>6 DEF Packs
  <2>8. Puts(t2, k, d) BY <2>2, <2>3, <2>7 DEF Puts
  <2>9. "LIVE" \in t2.state <=> "LIVE" \in k.state BY <2>7
  <2>10. Pkoutput(k) = t2 BY <1>1, <1>6
  <2> HIDE DEF t2
  <2> QED BY <2>1, <2>7, <2>8, <2>9, <2>10 DEF Outputs
<1>7. CASE ~(k.msg \ {"RR"} # {} \/ (k.msg # {} /\ ~ready)) /\ ~ready
  <2>1. t3 \in Packs /\ Outputs(t3, k) BY <1>2 DEF Packs, Outputs
  <2> QED BY <1>1, <1>7, <2>1
<1> QED BY <1>5, <1>6, <1>7

(* A packet goes out.                                                      *)
LEMMA PutsLinked ==
  ASSUME NEW k, NEW m, NEW L, NEW A, NEW w, NEW g, NEW v, NEW h,
         Linked(k, m, L, A, w, g, v, h), NEW t, Outputs(t, k)
  PROVE  Linked(t, m, L, A, w, g, v, h)
<1>1. CASE t.out = k.out /\ t.os = k.os
  <2>1. Alike(t, k) BY <1>1 DEF Outputs, Alike
  <2> QED BY <2>1, LinkedAlike
<1>2. CASE \E c \in Packets : Puts(t, k, c)
  <2>1. PICK c \in Packets : Puts(t, k, c) BY <1>2
  <2> DEFINE u == [k EXCEPT !.os = t.os]
  <2>2. k \in Packs /\ m \in Packs /\ t \in Packs /\ L \in Seq(Packets) /\ A \in Seq(Packets)
        /\ w \in Payloads /\ v \in Payloads /\ Sound(k)
        /\ Chan(k, m, L \o k.out, A, w, g) /\ Chan(m, k, A, L \o k.out, v, h)
    BY DEF Linked, Sound, Outputs
  <2>3. /\ k.os \in [Numbers -> {"null", "ready", "sent"}] /\ k.out \in Seq(Packets)
        /\ t.os \in [Numbers -> {"null", "ready", "sent"}]
    BY <2>2, PackType
  <2>4. \A x \in Numbers : /\ t.os[x] = k.os[x] \/ (t.os[x] = "sent" /\ k.os[x] # "null")
                           /\ c.kind = "data" => t.os[c.seq] = "sent" /\ c.data = k.ob[c.seq]
    BY <2>1, <2>3 DEF Puts, Packets
  <2>5. /\ u \in Packs /\ u.ps = k.ps /\ u.pr = k.pr /\ u.pscopy = k.pscopy /\ u.ob = k.ob
        /\ u.is = k.is /\ u.ib = k.ib /\ u.pool = k.pool /\ u.xcount = k.xcount
        /\ u.rcount = k.rcount /\ u.state = k.state /\ u.out = k.out /\ u.os = t.os
    BY <2>2, <2>3 DEF Packs
  <2> HIDE DEF u
  <2>6. \A x : Back(u, x) = Back(k, x) BY <2>5 DEF Back
  <2>7. Sending(u) BY <2>2, <2>4, <2>5, <2>6 DEF Sound, Sending
  <2>8. Chan(u, m, L \o k.out, A, w, g)
    <3> DEFINE D == L \o k.out
    <3>1. Writes(k, m, w, g) /\ Acked(k, m, A) /\ Sent(k, m, w, D) /\ Held(k, m, w, D)
      BY <2>2 DEF Chan
    <3>2. D \in Seq(Packets) BY <2>2, <2>3, ConcatProperties
    <3> HIDE DEF D
    <3>3. Writes(u, m, w, g) BY <2>4, <2>5, <2>6, <3>1 DEF Writes
    <3>4. Acked(u, m, A) BY <2>5, <2>6, <3>1 DEF Acked
    <3>5. \A b : b.seq \in Numbers /\ Was(k, m, w, b) => Was(u, m, w, b)
      BY <2>4, <2>5, <2>6 DEF Was
    <3>6. \A i \in 1..Len(D) : D[i].seq \in Numbers
      <4>1. \A i \in 1..Len(D) : D[i] \in Packets BY <3>2
      <4> QED BY <4>1 DEF Packets
    <3>7. \A x \in Numbers : m.ib[x].seq \in Numbers
      <4>1. \A x \in Numbers : m.ib[x] \in Buffers BY <2>2, PackType
      <4> QED BY <4>1 DEF Buffers
    <3>8. Sent(u, m, w, D) BY <2>6, <3>1, <3>5, <3>6 DEF Sent
    <3>9. Held(u, m, w, D) BY <2>6, <3>1, <3>5, <3>7 DEF Held
    <3> QED BY <3>3, <3>4, <3>8, <3>9 DEF Chan, D
  <2>9. L \o t.out = Append(L \o k.out, c)
    BY <2>1, <2>2, <2>3 DEF Puts
  <2>10. L \o k.out \in Seq(Packets) BY <2>2, <2>3, ConcatProperties
  <2>11. c.kind = "data" => u.os[c.seq] = "sent" /\ c.data = u.ob[c.seq]
    <3>1. 0 \in Numbers BY Sizes DEF Numbers
    <3> QED BY <2>4, <2>5, <3>1
  <2>12. Chan(u, m, L \o t.out, A, w, g)
    BY <2>2, <2>5, <2>7, <2>8, <2>9, <2>10, <2>11, EmitAway
  <2>13. Chan(m, k, A, L \o t.out, v, h)
    <3>1. Acks(c) => c.val = k.pr BY <2>1 DEF Puts
    <3> QED BY <2>2, <2>9, <2>10, <3>1, EmitBack
  <2> DEFINE z == [u EXCEPT !.out = t.out]
  <2>14. /\ z \in Packs /\ z.ps = k.ps /\ z.pr = k.pr /\ z.pscopy = k.pscopy /\ z.ob = k.ob
         /\ z.is = k.is /\ z.ib = k.ib /\ z.pool = k.pool /\ z.xcount = k.xcount
         /\ z.rcount = k.rcount /\ z.state = k.state /\ z.out = t.out /\ z.os = t.os
    BY <2>2, <2>5, PackType DEF Packs
  <2> HIDE DEF z
  <2>15. Chan(z, m, L \o z.out, A, w, g)
    BY <2>5, <2>12, <2>14 DEF Chan, Writes, Acked, Sent, Held, Was, Back
  <2>16. Chan(m, z, A, L \o z.out, v, h)
    BY <2>13, <2>14 DEF Chan, Writes, Acked, Sent, Held, Was
  <2>17. Sound(z)
    <3>1. Taken(z) = Taken(k) BY <2>14 DEF Taken
    <3>2. \A x : Back(z, x) = Back(u, x) BY <2>5, <2>14 DEF Back
    <3>3. Sending(z) BY <2>5, <2>7, <2>14, <3>2 DEF Sending
    <3>4. Placed(z) BY <2>2, <2>14 DEF Sound, Placed
    <3>5. Pooled(z) BY <2>2, <2>14, <3>1 DEF Sound, Pooled
    <3>6. Unopened(z) BY <2>2, <2>14 DEF Sound, Unopened
    <3> QED BY <2>14, <3>3, <3>4, <3>5, <3>6 DEF Sound
  <2>18. Linked(z, m, L, A, w, g, v, h) BY <2>2, <2>15, <2>16, <2>17 DEF Linked
  <2>19. Alike(t, z) BY <2>14 DEF Outputs, Alike
  <2> QED BY <2>18, <2>19, LinkedAlike
<1> QED BY <1>1, <1>2 DEF Outputs

(* pkoutput.                                                               *)
LEMMA PkoutputLinked ==
  ASSUME NEW k, NEW m, NEW L, NEW A, NEW w, NEW g, NEW v, NEW h,
         Linked(k, m, L, A, w, g, v, h)
  PROVE  /\ Linked(Pkoutput(k), m, L, A, w, g, v, h)
         /\ Outputs(Pkoutput(k), k)
<1>1. k \in Packs BY DEF Linked, Sound
<1>2. Outputs(Pkoutput(k), k) BY <1>1, PkoutputIs
<1> QED BY <1>2, PutsLinked

----------------------------------------------------------------------------
(* Acknowledgements.                                                       *)

(* The packets pksack is done with.                                        *)
LEMMA PksackSet ==
  ASSUME NEW k \in Packs, Sending(k), Back(k, k.rpr) <= k.xcount,
         \A x \in Numbers : Back(k, k.rpr) <= Back(k, x) /\ Back(k, x) < k.xcount => k.os[x] = "sent"
  PROVE  LET seen == {Plus(k.ps, i) : i \in 1..Dist(k.ps, k.rpr)}
             done == {x \in seen : k.os[x] = "sent"}
         IN  /\ done = {x \in Numbers : Back(k, k.rpr) <= Back(k, x) /\ Back(k, x) < k.xcount}
             /\ Cardinality(done) = k.xcount - Back(k, k.rpr)
             /\ done # {} => \A x \in done : (\A y \in done : Dist(k.ps, y) <= Dist(k.ps, x)) <=> x = k.rpr
             /\ done = {} => Back(k, k.rpr) = k.xcount
             /\ done # {} => k.rpr \in done
<1> DEFINE p == k.xcount
           r == Back(k, k.rpr)
           seen == {Plus(k.ps, i) : i \in 1..Dist(k.ps, k.rpr)}
           done == {x \in seen : k.os[x] = "sent"}
           S == {x \in Numbers : r <= Back(k, x) /\ Back(k, x) < p}
<1>1. /\ k.ps \in Numbers /\ k.rpr \in Numbers /\ k.pscopy \in Numbers /\ p \in Nat
      /\ r \in Nat /\ r <= p /\ p < MOD /\ MOD \in Nat /\ Back(k, k.ps) = p
  <2>1. p <= WINDOWS /\ Back(k, k.ps) = p BY DEF Sending
  <2> QED BY <2>1, PackType, BackIs, Sizes
<1>2. \A x \in Numbers : /\ Dist(k.ps, x) \in Nat /\ Dist(k.ps, x) < MOD
                         /\ Back(k, x) \in Nat /\ Back(k, x) < MOD
  BY <1>1, BackIs, DistIs
<1>3. \A x \in Numbers : Dist(k.ps, x) = IF Back(k, x) <= p THEN p - Back(k, x)
                                                           ELSE p - Back(k, x) + MOD
  <2> TAKE x \in Numbers
  <2>1. \/ Dist(k.ps, k.pscopy) = Dist(k.ps, x) + Dist(x, k.pscopy)
        \/ Dist(k.ps, k.pscopy) + MOD = Dist(k.ps, x) + Dist(x, k.pscopy)
    BY <1>1, DistSum
  <2>2. p = Dist(k.ps, x) + Back(k, x) \/ p + MOD = Dist(k.ps, x) + Back(k, x)
    BY <1>1, <2>1 DEF Back
  <2> QED BY <1>1, <1>2, <2>2
<1>4. Dist(k.ps, k.rpr) = p - r BY <1>1, <1>3
<1>5. PICK n \in Nat : n = p - r /\ n < MOD BY <1>1
<1>6. seen = {x \in Numbers : 1 <= Dist(k.ps, x) /\ Dist(k.ps, x) <= n}
  BY <1>1, <1>4, <1>5, AheadSet
<1>7. \A x \in Numbers : 1 <= Dist(k.ps, x) /\ Dist(k.ps, x) <= n <=> r <= Back(k, x) /\ Back(k, x) < p
  <2> TAKE x \in Numbers
  <2> QED BY <1>1, <1>2, <1>3, <1>5
<1>8. \A x \in Numbers : r <= Back(k, x) /\ Back(k, x) < p => k.os[x] = "sent" OBVIOUS
<1> HIDE DEF seen, r, p
<1>9. done = S BY <1>6, <1>7, <1>8
<1>10. S = {x \in Numbers : r <= Dist(x, k.pscopy) /\ Dist(x, k.pscopy) < p} BY DEF Back
<1>11. Cardinality(S) = p - r
  <2> DEFINE T == {x \in Numbers : r <= Dist(x, k.pscopy) /\ Dist(x, k.pscopy) < p}
  <2>1. p <= MOD /\ k.pscopy \in Numbers BY <1>1
  <2>2. Cardinality(T) = p - r BY <1>1, <2>1, BehindCount, Zenon
  <2> QED BY <1>10, <2>2
<1>12. r < p => k.rpr \in S BY <1>1, <1>2 DEF r
<1>13. ASSUME S # {} PROVE r < p
  <2>1. PICK x \in S : TRUE BY <1>13
  <2> QED BY <1>1, <1>2, <2>1
<1>14. ASSUME NEW x \in S, S # {}
       PROVE  (\A y \in S : Dist(k.ps, y) <= Dist(k.ps, x)) <=> x = k.rpr
  <2>1. k.rpr \in S BY <1>12, <1>13, <1>14
  <2>2. \A y \in S : Dist(k.ps, y) <= n /\ y \in Numbers BY <1>7
  <2>3. Dist(k.ps, k.rpr) = n BY <1>4, <1>5
  <2>4. ASSUME \A y \in S : Dist(k.ps, y) <= Dist(k.ps, x) PROVE x = k.rpr
    <3>1. n <= Dist(k.ps, x) /\ Dist(k.ps, x) <= n BY <2>1, <2>2, <2>3, <2>4
    <3>2. Dist(k.ps, x) = Dist(k.ps, k.rpr) BY <1>2, <1>5, <2>3, <3>1
    <3> QED BY <1>1, <3>2, DistSame
  <2>5. x = k.rpr => \A y \in S : Dist(k.ps, y) <= Dist(k.ps, x) BY <2>2, <2>3
  <2> QED BY <2>4, <2>5
<1>15. S = {} => r = p BY <1>1, <1>12
<1> QED BY <1>9, <1>11, <1>12, <1>13, <1>14, <1>15 DEF r, p, seen

(* What pksack does: what has been acknowledged is done with.              *)
LEMMA PksackIs ==
  ASSUME NEW k \in Packs, Sending(k), Back(k, k.rpr) <= k.xcount,
         \A x \in Numbers : Back(k, k.rpr) <= Back(k, x) /\ Back(k, x) < k.xcount => k.os[x] = "sent"
  PROVE  LET t == Pksack(k)
         IN  /\ t \in Packs /\ t.pr = k.pr /\ t.pscopy = k.pscopy /\ t.is = k.is /\ t.ib = k.ib
             /\ t.pool = k.pool /\ t.rcount = k.rcount /\ t.state = k.state /\ t.out = k.out
             /\ t.ps = k.rpr \/ (t.ps = k.ps /\ Back(k, k.rpr) = k.xcount)
             /\ t.xcount = Back(k, k.rpr)
             /\ \A x \in Numbers : /\ Back(k, x) < t.xcount => t.os[x] = k.os[x] /\ t.ob[x] = k.ob[x]
                                   /\ ~(Back(k, x) < t.xcount) => t.os[x] = "null"
<1> DEFINE seen == {Plus(k.ps, i) : i \in 1..Dist(k.ps, k.rpr)}
           done == {x \in seen : k.os[x] = "sent"}
           last == CHOOSE x \in done : \A y \in done : Dist(k.ps, y) <= Dist(k.ps, x)
           os2 == [x \in Numbers |-> IF x \in done THEN "null" ELSE k.os[x]]
           ob2 == [x \in Numbers |-> IF x \in done THEN 0 ELSE k.ob[x]]
           u == [k EXCEPT !.os = os2, !.ob = ob2, !.xcount = @ - Cardinality(done), !.ps = last]
<1>1. Pksack(k) = IF done = {} THEN k ELSE u BY Zenon DEF Pksack
<1>2. /\ done = {x \in Numbers : Back(k, k.rpr) <= Back(k, x) /\ Back(k, x) < k.xcount}
      /\ Cardinality(done) = k.xcount - Back(k, k.rpr)
      /\ done # {} => \A x \in done : (\A y \in done : Dist(k.ps, y) <= Dist(k.ps, x)) <=> x = k.rpr
      /\ done = {} => Back(k, k.rpr) = k.xcount
      /\ done # {} => k.rpr \in done
  BY PksackSet, Zenon
<1>3. /\ k.os \in [Numbers -> {"null", "ready", "sent"}] /\ k.ob \in [Numbers -> Payloads]
      /\ k.rpr \in Numbers /\ k.xcount \in Nat /\ \A x \in Numbers : Back(k, x) \in Nat
  BY PackType, BackIs
<1>4. \A x \in Numbers : k.os[x] # "null" <=> Back(k, x) < k.xcount BY DEF Sending
<1>5. done # {} => last = k.rpr
  <2> HIDE DEF done
  <2> SUFFICES ASSUME done # {} PROVE last = k.rpr OBVIOUS
  <2>1. \E x \in done : \A y \in done : Dist(k.ps, y) <= Dist(k.ps, x) BY <1>2
  <2>2. last \in done /\ \A y \in done : Dist(k.ps, y) <= Dist(k.ps, last) BY <2>1, Zenon
  <2> QED BY <1>2, <2>2
<1> HIDE DEF done, last
<1>6. CASE done = {}
  <2>1. \A x \in Numbers : ~(Back(k, x) < k.xcount) => k.os[x] = "null" BY <1>4
  <2> QED BY <1>1, <1>2, <1>6, <2>1
<1>7. CASE done # {}
  <2>1. os2 \in [Numbers -> {"null", "ready", "sent"}] /\ ob2 \in [Numbers -> Payloads]
    <3>1. 0 \in Payloads BY Sizes DEF Payloads
    <3> QED BY <1>3, <3>1
  <2>2. \A x \in Numbers : /\ os2[x] = IF x \in done THEN "null" ELSE k.os[x]
                           /\ ob2[x] = IF x \in done THEN 0 ELSE k.ob[x]
    OBVIOUS
  <2> HIDE DEF os2, ob2
  <2>3. k.xcount - Cardinality(done) = Back(k, k.rpr) /\ Back(k, k.rpr) \in Nat BY <1>2, <1>3
  <2>4. u = [k EXCEPT !.os = os2, !.ob = ob2, !.xcount = Back(k, k.rpr), !.ps = k.rpr]
    BY <1>5, <1>7, <2>3
  <2>8. Pksack(k) = u BY <1>1, <1>7
  <2> HIDE DEF u
  <2>5. /\ u \in Packs /\ u.pr = k.pr /\ u.pscopy = k.pscopy /\ u.is = k.is /\ u.ib = k.ib
        /\ u.pool = k.pool /\ u.rcount = k.rcount /\ u.state = k.state /\ u.out = k.out
        /\ u.ps = k.rpr /\ u.xcount = Back(k, k.rpr) /\ u.os = os2 /\ u.ob = ob2
    BY <1>3, <2>1, <2>3, <2>4 DEF Packs
  <2>6. \A x \in Numbers : /\ Back(k, x) < Back(k, k.rpr) => x \notin done
                           /\ ~(Back(k, x) < Back(k, k.rpr)) => x \in done \/ k.os[x] = "null"
    BY <1>2, <1>3, <1>4
  <2>7. \A x \in Numbers : /\ Back(k, x) < Back(k, k.rpr) => os2[x] = k.os[x] /\ ob2[x] = k.ob[x]
                           /\ ~(Back(k, x) < Back(k, k.rpr)) => os2[x] = "null"
    BY <2>2, <2>6
  <2> QED BY <2>5, <2>7, <2>8
<1> QED BY <1>6, <1>7

(* pksack, for an acknowledgement that has come.                           *)
LEMMA PksackLinked ==
  ASSUME NEW k, NEW m, NEW L, NEW A, NEW w, NEW g, NEW v, NEW h,
         Linked(k, m, L, A, w, g, v, h), MayAck(k, m, A, k.rpr)
  PROVE  /\ Linked(Pksack(k), m, L, A, w, g, v, h)
         /\ Still(Pksack(k), k) /\ Pksack(k).pool = k.pool
<1>1. /\ k \in Packs /\ m \in Packs /\ Sound(k) /\ Sending(k)
      /\ Chan(k, m, L \o k.out, A, w, g) /\ Chan(m, k, A, L \o k.out, v, h)
  BY DEF Linked, Sound
<1> DEFINE D == L \o k.out
<1>2. /\ Writes(k, m, w, g) /\ Acked(k, m, A) /\ Sent(k, m, w, D) /\ Held(k, m, w, D)
      /\ Acked(m, k, D) /\ Sent(m, k, v, A) /\ Held(m, k, v, A) /\ Writes(m, k, v, h)
  BY <1>1 DEF Chan
<1>3. k.rpr \in Numbers /\ m.pr \in Numbers /\ k.xcount \in Nat BY <1>1, PackType
<1>4. \A x \in Numbers : Back(k, x) \in Nat BY <1>1, BackIs
<1>5. Back(k, m.pr) <= Back(k, k.rpr) /\ Back(k, k.rpr) <= k.xcount BY DEF MayAck
<1>6. \A x \in Numbers : Back(k, k.rpr) <= Back(k, x) /\ Back(k, x) < k.xcount => k.os[x] = "sent"
  <2> TAKE x \in Numbers
  <2> HAVE Back(k, k.rpr) <= Back(k, x) /\ Back(k, x) < k.xcount
  <2>1. k.os[x] # "null" BY <1>1 DEF Sending
  <2>2. Back(k, m.pr) <= Back(k, x) BY <1>3, <1>4, <1>5
  <2> QED BY <1>2, <2>1, <2>2 DEF Writes
<1>7. PICK t : t = Pksack(k) OBVIOUS
<1>8. /\ t \in Packs /\ t.pr = k.pr /\ t.pscopy = k.pscopy /\ t.is = k.is /\ t.ib = k.ib
      /\ t.pool = k.pool /\ t.rcount = k.rcount /\ t.state = k.state /\ t.out = k.out
      /\ t.ps = k.rpr \/ (t.ps = k.ps /\ Back(k, k.rpr) = k.xcount)
      /\ t.xcount = Back(k, k.rpr)
      /\ \A x \in Numbers : /\ Back(k, x) < t.xcount => t.os[x] = k.os[x] /\ t.ob[x] = k.ob[x]
                            /\ ~(Back(k, x) < t.xcount) => t.os[x] = "null"
  BY <1>1, <1>5, <1>6, <1>7, PksackIs
<1>9. \A x : Back(t, x) = Back(k, x) BY <1>8 DEF Back
<1>10. Sending(t)
  <2>1. t.xcount <= WINDOWS BY <1>1, <1>3, <1>4, <1>5, <1>8, Sizes DEF Sending
  <2>2. Back(t, t.ps) = t.xcount BY <1>1, <1>8, <1>9 DEF Sending
  <2>3. \A x \in Numbers : Back(k, x) < t.xcount => Back(k, x) < k.xcount
    BY <1>3, <1>4, <1>5, <1>8
  <2>4. \A x \in Numbers : t.os[x] # "null" <=> Back(t, x) < t.xcount
    BY <1>1, <1>8, <1>9, <2>3 DEF Sending
  <2> QED BY <2>1, <2>2, <2>4 DEF Sending
<1>11. Unopened(t)
  <2> SUFFICES ASSUME "LIVE" \notin k.state
               PROVE  /\ t.ps = 0 /\ t.pr = 0 /\ t.pscopy = 0 /\ t.xcount = 0
                      /\ \A x \in Numbers : t.is[x] = "free"
    BY <1>8 DEF Unopened
  <2>1. /\ k.ps = 0 /\ k.pr = 0 /\ k.pscopy = 0 /\ k.xcount = 0
        /\ \A x \in Numbers : k.is[x] = "free"
    BY <1>1 DEF Sound, Unopened
  <2>2. t.xcount = 0 BY <1>3, <1>4, <1>5, <1>8, <2>1
  <2>3. t.ps \in Numbers /\ t.pscopy \in Numbers /\ Dist(t.ps, t.pscopy) = 0
    BY <1>8, <1>10, <2>2, PackType DEF Sending, Back
  <2> QED BY <1>8, <2>1, <2>2, <2>3, DistZero
<1>12. Sound(t)
  <2>1. Taken(t) = Taken(k) BY <1>8 DEF Taken
  <2>2. Placed(t) BY <1>1, <1>8 DEF Sound, Placed
  <2>3. Pooled(t) BY <1>1, <1>8, <2>1 DEF Sound, Pooled
  <2> QED BY <1>8, <1>10, <1>11, <2>2, <2>3 DEF Sound
<1> HIDE DEF D
<1>13. Chan(t, m, D, A, w, g)
  <2>1. Writes(t, m, w, g)
    <3>1. \A x \in Numbers : t.os[x] # "null" => k.os[x] = t.os[x] /\ k.ob[x] = t.ob[x] BY <1>8
    <3> QED BY <1>2, <1>5, <1>8, <1>9, <3>1 DEF Writes
  <2>2. Acked(t, m, A) BY <1>2, <1>8, <1>9 DEF Acked, MayAck
  <2>3. \A c : c.seq \in Numbers /\ Was(k, m, w, c) => Was(t, m, w, c)
    BY <1>8, <1>9 DEF Was
  <2>4. \A i \in 1..Len(D) : D[i].seq \in Numbers
    <3>1. D \in Seq(Packets)
      <4>1. L \in Seq(Packets) /\ k.out \in Seq(Packets) BY <1>1, PackType DEF Linked
      <4> QED BY <4>1, ConcatProperties DEF D
    <3>2. \A i \in 1..Len(D) : D[i] \in Packets BY <3>1
    <3> QED BY <3>2 DEF Packets
  <2>5. \A x \in Numbers : m.ib[x].seq \in Numbers
    <3>1. \A x \in Numbers : m.ib[x] \in Buffers BY <1>1, PackType
    <3> QED BY <3>1 DEF Buffers
  <2>6. Sent(t, m, w, D) BY <1>2, <1>9, <2>3, <2>4 DEF Sent
  <2>7. Held(t, m, w, D) BY <1>2, <1>9, <2>3, <2>5 DEF Held
  <2> QED BY <2>1, <2>2, <2>6, <2>7 DEF Chan
<1>14. Chan(m, t, A, D, v, h)
  <2>1. Writes(m, t, v, h) BY <1>2, <1>8 DEF Writes
  <2>2. Acked(m, t, D) BY <1>2, <1>8 DEF Acked
  <2>3. \A c : Was(m, t, v, c) <=> Was(m, k, v, c) BY <1>8 DEF Was
  <2>4. Sent(m, t, v, A) BY <1>2, <2>3 DEF Sent
  <2>5. Held(m, t, v, A) BY <1>2, <1>8, <2>3 DEF Held
  <2> QED BY <2>1, <2>2, <2>4, <2>5 DEF Chan
<1>15. Linked(t, m, L, A, w, g, v, h)
  <2>1. L \o t.out = D BY <1>8 DEF D
  <2> QED BY <1>12, <1>13, <1>14, <2>1 DEF Linked
<1>16. Still(t, k) BY <1>5, <1>8 DEF Still
<1> QED BY <1>7, <1>8, <1>15, <1>16

----------------------------------------------------------------------------
(* Input.                                                                  *)

(* What does not touch the numbers leaves the acknowledgement due.         *)
LEMMA MayAckAlike ==
  ASSUME NEW k, NEW m, NEW A, NEW x, MayAck(k, m, A, x), NEW t, Alike(t, k)
  PROVE  MayAck(t, m, A, x)
<1>1. \A y : Back(t, y) = Back(k, y) BY DEF Alike, Back
<1> QED BY <1>1 DEF MayAck, Alike

(* One after the other.                                                    *)
LEMMA StillTrans ==
  ASSUME NEW k \in Packs, NEW u, NEW t, Still(u, k), Still(t, u)
  PROVE  Still(t, k)
<1>1. k.xcount \in Nat /\ u.xcount \in Nat /\ t.xcount \in Nat BY PackType DEF Still
<1> QED BY <1>1 DEF Still

(* What looks the same to lines and buffers moves no number.               *)
LEMMA StillAlike ==
  ASSUME NEW k \in Packs, NEW t, Alike(t, k)
  PROVE  Still(t, k)
<1>1. k.xcount \in Nat BY PackType
<1> QED BY <1>1 DEF Still, Alike

(* Nor does pkoutput.                                                      *)
LEMMA StillOutputs ==
  ASSUME NEW k \in Packs, NEW t, Outputs(t, k)
  PROVE  Still(t, k)
<1>1. k.xcount \in Nat BY PackType
<1> QED BY <1>1 DEF Still, Outputs

(* A control message, without the output that follows.                     *)
LEMMA ControlLinked ==
  ASSUME NEW k, NEW m, NEW L, NEW A, NEW w, NEW g, NEW v, NEW h,
         Linked(k, m, L, A, w, g, v, h), NEW c \in Packets, c.kind \in Controls,
         Acks(c) => MayAck(k, m, A, c.val)
  PROVE  Linked(Control(k, c), m, L, A, w, g, v, h) /\ Still(Control(k, c), k)
<1>1. k \in Packs /\ k.msg \subseteq Controls /\ k.rmsg \subseteq Controls
      /\ k.state \subseteq {"INITa", "INITb", "LIVE", "RXMIT"} /\ c.val \in Numbers
  BY PackType DEF Linked, Sound, Packets
<1>2. \A t : Alike(t, k) => Linked(t, m, L, A, w, g, v, h) /\ Still(t, k)
  BY <1>1, LinkedAlike, StillAlike
<1>3. CASE c.kind = "INITA"
  <2> DEFINE t == [k EXCEPT !.state = @ \cup {"INITa"}, !.msg = @ \cup {"INITB"},
                            !.rmsg = @ \cup {"INITB"}]
  <2>1. Control(k, c) = t BY <1>3 DEF Control
  <2>2. Alike(t, k) BY <1>1 DEF Alike, Packs, Controls
  <2> QED BY <1>2, <2>1, <2>2
<1>4. CASE c.kind = "INITB"
  <2>1. Control(k, c) = InitB(k) BY <1>4 DEF Control
  <2>2. Alike(InitB(k), k)
    <3>1. CASE "LIVE" \in k.state BY <1>1, <3>1 DEF InitB, Alike, Packs, Controls
    <3>2. CASE "LIVE" \notin k.state /\ "INITa" \notin k.state
      BY <1>1, <3>2 DEF InitB, Alike, Packs, Controls
    <3>3. CASE "LIVE" \notin k.state /\ "INITa" \in k.state
      BY <1>1, <3>3 DEF InitB, Alike, Packs, Controls
    <3> QED BY <3>1, <3>2, <3>3
  <2> QED BY <1>2, <2>1, <2>2
<1>5. CASE c.kind = "INITC"
  <2> DEFINE t == [k EXCEPT !.state = {"LIVE"}, !.rmsg = @ \ {"INITB"}]
             u == [k EXCEPT !.msg = @ \cup {"INITB"}]
  <2>1. Control(k, c) = IF {"INITa", "INITb"} \subseteq k.state THEN t ELSE u
    BY <1>5 DEF Control
  <2>2. Alike(t, k) BY <1>1 DEF Alike, Packs, Controls
  <2>3. Alike(u, k) BY <1>1 DEF Alike, Packs, Controls
  <2> QED BY <1>2, <2>1, <2>2, <2>3
<1>6. CASE c.kind = "RJ"
  <2> DEFINE t == [k EXCEPT !.state = @ \cup {"RXMIT"}, !.msg = @ \cup {"RR"}, !.rpr = c.val]
  <2>1. Control(k, c) = Pksack(t) BY <1>6 DEF Control
  <2>2. Alike(t, k) /\ t.rpr = c.val BY <1>1 DEF Alike, Packs, Controls
  <2>3. MayAck(k, m, A, c.val) BY <1>6 DEF Acks
  <2> HIDE DEF t
  <2>4. MayAck(t, m, A, t.rpr) BY <2>2, <2>3, MayAckAlike
  <2>5. Linked(t, m, L, A, w, g, v, h) /\ Still(t, k) BY <1>2, <2>2
  <2>6. Linked(Pksack(t), m, L, A, w, g, v, h) /\ Still(Pksack(t), t)
    BY <2>4, <2>5, PksackLinked
  <2> QED BY <1>1, <2>1, <2>5, <2>6, StillTrans
<1>7. CASE c.kind = "RR"
  <2> DEFINE t == [k EXCEPT !.rpr = c.val]
  <2>1. Control(k, c) = Pksack(t) BY <1>7 DEF Control
  <2>2. Alike(t, k) /\ t.rpr = c.val BY <1>1 DEF Alike, Packs, Controls
  <2>3. MayAck(k, m, A, c.val) BY <1>7 DEF Acks
  <2> HIDE DEF t
  <2>4. MayAck(t, m, A, t.rpr) BY <2>2, <2>3, MayAckAlike
  <2>5. Linked(t, m, L, A, w, g, v, h) /\ Still(t, k) BY <1>2, <2>2
  <2>6. Linked(Pksack(t), m, L, A, w, g, v, h) /\ Still(Pksack(t), t)
    BY <2>4, <2>5, PksackLinked
  <2> QED BY <1>1, <2>1, <2>5, <2>6, StillTrans
<1> QED BY <1>3, <1>4, <1>5, <1>6, <1>7 DEF Controls

(* pkcntl.                                                                 *)
LEMMA PkcntlLinked ==
  ASSUME NEW k, NEW m, NEW L, NEW A, NEW w, NEW g, NEW v, NEW h,
         Linked(k, m, L, A, w, g, v, h), NEW c \in Packets, c.kind \in Controls,
         Acks(c) => MayAck(k, m, A, c.val)
  PROVE  Linked(Pkcntl(k, c), m, L, A, w, g, v, h) /\ Still(Pkcntl(k, c), k)
<1>1. PICK n : n = Control(k, c) OBVIOUS
<1>2. k \in Packs /\ Linked(n, m, L, A, w, g, v, h) /\ Still(n, k)
  BY <1>1, ControlLinked DEF Linked, Sound
<1>3. Linked(Pkoutput(n), m, L, A, w, g, v, h) /\ Outputs(Pkoutput(n), n) BY <1>2, PkoutputLinked
<1>4. Still(Pkoutput(n), k) BY <1>2, <1>3, StillOutputs, StillTrans DEF Still
<1>5. Pkcntl(k, c) = IF n.msg # {} THEN Pkoutput(n) ELSE n BY <1>1 DEF Pkcntl
<1> QED BY <1>2, <1>3, <1>4, <1>5

(* The number d steps back.                                                *)
LEMMA MinusIs ==
  ASSUME NEW y \in Numbers, NEW d \in Numbers
  PROVE  Plus(y, MOD - d) \in Numbers /\ Dist(Plus(y, MOD - d), y) = d
<1>1. d \in Nat /\ d < MOD /\ MOD \in Nat /\ MOD - d \in 0..MOD BY Sizes DEF Numbers
<1>2. PICK x \in Numbers : /\ x = Plus(y, MOD - d)
                           /\ y + (MOD - d) < MOD => x = y + (MOD - d)
                           /\ y + (MOD - d) >= MOD => x = y + (MOD - d) - MOD
  BY <1>1, PlusIs
<1>3. y \in Nat /\ x \in Nat /\ y < MOD BY <1>2, DistIs
<1>4. Dist(x, y) = d
  <2>1. CASE y < d
    <3>1. x = y + (MOD - d) /\ y < x BY <1>1, <1>2, <1>3, <2>1
    <3> QED BY <1>1, <1>2, <1>3, <3>1, DistIs
  <2>2. CASE y >= d
    <3>1. x = y - d /\ y >= x BY <1>1, <1>2, <1>3, <2>2
    <3> QED BY <1>1, <1>2, <1>3, <3>1, DistIs
  <2> QED BY <1>1, <1>3, <2>1, <2>2
<1> QED BY <1>2, <1>4

(* There is a free place for a buffer from the pool, outside the window.   *)
LEMMA PlaceIs ==
  ASSUME NEW k \in Packs, Pooled(k), k.pool > 0
  PROVE  LET places == {i \in 0..(MOD - 2) : k.is[Plus(k.pr, MOD - i)] = "free"}
             x == Plus(k.pr, MOD - (CHOOSE i \in places : \A j \in places : i <= j))
         IN  places # {} /\ x \in Numbers /\ k.is[x] = "free" /\ Dist(x, k.pr) < WINDOWS
<1> DEFINE places == {i \in 0..(MOD - 2) : k.is[Plus(k.pr, MOD - i)] = "free"}
           i0 == CHOOSE i \in places : \A j \in places : i <= j
           B == {x \in Numbers : 0 <= Dist(x, k.pr) /\ Dist(x, k.pr) < WINDOWS}
<1>1. k.pr \in Numbers /\ k.pool \in Nat BY PackType
<1>2. MOD \in Nat /\ WINDOWS \in Nat /\ WINDOWS >= 1 /\ WINDOWS + WINDOWS <= MOD BY Sizes
<1>3. IsFiniteSet(B) /\ Cardinality(B) = WINDOWS
  <2>1. WINDOWS <= MOD /\ 0 \in Nat /\ 0 <= WINDOWS /\ WINDOWS - 0 = WINDOWS BY <1>2
  <2>2. IsFiniteSet(B) /\ Cardinality(B) = WINDOWS - 0 BY <1>1, <1>2, <2>1, BehindCount, Zenon
  <2> QED BY <2>1, <2>2
<1>4. PICK x \in Numbers : Dist(x, k.pr) < WINDOWS /\ k.is[x] = "free"
  <2> SUFFICES ASSUME \A x \in Numbers : Dist(x, k.pr) < WINDOWS => k.is[x] # "free" PROVE FALSE
    OBVIOUS
  <2>1. B \in SUBSET Taken(k) BY DEF Taken
  <2>2. IsFiniteSet(Taken(k)) /\ Cardinality(Taken(k)) \in Nat BY TakenFinite
  <2>3. Cardinality(B) <= Cardinality(Taken(k)) BY <2>1, <2>2, FS_Subset
  <2> HIDE DEF B
  <2> QED BY <1>1, <1>2, <1>3, <2>2, <2>3 DEF Pooled
<1>5. PICK d \in Numbers : d = Dist(x, k.pr) BY <1>1, DistIs
<1>6. Plus(k.pr, MOD - d) = x
  <2>1. Plus(k.pr, MOD - d) \in Numbers /\ Dist(Plus(k.pr, MOD - d), k.pr) = d BY <1>1, MinusIs
  <2> QED BY <1>1, <1>5, <2>1, DistSame
<1>7. d \in Nat /\ d < WINDOWS /\ d \in 0..(MOD - 2) BY <1>2, <1>4, <1>5 DEF Numbers
<1>8. d \in places BY <1>4, <1>6, <1>7
<1>9. \E i \in places : \A j \in places : i <= j
  <2>1. places \subseteq Nat OBVIOUS
  <2> HIDE DEF places
  <2> QED BY <1>8, <2>1, Least
<1>10. i0 \in places /\ \A j \in places : i0 <= j BY <1>9, Zenon
<1> HIDE DEF i0
<1>11. i0 <= d /\ i0 \in 0..(MOD - 2) /\ k.is[Plus(k.pr, MOD - i0)] = "free" BY <1>8, <1>10
<1>12. i0 \in Numbers BY <1>2, <1>11 DEF Numbers
<1>13. Plus(k.pr, MOD - i0) \in Numbers /\ Dist(Plus(k.pr, MOD - i0), k.pr) = i0
  BY <1>1, <1>12, MinusIs
<1>14. i0 < WINDOWS BY <1>2, <1>7, <1>11
<1> QED BY <1>8, <1>11, <1>13, <1>14 DEF i0

(* A data packet takes a buffer.                                           *)
LEMMA StoreRaw ==
  ASSUME NEW k, NEW m, NEW L, NEW A, NEW w, NEW g, NEW v, NEW h,
         Linked(k, m, L, A, w, g, v, h), "LIVE" \in k.state, k.pool > 0,
         NEW c \in Packets, MayCome(m, k, A, v, c),
         NEW x \in Numbers, k.is[x] = "free", Dist(x, k.pr) < WINDOWS,
         NEW t, t = Stored(k, x, c)
  PROVE  Linked(t, m, L, A, w, g, v, h) /\ Still(t, k)
<1> DEFINE b == [ok |-> c.ok, seq |-> c.seq, data |-> c.data]
<1>1. /\ k \in Packs /\ m \in Packs /\ Sound(k)
      /\ Chan(k, m, L \o k.out, A, w, g) /\ Chan(m, k, A, L \o k.out, v, h)
  BY DEF Linked, Sound
<1>2. /\ k.is \in [Numbers -> {"free", "raw", "mark", "copy"}] /\ k.ib \in [Numbers -> Buffers]
      /\ k.pool \in Nat /\ k.xcount \in Nat
  BY <1>1, PackType
<1>3. b \in Buffers BY DEF Packets, Buffers
<1>4. b.ok = c.ok /\ b.seq = c.seq /\ b.data = c.data OBVIOUS
<1>5. t = [k EXCEPT !.pool = @ - 1, !.is[x] = "raw", !.ib[x] = b] BY DEF Stored
<1> HIDE DEF b
<1>6. /\ [k.is EXCEPT ![x] = "raw"] \in [Numbers -> {"free", "raw", "mark", "copy"}]
      /\ [k.ib EXCEPT ![x] = b] \in [Numbers -> Buffers] /\ k.pool - 1 \in Nat
  BY <1>2, <1>3
<1>7. /\ t \in Packs /\ t.ps = k.ps /\ t.pr = k.pr /\ t.pscopy = k.pscopy /\ t.os = k.os
      /\ t.ob = k.ob /\ t.xcount = k.xcount /\ t.rcount = k.rcount /\ t.state = k.state
      /\ t.out = k.out /\ t.pool = k.pool - 1
      /\ t.is = [k.is EXCEPT ![x] = "raw"] /\ t.ib = [k.ib EXCEPT ![x] = b]
  <2>1. PICK is2, ib2, pool2 : is2 = [k.is EXCEPT ![x] = "raw"] /\ ib2 = [k.ib EXCEPT ![x] = b]
                               /\ pool2 = k.pool - 1
    OBVIOUS
  <2>2. t = [k EXCEPT !.pool = pool2, !.is = is2, !.ib = ib2] BY <1>1, <1>5, <2>1 DEF Packs
  <2>3. /\ is2 \in [Numbers -> {"free", "raw", "mark", "copy"}]
        /\ ib2 \in [Numbers -> Buffers] /\ pool2 \in Nat
    BY <1>6, <2>1
  <2>4. /\ t \in Packs /\ t.ps = k.ps /\ t.pr = k.pr /\ t.pscopy = k.pscopy /\ t.os = k.os
        /\ t.ob = k.ob /\ t.xcount = k.xcount /\ t.rcount = k.rcount /\ t.state = k.state
        /\ t.out = k.out /\ t.pool = pool2 /\ t.is = is2 /\ t.ib = ib2
    <3>1. t \in Packs
      <4> HIDE DEF b
      <4>1. k \in Packs BY <1>1
      <4>2. [k EXCEPT !.is = is2] \in Packs BY <2>3, <4>1 DEF Packs
      <4>3. [[k EXCEPT !.is = is2] EXCEPT !.pool = pool2, !.ib = ib2] \in Packs
        BY <2>3, <4>2 DEF Packs
      <4>4. t = [[k EXCEPT !.is = is2] EXCEPT !.pool = pool2, !.ib = ib2] BY <2>2, <4>1 DEF Packs
      <4> QED BY <4>3, <4>4
    <3>2. /\ t.ps = k.ps /\ t.pr = k.pr /\ t.pscopy = k.pscopy /\ t.os = k.os
          /\ t.ob = k.ob /\ t.xcount = k.xcount /\ t.rcount = k.rcount /\ t.state = k.state
          /\ t.out = k.out
      BY <1>1, <2>2 DEF Packs
    <3>3. t.pool = pool2 /\ t.is = is2 /\ t.ib = ib2 BY <1>1, <2>2 DEF Packs
    <3> QED BY <3>1, <3>2, <3>3
  <2> QED BY <2>1, <2>4
<1>8. /\ t.is[x] = "raw" /\ t.ib[x] = b
      /\ \A y \in Numbers : y # x => t.is[y] = k.is[y] /\ t.ib[y] = k.ib[y]
  BY <1>2, <1>7
<1>9. \A y : Back(t, y) = Back(k, y) BY <1>7 DEF Back
<1>10. Sound(t)
  <2>1. Taken(t) = Taken(k) \cup {x} /\ x \notin Taken(k) BY <1>8 DEF Taken
  <2>2. Cardinality(Taken(t)) = Cardinality(Taken(k)) + 1 /\ Cardinality(Taken(k)) \in Nat
    BY <2>1, TakenFinite, FS_AddElement
  <2>3. Pooled(t) BY <1>1, <1>2, <1>7, <2>2, Sizes DEF Sound, Pooled
  <2>4. Sending(t) BY <1>1, <1>7, <1>9 DEF Sound, Sending
  <2>5. Placed(t) BY <1>1, <1>7, <1>8 DEF Sound, Placed
  <2>6. Unopened(t) BY <1>7 DEF Unopened
  <2> QED BY <1>7, <2>3, <2>4, <2>5, <2>6 DEF Sound
<1> DEFINE D == L \o k.out
<1>11. /\ Writes(k, m, w, g) /\ Acked(k, m, A) /\ Sent(k, m, w, D) /\ Held(k, m, w, D)
       /\ Acked(m, k, D) /\ Sent(m, k, v, A) /\ Held(m, k, v, A) /\ Writes(m, k, v, h)
  BY <1>1 DEF Chan
<1> HIDE DEF D
<1>12. Chan(t, m, D, A, w, g)
  <2>1. Writes(t, m, w, g) BY <1>7, <1>9, <1>11 DEF Writes
  <2>2. Acked(t, m, A) BY <1>7, <1>9, <1>11 DEF Acked
  <2>3. \A d : Was(t, m, w, d) <=> Was(k, m, w, d) BY <1>7, <1>9 DEF Was
  <2>4. Sent(t, m, w, D) BY <1>9, <1>11, <2>3 DEF Sent
  <2>5. Held(t, m, w, D) BY <1>9, <1>11, <2>3 DEF Held
  <2> QED BY <2>1, <2>2, <2>4, <2>5 DEF Chan
<1>13. Chan(m, t, A, D, v, h)
  <2>1. Writes(m, t, v, h) BY <1>7, <1>11 DEF Writes
  <2>2. Acked(m, t, D) BY <1>7, <1>11 DEF Acked
  <2>3. \A d : Was(m, t, v, d) <=> Was(m, k, v, d) BY <1>7 DEF Was
  <2>4. Sent(m, t, v, A) BY <1>11, <2>3 DEF Sent
  <2>5. Was(m, t, v, b) BY <1>4, <2>3 DEF MayCome, Was
  <2>6. \A y \in Numbers : t.is[y] # "free" => Was(m, t, v, t.ib[y])
    BY <1>8, <1>11, <2>3, <2>5 DEF Held
  <2>7. \A y \in Numbers, j \in 1..Len(A) : t.is[y] # "free" /\ A[j].kind = "data" =>
          Back(m, A[j].seq) < Back(m, t.ib[y].seq) + WINDOWS
    BY <1>4, <1>8, <1>11 DEF Held, MayCome
  <2>8. Held(m, t, v, A) BY <2>6, <2>7 DEF Held
  <2> QED BY <2>1, <2>2, <2>4, <2>8 DEF Chan
<1>14. Linked(t, m, L, A, w, g, v, h)
  <2>1. L \o t.out = D BY <1>7 DEF D
  <2> QED BY <1>10, <1>12, <1>13, <2>1 DEF Linked
<1>15. Still(t, k) BY <1>2, <1>7 DEF Still
<1> QED BY <1>14, <1>15

(* pkdata.                                                                 *)
LEMMA PkdataLinked ==
  ASSUME NEW k, NEW m, NEW L, NEW A, NEW w, NEW g, NEW v, NEW h,
         Linked(k, m, L, A, w, g, v, h), k.pool > 0,
         NEW c \in Packets, MayCome(m, k, A, v, c)
  PROVE  Linked(Pkdata(k, c), m, L, A, w, g, v, h) /\ Still(Pkdata(k, c), k)
<1> DEFINE places == {i \in 0..(MOD - 2) : k.is[Plus(k.pr, MOD - i)] = "free"}
           x == Plus(k.pr, MOD - (CHOOSE i \in places : \A j \in places : i <= j))
           u == [k EXCEPT !.msg = @ \cup k.rmsg]
<1>1. k \in Packs /\ Pooled(k) /\ k.msg \subseteq Controls /\ k.rmsg \subseteq Controls
  BY PackType DEF Linked, Sound
<1>2. Pkdata(k, c) = IF "LIVE" \notin k.state THEN Pkoutput(u)
                     ELSE IF places = {} THEN k ELSE Stored(k, x, c)
  BY Zenon DEF Pkdata, Stored
<1>3. CASE "LIVE" \notin k.state
  <2>1. Alike(u, k) BY <1>1 DEF Alike, Packs
  <2> HIDE DEF u
  <2>2. Linked(u, m, L, A, w, g, v, h) /\ Still(u, k) BY <1>1, <2>1, LinkedAlike, StillAlike
  <2>3. Linked(Pkoutput(u), m, L, A, w, g, v, h) /\ Outputs(Pkoutput(u), u)
    BY <2>2, PkoutputLinked
  <2>4. Still(Pkoutput(u), k) BY <1>1, <2>2, <2>3, StillOutputs, StillTrans DEF Still
  <2> QED BY <1>2, <1>3, <2>3, <2>4
<1>4. CASE "LIVE" \in k.state
  <2>1. places # {} /\ x \in Numbers /\ k.is[x] = "free" /\ Dist(x, k.pr) < WINDOWS
    BY <1>1, PlaceIs, Zenon
  <2>2. PICK y \in Numbers : y = x BY <2>1
  <2>3. Pkdata(k, c) = Stored(k, y, c) BY <1>2, <1>4, <2>1, <2>2
  <2>4. k.is[y] = "free" /\ Dist(y, k.pr) < WINDOWS BY <2>1, <2>2
  <2>5. Linked(Stored(k, y, c), m, L, A, w, g, v, h) /\ Still(Stored(k, y, c), k)
    BY <1>4, <2>4, StoreRaw
  <2> QED BY <2>3, <2>5
<1> QED BY <1>3, <1>4

----------------------------------------------------------------------------
(* The first packet on the line is taken off.                              *)

(* The first packet c of the line to k is taken off: the rest keeps the    *)
(* ends linked, and c may be acted on.                                     *)
LEMMA LinkedTail ==
  ASSUME NEW k, NEW m, NEW L, NEW A, NEW w, NEW g, NEW v, NEW h,
         Linked(k, m, L, A, w, g, v, h), A # <<>>,
         NEW c, c = Head(A)
  PROVE  /\ c \in Packets
         /\ Linked(k, m, L, Tail(A), w, g, v, h)
         /\ Acks(c) => MayAck(k, m, Tail(A), c.val)
         /\ c.kind = "data" => MayCome(m, k, Tail(A), v, c)
<1>1. /\ k \in Packs /\ m \in Packs /\ A \in Seq(Packets) /\ Sound(k)
      /\ Chan(k, m, L \o k.out, A, w, g) /\ Chan(m, k, A, L \o k.out, v, h)
  BY DEF Linked, Sound
<1>2. PICK B : B = Tail(A) OBVIOUS
<1>3. /\ B \in Seq(Packets) /\ Thins(B, A) /\ c \in Packets /\ c = A[1] /\ 1 \in 1..Len(A)
      /\ \A i \in 1..Len(B) : B[i] = A[i + 1] /\ i + 1 \in 1..Len(A) /\ 1 < i + 1
  BY <1>1, <1>2, ThinTail
<1>4. Chan(k, m, L \o k.out, B, w, g) BY <1>1, <1>3, ThinBack
<1>5. Chan(m, k, B, L \o k.out, v, h) BY <1>1, <1>3, ThinAway
<1>6. Linked(k, m, L, B, w, g, v, h) BY <1>3, <1>4, <1>5 DEF Linked
<1>7. Acked(k, m, A) /\ Sent(m, k, v, A) BY <1>1 DEF Chan
<1>8. ASSUME Acks(c) PROVE MayAck(k, m, B, c.val)
  <2>1. c.val \in Numbers BY <1>3 DEF Packets
  <2>2. \A i \in 1..Len(B) : Acks(B[i]) => Back(k, B[i].val) <= Back(k, c.val)
    BY <1>3, <1>7, <1>8 DEF Acked
  <2> QED BY <1>3, <1>7, <1>8, <2>1, <2>2 DEF Acked, MayAck
<1>9. ASSUME c.kind = "data" PROVE MayCome(m, k, B, v, c)
  <2>1. Was(m, k, v, c) BY <1>3, <1>7, <1>9 DEF Sent
  <2>2. \A i \in 1..Len(B) : B[i].kind = "data" => Back(m, B[i].seq) < Back(m, c.seq) + WINDOWS
    BY <1>3, <1>7, <1>9 DEF Sent
  <2> QED BY <2>1, <2>2 DEF MayCome
<1> QED BY <1>2, <1>3, <1>6, <1>8, <1>9

(* pkgetpack.                                                              *)
LEMMA PkgetpackLinked ==
  ASSUME NEW k, NEW m, NEW L, NEW A, NEW w, NEW g, NEW v, NEW h,
         Linked(k, m, L, A, w, g, v, h), A # <<>>,
         NEW c, c = Head(A), c.hdr /\ c.kind = "data" => k.pool > 0
  PROVE  /\ Linked(Pkgetpack(k, c), m, L, Tail(A), w, g, v, h)
         /\ Still(Pkgetpack(k, c), k)
<1>1. PICK B : B = Tail(A) OBVIOUS
<1>2. /\ c \in Packets /\ Linked(k, m, L, B, w, g, v, h) /\ k \in Packs
      /\ Acks(c) => MayAck(k, m, B, c.val)
      /\ c.kind = "data" => MayCome(m, k, B, v, c)
  BY <1>1, LinkedTail DEF Linked, Sound
<1>3. k.xcount \in Nat BY <1>2, PackType
<1>4. CASE ~c.hdr
  <2>1. Pkgetpack(k, c) = k BY <1>4 DEF Pkgetpack
  <2> QED BY <1>1, <1>2, <1>3, <2>1 DEF Still
<1>5. CASE c.hdr /\ c.kind = "data"
  <2> DEFINE t == [k EXCEPT !.rpr = c.val]
  <2>1. Pkgetpack(k, c) = Pkdata(Pksack(t), c) BY <1>5 DEF Pkgetpack
  <2>2. c.val \in Numbers BY <1>2 DEF Packets
  <2>3. Alike(t, k) /\ t.rpr = c.val /\ t.pool = k.pool BY <1>2, <2>2 DEF Alike, Packs
  <2>4. MayAck(k, m, B, c.val) BY <1>2, <1>5 DEF Acks
  <2> HIDE DEF t
  <2>5. MayAck(t, m, B, t.rpr) BY <2>3, <2>4, MayAckAlike
  <2>6. Linked(t, m, L, B, w, g, v, h) /\ Still(t, k) BY <1>2, <2>3, LinkedAlike, StillAlike
  <2>7. PICK u : u = Pksack(t) OBVIOUS
  <2>8. Linked(u, m, L, B, w, g, v, h) /\ Still(u, t) /\ u.pool > 0
    <3>1. k.pool > 0 BY <1>5
    <3>2. Linked(u, m, L, B, w, g, v, h) /\ Still(u, t) /\ u.pool = t.pool
      BY <2>5, <2>6, <2>7, PksackLinked
    <3> QED BY <2>3, <3>1, <3>2
  <2>9. MayCome(m, u, B, v, c)
    <3>1. u.pr = k.pr BY <2>3, <2>8 DEF Still, Alike
    <3>2. MayCome(m, k, B, v, c) BY <1>2, <1>5
    <3> QED BY <3>1, <3>2 DEF MayCome, Was
  <2>10. Linked(Pkdata(u, c), m, L, B, w, g, v, h) /\ Still(Pkdata(u, c), u)
    BY <1>2, <2>8, <2>9, PkdataLinked
  <2>11. Still(u, k) BY <1>2, <2>6, <2>8, StillTrans
  <2>12. Still(Pkdata(u, c), k) BY <1>2, <2>10, <2>11, StillTrans
  <2> QED BY <1>1, <2>1, <2>7, <2>10, <2>12
<1>6. CASE c.hdr /\ c.kind # "data"
  <2>1. Pkgetpack(k, c) = Pkcntl(k, c) BY <1>6 DEF Pkgetpack
  <2>2. c.kind \in Controls BY <1>2, <1>6 DEF Packets
  <2> QED BY <1>1, <1>2, <2>1, <2>2, PkcntlLinked
<1> QED BY <1>4, <1>5, <1>6

----------------------------------------------------------------------------
(* What is received is looked at.                                          *)

(* The fields of an end whose place y was given back.                      *)
LEMMA FreedIs ==
  ASSUME NEW n \in Packs, NEW y \in Numbers, NEW s \in Controls, NEW t, t = Freed(n, y, s)
  PROVE  /\ SameEnd(t, n) /\ t.pool = n.pool + 1
         /\ t.is = [n.is EXCEPT ![y] = "free"] /\ t.ib = [n.ib EXCEPT ![y] = Nil]
<1>1. /\ n.is \in [Numbers -> {"free", "raw", "mark", "copy"}] /\ n.ib \in [Numbers -> Buffers]
      /\ n.pool \in Nat /\ n.msg \subseteq Controls
  BY PackType
<1>2. Nil \in Buffers
  <2>1. 0 \in Numbers /\ 0 \in Payloads BY Sizes DEF Numbers, Payloads
  <2> QED BY <2>1 DEF Nil, Buffers
<1>3. PICK is2, ib2, pool2, msg2 :
        /\ is2 = [n.is EXCEPT ![y] = "free"] /\ ib2 = [n.ib EXCEPT ![y] = Nil]
        /\ pool2 = n.pool + 1 /\ msg2 = n.msg \cup {s}
  OBVIOUS
<1>4. t = [n EXCEPT !.is = is2, !.ib = ib2, !.pool = pool2, !.msg = msg2]
  <2>1. Free(n, y) = [n EXCEPT !.is = is2, !.ib = ib2, !.pool = pool2]
    BY <1>3 DEF Free, Packs
  <2>2. Free(n, y).msg = n.msg BY <2>1 DEF Packs
  <2>3. t = [Free(n, y) EXCEPT !.msg = msg2] BY <1>3, <2>2 DEF Freed
  <2> QED BY <2>1, <2>3 DEF Packs
<1>5. /\ is2 \in [Numbers -> {"free", "raw", "mark", "copy"}] /\ ib2 \in [Numbers -> Buffers]
      /\ pool2 \in Nat /\ msg2 \subseteq Controls
  BY <1>1, <1>2, <1>3
<1>6. t \in Packs
  <2>1. [n EXCEPT !.is = is2] \in Packs BY <1>5 DEF Packs
  <2>2. [[n EXCEPT !.is = is2] EXCEPT !.ib = ib2] \in Packs BY <1>5, <2>1 DEF Packs
  <2>3. [[[n EXCEPT !.is = is2] EXCEPT !.ib = ib2] EXCEPT !.pool = pool2, !.msg = msg2] \in Packs
    BY <1>5, <2>2 DEF Packs
  <2>4. t = [[[n EXCEPT !.is = is2] EXCEPT !.ib = ib2] EXCEPT !.pool = pool2, !.msg = msg2]
    BY <1>4 DEF Packs
  <2> QED BY <2>3, <2>4
<1>7. /\ t.ps = n.ps /\ t.pr = n.pr /\ t.pscopy = n.pscopy /\ t.os = n.os /\ t.ob = n.ob
      /\ t.xcount = n.xcount /\ t.rcount = n.rcount /\ t.state = n.state /\ t.out = n.out
  BY <1>4 DEF Packs
<1>8. t.is = is2 /\ t.ib = ib2 /\ t.pool = pool2 BY <1>4 DEF Packs
<1> QED BY <1>3, <1>6, <1>7, <1>8 DEF SameEnd

(* The fields of an end where the packet in place y went to that of its    *)
(* number, s.                                                              *)
LEMMA MovedIs ==
  ASSUME NEW n \in Packs, NEW y \in Numbers, NEW s \in Numbers, s # y, NEW t, t = Moved(n, y, s)
  PROVE  /\ SameEnd(t, n) /\ t.pool = n.pool
         /\ t.is[y] = n.is[s] /\ t.ib[y] = n.ib[s] /\ t.is[s] = "mark" /\ t.ib[s] = n.ib[y]
         /\ \A z \in Numbers \ {y, s} : t.is[z] = n.is[z] /\ t.ib[z] = n.ib[z]
<1>1. n.is \in [Numbers -> {"free", "raw", "mark", "copy"}] /\ n.ib \in [Numbers -> Buffers]
  BY PackType
<1>2. PICK is2, ib2 :
        /\ is2 = [n.is EXCEPT ![y] = n.is[s], ![s] = "mark"]
        /\ ib2 = [n.ib EXCEPT ![y] = n.ib[s], ![s] = n.ib[y]]
  OBVIOUS
<1>3. t = [n EXCEPT !.is = is2, !.ib = ib2] BY <1>2 DEF Moved, Packs
<1>4. is2 \in [Numbers -> {"free", "raw", "mark", "copy"}] /\ ib2 \in [Numbers -> Buffers]
  BY <1>1, <1>2
<1>5. t \in Packs BY <1>3, <1>4 DEF Packs
<1>6. /\ t.ps = n.ps /\ t.pr = n.pr /\ t.pscopy = n.pscopy /\ t.os = n.os /\ t.ob = n.ob
      /\ t.xcount = n.xcount /\ t.rcount = n.rcount /\ t.state = n.state /\ t.out = n.out
      /\ t.pool = n.pool /\ t.is = is2 /\ t.ib = ib2
  BY <1>3 DEF Packs
<1>7. /\ is2[y] = n.is[s] /\ ib2[y] = n.ib[s] /\ is2[s] = "mark" /\ ib2[s] = n.ib[y]
      /\ \A z \in Numbers \ {y, s} : is2[z] = n.is[z] /\ ib2[z] = n.ib[z]
  BY <1>1, <1>2
<1> QED BY <1>5, <1>6, <1>7 DEF SameEnd

(* What was looked at stays so.                                            *)
LEMMA LookedOn ==
  ASSUME NEW k \in Packs, Placed(k), NEW x \in 1..MOD, NEW n, Looked(k, n, x - 1)
  PROVE  Looked(k, MarkStep(k, n, x), x)
<1>1. PICK y \in Numbers : y = x - 1 BY Sizes DEF Numbers
<1>2. \A z \in Numbers : z \in Nat /\ (z >= x <=> z >= y /\ z # y) BY <1>1 DEF Numbers
<1>3. /\ n \in Packs /\ n.ps = k.ps /\ n.pr = k.pr /\ n.pscopy = k.pscopy /\ n.os = k.os
      /\ n.ob = k.ob /\ n.xcount = k.xcount /\ n.state = k.state /\ n.out = k.out
      /\ Pooled(n)
      /\ \A z \in Numbers : z >= y /\ k.is[z] = "raw" => n.is[z] = "raw" /\ n.ib[z] = k.ib[z]
      /\ \A z \in Numbers : n.is[z] = "raw" => z >= y /\ k.is[z] = "raw"
      /\ \A z \in Numbers : n.is[z] \in {"mark", "copy"} =>
           /\ 1 <= Dist(k.pr, z) /\ Dist(k.pr, z) <= WINDOWS
           /\ n.ib[z].ok /\ n.ib[z].seq = z
      /\ \A z \in Numbers : n.is[z] # "free" =>
           \E b \in Numbers : k.is[b] # "free" /\ n.ib[z] = k.ib[b]
  BY <1>1 DEF Looked
<1>4. /\ k.pr \in Numbers /\ y \in Nat
      /\ n.is \in [Numbers -> {"free", "raw", "mark", "copy"}] /\ n.ib \in [Numbers -> Buffers]
      /\ n.pool \in Nat
  BY <1>2, <1>3, PackType
<1>5. CASE k.is[y] # "raw"
  <2>1. MarkStep(k, n, x) = n BY <1>1, <1>5 DEF MarkStep
  <2>2. \A z \in Numbers : n.is[z] = "raw" => z >= x /\ k.is[z] = "raw" BY <1>2, <1>3, <1>5
  <2>3. \A z \in Numbers : z >= x /\ k.is[z] = "raw" => n.is[z] = "raw" /\ n.ib[z] = k.ib[z]
    BY <1>2, <1>3
  <2> QED BY <1>3, <2>1, <2>2, <2>3 DEF Looked
<1>6. CASE k.is[y] = "raw"
  <2> DEFINE c == n.ib[y]
             moved == [n EXCEPT !.ib[y] = n.ib[c.seq], !.is[y] = n.is[c.seq], !.ib[c.seq] = c]
  <2>1. MarkStep(k, n, x) = Mark(n, y) BY <1>1, <1>6 DEF MarkStep
  <2>2. n.is[y] = "raw" /\ c = k.ib[y] /\ c \in Buffers /\ c.seq \in Numbers /\ y >= y
    <3>1. y >= y BY <1>4
    <3>2. n.is[y] = "raw" /\ c = k.ib[y] /\ c \in Buffers BY <1>3, <1>4, <1>6, <3>1
    <3> QED BY <3>1, <3>2 DEF Buffers
  <2>3. Mark(n, y) =
          IF n.is[y] # "raw" \/ ~c.ok THEN Freed(n, y, "RJ")
          ELSE IF c.seq \notin Window(n) \/ n.is[c.seq] \in {"mark", "copy"} THEN Freed(n, y, "RR")
          ELSE IF y = c.seq THEN [n EXCEPT !.is[y] = "mark"]
          ELSE Moved(n, y, c.seq)
    BY Zenon DEF Mark, Freed, Moved
  <2>4. Window(n) = {z \in Numbers : 1 <= Dist(k.pr, z) /\ Dist(k.pr, z) <= WINDOWS}
    <3>1. WINDOWS < MOD BY Sizes
    <3>2. WINDOWS \in Nat BY Sizes
    <3>3. {Plus(k.pr, i) : i \in 1..WINDOWS} =
            {z \in Numbers : 1 <= Dist(k.pr, z) /\ Dist(k.pr, z) <= WINDOWS}
      BY <1>4, <3>1, <3>2, AheadSet
    <3>4. Window(n) = {Plus(k.pr, i) : i \in 1..WINDOWS} BY <1>3 DEF Window
    <3> QED BY <3>3, <3>4
  <2>5. \A z \in Numbers : k.is[z] = "raw" => z \notin Window(n)
    <3> TAKE z \in Numbers
    <3> HAVE k.is[z] = "raw"
    <3>1. Dist(z, k.pr) < WINDOWS BY DEF Placed
    <3>2. /\ Dist(z, k.pr) + Dist(k.pr, z) = IF z = k.pr THEN 0 ELSE MOD
          /\ Dist(z, k.pr) \in Nat /\ Dist(k.pr, z) \in Nat
      BY <1>4, DistBack, DistIs
    <3>3. ~(1 <= Dist(k.pr, z) /\ Dist(k.pr, z) <= WINDOWS) BY <3>1, <3>2, Sizes
    <3> QED BY <2>4, <3>3
  <2> HIDE DEF c
  <2>6. ASSUME NEW s \in Controls PROVE Looked(k, Freed(n, y, s), x)
    <3>1. PICK t : t = Freed(n, y, s) OBVIOUS
    <3>2. /\ SameEnd(t, n) /\ t.pool = n.pool + 1
          /\ t.is = [n.is EXCEPT ![y] = "free"] /\ t.ib = [n.ib EXCEPT ![y] = Nil]
      BY <1>3, <3>1, FreedIs
    <3>3. /\ t.is[y] = "free"
          /\ \A z \in Numbers : z # y => t.is[z] = n.is[z] /\ t.ib[z] = n.ib[z]
      BY <1>4, <3>2
    <3>4. Pooled(t)
      <4>1. Taken(t) = Taken(n) \ {y} /\ y \in Taken(n) BY <2>2, <3>3 DEF Taken
      <4>2. Cardinality(Taken(t)) = Cardinality(Taken(n)) - 1 /\ Cardinality(Taken(n)) \in Nat
        BY <4>1, TakenFinite, FS_RemoveElement
      <4> QED BY <1>3, <1>4, <3>2, <4>2, Sizes DEF Pooled
    <3>5. \A z \in Numbers : z >= x /\ k.is[z] = "raw" => t.is[z] = "raw" /\ t.ib[z] = k.ib[z]
      BY <1>2, <1>3, <3>3
    <3>6. \A z \in Numbers : t.is[z] = "raw" => z >= x /\ k.is[z] = "raw"
      BY <1>2, <1>3, <3>3
    <3>7. /\ \A z \in Numbers : t.is[z] \in {"mark", "copy"} =>
               /\ 1 <= Dist(k.pr, z) /\ Dist(k.pr, z) <= WINDOWS
               /\ t.ib[z].ok /\ t.ib[z].seq = z
          /\ \A z \in Numbers : t.is[z] # "free" =>
               \E b \in Numbers : k.is[b] # "free" /\ t.ib[z] = k.ib[b]
      BY <1>3, <3>3
    <3> QED BY <1>3, <3>1, <3>2, <3>4, <3>5, <3>6, <3>7 DEF Looked, SameEnd
  <2>7. ASSUME c.ok, c.seq \in Window(n), n.is[c.seq] \notin {"mark", "copy"}
        PROVE  Looked(k, Moved(n, y, c.seq), x)
    <3>1. PICK s \in Numbers : s = c.seq BY <2>2
    <3>2. n.is[s] = "free" /\ s # y
      <4>1. n.is[s] # "raw" BY <1>3, <2>5, <2>7, <3>1
      <4> QED BY <1>4, <2>2, <2>7, <3>1, <4>1
    <3>3. PICK t : t = Moved(n, y, s) OBVIOUS
    <3>4. /\ SameEnd(t, n) /\ t.pool = n.pool
          /\ t.is[y] = "free" /\ t.is[s] = "mark" /\ t.ib[s] = c
          /\ \A z \in Numbers \ {y, s} : t.is[z] = n.is[z] /\ t.ib[z] = n.ib[z]
      BY <1>3, <3>2, <3>3, MovedIs DEF c
    <3>5. Pooled(t)
      <4>1. Taken(t) = (Taken(n) \ {y}) \cup {s} /\ y \in Taken(n) /\ s \notin Taken(n) \ {y}
        BY <2>2, <3>2, <3>4 DEF Taken
      <4>2. /\ IsFiniteSet(Taken(n) \ {y}) /\ Cardinality(Taken(n)) \in Nat
            /\ Cardinality(Taken(n) \ {y}) = Cardinality(Taken(n)) - 1
        BY <4>1, TakenFinite, FS_RemoveElement
      <4>3. Cardinality(Taken(t)) = Cardinality(Taken(n) \ {y}) + 1
        BY <4>1, <4>2, FS_AddElement
      <4> QED BY <1>3, <1>4, <3>4, <4>2, <4>3, Sizes DEF Pooled
    <3>6. k.is[s] # "raw" /\ 1 <= Dist(k.pr, s) /\ Dist(k.pr, s) <= WINDOWS
      BY <2>4, <2>5, <2>7, <3>1
    <3>7. \A z \in Numbers : z >= x /\ k.is[z] = "raw" => t.is[z] = "raw" /\ t.ib[z] = k.ib[z]
      BY <1>2, <1>3, <3>4, <3>6
    <3>8. \A z \in Numbers : t.is[z] = "raw" => z >= x /\ k.is[z] = "raw"
      BY <1>2, <1>3, <3>4
    <3>9. \A z \in Numbers : t.is[z] \in {"mark", "copy"} =>
            /\ 1 <= Dist(k.pr, z) /\ Dist(k.pr, z) <= WINDOWS
            /\ t.ib[z].ok /\ t.ib[z].seq = z
      BY <1>3, <2>7, <3>1, <3>4, <3>6
    <3>10. \A z \in Numbers : t.is[z] # "free" =>
             \E b \in Numbers : k.is[b] # "free" /\ t.ib[z] = k.ib[b]
      BY <1>3, <1>6, <2>2, <3>4
    <3>11. Looked(k, t, x) BY <1>3, <3>4, <3>5, <3>7, <3>8, <3>9, <3>10 DEF Looked, SameEnd
    <3> QED BY <3>1, <3>3, <3>11
  <2>8. y # c.seq \/ c.seq \notin Window(n) BY <1>6, <2>5
  <2>9. "RJ" \in Controls /\ "RR" \in Controls BY DEF Controls
  <2>10. CASE ~c.ok BY <2>1, <2>3, <2>6, <2>9, <2>10
  <2>11. CASE c.ok /\ (c.seq \notin Window(n) \/ n.is[c.seq] \in {"mark", "copy"})
    <3>1. Mark(n, y) = Freed(n, y, "RR") BY <2>2, <2>3, <2>11
    <3> QED BY <2>1, <2>6, <2>9, <3>1
  <2>12. CASE c.ok /\ c.seq \in Window(n) /\ n.is[c.seq] \notin {"mark", "copy"}
    <3>1. Mark(n, y) = Moved(n, y, c.seq) BY <2>2, <2>3, <2>8, <2>12
    <3> QED BY <2>1, <2>7, <2>12, <3>1
  <2> QED BY <2>10, <2>11, <2>12
<1> QED BY <1>5, <1>6

(* The loop has a first step, and then one for each place.                 *)
LEMMA MarkLoopIs ==
  ASSUME NEW k
  PROVE  LET f == CHOOSE a : MarkLoop(a, k)
         IN  /\ Marked(k) = f[MOD] /\ f[0] = k
             /\ \A x \in 1..MOD : f[x] = MarkStep(k, f[x - 1], x)
<1> DEFINE f == CHOOSE a : MarkLoop(a, k)
           Up(a, n) == a = [x \in 0..n |-> IF x = 0 THEN k ELSE MarkStep(k, a[x - 1], x)]
           T == {n \in 0..MOD : \A a : ~Up(a, n)}
<1>1. MOD \in Nat BY Sizes
<1>2. Marked(k) = f[MOD] BY Zenon DEF Marked, MarkLoop, MarkStep
<1>3. \E a : MarkLoop(a, k)
  <2> SUFFICES ASSUME \A a : ~MarkLoop(a, k) PROVE FALSE OBVIOUS
  <2>1. MOD \in T
    <3>1. \A a : ~Up(a, MOD) BY Zenon DEF MarkLoop
    <3> HIDE DEF Up
    <3> QED BY <1>1, <3>1
  <2>2. PICK n \in T : \A i \in T : n <= i
    <3>1. T \subseteq Nat OBVIOUS
    <3> HIDE DEF T
    <3> QED BY <2>1, <3>1, Least
  <2>3. CASE n = 0
    <3> DEFINE a == [x \in 0..0 |-> k]
    <3>1. \A x \in 0..0 : x = 0 OBVIOUS
    <3>2. a = [x \in 0..0 |-> IF x = 0 THEN k ELSE MarkStep(k, a[x - 1], x)]
      BY <3>1
    <3>3. Up(a, 0) BY <3>2, Zenon
    <3> HIDE DEF Up
    <3> QED BY <2>2, <2>3, <3>3
  <2>4. CASE n # 0
    <3>1. n \in 0..MOD /\ n - 1 \in 0..MOD /\ ~(n <= n - 1) /\ n \in Nat BY <1>1, <2>2, <2>4
    <3>2. PICK b : Up(b, n - 1)
      <4>1. n - 1 \notin T BY <2>2, <3>1
      <4> HIDE DEF Up
      <4> QED BY <3>1, <4>1
    <3> DEFINE a == [x \in 0..n |-> IF x = n THEN MarkStep(k, b[n - 1], n) ELSE b[x]]
    <3>3. \A x \in 0..(n - 1) : b[x] = IF x = 0 THEN k ELSE MarkStep(k, b[x - 1], x)
      BY <3>2, Zenon
    <3>4. \A x \in 0..n : a[x] = IF x = n THEN MarkStep(k, b[n - 1], n) ELSE b[x] OBVIOUS
    <3> HIDE DEF a
    <3>5. \A x \in 0..n : a[x] = IF x = 0 THEN k ELSE MarkStep(k, a[x - 1], x)
      <4> TAKE x \in 0..n
      <4>1. CASE x = 0
        <5>1. 0 \in 0..(n - 1) /\ 0 # n BY <2>4, <3>1
        <5> QED BY <3>3, <3>4, <4>1, <5>1
      <4>2. CASE x # 0 /\ x = n
        <5>1. n - 1 \in 0..n /\ n - 1 # n BY <3>1, <4>2
        <5>2. a[n - 1] = b[n - 1] BY <3>4, <5>1
        <5> QED BY <3>4, <4>2, <5>2
      <4>3. CASE x # 0 /\ x # n
        <5>1. x \in 0..(n - 1) /\ x - 1 \in 0..n /\ x - 1 # n BY <3>1, <4>3
        <5>2. a[x] = b[x] /\ a[x - 1] = b[x - 1] BY <3>4, <4>3, <5>1
        <5> QED BY <3>3, <4>3, <5>1, <5>2
      <4> QED BY <4>1, <4>2, <4>3
    <3>6. a = [x \in 0..n |-> a[x]] BY DEF a
    <3>7. Up(a, n) BY <3>5, <3>6, Zenon
    <3> HIDE DEF Up
    <3> QED BY <2>2, <3>7
  <2> QED BY <2>3, <2>4
<1>4. MarkLoop(f, k) BY <1>3, Zenon
<1> HIDE DEF f
<1>5. f = [x \in 0..MOD |-> IF x = 0 THEN k ELSE MarkStep(k, f[x - 1], x)]
  BY <1>4, Zenon DEF MarkLoop
<1>6. \A x \in 0..MOD : f[x] = IF x = 0 THEN k ELSE MarkStep(k, f[x - 1], x) BY <1>5, Zenon
<1>7. 0 \in 0..MOD /\ \A x \in 1..MOD : x \in 0..MOD /\ x # 0 BY <1>1
<1>8. f[0] = k BY <1>6, <1>7
<1>9. \A x \in 1..MOD : f[x] = MarkStep(k, f[x - 1], x) BY <1>6, <1>7
<1> QED BY <1>2, <1>8, <1>9 DEF f

(* After the loop, no place is left to be looked at.                       *)
LEMMA MarkedIs ==
  ASSUME NEW k \in Packs, Placed(k), Pooled(k)
  PROVE  Looked(k, Marked(k), MOD)
<1> DEFINE f == CHOOSE a : MarkLoop(a, k)
           T == {x \in 0..MOD : ~Looked(k, f[x], x)}
<1>1. /\ Marked(k) = f[MOD] /\ f[0] = k
      /\ \A x \in 1..MOD : f[x] = MarkStep(k, f[x - 1], x)
  BY MarkLoopIs, Zenon
<1>2. MOD \in Nat /\ WINDOWS \in Nat BY Sizes
<1> HIDE DEF f
<1>3. Looked(k, f[0], 0)
  <2>1. \A y \in Numbers : y >= 0 BY DEF Numbers
  <2>2. k.is \in [Numbers -> {"free", "raw", "mark", "copy"}] /\ k.pr \in Numbers /\ k.rcount \in Nat
    BY PackType
  <2>3. \A y \in Numbers : Dist(k.pr, y) \in Nat BY <2>2, DistIs
  <2>4. k.rcount <= WINDOWS /\ \A y \in Numbers : k.is[y] # "mark" BY DEF Placed
  <2>5. \A y \in Numbers : k.is[y] \in {"mark", "copy"} =>
          /\ 1 <= Dist(k.pr, y) /\ Dist(k.pr, y) <= WINDOWS
          /\ k.ib[y].ok /\ k.ib[y].seq = y
    <3> TAKE y \in Numbers
    <3> HAVE k.is[y] \in {"mark", "copy"}
    <3>1. k.is[y] = "copy" BY <2>4
    <3>2. 1 <= Dist(k.pr, y) /\ Dist(k.pr, y) <= k.rcount /\ k.ib[y].ok /\ k.ib[y].seq = y
      BY <3>1 DEF Placed
    <3> QED BY <1>2, <2>2, <2>3, <2>4, <3>2
  <2> QED BY <1>1, <2>1, <2>5 DEF Looked
<1>4. T = {}
  <2> SUFFICES ASSUME T # {} PROVE FALSE OBVIOUS
  <2>1. PICK x \in T : \A i \in T : x <= i
    <3>1. T \subseteq Nat OBVIOUS
    <3> HIDE DEF T
    <3> QED BY <3>1, Least
  <2>2. x \in 0..MOD /\ x # 0 BY <1>3, <2>1
  <2>3. x \in 1..MOD /\ x - 1 \in 0..MOD /\ ~(x <= x - 1) BY <1>2, <2>2
  <2>4. Looked(k, f[x - 1], x - 1) BY <2>1, <2>3
  <2>5. Looked(k, MarkStep(k, f[x - 1], x), x) BY <2>3, <2>4, LookedOn
  <2> QED BY <1>1, <2>1, <2>3, <2>5
<1>5. MOD \in 0..MOD BY <1>2
<1> QED BY <1>1, <1>4, <1>5

(* The places up to the first hole.                                        *)
LEMMA UpToIs ==
  ASSUME NEW there, there \subseteq 1..WINDOWS
  PROVE  \E r \in 0..WINDOWS : {i \in there : 1..i \subseteq there} = 1..r
<1> DEFINE T == {i \in 1..(WINDOWS + 1) : i \notin there}
<1>1. WINDOWS \in Nat BY Sizes
<1>2. WINDOWS + 1 \in T BY <1>1
<1>3. PICK i \in T : \A j \in T : i <= j
  <2>1. T \subseteq Nat OBVIOUS
  <2> HIDE DEF T
  <2> QED BY <1>2, <2>1, Least
<1>4. i \in 1..(WINDOWS + 1) /\ i \notin there BY <1>3
<1>5. \A j \in 1..(i - 1) : j \in there
  <2> TAKE j \in 1..(i - 1)
  <2>1. j \in 1..(WINDOWS + 1) /\ ~(i <= j) BY <1>1, <1>4
  <2> QED BY <1>3, <2>1
<1>6. \A j \in there : 1..j \subseteq there <=> j \in 1..(i - 1)
  <2> TAKE j \in there
  <2>1. j \in 1..WINDOWS OBVIOUS
  <2>2. j \in 1..(i - 1) => 1..j \subseteq there
    <3> HAVE j \in 1..(i - 1)
    <3> SUFFICES ASSUME NEW n \in 1..j PROVE n \in there OBVIOUS
    <3>1. n \in 1..(i - 1) BY <1>4, <2>1
    <3> QED BY <1>5, <3>1
  <2>3. j \notin 1..(i - 1) => ~(1..j \subseteq there)
    <3> HAVE j \notin 1..(i - 1)
    <3>1. i \in 1..j BY <1>4, <2>1
    <3> QED BY <1>4, <3>1
  <2> QED BY <2>2, <2>3
<1>7. {j \in there : 1..j \subseteq there} = 1..(i - 1) BY <1>5, <1>6
<1>8. i - 1 \in 0..WINDOWS BY <1>1, <1>4
<1> QED BY <1>7, <1>8

(* pkaccept.                                                               *)
LEMMA PkacceptIs ==
  ASSUME NEW k \in Packs, Placed(k), Pooled(k), NEW t, t = Pkaccept(k)
  PROVE  /\ t \in Packs /\ t.ps = k.ps /\ t.pr = k.pr /\ t.pscopy = k.pscopy /\ t.os = k.os
         /\ t.ob = k.ob /\ t.xcount = k.xcount /\ t.state = k.state /\ t.out = k.out
         /\ Pooled(t) /\ Placed(t) /\ Settled(t)
         /\ \A y \in Numbers : t.is[y] # "free" =>
              \E z \in Numbers : k.is[z] # "free" /\ t.ib[y] = k.ib[z]
<1> DEFINE n == Marked(k)
           there == {i \in 1..WINDOWS : n.is[Plus(n.pr, i)] \in {"mark", "copy"}}
           upto == {i \in there : 1..i \subseteq there}
           away == {Plus(n.pr, i) : i \in there \ upto}
           take == {Plus(n.pr, i) : i \in upto}
           is2 == [x \in Numbers |-> IF x \in take THEN "copy" ELSE IF x \in away THEN "free" ELSE n.is[x]]
           ib2 == [x \in Numbers |-> IF x \in away THEN Nil ELSE n.ib[x]]
           pool2 == n.pool + Cardinality(away)
           rcount2 == Cardinality(take)
           msg2 == IF away = {} THEN n.msg ELSE n.msg \cup {"RR"}
<1>1. t = [n EXCEPT !.is = is2, !.ib = ib2, !.pool = @ + Cardinality(away),
                    !.rcount = Cardinality(take), !.msg = IF away = {} THEN @ ELSE @ \cup {"RR"}]
  BY Zenon DEF Pkaccept
<1>2. t = [n EXCEPT !.is = is2, !.ib = ib2, !.pool = pool2, !.rcount = rcount2, !.msg = msg2]
  BY <1>1, Zenon
<1>3. Looked(k, n, MOD) BY MarkedIs
<1> HIDE DEF n
<1>4. /\ n \in Packs /\ n.ps = k.ps /\ n.pr = k.pr /\ n.pscopy = k.pscopy /\ n.os = k.os
      /\ n.ob = k.ob /\ n.xcount = k.xcount /\ n.state = k.state /\ n.out = k.out
      /\ Pooled(n)
      /\ \A z \in Numbers : n.is[z] \in {"mark", "copy"} =>
           /\ 1 <= Dist(n.pr, z) /\ Dist(n.pr, z) <= WINDOWS
           /\ n.ib[z].ok /\ n.ib[z].seq = z
      /\ \A z \in Numbers : n.is[z] # "free" =>
           \E b \in Numbers : k.is[b] # "free" /\ n.ib[z] = k.ib[b]
  BY <1>3 DEF Looked
<1>5. \A z \in Numbers : n.is[z] # "raw"
  <2>1. \A z \in Numbers : ~(z >= MOD) BY Sizes DEF Numbers
  <2> QED BY <1>3, <2>1 DEF Looked
<1>6. /\ n.is \in [Numbers -> {"free", "raw", "mark", "copy"}] /\ n.ib \in [Numbers -> Buffers]
      /\ n.pool \in Nat /\ n.msg \subseteq Controls /\ n.pr \in Numbers
  BY <1>4, PackType
<1>7. WINDOWS \in Nat /\ WINDOWS < MOD /\ MOD \in Nat BY Sizes
<1>8. \A i \in 1..WINDOWS : Plus(n.pr, i) \in Numbers /\ Dist(n.pr, Plus(n.pr, i)) = i
  <2> TAKE i \in 1..WINDOWS
  <2>1. i \in Numbers BY <1>7 DEF Numbers
  <2> QED BY <1>6, <2>1, DistPlus
<1>9. \A z \in Numbers : Dist(n.pr, z) \in Nat /\ Plus(n.pr, Dist(n.pr, z)) = z
  BY <1>6, DistIs, PlusDist
<1>10. \A z \in Numbers : n.is[z] # "free" => Dist(n.pr, z) \in there
  <2> TAKE z \in Numbers
  <2> HAVE n.is[z] # "free"
  <2>1. n.is[z] \in {"mark", "copy"} BY <1>5, <1>6
  <2>2. Dist(n.pr, z) \in 1..WINDOWS BY <1>4, <1>7, <1>9, <2>1
  <2> QED BY <1>9, <2>1, <2>2
<1>11. there \subseteq 1..WINDOWS /\ upto \subseteq there
       /\ \A i \in there : n.is[Plus(n.pr, i)] # "free"
  OBVIOUS
<1>12. PICK r \in 0..WINDOWS : upto = 1..r BY <1>11, UpToIs
<1> HIDE DEF there, upto
<1>13. \A z \in Numbers : z \in take <=> Dist(n.pr, z) \in upto
  <2> TAKE z \in Numbers
  <2>1. z \in take => Dist(n.pr, z) \in upto BY <1>8, <1>11
  <2>2. Dist(n.pr, z) \in upto => z \in take BY <1>9
  <2> QED BY <2>1, <2>2
<1>14. \A z \in Numbers : z \in away <=> Dist(n.pr, z) \in there \ upto
  <2> TAKE z \in Numbers
  <2>1. z \in away => Dist(n.pr, z) \in there \ upto BY <1>8, <1>11
  <2>2. Dist(n.pr, z) \in there \ upto => z \in away BY <1>9
  <2> QED BY <2>1, <2>2
<1>15. take \subseteq Numbers /\ away \subseteq Numbers BY <1>8, <1>11
<1> HIDE DEF take, away
<1>16. take = {z \in Numbers : 1 <= Dist(n.pr, z) /\ Dist(n.pr, z) <= r}
  BY <1>7, <1>9, <1>12, <1>13, <1>15
<1>17. Cardinality(take) = r
  <2>1. r \in Nat /\ r < MOD /\ 1 \in Nat BY <1>7, <1>12
  <2> DEFINE S == {z \in Numbers : 1 <= Dist(n.pr, z) /\ Dist(n.pr, z) <= r}
  <2>2. Cardinality(S) = IF 1 > r THEN 0 ELSE r - 1 + 1
    BY <1>6, <2>1, AheadCount, Zenon
  <2> QED BY <1>16, <2>1, <2>2
<1>18. Taken(n) = take \cup away /\ take \cap away = {}
  <2>1. \A z \in Numbers : n.is[z] # "free" <=> z \in take \/ z \in away
    <3> TAKE z \in Numbers
    <3>1. n.is[z] # "free" => z \in take \/ z \in away BY <1>10, <1>13, <1>14
    <3>2. z \in take \/ z \in away => Dist(n.pr, z) \in there BY <1>11, <1>13, <1>14
    <3>3. Dist(n.pr, z) \in there => n.is[z] # "free" BY <1>9, <1>11
    <3> QED BY <3>1, <3>2, <3>3
  <2> QED BY <1>13, <1>14, <1>15, <2>1 DEF Taken
<1>19. /\ Cardinality(Taken(n)) = Cardinality(take) + Cardinality(away)
       /\ Cardinality(away) \in Nat
  <2>1. IsFiniteSet(Numbers) BY TakenFinite
  <2>2. IsFiniteSet(take) /\ IsFiniteSet(away) BY <1>15, <2>1, FS_Subset
  <2>3. Cardinality(take) \in Nat /\ Cardinality(away) \in Nat BY <2>2, FS_CardinalityType
  <2>4. Cardinality(take \cup away) = Cardinality(take) + Cardinality(away) - Cardinality(take \cap away)
    BY <2>2, FS_Union
  <2>5. Cardinality({}) = 0 BY FS_EmptySet
  <2>6. Cardinality(take \cap away) = 0 BY <1>18, <2>5
  <2>7. Cardinality(Taken(n)) = Cardinality(take \cup away) BY <1>18
  <2>8. Cardinality(take \cup away) = Cardinality(take) + Cardinality(away) BY <2>3, <2>4, <2>6
  <2> QED BY <2>3, <2>7, <2>8
<1>20. /\ is2 \in [Numbers -> {"free", "raw", "mark", "copy"}] /\ ib2 \in [Numbers -> Buffers]
       /\ pool2 \in Nat /\ rcount2 \in Nat /\ msg2 \subseteq Controls
  <2>1. Nil \in Buffers
    <3>1. 0 \in Numbers /\ 0 \in Payloads BY Sizes DEF Numbers, Payloads
    <3> QED BY <3>1 DEF Nil, Buffers
  <2>2. "RR" \in Controls BY DEF Controls
  <2> QED BY <1>6, <1>12, <1>17, <1>19, <2>1, <2>2
<1>21. \A z \in Numbers : /\ is2[z] = IF z \in take THEN "copy" ELSE "free"
                          /\ z \in take => ib2[z] = n.ib[z] /\ n.is[z] \in {"mark", "copy"}
  <2> TAKE z \in Numbers
  <2>1. CASE z \in take
    <3>1. z \notin away /\ n.is[z] # "free" BY <1>18, <2>1 DEF Taken
    <3> QED BY <1>5, <1>6, <2>1, <3>1
  <2>2. CASE z \notin take /\ z \in away BY <2>2
  <2>3. CASE z \notin take /\ z \notin away
    <3>1. n.is[z] = "free" BY <1>18, <2>3 DEF Taken
    <3> QED BY <2>3, <3>1
  <2> QED BY <2>1, <2>2, <2>3
<1> HIDE DEF is2, ib2, msg2
<1>22. /\ t \in Packs /\ t.is = is2 /\ t.ib = ib2 /\ t.pool = pool2 /\ t.rcount = r
       /\ t.ps = n.ps /\ t.pr = n.pr /\ t.pscopy = n.pscopy /\ t.os = n.os /\ t.ob = n.ob
       /\ t.xcount = n.xcount /\ t.state = n.state /\ t.out = n.out
  <2>1. rcount2 = r BY <1>17
  <2> HIDE DEF pool2, rcount2
  <2>2. [n EXCEPT !.is = is2, !.ib = ib2] \in Packs BY <1>4, <1>20 DEF Packs
  <2>3. [[n EXCEPT !.is = is2, !.ib = ib2] EXCEPT !.pool = pool2, !.rcount = rcount2, !.msg = msg2] \in Packs
    BY <1>20, <2>2 DEF Packs
  <2>4. t = [[n EXCEPT !.is = is2, !.ib = ib2] EXCEPT !.pool = pool2, !.rcount = rcount2, !.msg = msg2]
    BY <1>2, <1>4 DEF Packs
  <2>5. t.is = is2 /\ t.ib = ib2 /\ t.pool = pool2 /\ t.rcount = rcount2 BY <1>2, <1>4 DEF Packs
  <2>6. /\ t.ps = n.ps /\ t.pr = n.pr /\ t.pscopy = n.pscopy /\ t.os = n.os /\ t.ob = n.ob
        /\ t.xcount = n.xcount /\ t.state = n.state /\ t.out = n.out
    BY <1>2, <1>4 DEF Packs
  <2> QED BY <2>1, <2>3, <2>4, <2>5, <2>6
<1>23. Taken(t) = take BY <1>15, <1>21, <1>22 DEF Taken
<1>24. Pooled(t) BY <1>4, <1>6, <1>7, <1>12, <1>17, <1>19, <1>22, <1>23 DEF Pooled
<1>25. Settled(t) BY <1>21, <1>22 DEF Settled
<1>26. Placed(t)
  <2>1. \A x \in Numbers : t.is[x] = "copy" <=> x \in take BY <1>21, <1>22
  <2>2. \A x \in Numbers : t.is[x] = "copy" <=> 1 <= Dist(t.pr, x) /\ Dist(t.pr, x) <= t.rcount
    BY <1>16, <1>22, <2>1
  <2>3. \A x \in Numbers : t.is[x] = "copy" => t.ib[x].ok /\ t.ib[x].seq = x
    BY <1>4, <1>21, <1>22, <2>1
  <2>4. t.rcount <= WINDOWS BY <1>12, <1>22
  <2>5. \A x \in Numbers : t.is[x] # "raw" /\ t.is[x] # "mark" BY <1>25 DEF Settled
  <2> QED BY <2>2, <2>3, <2>4, <2>5 DEF Placed
<1>27. \A y \in Numbers : t.is[y] # "free" =>
         \E z \in Numbers : k.is[z] # "free" /\ t.ib[y] = k.ib[z]
  <2> TAKE y \in Numbers
  <2> HAVE t.is[y] # "free"
  <2>1. y \in take BY <1>21, <1>22
  <2>2. t.ib[y] = n.ib[y] /\ n.is[y] # "free" BY <1>21, <1>22, <2>1
  <2> QED BY <1>4, <2>2
<1> QED BY <1>4, <1>22, <1>24, <1>25, <1>26, <1>27

(* pkaccept keeps the ends linked.                                         *)
LEMMA PkacceptLinked ==
  ASSUME NEW k, NEW m, NEW L, NEW A, NEW w, NEW g, NEW v, NEW h,
         Linked(k, m, L, A, w, g, v, h), NEW t, t = Pkaccept(k)
  PROVE  Linked(t, m, L, A, w, g, v, h) /\ Settled(t) /\ Still(t, k)
<1>1. /\ k \in Packs /\ Sound(k) /\ Placed(k) /\ Pooled(k)
      /\ Chan(k, m, L \o k.out, A, w, g) /\ Chan(m, k, A, L \o k.out, v, h)
  BY DEF Linked, Sound
<1>2. /\ t \in Packs /\ t.ps = k.ps /\ t.pr = k.pr /\ t.pscopy = k.pscopy /\ t.os = k.os
      /\ t.ob = k.ob /\ t.xcount = k.xcount /\ t.state = k.state /\ t.out = k.out
      /\ Pooled(t) /\ Placed(t) /\ Settled(t)
      /\ \A y \in Numbers : t.is[y] # "free" =>
           \E z \in Numbers : k.is[z] # "free" /\ t.ib[y] = k.ib[z]
  BY <1>1, PkacceptIs
<1>3. \A y : Back(t, y) = Back(k, y) BY <1>2 DEF Back
<1>4. Sending(t) BY <1>1, <1>2, <1>3 DEF Sound, Sending
<1>5. Unopened(t) BY <1>1, <1>2 DEF Sound, Unopened
<1>6. Sound(t) BY <1>2, <1>4, <1>5 DEF Sound
<1> DEFINE D == L \o k.out
<1>7. /\ Writes(k, m, w, g) /\ Acked(k, m, A) /\ Sent(k, m, w, D) /\ Held(k, m, w, D)
      /\ Acked(m, k, D) /\ Sent(m, k, v, A) /\ Held(m, k, v, A) /\ Writes(m, k, v, h)
  BY <1>1 DEF Chan
<1> HIDE DEF D
<1>8. Chan(t, m, D, A, w, g)
  <2>1. Writes(t, m, w, g) BY <1>2, <1>3, <1>7 DEF Writes
  <2>2. Acked(t, m, A) BY <1>2, <1>3, <1>7 DEF Acked
  <2>3. \A d : Was(t, m, w, d) <=> Was(k, m, w, d) BY <1>2, <1>3 DEF Was
  <2>4. Sent(t, m, w, D) BY <1>3, <1>7, <2>3 DEF Sent
  <2>5. Held(t, m, w, D) BY <1>3, <1>7, <2>3 DEF Held
  <2> QED BY <2>1, <2>2, <2>4, <2>5 DEF Chan
<1>9. Chan(m, t, A, D, v, h)
  <2>1. Writes(m, t, v, h) BY <1>2, <1>7 DEF Writes
  <2>2. Acked(m, t, D) BY <1>2, <1>7 DEF Acked
  <2>3. \A d : Was(m, t, v, d) <=> Was(m, k, v, d) BY <1>2 DEF Was
  <2>4. Sent(m, t, v, A) BY <1>7, <2>3 DEF Sent
  <2>5. Held(m, t, v, A) BY <1>2, <1>7, <2>3 DEF Held
  <2> QED BY <2>1, <2>2, <2>4, <2>5 DEF Chan
<1>10. Linked(t, m, L, A, w, g, v, h)
  <2>1. L \o t.out = D BY <1>2 DEF D
  <2> QED BY <1>6, <1>8, <1>9, <2>1 DEF Linked
<1>11. Still(t, k)
  <2>1. k.xcount \in Nat BY <1>1, PackType
  <2> QED BY <1>2, <2>1 DEF Still
<1> QED BY <1>2, <1>10, <1>11

----------------------------------------------------------------------------
(* A packet is read, and one is written.                                   *)

(* The fields of an end that has read the next packet.                     *)
LEMMA TakingIs ==
  ASSUME NEW k \in Packs, k.rcount > 0, NEW x \in Numbers, x = Nxt(k.pr), NEW t, t = Taking(k)
  PROVE  /\ t \in Packs /\ t.ps = k.ps /\ t.pr = x /\ t.pscopy = k.pscopy /\ t.os = k.os
         /\ t.ob = k.ob /\ t.xcount = k.xcount /\ t.state = k.state /\ t.out = k.out
         /\ t.rcount = k.rcount - 1 /\ t.pool = k.pool + 1
         /\ t.is[x] = "free"
         /\ \A z \in Numbers : z # x => t.is[z] = k.is[z] /\ t.ib[z] = k.ib[z]
<1>1. PICK u : u = Freed(k, x, "RR") OBVIOUS
<1>2. "RR" \in Controls BY DEF Controls
<1>3. /\ SameEnd(u, k) /\ u.pool = k.pool + 1
      /\ u.is = [k.is EXCEPT ![x] = "free"] /\ u.ib = [k.ib EXCEPT ![x] = Nil]
  BY <1>1, <1>2, FreedIs
<1>4. PICK r : r = k.rcount - 1 OBVIOUS
<1>5. k.rcount \in Nat /\ r \in Nat BY <1>4, PackType
<1>6. t = [u EXCEPT !.pr = x, !.rcount = r]
  <2>1. PICK f : f = Free(k, x) OBVIOUS
  <2>2. f = [k EXCEPT !.is[x] = "free", !.ib[x] = Nil, !.pool = @ + 1] BY <2>1 DEF Free
  <2>3. f.rcount = k.rcount /\ f = [y \in DOMAIN f |-> f[y]] /\ DOMAIN f = DOMAIN k BY <2>2 DEF Packs
  <2>4. t = [f EXCEPT !.pr = x, !.rcount = r, !.msg = @ \cup {"RR"}]
    BY <1>4, <2>1, <2>3 DEF Taking
  <2>5. u = [f EXCEPT !.msg = @ \cup {"RR"}] BY <1>1, <2>1 DEF Freed
  <2> QED BY <2>2, <2>4, <2>5 DEF Packs
<1>7. t \in Packs BY <1>3, <1>5, <1>6 DEF Packs, SameEnd
<1>8. /\ t.ps = u.ps /\ t.pr = x /\ t.pscopy = u.pscopy /\ t.os = u.os /\ t.ob = u.ob
      /\ t.xcount = u.xcount /\ t.state = u.state /\ t.out = u.out
      /\ t.rcount = r /\ t.pool = u.pool /\ t.is = u.is /\ t.ib = u.ib
  BY <1>3, <1>6 DEF Packs, SameEnd
<1>9. k.is \in [Numbers -> {"free", "raw", "mark", "copy"}] /\ k.ib \in [Numbers -> Buffers]
  BY PackType
<1> QED BY <1>3, <1>4, <1>7, <1>8, <1>9 DEF SameEnd

(* The packet that is read is the one the peer wrote after the last one    *)
(* read, and the ends stay linked.                                         *)
LEMMA TakingLinked ==
  ASSUME NEW k, NEW m, NEW L, NEW A, NEW w, NEW g, NEW v, NEW h,
         Linked(k, m, L, A, w, g, v, h), Settled(k), k.rcount > 0,
         NEW b, b = k.ib[Nxt(k.pr)].data
  PROVE  /\ Linked(Taking(k), m, L, A, w, g, v, b)
         /\ Taking(k) \in Packs /\ Taking(k).state = k.state /\ "LIVE" \in k.state
         /\ b = (h + 1) % PAYLOADS /\ h # v
<1>1. /\ k \in Packs /\ m \in Packs /\ Sound(k) /\ v \in Payloads
      /\ Chan(k, m, L \o k.out, A, w, g) /\ Chan(m, k, A, L \o k.out, v, h)
      /\ A \in Seq(Packets)
  BY DEF Linked, Sound
<1> DEFINE D == L \o k.out
<1>2. /\ Writes(k, m, w, g) /\ Acked(k, m, A) /\ Sent(k, m, w, D) /\ Held(k, m, w, D)
      /\ Acked(m, k, D) /\ Sent(m, k, v, A) /\ Held(m, k, v, A) /\ Writes(m, k, v, h)
  BY <1>1 DEF Chan
<1> HIDE DEF D
<1>3. /\ k.pr \in Numbers /\ k.rcount \in Nat /\ k.pool \in Nat /\ m.xcount \in Nat
      /\ m.pscopy \in Numbers /\ \A y \in Numbers : k.ib[y] \in Buffers
      /\ m.os \in [Numbers -> {"null", "ready", "sent"}]
  BY <1>1, PackType
<1>4. PICK x \in Numbers : x = Nxt(k.pr) BY <1>3, NxtIs
<1>5. PICK t : t = Taking(k) OBVIOUS
<1>6. /\ t \in Packs /\ t.ps = k.ps /\ t.pr = x /\ t.pscopy = k.pscopy /\ t.os = k.os
      /\ t.ob = k.ob /\ t.xcount = k.xcount /\ t.state = k.state /\ t.out = k.out
      /\ t.rcount = k.rcount - 1 /\ t.pool = k.pool + 1
      /\ t.is[x] = "free"
      /\ \A z \in Numbers : z # x => t.is[z] = k.is[z] /\ t.ib[z] = k.ib[z]
  BY <1>1, <1>4, <1>5, TakingIs
<1>7. MOD \in Nat /\ WINDOWS \in Nat /\ WINDOWS >= 1 /\ WINDOWS + WINDOWS <= MOD BY Sizes
<1>8. Dist(k.pr, x) = 1
  <2>1. Dist(k.pr, k.pr) = 0 BY <1>3, DistZero
  <2> QED BY <1>3, <1>4, <1>7, <2>1, DistNxt
<1>9. /\ k.is[x] = "copy" /\ k.ib[x].ok /\ k.ib[x].seq = x
      /\ k.rcount <= WINDOWS
  BY <1>1, <1>3, <1>8 DEF Sound, Placed
<1>10. \A y \in Numbers : Back(m, y) \in Nat /\ Back(m, y) < MOD BY <1>1, BackIs
<1>11. PICK a \in Nat : a = Back(m, k.pr) /\ a < MOD /\ a <= m.xcount /\ h = Con(v, a)
  BY <1>2, <1>3, <1>10 DEF Writes
<1>12. ASSUME NEW y \in Numbers, k.is[y] = "copy"
       PROVE  Back(m, y) + Dist(k.pr, y) = a
  <2>1. k.ib[y].seq = y /\ Was(m, k, v, k.ib[y]) BY <1>1, <1>2, <1>12 DEF Sound, Placed, Held
  <2>2. Back(m, y) < a + WINDOWS BY <1>11, <2>1 DEF Was
  <2>3. 1 <= Dist(k.pr, y) /\ Dist(k.pr, y) <= WINDOWS /\ Dist(k.pr, y) \in Nat
    <3>1. 1 <= Dist(k.pr, y) /\ Dist(k.pr, y) <= k.rcount BY <1>1, <1>12 DEF Sound, Placed
    <3>2. Dist(k.pr, y) \in Nat BY <1>3, DistIs
    <3> QED BY <1>3, <1>7, <1>9, <3>1, <3>2
  <2>4. a = Dist(k.pr, y) + Back(m, y) \/ a + MOD = Dist(k.pr, y) + Back(m, y)
    BY <1>3, <1>11, DistSum DEF Back
  <2> QED BY <1>7, <1>10, <2>2, <2>3, <2>4
<1>13. Back(m, x) = a - 1 /\ a >= 1
  <2>1. Back(m, x) + 1 = a BY <1>8, <1>9, <1>12
  <2> QED BY <1>10, <2>1
<1>14. Was(m, k, v, k.ib[x]) BY <1>2, <1>9 DEF Held
<1>15. b = Con(v, a - 1) /\ m.os[x] # "ready"
  BY <1>4, <1>9, <1>13, <1>14 DEF Was
<1>16. b = (h + 1) % PAYLOADS /\ h # v
  <2>1. a > 0 BY <1>13
  <2>2. Con(v, a) # v /\ Con(v, a - 1) = (Con(v, a) + 1) % PAYLOADS
    BY <1>1, <1>11, <2>1, ConNext
  <2> QED BY <1>11, <1>15, <2>2
<1>17. "LIVE" \in k.state BY <1>1, <1>9 DEF Sound, Unopened
<1>18. \A y : Back(t, y) = Back(k, y) BY <1>6 DEF Back
<1>19. Sound(t)
  <2>1. Sending(t) BY <1>1, <1>6, <1>18 DEF Sound, Sending
  <2>2. Taken(t) = Taken(k) \ {x} /\ x \in Taken(k) BY <1>6, <1>9 DEF Taken
  <2>3. Cardinality(Taken(t)) = Cardinality(Taken(k)) - 1 /\ Cardinality(Taken(k)) \in Nat
    BY <2>2, TakenFinite, FS_RemoveElement
  <2>4. Pooled(t) BY <1>1, <1>3, <1>6, <1>7, <2>3 DEF Sound, Pooled
  <2>5. Unopened(t) BY <1>6, <1>17 DEF Unopened
  <2>6. Placed(t)
    <3>1. \A y \in Numbers : t.is[y] \in {"free", "copy"}
          /\ (t.is[y] = "copy" <=> k.is[y] = "copy" /\ y # x)
      BY <1>6 DEF Settled
    <3>2. \A y \in Numbers :
            /\ Dist(k.pr, y) \in Nat
            /\ Dist(x, y) = IF Dist(k.pr, y) > 0 THEN Dist(k.pr, y) - 1 ELSE MOD - 1
      BY <1>3, <1>4, DistIs, DistNxt
    <3>3. \A y \in Numbers : y # x => Dist(k.pr, y) # 1 BY <1>3, <1>8, DistSame
    <3>4. \A y \in Numbers : t.is[y] = "copy" <=> 1 <= Dist(t.pr, y) /\ Dist(t.pr, y) <= t.rcount
      <4> TAKE y \in Numbers
      <4>1. k.is[y] = "copy" <=> 1 <= Dist(k.pr, y) /\ Dist(k.pr, y) <= k.rcount
        BY <1>1 DEF Sound, Placed
      <4>2. t.pr = x /\ t.rcount = k.rcount - 1 BY <1>6
      <4>3. Dist(x, y) = IF Dist(k.pr, y) > 0 THEN Dist(k.pr, y) - 1 ELSE MOD - 1 BY <3>2
      <4>4. Dist(k.pr, y) \in Nat BY <3>2
      <4>5. CASE y = x
        <5>1. Dist(x, y) = 0 /\ t.is[y] # "copy" BY <1>6, <4>5, DistZero
        <5> QED BY <4>2, <5>1
      <4>6. CASE y # x
        <5>1. Dist(k.pr, y) # 1 /\ (t.is[y] = "copy" <=> k.is[y] = "copy") BY <3>1, <3>3, <4>6
        <5> QED BY <1>3, <1>7, <1>9, <4>1, <4>2, <4>3, <4>4, <5>1
      <4> QED BY <4>5, <4>6
    <3>5. \A y \in Numbers : t.is[y] = "copy" => t.ib[y].ok /\ t.ib[y].seq = y
      <4> TAKE y \in Numbers
      <4> HAVE t.is[y] = "copy"
      <4>1. y # x /\ k.is[y] = "copy" BY <3>1
      <4>2. t.ib[y] = k.ib[y] /\ k.ib[y].ok /\ k.ib[y].seq = y
        BY <1>1, <1>6, <4>1 DEF Sound, Placed
      <4> QED BY <4>2
    <3>6. t.rcount <= WINDOWS BY <1>3, <1>6, <1>7, <1>9
    <3>7. \A y \in Numbers : t.is[y] # "raw" /\ t.is[y] # "mark" BY <3>1
    <3> QED BY <3>4, <3>5, <3>6, <3>7 DEF Placed
  <2> QED BY <1>6, <2>1, <2>4, <2>5, <2>6 DEF Sound
<1>20. Chan(t, m, D, A, w, g)
  <2>1. Writes(t, m, w, g) BY <1>2, <1>6, <1>18 DEF Writes
  <2>2. Acked(t, m, A) BY <1>2, <1>6, <1>18 DEF Acked
  <2>3. \A d : Was(t, m, w, d) <=> Was(k, m, w, d) BY <1>6, <1>18 DEF Was
  <2>4. Sent(t, m, w, D) BY <1>2, <1>18, <2>3 DEF Sent
  <2>5. Held(t, m, w, D) BY <1>2, <1>18, <2>3 DEF Held
  <2> QED BY <2>1, <2>2, <2>4, <2>5 DEF Chan
<1>21. Chan(m, t, A, D, v, b)
  <2>1. Back(m, t.pr) = a - 1 BY <1>6, <1>13
  <2>2. Writes(m, t, v, b)
    <3>1. a - 1 <= m.xcount BY <1>3, <1>11
    <3>2. ASSUME NEW y \in Numbers, m.os[y] # "null", a - 1 <= Back(m, y)
          PROVE  m.os[y] = "sent"
      <4>1. CASE y = x BY <1>3, <1>15, <3>2, <4>1
      <4>2. CASE y # x
        <5>1. Back(m, y) # Back(m, x) BY <1>3, <4>2, DistSame DEF Back
        <5>2. a <= Back(m, y) BY <1>10, <1>13, <3>2, <5>1
        <5> QED BY <1>2, <1>11, <3>2, <5>2 DEF Writes
      <4> QED BY <4>1, <4>2
    <3> QED BY <1>2, <1>15, <2>1, <3>1, <3>2 DEF Writes
  <2>3. Acked(m, t, D)
    <3>1. D \in Seq(Packets)
      <4>1. L \in Seq(Packets) /\ k.out \in Seq(Packets) BY <1>1, PackType DEF Linked
      <4> QED BY <4>1, ConcatProperties DEF D
    <3>2. \A i \in 1..Len(D) : D[i].val \in Numbers
      <4>1. \A i \in 1..Len(D) : D[i] \in Packets BY <3>1
      <4> QED BY <4>1 DEF Packets
    <3>3. \A i \in 1..Len(D) : Acks(D[i]) =>
            a <= Back(m, D[i].val) /\ Back(m, D[i].val) <= m.xcount
      BY <1>2, <1>11 DEF Acked
    <3>4. \A i \in 1..Len(D) : Acks(D[i]) =>
            a - 1 <= Back(m, D[i].val) /\ Back(m, D[i].val) <= m.xcount
      BY <1>10, <3>2, <3>3
    <3> QED BY <1>2, <2>1, <3>4 DEF Acked
  <2>4. \A i \in 1..Len(A) : A[i] \in Packets BY <1>1
  <2>5. \A i \in 1..Len(A) : A[i].kind = "data" => Back(m, A[i].seq) < (a - 1) + WINDOWS
    BY <1>2, <1>9, <1>13 DEF Held
  <2>6. Sent(m, t, v, A)
    <3>1. \A i \in 1..Len(A) : A[i].kind = "data" => Was(m, k, v, A[i]) BY <1>2 DEF Sent
    <3>2. \A i \in 1..Len(A) : A[i].kind = "data" => Was(m, t, v, A[i])
      BY <2>1, <2>5, <3>1 DEF Was
    <3> QED BY <1>2, <3>2 DEF Sent
  <2>7. Held(m, t, v, A)
    <3>1. \A y \in Numbers : t.is[y] # "free" => y # x /\ k.is[y] = "copy" /\ t.ib[y] = k.ib[y]
      BY <1>6 DEF Settled
    <3>2. ASSUME NEW y \in Numbers, t.is[y] # "free" PROVE Was(m, t, v, t.ib[y])
      <4>1. y # x /\ k.is[y] = "copy" /\ t.ib[y] = k.ib[y] BY <3>1, <3>2
      <4>2. Back(m, y) + Dist(k.pr, y) = a BY <1>12, <4>1
      <4>3. Dist(k.pr, y) \in Nat /\ Dist(k.pr, y) >= 1
        <5>1. 1 <= Dist(k.pr, y) BY <1>1, <4>1 DEF Sound, Placed
        <5> QED BY <1>3, <5>1, DistIs
      <4>4. Back(m, y) < (a - 1) + WINDOWS BY <1>7, <1>10, <4>2, <4>3
      <4>5. k.ib[y].seq = y BY <1>1, <4>1 DEF Sound, Placed
      <4>6. Was(m, k, v, k.ib[y]) BY <1>2, <4>1 DEF Held
      <4> QED BY <2>1, <4>1, <4>4, <4>5, <4>6 DEF Was
    <3>3. \A y \in Numbers, j \in 1..Len(A) : t.is[y] # "free" /\ A[j].kind = "data" =>
            Back(m, A[j].seq) < Back(m, t.ib[y].seq) + WINDOWS
      BY <1>2, <3>1 DEF Held
    <3> QED BY <3>2, <3>3 DEF Held
  <2> QED BY <2>2, <2>3, <2>6, <2>7 DEF Chan
<1>22. Linked(t, m, L, A, w, g, v, b)
  <2>1. L \o t.out = D BY <1>6 DEF D
  <2> QED BY <1>19, <1>20, <1>21, <2>1 DEF Linked
<1> QED BY <1>5, <1>6, <1>16, <1>17, <1>22

(* The fields of an end that has one more packet to send, in place x.      *)
LEMMA AddingIs ==
  ASSUME NEW k \in Packs, NEW n \in Payloads, NEW x \in Numbers, x = Nxt(k.pscopy),
         NEW t, t = Adding(k, n)
  PROVE  /\ t \in Packs /\ t.ps = k.ps /\ t.pr = k.pr /\ t.pscopy = x /\ t.is = k.is /\ t.ib = k.ib
         /\ t.pool = k.pool /\ t.rcount = k.rcount /\ t.state = k.state /\ t.out = k.out
         /\ t.xcount = k.xcount + 1 /\ t.os[x] = "ready" /\ t.ob[x] = n
         /\ \A z \in Numbers : z # x => t.os[z] = k.os[z] /\ t.ob[z] = k.ob[z]
<1>1. /\ k.os \in [Numbers -> {"null", "ready", "sent"}] /\ k.ob \in [Numbers -> Payloads]
      /\ k.xcount \in Nat
  BY PackType
<1>2. PICK os2, ob2, c2 : /\ os2 = [k.os EXCEPT ![x] = "ready"] /\ ob2 = [k.ob EXCEPT ![x] = n]
                          /\ c2 = k.xcount + 1
  OBVIOUS
<1>3. t = [k EXCEPT !.os = os2, !.ob = ob2, !.pscopy = x, !.xcount = c2]
  BY <1>2 DEF Adding, Packs
<1>4. /\ os2 \in [Numbers -> {"null", "ready", "sent"}] /\ ob2 \in [Numbers -> Payloads]
      /\ c2 \in Nat
  BY <1>1, <1>2
<1>5. t \in Packs
  <2>1. [k EXCEPT !.os = os2, !.ob = ob2] \in Packs BY <1>4 DEF Packs
  <2>2. [[k EXCEPT !.os = os2, !.ob = ob2] EXCEPT !.pscopy = x, !.xcount = c2] \in Packs
    BY <1>4, <2>1 DEF Packs
  <2>3. t = [[k EXCEPT !.os = os2, !.ob = ob2] EXCEPT !.pscopy = x, !.xcount = c2]
    BY <1>3 DEF Packs
  <2> QED BY <2>2, <2>3
<1>6. /\ t.ps = k.ps /\ t.pr = k.pr /\ t.pscopy = x /\ t.is = k.is /\ t.ib = k.ib
      /\ t.pool = k.pool /\ t.rcount = k.rcount /\ t.state = k.state /\ t.out = k.out
  BY <1>3 DEF Packs
<1>7. t.xcount = c2 /\ t.os = os2 /\ t.ob = ob2 BY <1>3 DEF Packs
<1> QED BY <1>1, <1>2, <1>5, <1>6, <1>7

(* One more packet written: everything sent is one further back, and       *)
(* still less than MOD, as the window is half of it at most.               *)
LEMMA AddingLinked ==
  ASSUME NEW k, NEW m, NEW L, NEW A, NEW w, NEW g, NEW v, NEW h,
         Linked(k, m, L, A, w, g, v, h), "LIVE" \in k.state, k.xcount < WINDOWS,
         NEW n, n = (w + 1) % PAYLOADS
  PROVE  /\ Linked(Adding(k, n), m, L, A, n, g, v, h)
         /\ Adding(k, n).state = k.state /\ Adding(k, n) \in Packs
<1>1. /\ k \in Packs /\ m \in Packs /\ Sound(k) /\ w \in Payloads
      /\ Chan(k, m, L \o k.out, A, w, g) /\ Chan(m, k, A, L \o k.out, v, h)
      /\ A \in Seq(Packets)
  BY DEF Linked, Sound
<1> DEFINE D == L \o k.out
<1>2. /\ Writes(k, m, w, g) /\ Acked(k, m, A) /\ Sent(k, m, w, D) /\ Held(k, m, w, D)
      /\ Acked(m, k, D) /\ Sent(m, k, v, A) /\ Held(m, k, v, A) /\ Writes(m, k, v, h)
  BY <1>1 DEF Chan
<1>3. D \in Seq(Packets)
  <2>1. L \in Seq(Packets) /\ k.out \in Seq(Packets) BY <1>1, PackType DEF Linked
  <2> QED BY <2>1, ConcatProperties
<1> HIDE DEF D
<1>4. /\ n \in Payloads /\ Con(n, 0) = n
      /\ \A d \in Nat : d + 1 < MOD => Con(n, d + 1) = Con(w, d)
  BY <1>1, ConNext
<1>5. k.pscopy \in Numbers /\ k.ps \in Numbers /\ k.xcount \in Nat /\ m.pr \in Numbers
  BY <1>1, PackType
<1>6. PICK x \in Numbers : x = Nxt(k.pscopy) BY <1>5, NxtIs
<1>7. PICK t : t = Adding(k, n) OBVIOUS
<1>8. /\ t \in Packs /\ t.ps = k.ps /\ t.pr = k.pr /\ t.pscopy = x /\ t.is = k.is /\ t.ib = k.ib
      /\ t.pool = k.pool /\ t.rcount = k.rcount /\ t.state = k.state /\ t.out = k.out
      /\ t.xcount = k.xcount + 1 /\ t.os[x] = "ready" /\ t.ob[x] = n
      /\ \A z \in Numbers : z # x => t.os[z] = k.os[z] /\ t.ob[z] = k.ob[z]
  BY <1>1, <1>4, <1>6, <1>7, AddingIs
<1>9. MOD \in Nat /\ WINDOWS \in Nat /\ WINDOWS >= 1 /\ WINDOWS + WINDOWS <= MOD BY Sizes
<1>10. \A y \in Numbers : Back(k, y) \in Nat /\ Back(k, y) < MOD BY <1>1, BackIs
<1>11. Back(t, x) = 0 BY <1>8, DistZero DEF Back
<1>12. \A y \in Numbers : /\ Back(t, y) = IF Back(k, y) + 1 < MOD THEN Back(k, y) + 1 ELSE 0
                          /\ y # x => Back(t, y) # 0
                          /\ Back(k, y) + 1 < MOD => y # x
  <2> TAKE y \in Numbers
  <2>1. Back(t, y) = IF Back(k, y) + 1 < MOD THEN Back(k, y) + 1 ELSE 0
    BY <1>5, <1>6, <1>8, DistNxt DEF Back
  <2>2. y # x => Back(t, y) # 0 BY <1>8, DistZero DEF Back
  <2>3. Back(k, y) + 1 < MOD => Back(t, y) # 0 BY <1>10, <2>1
  <2> QED BY <1>11, <2>1, <2>2, <2>3
<1>13. k.xcount + 1 < MOD BY <1>5, <1>9
<1>14. Sound(t)
  <2>1. ASSUME NEW y \in Numbers PROVE t.os[y] # "null" <=> Back(t, y) < t.xcount
    <3>1. CASE y = x BY <1>5, <1>8, <1>11, <3>1
    <3>2. CASE y # x
      <4>1. Back(t, y) = Back(k, y) + 1 BY <1>12, <3>2
      <4>2. t.os[y] # "null" <=> Back(k, y) < k.xcount BY <1>1, <1>8, <3>2 DEF Sound, Sending
      <4> QED BY <1>5, <1>8, <1>10, <4>1, <4>2
    <3> QED BY <3>1, <3>2
  <2>2. Back(t, t.ps) = t.xcount
    <3>1. Back(k, k.ps) = k.xcount BY <1>1 DEF Sound, Sending
    <3> QED BY <1>5, <1>8, <1>12, <1>13, <3>1
  <2>3. t.xcount <= WINDOWS BY <1>5, <1>8, <1>9
  <2>4. Sending(t) BY <2>1, <2>2, <2>3 DEF Sending
  <2>5. Taken(t) = Taken(k) BY <1>8 DEF Taken
  <2>6. Placed(t) BY <1>1, <1>8 DEF Sound, Placed
  <2>7. Pooled(t) BY <1>1, <1>8, <2>5 DEF Sound, Pooled
  <2>8. Unopened(t) BY <1>8 DEF Unopened
  <2> QED BY <1>8, <2>4, <2>6, <2>7, <2>8 DEF Sound
<1>15. PICK a \in Nat : a = Back(k, m.pr) /\ a <= k.xcount /\ g = Con(w, a)
  BY <1>2, <1>5, <1>10 DEF Writes
<1>16. a + 1 < MOD /\ Back(t, m.pr) = a + 1 /\ a + WINDOWS < MOD
  <2>1. a + 1 < MOD /\ a + WINDOWS < MOD BY <1>5, <1>9, <1>13, <1>15
  <2> QED BY <1>5, <1>12, <1>15, <2>1
<1>17. Chan(t, m, D, A, n, g)
  <2>1. Writes(t, m, n, g)
    <3>1. Back(t, m.pr) <= t.xcount BY <1>5, <1>8, <1>15, <1>16
    <3>2. g = Con(n, Back(t, m.pr)) BY <1>4, <1>15, <1>16
    <3>3. ASSUME NEW y \in Numbers, t.os[y] # "null"
          PROVE  t.ob[y] = Con(n, Back(t, y)) /\ (Back(t, m.pr) <= Back(t, y) => t.os[y] = "sent")
      <4>1. CASE y = x
        <5>1. t.ob[y] = Con(n, Back(t, y)) BY <1>4, <1>8, <1>11, <4>1
        <5>2. ~(Back(t, m.pr) <= Back(t, y)) BY <1>11, <1>15, <1>16, <4>1
        <5> QED BY <5>1, <5>2
      <4>2. CASE y # x
        <5>1. Back(t, y) = Back(k, y) + 1 /\ Back(k, y) + 1 < MOD BY <1>12, <4>2
        <5>2. k.os[y] # "null" /\ t.os[y] = k.os[y] /\ t.ob[y] = k.ob[y] BY <1>8, <3>3, <4>2
        <5>3. t.ob[y] = Con(w, Back(k, y)) /\ (a <= Back(k, y) => t.os[y] = "sent")
          BY <1>2, <1>15, <5>2 DEF Writes
        <5>4. t.ob[y] = Con(n, Back(t, y)) BY <1>4, <1>10, <5>1, <5>3
        <5>5. Back(t, m.pr) <= Back(t, y) => a <= Back(k, y) BY <1>10, <1>15, <1>16, <5>1
        <5> QED BY <5>3, <5>4, <5>5
      <4> QED BY <4>1, <4>2
    <3> QED BY <3>1, <3>2, <3>3 DEF Writes
  <2>2. Acked(t, m, A)
    <3>1. \A i \in 1..Len(A) : A[i].val \in Numbers
      <4>1. \A i \in 1..Len(A) : A[i] \in Packets BY <1>1
      <4> QED BY <4>1 DEF Packets
    <3>2. \A i \in 1..Len(A) : Acks(A[i]) => /\ a <= Back(k, A[i].val) /\ Back(k, A[i].val) <= k.xcount
                                             /\ Back(t, A[i].val) = Back(k, A[i].val) + 1
      <4> TAKE i \in 1..Len(A)
      <4> HAVE Acks(A[i])
      <4>1. a <= Back(k, A[i].val) /\ Back(k, A[i].val) <= k.xcount BY <1>2, <1>15 DEF Acked
      <4>2. Back(k, A[i].val) \in Nat BY <1>10, <3>1
      <4>3. Back(k, A[i].val) + 1 < MOD BY <1>5, <1>9, <1>13, <4>1, <4>2
      <4> QED BY <1>12, <3>1, <4>1, <4>3
    <3>3. \A i \in 1..Len(A) : Acks(A[i]) =>
            Back(t, m.pr) <= Back(t, A[i].val) /\ Back(t, A[i].val) <= t.xcount
      BY <1>5, <1>8, <1>10, <1>15, <1>16, <3>1, <3>2
    <3>4. \A i, j \in 1..Len(A) : i < j /\ Acks(A[i]) /\ Acks(A[j]) =>
            Back(t, A[j].val) <= Back(t, A[i].val)
      <4> TAKE i, j \in 1..Len(A)
      <4> HAVE i < j /\ Acks(A[i]) /\ Acks(A[j])
      <4>1. Back(k, A[j].val) <= Back(k, A[i].val) BY <1>2 DEF Acked
      <4> QED BY <1>10, <3>1, <3>2, <4>1
    <3> QED BY <3>3, <3>4 DEF Acked
  <2>3. ASSUME NEW c, c.seq \in Numbers, Was(k, m, w, c)
        PROVE  Was(t, m, n, c) /\ Back(t, c.seq) = Back(k, c.seq) + 1
    <3>1. Back(k, c.seq) < a + WINDOWS BY <1>15, <2>3 DEF Was
    <3>2. Back(k, c.seq) + 1 < MOD BY <1>9, <1>10, <1>15, <1>16, <2>3, <3>1
    <3>3. Back(t, c.seq) = Back(k, c.seq) + 1 /\ c.seq # x BY <1>12, <2>3, <3>2
    <3>4. Back(t, c.seq) < Back(t, m.pr) + WINDOWS
      BY <1>9, <1>10, <1>15, <1>16, <2>3, <3>1, <3>3
    <3>5. Con(n, Back(t, c.seq)) = Con(w, Back(k, c.seq)) BY <1>4, <1>10, <2>3, <3>2, <3>3
    <3>6. t.os[c.seq] # "ready" BY <1>8, <2>3, <3>3 DEF Was
    <3> QED BY <2>3, <3>3, <3>4, <3>5, <3>6 DEF Was
  <2>4. \A i \in 1..Len(D) : D[i].seq \in Numbers
    <3>1. \A i \in 1..Len(D) : D[i] \in Packets BY <1>3
    <3> QED BY <3>1 DEF Packets
  <2>5. \A y \in Numbers : m.ib[y].seq \in Numbers
    <3>1. \A y \in Numbers : m.ib[y] \in Buffers BY <1>1, PackType
    <3> QED BY <3>1 DEF Buffers
  <2>6. \A i \in 1..Len(D) : D[i].kind = "data" =>
          Was(t, m, n, D[i]) /\ Back(t, D[i].seq) = Back(k, D[i].seq) + 1
    BY <1>2, <2>3, <2>4 DEF Sent
  <2>7. \A y \in Numbers : m.is[y] # "free" =>
          Was(t, m, n, m.ib[y]) /\ Back(t, m.ib[y].seq) = Back(k, m.ib[y].seq) + 1
    BY <1>2, <2>3, <2>5 DEF Held
  <2>8. Sent(t, m, n, D)
    <3>1. ASSUME NEW i \in 1..Len(D), NEW j \in 1..Len(D), i < j, D[i].kind = "data", D[j].kind = "data"
          PROVE  Back(t, D[j].seq) < Back(t, D[i].seq) + WINDOWS
      <4>1. Back(k, D[j].seq) < Back(k, D[i].seq) + WINDOWS BY <1>2, <3>1 DEF Sent
      <4>2. Back(k, D[j].seq) \in Nat /\ Back(k, D[i].seq) \in Nat BY <1>10, <2>4
      <4> QED BY <1>9, <2>6, <3>1, <4>1, <4>2
    <3> QED BY <2>6, <3>1 DEF Sent
  <2>9. Held(t, m, n, D)
    <3>1. ASSUME NEW y \in Numbers, NEW j \in 1..Len(D), m.is[y] # "free", D[j].kind = "data"
          PROVE  Back(t, D[j].seq) < Back(t, m.ib[y].seq) + WINDOWS
      <4>1. Back(k, D[j].seq) < Back(k, m.ib[y].seq) + WINDOWS BY <1>2, <3>1 DEF Held
      <4>2. Back(k, D[j].seq) \in Nat /\ Back(k, m.ib[y].seq) \in Nat BY <1>10, <2>4, <2>5
      <4> QED BY <1>9, <2>6, <2>7, <3>1, <4>1, <4>2
    <3> QED BY <2>7, <3>1 DEF Held
  <2> QED BY <2>1, <2>2, <2>8, <2>9 DEF Chan
<1>18. Chan(m, t, A, D, v, h)
  <2>1. Writes(m, t, v, h) BY <1>2, <1>8 DEF Writes
  <2>2. Acked(m, t, D) BY <1>2, <1>8 DEF Acked
  <2>3. \A c : Was(m, t, v, c) <=> Was(m, k, v, c) BY <1>8 DEF Was
  <2>4. Sent(m, t, v, A) BY <1>2, <2>3 DEF Sent
  <2>5. Held(m, t, v, A) BY <1>2, <1>8, <2>3 DEF Held
  <2> QED BY <2>1, <2>2, <2>4, <2>5 DEF Chan
<1>19. Linked(t, m, L, A, n, g, v, h)
  <2>1. L \o t.out = D BY <1>8 DEF D
  <2> QED BY <1>4, <1>14, <1>17, <1>18, <2>1 DEF Linked
<1> QED BY <1>7, <1>8, <1>19

----------------------------------------------------------------------------
(* The state.                                                              *)

(* Where an end may be, and what that says of its connection.              *)
Labels == {"closed", "open", "idle", "write", "read", "failed"}

PcIs(k, l) ==
  /\ l \in {"closed", "open"} => "LIVE" \notin k.state
  /\ l \in {"idle", "write", "read"} => "LIVE" \in k.state

(* The state of the two ends, p and q, the lines, and what was written and *)
(* read last.                                                              *)
Joined(p, q, ln, w, g) ==
  /\ p \in [Ends -> Packs] /\ q \in [Ends -> Labels] /\ ln \in [Ends -> Seq(Packets)]
  /\ w \in [Ends -> Payloads] /\ g \in [Ends -> Payloads]
  /\ \A e \in Ends : Sound(p[e]) /\ p[e].out = <<>> /\ PcIs(p[e], q[e])
  /\ \A e \in Ends : Chan(p[e], p[Other(e)], ln[Other(e)], ln[e], w[e], g[Other(e)])

(* The inductive invariant.                                                *)
IInv == Joined(pk, pc, line, wrote, got)

(* There are two ends.                                                     *)
LEMMA TwoEnds ==
  ASSUME NEW e \in Ends
  PROVE  Other(e) \in Ends /\ Other(Other(e)) = e /\ Other(e) # e /\ Ends = {e, Other(e)}
BY DEF Ends, Other

(* Between two actions each end is linked to the other.                    *)
LEMMA JoinedLinked ==
  ASSUME NEW p, NEW q, NEW ln, NEW w, NEW g, Joined(p, q, ln, w, g),
         NEW e \in Ends, NEW f, f = Other(e)
  PROVE  Linked(p[e], p[f], ln[f], ln[e], w[e], g[f], w[f], g[e])
<1>1. f \in Ends /\ Other(f) = e BY TwoEnds
<1>2. /\ Sound(p[e]) /\ p[e].out = <<>> /\ p[f] \in Packs
      /\ ln[e] \in Seq(Packets) /\ ln[f] \in Seq(Packets)
      /\ w[e] \in Payloads /\ w[f] \in Payloads
      /\ Chan(p[e], p[f], ln[f], ln[e], w[e], g[f])
      /\ Chan(p[f], p[e], ln[e], ln[f], w[f], g[e])
  BY <1>1 DEF Joined
<1>3. ln[f] \o p[e].out = ln[f] BY <1>2, ConcatEmptySeq
<1> QED BY <1>2, <1>3 DEF Linked

(* A line that loses packets, or damages some, leaves the ends joined.     *)
LEMMA JoinedThin ==
  ASSUME NEW p, NEW q, NEW ln, NEW w, NEW g, Joined(p, q, ln, w, g),
         NEW e \in Ends, NEW D \in Seq(Packets), Thins(D, ln[e]),
         NEW ln2, ln2 = [ln EXCEPT ![e] = D]
  PROVE  Joined(p, q, ln2, w, g)
<1>1. PICK f \in Ends : f = Other(e) /\ Other(f) = e /\ f # e /\ Ends = {e, f} BY TwoEnds
<1>2. /\ p[e] \in Packs /\ p[f] \in Packs /\ ln \in [Ends -> Seq(Packets)]
      /\ Chan(p[e], p[f], ln[f], ln[e], w[e], g[f])
      /\ Chan(p[f], p[e], ln[e], ln[f], w[f], g[e])
  BY <1>1 DEF Joined
<1>3. ln2 \in [Ends -> Seq(Packets)] /\ ln2[e] = D /\ ln2[f] = ln[f] BY <1>1, <1>2
<1>4. Chan(p[e], p[f], ln2[f], ln2[e], w[e], g[f]) BY <1>1, <1>2, <1>3, ThinBack
<1>5. Chan(p[f], p[e], ln2[e], ln2[f], w[f], g[e]) BY <1>1, <1>2, <1>3, ThinAway
<1>6. \A x \in Ends : Chan(p[x], p[Other(x)], ln2[Other(x)], ln2[x], w[x], g[Other(x)])
  BY <1>1, <1>4, <1>5
<1> QED BY <1>3, <1>6 DEF Joined

(* The first state.                                                        *)
LEMMA InitJoined == Init => IInv
<1> SUFFICES ASSUME Init PROVE IInv OBVIOUS
<1>1. PICK k : k = NewPack OBVIOUS
<1>2. MOD \in Nat /\ MOD > 0 /\ WINDOWS \in Nat /\ PAYLOADS \in Nat /\ PAYLOADS > MOD BY Sizes
<1>3. 0 \in Numbers /\ 0 \in Payloads BY <1>2 DEF Numbers, Payloads
<1>4. Nil \in Buffers BY <1>3 DEF Nil, Buffers
<1>5. k \in Packs
  <2>1. <<>> \in Seq(Packets) /\ {"INITA"} \subseteq Controls BY DEF Controls
  <2> QED BY <1>1, <1>2, <1>3, <1>4, <2>1 DEF NewPack, Packs
<1>6. /\ k.state = {} /\ k.ps = 0 /\ k.pr = 0 /\ k.pscopy = 0 /\ k.xcount = 0 /\ k.rcount = 0
      /\ k.pool = WINDOWS /\ k.out = <<>>
      /\ \A x \in Numbers : k.os[x] = "null" /\ k.is[x] = "free"
  BY <1>1 DEF NewPack
<1>7. Back(k, 0) = 0 BY <1>3, <1>6, DistZero DEF Back
<1>8. Sound(k)
  <2>1. \A x \in Numbers : Back(k, x) \in Nat BY <1>5, BackIs
  <2>2. Sending(k) BY <1>2, <1>6, <1>7, <2>1 DEF Sending
  <2>3. \A x \in Numbers : Dist(0, x) \in Nat BY <1>3, DistIs
  <2>4. Placed(k) BY <1>2, <1>6, <2>3 DEF Placed
  <2>5. Taken(k) = {} BY <1>6 DEF Taken
  <2>6. Pooled(k) BY <1>2, <1>6, <2>5, FS_EmptySet DEF Pooled
  <2>7. Unopened(k) BY <1>6 DEF Unopened
  <2> QED BY <1>5, <2>2, <2>4, <2>6, <2>7 DEF Sound
<1>9. Chan(k, k, <<>>, <<>>, 0, 0)
  <2>1. Con(0, 0) = 0 BY <1>3, ConNext
  <2>2. Writes(k, k, 0, 0) BY <1>6, <1>7, <2>1 DEF Writes
  <2>3. Acked(k, k, <<>>) BY DEF Acked
  <2>4. Sent(k, k, 0, <<>>) BY DEF Sent
  <2>5. Held(k, k, 0, <<>>) BY <1>6 DEF Held
  <2> QED BY <2>2, <2>3, <2>4, <2>5 DEF Chan
<1>10. PcIs(k, "closed") BY <1>6 DEF PcIs
<1>11. /\ pk = [e \in Ends |-> k] /\ pc = [e \in Ends |-> "closed"] /\ line = [e \in Ends |-> <<>>]
       /\ wrote = [e \in Ends |-> 0] /\ got = [e \in Ends |-> 0]
  BY <1>1 DEF Init
<1>12. \A e \in Ends : /\ pk[e] = k /\ pk[Other(e)] = k /\ pc[e] = "closed"
                       /\ line[e] = <<>> /\ line[Other(e)] = <<>>
                       /\ wrote[e] = 0 /\ got[Other(e)] = 0
  BY <1>11, TwoEnds
<1>13. /\ pk \in [Ends -> Packs] /\ pc \in [Ends -> Labels] /\ line \in [Ends -> Seq(Packets)]
       /\ wrote \in [Ends -> Payloads] /\ got \in [Ends -> Payloads]
  BY <1>3, <1>5, <1>11 DEF Labels
<1>14. \A e \in Ends : Sound(pk[e]) /\ pk[e].out = <<>> /\ PcIs(pk[e], pc[e])
  BY <1>6, <1>8, <1>10, <1>12
<1>15. \A e \in Ends : Chan(pk[e], pk[Other(e)], line[Other(e)], line[e], wrote[e], got[Other(e)])
  BY <1>9, <1>12
<1> QED BY <1>13, <1>14, <1>15 DEF IInv, Joined

(* One packet is lost.                                                     *)
LEMMA RemoveThins ==
  ASSUME NEW D \in Seq(Packets), NEW i \in 1..Len(D)
  PROVE  RemoveAt(D, i) \in Seq(Packets) /\ Thins(RemoveAt(D, i), D)
<1> DEFINE s == SubSeq(D, 1, i - 1)
           u == SubSeq(D, i + 1, Len(D))
           t == s \o u
           n == [j \in 1..Len(t) |-> IF j < i THEN j ELSE j + 1]
<1>1. Len(D) \in Nat /\ i \in Nat /\ 1 <= i /\ i <= Len(D) OBVIOUS
<1>2. /\ s \in Seq(Packets) /\ Len(s) = i - 1 /\ \A j \in 1..(i - 1) : s[j] = D[j]
  <2>1. \A j \in 1..(i - 1) : D[j] \in Packets BY <1>1
  <2> QED BY <1>1, <2>1, SubSeqProperties
<1>3. /\ u \in Seq(Packets) /\ Len(u) = Len(D) - i
      /\ \A j \in 1..(Len(D) - i) : u[j] = D[i + j]
  <2>1. \A j \in (i + 1)..Len(D) : D[j] \in Packets BY <1>1
  <2> QED BY <1>1, <2>1, SubSeqProperties
<1> HIDE DEF s, u
<1>4. /\ t \in Seq(Packets) /\ Len(t) = Len(D) - 1
      /\ \A j \in 1..Len(t) : t[j] = IF j < i THEN D[j] ELSE D[j + 1]
  <2>1. t \in Seq(Packets) /\ Len(t) = Len(s) + Len(u)
        /\ \A j \in 1..(Len(s) + Len(u)) : t[j] = IF j <= Len(s) THEN s[j] ELSE u[j - Len(s)]
    BY <1>2, <1>3, ConcatProperties
  <2>2. Len(t) = Len(D) - 1 BY <1>1, <1>2, <1>3, <2>1
  <2>3. ASSUME NEW j \in 1..Len(t) PROVE t[j] = IF j < i THEN D[j] ELSE D[j + 1]
    <3>1. CASE j < i BY <1>1, <1>2, <1>3, <2>1, <2>2, <2>3, <3>1
    <3>2. CASE ~(j < i)
      <4>1. t[j] = u[j - (i - 1)] BY <1>1, <1>2, <1>3, <2>1, <2>2, <2>3, <3>2
      <4>2. j - (i - 1) \in 1..(Len(D) - i) BY <1>1, <2>2, <2>3, <3>2
      <4>3. i + (j - (i - 1)) = j + 1 BY <1>1, <2>3
      <4> QED BY <1>3, <3>2, <4>1, <4>2, <4>3
    <3> QED BY <3>1, <3>2
  <2> QED BY <2>1, <2>2, <2>3
<1>5. n \in [1..Len(t) -> 1..Len(D)] BY <1>1, <1>4
<1>6. \A j, l \in 1..Len(t) : j < l => n[j] < n[l] BY <1>1, <1>4
<1>7. \A j \in 1..Len(t) : Kept(t[j], D[n[j]]) BY <1>4 DEF Kept
<1>8. Thins(t, D) BY <1>5, <1>6, <1>7 DEF Thins
<1> QED BY <1>4, <1>8 DEF RemoveAt, s, u

(* One packet is damaged.                                                  *)
LEMMA DamageThins ==
  ASSUME NEW D \in Seq(Packets), NEW i \in 1..Len(D), NEW c \in Packets, Kept(c, D[i]),
         NEW t, t = [D EXCEPT ![i] = c]
  PROVE  t \in Seq(Packets) /\ Thins(t, D)
<1>1. Len(D) \in Nat /\ DOMAIN D = 1..Len(D) OBVIOUS
<1>2. t \in [1..Len(D) -> Packets] BY <1>1
<1>3. t \in Seq(Packets) BY <1>1, <1>2 DEF Seq
<1>4. Len(t) = Len(D) BY <1>1, <1>2, <1>3
<1> DEFINE n == [j \in 1..Len(t) |-> j]
<1>5. n \in [1..Len(t) -> 1..Len(D)] BY <1>4
<1>6. \A j, l \in 1..Len(t) : j < l => n[j] < n[l] OBVIOUS
<1>7. \A j \in 1..Len(t) : Kept(t[j], D[n[j]]) BY <1>1, <1>4 DEF Kept
<1>8. Thins(t, D) BY <1>5, <1>6, <1>7 DEF Thins
<1> QED BY <1>3, <1>8

----------------------------------------------------------------------------
(* The steps.                                                              *)

(* A step of the line in each direction, or none.                          *)
Carried ==
  \/ UNCHANGED <<wrote, got>>
  \/ \E e \in Ends : Wire!Send(e) \/ Wire!Receive(e)

(* The state of an end, its peer and the lines, by their types.            *)
LEMMA StateType ==
  ASSUME IInv
  PROVE  /\ pk \in [Ends -> Packs] /\ pc \in [Ends -> Labels] /\ line \in [Ends -> Seq(Packets)]
         /\ wrote \in [Ends -> Payloads] /\ got \in [Ends -> Payloads]
         /\ \A e \in Ends : Sound(pk[e]) /\ pk[e].out = <<>> /\ PcIs(pk[e], pc[e])
BY DEF IInv, Joined

(* What an action does: k is the struct pack of e, A what is left on the   *)
(* line to it, w and h what it wrote and read last, l where it is.         *)
Becomes(e, k, A, w, h, l) ==
  /\ Store(e, k, [line EXCEPT ![e] = A]) /\ pc' = [pc EXCEPT ![e] = l]
  /\ wrote' = [wrote EXCEPT ![e] = w] /\ got' = [got EXCEPT ![e] = h]

(* The ends stay joined if the new struct pack is linked to the peer.      *)
LEMMA StoreStep ==
  ASSUME IInv, NEW e \in Ends, NEW f, f = Other(e), NEW k, NEW A, NEW w, NEW h, h \in Payloads,
         NEW l \in Labels, Linked(k, pk[f], line[f], A, w, got[f], wrote[f], h), PcIs(k, l),
         Becomes(e, k, A, w, h, l)
  PROVE  IInv'
<1>1. f \in Ends /\ Other(f) = e /\ f # e /\ Ends = {e, f} BY TwoEnds
<1>2. /\ pk \in [Ends -> Packs] /\ pc \in [Ends -> Labels] /\ line \in [Ends -> Seq(Packets)]
      /\ wrote \in [Ends -> Payloads] /\ got \in [Ends -> Payloads]
      /\ Sound(pk[f]) /\ pk[f].out = <<>> /\ PcIs(pk[f], pc[f])
  BY <1>1 DEF IInv, Joined
<1>3. /\ Sound(k) /\ k \in Packs /\ A \in Seq(Packets) /\ w \in Payloads
      /\ Chan(k, pk[f], line[f] \o k.out, A, w, got[f]) /\ Chan(pk[f], k, A, line[f] \o k.out, wrote[f], h)
  BY DEF Linked, Sound
<1>4. PICK D : D = line[f] \o k.out OBVIOUS
<1>5. D \in Seq(Packets)
  <2>1. line[f] \in Seq(Packets) /\ k.out \in Seq(Packets) BY <1>1, <1>2, <1>3, PackType
  <2> QED BY <1>4, <2>1, ConcatProperties
<1>6. PICK t : t = [k EXCEPT !.out = <<>>] OBVIOUS
<1>7. /\ t \in Packs /\ t.out = <<>> /\ t.ps = k.ps /\ t.pr = k.pr /\ t.pscopy = k.pscopy
      /\ t.os = k.os /\ t.ob = k.ob /\ t.is = k.is /\ t.ib = k.ib /\ t.pool = k.pool
      /\ t.xcount = k.xcount /\ t.rcount = k.rcount /\ t.state = k.state
  <2>1. <<>> \in Seq(Packets) OBVIOUS
  <2> QED BY <1>3, <1>6, <2>1 DEF Packs
<1>8. Sound(t)
  <2>1. \A x : Back(t, x) = Back(k, x) BY <1>7 DEF Back
  <2>2. Sending(t) BY <1>3, <1>7, <2>1 DEF Sound, Sending
  <2>3. Placed(t) BY <1>3, <1>7 DEF Sound, Placed
  <2>4. Taken(t) = Taken(k) BY <1>7 DEF Taken
  <2>5. Pooled(t) BY <1>3, <1>7, <2>4 DEF Sound, Pooled
  <2>6. Unopened(t) BY <1>3, <1>7 DEF Sound, Unopened
  <2> QED BY <1>7, <2>2, <2>3, <2>5, <2>6 DEF Sound
<1>9. Chan(t, pk[f], D, A, w, got[f])
  <2>1. \A x : Back(t, x) = Back(k, x) BY <1>7 DEF Back
  <2>2. \A c : Was(t, pk[f], w, c) <=> Was(k, pk[f], w, c) BY <1>7, <2>1 DEF Was
  <2>3. Chan(k, pk[f], D, A, w, got[f]) BY <1>3, <1>4
  <2>4. Writes(t, pk[f], w, got[f]) BY <1>7, <2>1, <2>3 DEF Chan, Writes
  <2>5. Acked(t, pk[f], A) BY <1>7, <2>1, <2>3 DEF Chan, Acked
  <2>6. Sent(t, pk[f], w, D) BY <2>1, <2>2, <2>3 DEF Chan, Sent
  <2>7. Held(t, pk[f], w, D) BY <2>1, <2>2, <2>3 DEF Chan, Held
  <2> QED BY <2>4, <2>5, <2>6, <2>7 DEF Chan
<1>10. Chan(pk[f], t, A, D, wrote[f], h)
  <2>1. Chan(pk[f], k, A, D, wrote[f], h) BY <1>3, <1>4
  <2>2. \A c : Was(pk[f], t, wrote[f], c) <=> Was(pk[f], k, wrote[f], c) BY <1>7 DEF Was
  <2>3. Writes(pk[f], t, wrote[f], h) BY <1>7, <2>1 DEF Chan, Writes
  <2>4. Acked(pk[f], t, D) BY <1>7, <2>1 DEF Chan, Acked
  <2>5. Sent(pk[f], t, wrote[f], A) BY <2>1, <2>2 DEF Chan, Sent
  <2>6. Held(pk[f], t, wrote[f], A) BY <1>7, <2>1, <2>2 DEF Chan, Held
  <2> QED BY <2>3, <2>4, <2>5, <2>6 DEF Chan
<1>11. pk' \in [Ends -> Packs] /\ pk'[e] = t /\ pk'[f] = pk[f]
  <2>1. pk' = [pk EXCEPT ![e] = t] BY <1>6 DEF Becomes, Store
  <2> QED BY <1>1, <1>2, <1>7, <2>1
<1>12. pc' \in [Ends -> Labels] /\ pc'[e] = l /\ pc'[f] = pc[f] BY <1>1, <1>2 DEF Becomes
<1>13. line' \in [Ends -> Seq(Packets)] /\ line'[e] = A /\ line'[f] = D
  <2>1. PICK ln : ln = [line EXCEPT ![e] = A] OBVIOUS
  <2>2. ln \in [Ends -> Seq(Packets)] /\ ln[e] = A /\ ln[f] = line[f] BY <1>1, <1>2, <1>3, <2>1
  <2>3. line' = [ln EXCEPT ![f] = D] BY <1>4, <2>1, <2>2 DEF Becomes, Store
  <2>4. line' \in [Ends -> Seq(Packets)] BY <1>1, <1>5, <2>2, <2>3
  <2>5. line'[e] = A BY <1>1, <2>2, <2>3
  <2>6. line'[f] = D BY <1>1, <2>2, <2>3
  <2> QED BY <2>4, <2>5, <2>6
<1>14. wrote' \in [Ends -> Payloads] /\ wrote'[e] = w /\ wrote'[f] = wrote[f]
  BY <1>1, <1>2, <1>3 DEF Becomes
<1>15. got' \in [Ends -> Payloads] /\ got'[e] = h /\ got'[f] = got[f] BY <1>1, <1>2 DEF Becomes
<1>16. PcIs(t, l) BY <1>7 DEF PcIs
<1>17. \A x \in Ends : Sound(pk'[x]) /\ pk'[x].out = <<>> /\ PcIs(pk'[x], pc'[x])
  BY <1>1, <1>2, <1>7, <1>8, <1>11, <1>12, <1>16
<1>18. \A x \in Ends : Chan(pk'[x], pk'[Other(x)], line'[Other(x)], line'[x], wrote'[x], got'[Other(x)])
  <2>1. Chan(pk'[e], pk'[f], line'[f], line'[e], wrote'[e], got'[f])
    BY <1>9, <1>11, <1>13, <1>14, <1>15
  <2>2. Chan(pk'[f], pk'[e], line'[e], line'[f], wrote'[f], got'[e])
    BY <1>10, <1>11, <1>13, <1>14, <1>15
  <2> QED BY <1>1, <2>1, <2>2
<1> QED BY <1>11, <1>12, <1>13, <1>14, <1>15, <1>17, <1>18 DEF IInv, Joined

(* A step that reads and writes nothing.                                   *)
LEMMA QuietStep ==
  ASSUME IInv, NEW e \in Ends, NEW f, f = Other(e), NEW k, NEW A,
         NEW ln, ln = [line EXCEPT ![e] = A],
         Linked(k, pk[f], line[f], A, wrote[e], got[f], wrote[f], got[e]),
         NEW l \in Labels, PcIs(k, l), Store(e, k, ln), pc' = [pc EXCEPT ![e] = l],
         UNCHANGED <<wrote, got>>
  PROVE  IInv' /\ Carried
<1>1. PICK w, h : w = wrote[e] /\ h = got[e] OBVIOUS
<1>2. wrote' = [wrote EXCEPT ![e] = w] /\ got' = [got EXCEPT ![e] = h] /\ h \in Payloads
  BY <1>1, StateType
<1>3. Linked(k, pk[f], line[f], A, w, got[f], wrote[f], h) BY <1>1
<1>4. Becomes(e, k, A, w, h, l) BY <1>2 DEF Becomes
<1>5. IInv' BY <1>2, <1>3, <1>4, StoreStep
<1> QED BY <1>5 DEF Carried

(* Between two actions.                                                    *)
LEMMA StateLinked ==
  ASSUME IInv, NEW e \in Ends, NEW f, f = Other(e)
  PROVE  /\ Linked(pk[e], pk[f], line[f], line[e], wrote[e], got[f], wrote[f], got[e])
         /\ line = [line EXCEPT ![e] = line[e]] /\ pc = [pc EXCEPT ![e] = pc[e]]
         /\ pk[e] \in Packs /\ PcIs(pk[e], pc[e]) /\ pc[e] \in Labels
<1>1. Joined(pk, pc, line, wrote, got) BY DEF IInv
<1> QED BY <1>1, JoinedLinked, StateType

(* pkopen sends INITA.                                                     *)
LEMMA OpenStep ==
  ASSUME IInv, NEW e \in Ends, Open(e)
  PROVE  IInv' /\ Carried
<1>1. PICK f, k : f = Other(e) /\ k = Pkoutput(pk[e]) OBVIOUS
<1>2. Linked(k, pk[f], line[f], line[e], wrote[e], got[f], wrote[f], got[e]) /\ Outputs(k, pk[e])
  BY <1>1, StateLinked, PkoutputLinked
<1>3. PcIs(k, "open") /\ "open" \in Labels BY <1>2, StateLinked DEF Open, Outputs, PcIs, Labels
<1>4. /\ Store(e, k, line) /\ pc' = [pc EXCEPT ![e] = "open"] /\ UNCHANGED <<wrote, got>>
      /\ line = [line EXCEPT ![e] = line[e]]
  BY <1>1, StateLinked DEF Open, Goto
<1> QED BY <1>1, <1>2, <1>3, <1>4, QuietStep

(* pkwrite puts one more packet in the window.                             *)
LEMMA WriteStep ==
  ASSUME IInv, NEW e \in Ends, Write(e)
  PROVE  IInv' /\ Carried
<1>1. PICK f, n, t, k : /\ f = Other(e) /\ n = (wrote[e] + 1) % PAYLOADS
                        /\ t = Adding(pk[e], n) /\ k = Pkoutput(t)
  OBVIOUS
<1>2. "LIVE" \in pk[e].state /\ pk[e].xcount < WINDOWS
  BY StateLinked DEF Write, PcIs, CanWrite
<1>3. Linked(t, pk[f], line[f], line[e], n, got[f], wrote[f], got[e]) /\ t.state = pk[e].state
  <2>1. Linked(pk[e], pk[f], line[f], line[e], wrote[e], got[f], wrote[f], got[e])
    BY <1>1, StateLinked
  <2>2. PICK p, m, L, A, w, g, v, h :
          /\ p = pk[e] /\ m = pk[f] /\ L = line[f] /\ A = line[e]
          /\ w = wrote[e] /\ g = got[f] /\ v = wrote[f] /\ h = got[e]
    OBVIOUS
  <2>3. /\ Linked(p, m, L, A, w, g, v, h) /\ "LIVE" \in p.state /\ p.xcount < WINDOWS
        /\ n = (w + 1) % PAYLOADS
    BY <1>1, <1>2, <2>1, <2>2
  <2>4. Linked(Adding(p, n), m, L, A, n, g, v, h) /\ Adding(p, n).state = p.state
    BY <2>3, AddingLinked
  <2> QED BY <1>1, <2>2, <2>4
<1>4. Linked(k, pk[f], line[f], line[e], n, got[f], wrote[f], got[e]) /\ Outputs(k, t)
  BY <1>1, <1>3, PkoutputLinked
<1>5. PcIs(k, "idle") /\ "idle" \in Labels BY <1>2, <1>3, <1>4 DEF Outputs, PcIs, Labels
<1>6. Store(e, k, line) BY <1>1 DEF Write, Adding
<1>7. /\ pc' = [pc EXCEPT ![e] = "idle"] /\ wrote' = [wrote EXCEPT ![e] = n] /\ UNCHANGED got
      /\ line = [line EXCEPT ![e] = line[e]]
  BY <1>1, StateLinked DEF Write
<1>8. PICK h \in Payloads : h = got[e] /\ got' = [got EXCEPT ![e] = h] BY <1>7, StateType
<1>9. IInv'
  <2>1. Becomes(e, k, line[e], n, h, "idle") BY <1>6, <1>7, <1>8 DEF Becomes
  <2>2. Linked(k, pk[f], line[f], line[e], n, got[f], wrote[f], h) BY <1>4, <1>8
  <2> QED BY <1>1, <1>5, <1>8, <2>1, <2>2, StoreStep
<1>10. Wire!Send(e) BY <1>1, <1>7, StateType DEF Wire!Send
<1> QED BY <1>9, <1>10 DEF Carried

(* pkwrite finds the window full, or its place not yet acknowledged.       *)
LEMMA WriteWaitStep ==
  ASSUME IInv, NEW e \in Ends, WriteWait(e)
  PROVE  IInv' /\ Carried
<1>1. PICK f, k : f = Other(e) /\ k = IF pk[e].xcount >= WINDOWS THEN Pkoutput(pk[e]) ELSE pk[e]
  OBVIOUS
<1>2. Linked(k, pk[f], line[f], line[e], wrote[e], got[f], wrote[f], got[e])
      /\ ("LIVE" \in k.state <=> "LIVE" \in pk[e].state)
  <2>1. CASE pk[e].xcount >= WINDOWS
    BY <1>1, <2>1, StateLinked, PkoutputLinked DEF Outputs
  <2>2. CASE ~(pk[e].xcount >= WINDOWS) BY <1>1, <2>2, StateLinked
  <2> QED BY <2>1, <2>2
<1>3. PcIs(k, "write") /\ "write" \in Labels BY <1>2, StateLinked DEF WriteWait, PcIs, Labels
<1>4. /\ Store(e, k, line) /\ pc' = [pc EXCEPT ![e] = "write"] /\ UNCHANGED <<wrote, got>>
      /\ line = [line EXCEPT ![e] = line[e]]
  BY <1>1, StateLinked DEF WriteWait, Goto
<1> QED BY <1>1, <1>2, <1>3, <1>4, QuietStep

(* pkread, with or without a packet to read.                               *)
LEMMA ReadStep ==
  ASSUME IInv, NEW e \in Ends, NEW f, f = Other(e), NEW k, NEW A,
         NEW ln, ln = [line EXCEPT ![e] = A],
         Linked(k, pk[f], line[f], A, wrote[e], got[f], wrote[f], got[e]),
         "LIVE" \in k.state, Read(e, k, ln), UNCHANGED wrote
  PROVE  IInv' /\ Carried
<1>1. PICK n : n = Pkaccept(k) OBVIOUS
<1>2. /\ Linked(n, pk[f], line[f], A, wrote[e], got[f], wrote[f], got[e])
      /\ Settled(n) /\ "LIVE" \in n.state
  <2>1. /\ Linked(n, pk[f], line[f], A, wrote[e], got[f], wrote[f], got[e])
        /\ Settled(n) /\ Still(n, k)
    BY <1>1, PkacceptLinked
  <2> QED BY <2>1 DEF Still
<1>3. {"idle", "read"} \subseteq Labels BY DEF Labels
<1>4. CASE n.rcount > 0
  <2>1. PICK b, t, u : b = n.ib[Nxt(n.pr)].data /\ t = Taking(n) /\ u = Pkoutput(t) OBVIOUS
  <2>2. /\ Linked(t, pk[f], line[f], A, wrote[e], got[f], wrote[f], b)
        /\ t.state = n.state /\ b = (got[e] + 1) % PAYLOADS /\ got[e] # wrote[f]
    BY <1>2, <1>4, <2>1, TakingLinked
  <2>3. /\ Linked(u, pk[f], line[f], A, wrote[e], got[f], wrote[f], b)
        /\ Outputs(u, t)
    BY <2>1, <2>2, PkoutputLinked
  <2>4. PcIs(u, "idle") BY <1>2, <2>2, <2>3 DEF Outputs, PcIs
  <2>5. u = Take(n) BY <2>1 DEF Take, Taking
  <2>6. /\ got' = [got EXCEPT ![e] = b] /\ Store(e, u, ln) /\ pc' = [pc EXCEPT ![e] = "idle"]
    BY <1>1, <1>4, <2>1, <2>5 DEF Read, Goto
  <2>7. got[e] \in Payloads /\ wrote' = [wrote EXCEPT ![e] = wrote[e]] BY StateType
  <2>8. b \in Payloads BY <2>2, <2>7, ConNext
  <2>9. Becomes(e, u, A, wrote[e], b, "idle") BY <2>6, <2>7 DEF Becomes
  <2>10. IInv' BY <1>3, <2>3, <2>4, <2>8, <2>9, StoreStep
  <2>11. Wire!Receive(e) BY <2>2, <2>6 DEF Wire!Receive
  <2> QED BY <2>10, <2>11 DEF Carried
<1>5. CASE ~(n.rcount > 0)
  <2>1. Store(e, n, ln) /\ pc' = [pc EXCEPT ![e] = "read"] /\ UNCHANGED got
    BY <1>1, <1>5 DEF Read, Goto
  <2>2. PcIs(n, "read") BY <1>2 DEF PcIs
  <2> QED BY <1>2, <1>3, <2>1, <2>2, QuietStep
<1> QED BY <1>4, <1>5

(* pkread is called.                                                       *)
LEMMA StartReadStep ==
  ASSUME IInv, NEW e \in Ends, StartRead(e)
  PROVE  IInv' /\ Carried
<1>1. PICK f : f = Other(e) OBVIOUS
<1>2. "LIVE" \in pk[e].state BY StateLinked DEF StartRead, PcIs
<1>3. Read(e, pk[e], line) /\ UNCHANGED wrote BY DEF StartRead
<1> QED BY <1>1, <1>2, <1>3, StateLinked, ReadStep

(* pkgetpack has taken the first packet off the line.                      *)
LEMMA ReceivedLinked ==
  ASSUME IInv, NEW e \in Ends, NEW f, f = Other(e), NEW l, Get(e, l), NEW k, k = Received(e)
  PROVE  /\ Linked(k, pk[f], line[f], Tail(line[e]), wrote[e], got[f], wrote[f], got[e])
         /\ Still(k, pk[e]) /\ Rest(e) = [line EXCEPT ![e] = Tail(line[e])]
         /\ pc[e] = l /\ UNCHANGED wrote
<1>1. PICK c : c = Head(line[e]) OBVIOUS
<1>2. /\ line[e] # <<>>
      /\ pc[e] = l /\ UNCHANGED wrote
  BY <1>1 DEF Get, HasBuffer
<1>3. c.hdr /\ c.kind = "data" => pk[e].pool > 0 BY <1>1 DEF Get, HasBuffer
<1>4. k = Pkgetpack(pk[e], c) BY <1>1 DEF Received
<1>5. /\ Linked(k, pk[f], line[f], Tail(line[e]), wrote[e], got[f], wrote[f], got[e])
      /\ Still(k, pk[e])
  BY <1>1, <1>2, <1>3, <1>4, StateLinked, PkgetpackLinked
<1>6. Rest(e) = [line EXCEPT ![e] = Tail(line[e])] BY DEF Rest
<1> QED BY <1>2, <1>5, <1>6

(* pkopen waits on, or is done and resets the numbers: they are 0 already. *)
LEMMA GetOpenStep ==
  ASSUME IInv, NEW e \in Ends, GetOpen(e)
  PROVE  IInv' /\ Carried
<1>1. PICK f, k : f = Other(e) /\ k = Received(e) OBVIOUS
<1>2. Get(e, "open") /\ UNCHANGED got BY DEF GetOpen
<1>3. /\ Linked(k, pk[f], line[f], Tail(line[e]), wrote[e], got[f], wrote[f], got[e])
      /\ Still(k, pk[e]) /\ Rest(e) = [line EXCEPT ![e] = Tail(line[e])]
      /\ pc[e] = "open" /\ UNCHANGED wrote
  BY <1>1, <1>2, ReceivedLinked
<1>4. {"open", "idle"} \subseteq Labels BY DEF Labels
<1>5. CASE "LIVE" \in k.state
  <2>1. PICK t : t = [k EXCEPT !.ps = 0, !.pr = 0, !.rpr = 0, !.nxtps = 1] OBVIOUS
  <2>2. k \in Packs /\ Sending(k) BY <1>3 DEF Linked, Sound
  <2>3. pk[e].pr = 0 /\ pk[e].pscopy = 0 /\ pk[e].xcount = 0
    BY <1>3, StateType DEF PcIs, Sound, Unopened
  <2>4. k.pr = 0 /\ k.pscopy = 0 /\ k.xcount = 0
    <3>1. k.xcount \in Nat BY <2>2, PackType
    <3> QED BY <1>3, <2>3, <3>1 DEF Still
  <2>5. k.ps = 0
    <3>1. k.ps \in Numbers /\ k.pscopy \in Numbers BY <2>2, PackType
    <3>2. Dist(k.ps, k.pscopy) = 0 BY <2>2, <2>4 DEF Sending, Back
    <3> QED BY <2>4, <3>1, <3>2, DistZero
  <2>6. t \in Packs
    <3>1. 0 \in Numbers /\ 1 \in Numbers BY Sizes DEF Numbers
    <3>2. [k EXCEPT !.ps = 0, !.pr = 0] \in Packs BY <2>2, <3>1 DEF Packs
    <3>3. [[k EXCEPT !.ps = 0, !.pr = 0] EXCEPT !.rpr = 0, !.nxtps = 1] \in Packs
      BY <3>1, <3>2 DEF Packs
    <3>4. t = [[k EXCEPT !.ps = 0, !.pr = 0] EXCEPT !.rpr = 0, !.nxtps = 1]
      BY <2>1, <2>2 DEF Packs
    <3> QED BY <3>3, <3>4
  <2>7. Alike(t, k) /\ t.state = k.state
    <3>1. /\ t.ps = 0 /\ t.pr = 0 /\ t.pscopy = k.pscopy /\ t.os = k.os /\ t.ob = k.ob
          /\ t.is = k.is /\ t.ib = k.ib /\ t.pool = k.pool /\ t.xcount = k.xcount
          /\ t.rcount = k.rcount /\ t.out = k.out /\ t.state = k.state
      BY <2>1, <2>2 DEF Packs
    <3> QED BY <2>4, <2>5, <2>6, <3>1 DEF Alike
  <2>8. Linked(t, pk[f], line[f], Tail(line[e]), wrote[e], got[f], wrote[f], got[e])
    BY <1>3, <2>7, LinkedAlike
  <2>9. PcIs(t, "idle") BY <1>5, <2>7 DEF PcIs
  <2>10. Store(e, t, Rest(e)) /\ pc' = [pc EXCEPT ![e] = "idle"]
    BY <1>1, <1>5, <2>1 DEF GetOpen, Goto
  <2> QED BY <1>1, <1>2, <1>3, <1>4, <2>8, <2>9, <2>10, QuietStep
<1>6. CASE "LIVE" \notin k.state
  <2>1. Store(e, k, Rest(e)) /\ pc' = [pc EXCEPT ![e] = "open"]
    BY <1>1, <1>3, <1>6, StateLinked DEF GetOpen
  <2>2. PcIs(k, "open") BY <1>6 DEF PcIs
  <2> QED BY <1>1, <1>2, <1>3, <1>4, <2>1, <2>2, QuietStep
<1> QED BY <1>5, <1>6

(* pkwrite looks at the window again.                                      *)
LEMMA GetWriteStep ==
  ASSUME IInv, NEW e \in Ends, GetWrite(e)
  PROVE  IInv' /\ Carried
<1>1. PICK f, k : f = Other(e) /\ k = Received(e) OBVIOUS
<1>2. Get(e, "write") /\ UNCHANGED got BY DEF GetWrite
<1>3. /\ Linked(k, pk[f], line[f], Tail(line[e]), wrote[e], got[f], wrote[f], got[e])
      /\ Still(k, pk[e]) /\ Rest(e) = [line EXCEPT ![e] = Tail(line[e])]
      /\ pc[e] = "write" /\ UNCHANGED wrote
  BY <1>1, <1>2, ReceivedLinked
<1>4. "idle" \in Labels /\ PcIs(k, "idle") BY <1>3, StateLinked DEF Labels, PcIs, Still
<1>5. Store(e, k, Rest(e)) /\ pc' = [pc EXCEPT ![e] = "idle"] BY <1>1 DEF GetWrite, Goto
<1> QED BY <1>1, <1>2, <1>3, <1>4, <1>5, QuietStep

(* pkread looks again at what has come.                                    *)
LEMMA GetReadStep ==
  ASSUME IInv, NEW e \in Ends, GetRead(e)
  PROVE  IInv' /\ Carried
<1>1. PICK f, k : f = Other(e) /\ k = Received(e) OBVIOUS
<1>2. Get(e, "read") BY DEF GetRead
<1>3. /\ Linked(k, pk[f], line[f], Tail(line[e]), wrote[e], got[f], wrote[f], got[e])
      /\ Still(k, pk[e]) /\ Rest(e) = [line EXCEPT ![e] = Tail(line[e])]
      /\ pc[e] = "read" /\ UNCHANGED wrote
  BY <1>1, <1>2, ReceivedLinked
<1>4. "LIVE" \in k.state BY <1>3, StateLinked DEF PcIs, Still
<1>5. Read(e, k, Rest(e)) BY <1>1 DEF GetRead
<1> QED BY <1>1, <1>3, <1>4, <1>5, ReadStep

(* The alarm: a control message is due, and what is not acknowledged is    *)
(* sent again.                                                             *)
LEMMA TimeoutStep ==
  ASSUME IInv, NEW e \in Ends, Timeout(e)
  PROVE  IInv' /\ Carried
<1> DEFINE k == pk[e]
           m == k.msg \cup k.rmsg
<1>1. PICK f, t, u : /\ f = Other(e)
                     /\ t = [k EXCEPT !.msg = IF m = {} THEN {"RR"} ELSE m,
                                      !.state = IF "LIVE" \in @ THEN @ \cup {"RXMIT"} ELSE @]
                     /\ u = Pkoutput(t)
  OBVIOUS
<1>2. PICK a, s : /\ a = (IF m = {} THEN {"RR"} ELSE m)
                  /\ s = (IF "LIVE" \in k.state THEN k.state \cup {"RXMIT"} ELSE k.state)
  OBVIOUS
<1>3. k \in Packs /\ PcIs(k, pc[e]) /\ pc[e] \in Labels BY StateLinked
<1>4. /\ a \subseteq Controls /\ s \subseteq {"INITa", "INITb", "LIVE", "RXMIT"}
      /\ "LIVE" \in s <=> "LIVE" \in k.state
  <2>1. /\ k.msg \subseteq Controls /\ k.rmsg \subseteq Controls
        /\ k.state \subseteq {"INITa", "INITb", "LIVE", "RXMIT"}
    BY <1>3, PackType
  <2> QED BY <1>2, <2>1 DEF Controls
<1>5. t = [k EXCEPT !.msg = a, !.state = s] BY <1>1, <1>2
<1> HIDE DEF k, m
<1>6. Alike(t, k) /\ t.state = s
  <2>1. /\ t \in Packs /\ t.ps = k.ps /\ t.pr = k.pr /\ t.pscopy = k.pscopy /\ t.os = k.os
        /\ t.ob = k.ob /\ t.is = k.is /\ t.ib = k.ib /\ t.pool = k.pool /\ t.xcount = k.xcount
        /\ t.rcount = k.rcount /\ t.out = k.out /\ t.state = s
    BY <1>3, <1>4, <1>5 DEF Packs
  <2> QED BY <1>4, <2>1 DEF Alike
<1>7. Linked(t, pk[f], line[f], line[e], wrote[e], got[f], wrote[f], got[e])
  <2>1. Linked(k, pk[f], line[f], line[e], wrote[e], got[f], wrote[f], got[e])
    BY <1>1, StateLinked DEF k
  <2> QED BY <1>6, <2>1, LinkedAlike
<1>8. Linked(u, pk[f], line[f], line[e], wrote[e], got[f], wrote[f], got[e]) /\ Outputs(u, t)
  BY <1>1, <1>7, PkoutputLinked
<1>9. "LIVE" \in u.state <=> "LIVE" \in k.state BY <1>4, <1>6, <1>8 DEF Outputs
<1>10. /\ Store(e, u, line) /\ UNCHANGED <<wrote, got>> /\ line = [line EXCEPT ![e] = line[e]]
  <2>1. line = [line EXCEPT ![e] = line[e]] BY StateLinked
  <2> QED BY <1>1, <2>1 DEF Timeout, k, m
<1>11. PICK l : /\ l \in {pc[e], "failed"} /\ pc' = [pc EXCEPT ![e] = l]
  <2>1. pc = [pc EXCEPT ![e] = pc[e]] BY StateLinked
  <2>2. CASE tries[e] + 1 >= GETRIES
    <3>1. pc' = [pc EXCEPT ![e] = "failed"] BY <2>2 DEF Timeout, Goto
    <3> QED BY <3>1
  <2>3. CASE ~(tries[e] + 1 >= GETRIES)
    <3>1. pc' = [pc EXCEPT ![e] = pc[e]] BY <2>1, <2>3 DEF Timeout
    <3> QED BY <3>1
  <2> QED BY <2>2, <2>3
<1>12. l \in Labels /\ PcIs(u, l)
  <2>1. CASE l = pc[e] BY <1>3, <1>9, <2>1 DEF PcIs
  <2>2. CASE l = "failed" BY <2>2 DEF PcIs, Labels
  <2> QED BY <1>11, <2>1, <2>2
<1> QED BY <1>1, <1>8, <1>10, <1>11, <1>12, QuietStep

(* An end that gives up changes nothing else.                              *)
LEMMA FailStep ==
  ASSUME IInv, NEW e \in Ends, Fail(e)
  PROVE  IInv' /\ Carried
<1>1. /\ pk' = pk /\ line' = line /\ wrote' = wrote /\ got' = got
      /\ pc' = [pc EXCEPT ![e] = "failed"]
  BY DEF Fail, Goto
<1>2. pc' \in [Ends -> Labels] /\ pc'[e] = "failed" /\ \A x \in Ends : x # e => pc'[x] = pc[x]
  BY <1>1, StateType DEF Labels
<1>3. \A x \in Ends : PcIs(pk[x], pc'[x])
  <2> TAKE x \in Ends
  <2>1. CASE x = e BY <1>2, <2>1 DEF PcIs
  <2>2. CASE x # e BY <1>2, <2>2, StateType
  <2> QED BY <2>1, <2>2
<1>4. Joined(pk, pc', line, wrote, got) BY <1>2, <1>3 DEF IInv, Joined
<1>5. IInv' BY <1>1, <1>4 DEF IInv
<1> QED BY <1>1, <1>5 DEF Carried

(* What the line does to a packet on its way.                              *)
LEMMA FaultStep ==
  ASSUME IInv, NEW e \in Ends, NEW D \in Seq(Packets), Thins(D, line[e]),
         line' = [line EXCEPT ![e] = D], Fault
  PROVE  IInv' /\ Carried
<1>1. pk' = pk /\ pc' = pc /\ wrote' = wrote /\ got' = got BY DEF Fault
<1>2. Joined(pk, pc, line, wrote, got) BY DEF IInv
<1>3. PICK a : a = [line EXCEPT ![e] = D] OBVIOUS
<1>4. Joined(pk, pc, a, wrote, got) BY <1>2, <1>3, JoinedThin
<1>5. IInv' BY <1>1, <1>3, <1>4 DEF IInv
<1> QED BY <1>1, <1>5 DEF Carried

(* A packet is lost.                                                       *)
LEMMA LoseStep ==
  ASSUME IInv, NEW e \in Ends, NEW i \in 1..Len(line[e]), Lose(e, i)
  PROVE  IInv' /\ Carried
<1>1. PICK D : D = RemoveAt(line[e], i) OBVIOUS
<1>2. line[e] \in Seq(Packets) BY StateType
<1>3. D \in Seq(Packets) /\ Thins(D, line[e]) BY <1>1, <1>2, RemoveThins
<1>4. line' = [line EXCEPT ![e] = D] /\ Fault BY <1>1 DEF Lose
<1> QED BY <1>3, <1>4, FaultStep

(* A header is damaged.                                                    *)
LEMMA BadHeaderStep ==
  ASSUME IInv, NEW e \in Ends, NEW i \in 1..Len(line[e]), BadHeader(e, i)
  PROVE  IInv' /\ Carried
<1>1. PICK D, c : D = [line[e] EXCEPT ![i] = c] /\ c = [line[e][i] EXCEPT !.hdr = FALSE]
  <2>1. PICK c : c = [line[e][i] EXCEPT !.hdr = FALSE] OBVIOUS
  <2> QED BY <2>1
<1>2. line[e] \in Seq(Packets) BY StateType
<1>3. line[e][i] \in Packets BY <1>2
<1>4. c \in Packets /\ Kept(c, line[e][i]) BY <1>1, <1>3 DEF Packets, Kept
<1>5. D \in Seq(Packets) /\ Thins(D, line[e]) BY <1>1, <1>2, <1>4, DamageThins
<1>6. line' = [line EXCEPT ![e] = D] /\ Fault BY <1>1 DEF BadHeader
<1> QED BY <1>5, <1>6, FaultStep

(* The contents of a data packet are damaged.                              *)
LEMMA BadDataStep ==
  ASSUME IInv, NEW e \in Ends, NEW i \in 1..Len(line[e]), BadData(e, i)
  PROVE  IInv' /\ Carried
<1>1. PICK L : L = line[e] OBVIOUS
<1>2. L \in Seq(Packets) /\ line \in [Ends -> Seq(Packets)] /\ i \in 1..Len(L) BY <1>1, StateType
<1>3. PICK b : b = L[i] OBVIOUS
<1>4. b \in Packets BY <1>2, <1>3
<1>5. PICK d : d = (b.data + 1) % PAYLOADS OBVIOUS
<1>6. d \in Payloads
  <2>1. b.data \in Payloads BY <1>4 DEF Packets
  <2> QED BY <1>5, <2>1, ConNext
<1>7. PICK c1 : c1 = [b EXCEPT !.ok = FALSE] OBVIOUS
<1>8. PICK c : c = [c1 EXCEPT !.data = d] OBVIOUS
<1>9. c1 \in Packets /\ c1.data = b.data BY <1>4, <1>7 DEF Packets
<1>10. c \in Packets /\ Kept(c, b)
  <2>1. /\ c1.kind = b.kind /\ c1.val = b.val /\ c1.seq = b.seq /\ c1.ok = FALSE
    BY <1>4, <1>7 DEF Packets
  <2>2. /\ c \in Packets /\ c.kind = c1.kind /\ c.val = c1.val /\ c.seq = c1.seq /\ c.ok = c1.ok
    BY <1>6, <1>8, <1>9 DEF Packets
  <2> QED BY <2>1, <2>2 DEF Kept
<1>11. PICK D : D = [L EXCEPT ![i] = c] OBVIOUS
<1>12. D \in Seq(Packets) /\ Thins(D, L) BY <1>2, <1>3, <1>10, <1>11, DamageThins
<1>13. line' = [line EXCEPT ![e] = D]
  <2>1. PICK D1 : D1 = [L EXCEPT ![i] = c1] OBVIOUS
  <2>2. PICK a : a = [line EXCEPT ![e] = D1] OBVIOUS
  <2>3. D1[i] = c1 /\ D = [D1 EXCEPT ![i] = c]
    <3>1. PICK S : S = DOMAIN L OBVIOUS
    <3>2. i \in S BY <1>2, <3>1
    <3>3. D1 = [j \in S |-> IF j = i THEN c1 ELSE L[j]] BY <2>1, <3>1
    <3>4. D = [j \in S |-> IF j = i THEN c ELSE L[j]] BY <1>11, <3>1
    <3>5. [D1 EXCEPT ![i] = c] = [j \in S |-> IF j = i THEN c ELSE D1[j]] BY <3>3
    <3> QED BY <3>2, <3>3, <3>4, <3>5
  <2>4. a[e] = D1 /\ [a EXCEPT ![e] = D] = [line EXCEPT ![e] = D] BY <1>2, <2>2
  <2>5. a = [line EXCEPT ![e][i].ok = FALSE] BY <1>1, <1>3, <1>7, <2>1, <2>2
  <2>6. line' = [a EXCEPT ![e][i].data = (@ + 1) % PAYLOADS] BY <2>5 DEF BadData
  <2>7. line' = [a EXCEPT ![e] = [D1 EXCEPT ![i] = [c1 EXCEPT !.data = d]]]
    BY <1>5, <1>9, <2>3, <2>4, <2>6
  <2> QED BY <1>8, <2>3, <2>4, <2>7
<1>14. Fault BY DEF BadData
<1> QED BY <1>1, <1>12, <1>13, <1>14, FaultStep

(* Every step keeps the invariant and is one of the abstract line.         *)
LEMMA NextStep ==
  ASSUME IInv, Next
  PROVE  IInv' /\ Carried
<1>1. PICK e \in Ends :
        \/ Open(e) \/ Write(e) \/ WriteWait(e) \/ StartRead(e)
        \/ GetOpen(e) \/ GetWrite(e) \/ GetRead(e) \/ Fail(e) \/ Timeout(e)
        \/ \E i \in 1..Len(line[e]) : Lose(e, i) \/ BadHeader(e, i) \/ BadData(e, i)
  BY DEF Next
<1>2. CASE Open(e) BY <1>2, OpenStep
<1>3. CASE Write(e) BY <1>3, WriteStep
<1>4. CASE WriteWait(e) BY <1>4, WriteWaitStep
<1>5. CASE StartRead(e) BY <1>5, StartReadStep
<1>6. CASE GetOpen(e) BY <1>6, GetOpenStep
<1>7. CASE GetWrite(e) BY <1>7, GetWriteStep
<1>8. CASE GetRead(e) BY <1>8, GetReadStep
<1>9. CASE Fail(e) BY <1>9, FailStep
<1>10. CASE Timeout(e) BY <1>10, TimeoutStep
<1>11. CASE \E i \in 1..Len(line[e]) : Lose(e, i) \/ BadHeader(e, i) \/ BadData(e, i)
  <2>1. PICK i \in 1..Len(line[e]) : Lose(e, i) \/ BadHeader(e, i) \/ BadData(e, i) BY <1>11
  <2> QED BY <2>1, LoseStep, BadHeaderStep, BadDataStep
<1> QED BY <1>1, <1>2, <1>3, <1>4, <1>5, <1>6, <1>7, <1>8, <1>9, <1>10, <1>11

(* A step that changes nothing.                                            *)
LEMMA StutterStep ==
  ASSUME IInv, UNCHANGED vars
  PROVE  IInv' /\ Carried
<1>1. pk' = pk /\ pc' = pc /\ line' = line /\ wrote' = wrote /\ got' = got BY DEF vars
<1>2. IInv' BY <1>1 DEF IInv, Joined
<1> QED BY <1>1, <1>2 DEF Carried

(* The two ends, the lines and the counts always fit together: what is not *)
(* read yet is still in an output buffer, acknowledgements on their way    *)
(* are of what was read and never step back, and no packet on its way or   *)
(* in an input buffer is so old that its number, modulo MOD, could be      *)
(* taken for that of another (pkoutput, pksack, pkdata, pkaccept).         *)
THEOREM PacketInvariant == Spec => []IInv
<1>1. Init => IInv BY InitJoined
<1>2. IInv /\ [Next]_vars => IInv' BY NextStep, StutterStep
<1> QED BY <1>1, <1>2, PTL DEF Spec

(* What is read at one end is what was written at the other, in order,     *)
(* each packet once, whatever the line loses or damages (pkread, pkwrite). *)
THEOREM PacketImplementsReliableLine == Spec => ImplementsReliableLine
<1>1. Init => Wire!Init BY DEF Init, Wire!Init
<1>2. IInv /\ [Next]_vars => [Wire!Next]_<<wrote, got>>
  <2> SUFFICES ASSUME IInv, [Next]_vars PROVE [Wire!Next]_<<wrote, got>> OBVIOUS
  <2>1. Carried BY NextStep, StutterStep
  <2> QED BY <2>1 DEF Carried, Wire!Next
<1> QED BY <1>1, <1>2, PacketInvariant, PTL DEF Spec, ImplementsReliableLine, Wire!Spec

(* The counts pkclose checks: every input buffer is in the pool or holds a *)
(* packet, every output buffer in use waits for its acknowledgement.       *)
THEOREM PacketBuffersOK == Spec => []BuffersOK
<1>1. IInv => BuffersOK
  <2> SUFFICES ASSUME IInv, NEW e \in Ends, NEW k, k = pk[e]
               PROVE  /\ k.pool + Cardinality({x \in Numbers : k.is[x] # "free"}) = WINDOWS
                      /\ k.xcount = Cardinality({x \in Numbers : k.os[x] # "null"})
                      /\ k.xcount <= WINDOWS
                      /\ k.rcount = Cardinality({x \in Numbers : k.is[x] = "copy"})
    BY DEF BuffersOK
  <2>1. Sound(k) /\ k \in Packs BY StateType
  <2>2. /\ k.pscopy \in Numbers /\ k.pr \in Numbers /\ k.xcount \in Nat /\ k.rcount \in Nat
        /\ k.xcount <= WINDOWS /\ k.rcount <= WINDOWS /\ WINDOWS < MOD /\ MOD \in Nat
    <3>1. k.xcount <= WINDOWS /\ k.rcount <= WINDOWS BY <2>1 DEF Sound, Sending, Placed
    <3> QED BY <2>1, <3>1, PackType, Sizes
  <2>3. k.pool + Cardinality({x \in Numbers : k.is[x] # "free"}) = WINDOWS
    BY <2>1 DEF Sound, Pooled, Taken
  <2>4. k.xcount = Cardinality({x \in Numbers : k.os[x] # "null"})
    <3>1. {x \in Numbers : k.os[x] # "null"}
            = {x \in Numbers : 0 <= Dist(x, k.pscopy) /\ Dist(x, k.pscopy) < k.xcount}
      <4>1. \A x \in Numbers : Dist(x, k.pscopy) \in Nat BY <2>2, DistIs
      <4>2. \A x \in Numbers : k.os[x] # "null" <=> Dist(x, k.pscopy) < k.xcount
        BY <2>1 DEF Sound, Sending, Back
      <4>3. \A x \in Numbers : 0 <= Dist(x, k.pscopy) BY <4>1
      <4> QED BY <4>2, <4>3
    <3>2. k.xcount <= MOD /\ 0 <= k.xcount BY <2>2, Sizes
    <3>3. Cardinality({x \in Numbers : 0 <= Dist(x, k.pscopy) /\ Dist(x, k.pscopy) < k.xcount})
            = k.xcount - 0
      BY <2>2, <3>2, BehindCount
    <3> QED BY <2>2, <3>1, <3>3
  <2>5. k.rcount = Cardinality({x \in Numbers : k.is[x] = "copy"})
    <3>1. {x \in Numbers : k.is[x] = "copy"}
            = {x \in Numbers : 1 <= Dist(k.pr, x) /\ Dist(k.pr, x) <= k.rcount}
      BY <2>1 DEF Sound, Placed
    <3>2. k.rcount < MOD BY <2>2, Sizes
    <3>3. Cardinality({x \in Numbers : 1 <= Dist(k.pr, x) /\ Dist(k.pr, x) <= k.rcount})
            = IF 1 > k.rcount THEN 0 ELSE k.rcount - 1 + 1
      BY <2>2, <3>2, AheadCount
    <3> QED BY <2>2, <3>1, <3>3
  <2> QED BY <2>2, <2>3, <2>4, <2>5
<1> QED BY <1>1, PacketInvariant, PTL

(* The two ends agree on the window: the last number one has read lies     *)
(* between what the other knows to be acknowledged and what it has written *)
(* (pkwrite, pksack).                                                      *)
THEOREM PacketAligned == Spec => []Aligned
<1>1. IInv => Aligned
  <2> SUFFICES ASSUME IInv, NEW e \in Ends, NEW f, f = Other(e), NEW k, k = pk[e], NEW m, m = pk[f]
               PROVE  Dist(k.ps, k.pscopy) = k.xcount /\ Dist(k.ps, m.pr) <= k.xcount
    BY DEF Aligned
  <2>1. Linked(k, m, line[f], line[e], wrote[e], got[f], wrote[f], got[e]) BY StateLinked
  <2>2. /\ k \in Packs /\ m \in Packs /\ Sending(k) /\ Writes(k, m, wrote[e], got[f])
    BY <2>1 DEF Linked, Sound, Chan
  <2>3. /\ k.ps \in Numbers /\ k.pscopy \in Numbers /\ m.pr \in Numbers /\ k.xcount \in Nat
    BY <2>2, PackType
  <2>4. Dist(k.ps, k.pscopy) = k.xcount BY <2>2 DEF Sending, Back
  <2>5. Dist(m.pr, k.pscopy) <= k.xcount BY <2>2 DEF Writes, Back
  <2>6. \/ Dist(k.ps, k.pscopy) = Dist(k.ps, m.pr) + Dist(m.pr, k.pscopy)
        \/ Dist(k.ps, k.pscopy) + MOD = Dist(k.ps, m.pr) + Dist(m.pr, k.pscopy)
    BY <2>3, DistSum
  <2>7. /\ Dist(k.ps, m.pr) \in Nat /\ Dist(m.pr, k.pscopy) \in Nat /\ MOD \in Nat
        /\ Dist(k.ps, m.pr) < MOD
    BY <2>3, DistIs, Sizes
  <2> QED BY <2>3, <2>4, <2>5, <2>6, <2>7
<1> QED BY <1>1, PacketInvariant, PTL
=============================================================================
