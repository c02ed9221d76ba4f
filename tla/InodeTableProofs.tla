--------------------------- MODULE InodeTableProofs ---------------------------
(***************************************************************************)
(* The safety of the table of in-core inodes for any number of processes,  *)
(* slots, i-nodes and names, and whatever fails: no i-node is in two slots,*)
(* the reference counts are right, ILOCK has one holder and no sleeper is  *)
(* forgotten; and, until an i-node or an entry cannot be read or written,  *)
(* every name leads to an i-node that is in use.                           *)
(***************************************************************************)
EXTENDS InodeTable, FiniteSetTheorems, TLAPS

(* Where a process is at work on no inode, and where it is at work on one. *)
Idle == {"user", "iget", "ialloc", "loop", "search", "plock", "scan"}
Working == {"read", "got", "iput", "ifree", "iupdat", "itrunc", "wdir", "update"}

SlotType == [number : 0..NINO + 1, count : Nat, lock : BOOLEAN, want : BOOLEAN,
             chg : BOOLEAN, mode : BOOLEAN, nlink : Int]
UserType == [pc : Idle \cup Working,
             call : {"none", "open", "trunc", "creat", "unlink", "close", "sync"},
             name : Names \cup {"none"}, ino : 0..NINO, ip : 0..NINODE, pos : Nat,
             again : BOOLEAN, chan : 0..NINODE + 1]

(* The locals of a process fit the place where it is.                      *)
UserOK(p) ==
  /\ u[p] \in UserType
  /\ u[p].ip # 0 <=> u[p].pc \in Working
  /\ u[p].pc \in {"iget", "read"} => u[p].ino \in Inos
  /\ u[p].pc = "search" => u[p].pos \in Inos
  /\ u[p].pc = "plock" => file[p] # 0
  /\ u[p].pc = "itrunc" => u[p].call = "trunc"
  /\ u[p].call \in {"open", "trunc", "creat"} => file[p] = 0

UsersOK == u = [p \in Procs |-> u[p]] /\ \A p \in Procs : UserOK(p)

(* The slots that calls and files refer to hold an i-node of the volume;   *)
(* the directories and programs in use stay as they are; and an inode that *)
(* iput is about to give up gets no new reference.                         *)
SlotsOK ==
  /\ \A i \in Slots : inode[i].number = NINO + 1 => inode[i] = Foreign
  /\ \A p \in Procs : u[p].ip # 0 => inode[u[p].ip].number \in Inos
  /\ \A p \in Procs : file[p] # 0 => inode[file[p]].number \in Inos
  /\ \A p \in Procs : u[p].pc \in {"ifree", "iupdat"} => inode[u[p].ip].count = 1

(* A locked inode is one that exactly one process is at work on.           *)
LocksOK ==
  /\ \A p, q \in Procs : u[p].ip = u[q].ip /\ u[p].ip # 0 => p = q
  /\ \A i \in Slots : inode[i].lock <=> \E p \in Procs : u[p].ip = i

(* While s_ilock is set somebody searches the i-list.  There may be two:   *)
(* ialloc tests s_ilock before its loop, not in it.                        *)
SearchOK == silock => \E q \in Procs : u[q].pc = "search"

(* The inductive invariant.                                                *)
IInv ==
  /\ OneSlot /\ UsersOK /\ SlotsOK /\ LocksOK
  /\ RefCounts /\ NoLostWakeup /\ SearchOK

----------------------------------------------------------------------------
(* A step of p does no more to another process than wake it.               *)
SameUser(q) ==
  /\ u'[q] \in UserType
  /\ u'[q].pc = u[q].pc /\ u'[q].call = u[q].call /\ u'[q].ino = u[q].ino
  /\ u'[q].ip = u[q].ip /\ u'[q].pos = u[q].pos
  /\ u'[q].chan \in {u[q].chan, Awake}

OthersSame(p) ==
  /\ u' = [q \in Procs |-> u'[q]]
  /\ \A q \in Procs \ {p} : SameUser(q) /\ file'[q] = file[q]

(* A slot keeps what others rely on.                                       *)
SameSlot(i) ==
  /\ inode'[i].number = inode[i].number /\ inode'[i].count = inode[i].count
  /\ inode'[i].lock = inode[i].lock /\ inode'[i].want = inode[i].want
  /\ inode[i] = Foreign => inode'[i] = Foreign

One(b) == IF b THEN 1 ELSE 0

(* Sets of processes are finite.                                           *)
LEMMA ProcsCount ==
  ASSUME NEW S \in SUBSET Procs
  PROVE  IsFiniteSet(S) /\ Cardinality(S) \in Nat
<1>1. IsFiniteSet(S) BY ProcsAssumption, FS_Subset
<1> QED BY <1>1, FS_CardinalityType

(* What a step of one process adds to a number of processes.               *)
LEMMA CountStep ==
  ASSUME NEW p \in Procs, NEW S \in SUBSET Procs, NEW T \in SUBSET Procs,
         \A q \in Procs \ {p} : q \in S <=> q \in T
  PROVE  Cardinality(T) = Cardinality(S) + One(p \in T) - One(p \in S)
<1>1. IsFiniteSet(S) /\ Cardinality(S) \in Nat BY ProcsCount
<1>2. CASE p \in S /\ p \in T
  <2>1. S = T BY <1>2
  <2> QED BY <1>1, <1>2, <2>1 DEF One
<1>3. CASE p \notin S /\ p \notin T
  <2>1. S = T BY <1>3
  <2> QED BY <1>1, <1>3, <2>1 DEF One
<1>4. CASE p \notin S /\ p \in T
  <2>1. T = S \cup {p} BY <1>4
  <2>2. Cardinality(S \cup {p}) = Cardinality(S) + 1 BY <1>1, <1>4, FS_AddElement
  <2> QED BY <1>1, <1>4, <2>1, <2>2 DEF One
<1>5. CASE p \in S /\ p \notin T
  <2>1. T = S \ {p} BY <1>5
  <2>2. Cardinality(S \ {p}) = Cardinality(S) - 1 BY <1>1, <1>5, FS_RemoveElement
  <2> QED BY <1>1, <1>5, <2>1, <2>2 DEF One
<1> QED BY <1>2, <1>3, <1>4, <1>5

(* How a step leaves the reference counts right.                           *)
LEMMA RefsKept ==
  ASSUME IInv, NEW p \in Procs, OthersSame(p),
         \A i \in Slots : inode'[i] # Foreign =>
           /\ inode[i] # Foreign
           /\ inode'[i].count = inode[i].count + One(file'[p] = i) - One(file[p] = i)
                                               + One(u'[p].ip = i) - One(u[p].ip = i)
           /\ inode'[i].count = 0 <=> inode'[i].number = 0
  PROVE  RefCounts'
<1> SUFFICES ASSUME NEW i \in Slots, inode'[i] # Foreign
             PROVE  /\ inode'[i].count = Cardinality({q \in Procs : file'[q] = i})
                                         + Cardinality({q \in Procs : u'[q].ip = i})
                    /\ inode'[i].count = 0 <=> inode'[i].number = 0
  BY DEF RefCounts, Slots
<1> DEFINE F == {q \in Procs : file[q] = i}
           G == {q \in Procs : file'[q] = i}
           H == {q \in Procs : u[q].ip = i}
           J == {q \in Procs : u'[q].ip = i}
<1>1. inode[i].count = Cardinality(F) + Cardinality(H) BY DEF IInv, RefCounts
<1>2. Cardinality(F) \in Nat /\ Cardinality(H) \in Nat BY ProcsCount
<1>3. Cardinality(G) = Cardinality(F) + One(p \in G) - One(p \in F)
  <2>1. \A q \in Procs \ {p} : q \in F <=> q \in G BY DEF OthersSame
  <2> QED BY <2>1, CountStep
<1>4. Cardinality(J) = Cardinality(H) + One(p \in J) - One(p \in H)
  <2>1. \A q \in Procs \ {p} : q \in H <=> q \in J BY DEF OthersSame, SameUser
  <2> QED BY <2>1, CountStep
<1>5. /\ One(p \in G) = One(file'[p] = i) /\ One(p \in F) = One(file[p] = i)
      /\ One(p \in J) = One(u'[p].ip = i) /\ One(p \in H) = One(u[p].ip = i)
  OBVIOUS
<1>6. \A b : One(b) \in Nat BY DEF One
<1> HIDE DEF F, G, H, J
<1>7. inode'[i].count = Cardinality(G) + Cardinality(J) BY <1>1, <1>2, <1>3, <1>4, <1>5, <1>6
<1> QED BY <1>7 DEF G, J

(* Every process stays in order.                                           *)
LEMMA UsersKept ==
  ASSUME IInv, NEW p \in Procs, OthersSame(p), UserOK(p)'
  PROVE  UsersOK'
<1>1. ASSUME NEW q \in Procs \ {p} PROVE UserOK(q)'
  BY <1>1 DEF OthersSame, SameUser, IInv, UsersOK, UserOK
<1> QED BY <1>1 DEF OthersSame, UsersOK

(* Most steps leave locks, counts and numbers alone.                       *)
LEMMA QuietStep ==
  ASSUME IInv, NEW p \in Procs, OthersSame(p), UserOK(p)', TypeOK',
         file' = file, u'[p].ip = u[p].ip, \A i \in Slots : SameSlot(i),
         u'[p].chan \in {Awake, SIlock},
         u'[p].pc \in {"ifree", "iupdat"} => inode[u[p].ip].count = 1,
         \/ /\ silock' = silock /\ (u[p].pc = "search" => u'[p].pc = "search")
            /\ u'[p].chan = SIlock => silock
         \/ silock' = TRUE /\ u'[p].pc = "search"
         \/ silock' = FALSE /\ \A q \in Procs : u'[q].chan # SIlock
  PROVE  IInv'
<1>1. UsersOK' BY UsersKept
<1>2. \A q \in Procs : u'[q].ip = u[q].ip BY DEF OthersSame, SameUser
<1>3. OneSlot' BY DEF IInv, OneSlot, SameSlot, Slots, Inos
<1>4. SlotsOK'
  <2>1. \A i \in Slots : inode'[i].number = NINO + 1 => inode'[i] = Foreign
    BY DEF IInv, SlotsOK, SameSlot
  <2>2. \A q \in Procs : u'[q].ip # 0 => u'[q].ip \in Slots /\ inode'[u'[q].ip].number \in Inos
    BY <1>2, SizesAssumption DEF IInv, SlotsOK, SameSlot, UsersOK, UserOK, UserType, Slots
  <2>3. \A q \in Procs : file'[q] # 0 => file'[q] \in Slots /\ inode'[file'[q]].number \in Inos
    BY DEF IInv, SlotsOK, SameSlot, OneSlot, TypeOK, Slots
  <2>4. ASSUME NEW q \in Procs, u'[q].pc \in {"ifree", "iupdat"} PROVE inode'[u'[q].ip].count = 1
    <3>1. UserOK(q)' /\ u'[q].ip \in Slots
      BY <1>1, <2>2, <2>4 DEF UsersOK, UserOK, Working
    <3>2. inode[u[q].ip].count = 1
      BY <2>4 DEF OthersSame, SameUser, IInv, SlotsOK
    <3> QED BY <1>2, <3>1, <3>2 DEF SameSlot
  <2> QED BY <2>1, <2>2, <2>3, <2>4 DEF SlotsOK
<1>5. LocksOK' BY <1>2 DEF IInv, LocksOK, SameSlot
<1>6. RefCounts'
  <2>1. ASSUME NEW i \in Slots, inode'[i] # Foreign
        PROVE  /\ inode[i] # Foreign
               /\ inode'[i].count = inode[i].count + One(file'[p] = i) - One(file[p] = i)
                                                   + One(u'[p].ip = i) - One(u[p].ip = i)
               /\ inode'[i].count = 0 <=> inode'[i].number = 0
    <3>1. inode[i] # Foreign BY <2>1 DEF SameSlot
    <3>2. inode[i].count \in Nat BY DEF IInv, OneSlot, TypeOK
    <3>3. inode[i].count = 0 <=> inode[i].number = 0 BY <3>1 DEF IInv, RefCounts
    <3> QED BY <3>1, <3>2, <3>3 DEF SameSlot, One
  <2> QED BY <2>1, RefsKept
<1>7. SearchOK'
  <2>1. CASE silock' = silock /\ (u[p].pc = "search" => u'[p].pc = "search")
    BY <2>1 DEF IInv, SearchOK, OthersSame, SameUser
  <2> QED BY <2>1 DEF SearchOK
<1>8. NoLostWakeup'
  <2> SUFFICES ASSUME NEW q \in Procs
               PROVE  /\ u'[q].chan \in Slots => inode'[u'[q].chan].lock /\ inode'[u'[q].chan].want
                      /\ u'[q].chan = SIlock => silock'
    BY <1>7 DEF NoLostWakeup, SearchOK, Slots
  <2>1. Awake \notin Slots /\ SIlock \notin Slots /\ Awake # SIlock
    BY SizesAssumption DEF Awake, SIlock, Slots
  <2>2. CASE q = p BY <2>1, <2>2
  <2>3. CASE q # p
    BY <2>1, <2>3 DEF IInv, NoLostWakeup, OthersSame, SameUser, SameSlot
  <2> QED BY <2>2, <2>3
<1> QED BY <1>1, <1>3, <1>4, <1>5, <1>6, <1>7, <1>8 DEF IInv

(* A process outside of the kernel.                                        *)
LEMMA UserType0 == User \in UserType
BY SizesAssumption DEF User, UserType, Idle, Working, Awake

(* What is known of a process, and of the inode it is at work on.          *)
LEMMA UserFacts ==
  ASSUME IInv, NEW p \in Procs
  PROVE  /\ u \in [Procs -> UserType] /\ UserOK(p)
         /\ u[p].pc \in Idle \cup Working /\ u[p].ino \in 0..NINO /\ u[p].pos \in Nat
         /\ u[p].ip \in 0..NINODE /\ u[p].again \in BOOLEAN
<1>1. u \in [Procs -> UserType] /\ UserOK(p) BY DEF IInv, UsersOK, UserOK
<1> QED BY <1>1 DEF UserType

(* A process at work on an inode holds its lock, and nobody else is at     *)
(* work on it.                                                             *)
LEMMA SlotFacts ==
  ASSUME IInv, NEW p \in Procs, u[p].pc \in Working
  PROVE  /\ u[p].ip \in Slots /\ inode[u[p].ip].number \in Inos /\ inode[u[p].ip].lock = TRUE
         /\ inode[u[p].ip] \in SlotType /\ inode[u[p].ip] # Foreign
         /\ \A q \in Procs \ {p} : u[q].ip # u[p].ip
<1>1. u[p].ip # 0 /\ u[p].ip \in 0..NINODE BY UserFacts DEF UserOK
<1>2. u[p].ip \in Slots BY <1>1, SizesAssumption DEF Slots
<1>3. inode[u[p].ip].number \in Inos BY <1>1 DEF IInv, SlotsOK
<1>4. inode[u[p].ip] \in SlotType BY <1>2 DEF IInv, OneSlot, TypeOK, SlotType
<1>5. inode[u[p].ip].lock = TRUE /\ \A q \in Procs \ {p} : u[q].ip # u[p].ip
  BY <1>1, <1>2, <1>4 DEF IInv, LocksOK, SlotType
<1>6. inode[u[p].ip] # Foreign
  <2>1. Foreign.number = NINO + 1 BY DEF Foreign, Empty
  <2> QED BY <1>3, <2>1, SizesAssumption DEF Inos
<1> QED BY <1>2, <1>3, <1>4, <1>5, <1>6

(* A step that changes the locals of one process only.                     *)
LEMMA UserStep ==
  ASSUME IInv, NEW p \in Procs, NEW r \in UserType, u' = [u EXCEPT ![p] = r],
         \A q \in Procs \ {p} : file'[q] = file[q]
  PROVE  OthersSame(p) /\ u'[p] = r
<1>1. u \in [Procs -> UserType] BY UserFacts
<1>2. u' = [q \in Procs |-> u'[q]] /\ u'[p] = r BY <1>1
<1>3. \A q \in Procs \ {p} : u'[q] = u[q] /\ u[q] \in UserType BY <1>1
<1> QED BY <1>2, <1>3 DEF OthersSame, SameUser

(* A step that changes what only the holder of an inode looks at.          *)
LEMMA SlotStep ==
  ASSUME IInv, NEW p \in Procs, u[p].pc \in Working, NEW s \in SlotType,
         inode' = [inode EXCEPT ![u[p].ip] = s],
         s.number = inode[u[p].ip].number, s.count = inode[u[p].ip].count,
         s.lock = TRUE, s.want = inode[u[p].ip].want
  PROVE  inode' \in [Slots -> SlotType] /\ \A i \in Slots : SameSlot(i)
<1>1. inode \in [Slots -> SlotType] BY DEF IInv, OneSlot, TypeOK, SlotType
<1>2. inode'[u[p].ip] = s BY <1>1, SlotFacts
<1>3. \A i \in Slots \ {u[p].ip} : inode'[i] = inode[i] BY <1>1
<1>4. inode' \in [Slots -> SlotType] BY <1>1
<1>5. SameSlot(u[p].ip) BY <1>2, SlotFacts DEF SameSlot
<1>6. \A i \in Slots \ {u[p].ip} : SameSlot(i) BY <1>3 DEF SameSlot
<1> QED BY <1>4, <1>5, <1>6

----------------------------------------------------------------------------
(* open and creat of a name that exists.                                   *)
LEMMA NameiKeeps ==
  ASSUME IInv, NEW p \in Procs, NEW call \in {"open", "trunc"}, NEW n \in Names, Namei(p, call, n)
  PROVE  IInv'
<1> DEFINE r == [User EXCEPT !.pc = "iget", !.call = call, !.name = n, !.ino = dir[n]]
<1>1. u \in [Procs -> UserType] /\ u[p] \in UserType /\ UserOK(p) BY UserFacts DEF UserOK
<1>2. /\ u' = [u EXCEPT ![p] = r] /\ u[p].pc = "user"
      /\ u[p].chan = Awake /\ file' = file /\ file[p] = 0 /\ dir[n] \in Inos
  BY <1>1 DEF At, Namei, Inos, IInv, OneSlot, TypeOK
<1>3. User \in UserType BY UserType0
<1>a. dir[n] \in 0..NINO BY <1>2, SizesAssumption DEF Inos
<1>4. r \in UserType BY <1>3, <1>a DEF UserType, Idle, Working
<1>5. OthersSame(p) /\ u'[p] = r BY <1>2, <1>4, UserStep
<1>9. inode' = inode /\ inode' \in [Slots -> SlotType] /\ \A i \in Slots : SameSlot(i)
  BY DEF Namei, SameSlot, IInv, OneSlot, TypeOK, SlotType
<1>10. UserOK(p)' /\ r.ip = u[p].ip
  BY <1>1, <1>2, <1>3, <1>a, <1>4, <1>5 DEF UserOK, UserType, User, Idle, Working
<1>11. r.chan = Awake /\ (r.pc = "search" \/ u[p].pc # "search") BY <1>1, <1>2 DEF UserType, User
<1>12. TypeOK' BY <1>2, <1>9 DEF Namei, IInv, OneSlot, TypeOK, SlotType
<1>13. silock' = silock BY DEF Namei
<1>15. r.pc \notin {"ifree", "iupdat"} BY <1>1, <1>2 DEF UserType, User
<1>14. Awake # SIlock BY SizesAssumption DEF Awake, SIlock
<1> QED BY <1>2, <1>5, <1>9, <1>10, <1>11, <1>12, <1>13, <1>14, <1>15, QuietStep

(* creat of a new name.                                                    *)
LEMMA CreatNewKeeps ==
  ASSUME IInv, NEW p \in Procs, NEW n \in Names, CreatNew(p, n)
  PROVE  IInv'
<1> DEFINE r == [User EXCEPT !.pc = "ialloc", !.call = "creat", !.name = n]
<1>1. u \in [Procs -> UserType] /\ u[p] \in UserType /\ UserOK(p) BY UserFacts DEF UserOK
<1>2. /\ u' = [u EXCEPT ![p] = r] /\ u[p].pc = "user"
      /\ u[p].chan = Awake /\ file' = file /\ file[p] = 0
  BY <1>1 DEF At, CreatNew
<1>3. User \in UserType BY UserType0
<1>4. r \in UserType BY <1>3 DEF UserType, Idle, Working
<1>5. OthersSame(p) /\ u'[p] = r BY <1>2, <1>4, UserStep
<1>9. inode' = inode /\ inode' \in [Slots -> SlotType] /\ \A i \in Slots : SameSlot(i)
  BY DEF CreatNew, SameSlot, IInv, OneSlot, TypeOK, SlotType
<1>10. UserOK(p)' /\ r.ip = u[p].ip
  BY <1>1, <1>2, <1>3, <1>4, <1>5 DEF UserOK, UserType, User, Idle, Working
<1>11. r.chan = Awake /\ (r.pc = "search" \/ u[p].pc # "search") BY <1>1, <1>2 DEF UserType, User
<1>12. TypeOK' BY <1>2, <1>9 DEF CreatNew, IInv, OneSlot, TypeOK, SlotType
<1>13. silock' = silock BY DEF CreatNew
<1>15. r.pc \notin {"ifree", "iupdat"} BY <1>1, <1>2 DEF UserType, User
<1>14. Awake # SIlock BY SizesAssumption DEF Awake, SIlock
<1> QED BY <1>2, <1>5, <1>9, <1>10, <1>11, <1>12, <1>13, <1>14, <1>15, QuietStep

(* unlink begins.                                                          *)
LEMMA UnlinkKeeps ==
  ASSUME IInv, NEW p \in Procs, NEW n \in Names, Unlink(p, n)
  PROVE  IInv'
<1> DEFINE r == [User EXCEPT !.pc = "iget", !.call = "unlink", !.name = n, !.ino = dir[n]]
<1>1. u \in [Procs -> UserType] /\ u[p] \in UserType /\ UserOK(p) BY UserFacts DEF UserOK
<1>2. /\ u' = [u EXCEPT ![p] = r] /\ u[p].pc = "user"
      /\ u[p].chan = Awake /\ file' = file /\ dir[n] \in Inos
  BY <1>1 DEF At, Unlink, Inos, IInv, OneSlot, TypeOK
<1>3. User \in UserType BY UserType0
<1>a. dir[n] \in 0..NINO BY <1>2, SizesAssumption DEF Inos
<1>4. r \in UserType BY <1>3, <1>a DEF UserType, Idle, Working
<1>5. OthersSame(p) /\ u'[p] = r BY <1>2, <1>4, UserStep
<1>9. inode' = inode /\ inode' \in [Slots -> SlotType] /\ \A i \in Slots : SameSlot(i)
  BY DEF Unlink, SameSlot, IInv, OneSlot, TypeOK, SlotType
<1>10. UserOK(p)' /\ r.ip = u[p].ip
  BY <1>1, <1>2, <1>3, <1>a, <1>4, <1>5 DEF UserOK, UserType, User, Idle, Working
<1>11. r.chan = Awake /\ (r.pc = "search" \/ u[p].pc # "search") BY <1>1, <1>2 DEF UserType, User
<1>12. TypeOK' BY <1>2, <1>9 DEF Unlink, IInv, OneSlot, TypeOK, SlotType
<1>13. silock' = silock BY DEF Unlink
<1>15. r.pc \notin {"ifree", "iupdat"} BY <1>1, <1>2 DEF UserType, User
<1>14. Awake # SIlock BY SizesAssumption DEF Awake, SIlock
<1> QED BY <1>2, <1>5, <1>9, <1>10, <1>11, <1>12, <1>13, <1>14, <1>15, QuietStep

(* close of a file begins.                                                 *)
LEMMA CloseKeeps ==
  ASSUME IInv, NEW p \in Procs, Close(p)
  PROVE  IInv'
<1> DEFINE r == [User EXCEPT !.pc = "plock", !.call = "close"]
<1>1. u \in [Procs -> UserType] /\ u[p] \in UserType /\ UserOK(p) BY UserFacts DEF UserOK
<1>2. /\ u' = [u EXCEPT ![p] = r] /\ u[p].pc = "user"
      /\ u[p].chan = Awake /\ file' = file /\ file[p] # 0
  BY <1>1 DEF At, Close
<1>3. User \in UserType BY UserType0
<1>4. r \in UserType BY <1>3 DEF UserType, Idle, Working
<1>5. OthersSame(p) /\ u'[p] = r BY <1>2, <1>4, UserStep
<1>9. inode' = inode /\ inode' \in [Slots -> SlotType] /\ \A i \in Slots : SameSlot(i)
  BY DEF Close, SameSlot, IInv, OneSlot, TypeOK, SlotType
<1>10. UserOK(p)' /\ r.ip = u[p].ip
  BY <1>1, <1>2, <1>3, <1>4, <1>5 DEF UserOK, UserType, User, Idle, Working
<1>11. r.chan = Awake /\ (r.pc = "search" \/ u[p].pc # "search") BY <1>1, <1>2 DEF UserType, User
<1>12. TypeOK' BY <1>2, <1>9 DEF Close, IInv, OneSlot, TypeOK, SlotType
<1>13. silock' = silock BY DEF Close
<1>15. r.pc \notin {"ifree", "iupdat"} BY <1>1, <1>2 DEF UserType, User
<1>14. Awake # SIlock BY SizesAssumption DEF Awake, SIlock
<1> QED BY <1>2, <1>5, <1>9, <1>10, <1>11, <1>12, <1>13, <1>14, <1>15, QuietStep

(* sync begins.                                                            *)
LEMMA SyncKeeps ==
  ASSUME IInv, NEW p \in Procs, Sync(p)
  PROVE  IInv'
<1> DEFINE r == [User EXCEPT !.pc = "scan", !.call = "sync", !.pos = 1]
<1>1. u \in [Procs -> UserType] /\ u[p] \in UserType /\ UserOK(p) BY UserFacts DEF UserOK
<1>2. /\ u' = [u EXCEPT ![p] = r] /\ u[p].pc = "user"
      /\ u[p].chan = Awake /\ file' = file
  BY <1>1 DEF At, Sync
<1>3. User \in UserType BY UserType0
<1>4. r \in UserType BY <1>3 DEF UserType, Idle, Working
<1>5. OthersSame(p) /\ u'[p] = r BY <1>2, <1>4, UserStep
<1>9. inode' = inode /\ inode' \in [Slots -> SlotType] /\ \A i \in Slots : SameSlot(i)
  BY DEF Sync, SameSlot, IInv, OneSlot, TypeOK, SlotType
<1>10. UserOK(p)' /\ r.ip = u[p].ip
  BY <1>1, <1>2, <1>3, <1>4, <1>5 DEF UserOK, UserType, User, Idle, Working
<1>11. r.chan = Awake /\ (r.pc = "search" \/ u[p].pc # "search") BY <1>1, <1>2 DEF UserType, User
<1>12. TypeOK' BY <1>2, <1>9 DEF Sync, IInv, OneSlot, TypeOK, SlotType
<1>13. silock' = silock BY DEF Sync
<1>15. r.pc \notin {"ifree", "iupdat"} BY <1>1, <1>2 DEF UserType, User
<1>14. Awake # SIlock BY SizesAssumption DEF Awake, SIlock
<1> QED BY <1>2, <1>5, <1>9, <1>10, <1>11, <1>12, <1>13, <1>14, <1>15, QuietStep

(* iget has read the i-node.                                               *)
LEMMA IgetReadKeeps ==
  ASSUME IInv, NEW p \in Procs, IgetRead(p)
  PROVE  IInv'
<1> DEFINE r == [u[p] EXCEPT !.pc = "got"]
           s == [inode[u[p].ip] EXCEPT !.mode = dinode[u[p].ino].mode, !.nlink = dinode[u[p].ino].nlink]
<1>1. u \in [Procs -> UserType] /\ u[p] \in UserType /\ UserOK(p) BY UserFacts DEF UserOK
<1>2. /\ u' = [u EXCEPT ![p] = r] /\ u[p].pc = "read"
      /\ u[p].chan = Awake /\ file' = file
  BY <1>1 DEF At, IgetRead, Run
<1>4. r \in UserType BY <1>1, <1>2, SizesAssumption DEF UserType, Idle, Working, Awake, Inos
<1>5. OthersSame(p) /\ u'[p] = r BY <1>2, <1>4, UserStep
<1>6. /\ u[p].ip \in Slots /\ inode[u[p].ip].number \in Inos /\ inode[u[p].ip].lock = TRUE
      /\ inode[u[p].ip] \in SlotType /\ u[p].pc \in Working
  BY <1>2, SlotFacts DEF Working
<1>a. dinode[u[p].ino].mode \in BOOLEAN /\ dinode[u[p].ino].nlink \in Int
  BY <1>1, <1>2 DEF UserOK, IInv, OneSlot, TypeOK
<1>7. s \in SlotType BY <1>6, <1>a DEF SlotType
<1>8. inode' = [inode EXCEPT ![u[p].ip] = s] BY <1>6 DEF IgetRead, Run, IInv, OneSlot, TypeOK
<1>9. inode' \in [Slots -> SlotType] /\ \A i \in Slots : SameSlot(i)
  <2>1. /\ s.number = inode[u[p].ip].number /\ s.count = inode[u[p].ip].count
        /\ s.lock = TRUE /\ s.want = inode[u[p].ip].want
    BY <1>6 DEF SlotType
  <2> HIDE DEF s
  <2> QED BY <1>6, <1>7, <1>8, <2>1, SlotStep
<1>10. UserOK(p)' /\ r.ip = u[p].ip
  BY <1>1, <1>2, <1>4, <1>5 DEF UserOK, UserType, User, Idle, Working
<1>11. r.chan = Awake /\ (r.pc = "search" \/ u[p].pc # "search") BY <1>1, <1>2 DEF UserType, User
<1>12. TypeOK' BY <1>2, <1>9 DEF IgetRead, Run, IInv, OneSlot, TypeOK, SlotType
<1>13. silock' = silock BY DEF IgetRead
<1>15. r.pc \notin {"ifree", "iupdat"} BY <1>1, <1>2 DEF UserType, User
<1>14. Awake # SIlock BY SizesAssumption DEF Awake, SIlock
<1> QED BY <1>2, <1>5, <1>9, <1>10, <1>11, <1>12, <1>13, <1>14, <1>15, QuietStep

(* iget could not read the i-node.                                         *)
LEMMA IgetErrorKeeps ==
  ASSUME IInv, NEW p \in Procs, IgetError(p)
  PROVE  IInv'
<1> DEFINE r == [u[p] EXCEPT !.pc = "iput"]
<1>1. u \in [Procs -> UserType] /\ u[p] \in UserType /\ UserOK(p) BY UserFacts DEF UserOK
<1>2. /\ u' = [u EXCEPT ![p] = r] /\ u[p].pc = "read"
      /\ u[p].chan = Awake /\ file' = file
  BY <1>1 DEF At, IgetError, Run, Fails
<1>4. r \in UserType BY <1>1, <1>2, SizesAssumption DEF UserType, Idle, Working, Awake, Inos
<1>5. OthersSame(p) /\ u'[p] = r BY <1>2, <1>4, UserStep
<1>6. /\ u[p].ip \in Slots /\ inode[u[p].ip].number \in Inos /\ inode[u[p].ip].lock = TRUE
      /\ inode[u[p].ip] \in SlotType /\ u[p].pc \in Working
  BY <1>2, SlotFacts DEF Working
<1>9. inode' = inode /\ inode' \in [Slots -> SlotType] /\ \A i \in Slots : SameSlot(i)
  BY DEF IgetError, SameSlot, IInv, OneSlot, TypeOK, SlotType
<1>10. UserOK(p)' /\ r.ip = u[p].ip
  BY <1>1, <1>2, <1>4, <1>5 DEF UserOK, UserType, User, Idle, Working
<1>11. r.chan = Awake /\ (r.pc = "search" \/ u[p].pc # "search") BY <1>1, <1>2 DEF UserType, User
<1>12. TypeOK' BY <1>2, <1>9 DEF IgetError, Run, Fails, IInv, OneSlot, TypeOK, SlotType
<1>13. silock' = silock BY DEF IgetError
<1>15. r.pc \notin {"ifree", "iupdat"} BY <1>1, <1>2 DEF UserType, User
<1>14. Awake # SIlock BY SizesAssumption DEF Awake, SIlock
<1> QED BY <1>2, <1>5, <1>9, <1>10, <1>11, <1>12, <1>13, <1>14, <1>15, QuietStep

(* iput of the last reference to a file without links.                     *)
LEMMA IputTruncKeeps ==
  ASSUME IInv, NEW p \in Procs, IputTrunc(p)
  PROVE  IInv'
<1> DEFINE r == [u[p] EXCEPT !.pc = "ifree"]
           s == [inode[u[p].ip] EXCEPT !.lock = TRUE]
<1>1. u \in [Procs -> UserType] /\ u[p] \in UserType /\ UserOK(p) BY UserFacts DEF UserOK
<1>2. /\ u' = [u EXCEPT ![p] = r] /\ u[p].pc = "iput"
      /\ u[p].chan = Awake /\ file' = file
  BY <1>1 DEF At, IputTrunc, Run, Disk
<1>4. r \in UserType BY <1>1, <1>2, SizesAssumption DEF UserType, Idle, Working, Awake, Inos
<1>5. OthersSame(p) /\ u'[p] = r BY <1>2, <1>4, UserStep
<1>6. /\ u[p].ip \in Slots /\ inode[u[p].ip].number \in Inos /\ inode[u[p].ip].lock = TRUE
      /\ inode[u[p].ip] \in SlotType /\ u[p].pc \in Working
  BY <1>2, SlotFacts DEF Working
<1>7. s \in SlotType BY <1>6 DEF SlotType
<1>8. inode' = [inode EXCEPT ![u[p].ip] = s] BY <1>6 DEF IputTrunc, Run, Disk, IInv, OneSlot, TypeOK
<1>9. inode' \in [Slots -> SlotType] /\ \A i \in Slots : SameSlot(i)
  <2>1. /\ s.number = inode[u[p].ip].number /\ s.count = inode[u[p].ip].count
        /\ s.lock = TRUE /\ s.want = inode[u[p].ip].want
    BY <1>6 DEF SlotType
  <2> HIDE DEF s
  <2> QED BY <1>6, <1>7, <1>8, <2>1, SlotStep
<1>10. UserOK(p)' /\ r.ip = u[p].ip
  BY <1>1, <1>2, <1>4, <1>5 DEF UserOK, UserType, User, Idle, Working
<1>11. r.chan = Awake /\ (r.pc = "search" \/ u[p].pc # "search") BY <1>1, <1>2 DEF UserType, User
<1>12. TypeOK' BY <1>2, <1>9 DEF IputTrunc, Run, Disk, IInv, OneSlot, TypeOK, SlotType
<1>13. silock' = silock BY DEF IputTrunc
<1>15. inode[u[p].ip].count = 1 BY DEF IputTrunc
<1>14. Awake # SIlock BY SizesAssumption DEF Awake, SIlock
<1> QED BY <1>2, <1>5, <1>9, <1>10, <1>11, <1>12, <1>13, <1>14, <1>15, QuietStep

(* iput frees the i-node.                                                  *)
LEMMA IputFreeKeeps ==
  ASSUME IInv, NEW p \in Procs, IputFree(p)
  PROVE  IInv'
<1> DEFINE r == [u[p] EXCEPT !.pc = "iupdat"]
           s == [inode[u[p].ip] EXCEPT !.mode = FALSE, !.chg = TRUE]
<1>1. u \in [Procs -> UserType] /\ u[p] \in UserType /\ UserOK(p) BY UserFacts DEF UserOK
<1>2. /\ u' = [u EXCEPT ![p] = r] /\ u[p].pc = "ifree"
      /\ u[p].chan = Awake /\ file' = file
  BY <1>1 DEF At, IputFree, Disk
<1>4. r \in UserType BY <1>1, <1>2, SizesAssumption DEF UserType, Idle, Working, Awake, Inos
<1>5. OthersSame(p) /\ u'[p] = r BY <1>2, <1>4, UserStep
<1>6. /\ u[p].ip \in Slots /\ inode[u[p].ip].number \in Inos /\ inode[u[p].ip].lock = TRUE
      /\ inode[u[p].ip] \in SlotType /\ u[p].pc \in Working
  BY <1>2, SlotFacts DEF Working
<1>7. s \in SlotType BY <1>6 DEF SlotType
<1>8. inode' = [inode EXCEPT ![u[p].ip] = s] BY <1>6 DEF IputFree, Disk, IInv, OneSlot, TypeOK
<1>9. inode' \in [Slots -> SlotType] /\ \A i \in Slots : SameSlot(i)
  <2>1. /\ s.number = inode[u[p].ip].number /\ s.count = inode[u[p].ip].count
        /\ s.lock = TRUE /\ s.want = inode[u[p].ip].want
    BY <1>6 DEF SlotType
  <2> HIDE DEF s
  <2> QED BY <1>6, <1>7, <1>8, <2>1, SlotStep
<1>10. UserOK(p)' /\ r.ip = u[p].ip
  BY <1>1, <1>2, <1>4, <1>5 DEF UserOK, UserType, User, Idle, Working
<1>11. r.chan = Awake /\ (r.pc = "search" \/ u[p].pc # "search") BY <1>1, <1>2 DEF UserType, User
<1>12. TypeOK'
  <2>1. Ifree(inode[u[p].ip].number) \in Seq(Inos) BY <1>6 DEF Ifree, IInv, OneSlot, TypeOK
  <2> QED BY <1>2, <1>9, <2>1 DEF IputFree, Disk, IInv, OneSlot, TypeOK, SlotType
<1>13. silock' = silock BY DEF IputFree
<1>15. inode[u[p].ip].count = 1 BY <1>2 DEF IInv, SlotsOK
<1>14. Awake # SIlock BY SizesAssumption DEF Awake, SIlock
<1> QED BY <1>2, <1>5, <1>9, <1>10, <1>11, <1>12, <1>13, <1>14, <1>15, QuietStep

(* iput writes the i-node.                                                 *)
LEMMA IputWriteKeeps ==
  ASSUME IInv, NEW p \in Procs, IputWrite(p)
  PROVE  IInv'
<1> DEFINE r == [u[p] EXCEPT !.pc = "iupdat"]
           s == [inode[u[p].ip] EXCEPT !.lock = TRUE]
<1>1. u \in [Procs -> UserType] /\ u[p] \in UserType /\ UserOK(p) BY UserFacts DEF UserOK
<1>2. /\ u' = [u EXCEPT ![p] = r] /\ u[p].pc = "iput"
      /\ u[p].chan = Awake /\ file' = file
  BY <1>1 DEF At, IputWrite, Disk
<1>4. r \in UserType BY <1>1, <1>2, SizesAssumption DEF UserType, Idle, Working, Awake, Inos
<1>5. OthersSame(p) /\ u'[p] = r BY <1>2, <1>4, UserStep
<1>6. /\ u[p].ip \in Slots /\ inode[u[p].ip].number \in Inos /\ inode[u[p].ip].lock = TRUE
      /\ inode[u[p].ip] \in SlotType /\ u[p].pc \in Working
  BY <1>2, SlotFacts DEF Working
<1>7. s \in SlotType BY <1>6 DEF SlotType
<1>8. inode' = [inode EXCEPT ![u[p].ip] = s] BY <1>6 DEF IputWrite, Disk, IInv, OneSlot, TypeOK
<1>9. inode' \in [Slots -> SlotType] /\ \A i \in Slots : SameSlot(i)
  <2>1. /\ s.number = inode[u[p].ip].number /\ s.count = inode[u[p].ip].count
        /\ s.lock = TRUE /\ s.want = inode[u[p].ip].want
    BY <1>6 DEF SlotType
  <2> HIDE DEF s
  <2> QED BY <1>6, <1>7, <1>8, <2>1, SlotStep
<1>10. UserOK(p)' /\ r.ip = u[p].ip
  BY <1>1, <1>2, <1>4, <1>5 DEF UserOK, UserType, User, Idle, Working
<1>11. r.chan = Awake /\ (r.pc = "search" \/ u[p].pc # "search") BY <1>1, <1>2 DEF UserType, User
<1>12. TypeOK' BY <1>2, <1>9 DEF IputWrite, Disk, IInv, OneSlot, TypeOK, SlotType
<1>13. silock' = silock BY DEF IputWrite
<1>15. inode[u[p].ip].count = 1 BY DEF IputWrite
<1>14. Awake # SIlock BY SizesAssumption DEF Awake, SIlock
<1> QED BY <1>2, <1>5, <1>9, <1>10, <1>11, <1>12, <1>13, <1>14, <1>15, QuietStep

(* ialloc waits for the search of another process.                         *)
LEMMA IallocWaitKeeps ==
  ASSUME IInv, NEW p \in Procs, IallocWait(p)
  PROVE  IInv'
<1> DEFINE r == [u[p] EXCEPT !.chan = SIlock]
<1>1. u \in [Procs -> UserType] /\ u[p] \in UserType /\ UserOK(p) BY UserFacts DEF UserOK
<1>2. /\ u' = [u EXCEPT ![p] = r] /\ u[p].pc = "ialloc"
      /\ u[p].chan = Awake /\ file' = file
  BY <1>1 DEF At, IallocWait, SleepOn
<1>3. SIlock \in 0..NINODE + 1 BY SizesAssumption DEF SIlock
<1>4. r \in UserType BY <1>1, <1>2, <1>3, SizesAssumption DEF UserType, Idle, Working, Awake, Inos
<1>5. OthersSame(p) /\ u'[p] = r BY <1>2, <1>4, UserStep
<1>9. inode' = inode /\ inode' \in [Slots -> SlotType] /\ \A i \in Slots : SameSlot(i)
  BY DEF IallocWait, SameSlot, IInv, OneSlot, TypeOK, SlotType
<1>10. UserOK(p)' /\ r.ip = u[p].ip
  BY <1>1, <1>2, <1>3, <1>4, <1>5 DEF UserOK, UserType, User, Idle, Working
<1>11. r.chan = SIlock /\ (r.pc = "search" \/ u[p].pc # "search") BY <1>1, <1>2 DEF UserType, User
<1>12. TypeOK' BY <1>2, <1>9 DEF IallocWait, SleepOn, IInv, OneSlot, TypeOK, SlotType
<1>13. silock' = silock /\ silock BY DEF IallocWait
<1>15. r.pc \notin {"ifree", "iupdat"} BY <1>1, <1>2 DEF UserType, User
<1>14. Awake # SIlock BY SizesAssumption DEF Awake, SIlock
<1> QED BY <1>2, <1>5, <1>9, <1>10, <1>11, <1>12, <1>13, <1>14, <1>15, QuietStep

(* ialloc takes an i-node of s_inode[].                                    *)
LEMMA IallocPopKeeps ==
  ASSUME IInv, NEW p \in Procs, IallocPop(p)
  PROVE  IInv'
<1> DEFINE r == [u[p] EXCEPT !.pc = "iget", !.ino = Last(sinode)]
<1>1. u \in [Procs -> UserType] /\ u[p] \in UserType /\ UserOK(p) BY UserFacts DEF UserOK
<1>2. /\ u' = [u EXCEPT ![p] = r] /\ ((u[p].pc = "ialloc" \/ u[p].pc = "loop"))
      /\ u[p].chan = Awake /\ file' = file
  BY <1>1 DEF At, IallocPop, AtLoop
<1>3. Last(sinode) \in Inos /\ Last(sinode) \in 0..NINO /\ sinode # <<>>
  <2>1. sinode \in Seq(Inos) /\ sinode # <<>> BY DEF IallocPop, IInv, OneSlot, TypeOK
  <2>2. sinode[Len(sinode)] \in Inos BY <2>1
  <2> QED BY <2>1, <2>2 DEF Last, Inos
<1>4. r \in UserType BY <1>1, <1>2, <1>3, SizesAssumption DEF UserType, Idle, Working, Awake, Inos
<1>5. OthersSame(p) /\ u'[p] = r BY <1>2, <1>4, UserStep
<1>9. inode' = inode /\ inode' \in [Slots -> SlotType] /\ \A i \in Slots : SameSlot(i)
  BY DEF IallocPop, SameSlot, IInv, OneSlot, TypeOK, SlotType
<1>10. UserOK(p)' /\ r.ip = u[p].ip
  BY <1>1, <1>2, <1>3, <1>4, <1>5 DEF UserOK, UserType, User, Idle, Working
<1>11. r.chan = Awake /\ (r.pc = "search" \/ u[p].pc # "search") BY <1>1, <1>2 DEF UserType, User
<1>12. TypeOK'
  <2>1. Front(sinode) \in Seq(Inos) BY <1>3 DEF Front, IInv, OneSlot, TypeOK
  <2> QED BY <1>2, <1>9, <2>1 DEF IallocPop, AtLoop, IInv, OneSlot, TypeOK, SlotType
<1>13. silock' = silock BY DEF IallocPop
<1>15. r.pc \notin {"ifree", "iupdat"} BY <1>1, <1>2 DEF UserType, User
<1>14. Awake # SIlock BY SizesAssumption DEF Awake, SIlock
<1> QED BY <1>2, <1>5, <1>9, <1>10, <1>11, <1>12, <1>13, <1>14, <1>15, QuietStep

(* ialloc begins to search the i-list.                                     *)
LEMMA IallocSearchKeeps ==
  ASSUME IInv, NEW p \in Procs, IallocSearch(p)
  PROVE  IInv'
<1> DEFINE r == [u[p] EXCEPT !.pc = "search", !.pos = 1]
<1>1. u \in [Procs -> UserType] /\ u[p] \in UserType /\ UserOK(p) BY UserFacts DEF UserOK
<1>2. /\ u' = [u EXCEPT ![p] = r] /\ ((u[p].pc = "ialloc" \/ u[p].pc = "loop"))
      /\ u[p].chan = Awake /\ file' = file
  BY <1>1 DEF At, IallocSearch, AtLoop
<1>3. 1 \in Inos BY SizesAssumption DEF Inos
<1>4. r \in UserType BY <1>1, <1>2, <1>3, SizesAssumption DEF UserType, Idle, Working, Awake, Inos
<1>5. OthersSame(p) /\ u'[p] = r BY <1>2, <1>4, UserStep
<1>9. inode' = inode /\ inode' \in [Slots -> SlotType] /\ \A i \in Slots : SameSlot(i)
  BY DEF IallocSearch, SameSlot, IInv, OneSlot, TypeOK, SlotType
<1>10. UserOK(p)' /\ r.ip = u[p].ip
  BY <1>1, <1>2, <1>3, <1>4, <1>5 DEF UserOK, UserType, User, Idle, Working
<1>11. r.chan = Awake /\ (r.pc = "search" \/ u[p].pc # "search") BY <1>1, <1>2 DEF UserType, User
<1>12. TypeOK' BY <1>2, <1>9 DEF IallocSearch, AtLoop, IInv, OneSlot, TypeOK, SlotType
<1>13. silock' = TRUE /\ r.pc = "search" BY <1>1 DEF IallocSearch, UserType
<1>15. r.pc \notin {"ifree", "iupdat"} BY <1>1, <1>2 DEF UserType, User
<1>14. Awake # SIlock BY SizesAssumption DEF Awake, SIlock
<1> QED BY <1>2, <1>5, <1>9, <1>10, <1>11, <1>12, <1>13, <1>14, <1>15, QuietStep

(* ialloc got an i-node that is in use.                                    *)
LEMMA IallocAgainKeeps ==
  ASSUME IInv, NEW p \in Procs, IallocAgain(p)
  PROVE  IInv'
<1> DEFINE r == [u[p] EXCEPT !.pc = "iput", !.again = TRUE]
<1>1. u \in [Procs -> UserType] /\ u[p] \in UserType /\ UserOK(p) BY UserFacts DEF UserOK
<1>2. /\ u' = [u EXCEPT ![p] = r] /\ u[p].pc = "got"
      /\ u[p].chan = Awake /\ file' = file
  BY <1>1 DEF At, IallocAgain
<1>4. r \in UserType BY <1>1, <1>2, SizesAssumption DEF UserType, Idle, Working, Awake, Inos
<1>5. OthersSame(p) /\ u'[p] = r BY <1>2, <1>4, UserStep
<1>6. /\ u[p].ip \in Slots /\ inode[u[p].ip].number \in Inos /\ inode[u[p].ip].lock = TRUE
      /\ inode[u[p].ip] \in SlotType /\ u[p].pc \in Working
  BY <1>2, SlotFacts DEF Working
<1>9. inode' = inode /\ inode' \in [Slots -> SlotType] /\ \A i \in Slots : SameSlot(i)
  BY DEF IallocAgain, SameSlot, IInv, OneSlot, TypeOK, SlotType
<1>10. UserOK(p)' /\ r.ip = u[p].ip
  BY <1>1, <1>2, <1>4, <1>5 DEF UserOK, UserType, User, Idle, Working
<1>11. r.chan = Awake /\ (r.pc = "search" \/ u[p].pc # "search") BY <1>1, <1>2 DEF UserType, User
<1>12. TypeOK' BY <1>2, <1>9 DEF IallocAgain, IInv, OneSlot, TypeOK, SlotType
<1>13. silock' = silock BY DEF IallocAgain
<1>15. r.pc \notin {"ifree", "iupdat"} BY <1>1, <1>2 DEF UserType, User
<1>14. Awake # SIlock BY SizesAssumption DEF Awake, SIlock
<1> QED BY <1>2, <1>5, <1>9, <1>10, <1>11, <1>12, <1>13, <1>14, <1>15, QuietStep

(* maknode makes a file of it.                                             *)
LEMMA MaknodeKeeps ==
  ASSUME IInv, NEW p \in Procs, Maknode(p)
  PROVE  IInv'
<1> DEFINE r == [u[p] EXCEPT !.pc = "wdir"]
           s == [inode[u[p].ip] EXCEPT !.mode = TRUE, !.nlink = 1, !.chg = TRUE]
<1>1. u \in [Procs -> UserType] /\ u[p] \in UserType /\ UserOK(p) BY UserFacts DEF UserOK
<1>2. /\ u' = [u EXCEPT ![p] = r] /\ u[p].pc = "got"
      /\ u[p].chan = Awake /\ file' = file
  BY <1>1 DEF At, Maknode, Disk
<1>4. r \in UserType BY <1>1, <1>2, SizesAssumption DEF UserType, Idle, Working, Awake, Inos
<1>5. OthersSame(p) /\ u'[p] = r BY <1>2, <1>4, UserStep
<1>6. /\ u[p].ip \in Slots /\ inode[u[p].ip].number \in Inos /\ inode[u[p].ip].lock = TRUE
      /\ inode[u[p].ip] \in SlotType /\ u[p].pc \in Working
  BY <1>2, SlotFacts DEF Working
<1>7. s \in SlotType
  <2>1. \A m \in Int : [inode[u[p].ip] EXCEPT !.mode = TRUE, !.nlink = m, !.chg = TRUE] \in SlotType
    BY <1>6 DEF SlotType
  <2>2. 1 \in Int OBVIOUS
  <2> QED BY <2>1, <2>2
<1>8. inode' = [inode EXCEPT ![u[p].ip] = s] BY <1>6 DEF Maknode, Disk, IInv, OneSlot, TypeOK
<1>9. inode' \in [Slots -> SlotType] /\ \A i \in Slots : SameSlot(i)
  <2>1. /\ s.number = inode[u[p].ip].number /\ s.count = inode[u[p].ip].count
        /\ s.lock = TRUE /\ s.want = inode[u[p].ip].want
    BY <1>6 DEF SlotType
  <2> HIDE DEF s
  <2> QED BY <1>6, <1>7, <1>8, <2>1, SlotStep
<1>10. UserOK(p)' /\ r.ip = u[p].ip
  BY <1>1, <1>2, <1>4, <1>5 DEF UserOK, UserType, User, Idle, Working
<1>11. r.chan = Awake /\ (r.pc = "search" \/ u[p].pc # "search") BY <1>1, <1>2 DEF UserType, User
<1>12. TypeOK' BY <1>2, <1>9 DEF Maknode, Disk, IInv, OneSlot, TypeOK, SlotType
<1>13. silock' = silock BY DEF Maknode
<1>15. r.pc \notin {"ifree", "iupdat"} BY <1>1, <1>2 DEF UserType, User
<1>14. Awake # SIlock BY SizesAssumption DEF Awake, SIlock
<1> QED BY <1>2, <1>5, <1>9, <1>10, <1>11, <1>12, <1>13, <1>14, <1>15, QuietStep

(* The entry of the new file could not be written.                         *)
LEMMA CreateErrorKeeps ==
  ASSUME IInv, NEW p \in Procs, CreateError(p)
  PROVE  IInv'
<1> DEFINE r == [u[p] EXCEPT !.pc = "iput"]
<1>1. u \in [Procs -> UserType] /\ u[p] \in UserType /\ UserOK(p) BY UserFacts DEF UserOK
<1>2. /\ u' = [u EXCEPT ![p] = r] /\ u[p].pc = "wdir"
      /\ u[p].chan = Awake /\ file' = file
  BY <1>1 DEF At, CreateError, Run, Fails
<1>4. r \in UserType BY <1>1, <1>2, SizesAssumption DEF UserType, Idle, Working, Awake, Inos
<1>5. OthersSame(p) /\ u'[p] = r BY <1>2, <1>4, UserStep
<1>6. /\ u[p].ip \in Slots /\ inode[u[p].ip].number \in Inos /\ inode[u[p].ip].lock = TRUE
      /\ inode[u[p].ip] \in SlotType /\ u[p].pc \in Working
  BY <1>2, SlotFacts DEF Working
<1>9. inode' = inode /\ inode' \in [Slots -> SlotType] /\ \A i \in Slots : SameSlot(i)
  BY DEF CreateError, SameSlot, IInv, OneSlot, TypeOK, SlotType
<1>10. UserOK(p)' /\ r.ip = u[p].ip
  BY <1>1, <1>2, <1>4, <1>5 DEF UserOK, UserType, User, Idle, Working
<1>11. r.chan = Awake /\ (r.pc = "search" \/ u[p].pc # "search") BY <1>1, <1>2 DEF UserType, User
<1>12. TypeOK'
  <2>1. dlock' \in [Names -> Procs \cup {Nobody}] BY DEF CreateError, LeaveDir, IInv, OneSlot, TypeOK
  <2> QED BY <1>2, <1>9, <2>1 DEF CreateError, Run, Fails, IInv, OneSlot, TypeOK, SlotType
<1>13. silock' = silock BY DEF CreateError
<1>15. r.pc \notin {"ifree", "iupdat"} BY <1>1, <1>2 DEF UserType, User
<1>14. Awake # SIlock BY SizesAssumption DEF Awake, SIlock
<1> QED BY <1>2, <1>5, <1>9, <1>10, <1>11, <1>12, <1>13, <1>14, <1>15, QuietStep

(* access() says no.                                                       *)
LEMMA RefusedKeeps ==
  ASSUME IInv, NEW p \in Procs, Refused(p)
  PROVE  IInv'
<1> DEFINE r == [u[p] EXCEPT !.pc = "iput"]
<1>1. u \in [Procs -> UserType] /\ u[p] \in UserType /\ UserOK(p) BY UserFacts DEF UserOK
<1>2. /\ u' = [u EXCEPT ![p] = r] /\ u[p].pc = "got"
      /\ u[p].chan = Awake /\ file' = file
  BY <1>1 DEF At, Refused, Run
<1>4. r \in UserType BY <1>1, <1>2, SizesAssumption DEF UserType, Idle, Working, Awake, Inos
<1>5. OthersSame(p) /\ u'[p] = r BY <1>2, <1>4, UserStep
<1>6. /\ u[p].ip \in Slots /\ inode[u[p].ip].number \in Inos /\ inode[u[p].ip].lock = TRUE
      /\ inode[u[p].ip] \in SlotType /\ u[p].pc \in Working
  BY <1>2, SlotFacts DEF Working
<1>9. inode' = inode /\ inode' \in [Slots -> SlotType] /\ \A i \in Slots : SameSlot(i)
  BY DEF Refused, SameSlot, IInv, OneSlot, TypeOK, SlotType
<1>10. UserOK(p)' /\ r.ip = u[p].ip
  BY <1>1, <1>2, <1>4, <1>5 DEF UserOK, UserType, User, Idle, Working
<1>11. r.chan = Awake /\ (r.pc = "search" \/ u[p].pc # "search") BY <1>1, <1>2 DEF UserType, User
<1>12. TypeOK' BY <1>2, <1>9 DEF Refused, Run, IInv, OneSlot, TypeOK, SlotType
<1>13. silock' = silock BY DEF Refused
<1>15. r.pc \notin {"ifree", "iupdat"} BY <1>1, <1>2 DEF UserType, User
<1>14. Awake # SIlock BY SizesAssumption DEF Awake, SIlock
<1> QED BY <1>2, <1>5, <1>9, <1>10, <1>11, <1>12, <1>13, <1>14, <1>15, QuietStep

(* creat of an old file truncates it.                                      *)
LEMMA TruncateKeeps ==
  ASSUME IInv, NEW p \in Procs, Truncate(p)
  PROVE  IInv'
<1> DEFINE r == [u[p] EXCEPT !.pc = "itrunc"]
<1>1. u \in [Procs -> UserType] /\ u[p] \in UserType /\ UserOK(p) BY UserFacts DEF UserOK
<1>2. /\ u' = [u EXCEPT ![p] = r] /\ u[p].pc = "got" /\ u[p].call = "trunc"
      /\ u[p].chan = Awake /\ file' = file
  BY <1>1 DEF At, Truncate, Disk
<1>4. r \in UserType BY <1>1, <1>2, SizesAssumption DEF UserType, Idle, Working, Awake, Inos
<1>5. OthersSame(p) /\ u'[p] = r BY <1>2, <1>4, UserStep
<1>6. /\ u[p].ip \in Slots /\ inode[u[p].ip].number \in Inos /\ inode[u[p].ip].lock = TRUE
      /\ inode[u[p].ip] \in SlotType /\ u[p].pc \in Working
  BY <1>2, SlotFacts DEF Working
<1>9. inode' = inode /\ inode' \in [Slots -> SlotType] /\ \A i \in Slots : SameSlot(i)
  BY DEF Truncate, SameSlot, IInv, OneSlot, TypeOK, SlotType
<1>10. UserOK(p)' /\ r.ip = u[p].ip
  BY <1>1, <1>2, <1>4, <1>5 DEF UserOK, UserType, User, Idle, Working
<1>11. r.chan = Awake /\ (r.pc = "search" \/ u[p].pc # "search") BY <1>1, <1>2 DEF UserType, User
<1>12. TypeOK' BY <1>2, <1>9 DEF Truncate, Disk, IInv, OneSlot, TypeOK, SlotType
<1>13. silock' = silock BY DEF Truncate
<1>15. r.pc \notin {"ifree", "iupdat"} BY <1>1, <1>2 DEF UserType, User
<1>14. Awake # SIlock BY SizesAssumption DEF Awake, SIlock
<1> QED BY <1>2, <1>5, <1>9, <1>10, <1>11, <1>12, <1>13, <1>14, <1>15, QuietStep

(* unlink has the inode.                                                   *)
LEMMA UnlinkGotKeeps ==
  ASSUME IInv, NEW p \in Procs, UnlinkGot(p)
  PROVE  IInv'
<1> DEFINE r == [u[p] EXCEPT !.pc = "wdir"]
<1>1. u \in [Procs -> UserType] /\ u[p] \in UserType /\ UserOK(p) BY UserFacts DEF UserOK
<1>2. /\ u' = [u EXCEPT ![p] = r] /\ u[p].pc = "got"
      /\ u[p].chan = Awake /\ file' = file
  BY <1>1 DEF At, UnlinkGot, Disk
<1>4. r \in UserType BY <1>1, <1>2, SizesAssumption DEF UserType, Idle, Working, Awake, Inos
<1>5. OthersSame(p) /\ u'[p] = r BY <1>2, <1>4, UserStep
<1>6. /\ u[p].ip \in Slots /\ inode[u[p].ip].number \in Inos /\ inode[u[p].ip].lock = TRUE
      /\ inode[u[p].ip] \in SlotType /\ u[p].pc \in Working
  BY <1>2, SlotFacts DEF Working
<1>9. inode' = inode /\ inode' \in [Slots -> SlotType] /\ \A i \in Slots : SameSlot(i)
  BY DEF UnlinkGot, SameSlot, IInv, OneSlot, TypeOK, SlotType
<1>10. UserOK(p)' /\ r.ip = u[p].ip
  BY <1>1, <1>2, <1>4, <1>5 DEF UserOK, UserType, User, Idle, Working
<1>11. r.chan = Awake /\ (r.pc = "search" \/ u[p].pc # "search") BY <1>1, <1>2 DEF UserType, User
<1>12. TypeOK' BY <1>2, <1>9 DEF UnlinkGot, Disk, IInv, OneSlot, TypeOK, SlotType
<1>13. silock' = silock BY DEF UnlinkGot
<1>15. r.pc \notin {"ifree", "iupdat"} BY <1>1, <1>2 DEF UserType, User
<1>14. Awake # SIlock BY SizesAssumption DEF Awake, SIlock
<1> QED BY <1>2, <1>5, <1>9, <1>10, <1>11, <1>12, <1>13, <1>14, <1>15, QuietStep

(* unlink has removed the entry, or failed to.                             *)
LEMMA UnlinkedKeeps ==
  ASSUME IInv, NEW p \in Procs, Unlinked(p)
  PROVE  IInv'
<1> DEFINE r == [u[p] EXCEPT !.pc = "iput"]
           s == [inode[u[p].ip] EXCEPT !.nlink = inode[u[p].ip].nlink - 1, !.chg = TRUE]
<1>1. u \in [Procs -> UserType] /\ u[p] \in UserType /\ UserOK(p) BY UserFacts DEF UserOK
<1>2. /\ u' = [u EXCEPT ![p] = r] /\ u[p].pc = "wdir"
      /\ u[p].chan = Awake /\ file' = file
  BY <1>1 DEF At, Unlinked, Run, Fails
<1>4. r \in UserType BY <1>1, <1>2, SizesAssumption DEF UserType, Idle, Working, Awake, Inos
<1>5. OthersSame(p) /\ u'[p] = r BY <1>2, <1>4, UserStep
<1>6. /\ u[p].ip \in Slots /\ inode[u[p].ip].number \in Inos /\ inode[u[p].ip].lock = TRUE
      /\ inode[u[p].ip] \in SlotType /\ u[p].pc \in Working
  BY <1>2, SlotFacts DEF Working
<1>7. s \in SlotType
  <2>1. \A m \in Int : [inode[u[p].ip] EXCEPT !.nlink = m, !.chg = TRUE] \in SlotType BY <1>6
      DEF SlotType
  <2>2. inode[u[p].ip].nlink - 1 \in Int BY <1>6 DEF SlotType
  <2> QED BY <2>1, <2>2
<1>8. inode' = [inode EXCEPT ![u[p].ip] = s] BY <1>6 DEF Unlinked, Run, Fails, IInv, OneSlot, TypeOK
<1>9. inode' \in [Slots -> SlotType] /\ \A i \in Slots : SameSlot(i)
  <2>1. /\ s.number = inode[u[p].ip].number /\ s.count = inode[u[p].ip].count
        /\ s.lock = TRUE /\ s.want = inode[u[p].ip].want
    BY <1>6 DEF SlotType
  <2> HIDE DEF s
  <2> QED BY <1>6, <1>7, <1>8, <2>1, SlotStep
<1>10. UserOK(p)' /\ r.ip = u[p].ip
  BY <1>1, <1>2, <1>4, <1>5 DEF UserOK, UserType, User, Idle, Working
<1>11. r.chan = Awake /\ (r.pc = "search" \/ u[p].pc # "search") BY <1>1, <1>2 DEF UserType, User
<1>12. TypeOK'
  <2>1. dir' \in [Names -> 0..NINO]
    <3>1. dir \in [Names -> 0..NINO] BY DEF IInv, OneSlot, TypeOK
    <3>2. 0 \in 0..NINO BY SizesAssumption
    <3> QED BY <3>1, <3>2 DEF Unlinked
  <2> QED BY <1>2, <1>9, <2>1 DEF Unlinked, Run, Fails, IInv, OneSlot, TypeOK, SlotType
<1>13. silock' = silock BY DEF Unlinked
<1>15. r.pc \notin {"ifree", "iupdat"} BY <1>1, <1>2 DEF UserType, User
<1>14. Awake # SIlock BY SizesAssumption DEF Awake, SIlock
<1> QED BY <1>2, <1>5, <1>9, <1>10, <1>11, <1>12, <1>13, <1>14, <1>15, QuietStep

(* update has written an i-node.                                           *)
LEMMA UpdateWriteKeeps ==
  ASSUME IInv, NEW p \in Procs, UpdateWrite(p)
  PROVE  IInv'
<1> DEFINE r == [u[p] EXCEPT !.pc = "iput"]
           s == [inode[u[p].ip] EXCEPT !.chg = FALSE]
<1>1. u \in [Procs -> UserType] /\ u[p] \in UserType /\ UserOK(p) BY UserFacts DEF UserOK
<1>2. /\ u' = [u EXCEPT ![p] = r] /\ u[p].pc = "update"
      /\ u[p].chan = Awake /\ file' = file
  BY <1>1 DEF At, UpdateWrite, Run, Fails
<1>4. r \in UserType BY <1>1, <1>2, SizesAssumption DEF UserType, Idle, Working, Awake, Inos
<1>5. OthersSame(p) /\ u'[p] = r BY <1>2, <1>4, UserStep
<1>6. /\ u[p].ip \in Slots /\ inode[u[p].ip].number \in Inos /\ inode[u[p].ip].lock = TRUE
      /\ inode[u[p].ip] \in SlotType /\ u[p].pc \in Working
  BY <1>2, SlotFacts DEF Working
<1>7. s \in SlotType BY <1>6 DEF SlotType
<1>8. (inode' = [inode EXCEPT ![u[p].ip] = s] \/ inode' = inode) /\ inode \in [Slots -> SlotType]
  BY DEF UpdateWrite, IInv, OneSlot, TypeOK, SlotType
<1>9. inode' \in [Slots -> SlotType] /\ \A i \in Slots : SameSlot(i)
  <2>1. CASE inode' = inode BY <1>8, <2>1 DEF SameSlot
  <2>2. CASE inode' = [inode EXCEPT ![u[p].ip] = s]
    <3>1. /\ s.number = inode[u[p].ip].number /\ s.count = inode[u[p].ip].count
          /\ s.lock = TRUE /\ s.want = inode[u[p].ip].want
      BY <1>6 DEF SlotType
    <3> HIDE DEF s
    <3> QED BY <1>6, <1>7, <2>2, <3>1, SlotStep
  <2> QED BY <1>8, <2>1, <2>2
<1>10. UserOK(p)' /\ r.ip = u[p].ip
  BY <1>1, <1>2, <1>4, <1>5 DEF UserOK, UserType, User, Idle, Working
<1>11. r.chan = Awake /\ (r.pc = "search" \/ u[p].pc # "search") BY <1>1, <1>2 DEF UserType, User
<1>12. TypeOK'
  <2>1. /\ inode[u[p].ip].number \in Inos /\ inode[u[p].ip].mode \in BOOLEAN
        /\ inode[u[p].ip].nlink \in Int
    BY <1>6 DEF SlotType
  <2>2. dinode \in [Inos -> [mode : BOOLEAN, nlink : Int]] BY DEF IInv, OneSlot, TypeOK
  <2>3. dinode' \in [Inos -> [mode : BOOLEAN, nlink : Int]] BY <2>1, <2>2 DEF UpdateWrite, WriteDinode
  <2> QED BY <1>2, <1>9, <2>1, <2>2, <2>3 DEF UpdateWrite, Run, Fails, IInv, OneSlot, TypeOK, SlotType
<1>13. silock' = silock BY DEF UpdateWrite
<1>15. r.pc \notin {"ifree", "iupdat"} BY <1>1, <1>2 DEF UserType, User
<1>14. Awake # SIlock BY SizesAssumption DEF Awake, SIlock
<1> QED BY <1>2, <1>5, <1>9, <1>10, <1>11, <1>12, <1>13, <1>14, <1>15, QuietStep

(* update has seen all slots.                                              *)
LEMMA UpdateEndKeeps ==
  ASSUME IInv, NEW p \in Procs, UpdateEnd(p)
  PROVE  IInv'
<1> DEFINE r == User
<1>1. u \in [Procs -> UserType] /\ u[p] \in UserType /\ UserOK(p) BY UserFacts DEF UserOK
<1>2. /\ u' = [u EXCEPT ![p] = r] /\ u[p].pc = "scan"
      /\ u[p].chan = Awake /\ file' = file
  BY <1>1 DEF At, UpdateEnd
<1>3. User \in UserType BY UserType0
<1>4. r \in UserType BY <1>3 DEF UserType, Idle, Working
<1>5. OthersSame(p) /\ u'[p] = r BY <1>2, <1>4, UserStep
<1>9. inode' = inode /\ inode' \in [Slots -> SlotType] /\ \A i \in Slots : SameSlot(i)
  BY DEF UpdateEnd, SameSlot, IInv, OneSlot, TypeOK, SlotType
<1>10. UserOK(p)' /\ r.ip = u[p].ip
  BY <1>1, <1>2, <1>3, <1>4, <1>5 DEF UserOK, UserType, User, Idle, Working
<1>11. r.chan = Awake /\ (r.pc = "search" \/ u[p].pc # "search") BY <1>1, <1>2 DEF UserType, User
<1>12. TypeOK' BY <1>2, <1>9 DEF UpdateEnd, IInv, OneSlot, TypeOK, SlotType
<1>13. silock' = silock BY DEF UpdateEnd
<1>15. r.pc \notin {"ifree", "iupdat"} BY <1>1, <1>2 DEF UserType, User
<1>14. Awake # SIlock BY SizesAssumption DEF Awake, SIlock
<1> QED BY <1>2, <1>5, <1>9, <1>10, <1>11, <1>12, <1>13, <1>14, <1>15, QuietStep

----------------------------------------------------------------------------
(* A step in which p takes, passes on or gives back the inode in slot i,   *)
(* that nobody else is at work on, and wakes all who wait for it.          *)
Handed(p, i) ==
  /\ inode' \in [Slots -> SlotType] /\ \A j \in Slots \ {i} : inode'[j] = inode[j]
  /\ inode[i] # Foreign /\ \A q \in Procs \ {p} : u[q].ip # i
  /\ u[p].ip \in {0, i} /\ u'[p].ip \in {0, i}
  /\ \/ file'[p] = file[p]
     \/ file[p] = 0 /\ file'[p] = i
     \/ file[p] = i /\ file'[p] = 0
  /\ inode'[i].count = inode[i].count + One(file'[p] = i) - One(file[p] = i)
                                      + One(u'[p].ip = i) - One(u[p].ip = i)
  /\ inode'[i].count = 0 <=> inode'[i].number = 0
  /\ inode'[i].number # 0 => /\ inode'[i].number \in Inos
                             /\ \A j \in Slots \ {i} : inode[j].number # inode'[i].number
  /\ \A q \in Procs : file[q] = i => inode'[i].number # 0
  /\ u'[p].ip = i \/ file'[p] = i => inode'[i].number # 0
  /\ inode'[i].lock <=> u'[p].ip = i
  /\ \A q \in Procs : u'[q].chan # i
  /\ u'[p].chan = Awake /\ u[p].pc # "search" /\ silock' = silock
  /\ u'[p].pc \notin {"ifree", "iupdat"}

(* What iget, plock, iput and open1 do to an inode keeps the invariant.    *)
LEMMA HolderStep ==
  ASSUME IInv, NEW p \in Procs, OthersSame(p), UserOK(p)', TypeOK', NEW i \in Slots, Handed(p, i)
  PROVE  IInv'
<1> DEFINE s == inode'[i]
<1>0. /\ inode' \in [Slots -> SlotType] /\ \A j \in Slots \ {i} : inode'[j] = inode[j]
      /\ inode[i] # Foreign /\ \A q \in Procs \ {p} : u[q].ip # i
      /\ u[p].ip \in {0, i} /\ u'[p].ip \in {0, i}
      /\ \/ file'[p] = file[p]
         \/ file[p] = 0 /\ file'[p] = i
         \/ file[p] = i /\ file'[p] = 0
      /\ s.count = inode[i].count + One(file'[p] = i) - One(file[p] = i)
                                  + One(u'[p].ip = i) - One(u[p].ip = i)
      /\ s.count = 0 <=> s.number = 0
      /\ s.number # 0 => /\ s.number \in Inos
                         /\ \A j \in Slots \ {i} : inode[j].number # s.number
      /\ \A q \in Procs : file[q] = i => s.number # 0
      /\ u'[p].ip = i \/ file'[p] = i => s.number # 0
      /\ s.lock <=> u'[p].ip = i
      /\ \A q \in Procs : u'[q].chan # i
      /\ u'[p].chan = Awake /\ u[p].pc # "search" /\ silock' = silock
      /\ u'[p].pc \notin {"ifree", "iupdat"} /\ s \in SlotType
  BY DEF Handed
<1>00. inode'[i] = s OBVIOUS
<1> HIDE DEF s
<1> USE <1>0, <1>00
<1>1. UsersOK' BY UsersKept
<1>2. inode \in [Slots -> SlotType] BY DEF IInv, OneSlot, TypeOK, SlotType
<1>3. inode'[i] = s /\ \A j \in Slots \ {i} : inode'[j] = inode[j] OBVIOUS
<1>4. \A q \in Procs \ {p} : u'[q].ip = u[q].ip /\ u'[q].pc = u[q].pc /\ file'[q] = file[q]
  BY DEF OthersSame, SameUser
<1>5. OneSlot'
  <2> SUFFICES ASSUME NEW j \in Slots, NEW k \in Slots, inode'[j].number = inode'[k].number,
                      inode'[j].number \in Inos
               PROVE  j = k
    BY DEF OneSlot, Slots
  <2>1. 0 \notin Inos BY DEF Inos
  <2>2. CASE j # i /\ k # i BY <1>3, <2>2 DEF IInv, OneSlot
  <2>3. CASE j = i /\ k # i BY <1>3, <2>1, <2>3
  <2>4. CASE j # i /\ k = i BY <1>3, <2>1, <2>4
  <2> QED BY <2>2, <2>3, <2>4
<1>6. \A q \in Procs : /\ u'[q].ip # 0 => u'[q].ip \in Slots
                       /\ u[q].ip # 0 => u[q].ip \in Slots
                       /\ file[q] # 0 => file[q] \in Slots
                       /\ file'[q] # 0 => file'[q] \in Slots
  <2> TAKE q \in Procs
  <2>1. u'[q].ip \in 0..NINODE BY <1>1 DEF UsersOK, UserOK, UserType
  <2>2. u[q].ip \in 0..NINODE BY UserFacts
  <2>3. file[q] \in 0..NINODE /\ file'[q] \in 0..NINODE BY DEF IInv, OneSlot, TypeOK
  <2> QED BY <2>1, <2>2, <2>3, SizesAssumption DEF Slots
<1>7. SlotsOK'
  <2>1. \A j \in Slots : inode'[j].number = NINO + 1 => inode'[j] = Foreign
    <3>1. s.number # NINO + 1 BY SizesAssumption DEF Inos
    <3> QED BY <1>3, <3>1 DEF IInv, SlotsOK
  <2>2. ASSUME NEW q \in Procs, u'[q].ip # 0 PROVE inode'[u'[q].ip].number \in Inos
    <3>1. CASE q = p BY <1>3, <2>2, <3>1
    <3>2. CASE q # p BY <1>3, <1>4, <1>6, <2>2, <3>2 DEF IInv, SlotsOK
    <3> QED BY <3>1, <3>2
  <2>3. ASSUME NEW q \in Procs, file'[q] # 0 PROVE inode'[file'[q]].number \in Inos
    <3>1. CASE file'[q] = i BY <1>3, <1>4, <2>3, <3>1
    <3>2. CASE file'[q] # i
      <4>1. file'[q] = file[q] BY <1>4, <2>3, <3>2
      <4> QED BY <1>3, <1>6, <2>3, <3>2, <4>1 DEF IInv, SlotsOK
    <3> QED BY <3>1, <3>2
  <2>4. ASSUME NEW q \in Procs, u'[q].pc \in {"ifree", "iupdat"} PROVE inode'[u'[q].ip].count = 1
    <3>1. q # p BY <2>4
    <3>2. u[q].ip \in Slots /\ u[q].ip # i
      BY <1>4, <1>6, <2>4, <3>1, UserFacts DEF UserOK, Working
    <3> QED BY <1>3, <1>4, <2>4, <3>1, <3>2 DEF IInv, SlotsOK
  <2> QED BY <2>1, <2>2, <2>3, <2>4 DEF SlotsOK
<1>8. LocksOK'
  <2>1. \A q, t \in Procs : u'[q].ip = u'[t].ip /\ u'[q].ip # 0 => q = t
    BY <1>4 DEF IInv, LocksOK
  <2>2. ASSUME NEW j \in Slots PROVE inode'[j].lock <=> \E q \in Procs : u'[q].ip = j
    <3>1. CASE j = i
      <4>1. (\E q \in Procs : u'[q].ip = i) <=> u'[p].ip = i BY <1>4
      <4> QED BY <1>3, <3>1, <4>1
    <3>2. CASE j # i
      <4>1. 0 \notin Slots BY DEF Slots
      <4>2. u[p].ip # j /\ u'[p].ip # j BY <3>2, <4>1
      <4>3. (\E q \in Procs : u'[q].ip = j) <=> (\E q \in Procs : u[q].ip = j) BY <1>4, <4>2
      <4> QED BY <1>3, <3>2, <4>3 DEF IInv, LocksOK
    <3> QED BY <3>1, <3>2
  <2> QED BY <2>1, <2>2 DEF LocksOK
<1>9. RefCounts'
  <2>1. ASSUME NEW j \in Slots, inode'[j] # Foreign
        PROVE  /\ inode[j] # Foreign
               /\ inode'[j].count = inode[j].count + One(file'[p] = j) - One(file[p] = j)
                                                   + One(u'[p].ip = j) - One(u[p].ip = j)
               /\ inode'[j].count = 0 <=> inode'[j].number = 0
    <3>1. CASE j = i BY <1>3, <3>1
    <3>2. CASE j # i
      <4>1. 0 \notin Slots BY DEF Slots
      <4>2. inode[j].count \in Nat /\ inode'[j] = inode[j] BY <1>2, <1>3, <3>2 DEF SlotType
      <4>3. u[p].ip # j /\ u'[p].ip # j BY <3>2, <4>1
      <4>4. One(file'[p] = j) = One(file[p] = j) /\ One(file[p] = j) \in Nat BY <3>2, <4>1 DEF One
      <4>5. inode[j].count = 0 <=> inode[j].number = 0 BY <2>1, <4>2 DEF IInv, RefCounts
      <4> QED BY <2>1, <4>2, <4>3, <4>4, <4>5 DEF One
    <3> QED BY <3>1, <3>2
  <2> QED BY <2>1, RefsKept
<1>10. SearchOK' BY DEF IInv, SearchOK, OthersSame, SameUser
<1>11. NoLostWakeup'
  <2>1. Awake \notin Slots /\ Awake # SIlock BY SizesAssumption DEF Awake, SIlock, Slots
  <2>2. ASSUME NEW q \in Procs, u'[q].chan \in Slots
        PROVE  inode'[u'[q].chan].lock /\ inode'[u'[q].chan].want
    <3>1. q # p /\ u'[q].chan = u[q].chan /\ u[q].chan # i BY <2>1, <2>2 DEF OthersSame, SameUser
    <3> QED BY <1>3, <2>2, <3>1 DEF IInv, NoLostWakeup
  <2>3. ASSUME NEW q \in Procs, u'[q].chan = SIlock PROVE silock'
    <3>1. q # p /\ u[q].chan = SIlock BY <2>1, <2>3 DEF OthersSame, SameUser
    <3> QED BY <3>1 DEF IInv, NoLostWakeup
  <2> QED BY <1>10, <2>2, <2>3 DEF NoLostWakeup, SearchOK, Slots
<1> QED BY <1>1, <1>5, <1>7, <1>8, <1>9, <1>10, <1>11 DEF IInv

(* A process goes to sleep on an inode that is locked.                     *)
LEMMA WaitStep ==
  ASSUME IInv, NEW p \in Procs, NEW i \in Slots, inode[i].lock, inode[i].number \in Inos,
         inode' = [inode EXCEPT ![i].want = TRUE], u' = [u EXCEPT ![p].chan = i],
         u[p].pc \in {"iget", "plock"}, cur' = Nobody,
         UNCHANGED <<dinode, sinode, silock, dir, dlock, file, eio>>
  PROVE  IInv'
<1>1. inode \in [Slots -> SlotType] /\ u \in [Procs -> UserType] /\ UserOK(p)
  BY UserFacts DEF IInv, OneSlot, TypeOK, SlotType
<1>2. /\ inode'[i] = [inode[i] EXCEPT !.want = TRUE] /\ inode'[i] \in SlotType
      /\ \A j \in Slots \ {i} : inode'[j] = inode[j]
  BY <1>1 DEF SlotType
<1>3. inode' \in [Slots -> SlotType] BY <1>1, <1>2
<1>4. /\ inode'[i].number = inode[i].number /\ inode'[i].count = inode[i].count
      /\ inode'[i].lock = inode[i].lock /\ inode'[i].want = TRUE
  BY <1>1, <1>2 DEF SlotType
<1>5. Foreign.number = NINO + 1 /\ NINO + 1 \notin Inos BY SizesAssumption DEF Foreign, Empty, Inos
<1>6. inode[i] # Foreign /\ inode'[i] # Foreign BY <1>4, <1>5
<1>7. \A q \in Procs \ {p} : u'[q] = u[q] BY <1>1
<1>8. u'[p] = [u[p] EXCEPT !.chan = i] /\ i \in 0..NINODE + 1 BY <1>1, SizesAssumption DEF Slots
<1>9. u'[p] \in UserType BY <1>1, <1>8 DEF UserType
<1>10. /\ u'[p].pc = u[p].pc /\ u'[p].call = u[p].call /\ u'[p].ino = u[p].ino
       /\ u'[p].ip = u[p].ip /\ u'[p].pos = u[p].pos /\ u'[p].chan = i
  BY <1>1, <1>8 DEF UserType
<1>11. OthersSame(p)
  <2>1. u' = [q \in Procs |-> u'[q]] BY <1>1
  <2>2. \A q \in Procs : u[q] \in UserType BY <1>1
  <2> QED BY <1>7, <2>1, <2>2 DEF OthersSame, SameUser
<1>12. UsersOK'
  <2>1. UserOK(p)' BY <1>1, <1>9, <1>10 DEF UserOK
  <2> QED BY <1>11, <2>1, UsersKept
<1>13. TypeOK' BY <1>3 DEF IInv, OneSlot, TypeOK, SlotType
<1>14. OneSlot' BY <1>2, <1>4, <1>13 DEF IInv, OneSlot, Slots, Inos
<1>15. \A q \in Procs : u'[q].ip = u[q].ip /\ u'[q].pc = u[q].pc BY <1>7, <1>10
<1>16. \A j \in Slots : /\ inode'[j].number = inode[j].number /\ inode'[j].count = inode[j].count
                        /\ inode'[j].lock = inode[j].lock /\ inode[j].want => inode'[j].want
                        /\ inode'[j] # Foreign => inode[j] # Foreign
  BY <1>2, <1>4, <1>6
<1>17. \A q \in Procs : /\ u[q].ip # 0 => u[q].ip \in Slots
                        /\ file[q] # 0 => file[q] \in Slots
  <2> TAKE q \in Procs
  <2>1. u[q].ip \in 0..NINODE BY UserFacts
  <2>2. file[q] \in 0..NINODE BY DEF IInv, OneSlot, TypeOK
  <2> QED BY <2>1, <2>2, SizesAssumption DEF Slots
<1>18. SlotsOK'
  <2>1. \A j \in Slots : inode'[j].number = NINO + 1 => inode'[j] = Foreign
    BY <1>2, <1>4, <1>5 DEF IInv, SlotsOK
  <2>2. \A q \in Procs : u[q].pc \in {"ifree", "iupdat"} => u[q].ip # 0
    BY UserFacts DEF UserOK, Working
  <2> QED BY <1>15, <1>16, <1>17, <2>1, <2>2 DEF IInv, SlotsOK
<1>19. LocksOK' BY <1>15, <1>16 DEF IInv, LocksOK
<1>20. RefCounts'
  <2>1. ASSUME NEW j \in Slots, inode'[j] # Foreign
        PROVE  /\ inode[j] # Foreign
               /\ inode'[j].count = inode[j].count + One(file'[p] = j) - One(file[p] = j)
                                                   + One(u'[p].ip = j) - One(u[p].ip = j)
               /\ inode'[j].count = 0 <=> inode'[j].number = 0
    <3>1. inode[j].count \in Nat BY <1>1 DEF SlotType
    <3>2. inode[j].count = 0 <=> inode[j].number = 0 BY <1>16, <2>1 DEF IInv, RefCounts
    <3> QED BY <1>15, <1>16, <2>1, <3>1, <3>2 DEF One
  <2> QED BY <1>11, <2>1, RefsKept
<1>21. SearchOK' BY <1>15 DEF IInv, SearchOK
<1>22. NoLostWakeup'
  <2>1. i # SIlock BY SizesAssumption DEF Slots, SIlock
  <2>2. ASSUME NEW q \in Procs, u'[q].chan \in Slots
        PROVE  inode'[u'[q].chan].lock /\ inode'[u'[q].chan].want
    <3>1. CASE q = p BY <1>4, <1>10, <3>1
    <3>2. CASE q # p BY <1>7, <1>16, <2>2, <3>2 DEF IInv, NoLostWakeup
    <3> QED BY <3>1, <3>2
  <2>3. ASSUME NEW q \in Procs, u'[q].chan = SIlock PROVE silock'
    <3>1. q # p BY <1>10, <2>1, <2>3
    <3> QED BY <1>7, <2>3, <3>1 DEF IInv, NoLostWakeup
  <2> QED BY <1>21, <2>2, <2>3 DEF NoLostWakeup, SearchOK, Slots
<1> QED BY <1>12, <1>14, <1>18, <1>19, <1>20, <1>21, <1>22 DEF IInv

----------------------------------------------------------------------------
(* The users after a wakeup.                                               *)
Woke(w) ==
  /\ w \in [Procs -> UserType]
  /\ \A q \in Procs : /\ w[q].pc = u[q].pc /\ w[q].call = u[q].call /\ w[q].ino = u[q].ino
                      /\ w[q].name = u[q].name
                      /\ w[q].ip = u[q].ip /\ w[q].pos = u[q].pos /\ w[q].again = u[q].again
                      /\ w[q].chan \in {u[q].chan, Awake}

(* wakeup leaves nobody asleep on the channel.                             *)
LEMMA WakeupFacts ==
  ASSUME IInv, NEW c \in 1..NINODE + 1
  PROVE  Woke(Wakeup(u, c)) /\ \A q \in Procs : Wakeup(u, c)[q].chan # c
<1>1. \A q \in Procs : u[q] \in UserType BY UserFacts DEF UserOK
<1>2. \A q \in Procs : [u[q] EXCEPT !.chan = Awake] \in UserType
  BY <1>1, SizesAssumption DEF UserType, Awake
<1>3. Wakeup(u, c) \in [Procs -> UserType] BY <1>1, <1>2 DEF Wakeup
<1>4. c # Awake BY DEF Awake
<1> QED BY <1>1, <1>3, <1>4 DEF Wakeup, Woke, UserType

(* prele leaves nobody asleep on the inode, if nobody sleeps there without *)
(* IWANT.                                                                  *)
LEMMA PreleFacts ==
  ASSUME IInv, NEW i \in Slots
  PROVE  Woke(Prele(u, i)) /\ \A q \in Procs : Prele(u, i)[q].chan # i
<1>1. CASE inode[i].want
  <2>1. i \in 1..NINODE + 1 BY SizesAssumption DEF Slots
  <2> QED BY <1>1, <2>1, WakeupFacts DEF Prele
<1>2. CASE ~inode[i].want
  <2>1. Prele(u, i) = u BY <1>2 DEF Prele
  <2>2. Woke(u)
    <3>1. u \in [Procs -> UserType] BY DEF IInv, UsersOK, UserOK
    <3>2. \A q \in Procs : u[q].chan \in {u[q].chan, Awake} OBVIOUS
    <3> QED BY <3>1, <3>2 DEF Woke
  <2>3. \A q \in Procs : u[q].chan # i BY <1>2 DEF IInv, NoLostWakeup
  <2> QED BY <2>1, <2>2, <2>3
<1> QED BY <1>1, <1>2

(* A step that wakes others and changes the locals of one process.         *)
LEMMA WokeStep ==
  ASSUME IInv, NEW p \in Procs, NEW w \in [Procs -> UserType], Woke(w), NEW r \in UserType,
         u' = [w EXCEPT ![p] = r], \A q \in Procs \ {p} : file'[q] = file[q]
  PROVE  OthersSame(p) /\ u'[p] = r /\ \A q \in Procs \ {p} : u'[q] = w[q]
<1>1. w \in [Procs -> UserType] BY DEF Woke
<1>2. u' = [q \in Procs |-> u'[q]] /\ u'[p] = r BY <1>1
<1>3. \A q \in Procs \ {p} : u'[q] = w[q] /\ w[q] \in UserType BY <1>1
<1> QED BY <1>2, <1>3 DEF OthersSame, SameUser, Woke

(* A process leaves iput, or a call that failed.                           *)
LEMMA LeaveStep ==
  ASSUME IInv, NEW p \in Procs, u[p].chan = Awake, NEW w, Woke(w), Returns(w, p), file' = file
  PROVE  /\ OthersSame(p) /\ UserOK(p)' /\ u'[p].ip = 0 /\ u'[p].chan = Awake
         /\ u'[p].pc \in {"user", "loop", "scan"} /\ \A q \in Procs \ {p} : u'[q] = w[q]
         /\ cur' \in Procs \cup {Nobody} /\ dlock' \in [Names -> Procs \cup {Nobody}]
<1> DEFINE r == IF w[p].again THEN [w[p] EXCEPT !.pc = "loop", !.again = FALSE, !.ip = 0]
                ELSE IF w[p].call = "sync" THEN [w[p] EXCEPT !.pc = "scan", !.ip = 0]
                ELSE User
<1>1. w \in [Procs -> UserType] /\ w[p] \in UserType /\ User \in UserType BY UserType0 DEF Woke
<1>2. /\ w[p].call = u[p].call /\ w[p].ip = u[p].ip /\ w[p].pc = u[p].pc /\ w[p].chan = Awake
  BY DEF Woke
<1>3. u' = [w EXCEPT ![p] = r]
  <2>1. u' = Leave(w, p) BY DEF Returns
  <2>2. CASE w[p].again
    <3>1. Leave(w, p) = [w EXCEPT ![p].pc = "loop", ![p].again = FALSE, ![p].ip = 0]
      BY <2>2 DEF Leave
    <3> QED BY <1>1, <2>1, <2>2, <3>1
  <2>3. CASE ~w[p].again /\ w[p].call = "sync"
    <3>1. Leave(w, p) = [w EXCEPT ![p].pc = "scan", ![p].ip = 0] BY <2>3 DEF Leave
    <3> QED BY <1>1, <2>1, <2>3, <3>1
  <2>4. CASE ~w[p].again /\ w[p].call # "sync"
    <3>1. Leave(w, p) = [w EXCEPT ![p] = User] BY <2>4 DEF Leave
    <3> QED BY <1>1, <2>1, <2>4, <3>1
  <2> QED BY <2>2, <2>3, <2>4
<1>4. r \in UserType
  <2>1. 0 \in 0..NINODE BY SizesAssumption
  <2>2. \A v \in UserType : [v EXCEPT !.again = FALSE] \in UserType BY DEF UserType
  <2>3. \A v \in UserType : [v EXCEPT !.ip = 0] \in UserType BY <2>1 DEF UserType
  <2>4. \A v \in UserType : [v EXCEPT !.pc = "loop"] \in UserType
      /\ [v EXCEPT !.pc = "scan"] \in UserType
    BY DEF UserType, Idle
  <2>5. [w[p] EXCEPT !.pc = "loop", !.again = FALSE] \in UserType BY <1>1, <2>2, <2>4
  <2>6. [w[p] EXCEPT !.pc = "loop", !.again = FALSE, !.ip = 0] \in UserType BY <2>3, <2>5
  <2>7. [w[p] EXCEPT !.pc = "scan", !.ip = 0] \in UserType BY <1>1, <2>3, <2>4
  <2> QED BY <1>1, <2>6, <2>7
<1>5. /\ r.ip = 0 /\ r.chan = Awake /\ r.pc \in {"user", "loop", "scan"}
      /\ r.call = u[p].call \/ r.call = "none"
  BY <1>1, <1>2 DEF UserType, User
<1> HIDE DEF r
<1>6. OthersSame(p) /\ u'[p] = r /\ \A q \in Procs \ {p} : u'[q] = w[q] BY <1>1, <1>3, <1>4, WokeStep
<1>7. UserOK(p)' BY <1>4, <1>5, <1>6, UserFacts DEF UserOK, Working
<1>8. cur' \in Procs \cup {Nobody} BY DEF Returns, LeaveCpu
<1>9. dlock' \in [Names -> Procs \cup {Nobody}] BY DEF Returns, LeaveDir, IInv, OneSlot, TypeOK
<1> QED BY <1>5, <1>6, <1>7, <1>8, <1>9

(* ENFILE.                                                                 *)
LEMMA IgetFullKeeps ==
  ASSUME IInv, NEW p \in Procs, IgetFull(p)
  PROVE  IInv'
<1>1. u[p].pc = "iget" /\ u[p].chan = Awake /\ Returns(u, p) /\ file' = file BY DEF IgetFull, At
<1>2. Woke(u) BY UserFacts DEF Woke
<1>3. /\ OthersSame(p) /\ UserOK(p)' /\ u'[p].ip = 0 /\ u'[p].chan = Awake
      /\ u'[p].pc \in {"user", "loop", "scan"}
      /\ cur' \in Procs \cup {Nobody} /\ dlock' \in [Names -> Procs \cup {Nobody}]
  BY <1>1, <1>2, LeaveStep
<1>4. u[p].ip = 0 BY <1>1, UserFacts DEF UserOK, Working
<1>5. TypeOK' BY <1>3 DEF IgetFull, IInv, OneSlot, TypeOK
<1>6. \A i \in Slots : SameSlot(i) BY DEF IgetFull, SameSlot
<1>7. silock' = silock BY DEF IgetFull
<1>8. Awake # SIlock BY SizesAssumption DEF Awake, SIlock
<1> QED BY <1>1, <1>3, <1>4, <1>5, <1>6, <1>7, <1>8, QuietStep

(* The search of ialloc goes on to the next block, or ends.                *)
LEMMA SearchKeeps ==
  ASSUME IInv, NEW p \in Procs, NEW found \in Seq(Inos), Search(p, found)
  PROVE  IInv'
<1>1. /\ u[p].pc = "search" /\ u[p].chan = Awake /\ sinode' = found /\ file' = file
      /\ inode' = inode /\ UNCHANGED <<dinode, dir>>
  BY DEF Search, At
<1>2. u \in [Procs -> UserType] /\ u[p] \in UserType /\ UserOK(p) /\ u[p].ip = 0 /\ u[p].pos \in Inos
  BY <1>1, UserFacts DEF UserOK, Working
<1>3. \A i \in Slots : SameSlot(i) BY <1>1 DEF SameSlot
<1>4. Awake # SIlock BY SizesAssumption DEF Awake, SIlock
<1>5. CASE Len(found) >= NICINOD \/ u[p].pos = NINO
  <2>1. SIlock \in 1..NINODE + 1 BY SizesAssumption DEF SIlock
  <2>2. PICK w : w = Wakeup(u, SIlock) /\ Woke(w) /\ \A q \in Procs : w[q].chan # SIlock
    BY <2>1, WakeupFacts
  <2>3. silock' = FALSE BY <1>5 DEF Search
  <2>4. CASE found # <<>>
    <3> DEFINE r == [w[p] EXCEPT !.pc = "loop", !.pos = 0]
    <3>1. u' = [w EXCEPT ![p].pc = "loop", ![p].pos = 0] /\ cur' = p /\ UNCHANGED dlock
      BY <1>5, <2>2, <2>4 DEF Search
    <3>2. w \in [Procs -> UserType] BY <2>2 DEF Woke
    <3>3. u' = [w EXCEPT ![p] = r] BY <3>1, <3>2
    <3>4. w[p] \in UserType BY <3>2
    <3>5. r \in UserType BY <3>4 DEF UserType, Idle, Working
    <3>6. /\ r.pc = "loop" /\ r.ip = 0 /\ r.call = u[p].call /\ r.chan = Awake
      BY <1>1, <1>2, <2>2, <3>4 DEF Woke, UserType
    <3> HIDE DEF r
    <3>7. OthersSame(p) /\ u'[p] = r /\ \A q \in Procs \ {p} : u'[q] = w[q]
      <4>1. Woke(w) BY <2>2
      <4>2. \A q \in Procs \ {p} : file'[q] = file[q] BY <1>1
      <4> QED BY <3>2, <3>3, <3>5, <4>1, <4>2, WokeStep
    <3>8. UserOK(p)' BY <1>1, <1>2, <3>5, <3>6, <3>7 DEF UserOK, Working
    <3>9. TypeOK' BY <1>1, <2>3, <3>1 DEF IInv, OneSlot, TypeOK
    <3>10. \A q \in Procs : u'[q].chan # SIlock BY <1>4, <2>2, <3>6, <3>7
    <3> QED BY <1>1, <1>2, <1>3, <2>3, <3>6, <3>7, <3>8, <3>9, <3>10, QuietStep
  <2>5. CASE found = <<>>
    <3>1. Returns(w, p) BY <1>5, <2>2, <2>5 DEF Search
    <3>2. /\ OthersSame(p) /\ UserOK(p)' /\ u'[p].ip = 0 /\ u'[p].chan = Awake
          /\ u'[p].pc \in {"user", "loop", "scan"} /\ \A q \in Procs \ {p} : u'[q] = w[q]
          /\ cur' \in Procs \cup {Nobody} /\ dlock' \in [Names -> Procs \cup {Nobody}]
      BY <1>1, <2>2, <3>1, LeaveStep
    <3>3. TypeOK' BY <1>1, <2>3, <3>2 DEF IInv, OneSlot, TypeOK
    <3>4. \A q \in Procs : u'[q].chan # SIlock BY <1>4, <2>2, <3>2
    <3> QED BY <1>1, <1>2, <1>3, <2>3, <3>2, <3>3, <3>4, QuietStep
  <2> QED BY <2>4, <2>5
<1>6. CASE ~(Len(found) >= NICINOD \/ u[p].pos = NINO)
  <2> DEFINE r == [u[p] EXCEPT !.pos = u[p].pos + 1]
  <2>1. u' = [u EXCEPT ![p] = r] /\ cur' = Nobody /\ UNCHANGED <<silock, dlock>>
    BY <1>2, <1>6 DEF Search
  <2>2. u[p].pos + 1 \in Inos /\ u[p].pos + 1 \in Nat BY <1>2, <1>6, SizesAssumption DEF Inos
  <2>3. r \in UserType BY <1>2, <2>2 DEF UserType
  <2>4. r.pc = "search" /\ r.ip = 0 /\ r.call = u[p].call /\ r.chan = Awake /\ r.pos = u[p].pos + 1
    BY <1>1, <1>2 DEF UserType
  <2> HIDE DEF r
  <2>5. OthersSame(p) /\ u'[p] = r BY <1>1, <2>1, <2>3, UserStep
  <2>6. UserOK(p)' BY <1>1, <1>2, <2>2, <2>3, <2>4, <2>5 DEF UserOK, Working
  <2>7. TypeOK' BY <1>1, <2>1 DEF IInv, OneSlot, TypeOK
  <2>8. silock' = silock BY <2>1
  <2> QED BY <1>1, <1>2, <1>3, <1>4, <2>4, <2>5, <2>6, <2>7, <2>8, QuietStep
<1> QED BY <1>5, <1>6

(* ialloc has read a block of the i-list, or could not read it.            *)
LEMMA SearchStepKeeps ==
  ASSUME IInv, NEW p \in Procs, SearchRead(p) \/ SearchError(p)
  PROVE  IInv'
<1>1. sinode \in Seq(Inos) BY DEF IInv, OneSlot, TypeOK
<1>2. u[p].pc = "search" BY DEF SearchRead, SearchError, Search, At
<1>3. u[p].pos \in Inos BY <1>2, UserFacts DEF UserOK
<1>4. Noted(u[p].pos) \in Seq(Inos) BY <1>1, <1>3 DEF Noted
<1> QED BY <1>1, <1>4, SearchKeeps DEF SearchRead, SearchError

(* iget and plock find the inode locked.                                   *)
LEMMA IgetWaitKeeps ==
  ASSUME IInv, NEW p \in Procs, IgetWait(p)
  PROVE  IInv'
<1>1. u[p].pc = "iget" /\ u[p].ino \in Inos BY UserFacts DEF IgetWait, At, UserOK
<1>2. PICK i \in Here(u[p].ino) : inode[i].lock /\ inode' = [inode EXCEPT ![i].want = TRUE]
    /\ SleepOn(p, i)
  BY DEF IgetWait
<1>3. i \in Slots /\ inode[i].number \in Inos BY <1>1, <1>2 DEF Here
<1> QED BY <1>1, <1>2, <1>3, WaitStep DEF IgetWait, SleepOn

(* closef waits for the inode of its file.                                 *)
LEMMA PlockWaitKeeps ==
  ASSUME IInv, NEW p \in Procs, PlockWait(p)
  PROVE  IInv'
<1>1. u[p].pc = "plock" /\ file[p] # 0 /\ file[p] \in 0..NINODE
  BY UserFacts DEF PlockWait, At, UserOK, IInv, OneSlot, TypeOK
<1>2. file[p] \in Slots BY <1>1, SizesAssumption DEF Slots
<1>3. inode[file[p]].number \in Inos BY <1>1 DEF IInv, SlotsOK
<1> QED BY <1>1, <1>2, <1>3, WaitStep DEF PlockWait, SleepOn

----------------------------------------------------------------------------
(* A process takes the lock of the inode in slot i, and another reference  *)
(* or the one that its file had.                                           *)
Taken(p, i) ==
  /\ OthersSame(p) /\ u'[p] \in UserType /\ \A q \in Procs \ {p} : u'[q] = u[q]
  /\ u[p].pc \in {"iget", "plock", "scan"} /\ u'[p].pc \in {"got", "read", "iput", "update"}
  /\ u'[p].pc = "read" => u[p].pc = "iget"
  /\ u'[p].ip = i /\ u'[p].chan = Awake /\ u'[p].call = u[p].call /\ u'[p].ino = u[p].ino
  /\ ~inode[i].lock /\ inode[i] # Foreign
  /\ inode' \in [Slots -> SlotType] /\ \A j \in Slots \ {i} : inode'[j] = inode[j]
  /\ inode'[i].lock /\ inode'[i].number \in Inos
  /\ \A j \in Slots \ {i} : inode[j].number # inode'[i].number
  /\ inode'[i].count = inode[i].count + One(file'[p] = i) - One(file[p] = i) + 1
  /\ inode'[i].count # 0
  /\ file' \in [Procs -> 0..NINODE] /\ (file'[p] = file[p] \/ (file[p] = i /\ file'[p] = 0))
  /\ cur' \in {p, Nobody} /\ UNCHANGED <<dinode, sinode, silock, dir, dlock>>

(* iget, plock and update get the lock of an inode.                        *)
LEMMA TakeStep ==
  ASSUME IInv, NEW p \in Procs, NEW i \in Slots, Taken(p, i)
  PROVE  IInv'
<1>1. u \in [Procs -> UserType] /\ UserOK(p) /\ u[p].ip = 0
  BY UserFacts DEF UserOK, Working, Taken
<1>2. OthersSame(p) BY DEF Taken
<1>3. i # 0 BY DEF Slots
<1>4. UserOK(p)' BY <1>1, <1>3 DEF UserOK, Working, Taken
<1>5. TypeOK' BY DEF IInv, OneSlot, TypeOK, SlotType, Taken
<1>6. \A q \in Procs : u[q].ip # i BY DEF IInv, LocksOK, Taken
<1>7. \A q \in Procs : u[q].chan # i BY DEF IInv, NoLostWakeup, Taken
<1>8. \A q \in Procs : u'[q].chan # i BY <1>3, <1>7 DEF Awake, Taken
<1>9. One(u'[p].ip = i) = 1 /\ One(u[p].ip = i) = 0 BY <1>1, <1>3 DEF One, Taken
<1>10. inode'[i].number # 0 BY DEF Inos, Taken
<1>11. inode[i].count \in Nat BY DEF IInv, OneSlot, TypeOK
<1>12. One(file'[p] = i) \in Nat /\ One(file[p] = i) \in Nat BY DEF One
<1>13. inode'[i].count = inode[i].count + One(file'[p] = i) - One(file[p] = i)
                                        + One(u'[p].ip = i) - One(u[p].ip = i)
  BY <1>9, <1>11, <1>12 DEF Taken
<1>14. Handed(p, i)
  <2>1. /\ inode' \in [Slots -> SlotType] /\ \A j \in Slots \ {i} : inode'[j] = inode[j]
        /\ inode[i] # Foreign /\ \A q \in Procs \ {p} : u[q].ip # i
    BY <1>6 DEF Taken
  <2>2. u[p].ip \in {0, i} /\ u'[p].ip \in {0, i} BY <1>1 DEF Taken
  <2>3. /\ file'[p] = file[p] \/ (file[p] = i /\ file'[p] = 0)
        /\ inode'[i].count = 0 <=> inode'[i].number = 0
        /\ inode'[i].number \in Inos
        /\ \A j \in Slots \ {i} : inode[j].number # inode'[i].number
    BY <1>10 DEF Taken
  <2>4. /\ inode'[i].lock <=> u'[p].ip = i
        /\ u'[p].chan = Awake /\ u[p].pc # "search" /\ silock' = silock
        /\ u'[p].pc \notin {"ifree", "iupdat"}
    BY DEF Taken
  <2> QED BY <1>8, <1>10, <1>13, <2>1, <2>2, <2>3, <2>4 DEF Handed
<1> QED BY <1>2, <1>4, <1>5, <1>14, HolderStep

(* An inode in core that no directory or program of others is.             *)
LEMMA InodeFacts ==
  ASSUME IInv, NEW i \in Slots, inode[i].number \in Inos
  PROVE  /\ inode[i] \in SlotType /\ inode[i] # Foreign /\ inode[i].count # 0
         /\ \A j \in Slots \ {i} : inode[j].number # inode[i].number
<1>1. Foreign.number = NINO + 1 BY DEF Foreign, Empty
<1>2. inode[i] # Foreign BY <1>1, SizesAssumption DEF Inos
<1>3. inode[i] \in SlotType BY DEF IInv, OneSlot, TypeOK, SlotType
<1>4. inode[i].count # 0
  <2>1. inode[i].count = 0 <=> inode[i].number = 0 BY <1>2 DEF IInv, RefCounts
  <2>2. inode[i].number # 0 BY DEF Inos
  <2> QED BY <2>1, <2>2
<1>5. \A j \in Slots \ {i} : inode[j].number # inode[i].number BY DEF IInv, OneSlot
<1> QED BY <1>2, <1>3, <1>4, <1>5

(* iget finds the inode in core.                                           *)
LEMMA IgetHitKeeps ==
  ASSUME IInv, NEW p \in Procs, IgetHit(p)
  PROVE  IInv'
<1>1. /\ u[p].pc = "iget" /\ u[p].chan = Awake /\ file' = file /\ cur' = p
      /\ UNCHANGED <<dinode, sinode, silock, dir, dlock>>
  BY DEF IgetHit, At
<1>2. u \in [Procs -> UserType] /\ u[p] \in UserType /\ u[p].ino \in Inos
  BY <1>1, UserFacts DEF UserOK
<1>3. PICK i \in Here(u[p].ino) :
        /\ ~inode[i].lock
        /\ inode' = [inode EXCEPT ![i].count = @ + 1, ![i].lock = TRUE]
        /\ u' = [u EXCEPT ![p].pc = "got", ![p].ip = i]
  BY DEF IgetHit
<1>4. i \in Slots /\ inode[i].number = u[p].ino BY <1>3 DEF Here
<1>5. /\ inode[i] \in SlotType /\ inode[i] # Foreign
      /\ \A j \in Slots \ {i} : inode[j].number # inode[i].number
  BY <1>2, <1>4, InodeFacts
<1> DEFINE r == [u[p] EXCEPT !.pc = "got", !.ip = i]
           s == [inode[i] EXCEPT !.count = inode[i].count + 1, !.lock = TRUE]
<1>6. i \in 0..NINODE BY <1>4, SizesAssumption DEF Slots
<1>7. r \in UserType BY <1>2, <1>6 DEF UserType, Working
<1>8. /\ r.pc = "got" /\ r.ip = i /\ r.chan = Awake /\ r.call = u[p].call /\ r.ino = u[p].ino
  BY <1>1, <1>2 DEF UserType
<1>9. u' = [u EXCEPT ![p] = r] BY <1>2, <1>3
<1>f. file' \in [Procs -> 0..NINODE] /\ \A q \in Procs : file'[q] = file[q]
  BY <1>1 DEF IInv, OneSlot, TypeOK
<1>10. inode \in [Slots -> SlotType] /\ inode[i].count \in Nat /\ inode[i].lock = FALSE
  BY <1>3, <1>4, <1>5 DEF IInv, OneSlot, TypeOK, SlotType
<1>11. s \in SlotType
  <2>1. \A m \in Nat : [inode[i] EXCEPT !.count = m] \in SlotType BY <1>5 DEF SlotType
  <2>2. \A v \in SlotType : [v EXCEPT !.lock = TRUE] \in SlotType BY DEF SlotType
  <2>3. inode[i].count + 1 \in Nat BY <1>10
  <2> QED BY <2>1, <2>2, <2>3
<1>12. s.number = u[p].ino /\ s.lock = TRUE /\ s.count = inode[i].count + 1 BY <1>4, <1>5 DEF SlotType
<1>13. inode' = [inode EXCEPT ![i] = s] BY <1>3, <1>4, <1>10
<1> HIDE DEF r, s
<1>14. s.count = inode[i].count + One(file'[p] = i) - One(file[p] = i) + 1 /\ s.count # 0
  BY <1>1, <1>10, <1>12 DEF One
<1>15. \A j \in Slots \ {i} : inode[j].number # s.number BY <1>4, <1>5, <1>12
<1>20. OthersSame(p) /\ u'[p] = r /\ \A q \in Procs \ {p} : u'[q] = u[q]
  <2>1. \A q \in Procs \ {p} : u'[q] = u[q] BY <1>9
  <2>2. \A q \in Procs \ {p} : file'[q] = file[q] BY <1>f
  <2> QED BY <1>7, <1>9, <2>1, <2>2, UserStep
<1>21. inode' \in [Slots -> SlotType] /\ inode'[i] = s /\ \A j \in Slots \ {i} : inode'[j] = inode[j]
  <2>1. inode \in [Slots -> SlotType] BY DEF IInv, OneSlot, TypeOK, SlotType
  <2> QED BY <1>4, <1>13, <1>11, <2>1
<1>22. Taken(p, i)
  BY <1>1, <1>2, <1>3, <1>4, <1>5, <1>7, <1>8, <1>12, <1>14, <1>15, <1>10, <1>f, <1>20, <1>21 DEF Taken
<1> QED BY <1>4, <1>22, TakeStep

(* iget takes an unused slot.                                              *)
LEMMA IgetMissKeeps ==
  ASSUME IInv, NEW p \in Procs, IgetMiss(p)
  PROVE  IInv'
<1>1. /\ u[p].pc = "iget" /\ u[p].chan = Awake /\ file' = file
      /\ UNCHANGED <<dinode, sinode, silock, dir, dlock>> /\ Here(u[p].ino) = {}
  BY DEF IgetMiss, At
<1>2. u \in [Procs -> UserType] /\ u[p] \in UserType /\ u[p].ino \in Inos
  BY <1>1, UserFacts DEF UserOK
<1>3. PICK i \in Unused :
        /\ inode' = [inode EXCEPT ![i].number = u[p].ino, ![i].lock = TRUE, ![i].want = FALSE,
                                  ![i].chg = FALSE, ![i].count = @ + 1]
        /\ u' = [u EXCEPT ![p].pc = "read", ![p].ip = i] /\ cur' = Nobody
  BY DEF IgetMiss
<1>4. i \in Slots /\ inode[i].count = 0 BY <1>3 DEF Unused
<1>5. inode \in [Slots -> SlotType] /\ inode[i] \in SlotType
  BY <1>4 DEF IInv, OneSlot, TypeOK, SlotType
<1>6. inode[i] # Foreign
  <2>1. Foreign.count = 1 BY DEF Foreign, Empty
  <2> QED BY <1>4, <2>1
<1>7. inode[i].lock = FALSE
  <2> SUFFICES ASSUME inode[i].lock PROVE FALSE BY <1>5 DEF SlotType
  <2>1. PICK q \in Procs : u[q].ip = i BY <1>4 DEF IInv, LocksOK
  <2>2. inode[i].number \in Inos
    BY <1>4, <2>1 DEF IInv, SlotsOK, Slots
  <2> QED BY <1>4, <2>2, InodeFacts
<1> DEFINE r == [u[p] EXCEPT !.pc = "read", !.ip = i]
           s == [inode[i] EXCEPT !.number = u[p].ino, !.lock = TRUE, !.want = FALSE,
                                 !.chg = FALSE, !.count = inode[i].count + 1]
<1>8. i \in 0..NINODE BY <1>4, SizesAssumption DEF Slots
<1>9. r \in UserType BY <1>2, <1>8 DEF UserType, Working
<1>10. /\ r.pc = "read" /\ r.ip = i /\ r.chan = Awake /\ r.call = u[p].call /\ r.ino = u[p].ino
  BY <1>1, <1>2 DEF UserType
<1>11. u' = [u EXCEPT ![p] = r] BY <1>2, <1>3
<1>12. s \in SlotType
  <2>1. \A v \in SlotType, n \in 0..NINO + 1 : [v EXCEPT !.number = n] \in SlotType BY DEF SlotType
  <2>2. \A v \in SlotType : /\ [v EXCEPT !.lock = TRUE] \in SlotType
                            /\ [v EXCEPT !.want = FALSE] \in SlotType
                            /\ [v EXCEPT !.chg = FALSE] \in SlotType
    BY DEF SlotType
  <2>3. \A v \in SlotType, m \in Nat : [v EXCEPT !.count = m] \in SlotType BY DEF SlotType
  <2>4. u[p].ino \in 0..NINO + 1 BY <1>2, SizesAssumption DEF Inos
  <2>5. [inode[i] EXCEPT !.number = u[p].ino, !.lock = TRUE] \in SlotType BY <1>5, <2>1, <2>2, <2>4
  <2>6. [inode[i] EXCEPT !.number = u[p].ino, !.lock = TRUE, !.want = FALSE, !.chg = FALSE] \in SlotType
    BY <2>2, <2>5
  <2>7. inode[i].count + 1 \in Nat BY <1>4
  <2> QED BY <2>3, <2>6, <2>7
<1>13. s.number = u[p].ino /\ s.lock = TRUE /\ s.count = 1 BY <1>4, <1>5 DEF SlotType
<1>14. inode' = [inode EXCEPT ![i] = s] BY <1>3, <1>4, <1>5
<1> HIDE DEF r, s
<1>15. s.count = inode[i].count + One(file'[p] = i) - One(file[p] = i) + 1 /\ s.count # 0
  BY <1>1, <1>4, <1>13 DEF One
<1>16. \A j \in Slots \ {i} : inode[j].number # s.number BY <1>1, <1>13 DEF Here
<1>17. cur' = Nobody BY <1>3
<1>18. file' \in [Procs -> 0..NINODE] /\ \A q \in Procs : file'[q] = file[q]
  BY <1>1 DEF IInv, OneSlot, TypeOK
<1>20. OthersSame(p) /\ u'[p] = r /\ \A q \in Procs \ {p} : u'[q] = u[q]
  <2>1. \A q \in Procs \ {p} : u'[q] = u[q] BY <1>11
  <2>2. \A q \in Procs \ {p} : file'[q] = file[q] BY <1>18
  <2> QED BY <1>9, <1>11, <2>1, <2>2, UserStep
<1>21. inode' \in [Slots -> SlotType] /\ inode'[i] = s /\ \A j \in Slots \ {i} : inode'[j] = inode[j]
  <2>1. inode \in [Slots -> SlotType] BY DEF IInv, OneSlot, TypeOK, SlotType
  <2> QED BY <1>4, <1>14, <1>12, <2>1
<1>22. Taken(p, i)
  BY <1>1, <1>2, <1>4, <1>6, <1>7, <1>17, <1>9, <1>10, <1>13, <1>15, <1>16, <1>5, <1>18, <1>20, <1>21
     DEF Taken
<1> QED BY <1>4, <1>22, TakeStep

(* update takes the next inode with something to write.                    *)
LEMMA UpdateNextKeeps ==
  ASSUME IInv, NEW p \in Procs, UpdateNext(p)
  PROVE  IInv'
<1>1. /\ u[p].pc = "scan" /\ u[p].chan = Awake /\ file' = file
      /\ UNCHANGED <<dinode, sinode, silock, dir, dlock>>
  BY DEF UpdateNext, At
<1>2. u \in [Procs -> UserType] /\ u[p] \in UserType BY UserFacts DEF UserOK
<1>3. PICK i \in Dirty(p) :
        /\ inode' = [inode EXCEPT ![i].lock = TRUE, ![i].count = @ + 1]
        /\ u' = [u EXCEPT ![p].pc = "update", ![p].ip = i, ![p].pos = i + 1] /\ cur' = Nobody
  BY DEF UpdateNext
<1>4. i \in Slots /\ ~inode[i].lock /\ inode[i].count # 0 /\ inode[i].chg BY <1>3 DEF Dirty
<1>5. inode \in [Slots -> SlotType] /\ inode[i] \in SlotType
  BY <1>4 DEF IInv, OneSlot, TypeOK, SlotType
<1>6. inode[i] # Foreign
  <2>1. Foreign.chg = FALSE BY DEF Foreign, Empty
  <2> QED BY <1>4, <2>1
<1>7. inode[i].number \in Inos
  <2>1. inode[i].number \in 0..NINO + 1 BY <1>5 DEF SlotType
  <2>2. inode[i].number # 0 BY <1>4, <1>6 DEF IInv, RefCounts
  <2>3. inode[i].number # NINO + 1 BY <1>4, <1>6 DEF IInv, SlotsOK
  <2> QED BY <2>1, <2>2, <2>3, SizesAssumption DEF Inos
<1> DEFINE r == [u[p] EXCEPT !.pc = "update", !.ip = i, !.pos = i + 1]
           s == [inode[i] EXCEPT !.lock = TRUE, !.count = inode[i].count + 1]
<1>8. i \in 0..NINODE /\ i + 1 \in Nat BY <1>4, SizesAssumption DEF Slots
<1>9. r \in UserType BY <1>2, <1>8 DEF UserType, Working
<1>10. /\ r.pc = "update" /\ r.ip = i /\ r.chan = Awake /\ r.call = u[p].call /\ r.ino = u[p].ino
  BY <1>1, <1>2 DEF UserType
<1>11. u' = [u EXCEPT ![p] = r] BY <1>2, <1>3
<1>12. inode[i].count \in Nat /\ inode[i].lock = FALSE BY <1>4, <1>5 DEF SlotType
<1>13. s \in SlotType
  <2>1. \A v \in SlotType, m \in Nat : [v EXCEPT !.count = m] \in SlotType BY DEF SlotType
  <2>2. [inode[i] EXCEPT !.lock = TRUE] \in SlotType BY <1>5 DEF SlotType
  <2>3. inode[i].count + 1 \in Nat BY <1>12
  <2> QED BY <2>1, <2>2, <2>3
<1>14. s.number = inode[i].number /\ s.lock = TRUE /\ s.count = inode[i].count + 1 BY <1>5 DEF SlotType
<1>15. inode' = [inode EXCEPT ![i] = s] BY <1>3, <1>4, <1>5
<1> HIDE DEF r, s
<1>16. s.count = inode[i].count + One(file'[p] = i) - One(file[p] = i) + 1 /\ s.count # 0
  BY <1>1, <1>12, <1>14 DEF One
<1>17. \A j \in Slots \ {i} : inode[j].number # s.number BY <1>4, <1>7, <1>14, InodeFacts
<1>18. cur' = Nobody BY <1>3
<1>19. file' \in [Procs -> 0..NINODE] /\ \A q \in Procs : file'[q] = file[q]
  BY <1>1 DEF IInv, OneSlot, TypeOK
<1>20. OthersSame(p) /\ u'[p] = r /\ \A q \in Procs \ {p} : u'[q] = u[q]
  <2>1. \A q \in Procs \ {p} : u'[q] = u[q] BY <1>11
  <2>2. \A q \in Procs \ {p} : file'[q] = file[q] BY <1>19
  <2> QED BY <1>9, <1>11, <2>1, <2>2, UserStep
<1>21. inode' \in [Slots -> SlotType] /\ inode'[i] = s /\ \A j \in Slots \ {i} : inode'[j] = inode[j]
  <2>1. inode \in [Slots -> SlotType] BY DEF IInv, OneSlot, TypeOK, SlotType
  <2> QED BY <1>4, <1>15, <1>13, <2>1
<1>22. Taken(p, i)
  BY <1>1, <1>4, <1>6, <1>7, <1>18, <1>9, <1>10, <1>14, <1>16, <1>17, <1>5, <1>19, <1>20, <1>21
     DEF Taken
<1> QED BY <1>4, <1>22, TakeStep

(* close gets the lock of the inode of its file.                           *)
LEMMA PlockKeeps ==
  ASSUME IInv, NEW p \in Procs, Plock(p)
  PROVE  IInv'
<1>1. /\ u[p].pc = "plock" /\ u[p].chan = Awake /\ ~inode[file[p]].lock /\ cur' = p
      /\ file' = [file EXCEPT ![p] = 0] /\ UNCHANGED <<dinode, sinode, silock, dir, dlock>>
  BY DEF Plock, At
<1>2. u \in [Procs -> UserType] /\ u[p] \in UserType /\ UserOK(p) BY UserFacts DEF UserOK
<1>3. file[p] # 0 /\ file \in [Procs -> 0..NINODE] BY <1>1, <1>2 DEF UserOK, IInv, OneSlot, TypeOK
<1> DEFINE i == file[p]
           r == [u[p] EXCEPT !.pc = "iput", !.ip = i]
           s == [inode[i] EXCEPT !.lock = TRUE]
<1>4. i \in Slots /\ i \in 0..NINODE BY <1>3, SizesAssumption DEF Slots
<1>5. inode[i].number \in Inos BY <1>3 DEF IInv, SlotsOK
<1>6. /\ inode[i] \in SlotType /\ inode[i] # Foreign /\ inode[i].count # 0
      /\ \A j \in Slots \ {i} : inode[j].number # inode[i].number
  BY <1>4, <1>5, InodeFacts
<1>7. u' = [u EXCEPT ![p] = r] BY <1>2 DEF Plock
<1>8. r \in UserType BY <1>2, <1>4 DEF UserType, Working
<1>9. /\ r.pc = "iput" /\ r.ip = i /\ r.chan = Awake /\ r.call = u[p].call /\ r.ino = u[p].ino
  BY <1>1, <1>2 DEF UserType
<1>10. s \in SlotType /\ s.number = inode[i].number /\ s.lock = TRUE /\ s.count = inode[i].count
  BY <1>6 DEF SlotType
<1>11. inode' = [inode EXCEPT ![i] = s] BY <1>4 DEF Plock, IInv, OneSlot, TypeOK
<1>12. inode[i].count \in Nat /\ inode[i].lock = FALSE BY <1>1, <1>6 DEF SlotType
<1>13. file[p] = i OBVIOUS
<1>14. i # 0 /\ file'[p] = 0 BY <1>1, <1>3
<1>f. file' \in [Procs -> 0..NINODE] /\ \A q \in Procs \ {p} : file'[q] = file[q]
  <2>1. 0 \in 0..NINODE BY SizesAssumption
  <2> QED BY <1>1, <1>3, <2>1
<1> HIDE DEF i, r, s
<1>15. s.count = inode[i].count + One(file'[p] = i) - One(file[p] = i) + 1
  BY <1>10, <1>12, <1>13, <1>14 DEF One
<1>16. s.count # 0 /\ s.number \in Inos /\ \A j \in Slots \ {i} : inode[j].number # s.number
  BY <1>5, <1>6, <1>10
<1>20. OthersSame(p) /\ u'[p] = r /\ \A q \in Procs \ {p} : u'[q] = u[q]
  <2>1. \A q \in Procs \ {p} : u'[q] = u[q] BY <1>7
  <2>2. \A q \in Procs \ {p} : file'[q] = file[q] BY <1>f
  <2> QED BY <1>8, <1>7, <2>1, <2>2, UserStep
<1>21. inode' \in [Slots -> SlotType] /\ inode'[i] = s /\ \A j \in Slots \ {i} : inode'[j] = inode[j]
  <2>1. inode \in [Slots -> SlotType] BY DEF IInv, OneSlot, TypeOK, SlotType
  <2> QED BY <1>4, <1>11, <1>10, <2>1
<1>22. Taken(p, i)
  BY <1>1, <1>3, <1>4, <1>6, <1>13, <1>14, <1>8, <1>9, <1>10, <1>15, <1>16, <1>12, <1>f, <1>20, <1>21
     DEF Taken
<1> QED BY <1>4, <1>22, TakeStep

----------------------------------------------------------------------------
(* The last reference is the one of the process at work.                   *)
LEMMA NoFile ==
  ASSUME IInv, NEW p \in Procs, u[p].pc \in Working, inode[u[p].ip].count = 1
  PROVE  \A q \in Procs : file[q] # u[p].ip
<1> DEFINE i == u[p].ip
           F == {q \in Procs : file[q] = i}
           H == {q \in Procs : u[q].ip = i}
<1>1. i \in Slots /\ inode[i] # Foreign BY SlotFacts
<1>2. 1 = Cardinality(F) + Cardinality(H) BY <1>1 DEF IInv, RefCounts
<1>3. F \in SUBSET Procs /\ H \in SUBSET Procs OBVIOUS
<1>4. IsFiniteSet(F) /\ IsFiniteSet(H) /\ Cardinality(F) \in Nat /\ Cardinality(H) \in Nat
  BY <1>3, ProcsCount
<1>5. p \in H OBVIOUS
<1>6. Cardinality(H) # 0 BY <1>4, <1>5, FS_EmptySet
<1>7. Cardinality(F) = 0 BY <1>2, <1>4, <1>6
<1>8. F = {} BY <1>4, <1>7, FS_EmptySet
<1> QED BY <1>8

(* A process gives up its reference, and the lock, and leaves iput.        *)
Dropped(p, i) ==
  /\ u[p].pc \in {"iput", "iupdat"} /\ u[p].chan = Awake /\ i = u[p].ip
  /\ Returns(Prele(u, i), p)
  /\ inode' \in [Slots -> SlotType] /\ \A j \in Slots \ {i} : inode'[j] = inode[j]
  /\ inode'[i].count = inode[i].count - 1 /\ ~inode'[i].lock
  /\ inode'[i].number \in {0, inode[i].number}
  /\ inode'[i].count = 0 <=> inode'[i].number = 0
  /\ dinode' \in [Inos -> [mode : BOOLEAN, nlink : Int]]
  /\ UNCHANGED <<sinode, silock, dir, file>>

(* The end of iput: a reference less, and prele.                           *)
LEMMA DropStep ==
  ASSUME IInv, NEW p \in Procs, Dropped(p, u[p].ip)
  PROVE  IInv'
<1> DEFINE i == u[p].ip
<1>1. u[p].pc \in Working /\ u[p].pc \in {"iput", "iupdat"} /\ u[p].chan = Awake /\ file' = file
  BY DEF Dropped, Working
<1>2. /\ i \in Slots /\ inode[i].number \in Inos /\ inode[i] \in SlotType /\ inode[i] # Foreign
      /\ \A q \in Procs \ {p} : u[q].ip # i
  BY <1>1, SlotFacts
<1>3. PICK w \in [Procs -> UserType] : w = Prele(u, i) /\ Woke(w) /\ \A q \in Procs : w[q].chan # i
  <2>1. Woke(Prele(u, i)) /\ \A q \in Procs : Prele(u, i)[q].chan # i BY <1>2, PreleFacts
  <2> QED BY <2>1 DEF Woke
<1>4. Returns(w, p) BY <1>3 DEF Dropped
<1>5. /\ OthersSame(p) /\ UserOK(p)' /\ u'[p].ip = 0 /\ u'[p].chan = Awake
      /\ u'[p].pc \in {"user", "loop", "scan"} /\ \A q \in Procs \ {p} : u'[q] = w[q]
      /\ cur' \in Procs \cup {Nobody} /\ dlock' \in [Names -> Procs \cup {Nobody}]
  BY <1>1, <1>3, <1>4, LeaveStep
<1>6. TypeOK' BY <1>1, <1>5 DEF Dropped, IInv, OneSlot, TypeOK, SlotType
<1>7. i # 0 /\ Awake # i BY <1>2 DEF Slots, Awake
<1>8. \A q \in Procs : u'[q].chan # i BY <1>3, <1>5, <1>7
<1>9. inode'[i].count = inode[i].count + One(file'[p] = i) - One(file[p] = i)
                                       + One(u'[p].ip = i) - One(u[p].ip = i)
  <2>1. inode[i].count \in Nat /\ inode'[i].count = inode[i].count - 1 BY <1>2 DEF SlotType, Dropped
  <2>2. One(file'[p] = i) = One(file[p] = i) /\ One(file[p] = i) \in Nat BY <1>1 DEF One
  <2>3. One(u'[p].ip = i) = 0 /\ One(u[p].ip = i) = 1 BY <1>5, <1>7 DEF One
  <2> QED BY <2>1, <2>2, <2>3
<1>10. \A q \in Procs : file[q] = i => inode'[i].number # 0
  <2> SUFFICES ASSUME inode'[i].number = 0 PROVE \A q \in Procs : file[q] # i OBVIOUS
  <2>1. inode[i].count \in Nat /\ inode'[i].count = 0 /\ inode'[i].count = inode[i].count - 1
    BY <1>2 DEF SlotType, Dropped
  <2>2. inode[i].count = 1 BY <2>1
  <2> QED BY <1>1, <2>2, NoFile
<1>11. inode'[i].number # 0 => /\ inode'[i].number \in Inos
                               /\ \A j \in Slots \ {i} : inode[j].number # inode'[i].number
  BY <1>2, InodeFacts DEF Dropped
<1>12. Handed(p, i)
  <2>1. /\ inode' \in [Slots -> SlotType] /\ \A j \in Slots \ {i} : inode'[j] = inode[j]
        /\ inode'[i].count = 0 <=> inode'[i].number = 0
        /\ ~inode'[i].lock /\ silock' = silock
    BY DEF Dropped
  <2>2. u[p].ip \in {0, i} /\ u'[p].ip \in {0, i} BY <1>5
  <2>3. ~(u'[p].ip = i \/ file'[p] = i) \/ inode'[i].number # 0 BY <1>1, <1>5, <1>7, <1>10
  <2>3a. u'[p].ip # i /\ ~inode'[i].lock BY <1>5, <1>7, <2>1
  <2>4. inode'[i].lock <=> u'[p].ip = i BY <2>3a, Zenon
  <2>5. u'[p].chan = Awake /\ u[p].pc # "search" /\ u'[p].pc \notin {"ifree", "iupdat"} BY <1>1, <1>5
  <2> HIDE DEF i
  <2> QED BY <1>1, <1>2, <1>8, <1>9, <1>10, <1>11, <2>1, <2>2, <2>3, <2>4, <2>5 DEF Handed
<1> HIDE DEF i
<1> QED BY <1>2, <1>5, <1>6, <1>12, HolderStep

(* iput of a reference that is not the last.                               *)
LEMMA IputMoreKeeps ==
  ASSUME IInv, NEW p \in Procs, IputMore(p)
  PROVE  IInv'
<1> DEFINE i == u[p].ip
           s == [Unlocked(inode[i]) EXCEPT !.count = Unlocked(inode[i]).count - 1]
<1>1. /\ u[p].pc = "iput" /\ u[p].chan = Awake /\ inode[i].count # 1
      /\ UNCHANGED <<dinode, sinode, silock, dir, file>>
  BY DEF IputMore, At
<1>2. /\ i \in Slots /\ inode[i].number \in Inos /\ inode[i] \in SlotType /\ inode[i].count # 0
  BY <1>1, SlotFacts, InodeFacts DEF Working
<1>3. inode[i].count \in Nat /\ inode[i].count - 1 \in Nat BY <1>2 DEF SlotType
<1>4a. /\ Unlocked(inode[i]) \in SlotType /\ Unlocked(inode[i]).count = inode[i].count
       /\ Unlocked(inode[i]).lock = FALSE /\ Unlocked(inode[i]).number = inode[i].number
  BY <1>2 DEF SlotType, Unlocked
<1>4. s \in SlotType
  <2>1. \A v \in SlotType, m \in Nat : [v EXCEPT !.count = m] \in SlotType BY DEF SlotType
  <2> QED BY <1>3, <1>4a, <2>1
<1>5. s.count = inode[i].count - 1 /\ s.lock = FALSE /\ s.number = inode[i].number
  BY <1>4a DEF SlotType
<1>6. inode' = [inode EXCEPT ![i] = s] BY DEF IputMore
<1>7. Returns(Prele(u, i), p) BY DEF IputMore
<1> HIDE DEF s
<1>8. inode' \in [Slots -> SlotType] /\ inode'[i] = s /\ \A j \in Slots \ {i} : inode'[j] = inode[j]
  <2>1. inode \in [Slots -> SlotType] BY DEF IInv, OneSlot, TypeOK, SlotType
  <2> QED BY <1>2, <1>4, <1>6, <2>1
<1>9. dinode' \in [Inos -> [mode : BOOLEAN, nlink : Int]] BY <1>1 DEF IInv, OneSlot, TypeOK
<1>10. s.count = 0 <=> s.number = 0 BY <1>1, <1>2, <1>3, <1>5 DEF Inos
<1>11. Dropped(p, i) BY <1>1, <1>5, <1>7, <1>8, <1>9, <1>10 DEF Dropped
<1> QED BY <1>11, DropStep

(* The end of iput, for the last reference.                                *)
LEMMA ClearStep ==
  ASSUME IInv, NEW p \in Procs, u[p].pc \in {"iput", "iupdat"}, u[p].chan = Awake,
         inode[u[p].ip].count = 1, IputClear(p),
         dinode' \in [Inos -> [mode : BOOLEAN, nlink : Int]], UNCHANGED <<sinode, silock, dir, file>>
  PROVE  IInv'
<1> DEFINE i == u[p].ip
           s == [Empty EXCEPT !.mode = inode[i].mode, !.nlink = inode[i].nlink]
<1>2. i \in Slots /\ inode[i] \in SlotType BY SlotFacts DEF Working
<1>3. inode[i].mode \in BOOLEAN /\ inode[i].nlink \in Int BY <1>2 DEF SlotType
<1>4. s \in SlotType
  <2>1. Empty \in SlotType BY SizesAssumption DEF Empty, SlotType
  <2>2. \A v \in SlotType, m \in Int : [v EXCEPT !.nlink = m] \in SlotType BY DEF SlotType
  <2>3. \A v \in SlotType, b \in BOOLEAN : [v EXCEPT !.mode = b] \in SlotType BY DEF SlotType
  <2>4. [Empty EXCEPT !.mode = inode[i].mode] \in SlotType BY <1>3, <2>1, <2>3
  <2> QED BY <1>3, <2>2, <2>4
<1>5. s.count = 0 /\ s.lock = FALSE /\ s.number = 0 BY DEF Empty
<1>6. inode' = [inode EXCEPT ![i] = s] BY DEF IputClear
<1>7. Returns(Prele(u, i), p) BY DEF IputClear
<1> HIDE DEF s
<1>8. inode' \in [Slots -> SlotType] /\ inode'[i] = s /\ \A j \in Slots \ {i} : inode'[j] = inode[j]
  <2>1. inode \in [Slots -> SlotType] BY DEF IInv, OneSlot, TypeOK, SlotType
  <2> QED BY <1>2, <1>4, <1>6, <2>1
<1>11. Dropped(p, i) BY <1>5, <1>7, <1>8 DEF Dropped
<1> QED BY <1>11, DropStep

(* The last reference to a file with links that has not been changed.      *)
LEMMA IputSameKeeps ==
  ASSUME IInv, NEW p \in Procs, IputSame(p)
  PROVE  IInv'
<1>1. /\ u[p].pc = "iput" /\ u[p].chan = Awake /\ inode[u[p].ip].count = 1 /\ IputClear(p)
      /\ UNCHANGED <<dinode, sinode, silock, dir, file>>
  BY DEF IputSame, At
<1>2. dinode' \in [Inos -> [mode : BOOLEAN, nlink : Int]] BY <1>1 DEF IInv, OneSlot, TypeOK
<1> QED BY <1>1, <1>2, ClearStep

(* What is written is an i-node.                                           *)
LEMMA WriteFacts ==
  ASSUME IInv, NEW i \in Slots, inode[i].number \in Inos, WriteDinode(i)
  PROVE  dinode' \in [Inos -> [mode : BOOLEAN, nlink : Int]]
<1>1. dinode \in [Inos -> [mode : BOOLEAN, nlink : Int]] BY DEF IInv, OneSlot, TypeOK
<1>2. inode[i].mode \in BOOLEAN /\ inode[i].nlink \in Int BY DEF IInv, OneSlot, TypeOK
<1>3. [mode |-> inode[i].mode, nlink |-> inode[i].nlink] \in [mode : BOOLEAN, nlink : Int] BY <1>2
<1> QED BY <1>1, <1>3 DEF WriteDinode

(* The i-node has been written, or could not be.                           *)
LEMMA IputEndKeeps ==
  ASSUME IInv, NEW p \in Procs, IputEnd(p)
  PROVE  IInv'
<1>1. /\ u[p].pc = "iupdat" /\ u[p].chan = Awake /\ IputClear(p)
      /\ UNCHANGED <<sinode, silock, dir, file>>
  BY DEF IputEnd, At
<1>2. inode[u[p].ip].count = 1 BY <1>1 DEF IInv, SlotsOK
<1>3. u[p].ip \in Slots /\ inode[u[p].ip].number \in Inos BY <1>1, SlotFacts DEF Working
<1>4. dinode' \in [Inos -> [mode : BOOLEAN, nlink : Int]]
  <2>1. CASE WriteDinode(u[p].ip) BY <1>3, <2>1, WriteFacts
  <2>2. CASE dinode' = dinode BY <2>2 DEF IInv, OneSlot, TypeOK
  <2> QED BY <2>1, <2>2 DEF IputEnd
<1> QED BY <1>1, <1>2, <1>4, ClearStep

----------------------------------------------------------------------------
(* The end of open1: the file gets the reference, or iput does.            *)
LEMMA OpenStep ==
  ASSUME IInv, NEW p \in Procs, u[p].pc \in {"got", "itrunc", "wdir"}, u[p].chan = Awake,
         u[p].call \in {"open", "trunc", "creat"}, NEW ip \in SlotType,
         ip.number = inode[u[p].ip].number, ip.count = inode[u[p].ip].count, ip.lock = TRUE,
         Open1(p, ip), UNCHANGED <<dinode, sinode, silock>>,
         dir' \in [Names -> 0..NINO], dlock' \in [Names -> Procs \cup {Nobody}]
  PROVE  IInv'
<1>1. PICK i \in Slots : i = u[p].ip
  <2>1. u[p].pc \in Working BY DEF Working
  <2> QED BY <2>1, SlotFacts
<1>2. /\ inode[i].number \in Inos /\ inode[i] \in SlotType /\ inode[i] # Foreign
      /\ inode[i].count # 0 /\ \A j \in Slots \ {i} : inode[j].number # inode[i].number
      /\ \A q \in Procs \ {p} : u[q].ip # i
  <2>1. u[p].pc \in Working BY DEF Working
  <2> QED BY <1>1, <2>1, SlotFacts, InodeFacts
<1>3. u[p] \in UserType /\ UserOK(p) /\ file[p] = 0 BY UserFacts DEF UserOK
<1>4. file \in [Procs -> 0..NINODE] /\ inode \in [Slots -> SlotType]
  BY DEF IInv, OneSlot, TypeOK, SlotType
<1>5. PICK w \in [Procs -> UserType] : w = Prele(u, i) /\ Woke(w) /\ \A q \in Procs : w[q].chan # i
  <2>1. Woke(Prele(u, i)) /\ \A q \in Procs : Prele(u, i)[q].chan # i BY PreleFacts
  <2> QED BY <2>1 DEF Woke
<1>6. /\ w[p] \in UserType /\ w[p].call = u[p].call /\ w[p].ip = i /\ w[p].ino = u[p].ino
      /\ w[p].chan = Awake
  BY <1>1, <1>5 DEF Woke
<1>7. i # 0 /\ Awake # i /\ i \in 0..NINODE BY SizesAssumption DEF Slots, Awake
<1>8. inode[i].count \in Nat /\ inode[i].number # 0 BY <1>2 DEF SlotType, Inos
<1>9. CASE /\ inode' = [inode EXCEPT ![i] = Unlocked(ip)] /\ file' = [file EXCEPT ![p] = i]
           /\ u' = [w EXCEPT ![p] = User] /\ cur' = Nobody
  <2>1. User \in UserType BY UserType0
  <2>2. file' \in [Procs -> 0..NINODE] /\ file'[p] = i /\ \A q \in Procs \ {p} : file'[q] = file[q]
    BY <1>4, <1>7, <1>9
  <2>3. OthersSame(p) /\ u'[p] = User /\ \A q \in Procs \ {p} : u'[q] = w[q]
    BY <1>5, <1>9, <2>1, <2>2, WokeStep
  <2>4. User.pc = "user" /\ User.ip = 0 /\ User.chan = Awake /\ User.call = "none" BY DEF User
  <2>5. UserOK(p)' BY <2>1, <2>3, <2>4 DEF UserOK, Working
  <2>6. /\ Unlocked(ip) \in SlotType /\ Unlocked(ip).number = ip.number
        /\ Unlocked(ip).count = ip.count /\ Unlocked(ip).lock = FALSE
    BY DEF SlotType, Unlocked
  <2>7. /\ inode' \in [Slots -> SlotType] /\ inode'[i] = Unlocked(ip)
        /\ \A j \in Slots \ {i} : inode'[j] = inode[j]
    BY <1>4, <1>9, <2>6
  <2>8. TypeOK' BY <1>9, <2>2, <2>7 DEF IInv, OneSlot, TypeOK, SlotType
  <2>9. /\ inode'[i].number = inode[i].number /\ inode'[i].count = inode[i].count
        /\ ~inode'[i].lock
    BY <1>1, <2>6, <2>7
  <2>10. inode'[i].count = inode[i].count + One(file'[p] = i) - One(file[p] = i)
                                          + One(u'[p].ip = i) - One(u[p].ip = i)
    <3>1. /\ One(file'[p] = i) = 1 /\ One(file[p] = i) = 0
          /\ One(u'[p].ip = i) = 0 /\ One(u[p].ip = i) = 1
      BY <1>1, <1>3, <1>7, <2>2, <2>3, <2>4 DEF One
    <3> QED BY <1>8, <2>9, <3>1
  <2>11. \A q \in Procs : u'[q].chan # i BY <1>5, <1>7, <2>3, <2>4
  <2>12. Handed(p, i)
    <3>1. u'[p].ip # i /\ ~inode'[i].lock BY <1>7, <2>3, <2>4, <2>9
    <3>2. inode'[i].lock <=> u'[p].ip = i BY <3>1, Zenon
    <3>3. /\ u'[p].chan = Awake /\ u[p].pc # "search" /\ silock' = silock
          /\ u'[p].pc \notin {"ifree", "iupdat"}
          /\ u[p].ip \in {0, i} /\ u'[p].ip \in {0, i} /\ file[p] = 0 /\ file'[p] = i
      BY <1>1, <1>3, <2>2, <2>3, <2>4
    <3>4. /\ inode'[i].count = 0 <=> inode'[i].number = 0
          /\ inode'[i].number \in Inos
          /\ \A j \in Slots \ {i} : inode[j].number # inode'[i].number
          /\ inode'[i].number # 0
      BY <1>2, <1>8, <2>9
    <3> QED BY <1>2, <2>7, <2>10, <2>11, <3>2, <3>3, <3>4 DEF Handed
  <2> QED BY <2>3, <2>5, <2>8, <2>12, HolderStep
<1>10. CASE /\ inode' = [inode EXCEPT ![i] = [ip EXCEPT !.want = FALSE]] /\ file' = file
            /\ u' = [w EXCEPT ![p].pc = "iput"] /\ cur' = p
  <2> DEFINE r == [w[p] EXCEPT !.pc = "iput"]
             s == [ip EXCEPT !.want = FALSE]
  <2>1. r \in UserType BY <1>6 DEF UserType, Working
  <2>2. u' = [w EXCEPT ![p] = r] /\ \A q \in Procs \ {p} : file'[q] = file[q] BY <1>10
  <2>4. /\ r.pc = "iput" /\ r.ip = i /\ r.chan = Awake /\ r.call = u[p].call /\ r.ino = u[p].ino
    BY <1>6 DEF UserType
  <2>6. s \in SlotType /\ s.number = ip.number /\ s.count = ip.count /\ s.lock = TRUE
    BY DEF SlotType
  <2>7. /\ inode' \in [Slots -> SlotType] /\ inode'[i] = s
        /\ \A j \in Slots \ {i} : inode'[j] = inode[j]
    BY <1>4, <1>10, <2>6
  <2> HIDE DEF r, s
  <2>3. OthersSame(p) /\ u'[p] = r /\ \A q \in Procs \ {p} : u'[q] = w[q]
    BY <1>5, <2>1, <2>2, WokeStep
  <2>5. UserOK(p)' BY <1>3, <1>7, <1>10, <2>1, <2>3, <2>4 DEF UserOK, Working
  <2>8. TypeOK' BY <1>10, <2>7 DEF IInv, OneSlot, TypeOK, SlotType
  <2>9. /\ inode'[i].number = inode[i].number /\ inode'[i].count = inode[i].count
        /\ inode'[i].lock = TRUE
    BY <1>1, <2>6, <2>7
  <2>10. inode'[i].count = inode[i].count + One(file'[p] = i) - One(file[p] = i)
                                          + One(u'[p].ip = i) - One(u[p].ip = i)
    <3>1. /\ One(file'[p] = i) = 0 /\ One(file[p] = i) = 0
          /\ One(u'[p].ip = i) = 1 /\ One(u[p].ip = i) = 1
      BY <1>1, <1>3, <1>7, <1>10, <2>3, <2>4 DEF One
    <3> QED BY <1>8, <2>9, <3>1
  <2>11. \A q \in Procs : u'[q].chan # i BY <1>5, <1>7, <2>3, <2>4
  <2>12. Handed(p, i)
    <3>1. u'[p].ip = i /\ inode'[i].lock BY <2>3, <2>4, <2>9
    <3>2. inode'[i].lock <=> u'[p].ip = i BY <3>1, Zenon
    <3>3. /\ u'[p].chan = Awake /\ u[p].pc # "search" /\ silock' = silock
          /\ u'[p].pc \notin {"ifree", "iupdat"}
          /\ u[p].ip \in {0, i} /\ u'[p].ip \in {0, i} /\ file'[p] = file[p]
      BY <1>1, <1>10, <2>3, <2>4
    <3>4. /\ inode'[i].count = 0 <=> inode'[i].number = 0
          /\ inode'[i].number \in Inos
          /\ \A j \in Slots \ {i} : inode[j].number # inode'[i].number
          /\ inode'[i].number # 0
      BY <1>2, <1>8, <2>9
    <3> QED BY <1>2, <2>7, <2>10, <2>11, <3>2, <3>3, <3>4 DEF Handed
  <2> QED BY <2>3, <2>5, <2>8, <2>12, HolderStep
<1>11. \/ /\ inode' = [inode EXCEPT ![i] = Unlocked(ip)] /\ file' = [file EXCEPT ![p] = i]
          /\ u' = [w EXCEPT ![p] = User] /\ cur' = Nobody
       \/ /\ inode' = [inode EXCEPT ![i] = [ip EXCEPT !.want = FALSE]] /\ file' = file
          /\ u' = [w EXCEPT ![p].pc = "iput"] /\ cur' = p
  BY <1>1, <1>5 DEF Open1
<1> QED BY <1>9, <1>10, <1>11

(* The inode of a call that is about to open it.                           *)
LEMMA HeldFacts ==
  ASSUME IInv, NEW p \in Procs, u[p].pc \in {"got", "itrunc", "wdir"}
  PROVE  /\ inode[u[p].ip] \in SlotType /\ inode[u[p].ip].lock = TRUE
         /\ inode[u[p].ip].number \in Inos
         /\ dir \in [Names -> 0..NINO] /\ dlock \in [Names -> Procs \cup {Nobody}]
<1>1. u[p].pc \in Working BY DEF Working
<1> QED BY <1>1, SlotFacts DEF IInv, OneSlot, TypeOK

(* open, and creat of an old file that is free again.                      *)
LEMMA OpenedKeeps ==
  ASSUME IInv, NEW p \in Procs, Opened(p)
  PROVE  IInv'
<1>1. /\ u[p].pc = "got" /\ u[p].chan = Awake /\ u[p].call \in {"open", "trunc"}
      /\ Open1(p, inode[u[p].ip]) /\ UNCHANGED <<dinode, sinode, silock, dir, dlock>>
  BY DEF Opened, At
<1>2. inode[u[p].ip] \in SlotType /\ inode[u[p].ip].lock = TRUE BY <1>1, HeldFacts
<1>3. dir' \in [Names -> 0..NINO] /\ dlock' \in [Names -> Procs \cup {Nobody}] BY <1>1, HeldFacts
<1> QED BY <1>1, <1>2, <1>3, OpenStep

(* creat of an old file.                                                   *)
LEMMA TruncatedKeeps ==
  ASSUME IInv, NEW p \in Procs, Truncated(p)
  PROVE  IInv'
<1> DEFINE s == [inode[u[p].ip] EXCEPT !.chg = TRUE]
<1>1. /\ u[p].pc = "itrunc" /\ u[p].chan = Awake /\ Open1(p, s)
      /\ UNCHANGED <<dinode, sinode, silock, dir, dlock>>
  BY DEF Truncated, At
<1>2. inode[u[p].ip] \in SlotType /\ inode[u[p].ip].lock = TRUE BY <1>1, HeldFacts
<1>3. dir' \in [Names -> 0..NINO] /\ dlock' \in [Names -> Procs \cup {Nobody}] BY <1>1, HeldFacts
<1>4. /\ s \in SlotType /\ s.number = inode[u[p].ip].number /\ s.count = inode[u[p].ip].count
      /\ s.lock = TRUE
  BY <1>2 DEF SlotType
<1>5. u[p].call = "trunc" BY <1>1, UserFacts DEF UserOK
<1> HIDE DEF s
<1> QED BY <1>1, <1>3, <1>4, <1>5, OpenStep

(* creat of a new file.                                                    *)
LEMMA CreatedKeeps ==
  ASSUME IInv, NEW p \in Procs, Created(p)
  PROVE  IInv'
<1>1. /\ u[p].pc = "wdir" /\ u[p].chan = Awake /\ u[p].call = "creat"
      /\ dir' = [dir EXCEPT ![u[p].name] = inode[u[p].ip].number] /\ dlock' = LeaveDir(p)
      /\ Open1(p, inode[u[p].ip]) /\ UNCHANGED <<dinode, sinode, silock>>
  BY DEF Created, At
<1>2. inode[u[p].ip] \in SlotType /\ inode[u[p].ip].lock = TRUE BY <1>1, HeldFacts
<1>3. dir' \in [Names -> 0..NINO]
  <2>1. inode[u[p].ip].number \in Inos /\ dir \in [Names -> 0..NINO] BY <1>1, HeldFacts
  <2>2. inode[u[p].ip].number \in 0..NINO BY <2>1, SizesAssumption DEF Inos
  <2> QED BY <1>1, <2>1, <2>2
<1>4. dlock' \in [Names -> Procs \cup {Nobody}] BY <1>1, HeldFacts DEF LeaveDir
<1> QED BY <1>1, <1>2, <1>3, <1>4, OpenStep

----------------------------------------------------------------------------
(* The table before any call: nothing in core but what others use.         *)
LEMMA InitIInv == Init => IInv
<1> SUFFICES ASSUME Init PROVE IInv OBVIOUS
<1>1. PICK k \in 0..NINODE - 1 : inode = [i \in Slots |-> IF i <= k THEN Foreign ELSE Empty]
  BY DEF Init
<1>2. Empty \in SlotType BY SizesAssumption DEF Empty, SlotType
<1>3. Foreign \in SlotType
  <2>1. NINO + 1 \in 0..NINO + 1 BY SizesAssumption
  <2>2. \A v \in SlotType, n \in 0..NINO + 1 : [v EXCEPT !.number = n] \in SlotType BY DEF SlotType
  <2>3. \A v \in SlotType, m \in Nat : [v EXCEPT !.count = m] \in SlotType BY DEF SlotType
  <2>4. \A v \in SlotType : [v EXCEPT !.mode = TRUE] \in SlotType BY DEF SlotType
  <2>5. \A v \in SlotType, m \in Int : [v EXCEPT !.nlink = m] \in SlotType BY DEF SlotType
  <2>6. [Empty EXCEPT !.number = NINO + 1, !.count = 1] \in SlotType BY <1>2, <2>1, <2>2, <2>3
  <2>7. [Empty EXCEPT !.number = NINO + 1, !.count = 1, !.mode = TRUE] \in SlotType BY <2>4, <2>6
  <2>8. [Empty EXCEPT !.number = NINO + 1, !.count = 1, !.mode = TRUE, !.nlink = 1] \in SlotType
    <3>1. 1 \in Int OBVIOUS
    <3> QED BY <2>5, <2>7, <3>1, Zenon
  <2> QED BY <2>8, Zenon DEF Foreign
<1>4. Empty.number = 0 /\ Empty.count = 0 /\ ~Empty.lock BY DEF Empty
<1>5. Foreign.number = NINO + 1 /\ ~Foreign.lock BY DEF Foreign, Empty
<1>6. \A i \in Slots : inode[i] = Foreign \/ inode[i] = Empty BY <1>1
<1>7. TypeOK
  <2>1. inode \in [Slots -> SlotType] BY <1>1, <1>2, <1>3
  <2>2. dinode \in [Inos -> [mode : BOOLEAN, nlink : Int]] BY DEF Init
  <2>3. 0 \in 0..NINO /\ 0 \in 0..NINODE BY SizesAssumption
  <2>4. sinode \in Seq(Inos) BY DEF Init
  <2> QED BY <2>1, <2>2, <2>3, <2>4 DEF Init, TypeOK, SlotType
<1>8. OneSlot
  <2>1. 0 \notin Inos /\ NINO + 1 \notin Inos BY SizesAssumption DEF Inos
  <2> QED BY <1>4, <1>5, <1>6, <1>7, <2>1 DEF OneSlot
<1>9. \A p \in Procs : u[p] = User /\ file[p] = 0 BY DEF Init
<1>10. User.pc = "user" /\ User.ip = 0 /\ User.chan = Awake /\ User.call = "none" BY DEF User
<1>11. UsersOK
  <2>1. u = [p \in Procs |-> u[p]] BY DEF Init
  <2> QED BY <1>9, <1>10, <2>1, UserType0 DEF UsersOK, UserOK, Working
<1>12. SlotsOK
  <2>1. 0 # NINO + 1 BY SizesAssumption
  <2> QED BY <1>4, <1>6, <1>9, <1>10, <2>1 DEF SlotsOK
<1>13. LocksOK
  <2>1. 0 \notin Slots BY DEF Slots
  <2> QED BY <1>4, <1>5, <1>6, <1>9, <1>10, <2>1 DEF LocksOK
<1>14. RefCounts
  <2>1. 0 \notin Slots BY DEF Slots
  <2>2. ASSUME NEW i \in Slots
        PROVE  {p \in Procs : file[p] = i} = {} /\ {p \in Procs : u[p].ip = i} = {}
    BY <1>9, <1>10, <2>1
  <2>3. Cardinality({}) = 0 BY FS_EmptySet
  <2> QED BY <1>4, <1>6, <2>2, <2>3 DEF RefCounts
<1>15. NoLostWakeup
  <2>1. Awake \notin Slots /\ Awake # SIlock BY SizesAssumption DEF Awake, SIlock, Slots
  <2> QED BY <1>9, <1>10, <2>1 DEF NoLostWakeup
<1>16. SearchOK BY DEF Init, SearchOK
<1> QED BY <1>8, <1>11, <1>12, <1>13, <1>14, <1>15, <1>16 DEF IInv

(* The invariant is inductive.                                             *)
LEMMA NextKeeps == IInv /\ [Next]_vars => IInv'
<1> SUFFICES ASSUME IInv, [Next]_vars PROVE IInv' OBVIOUS
<1>1. CASE Next
  <2>1. PICK p \in Procs : Calls(p) \/ Steps(p) BY <1>1 DEF Next
  <2>2. CASE Calls(p)
    <3>1. ASSUME NEW n \in Names, Open(p, n) \/ CreatOld(p, n) PROVE IInv'
      <4>1. Namei(p, "open", n) \/ Namei(p, "trunc", n) BY <3>1 DEF Open, CreatOld
      <4> QED BY <4>1, NameiKeeps
    <3>2. ASSUME NEW n \in Names, CreatNew(p, n) PROVE IInv' BY <3>2, CreatNewKeeps
    <3>3. ASSUME NEW n \in Names, Unlink(p, n) PROVE IInv' BY <3>3, UnlinkKeeps
    <3>4. CASE Close(p) BY <3>4, CloseKeeps
    <3>5. CASE Sync(p) BY <3>5, SyncKeeps
    <3> QED BY <2>2, <3>1, <3>2, <3>3, <3>4, <3>5 DEF Calls
  <2>3. CASE Steps(p)
    <3>1. CASE IgetWait(p) BY <3>1, IgetWaitKeeps
    <3>2. CASE IgetHit(p) BY <3>2, IgetHitKeeps
    <3>3. CASE IgetFull(p) BY <3>3, IgetFullKeeps
    <3>4. CASE IgetMiss(p) BY <3>4, IgetMissKeeps
    <3>5. CASE IgetRead(p) BY <3>5, IgetReadKeeps
    <3>6. CASE IgetError(p) BY <3>6, IgetErrorKeeps
    <3>7. CASE IputMore(p) BY <3>7, IputMoreKeeps
    <3>8. CASE IputTrunc(p) BY <3>8, IputTruncKeeps
    <3>9. CASE IputFree(p) BY <3>9, IputFreeKeeps
    <3>10. CASE IputWrite(p) BY <3>10, IputWriteKeeps
    <3>11. CASE IputSame(p) BY <3>11, IputSameKeeps
    <3>12. CASE IputEnd(p) BY <3>12, IputEndKeeps
    <3>13. CASE IallocWait(p) BY <3>13, IallocWaitKeeps
    <3>14. CASE IallocPop(p) BY <3>14, IallocPopKeeps
    <3>15. CASE IallocSearch(p) BY <3>15, IallocSearchKeeps
    <3>16. CASE IallocAgain(p) BY <3>16, IallocAgainKeeps
    <3>17. CASE SearchRead(p) \/ SearchError(p) BY <3>17, SearchStepKeeps
    <3>18. CASE Maknode(p) BY <3>18, MaknodeKeeps
    <3>19. CASE Created(p) BY <3>19, CreatedKeeps
    <3>20. CASE CreateError(p) BY <3>20, CreateErrorKeeps
    <3>21. CASE Opened(p) BY <3>21, OpenedKeeps
    <3>22. CASE Refused(p) BY <3>22, RefusedKeeps
    <3>23. CASE Truncate(p) BY <3>23, TruncateKeeps
    <3>24. CASE Truncated(p) BY <3>24, TruncatedKeeps
    <3>25. CASE UnlinkGot(p) BY <3>25, UnlinkGotKeeps
    <3>26. CASE Unlinked(p) BY <3>26, UnlinkedKeeps
    <3>27. CASE PlockWait(p) BY <3>27, PlockWaitKeeps
    <3>28. CASE Plock(p) BY <3>28, PlockKeeps
    <3>29. CASE UpdateNext(p) BY <3>29, UpdateNextKeeps
    <3>30. CASE UpdateWrite(p) BY <3>30, UpdateWriteKeeps
    <3>31. CASE UpdateEnd(p) BY <3>31, UpdateEndKeeps
    <3> QED
      BY <2>3, <3>1, <3>2, <3>3, <3>4, <3>5, <3>6, <3>7, <3>8, <3>9, <3>10, <3>11, <3>12, <3>13,
         <3>14, <3>15, <3>16, <3>17, <3>18, <3>19, <3>20, <3>21, <3>22, <3>23, <3>24, <3>25, <3>26,
         <3>27, <3>28, <3>29, <3>30, <3>31
      DEF Steps
  <2> QED BY <2>1, <2>2, <2>3
<1>2. CASE UNCHANGED vars
  <2>1. OneSlot' BY <1>2 DEF vars, IInv, OneSlot, TypeOK
  <2>2. UsersOK' BY <1>2 DEF vars, IInv, UsersOK, UserOK
  <2>3. SlotsOK' BY <1>2 DEF vars, IInv, SlotsOK
  <2>4. LocksOK' BY <1>2 DEF vars, IInv, LocksOK
  <2>5. RefCounts' BY <1>2 DEF vars, IInv, RefCounts
  <2>6. NoLostWakeup' BY <1>2 DEF vars, IInv, NoLostWakeup
  <2>7. SearchOK' BY <1>2 DEF vars, IInv, SearchOK
  <2> QED BY <2>1, <2>2, <2>3, <2>4, <2>5, <2>6, <2>7 DEF IInv
<1> QED BY <1>1, <1>2

(* Every reachable state satisfies the inductive invariant.                *)
THEOREM InodeInvariant == Spec => []IInv
<1>1. Init => IInv BY InitIInv
<1>2. IInv /\ [Next]_vars => IInv' BY NextKeeps
<1> QED BY <1>1, <1>2, PTL DEF Spec

(* iget never puts an i-node into a second slot of the table, however its  *)
(* search, its sleeps and the slots given up meanwhile interleave.         *)
THEOREM InodeOneSlot == Spec => []OneSlot
<1>1. IInv => OneSlot BY DEF IInv
<1> QED BY <1>1, InodeInvariant, PTL

(* i_count is the number of files and calls that refer to the inode.       *)
THEOREM InodeRefCounts == Spec => []RefCounts
<1>1. IInv => RefCounts BY DEF IInv
<1> QED BY <1>1, InodeInvariant, PTL

(* ILOCK has exactly one holder, from iget or plock to prele.              *)
THEOREM InodeOneHolder == Spec => []OneHolder
<1>1. IInv => OneHolder
  <2> SUFFICES ASSUME IInv, NEW i \in Slots
               PROVE  Cardinality({p \in Procs : u[p].ip = i}) = IF inode[i].lock THEN 1 ELSE 0
    BY DEF OneHolder
  <2>1. i # 0 BY DEF Slots
  <2>2. CASE inode[i].lock
    <3>1. PICK p \in Procs : u[p].ip = i BY <2>2 DEF IInv, LocksOK
    <3>2. \A q \in Procs : u[q].ip = i => q = p BY <2>1, <3>1 DEF IInv, LocksOK
    <3>3. {q \in Procs : u[q].ip = i} = {p} BY <3>1, <3>2
    <3>4. Cardinality({p}) = 1 BY FS_Singleton
    <3> QED BY <2>2, <3>3, <3>4
  <2>3. CASE ~inode[i].lock
    <3>1. \A q \in Procs : u[q].ip # i BY <2>3 DEF IInv, LocksOK
    <3>2. {q \in Procs : u[q].ip = i} = {} BY <3>1
    <3>3. Cardinality({}) = 0 BY FS_EmptySet
    <3> QED BY <2>3, <3>2, <3>3
  <2> QED BY <2>2, <2>3
<1> QED BY <1>1, InodeInvariant, PTL

(* Who sleeps for an inode or for s_ilock will be woken.                   *)
THEOREM InodeNoLostWakeup == Spec => []NoLostWakeup
<1>1. IInv => NoLostWakeup BY DEF IInv
<1> QED BY <1>1, InodeInvariant, PTL

----------------------------------------------------------------------------
(* Why every name leads to a file.  What follows is about the i-nodes, not *)
(* the slots: it strengthens LinkedIsLive on top of IInv.                  *)
Named(ino) == \E n \in Names : dir[n] = ino
Live(r) == r.mode /\ r.nlink > 0
Filled(i) == \A p \in Procs : ~(u[p].ip = i /\ u[p].pc = "read")

(* creat before the name is written, unlink before it is cleared: both     *)
(* hold the lock of the directory.                                         *)
Creating(p) ==
  /\ u[p].call = "creat"
  /\ u[p].again \/ u[p].pc \in {"ialloc", "loop", "search", "iget", "read", "got", "wdir"}
Unlinking(p) == u[p].call = "unlink" /\ u[p].pc \in {"iget", "read", "got", "wdir"}

(* What a process believes of its name and of its inode is still true.     *)
LocalsOK(p) ==
  /\ u[p].pc \in {"ialloc", "loop", "search"} => u[p].call = "creat"
  /\ Creating(p) \/ Unlinking(p) => u[p].name \in Names /\ dlock[u[p].name] = p
  /\ Creating(p) => dir[u[p].name] = 0
  /\ Unlinking(p) => dir[u[p].name] = u[p].ino
  /\ u[p].again => u[p].call = "creat" /\ u[p].pc \in {"iput", "ifree", "iupdat"}
  /\ u[p].pc = "read" \/ (Unlinking(p) /\ u[p].pc # "iget") => inode[u[p].ip].number = u[p].ino
  /\ u[p].pc = "ifree" => inode[u[p].ip].nlink <= 0

(* A slot whose i-node has been read.  One that has a name is in use and   *)
(* has a link, and one without changes is as it is on the volume.          *)
SlotLive(i) ==
  inode[i].number \in Inos /\ Filled(i) =>
    /\ Named(inode[i].number) => Live(inode[i])
    /\ ~inode[i].chg => /\ dinode[inode[i].number].mode = inode[i].mode
                        /\ dinode[inode[i].number].nlink = inode[i].nlink

(* An i-node that is in no slot, or not read yet.                          *)
Absent(ino) == \A i \in Slots : inode[i].number = ino => ~Filled(i)
VolumeLive(ino) == Named(ino) /\ Absent(ino) => Live(dinode[ino])

(* The inode creat has made has links, and no name yet.                    *)
NewFile(p) ==
  u[p].pc = "wdir" /\ u[p].call = "creat" =>
    Live(inode[u[p].ip]) /\ ~Named(inode[u[p].ip].number)

FilesOK ==
  /\ \A m, n \in Names : dir[m] = dir[n] /\ dir[m] # 0 => m = n
  /\ \A i \in Slots : SlotLive(i)
  /\ \A ino \in Inos : VolumeLive(ino)
  /\ \A p \in Procs : NewFile(p)

LInv == (\A p \in Procs : LocalsOK(p)) /\ (eio \/ FilesOK)

(* A step of p leaves the locals of the others alone, and the directories  *)
(* they hold.                                                              *)
Runs(p) ==
  \A q \in Procs \ {p} :
    /\ u'[q].pc = u[q].pc /\ u'[q].call = u[q].call /\ u'[q].name = u[q].name
    /\ u'[q].ino = u[q].ino /\ u'[q].ip = u[q].ip /\ u'[q].again = u[q].again
KeepsDirs(p) ==
  \A n \in Names : dlock[n] \in Procs \ {p} => dlock'[n] = dlock[n] /\ dir'[n] = dir[n]

SameFile(i) ==
  inode'[i].number = inode[i].number /\ inode'[i].mode = inode[i].mode
  /\ inode'[i].nlink = inode[i].nlink
Calm(i) == SameFile(i) /\ (inode[i].chg => inode'[i].chg)

(* The others still believe what is true.                                  *)
LEMMA OthersBelieve ==
  ASSUME IInv, LInv, NEW p \in Procs, Runs(p), KeepsDirs(p), LocalsOK(p)',
         \A q \in Procs \ {p} : u[q].pc \in Working => SameFile(u[q].ip)
  PROVE  \A q \in Procs : LocalsOK(q)'
<1> SUFFICES ASSUME NEW q \in Procs \ {p} PROVE LocalsOK(q)' OBVIOUS
<1>1. LocalsOK(q) BY DEF LInv
<1>2. Creating(q)' <=> Creating(q) BY DEF Runs, Creating
<1>3. Unlinking(q)' <=> Unlinking(q) BY DEF Runs, Unlinking
<1>4. u[q].pc \in Working => SameFile(u[q].ip) OBVIOUS
<1>5. Creating(q) \/ Unlinking(q) => dlock'[u[q].name] = q /\ dir'[u[q].name] = dir[u[q].name]
  BY <1>1 DEF LocalsOK, KeepsDirs
<1>6. Unlinking(q) /\ u[q].pc # "iget" => u[q].pc \in Working BY DEF Unlinking, Working
<1>7. u[q].pc \in {"read", "ifree"} => u[q].pc \in Working BY DEF Working
<1> QED BY <1>1, <1>2, <1>3, <1>4, <1>5, <1>6, <1>7 DEF LocalsOK, Runs, SameFile

(* A step that changes no i-node and no name.                              *)
LEMMA CalmStep ==
  ASSUME IInv, LInv, NEW p \in Procs, Runs(p), KeepsDirs(p), LocalsOK(p)',
         \A i \in Slots : Calm(i), dinode' = dinode, dir' = dir, eio' = eio,
         u[p].pc # "read", u'[p].pc # "read",
         ~(u'[p].pc = "wdir" /\ u'[p].call = "creat")
  PROVE  LInv'
<1>1. \A q \in Procs : u[q].pc \in Working => u[q].ip \in Slots BY SlotFacts
<1>2. \A q \in Procs : LocalsOK(q)' BY <1>1, OthersBelieve DEF Calm
<1> SUFFICES ASSUME FilesOK PROVE FilesOK' BY <1>2 DEF LInv
<1>3. \A i : Filled(i)' <=> Filled(i) BY DEF Filled, Runs
<1>4. \A x : Named(x)' <=> Named(x) BY DEF Named
<1>5. ASSUME NEW i \in Slots PROVE SlotLive(i)'
  <2>1. SlotLive(i) /\ Calm(i) BY DEF FilesOK
  <2> QED BY <1>3, <1>4, <2>1 DEF SlotLive, Calm, SameFile, Live
<1>6. ASSUME NEW ino \in Inos PROVE VolumeLive(ino)'
  <2>1. VolumeLive(ino) BY DEF FilesOK
  <2>2. Absent(ino)' => Absent(ino) BY <1>3 DEF Absent, Calm, SameFile, Slots
  <2> QED BY <1>4, <2>1, <2>2 DEF VolumeLive, Live
<1>7. ASSUME NEW q \in Procs PROVE NewFile(q)'
  <2>1. CASE q = p BY <2>1 DEF NewFile
  <2>2. CASE q # p /\ u[q].pc = "wdir"
    <3>1. u[q].ip \in Slots BY <1>1, <2>2 DEF Working
    <3>2. SameFile(u[q].ip) /\ u'[q].ip = u[q].ip BY <2>2, <3>1 DEF Calm, Runs
    <3>3. NewFile(q) BY DEF FilesOK
    <3> QED BY <1>4, <2>2, <3>2, <3>3 DEF NewFile, SameFile, Runs, Live
  <2>3. CASE q # p /\ u[q].pc # "wdir" BY <2>3 DEF NewFile, Runs
  <2> QED BY <2>1, <2>2, <2>3
<1>8. \A m, n \in Names : dir'[m] = dir'[n] /\ dir'[m] # 0 => m = n BY DEF FilesOK
<1> QED BY <1>5, <1>6, <1>7, <1>8 DEF FilesOK

(* A step that changes the locals of one process only.                     *)
LEMMA OneRuns ==
  ASSUME IInv, NEW p \in Procs, NEW r, u' = [u EXCEPT ![p] = r]
  PROVE  Runs(p) /\ u'[p] = r
<1>1. u \in [Procs -> UserType] BY UserFacts
<1> QED BY <1>1 DEF Runs

(* A step to another place with the same locals, in the same call.         *)
Moves(p, l) ==
  /\ u'[p].pc = l /\ u'[p].call = u[p].call /\ u'[p].name = u[p].name
  /\ u'[p].ino = u[p].ino /\ u'[p].again = u[p].again
LEMMA MoveFacts ==
  ASSUME IInv, NEW p \in Procs, NEW l, u' = [u EXCEPT ![p].pc = l]
  PROVE  Runs(p) /\ Moves(p, l) /\ u'[p].ip = u[p].ip
<1>1. u \in [Procs -> UserType] /\ u[p] \in UserType BY UserFacts DEF UserOK
<1>2. u' = [u EXCEPT ![p] = [u[p] EXCEPT !.pc = l]] OBVIOUS
<1>3. Runs(p) /\ u'[p] = [u[p] EXCEPT !.pc = l] BY <1>2, OneRuns
<1> QED BY <1>1, <1>3 DEF Moves, UserType

(* The inode of the process stays as it is but for its lock.               *)
LEMMA SameSlots ==
  ASSUME IInv, inode' = inode PROVE \A i \in Slots : Calm(i)
BY DEF Calm, SameFile

----------------------------------------------------------------------------
(* The calls begin with a name, and those that change it hold its lock.    *)
LEMMA NameiLives ==
  ASSUME IInv, LInv, NEW p \in Procs, NEW call \in {"open", "trunc"}, NEW n \in Names, Namei(p, call, n)
  PROVE  LInv'
<1> DEFINE r == [User EXCEPT !.pc = "iget", !.call = call, !.name = n, !.ino = dir[n]]
<1>1. u' = [u EXCEPT ![p] = r] /\ u[p].pc = "user" BY DEF Namei, At
<1>2. Runs(p) /\ u'[p] = r BY <1>1, OneRuns
<1>3. r.pc = "iget" /\ r.call \in {"open", "trunc"} /\ ~r.again BY DEF User
<1> HIDE DEF r
<1>4. LocalsOK(p)' BY <1>2, <1>3 DEF LocalsOK, Creating, Unlinking
<1>5. KeepsDirs(p) /\ dinode' = dinode /\ dir' = dir /\ eio' = eio /\ inode' = inode
  BY DEF Namei, KeepsDirs
<1> QED BY <1>1, <1>2, <1>3, <1>4, <1>5, SameSlots, CalmStep

LEMMA CreatNewLives ==
  ASSUME IInv, LInv, NEW p \in Procs, NEW n \in Names, CreatNew(p, n)
  PROVE  LInv'
<1> DEFINE r == [User EXCEPT !.pc = "ialloc", !.call = "creat", !.name = n]
<1>1. u' = [u EXCEPT ![p] = r] /\ u[p].pc = "user" BY DEF CreatNew, At
<1>2. Runs(p) /\ u'[p] = r BY <1>1, OneRuns
<1>3. r.pc = "ialloc" /\ r.call = "creat" /\ ~r.again /\ r.name = n BY DEF User
<1> HIDE DEF r
<1>4. dlock'[n] = p /\ dir'[n] = 0
  <2>1. dlock \in [Names -> Procs \cup {Nobody}] BY DEF IInv, OneSlot, TypeOK
  <2> QED BY <2>1 DEF CreatNew
<1>5. LocalsOK(p)' BY <1>2, <1>3, <1>4 DEF LocalsOK, Creating, Unlinking
<1>6. dinode' = dinode /\ dir' = dir /\ eio' = eio /\ inode' = inode BY DEF CreatNew
<1>7. KeepsDirs(p) BY ProcsAssumption DEF CreatNew, KeepsDirs, IInv, OneSlot, TypeOK
<1> QED BY <1>1, <1>2, <1>3, <1>5, <1>6, <1>7, SameSlots, CalmStep

LEMMA UnlinkLives ==
  ASSUME IInv, LInv, NEW p \in Procs, NEW n \in Names, Unlink(p, n)
  PROVE  LInv'
<1> DEFINE r == [User EXCEPT !.pc = "iget", !.call = "unlink", !.name = n, !.ino = dir[n]]
<1>1. u' = [u EXCEPT ![p] = r] /\ u[p].pc = "user" BY DEF Unlink, At
<1>2. Runs(p) /\ u'[p] = r BY <1>1, OneRuns
<1>3. r.pc = "iget" /\ r.call = "unlink" /\ ~r.again /\ r.name = n /\ r.ino = dir[n] BY DEF User
<1> HIDE DEF r
<1>4. dlock'[n] = p /\ dir' = dir
  <2>1. dlock \in [Names -> Procs \cup {Nobody}] BY DEF IInv, OneSlot, TypeOK
  <2> QED BY <2>1 DEF Unlink
<1>5. LocalsOK(p)' BY <1>2, <1>3, <1>4 DEF LocalsOK, Creating, Unlinking
<1>6. dinode' = dinode /\ dir' = dir /\ eio' = eio /\ inode' = inode BY DEF Unlink
<1>7. KeepsDirs(p) BY ProcsAssumption DEF Unlink, KeepsDirs, IInv, OneSlot, TypeOK
<1> QED BY <1>1, <1>2, <1>3, <1>5, <1>6, <1>7, SameSlots, CalmStep

(* close, sync, and sync when it has been through the table.               *)
LEMMA CloseLives ==
  ASSUME IInv, LInv, NEW p \in Procs, Close(p) \/ Sync(p) \/ UpdateEnd(p)
  PROVE  LInv'
<1>1. PICK r \in {[User EXCEPT !.pc = "plock", !.call = "close"],
                  [User EXCEPT !.pc = "scan", !.call = "sync", !.pos = 1], User} :
        u' = [u EXCEPT ![p] = r]
  BY DEF Close, Sync, UpdateEnd
<1>2. Runs(p) /\ u'[p] = r BY <1>1, OneRuns
<1>3. r.pc \in {"plock", "scan", "user"} /\ r.call \in {"close", "sync", "none"} /\ ~r.again
  <2>1. CASE r = [User EXCEPT !.pc = "plock", !.call = "close"] BY <2>1 DEF User
  <2>2. CASE r = [User EXCEPT !.pc = "scan", !.call = "sync", !.pos = 1] BY <2>2 DEF User
  <2>3. CASE r = User BY <2>3 DEF User
  <2> QED BY <2>1, <2>2, <2>3
<1>4. LocalsOK(p)' BY <1>2, <1>3 DEF LocalsOK, Creating, Unlinking
<1>5. /\ KeepsDirs(p) /\ dinode' = dinode /\ dir' = dir /\ eio' = eio /\ inode' = inode
      /\ u[p].pc # "read"
  BY DEF Close, Sync, UpdateEnd, KeepsDirs, At
<1> QED BY <1>2, <1>3, <1>4, <1>5, SameSlots, CalmStep

----------------------------------------------------------------------------
(* A step that changes the place of the process only.                      *)
LEMMA PlaceStep ==
  ASSUME IInv, LInv, NEW p \in Procs, NEW l \in {"iput", "iupdat", "itrunc", "wdir"},
         u' = [u EXCEPT ![p].pc = l], u[p].pc = "got" \/ (u[p].pc = "iput" /\ l = "iupdat"),
         UNCHANGED <<dir, dlock, dinode, eio>>, \A i \in Slots : Calm(i),
         l = "wdir" => u[p].call = "unlink"
  PROVE  LInv'
<1>1. Runs(p) /\ Moves(p, l) /\ u'[p].ip = u[p].ip BY MoveFacts
<1>2. LocalsOK(p) BY DEF LInv
<1>3. l = "wdir" => SameFile(u[p].ip)
  <2>1. l = "wdir" => u[p].pc \in Working BY DEF Working
  <2> QED BY <2>1, SlotFacts DEF Calm
<1>4. LocalsOK(p)'
  <2>1. u[p].again => u[p].pc # "wdir" BY <1>2 DEF LocalsOK
  <2>2. Creating(p)' => l # "wdir" /\ u[p].again BY <1>1 DEF Creating, Moves
  <2>3. Unlinking(p)' => l = "wdir" /\ Unlinking(p) BY <1>1 DEF Unlinking, Moves
  <2>4. u[p].again => l = "iupdat" BY <1>2 DEF LocalsOK
  <2> QED BY <1>1, <1>2, <1>3, <2>1, <2>2, <2>3, <2>4 DEF LocalsOK, Moves, SameFile, Creating
<1>5. KeepsDirs(p) BY DEF KeepsDirs
<1> QED BY <1>1, <1>4, <1>5, CalmStep DEF Moves

(* iput decides to free or to write the inode, access fails, and creat and *)
(* unlink go to the disk.                                                  *)
LEMMA PlaceLives ==
  ASSUME IInv, LInv, NEW p \in Procs,
         IputWrite(p) \/ Refused(p) \/ Truncate(p) \/ UnlinkGot(p)
  PROVE  LInv'
<1>1. \A i \in Slots : Calm(i)
  <2>1. CASE IputWrite(p)
    <3>1. inode \in [Slots -> SlotType] BY DEF IInv, OneSlot, TypeOK, SlotType
    <3> QED BY <2>1, <3>1 DEF IputWrite, Calm, SameFile, SlotType
  <2>2. CASE ~IputWrite(p) BY <2>2, SameSlots DEF Refused, Truncate, UnlinkGot
  <2> QED BY <2>1, <2>2
<1>2. CASE IputWrite(p)
  <2>1. u' = [u EXCEPT ![p].pc = "iupdat"] /\ u[p].pc = "iput" /\ UNCHANGED <<dir, dlock, dinode, eio>>
    BY <1>2 DEF IputWrite, At, Disk
  <2> QED BY <1>1, <2>1, PlaceStep
<1>3. CASE Refused(p)
  <2>1. u' = [u EXCEPT ![p].pc = "iput"] /\ u[p].pc = "got" /\ UNCHANGED <<dir, dlock, dinode, eio>>
    BY <1>3 DEF Refused, At, Run
  <2> QED BY <1>1, <2>1, PlaceStep
<1>4. CASE Truncate(p)
  <2>1. /\ u' = [u EXCEPT ![p].pc = "itrunc"] /\ u[p].pc = "got"
        /\ UNCHANGED <<dir, dlock, dinode, eio>>
    BY <1>4 DEF Truncate, At, Disk
  <2> QED BY <1>1, <2>1, PlaceStep
<1>5. CASE UnlinkGot(p)
  <2>1. /\ u' = [u EXCEPT ![p].pc = "wdir"] /\ u[p].pc = "got" /\ u[p].call = "unlink"
        /\ UNCHANGED <<dir, dlock, dinode, eio>>
    BY <1>5 DEF UnlinkGot, At, Disk
  <2> QED BY <1>1, <2>1, PlaceStep
<1> QED BY <1>2, <1>3, <1>4, <1>5

(* The last reference to a file without links.                             *)
LEMMA IputTruncLives ==
  ASSUME IInv, LInv, NEW p \in Procs, IputTrunc(p)
  PROVE  LInv'
<1>1. /\ u' = [u EXCEPT ![p].pc = "ifree"] /\ u[p].pc = "iput"
      /\ UNCHANGED <<dir, dlock, dinode, eio>> /\ inode[u[p].ip].nlink <= 0
  BY DEF IputTrunc, At, Disk, Run
<1>2. inode \in [Slots -> SlotType] BY DEF IInv, OneSlot, TypeOK, SlotType
<1>3. \A i \in Slots : Calm(i) BY <1>2 DEF IputTrunc, Calm, SameFile, SlotType
<1>4. Runs(p) /\ Moves(p, "ifree") /\ u'[p].ip = u[p].ip BY <1>1, MoveFacts
<1>5. u[p].ip \in Slots BY <1>1, SlotFacts DEF Working
<1>6. inode'[u'[p].ip].nlink <= 0 BY <1>1, <1>3, <1>4, <1>5 DEF Calm, SameFile
<1>7. LocalsOK(p) BY DEF LInv
<1>8. LocalsOK(p)' BY <1>1, <1>4, <1>6, <1>7 DEF LocalsOK, Creating, Unlinking, Moves
<1> QED BY <1>1, <1>3, <1>4, <1>8, CalmStep DEF Moves, KeepsDirs

(* The i-node ialloc has been given is in use.                             *)
LEMMA IallocAgainLives ==
  ASSUME IInv, LInv, NEW p \in Procs, IallocAgain(p)
  PROVE  LInv'
<1> DEFINE r == [u[p] EXCEPT !.pc = "iput", !.again = TRUE]
<1>1. /\ u' = [u EXCEPT ![p] = r] /\ u[p].pc = "got" /\ u[p].call = "creat"
      /\ UNCHANGED <<dir, dlock, dinode, eio, inode>>
  BY DEF IallocAgain, At
<1>2. Runs(p) /\ u'[p] = r BY <1>1, OneRuns
<1>3. u[p] \in UserType BY UserFacts DEF UserOK
<1>4. r.pc = "iput" /\ r.again = TRUE /\ r.call = u[p].call /\ r.name = u[p].name BY <1>3 DEF UserType
<1>5. LocalsOK(p) BY DEF LInv
<1> HIDE DEF r
<1>6. LocalsOK(p)' BY <1>1, <1>2, <1>4, <1>5 DEF LocalsOK, Creating, Unlinking
<1> QED BY <1>1, <1>2, <1>4, <1>6, SameSlots, CalmStep DEF KeepsDirs

(* A process goes to sleep, and looks again after that.                    *)
LEMMA SleepLives ==
  ASSUME IInv, LInv, NEW p \in Procs, IgetWait(p) \/ PlockWait(p) \/ IallocWait(p)
  PROVE  LInv'
<1>1. PICK c : u' = [u EXCEPT ![p].chan = c] BY DEF IgetWait, PlockWait, IallocWait, SleepOn
<1>2. u' = [u EXCEPT ![p] = [u[p] EXCEPT !.chan = c]] BY <1>1
<1>3. Runs(p) /\ u'[p] = [u[p] EXCEPT !.chan = c] BY <1>2, OneRuns
<1>4. u[p] \in UserType BY UserFacts DEF UserOK
<1>5. Moves(p, u[p].pc) BY <1>3, <1>4 DEF Moves, UserType
<1>6. u[p].pc \in {"iget", "plock", "ialloc"} /\ UNCHANGED <<dir, dlock, dinode, eio>>
  BY DEF IgetWait, PlockWait, IallocWait, At
<1>7. LocalsOK(p) BY DEF LInv
<1>8. LocalsOK(p)' BY <1>5, <1>6, <1>7 DEF LocalsOK, Creating, Unlinking, Moves
<1>9. inode \in [Slots -> SlotType] BY DEF IInv, OneSlot, TypeOK, SlotType
<1>10. \A i \in Slots : Calm(i)
  BY <1>9, SameSlots DEF IgetWait, PlockWait, IallocWait, Calm, SameFile, SlotType
<1> QED BY <1>3, <1>5, <1>6, <1>8, <1>10, CalmStep DEF Moves, KeepsDirs

(* ialloc takes a number from the super block, or starts a search.         *)
LEMMA IallocLives ==
  ASSUME IInv, LInv, NEW p \in Procs, IallocPop(p) \/ IallocSearch(p)
  PROVE  LInv'
<1>1. u[p].pc \in {"ialloc", "loop"} /\ UNCHANGED <<dir, dlock, dinode, eio, inode>>
  BY DEF IallocPop, IallocSearch, AtLoop, At
<1>2. PICK r \in {[u[p] EXCEPT !.pc = "iget", !.ino = Last(sinode)],
                  [u[p] EXCEPT !.pc = "search", !.pos = 1]} : u' = [u EXCEPT ![p] = r]
  BY DEF IallocPop, IallocSearch
<1>3. Runs(p) /\ u'[p] = r BY <1>2, OneRuns
<1>4. u[p] \in UserType BY UserFacts DEF UserOK
<1>5. /\ r.pc \in {"iget", "search"} /\ r.call = u[p].call /\ r.name = u[p].name
      /\ r.again = u[p].again
  BY <1>4 DEF UserType
<1>6. LocalsOK(p) BY DEF LInv
<1>7. u[p].call = "creat" => Creating(p) BY <1>1 DEF Creating
<1>8. u[p].call = "creat" BY <1>1, <1>6 DEF LocalsOK
<1>9. LocalsOK(p)' BY <1>1, <1>3, <1>5, <1>6, <1>7, <1>8 DEF LocalsOK, Creating, Unlinking
<1> QED BY <1>1, <1>3, <1>5, <1>9, SameSlots, CalmStep DEF KeepsDirs

(* A process that returns gives back the directory it has locked.          *)
LEMMA ReturnsFacts ==
  ASSUME IInv, LInv, NEW p \in Procs, NEW w, Woke(w), Returns(w, p), dir' = dir
  PROVE  /\ Runs(p) /\ KeepsDirs(p) /\ LocalsOK(p)' /\ u'[p].pc \in {"user", "loop", "scan"}
<1> DEFINE r == IF w[p].again THEN [w[p] EXCEPT !.pc = "loop", !.again = FALSE, !.ip = 0]
                ELSE IF w[p].call = "sync" THEN [w[p] EXCEPT !.pc = "scan", !.ip = 0]
                ELSE User
<1>1. w \in [Procs -> UserType] /\ w[p] \in UserType BY DEF Woke
<1>2. u' = [w EXCEPT ![p] = r]
  <2>1. u' = Leave(w, p) BY DEF Returns
  <2>2. CASE w[p].again
    <3>1. Leave(w, p) = [w EXCEPT ![p].pc = "loop", ![p].again = FALSE, ![p].ip = 0]
      BY <2>2 DEF Leave
    <3> QED BY <1>1, <2>1, <2>2, <3>1
  <2>3. CASE ~w[p].again /\ w[p].call = "sync"
    <3>1. Leave(w, p) = [w EXCEPT ![p].pc = "scan", ![p].ip = 0] BY <2>3 DEF Leave
    <3> QED BY <1>1, <2>1, <2>3, <3>1
  <2>4. CASE ~w[p].again /\ w[p].call # "sync"
    <3>1. Leave(w, p) = [w EXCEPT ![p] = User] BY <2>4 DEF Leave
    <3> QED BY <1>1, <2>1, <2>4, <3>1
  <2> QED BY <2>2, <2>3, <2>4
<1>3. /\ w[p].call = u[p].call /\ w[p].name = u[p].name /\ w[p].again = u[p].again BY DEF Woke
<1>4. /\ r.pc = (IF u[p].again THEN "loop" ELSE IF u[p].call = "sync" THEN "scan" ELSE "user")
      /\ ~r.again
      /\ r.call = "none" \/ (r.call = u[p].call /\ r.name = u[p].name)
  BY <1>1, <1>3 DEF UserType, User
<1>5. r.pc = "loop" => ~r.again /\ r.call = u[p].call /\ r.name = u[p].name /\ u[p].again
  BY <1>1, <1>3 DEF UserType, User
<1>6. ~r.again BY <1>1, <1>3 DEF UserType, User
<1> HIDE DEF r
<1>7. u'[p] = r /\ \A q \in Procs \ {p} : u'[q] = w[q] BY <1>1, <1>2
<1>8. Runs(p) BY <1>7 DEF Woke, Runs
<1>9. dlock' = LeaveDir(p) BY DEF Returns
<1>10. KeepsDirs(p) BY <1>9 DEF LeaveDir, KeepsDirs
<1>11. LocalsOK(p) BY DEF LInv
<1>12. r.pc = "loop" => u[p].name \in Names /\ dlock'[u[p].name] = p /\ dir'[u[p].name] = 0
  <2> SUFFICES ASSUME r.pc = "loop"
               PROVE  u[p].name \in Names /\ dlock'[u[p].name] = p /\ dir'[u[p].name] = 0
    OBVIOUS
  <2>1. u[p].call = "creat" /\ u[p].again /\ Creating(p) BY <1>5, <1>11 DEF LocalsOK, Creating
  <2> QED BY <1>9, <1>11, <2>1 DEF LocalsOK, LeaveDir
<1>a. r.pc = "loop" => r.call = "creat" BY <1>5, <1>11 DEF LocalsOK
<1>13. LocalsOK(p)' BY <1>4, <1>a, <1>5, <1>6, <1>7, <1>12 DEF LocalsOK, Creating, Unlinking
<1>14. r.pc \in {"user", "loop", "scan"} BY <1>4
<1> QED BY <1>7, <1>8, <1>10, <1>13, <1>14

(* ENFILE.                                                                 *)
LEMMA IgetFullLives ==
  ASSUME IInv, LInv, NEW p \in Procs, IgetFull(p)
  PROVE  LInv'
<1>1. /\ u[p].pc = "iget" /\ Returns(u, p)
      /\ UNCHANGED <<dir, dinode, eio, inode>>
  BY DEF IgetFull, At
<1>2. Woke(u) BY UserFacts DEF Woke
<1>3. /\ Runs(p) /\ KeepsDirs(p) /\ LocalsOK(p)' /\ u'[p].pc \in {"user", "loop", "scan"}
  BY <1>1, <1>2, ReturnsFacts
<1> QED BY <1>1, <1>3, SameSlots, CalmStep

(* The search of ialloc.                                                   *)
LEMMA SearchLives ==
  ASSUME IInv, LInv, NEW p \in Procs, NEW found, Search(p, found)
  PROVE  LInv'
<1>1. u[p].pc = "search" /\ UNCHANGED <<dir, dinode, eio, inode>> BY DEF Search, At
<1>2. Woke(Wakeup(u, SIlock))
  <2>1. SIlock \in 1..NINODE + 1 BY SizesAssumption DEF SIlock
  <2> QED BY <2>1, WakeupFacts
<1> DEFINE w == Wakeup(u, SIlock)
<1>3. CASE Returns(w, p)
  <2>1. /\ Runs(p) /\ KeepsDirs(p) /\ LocalsOK(p)' /\ u'[p].pc \in {"user", "loop", "scan"}
    BY <1>1, <1>2, <1>3, ReturnsFacts
  <2> QED BY <1>1, <2>1, SameSlots, CalmStep
<1>4. CASE dlock' = dlock /\ (\/ u' = [w EXCEPT ![p].pc = "loop", ![p].pos = 0]
                              \/ u' = [u EXCEPT ![p].pos = @ + 1])
  <2>1. PICK x : /\ x \in [Procs -> UserType] /\ Woke(x)
                 /\ \/ u' = [x EXCEPT ![p].pc = "loop", ![p].pos = 0]
                    \/ u' = [x EXCEPT ![p].pos = @ + 1]
    <3>1. Woke(u) BY UserFacts DEF Woke
    <3> QED BY <1>2, <1>4, <3>1 DEF Woke
  <2>2. /\ u'[p].pc \in {"loop", "search"} /\ u'[p].call = u[p].call /\ u'[p].name = u[p].name
        /\ u'[p].again = u[p].again
    BY <1>1, <2>1 DEF Woke, UserType
  <2>3. Runs(p) BY <2>1 DEF Woke, Runs
  <2>4. LocalsOK(p) BY DEF LInv
  <2>5. LocalsOK(p)' BY <1>1, <1>4, <2>2, <2>4 DEF LocalsOK, Creating, Unlinking
  <2>6. KeepsDirs(p) BY <1>1, <1>4 DEF KeepsDirs
  <2> QED BY <1>1, <2>2, <2>3, <2>5, <2>6, SameSlots, CalmStep
<1> QED BY <1>3, <1>4 DEF Search

----------------------------------------------------------------------------
(* iget finds the inode in core, close locks it, update takes the next.    *)
LEMMA TakeLives ==
  ASSUME IInv, LInv, NEW p \in Procs, IgetHit(p) \/ Plock(p) \/ UpdateNext(p)
  PROVE  LInv'
<1>1. u[p].pc \in {"iget", "plock", "scan"} /\ UNCHANGED <<dir, dlock, dinode, eio>>
  BY DEF IgetHit, Plock, UpdateNext, At
<1>2. inode \in [Slots -> SlotType] BY DEF IInv, OneSlot, TypeOK, SlotType
<1>3. \A i \in Slots : Calm(i)
  <2>1. CASE IgetHit(p) BY <1>2, <2>1 DEF IgetHit, Calm, SameFile, SlotType
  <2>2. CASE Plock(p) BY <1>2, <2>2 DEF Plock, Calm, SameFile, SlotType
  <2>3. CASE UpdateNext(p)
    <3>1. PICK i \in Slots : inode' = [inode EXCEPT ![i].lock = TRUE, ![i].count = @ + 1]
      BY <2>3 DEF UpdateNext, Dirty
    <3> QED BY <1>2, <3>1 DEF Calm, SameFile, SlotType
  <2> QED BY <2>1, <2>2, <2>3
<1>4. u \in [Procs -> UserType] BY UserFacts
<1>5. /\ u'[p].pc \in {"got", "iput", "update"} /\ u'[p].call = u[p].call /\ u'[p].name = u[p].name
      /\ u'[p].ino = u[p].ino /\ u'[p].again = u[p].again /\ Runs(p)
  <2>1. CASE IgetHit(p)
    <3>1. PICK i : u' = [u EXCEPT ![p].pc = "got", ![p].ip = i] BY <2>1 DEF IgetHit
    <3> QED BY <1>4, <3>1 DEF UserType, Runs
  <2>2. CASE Plock(p) BY <1>4, <2>2 DEF Plock, UserType, Runs
  <2>3. CASE UpdateNext(p)
    <3>1. PICK i : u' = [u EXCEPT ![p].pc = "update", ![p].ip = i, ![p].pos = i + 1]
      BY <2>3 DEF UpdateNext
    <3> QED BY <1>4, <3>1 DEF UserType, Runs
  <2> QED BY <2>1, <2>2, <2>3
<1>6. u'[p].pc = "got" => inode'[u'[p].ip].number = u[p].ino /\ u[p].pc = "iget"
  <2>1. CASE IgetHit(p)
    <3>1. PICK i \in Here(u[p].ino) : u' = [u EXCEPT ![p].pc = "got", ![p].ip = i]
      BY <2>1 DEF IgetHit
    <3>2. u'[p].ip = i /\ i \in Slots /\ inode[i].number = u[p].ino
      BY <1>4, <3>1 DEF UserType, Here
    <3> QED BY <1>3, <2>1, <3>2 DEF Calm, SameFile, IgetHit, At
  <2>2. CASE Plock(p) \/ UpdateNext(p)
    <3>1. u'[p].pc # "got" BY <1>4, <2>2 DEF Plock, UpdateNext, UserType
    <3> QED BY <3>1
  <2> QED BY <2>1, <2>2
<1>7. LocalsOK(p) BY DEF LInv
<1>8. LocalsOK(p)' BY <1>1, <1>5, <1>6, <1>7 DEF LocalsOK, Creating, Unlinking
<1> QED BY <1>1, <1>3, <1>5, <1>8, CalmStep DEF KeepsDirs

(* One reference of several is given back.                                 *)
LEMMA IputMoreLives ==
  ASSUME IInv, LInv, NEW p \in Procs, IputMore(p)
  PROVE  LInv'
<1>1. /\ u[p].pc = "iput" /\ Returns(Prele(u, u[p].ip), p)
      /\ UNCHANGED <<dir, dinode, eio>>
  BY DEF IputMore, At
<1>2. u[p].ip \in Slots BY <1>1, SlotFacts DEF Working
<1>3. Woke(Prele(u, u[p].ip)) BY <1>2, PreleFacts
<1>4. /\ Runs(p) /\ KeepsDirs(p) /\ LocalsOK(p)' /\ u'[p].pc \in {"user", "loop", "scan"}
  BY <1>1, <1>3, ReturnsFacts
<1>5. inode \in [Slots -> SlotType] BY DEF IInv, OneSlot, TypeOK, SlotType
<1>6. \A i \in Slots : Calm(i) BY <1>5 DEF IputMore, Unlocked, Calm, SameFile, SlotType
<1> QED BY <1>1, <1>4, <1>6, CalmStep

(* open1 unlocks the inode and opens the file, or drops the inode.         *)
LEMMA Open1Facts ==
  ASSUME IInv, LInv, NEW p \in Procs, u[p].pc \in {"got", "itrunc", "wdir"}, NEW s \in SlotType,
         Open1(p, s)
  PROVE  /\ Runs(p) /\ LocalsOK(p)' /\ u'[p].pc \in {"user", "iput"}
         /\ \A i \in Slots \ {u[p].ip} : inode'[i] = inode[i]
         /\ inode'[u[p].ip].number = s.number /\ inode'[u[p].ip].mode = s.mode
         /\ inode'[u[p].ip].nlink = s.nlink /\ inode'[u[p].ip].chg = s.chg
<1>1. u[p].ip \in Slots BY SlotFacts DEF Working
<1>2. inode \in [Slots -> SlotType] BY DEF IInv, OneSlot, TypeOK, SlotType
<1>3. \A i \in Slots \ {u[p].ip} : inode'[i] = inode[i] BY <1>1, <1>2 DEF Open1
<1>4. PICK t \in {Unlocked(s), [s EXCEPT !.want = FALSE]} : inode' = [inode EXCEPT ![u[p].ip] = t]
  BY DEF Open1
<1>5. t.number = s.number /\ t.mode = s.mode /\ t.nlink = s.nlink /\ t.chg = s.chg
  BY <1>4 DEF Unlocked, SlotType
<1>6. inode'[u[p].ip] = t BY <1>1, <1>2, <1>4
<1> DEFINE w == Prele(u, u[p].ip)
<1>7. Woke(w) BY <1>1, PreleFacts
<1> HIDE DEF w
<1>8. u' = [w EXCEPT ![p] = User] \/ u' = [w EXCEPT ![p].pc = "iput"] BY DEF Open1, w
<1>9. Runs(p) BY <1>7, <1>8 DEF Woke, Runs
<1>10. LocalsOK(p) BY DEF LInv
<1>11. ~u[p].again BY <1>10 DEF LocalsOK
<1>12. u'[p].pc \in {"user", "iput"} /\ ~u'[p].again
  <2>1. CASE u' = [w EXCEPT ![p] = User] BY <1>7, <2>1 DEF Woke, User
  <2>2. CASE u' = [w EXCEPT ![p].pc = "iput"] BY <1>7, <1>11, <2>2 DEF Woke, UserType
  <2> QED BY <1>8, <2>1, <2>2
<1>13. LocalsOK(p)' BY <1>12 DEF LocalsOK, Creating, Unlinking
<1> QED BY <1>3, <1>5, <1>6, <1>9, <1>12, <1>13

(* open, and creat of an old file.                                         *)
LEMMA OpenedLives ==
  ASSUME IInv, LInv, NEW p \in Procs, Opened(p) \/ Truncated(p)
  PROVE  LInv'
<1>1. u[p].pc \in {"got", "itrunc"} /\ UNCHANGED <<dir, dlock, dinode, eio>>
  BY DEF Opened, Truncated, At
<1>2. inode[u[p].ip] \in SlotType BY <1>1, HeldFacts
<1>3. PICK s \in {inode[u[p].ip], [inode[u[p].ip] EXCEPT !.chg = TRUE]} : Open1(p, s)
  BY DEF Opened, Truncated
<1>4. /\ s \in SlotType /\ s.number = inode[u[p].ip].number /\ s.mode = inode[u[p].ip].mode
      /\ s.nlink = inode[u[p].ip].nlink /\ (inode[u[p].ip].chg => s.chg)
  BY <1>2, <1>3 DEF SlotType
<1>5. /\ Runs(p) /\ LocalsOK(p)' /\ u'[p].pc \in {"user", "iput"}
      /\ \A i \in Slots \ {u[p].ip} : inode'[i] = inode[i]
      /\ inode'[u[p].ip].number = s.number /\ inode'[u[p].ip].mode = s.mode
      /\ inode'[u[p].ip].nlink = s.nlink /\ inode'[u[p].ip].chg = s.chg
  BY <1>1, <1>3, <1>4, Open1Facts
<1>6. \A i \in Slots : Calm(i) BY <1>4, <1>5 DEF Calm, SameFile
<1> QED BY <1>1, <1>5, <1>6, CalmStep DEF KeepsDirs

----------------------------------------------------------------------------
(* An i-node or an entry could not be read or written: from now on nothing *)
(* is said of the files.                                                   *)
LEMMA ErrorStep ==
  ASSUME IInv, LInv, NEW p \in Procs, Runs(p), KeepsDirs(p), LocalsOK(p)', eio' = TRUE,
         \A q \in Procs \ {p} : u[q].pc \in Working => SameFile(u[q].ip)
  PROVE  LInv'
BY OthersBelieve DEF LInv

LEMMA ErrorLives ==
  ASSUME IInv, LInv, NEW p \in Procs, IgetError(p) \/ CreateError(p)
  PROVE  LInv'
<1>1. u[p].pc \in {"read", "wdir"} /\ eio' = TRUE /\ UNCHANGED <<dir, inode>>
  BY DEF IgetError, CreateError, At, Fails
<1>2. u' = [u EXCEPT ![p].pc = "iput"] BY DEF IgetError, CreateError, Run
<1>3. Runs(p) /\ Moves(p, "iput") /\ u'[p].ip = u[p].ip BY <1>2, MoveFacts
<1>4. ~u[p].again BY <1>1 DEF LInv, LocalsOK
<1>5. LocalsOK(p)' BY <1>3, <1>4 DEF LocalsOK, Creating, Unlinking, Moves
<1>6. KeepsDirs(p) BY <1>1 DEF IgetError, CreateError, KeepsDirs, LeaveDir
<1>7. \A i : SameFile(i) BY <1>1 DEF SameFile
<1> QED BY <1>1, <1>3, <1>5, <1>6, <1>7, ErrorStep

(* iget takes a slot for an i-node that is in no slot.                     *)
LEMMA IgetMissLives ==
  ASSUME IInv, LInv, NEW p \in Procs, IgetMiss(p), IInv'
  PROVE  LInv'
<1>1. /\ u[p].pc = "iget" /\ UNCHANGED <<dir, dlock, dinode, eio>> /\ Here(u[p].ino) = {}
  BY DEF IgetMiss, At
<1>2. PICK i \in Unused :
        /\ inode' = [inode EXCEPT ![i].number = u[p].ino, ![i].lock = TRUE, ![i].want = FALSE,
                                  ![i].chg = FALSE, ![i].count = @ + 1]
        /\ u' = [u EXCEPT ![p].pc = "read", ![p].ip = i]
  BY DEF IgetMiss
<1>3. inode \in [Slots -> SlotType] /\ u \in [Procs -> UserType] /\ i \in Slots /\ inode[i].count = 0
  BY <1>2, UserFacts DEF IInv, OneSlot, TypeOK, SlotType, Unused
<1>4. \A j \in Slots \ {i} : inode'[j] = inode[j] BY <1>2, <1>3
<1>5. inode'[i].number = u[p].ino BY <1>2, <1>3 DEF SlotType
<1>6. /\ u'[p].pc = "read" /\ u'[p].ip = i /\ u'[p].call = u[p].call /\ u'[p].name = u[p].name
      /\ u'[p].ino = u[p].ino /\ u'[p].again = u[p].again
  BY <1>2, <1>3 DEF UserType
<1>7. \A q \in Procs \ {p} : u'[q] = u[q] BY <1>2, <1>3
<1>8. Runs(p) /\ KeepsDirs(p) BY <1>1, <1>7 DEF Runs, KeepsDirs
<1>9. u[p].ino \in Inos BY <1>1, UserFacts DEF UserOK
<1>10. inode[i].number \notin Inos BY <1>3, InodeFacts
<1>11. LocalsOK(p) BY DEF LInv
<1>12. LocalsOK(p)' BY <1>1, <1>5, <1>6, <1>11 DEF LocalsOK, Creating, Unlinking
<1>13. \A q \in Procs : u[q].pc \in Working => u[q].ip \in Slots \ {i} BY <1>10, SlotFacts
<1>14. \A q \in Procs : LocalsOK(q)'
  <2>1. \A q \in Procs \ {p} : u[q].pc \in Working => SameFile(u[q].ip) BY <1>4, <1>13 DEF SameFile
  <2> QED BY <1>8, <1>12, <2>1, OthersBelieve
<1> SUFFICES ASSUME FilesOK PROVE FilesOK' BY <1>1, <1>14 DEF LInv
<1>15. \A x : Named(x)' <=> Named(x) BY <1>1 DEF Named
<1>16. ~Filled(i)' BY <1>6 DEF Filled
<1>17. \A j \in Slots \ {i} : Filled(j)' => Filled(j) BY <1>1, <1>7 DEF Filled
<1>a. \A j \in Slots \ {i} : Filled(j) => Filled(j)' BY <1>6, <1>7 DEF Filled
<1>18. ASSUME NEW j \in Slots PROVE SlotLive(j)'
  <2>1. CASE j = i BY <1>16, <2>1 DEF SlotLive
  <2>2. CASE j # i
    <3>1. SlotLive(j) BY DEF FilesOK
    <3> QED BY <1>1, <1>4, <1>15, <1>17, <2>2, <3>1 DEF SlotLive, Live
  <2> QED BY <2>1, <2>2
<1>19. ASSUME NEW ino \in Inos PROVE VolumeLive(ino)'
  <2>1. VolumeLive(ino) BY DEF FilesOK
  <2>2. Absent(ino)' => Absent(ino)
    <3> SUFFICES ASSUME Absent(ino)', NEW j \in Slots, inode[j].number = ino PROVE ~Filled(j)
      BY DEF Absent
    <3>1. j # i BY <1>10
    <3>2. ~Filled(j)' BY <1>4, <3>1 DEF Absent, Slots
    <3> QED BY <1>a, <3>1, <3>2
  <2> QED BY <1>1, <1>15, <2>1, <2>2 DEF VolumeLive, Live
<1>20. ASSUME NEW q \in Procs PROVE NewFile(q)'
  <2>1. CASE q = p BY <1>6, <2>1 DEF NewFile
  <2>2. CASE q # p /\ u[q].pc = "wdir"
    <3>1. u[q].ip \in Slots \ {i} BY <1>13, <2>2 DEF Working
    <3>2. NewFile(q) BY DEF FilesOK
    <3> QED BY <1>4, <1>7, <1>15, <2>2, <3>1, <3>2 DEF NewFile, Live
  <2>3. CASE q # p /\ u[q].pc # "wdir" BY <1>7, <2>3 DEF NewFile
  <2> QED BY <2>1, <2>2, <2>3
<1>21. \A m, n \in Names : dir'[m] = dir'[n] /\ dir'[m] # 0 => m = n BY <1>1 DEF FilesOK
<1> QED BY <1>18, <1>19, <1>20, <1>21 DEF FilesOK

(* A step of p that touches the i-node of one slot, its own, and does not  *)
(* leave it unread: what the step must see to.                             *)
LEMMA OwnStep ==
  ASSUME IInv, LInv, NEW p \in Procs, u[p].pc \in Working,
         NEW k \in Slots, k = u[p].ip, NEW own \in Inos, own = inode[k].number,
         Runs(p), KeepsDirs(p), LocalsOK(p)', eio' = eio, u'[p].pc # "read",
         \A i \in Slots \ {k} : Calm(i),
         \A n \in Names : dir'[n] # dir[n] => dir'[n] = 0 \/ dir'[n] = own,
         \A x \in Inos \ {own} : dinode'[x] = dinode[x],
         inode'[k].number \in {0, own},
         FilesOK => SlotLive(k)' /\ VolumeLive(own)' /\ NewFile(p)',
         FilesOK => \A m, n \in Names : dir'[m] = dir'[n] /\ dir'[m] # 0 => m = n
  PROVE  LInv'
<1>1. /\ \A j \in Slots \ {k} : inode[j].number # own
      /\ \A q \in Procs \ {p} : u[q].ip # k
  BY SlotFacts, InodeFacts
<1>2. \A q \in Procs : u[q].pc \in Working => u[q].ip \in Slots BY SlotFacts
<1>3. \A q \in Procs : LocalsOK(q)'
  <2>1. \A q \in Procs \ {p} : u[q].pc \in Working => SameFile(u[q].ip) BY <1>1, <1>2 DEF Calm
  <2> QED BY <2>1, OthersBelieve
<1> SUFFICES ASSUME FilesOK PROVE FilesOK' BY <1>3 DEF LInv
<1>4. \A i \in Slots \ {k} : Filled(i)' <=> Filled(i) BY DEF Filled, Runs
<1>6. \A x \in Inos \ {own} : (\E n \in Names : dir'[n] = x) => Named(x)
  <2>1. \A x \in Inos : x # 0 BY DEF Inos
  <2> QED BY <2>1 DEF Named
<1>7. ASSUME NEW i \in Slots PROVE SlotLive(i)'
  <2>1. CASE i = k BY <2>1
  <2>2. CASE i # k
    <3>1. SlotLive(i) /\ Calm(i) /\ inode[i].number # own BY <1>1, <2>2 DEF FilesOK
    <3>2. SUFFICES ASSUME inode'[i].number \in Inos, Filled(i)'
                   PROVE  /\ (\E n \in Names : dir'[n] = inode'[i].number) => Live(inode'[i])
                          /\ ~inode'[i].chg => /\ dinode'[inode'[i].number].mode = inode'[i].mode
                                               /\ dinode'[inode'[i].number].nlink = inode'[i].nlink
      BY DEF SlotLive, Live, Named
    <3>3. inode'[i].number = inode[i].number /\ inode[i].number \in Inos \ {own} /\ Filled(i)
      BY <1>4, <2>2, <3>1, <3>2 DEF Calm, SameFile
    <3>4. (\E n \in Names : dir'[n] = inode'[i].number) => Named(inode[i].number)
      BY <1>6, <3>3
    <3>5. dinode'[inode[i].number] = dinode[inode[i].number] BY <3>3
    <3> QED BY <3>1, <3>3, <3>4, <3>5 DEF SlotLive, Calm, SameFile, Live
  <2> QED BY <2>1, <2>2
<1>8. ASSUME NEW ino \in Inos PROVE VolumeLive(ino)'
  <2>1. CASE ino = own BY <2>1
  <2>2. CASE ino # own
    <3>1. VolumeLive(ino) /\ dinode'[ino] = dinode[ino] BY <2>2 DEF FilesOK
    <3>2. Absent(ino)' => Absent(ino)
      <4> SUFFICES ASSUME Absent(ino)', NEW j \in Slots, inode[j].number = ino PROVE ~Filled(j)
        BY DEF Absent
      <4>1. j # k BY <2>2
      <4>2. inode'[j].number = ino BY <4>1 DEF Calm, SameFile
      <4> QED BY <1>4, <4>1, <4>2 DEF Absent, Slots
    <3>3. Named(ino)' => Named(ino) BY <1>6, <2>2 DEF Named
    <3> QED BY <3>1, <3>2, <3>3 DEF VolumeLive, Live
  <2> QED BY <2>1, <2>2
<1>9. ASSUME NEW q \in Procs PROVE NewFile(q)'
  <2>1. CASE q = p BY <2>1
  <2>2. CASE q # p /\ u[q].pc = "wdir" /\ u[q].call = "creat"
    <3>1. u[q].ip \in Slots \ {k} /\ inode[u[q].ip].number \in Inos
      BY <1>1, <2>2, SlotFacts DEF Working
    <3>2. NewFile(q) /\ Calm(u[q].ip) /\ u'[q].ip = u[q].ip BY <2>2, <3>1 DEF FilesOK, Runs
    <3>3. inode[u[q].ip].number \in Inos \ {own} BY <1>1, <3>1
    <3>4. ~\E n \in Names : dir'[n] = inode[u[q].ip].number BY <1>6, <2>2, <3>2, <3>3 DEF NewFile
    <3> QED BY <2>2, <3>2, <3>4 DEF NewFile, Calm, SameFile, Live, Named
  <2>3. CASE q # p /\ ~(u[q].pc = "wdir" /\ u[q].call = "creat") BY <2>3 DEF NewFile, Runs
  <2> QED BY <2>1, <2>2, <2>3
<1> QED BY <1>7, <1>8, <1>9 DEF FilesOK

(* The slot the process is at work on is filled after the step.            *)
LEMMA OwnFilled ==
  ASSUME IInv, NEW p \in Procs, u[p].pc \in Working, Runs(p), u'[p].pc # "read"
  PROVE  \E k \in Slots, own \in Inos :
           /\ k = u[p].ip /\ own = inode[k].number /\ inode[k] \in SlotType
           /\ \A j \in Slots \ {k} : inode[j].number # own
           /\ Filled(k)' /\ (inode'[k].number = own => ~Absent(own)')
           /\ u[p].pc # "read" => Filled(k)
<1> DEFINE k == u[p].ip
<1>1. /\ k \in Slots /\ inode[k].number \in Inos /\ inode[k] \in SlotType
      /\ \A j \in Slots \ {k} : inode[j].number # inode[k].number
      /\ \A q \in Procs \ {p} : u[q].ip # k
  BY SlotFacts, InodeFacts
<1>2. PICK i \in Slots, own \in Inos : i = k /\ own = inode[i].number BY <1>1
<1>3. Filled(i)' BY <1>1, <1>2 DEF Filled, Runs
<1>4. u[p].pc # "read" => Filled(i) BY <1>1, <1>2 DEF Filled
<1>5. inode'[i].number = own => ~Absent(own)'
  <2> SUFFICES ASSUME inode'[i].number = own, Absent(own)' PROVE FALSE OBVIOUS
  <2>1. i \in Slots' BY DEF Slots
  <2> QED BY <1>3, <2>1 DEF Absent
<1> QED BY <1>1, <1>2, <1>3, <1>4, <1>5

(* The i-node comes from the disk.                                         *)
LEMMA IgetReadLives ==
  ASSUME IInv, LInv, NEW p \in Procs, IgetRead(p)
  PROVE  LInv'
<1>1. /\ u[p].pc = "read" /\ UNCHANGED <<dir, dlock, dinode, eio>> /\ u' = [u EXCEPT ![p].pc = "got"]
  BY DEF IgetRead, At, Run
<1>2. Runs(p) /\ Moves(p, "got") /\ u'[p].ip = u[p].ip BY <1>1, MoveFacts
<1>3. PICK k \in Slots, own \in Inos :
        /\ k = u[p].ip /\ own = inode[k].number /\ inode[k] \in SlotType
        /\ \A j \in Slots \ {k} : inode[j].number # own
        /\ Filled(k)' /\ (inode'[k].number = own => ~Absent(own)')
  BY <1>1, <1>2, OwnFilled DEF Working, Moves
<1>4. LocalsOK(p) /\ own = u[p].ino BY <1>1, <1>3 DEF LInv, LocalsOK
<1>5. inode \in [Slots -> SlotType] BY DEF IInv, OneSlot, TypeOK, SlotType
<1>6. /\ inode'[k].number = own /\ inode'[k].mode = dinode[own].mode
      /\ inode'[k].nlink = dinode[own].nlink
      /\ \A i \in Slots \ {k} : inode'[i] = inode[i]
  BY <1>3, <1>4, <1>5 DEF IgetRead, SlotType
<1>7. \A i \in Slots \ {k} : Calm(i) BY <1>6 DEF Calm, SameFile
<1>8. LocalsOK(p)' BY <1>1, <1>2, <1>3, <1>4, <1>6 DEF LocalsOK, Creating, Unlinking, Moves
<1>9. FilesOK => SlotLive(k)' /\ VolumeLive(own)' /\ NewFile(p)'
  <2> SUFFICES ASSUME FilesOK PROVE SlotLive(k)' /\ VolumeLive(own)' /\ NewFile(p)' OBVIOUS
  <2>1. Absent(own)
    <3>1. ~Filled(k) BY <1>1, <1>3 DEF Filled
    <3> QED BY <1>3, <3>1 DEF Absent
  <2>2. Named(own) => Live(dinode[own]) BY <2>1 DEF FilesOK, VolumeLive
  <2>3. SlotLive(k)' BY <1>1, <1>6, <2>2 DEF SlotLive, Live, Named
  <2>4. VolumeLive(own)' BY <1>3, <1>6 DEF VolumeLive
  <2>5. NewFile(p)' BY <1>2 DEF NewFile, Moves
  <2> QED BY <2>3, <2>4, <2>5
<1>10. /\ KeepsDirs(p) /\ \A n \in Names : dir'[n] = dir[n]
       /\ \A x \in Inos : dinode'[x] = dinode[x]
  BY <1>1 DEF KeepsDirs
<1>11. FilesOK => \A m, n \in Names : dir'[m] = dir'[n] /\ dir'[m] # 0 => m = n
  BY <1>1 DEF FilesOK
<1>12. u[p].pc \in Working /\ u'[p].pc # "read" BY <1>1, <1>2 DEF Working, Moves
<1> QED BY <1>1, <1>2, <1>3, <1>6, <1>7, <1>8, <1>9, <1>10, <1>11, <1>12, OwnStep

(* A step that changes only the contents of the inode, in the table.       *)
LEMMA ContentsStep ==
  ASSUME IInv, LInv, NEW p \in Procs, u[p].pc \in Working, Runs(p), u'[p].pc # "read",
         LocalsOK(p)', UNCHANGED <<dir, dlock, dinode, eio>>,
         \A i \in Slots \ {u[p].ip} : inode'[i] = inode[i],
         inode'[u[p].ip].number = inode[u[p].ip].number, inode'[u[p].ip].chg,
         FilesOK => /\ Named(inode[u[p].ip].number) => Live(inode'[u[p].ip])
                    /\ NewFile(p)'
  PROVE  LInv'
<1>1. PICK k \in Slots, own \in Inos :
        /\ k = u[p].ip /\ own = inode[k].number /\ inode[k] \in SlotType
        /\ \A j \in Slots \ {k} : inode[j].number # own
        /\ Filled(k)' /\ (inode'[k].number = own => ~Absent(own)')
  BY OwnFilled
<1>2. \A i \in Slots \ {k} : Calm(i) BY <1>1 DEF Calm, SameFile
<1>3. FilesOK => SlotLive(k)' /\ VolumeLive(own)' /\ NewFile(p)'
  <2> SUFFICES ASSUME FilesOK PROVE SlotLive(k)' /\ VolumeLive(own)' /\ NewFile(p)' OBVIOUS
  <2>1. inode'[k].number = own /\ inode'[k].chg /\ (Named(own) => Live(inode'[k])) BY <1>1
  <2>2. Named(own)' <=> Named(own) BY DEF Named
  <2>3. SlotLive(k)'
    <3>1. (\E n \in Names : dir'[n] = own) => Named(own) BY DEF Named
    <3> QED BY <2>1, <3>1 DEF SlotLive, Live, Named
  <2>4. VolumeLive(own)' BY <1>1, <2>1 DEF VolumeLive
  <2> QED BY <2>3, <2>4
<1>4. /\ KeepsDirs(p) /\ \A n \in Names : dir'[n] = dir[n]
      /\ \A x \in Inos : dinode'[x] = dinode[x]
  BY DEF KeepsDirs
<1>5. FilesOK => \A m, n \in Names : dir'[m] = dir'[n] /\ dir'[m] # 0 => m = n BY DEF FilesOK
<1>6. inode'[k].number \in {0, own} BY <1>1
<1>7. eio' = eio OBVIOUS
<1> QED BY <1>1, <1>2, <1>3, <1>4, <1>5, <1>6, <1>7, OwnStep

(* ifree: the i-node has no links, so it has no name.                      *)
LEMMA IputFreeLives ==
  ASSUME IInv, LInv, NEW p \in Procs, IputFree(p)
  PROVE  LInv'
<1>1. /\ u[p].pc = "ifree" /\ UNCHANGED <<dir, dlock, dinode, eio>>
      /\ u' = [u EXCEPT ![p].pc = "iupdat"]
      /\ inode' = [inode EXCEPT ![u[p].ip].mode = FALSE, ![u[p].ip].chg = TRUE]
  BY DEF IputFree, At, Disk
<1>2. Runs(p) /\ Moves(p, "iupdat") /\ u'[p].ip = u[p].ip BY <1>1, MoveFacts
<1>3. u[p].pc \in Working /\ u'[p].pc # "read" BY <1>1, <1>2 DEF Working, Moves
<1>4. u[p].ip \in Slots /\ inode[u[p].ip].number \in Inos BY <1>3, SlotFacts
<1>5. inode \in [Slots -> SlotType] BY DEF IInv, OneSlot, TypeOK, SlotType
<1>6. /\ \A i \in Slots \ {u[p].ip} : inode'[i] = inode[i]
      /\ inode'[u[p].ip].number = inode[u[p].ip].number /\ inode'[u[p].ip].chg
  BY <1>1, <1>4, <1>5 DEF SlotType
<1>7. LocalsOK(p) BY DEF LInv
<1>8. LocalsOK(p)' BY <1>1, <1>2, <1>7 DEF LocalsOK, Creating, Unlinking, Moves
<1>9. FilesOK => ~Named(inode[u[p].ip].number)
  <2>1. Filled(u[p].ip) BY <1>1, <1>3, SlotFacts DEF Filled
  <2>2. ~(inode[u[p].ip].nlink > 0) BY <1>1, <1>4, <1>5, <1>7 DEF LocalsOK, SlotType
  <2> QED BY <1>4, <2>1, <2>2 DEF FilesOK, SlotLive, Live
<1>10. NewFile(p)' BY <1>2 DEF NewFile, Moves
<1> QED BY <1>1, <1>2, <1>3, <1>6, <1>8, <1>9, <1>10, ContentsStep

(* maknode: the i-node is free, so it has no name.                         *)
LEMMA MaknodeLives ==
  ASSUME IInv, LInv, NEW p \in Procs, Maknode(p)
  PROVE  LInv'
<1>1. /\ u[p].pc = "got" /\ UNCHANGED <<dir, dlock, dinode, eio>> /\ ~inode[u[p].ip].mode
      /\ u' = [u EXCEPT ![p].pc = "wdir"]
      /\ inode' = [inode EXCEPT ![u[p].ip].mode = TRUE, ![u[p].ip].nlink = 1, ![u[p].ip].chg = TRUE]
      /\ u[p].call = "creat"
  BY DEF Maknode, At, Disk
<1>2. Runs(p) /\ Moves(p, "wdir") /\ u'[p].ip = u[p].ip BY <1>1, MoveFacts
<1>3. u[p].pc \in Working /\ u'[p].pc # "read" BY <1>1, <1>2 DEF Working, Moves
<1>4. u[p].ip \in Slots /\ inode[u[p].ip].number \in Inos BY <1>3, SlotFacts
<1>5. inode \in [Slots -> SlotType] BY DEF IInv, OneSlot, TypeOK, SlotType
<1>6. /\ \A i \in Slots \ {u[p].ip} : inode'[i] = inode[i]
      /\ inode'[u[p].ip].number = inode[u[p].ip].number /\ inode'[u[p].ip].chg
      /\ Live(inode'[u[p].ip])
  BY <1>1, <1>4, <1>5 DEF SlotType, Live
<1>7. LocalsOK(p) BY DEF LInv
<1>8. LocalsOK(p)' BY <1>1, <1>2, <1>7 DEF LocalsOK, Creating, Unlinking, Moves
<1>9. FilesOK => ~Named(inode[u[p].ip].number)
  <2>1. Filled(u[p].ip) BY <1>1, <1>3, SlotFacts DEF Filled
  <2> QED BY <1>1, <1>4, <2>1 DEF FilesOK, SlotLive, Live
<1>10. FilesOK => NewFile(p)'
  BY <1>1, <1>2, <1>6, <1>9 DEF NewFile, Moves, Named, Live
<1> QED BY <1>1, <1>2, <1>3, <1>6, <1>8, <1>9, <1>10, ContentsStep

----------------------------------------------------------------------------
(* The end of iput: what the slot has is on the volume.                    *)
LEMMA ClearLives ==
  ASSUME IInv, LInv, NEW p \in Procs, u[p].pc \in {"iput", "iupdat"}, IputClear(p),
         UNCHANGED <<dir, eio>>,
         \/ dinode' = dinode /\ ~inode[u[p].ip].chg
         \/ WriteDinode(u[p].ip)
  PROVE  LInv'
<1>1. u[p].pc \in Working BY DEF Working
<1>2. u[p].ip \in Slots /\ inode[u[p].ip].number \in Inos BY <1>1, SlotFacts
<1>3. Woke(Prele(u, u[p].ip)) /\ Returns(Prele(u, u[p].ip), p) BY <1>2, PreleFacts DEF IputClear
<1>4. Runs(p) /\ KeepsDirs(p) /\ LocalsOK(p)' /\ u'[p].pc \in {"user", "loop", "scan"}
  BY <1>3, ReturnsFacts
<1>5. PICK k \in Slots, own \in Inos :
        /\ k = u[p].ip /\ own = inode[k].number /\ inode[k] \in SlotType
        /\ \A j \in Slots \ {k} : inode[j].number # own
        /\ u[p].pc # "read" => Filled(k)
  BY <1>1, <1>4, OwnFilled
<1>6. inode \in [Slots -> SlotType] BY DEF IInv, OneSlot, TypeOK, SlotType
<1>7. inode'[k].number = 0 /\ \A i \in Slots \ {k} : inode'[i] = inode[i]
  BY <1>5, <1>6 DEF IputClear, Empty
<1>8. \A i \in Slots \ {k} : Calm(i) BY <1>7 DEF Calm, SameFile
<1>9. dinode \in [Inos -> [mode : BOOLEAN, nlink : Int]] BY DEF IInv, OneSlot, TypeOK
<1>10. \A x \in Inos \ {own} : dinode'[x] = dinode[x] BY <1>5, <1>9 DEF WriteDinode
<1>11. FilesOK => SlotLive(k)' /\ VolumeLive(own)' /\ NewFile(p)'
  <2> SUFFICES ASSUME FilesOK PROVE SlotLive(k)' /\ VolumeLive(own)' /\ NewFile(p)' OBVIOUS
  <2>1. SlotLive(k)' BY <1>7 DEF SlotLive, Inos
  <2>2. dinode'[own].mode = inode[k].mode /\ dinode'[own].nlink = inode[k].nlink
    <3>1. CASE dinode' = dinode /\ ~inode[k].chg BY <1>5, <3>1 DEF FilesOK, SlotLive
    <3>2. CASE WriteDinode(k) BY <1>5, <1>9, <3>2 DEF WriteDinode
    <3> QED BY <1>5, <3>1, <3>2
  <2>3. Named(own) => Live(inode[k]) BY <1>5 DEF FilesOK, SlotLive
  <2>4. VolumeLive(own)' BY <2>2, <2>3 DEF VolumeLive, Live, Named
  <2>5. NewFile(p)' BY <1>4 DEF NewFile
  <2> QED BY <2>1, <2>4, <2>5
<1>12. \A n \in Names : dir'[n] = dir[n] OBVIOUS
<1>13. FilesOK => \A m, n \in Names : dir'[m] = dir'[n] /\ dir'[m] # 0 => m = n BY DEF FilesOK
<1>14. u'[p].pc # "read" BY <1>4
<1> QED BY <1>1, <1>4, <1>5, <1>7, <1>8, <1>10, <1>11, <1>12, <1>13, <1>14, OwnStep

LEMMA IputEndLives ==
  ASSUME IInv, LInv, NEW p \in Procs, IputSame(p) \/ IputEnd(p)
  PROVE  LInv'
<1>1. u[p].pc \in {"iput", "iupdat"} /\ IputClear(p) /\ dir' = dir BY DEF IputSame, IputEnd, At
<1>2. CASE eio' = eio /\ (\/ dinode' = dinode /\ ~inode[u[p].ip].chg
                          \/ WriteDinode(u[p].ip))
  BY <1>1, <1>2, ClearLives
<1>3. CASE eio' = TRUE
  <2>1. u[p].pc \in Working BY <1>1 DEF Working
  <2>2. u[p].ip \in Slots BY <2>1, SlotFacts
  <2>3. Woke(Prele(u, u[p].ip)) /\ Returns(Prele(u, u[p].ip), p)
    BY <1>1, <2>2, PreleFacts DEF IputClear
  <2>4. Runs(p) /\ KeepsDirs(p) /\ LocalsOK(p)' BY <1>1, <2>3, ReturnsFacts
  <2>5. inode \in [Slots -> SlotType] BY DEF IInv, OneSlot, TypeOK, SlotType
  <2>6. \A i \in Slots \ {u[p].ip} : inode'[i] = inode[i] BY <1>1, <2>5 DEF IputClear
  <2>7. \A q \in Procs \ {p} : u[q].pc \in Working => SameFile(u[q].ip)
    BY <2>1, <2>6, SlotFacts DEF SameFile
  <2> QED BY <1>3, <2>4, <2>7, ErrorStep
<1> QED BY <1>2, <1>3 DEF IputSame, IputEnd, Fails

(* creat has written the name: it is the only one for the new i-node.      *)
LEMMA CreatedLives ==
  ASSUME IInv, LInv, NEW p \in Procs, Created(p)
  PROVE  LInv'
<1>1. /\ u[p].pc = "wdir" /\ u[p].call = "creat" /\ UNCHANGED <<dinode, eio>>
      /\ dir' = [dir EXCEPT ![u[p].name] = inode[u[p].ip].number] /\ dlock' = LeaveDir(p)
      /\ Open1(p, inode[u[p].ip])
  BY DEF Created, At
<1>2. inode[u[p].ip] \in SlotType BY <1>1, HeldFacts
<1>3. /\ Runs(p) /\ LocalsOK(p)' /\ u'[p].pc \in {"user", "iput"}
      /\ \A i \in Slots \ {u[p].ip} : inode'[i] = inode[i]
      /\ inode'[u[p].ip].number = inode[u[p].ip].number
      /\ inode'[u[p].ip].mode = inode[u[p].ip].mode
      /\ inode'[u[p].ip].nlink = inode[u[p].ip].nlink /\ inode'[u[p].ip].chg = inode[u[p].ip].chg
  BY <1>1, <1>2, Open1Facts
<1>4. u[p].pc \in Working /\ u'[p].pc # "read" BY <1>1, <1>3 DEF Working
<1>5. PICK k \in Slots, own \in Inos :
        /\ k = u[p].ip /\ own = inode[k].number /\ inode[k] \in SlotType
        /\ \A j \in Slots \ {k} : inode[j].number # own
        /\ Filled(k)' /\ (inode'[k].number = own => ~Absent(own)')
        /\ u[p].pc # "read" => Filled(k)
  BY <1>3, <1>4, OwnFilled
<1>6. LocalsOK(p) /\ Creating(p) BY <1>1 DEF LInv, Creating
<1>7. u[p].name \in Names /\ dlock[u[p].name] = p BY <1>6 DEF LocalsOK
<1>8. dir \in [Names -> 0..NINO] BY DEF IInv, OneSlot, TypeOK
<1>9. dir'[u[p].name] = own /\ \A n \in Names \ {u[p].name} : dir'[n] = dir[n] BY <1>1, <1>5, <1>7, <1>8
<1>10. KeepsDirs(p) BY <1>1, <1>7, <1>9 DEF KeepsDirs, LeaveDir
<1>11. \A i \in Slots \ {k} : Calm(i) BY <1>3, <1>5 DEF Calm, SameFile
<1>12. FilesOK => SlotLive(k)' /\ VolumeLive(own)' /\ NewFile(p)'
  <2> SUFFICES ASSUME FilesOK PROVE SlotLive(k)' /\ VolumeLive(own)' /\ NewFile(p)' OBVIOUS
  <2>1. NewFile(p) /\ SlotLive(k) BY DEF FilesOK
  <2>2. Live(inode[k]) BY <1>1, <1>5, <2>1 DEF NewFile
  <2>3. SlotLive(k)' BY <1>1, <1>3, <1>5, <2>1, <2>2 DEF SlotLive, Live
  <2>4. VolumeLive(own)' BY <1>3, <1>5 DEF VolumeLive
  <2>5. NewFile(p)' BY <1>3 DEF NewFile
  <2> QED BY <2>3, <2>4, <2>5
<1>13. FilesOK => \A m, n \in Names : dir'[m] = dir'[n] /\ dir'[m] # 0 => m = n
  <2> SUFFICES ASSUME FilesOK PROVE \A m, n \in Names : dir'[m] = dir'[n] /\ dir'[m] # 0 => m = n
    OBVIOUS
  <2>1. \A n \in Names : dir[n] # own BY <1>1, <1>5 DEF FilesOK, NewFile, Named
  <2>2. \A m, n \in Names : dir[m] = dir[n] /\ dir[m] # 0 => m = n BY DEF FilesOK
  <2> QED BY <1>7, <1>9, <2>1, <2>2
<1>14. \A n \in Names : dir'[n] # dir[n] => dir'[n] = 0 \/ dir'[n] = own BY <1>9
<1>15. inode'[k].number \in {0, own} BY <1>3, <1>5
<1> QED BY <1>1, <1>3, <1>4, <1>5, <1>10, <1>11, <1>12, <1>13, <1>14, <1>15, OwnStep

(* unlink has cleared the name, or failed to.                              *)
LEMMA UnlinkedLives ==
  ASSUME IInv, LInv, NEW p \in Procs, Unlinked(p)
  PROVE  LInv'
<1>1. /\ u[p].pc = "wdir" /\ u[p].call = "unlink" /\ UNCHANGED <<dinode, dlock>>
      /\ inode' = [inode EXCEPT ![u[p].ip].nlink = @ - 1, ![u[p].ip].chg = TRUE]
      /\ u' = [u EXCEPT ![p].pc = "iput"]
      /\ (dir' = [dir EXCEPT ![u[p].name] = 0] /\ eio' = eio) \/ (eio' = TRUE /\ dir' = dir)
  BY DEF Unlinked, At, Run, Fails
<1>2. Runs(p) /\ Moves(p, "iput") /\ u'[p].ip = u[p].ip BY <1>1, MoveFacts
<1>3. u[p].pc \in Working /\ u'[p].pc # "read" BY <1>1, <1>2 DEF Working, Moves
<1>4. PICK k \in Slots, own \in Inos :
        /\ k = u[p].ip /\ own = inode[k].number /\ inode[k] \in SlotType
        /\ \A j \in Slots \ {k} : inode[j].number # own
        /\ Filled(k)' /\ (inode'[k].number = own => ~Absent(own)')
  BY <1>2, <1>3, OwnFilled
<1>5. LocalsOK(p) /\ Unlinking(p) BY <1>1 DEF LInv, Unlinking
<1>6. /\ u[p].name \in Names /\ dlock[u[p].name] = p /\ dir[u[p].name] = own /\ ~u[p].again
  BY <1>1, <1>4, <1>5 DEF LocalsOK
<1>7. LocalsOK(p)' BY <1>2, <1>6 DEF LocalsOK, Creating, Unlinking, Moves
<1>8. inode \in [Slots -> SlotType] /\ dir \in [Names -> 0..NINO]
  BY DEF IInv, OneSlot, TypeOK, SlotType
<1>9. /\ \A i \in Slots \ {k} : inode'[i] = inode[i]
      /\ inode'[k].number = own /\ inode'[k].chg
  BY <1>1, <1>4, <1>8 DEF SlotType
<1>10. KeepsDirs(p) BY <1>1, <1>6, <1>8 DEF KeepsDirs
<1>11. \A i \in Slots \ {k} : Calm(i) BY <1>9 DEF Calm, SameFile
<1>12. CASE eio' = TRUE /\ dir' = dir
  <2>1. \A q \in Procs \ {p} : u[q].pc \in Working => SameFile(u[q].ip)
    BY <1>3, <1>4, <1>11, SlotFacts DEF Calm
  <2> QED BY <1>2, <1>7, <1>10, <1>12, <2>1, ErrorStep
<1>13. CASE dir' = [dir EXCEPT ![u[p].name] = 0] /\ eio' = eio
  <2>1. dir'[u[p].name] = 0 /\ \A n \in Names \ {u[p].name} : dir'[n] = dir[n]
    BY <1>6, <1>8, <1>13
  <2>2. FilesOK => SlotLive(k)' /\ VolumeLive(own)' /\ NewFile(p)'
    <3> SUFFICES ASSUME FilesOK PROVE SlotLive(k)' /\ VolumeLive(own)' /\ NewFile(p)' OBVIOUS
    <3>1. \A n \in Names : dir'[n] # own
      <4>1. own # 0 BY DEF Inos
      <4>2. \A m, n \in Names : dir[m] = dir[n] /\ dir[m] # 0 => m = n BY DEF FilesOK
      <4> QED BY <1>6, <2>1, <4>1, <4>2
    <3>2. SlotLive(k)' BY <1>9, <3>1 DEF SlotLive, Named
    <3>3. VolumeLive(own)' BY <3>1 DEF VolumeLive, Named
    <3>4. NewFile(p)' BY <1>2 DEF NewFile, Moves
    <3> QED BY <3>2, <3>3, <3>4
  <2>3. FilesOK => \A m, n \in Names : dir'[m] = dir'[n] /\ dir'[m] # 0 => m = n
    BY <2>1 DEF FilesOK
  <2>4. \A n \in Names : dir'[n] # dir[n] => dir'[n] = 0 \/ dir'[n] = own BY <2>1
  <2>5. inode'[k].number \in {0, own} /\ \A x \in Inos : dinode'[x] = dinode[x] BY <1>1, <1>9
  <2> QED BY <1>2, <1>3, <1>4, <1>7, <1>10, <1>11, <1>13, <2>2, <2>3, <2>4, <2>5, OwnStep
<1> QED BY <1>1, <1>12, <1>13

(* update has written the i-node.                                          *)
LEMMA UpdateWriteLives ==
  ASSUME IInv, LInv, NEW p \in Procs, UpdateWrite(p)
  PROVE  LInv'
<1>1. /\ u[p].pc = "update" /\ UNCHANGED <<dir, dlock>> /\ u' = [u EXCEPT ![p].pc = "iput"]
      /\ \/ /\ WriteDinode(u[p].ip) /\ eio' = eio
            /\ inode' = [inode EXCEPT ![u[p].ip].chg = FALSE]
         \/ eio' = TRUE /\ inode' = inode
  BY DEF UpdateWrite, At, Run, Fails
<1>2. Runs(p) /\ Moves(p, "iput") /\ u'[p].ip = u[p].ip BY <1>1, MoveFacts
<1>3. u[p].pc \in Working /\ u'[p].pc # "read" BY <1>1, <1>2 DEF Working, Moves
<1>4. PICK k \in Slots, own \in Inos :
        /\ k = u[p].ip /\ own = inode[k].number /\ inode[k] \in SlotType
        /\ \A j \in Slots \ {k} : inode[j].number # own
        /\ Filled(k)' /\ (inode'[k].number = own => ~Absent(own)')
        /\ u[p].pc # "read" => Filled(k)
  BY <1>2, <1>3, OwnFilled
<1>5. LocalsOK(p) BY DEF LInv
<1>6. LocalsOK(p)' BY <1>1, <1>2, <1>5 DEF LocalsOK, Creating, Unlinking, Moves
<1>7. KeepsDirs(p) BY <1>1 DEF KeepsDirs
<1>8. CASE eio' = TRUE /\ inode' = inode
  <2>1. \A i : SameFile(i) BY <1>8 DEF SameFile
  <2> QED BY <1>2, <1>6, <1>7, <1>8, <2>1, ErrorStep
<1>9. CASE WriteDinode(k) /\ eio' = eio /\ inode' = [inode EXCEPT ![k].chg = FALSE]
  <2>1. inode \in [Slots -> SlotType] /\ dinode \in [Inos -> [mode : BOOLEAN, nlink : Int]]
    BY DEF IInv, OneSlot, TypeOK, SlotType
  <2>2. /\ \A i \in Slots \ {k} : inode'[i] = inode[i]
        /\ inode'[k].number = own /\ inode'[k].mode = inode[k].mode
        /\ inode'[k].nlink = inode[k].nlink
    BY <1>4, <1>9, <2>1 DEF SlotType
  <2>3. /\ \A x \in Inos \ {own} : dinode'[x] = dinode[x]
        /\ dinode'[own].mode = inode[k].mode /\ dinode'[own].nlink = inode[k].nlink
    BY <1>4, <1>9, <2>1 DEF WriteDinode
  <2>4. \A i \in Slots \ {k} : Calm(i) BY <2>2 DEF Calm, SameFile
  <2>5. FilesOK => SlotLive(k)' /\ VolumeLive(own)' /\ NewFile(p)'
    <3> SUFFICES ASSUME FilesOK PROVE SlotLive(k)' /\ VolumeLive(own)' /\ NewFile(p)' OBVIOUS
    <3>1. Named(own) => Live(inode[k]) BY <1>1, <1>4 DEF FilesOK, SlotLive
    <3>2. SlotLive(k)' BY <1>1, <2>2, <2>3, <3>1 DEF SlotLive, Live, Named
    <3>3. VolumeLive(own)' BY <1>4, <2>2 DEF VolumeLive
    <3>4. NewFile(p)' BY <1>2 DEF NewFile, Moves
    <3> QED BY <3>2, <3>3, <3>4
  <2>6. FilesOK => \A m, n \in Names : dir'[m] = dir'[n] /\ dir'[m] # 0 => m = n
    BY <1>1 DEF FilesOK
  <2>7. inode'[k].number \in {0, own} /\ \A n \in Names : dir'[n] = dir[n] BY <1>1, <2>2
  <2> QED BY <1>2, <1>3, <1>4, <1>6, <1>7, <1>9, <2>3, <2>4, <2>5, <2>6, <2>7, OwnStep
<1> QED BY <1>1, <1>4, <1>8, <1>9

----------------------------------------------------------------------------
(* No name, nobody in the kernel.                                          *)
LEMMA InitLives == Init => LInv
<1> SUFFICES ASSUME Init PROVE LInv OBVIOUS
<1>1. \A p \in Procs : u[p] = User BY DEF Init
<1>2. User.pc = "user" /\ ~User.again BY DEF User
<1>3. \A p \in Procs : LocalsOK(p) BY <1>1, <1>2 DEF LocalsOK, Creating, Unlinking
<1>4. \A ino \in Inos : ~Named(ino) BY DEF Init, Named, Inos
<1>5. \A n \in Names : dir[n] = 0 BY DEF Init
<1>6. \A p \in Procs : NewFile(p) BY <1>1, <1>2 DEF NewFile
<1>7. \A i \in Slots : inode[i].number \notin Inos
  <2>1. \A i \in Slots : inode[i] = Foreign \/ inode[i] = Empty BY DEF Init
  <2>2. Empty.number = 0 /\ Foreign.number = NINO + 1 BY DEF Empty, Foreign
  <2> QED BY <2>1, <2>2, SizesAssumption DEF Inos
<1> QED BY <1>3, <1>4, <1>5, <1>6, <1>7 DEF LInv, FilesOK, SlotLive, VolumeLive

LEMMA NextLives == IInv /\ IInv' /\ LInv /\ [Next]_vars => LInv'
<1> SUFFICES ASSUME IInv, IInv', LInv, [Next]_vars PROVE LInv' OBVIOUS
<1>1. CASE Next
  <2>1. PICK p \in Procs : Calls(p) \/ Steps(p) BY <1>1 DEF Next
  <2>2. CASE Calls(p)
    <3>1. ASSUME NEW n \in Names, Open(p, n) \/ CreatOld(p, n) PROVE LInv'
      <4>1. Namei(p, "open", n) \/ Namei(p, "trunc", n) BY <3>1 DEF Open, CreatOld
      <4> QED BY <4>1, NameiLives
    <3>2. ASSUME NEW n \in Names, CreatNew(p, n) PROVE LInv' BY <3>2, CreatNewLives
    <3>3. ASSUME NEW n \in Names, Unlink(p, n) PROVE LInv' BY <3>3, UnlinkLives
    <3>4. CASE Close(p) \/ Sync(p) BY <3>4, CloseLives
    <3> QED BY <2>2, <3>1, <3>2, <3>3, <3>4 DEF Calls
  <2>3. CASE Steps(p)
    <3>1. CASE IgetWait(p) \/ PlockWait(p) \/ IallocWait(p) BY <3>1, SleepLives
    <3>2. CASE IgetHit(p) \/ Plock(p) \/ UpdateNext(p) BY <3>2, TakeLives
    <3>3. CASE IgetFull(p) BY <3>3, IgetFullLives
    <3>4. CASE IgetMiss(p) BY <3>4, IgetMissLives
    <3>5. CASE IgetRead(p) BY <3>5, IgetReadLives
    <3>6. CASE IgetError(p) \/ CreateError(p) BY <3>6, ErrorLives
    <3>7. CASE IputMore(p) BY <3>7, IputMoreLives
    <3>8. CASE IputTrunc(p) BY <3>8, IputTruncLives
    <3>9. CASE IputFree(p) BY <3>9, IputFreeLives
    <3>10. CASE IputWrite(p) \/ Refused(p) \/ Truncate(p) \/ UnlinkGot(p) BY <3>10, PlaceLives
    <3>11. CASE IputSame(p) \/ IputEnd(p) BY <3>11, IputEndLives
    <3>12. CASE IallocPop(p) \/ IallocSearch(p) BY <3>12, IallocLives
    <3>13. CASE IallocAgain(p) BY <3>13, IallocAgainLives
    <3>14. CASE SearchRead(p) \/ SearchError(p)
      <4>1. PICK found : Search(p, found) BY <3>14 DEF SearchRead, SearchError
      <4> QED BY <4>1, SearchLives
    <3>15. CASE Maknode(p) BY <3>15, MaknodeLives
    <3>16. CASE Created(p) BY <3>16, CreatedLives
    <3>17. CASE Opened(p) \/ Truncated(p) BY <3>17, OpenedLives
    <3>18. CASE Unlinked(p) BY <3>18, UnlinkedLives
    <3>19. CASE UpdateWrite(p) BY <3>19, UpdateWriteLives
    <3>20. CASE UpdateEnd(p) BY <3>20, CloseLives
    <3> QED
      BY <2>3, <3>1, <3>2, <3>3, <3>4, <3>5, <3>6, <3>7, <3>8, <3>9, <3>10, <3>11, <3>12, <3>13,
         <3>14, <3>15, <3>16, <3>17, <3>18, <3>19, <3>20
      DEF Steps
  <2> QED BY <2>1, <2>2, <2>3
<1>2. CASE UNCHANGED vars
  <2>1. \A p \in Procs : LocalsOK(p)'
    BY <1>2 DEF vars, LInv, LocalsOK, Creating, Unlinking
  <2>2. FilesOK => FilesOK'
    BY <1>2 DEF vars, FilesOK, SlotLive, VolumeLive, NewFile, Filled, Absent, Named, Live, Slots, Inos
  <2> QED BY <1>2, <2>1, <2>2 DEF vars, LInv
<1> QED BY <1>1, <1>2

(* The i-node a reader of the volume sees is the one in the table or the   *)
(* one on the volume that the invariant is about.                          *)
LEMMA NamesLead == IInv /\ LInv => LinkedIsLive
<1> SUFFICES ASSUME IInv, LInv, ~eio, NEW n \in Names, dir[n] # 0
             PROVE  /\ Current(dir[n]).mode
                    /\ Current(dir[n]).nlink >= Cardinality({m \in Names : dir[m] = dir[n]})
  BY DEF LinkedIsLive
<1>1. FilesOK /\ dir[n] \in Inos /\ Named(dir[n])
  BY SizesAssumption DEF LInv, Named, IInv, OneSlot, TypeOK, Inos
<1>2. {m \in Names : dir[m] = dir[n]} = {n} BY <1>1 DEF FilesOK
<1>3. Cardinality({n}) = 1 BY FS_Singleton
<1> DEFINE filled == {i \in Slots : /\ inode[i].number = dir[n]
                                    /\ \A p \in Procs : ~(u[p].ip = i /\ u[p].pc = "read")}
<1>4. Current(dir[n]) = IF filled = {} THEN dinode[dir[n]] ELSE inode[CHOOSE i \in filled : TRUE]
  BY DEF Current
<1>5. CASE filled = {}
  <2>1. Absent(dir[n]) BY <1>5 DEF Absent, Filled
  <2>2. Live(dinode[dir[n]]) BY <1>1, <2>1 DEF FilesOK, VolumeLive
  <2>3. dinode[dir[n]].nlink \in Int BY <1>1 DEF IInv, OneSlot, TypeOK
  <2>4. Current(dir[n]) = dinode[dir[n]] BY <1>4, <1>5
  <2> QED BY <1>2, <1>3, <2>2, <2>3, <2>4 DEF Live
<1>6. CASE filled # {}
  <2>1. PICK i \in filled : i = CHOOSE j \in filled : TRUE BY <1>6
  <2>2. i \in Slots /\ inode[i].number = dir[n] /\ Filled(i) BY <2>1 DEF Filled
  <2>3. Live(inode[i]) BY <1>1, <2>2 DEF FilesOK, SlotLive
  <2>4. inode[i].nlink \in Int BY <2>2 DEF IInv, OneSlot, TypeOK
  <2>5. Current(dir[n]) = inode[i] BY <1>4, <1>6, <2>1
  <2> QED BY <1>2, <1>3, <2>3, <2>4, <2>5 DEF Live
<1> QED BY <1>5, <1>6

(* Until an i-node or an entry cannot be read or written, every name leads *)
(* to an i-node that is in use and has a link: none is freed while it has  *)
(* a name, and none is given to two files, however out of date s_inode[],  *)
(* a search of the i-list or a name looked up before a sleep may be.       *)
THEOREM InodeLinkedIsLive == Spec => []LinkedIsLive
<1>1. Init => IInv /\ LInv BY InitIInv, InitLives
<1>2. IInv /\ LInv /\ [Next]_vars => (IInv /\ LInv)'
  <2>1. IInv /\ [Next]_vars => IInv' BY NextKeeps
  <2> QED BY <2>1, NextLives
<1>3. IInv /\ LInv => LinkedIsLive BY NamesLead
<1> QED BY <1>1, <1>2, <1>3, PTL DEF Spec
=============================================================================
