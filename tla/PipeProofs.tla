----------------------------- MODULE PipeProofs -----------------------------
(***************************************************************************)
(* The safety of pipes for any number of processes, any PIPSIZ and any     *)
(* messages, whether or not the file system can fail; and the pipe is the  *)
(* queue of bytes of PipeFifo.                                             *)
(***************************************************************************)
EXTENDS Pipe, FiniteSetTheorems, SequenceTheorems, TLAPS

(* Where a process can be: what it sleeps for there, which end it has open *)
(* or is the last to close, and what it has of a message.  Who is in       *)
(* writei has found room for its piece.                                    *)
PlacesOK ==
  \A p \in Procs :
    /\ chan[p] = "lock" => pc[p] \in {"readp", "writep", "closef"}
    /\ chan[p] = "data" => pc[p] = "readp"
    /\ chan[p] = "room" => pc[p] = "writep"
    /\ pc[p] \in {"readp", "readi"} => "r" \in fds[p]
    /\ pc[p] \in {"writep", "writei"} => "w" \in fds[p]
    /\ pc[p] = "closef" => fin[p] \notin fds[p] /\ fcount[fin[p]] = 1
    /\ pc[p] \notin {"writep", "writei"} => msg[p] = <<>> /\ ~err[p]
    /\ err[p] => IOErrors
    /\ pc[p] = "writei" => msg[p] # <<>> /\ ~Full

(* The bytes; once both ends are closed there are none.                    *)
DataOK ==
  /\ file \in Seq(Bytes) /\ msg \in [Procs -> Seq(Bytes)]
  /\ fcount["r"] = 0 /\ fcount["w"] = 0 => file = <<>>

(* Who sleeps for data or for room does so between two open ends: i_count  *)
(* alone, which update() raises as well, would not tell.                   *)
BothOpen == (\E p \in Procs : chan[p] \in {"data", "room"}) => fcount["r"] > 0 /\ fcount["w"] > 0

(* The inductive invariant.                                                *)
IInv ==
  /\ SizeBound /\ DataOK /\ PlacesOK /\ BothOpen
  /\ RefCounts /\ OneHolder /\ NoLostWakeup

----------------------------------------------------------------------------
(* Who refers to the file of an end.                                       *)
Uses(p, e) == e \in fds[p] \/ (pc[p] = "closef" /\ fin[p] = e)
Users(e) == {p \in Procs : Uses(p, e)}

(* 1 for an end that is open, which is what it adds to i_count.            *)
B(n) == IF n > 0 THEN 1 ELSE 0

(* How many ends have a count.                                             *)
LEMMA EndsCount ==
  ASSUME NEW f \in [End -> Nat]
  PROVE  Cardinality({e \in End : f[e] > 0}) = B(f["r"]) + B(f["w"])
<1> DEFINE S == {e \in End : f[e] > 0}
<1>1. CASE f["r"] = 0 /\ f["w"] = 0
  <2>1. S = {} BY <1>1 DEF End
  <2> QED BY <1>1, <2>1, FS_EmptySet DEF B
<1>2. CASE f["r"] = 0 /\ f["w"] > 0
  <2>1. S = {"w"} BY <1>2 DEF End
  <2>2. Cardinality({"w"}) = 1 BY FS_Singleton
  <2> QED BY <1>2, <2>1, <2>2 DEF B
<1>3. CASE f["r"] > 0 /\ f["w"] = 0
  <2>1. S = {"r"} BY <1>3 DEF End
  <2>2. Cardinality({"r"}) = 1 BY FS_Singleton
  <2> QED BY <1>3, <2>1, <2>2 DEF B
<1>4. CASE f["r"] > 0 /\ f["w"] > 0
  <2>1. S = {"r"} \cup {"w"} BY <1>4 DEF End
  <2>2. IsFiniteSet({"r"}) /\ Cardinality({"r"}) = 1 BY FS_Singleton
  <2>3. Cardinality({"r"} \cup {"w"}) = 2 BY <2>2, FS_AddElement
  <2> QED BY <1>4, <2>1, <2>3 DEF B
<1> QED BY <1>1, <1>2, <1>3, <1>4 DEF End

(* Sets of processes are finite.                                           *)
LEMMA ProcsCount ==
  ASSUME NEW S \in SUBSET Procs
  PROVE  /\ IsFiniteSet(S) /\ Cardinality(S) \in 0..Cardinality(Procs)
         /\ Cardinality(S) = 0 <=> S = {}
<1>1. Cardinality(Procs) \in Nat BY ProcsAssumption, FS_CardinalityType
<1>2. IsFiniteSet(S) /\ Cardinality(S) <= Cardinality(Procs) BY ProcsAssumption, FS_Subset
<1>3. Cardinality(S) \in Nat BY <1>2, FS_CardinalityType
<1> QED BY <1>1, <1>2, <1>3, FS_EmptySet

(* The counts, read as who has what.                                       *)
LEMMA WhoCounts ==
  ASSUME IInv
  PROVE  /\ \A e \in End : Users(e) \in SUBSET Procs /\ IsFiniteSet(Users(e))
         /\ \A e \in End : fcount[e] \in Nat /\ fcount[e] = Cardinality(Users(e))
         /\ \A e \in End : fcount[e] = 0 <=> \A p \in Procs : ~Uses(p, e)
         /\ \A e \in End : fcount[e] = 1 => \A p, q \in Procs : Uses(p, e) /\ Uses(q, e) => p = q
         /\ icount = B(fcount["r"]) + B(fcount["w"]) + (IF upd THEN 1 ELSE 0)
<1>1. \A e \in End : Users(e) \in SUBSET Procs /\ IsFiniteSet(Users(e)) BY ProcsCount DEF Users
<1>2. \A e \in End : fcount[e] = Cardinality(Users(e)) BY DEF IInv, RefCounts, Users, Uses
<1>3. fcount \in [End -> Nat] BY <1>1, <1>2, ProcsCount DEF IInv, SizeBound, TypeOK
<1>4. \A e \in End : fcount[e] = 0 <=> \A p \in Procs : ~Uses(p, e)
  BY <1>1, <1>2, ProcsCount DEF Users
<1>5. ASSUME NEW e \in End, fcount[e] = 1, NEW p \in Procs, NEW q \in Procs, Uses(p, e), Uses(q, e)
      PROVE  p = q
  <2>1. PICK x : Users(e) = {x} BY <1>1, <1>2, <1>5, FS_Singleton
  <2> QED BY <1>5, <2>1 DEF Users
<1>6. icount = B(fcount["r"]) + B(fcount["w"]) + (IF upd THEN 1 ELSE 0)
  BY <1>3, EndsCount DEF IInv, RefCounts
<1> QED BY <1>1, <1>2, <1>3, <1>4, <1>5, <1>6

(* How a step leaves the counts right.                                     *)
LEMMA CountsKept ==
  ASSUME fds' \in [Procs -> SUBSET End],
         \A e \in End : fcount'[e] = Cardinality(Users(e)'),
         fcount' = [e \in End |-> fcount'[e]],
         icount' = B(fcount'["r"]) + B(fcount'["w"]) + (IF upd' THEN 1 ELSE 0)
  PROVE  RefCounts' /\ fcount' \in [End -> 0..Cardinality(Procs)]
<1>1. \A e \in End : Users(e)' \in SUBSET Procs BY DEF Users
<1>2. \A e \in End : fcount'[e] \in 0..Cardinality(Procs) BY <1>1, ProcsCount
<1>3. Cardinality(Procs) \in Nat BY ProcsAssumption, FS_CardinalityType
<1>4. fcount' \in [End -> 0..Cardinality(Procs)] BY <1>2
<1>5. fcount' \in [End -> Nat] BY <1>3, <1>4
<1>6. Cardinality({e \in End : fcount'[e] > 0}) = B(fcount'["r"]) + B(fcount'["w"]) BY <1>5, EndsCount
<1> QED BY <1>4, <1>6 DEF RefCounts, Users, Uses

(* Most steps change none of them.                                         *)
LEMMA RefsSame ==
  ASSUME RefCounts, UNCHANGED <<icount, fcount, upd, fds>>,
         \A p \in Procs : (pc'[p] = "closef") = (pc[p] = "closef"),
         \A p \in Procs : pc[p] = "closef" => fin'[p] = fin[p]
  PROVE  RefCounts'
<1>1. \A e \in End : {p \in Procs : e \in fds'[p] \/ (pc'[p] = "closef" /\ fin'[p] = e)}
                    = {p \in Procs : e \in fds[p] \/ (pc[p] = "closef" /\ fin[p] = e)}
  OBVIOUS
<1> QED BY <1>1 DEF RefCounts

----------------------------------------------------------------------------
(* pipe().                                                                 *)
LEMMA MakePipeKeeps ==
  ASSUME IInv, NEW p \in Procs, MakePipe(p)
  PROVE  IInv'
<1>1. RefCounts' /\ fcount' \in [End -> 0..Cardinality(Procs)]
  <2>1. upd = FALSE /\ \A e \in End, q \in Procs : ~Uses(q, e)
    BY WhoCounts DEF IInv, SizeBound, TypeOK, MakePipe, B, End
  <2>2. \A e \in End : Users(e)' = {p}
    BY <2>1 DEF Users, Uses, MakePipe, calls, IInv, SizeBound, TypeOK
  <2>3. Cardinality({p}) = 1 BY FS_Singleton
  <2>4. fds' \in [Procs -> SUBSET End] BY DEF MakePipe, IInv, SizeBound, TypeOK
  <2>5. fcount' = [e \in End |-> fcount'[e]] /\ \A e \in End : fcount'[e] = 1 BY DEF MakePipe
  <2>6. icount' = B(fcount'["r"]) + B(fcount'["w"]) + (IF upd' THEN 1 ELSE 0)
    BY <2>1, <2>5 DEF MakePipe, B, End
  <2> QED BY <2>2, <2>3, <2>4, <2>5, <2>6, CountsKept
<1>2. SizeBound'
  <2>1. off' \in 0..Len(file') /\ Len(file') < 2 * PIPSIZ BY PIPSIZAssumption DEF MakePipe
  <2>2. icount' \in 0..3 BY DEF MakePipe
  <2>3. fds' \in [Procs -> SUBSET End] BY DEF MakePipe, IInv, SizeBound, TypeOK
  <2> QED BY <1>1, <2>1, <2>2, <2>3 DEF MakePipe, calls, IInv, SizeBound, TypeOK
<1>7. NoLostWakeup'
  <2>1. \A q \in Procs : chan[q] = Awake
    <3>1. fcount["r"] = 0 /\ fcount["w"] = 0 BY WhoCounts DEF MakePipe, B, End, IInv, SizeBound, TypeOK
    <3>2. \A x \in End, q \in Procs : ~Uses(q, x) BY <3>1, WhoCounts DEF End
    <3> QED BY <3>2 DEF Uses, End, IInv, PlacesOK, SizeBound, TypeOK
  <2> QED BY <2>1 DEF MakePipe, NoLostWakeup, Awake
<1> USE PIPSIZAssumption, CallsAssumption, MsgsAssumption
        DEF IInv, SizeBound, TypeOK, Full, End, Awake, MakePipe, At, calls
<1>3. DataOK' BY DEF DataOK
<1>4. PlacesOK' BY DEF PlacesOK
<1>5. BothOpen' BY DEF BothOpen
<1>6. OneHolder' BY WhoCounts DEF B, Uses, OneHolder, Holders, PlacesOK
<1> QED BY <1>1, <1>2, <1>3, <1>4, <1>5, <1>6, <1>7 DEF IInv

(* fork.                                                                   *)
LEMMA ForkKeeps ==
  ASSUME IInv, NEW p \in Procs, NEW q \in Procs, Fork(p, q)
  PROVE  IInv'
<1>1. RefCounts' /\ fcount' \in [End -> 0..Cardinality(Procs)]
  <2>1. \A e \in End : Users(e)' = IF e \in fds[p] THEN Users(e) \cup {q} ELSE Users(e)
    BY DEF Users, Uses, Fork, At, calls, IInv, SizeBound, TypeOK
  <2>2. \A e \in End : q \notin Users(e) BY DEF Users, Uses, Fork, At
  <2>3. \A e \in End : fcount'[e] = Cardinality(Users(e)')
    <3> TAKE e \in End
    <3>1. IsFiniteSet(Users(e)) /\ fcount[e] = Cardinality(Users(e)) BY WhoCounts
    <3>2. Cardinality(Users(e) \cup {q}) = Cardinality(Users(e)) + 1 BY <2>2, <3>1, FS_AddElement
    <3> QED BY <2>1, <3>1, <3>2 DEF Fork
  <2>4. fds' \in [Procs -> SUBSET End] BY DEF Fork, IInv, SizeBound, TypeOK
  <2>5. fcount' = [e \in End |-> fcount'[e]] BY DEF Fork
  <2>6. \A e \in End : B(fcount'[e]) = B(fcount[e])
    <3>1. \A e \in fds[p] : e \in End /\ fcount[e] # 0
      BY WhoCounts DEF Uses, Fork, At, IInv, SizeBound, TypeOK
    <3> QED BY <3>1, WhoCounts DEF Fork, B
  <2>7. icount' = B(fcount'["r"]) + B(fcount'["w"]) + (IF upd' THEN 1 ELSE 0)
    BY <2>6, WhoCounts DEF Fork, End
  <2> QED BY <2>3, <2>4, <2>5, <2>7, CountsKept
<1>4. PlacesOK'
  <2>1. \A x \in Procs : pc[x] = "closef" => fin[x] \in End /\ fin[x] \notin fds[p]
    BY WhoCounts DEF Uses, Fork, At, IInv, PlacesOK, SizeBound, TypeOK
  <2> QED BY <2>1 DEF Fork, At, calls, IInv, PlacesOK, SizeBound, TypeOK, Full
<1> USE PIPSIZAssumption, CallsAssumption, MsgsAssumption
        DEF IInv, SizeBound, TypeOK, Full, End, Awake, Fork, At, calls
<1>2. SizeBound' BY <1>1
<1>3. DataOK' BY DEF DataOK
<1>5. BothOpen' BY DEF BothOpen
<1>6. OneHolder' BY DEF OneHolder, Holders
<1>7. NoLostWakeup' BY DEF NoLostWakeup
<1> QED BY <1>1, <1>2, <1>3, <1>4, <1>5, <1>6, <1>7 DEF IInv

(* read() begins.                                                          *)
LEMMA ReadKeeps ==
  ASSUME IInv, NEW p \in Procs, NEW n \in Counts, Read(p, n)
  PROVE  IInv'
<1> USE PIPSIZAssumption, CallsAssumption, MsgsAssumption
        DEF IInv, SizeBound, TypeOK, Full, End, Awake, Read, Call, At, ivars
<1>1. RefCounts' BY RefsSame
<1>2. SizeBound' OBVIOUS
<1>3. DataOK' BY DEF DataOK
<1>4. PlacesOK' BY DEF PlacesOK
<1>5. BothOpen' BY DEF BothOpen
<1>6. OneHolder' BY DEF OneHolder, Holders
<1>7. NoLostWakeup' BY DEF NoLostWakeup
<1> QED BY <1>1, <1>2, <1>3, <1>4, <1>5, <1>6, <1>7 DEF IInv

(* write() begins.                                                         *)
LEMMA WriteKeeps ==
  ASSUME IInv, NEW p \in Procs, NEW m \in Msgs, Write(p, m)
  PROVE  IInv'
<1> USE PIPSIZAssumption, CallsAssumption, MsgsAssumption
        DEF IInv, SizeBound, TypeOK, Full, End, Awake, Write, Call, At, ivars
<1>1. RefCounts' BY RefsSame
<1>2. SizeBound' OBVIOUS
<1>3. DataOK' BY DEF DataOK
<1>4. PlacesOK' BY DEF PlacesOK
<1>5. BothOpen' BY DEF BothOpen
<1>6. OneHolder' BY DEF OneHolder, Holders
<1>7. NoLostWakeup' BY DEF NoLostWakeup
<1> QED BY <1>1, <1>2, <1>3, <1>4, <1>5, <1>6, <1>7 DEF IInv

(* close() of an end that others have open, too.                           *)
LEMMA CloseSharedKeeps ==
  ASSUME IInv, NEW p \in Procs, NEW e \in End, CloseShared(p, e)
  PROVE  IInv'
<1>1. RefCounts' /\ fcount' \in [End -> 0..Cardinality(Procs)]
  <2>1. \A x \in End : Users(x)' = IF x = e THEN Users(e) \ {p} ELSE Users(x)
    BY DEF Users, Uses, CloseShared, At, calls, IInv, SizeBound, TypeOK
  <2>2. p \in Users(e) BY DEF Users, Uses, CloseShared
  <2>3. \A x \in End : fcount'[x] = Cardinality(Users(x)')
    <3> TAKE x \in End
    <3>1. IsFiniteSet(Users(x)) /\ fcount[x] = Cardinality(Users(x)) BY WhoCounts
    <3>2. x = e => Cardinality(Users(e) \ {p}) = Cardinality(Users(e)) - 1
      BY <2>2, <3>1, FS_RemoveElement
    <3> QED BY <2>1, <3>1, <3>2 DEF CloseShared, IInv, SizeBound, TypeOK
  <2>4. fds' \in [Procs -> SUBSET End] BY DEF CloseShared, IInv, SizeBound, TypeOK
  <2>5. fcount' = [x \in End |-> fcount'[x]] BY DEF CloseShared, IInv, SizeBound, TypeOK
  <2>6. \A x \in End : B(fcount'[x]) = B(fcount[x]) BY WhoCounts DEF CloseShared, B, IInv, SizeBound, TypeOK
  <2>7. icount' = B(fcount'["r"]) + B(fcount'["w"]) + (IF upd' THEN 1 ELSE 0)
    BY <2>6, WhoCounts DEF CloseShared, End
  <2> QED BY <2>3, <2>4, <2>5, <2>7, CountsKept
<1> USE PIPSIZAssumption, CallsAssumption, MsgsAssumption
        DEF IInv, SizeBound, TypeOK, Full, End, Awake, CloseShared, At, calls
<1>2. SizeBound' BY <1>1
<1>3. DataOK' BY DEF DataOK
<1>4. PlacesOK' BY DEF PlacesOK
<1>5. BothOpen' BY DEF BothOpen
<1>6. OneHolder' BY DEF OneHolder, Holders
<1>7. NoLostWakeup' BY DEF NoLostWakeup
<1> QED BY <1>1, <1>2, <1>3, <1>4, <1>5, <1>6, <1>7 DEF IInv

(* close() of an end nobody else has open.                                 *)
LEMMA CloseLastKeeps ==
  ASSUME IInv, NEW p \in Procs, NEW e \in End, CloseLast(p, e)
  PROVE  IInv'
<1>1. RefCounts' /\ fcount' \in [End -> 0..Cardinality(Procs)]
  <2>1. \A x \in End : Users(x)' = Users(x)
    BY DEF Users, Uses, CloseLast, Call, At, IInv, SizeBound, TypeOK
  <2>2. fds' \in [Procs -> SUBSET End] /\ fcount' = fcount /\ icount' = icount /\ upd' = upd
    BY DEF CloseLast, Call, ivars, IInv, SizeBound, TypeOK
  <2>3. fcount' = [x \in End |-> fcount'[x]] BY <2>2 DEF IInv, SizeBound, TypeOK
  <2> QED BY <2>1, <2>2, <2>3, WhoCounts, CountsKept
<1> USE PIPSIZAssumption, CallsAssumption, MsgsAssumption
        DEF IInv, SizeBound, TypeOK, Full, End, Awake, CloseLast, Call, At, ivars
<1>2. SizeBound' BY <1>1
<1>3. DataOK' BY DEF DataOK
<1>4. PlacesOK' BY WhoCounts DEF B, Uses, PlacesOK, DataOK
<1>5. BothOpen' BY DEF BothOpen
<1>6. OneHolder' BY DEF OneHolder, Holders
<1>7. NoLostWakeup' BY DEF NoLostWakeup
<1> QED BY <1>1, <1>2, <1>3, <1>4, <1>5, <1>6, <1>7 DEF IInv

(* plock() sleeps.                                                         *)
LEMMA PlockSleepKeeps ==
  ASSUME IInv, NEW p \in Procs, PlockSleep(p)
  PROVE  IInv'
<1> USE PIPSIZAssumption, CallsAssumption, MsgsAssumption
        DEF IInv, SizeBound, TypeOK, Full, End, Awake, PlockSleep, At, calls
<1>1. RefCounts' BY RefsSame
<1>2. SizeBound' OBVIOUS
<1>3. DataOK' BY DEF DataOK
<1>4. PlacesOK' BY DEF PlacesOK
<1>5. BothOpen' BY DEF BothOpen
<1>6. OneHolder' BY DEF OneHolder, Holders
<1>7. NoLostWakeup' BY DEF NoLostWakeup
<1> QED BY <1>1, <1>2, <1>3, <1>4, <1>5, <1>6, <1>7 DEF IInv

(* readp() at the end of the file.                                         *)
LEMMA ReadEofKeeps ==
  ASSUME IInv, NEW p \in Procs, ReadEof(p)
  PROVE  IInv'
<1> USE PIPSIZAssumption, CallsAssumption, MsgsAssumption
        DEF IInv, SizeBound, TypeOK, Full, End, Awake, ReadEof, Brief, Prele, Return, At, Woken,
            LockWaiters
<1>1. RefCounts' BY RefsSame
<1>2. SizeBound' OBVIOUS
<1>3. DataOK' BY DEF DataOK
<1>4. PlacesOK' BY DEF PlacesOK
<1>5. BothOpen' BY DEF BothOpen
<1>6. OneHolder' BY DEF OneHolder, Holders
<1>7. NoLostWakeup' BY DEF NoLostWakeup
<1> QED BY <1>1, <1>2, <1>3, <1>4, <1>5, <1>6, <1>7 DEF IInv

(* readp() waits for data.                                                 *)
LEMMA ReadWaitKeeps ==
  ASSUME IInv, NEW p \in Procs, ReadWait(p)
  PROVE  IInv'
<1>5. BothOpen'
  <2>1. upd = FALSE BY DEF ReadWait, Brief, IInv, OneHolder, SizeBound, TypeOK
  <2> QED BY <2>1, WhoCounts DEF ReadWait, B, End, BothOpen
<1> USE PIPSIZAssumption, CallsAssumption, MsgsAssumption
        DEF IInv, SizeBound, TypeOK, Full, End, Awake, ReadWait, Brief, Prele, At, Woken,
            LockWaiters, calls
<1>1. RefCounts' BY RefsSame
<1>2. SizeBound' OBVIOUS
<1>3. DataOK' BY DEF DataOK
<1>4. PlacesOK' BY DEF PlacesOK
<1>6. OneHolder' BY DEF OneHolder, Holders
<1>7. NoLostWakeup' BY DEF NoLostWakeup
<1> QED BY <1>1, <1>2, <1>3, <1>4, <1>5, <1>6, <1>7 DEF IInv

(* readp() goes into readi.                                                *)
LEMMA ReadStartKeeps ==
  ASSUME IInv, NEW p \in Procs, ReadStart(p)
  PROVE  IInv'
<1> USE PIPSIZAssumption, CallsAssumption, MsgsAssumption
        DEF IInv, SizeBound, TypeOK, Full, End, Awake, ReadStart, Long, At
<1>1. RefCounts' BY RefsSame
<1>2. SizeBound' OBVIOUS
<1>3. DataOK' BY DEF DataOK
<1>4. PlacesOK' BY DEF PlacesOK
<1>5. BothOpen' BY DEF BothOpen
<1>6. OneHolder' BY DEF OneHolder, Holders
<1>7. NoLostWakeup' BY DEF NoLostWakeup
<1> QED BY <1>1, <1>2, <1>3, <1>4, <1>5, <1>6, <1>7 DEF IInv

(* writep() is done.                                                       *)
LEMMA WriteDoneKeeps ==
  ASSUME IInv, NEW p \in Procs, WriteDone(p)
  PROVE  IInv'
<1> USE PIPSIZAssumption, CallsAssumption, MsgsAssumption
        DEF IInv, SizeBound, TypeOK, Full, End, Awake, WriteDone, Brief, Prele, Return, At, Woken,
            LockWaiters
<1>1. RefCounts' BY RefsSame
<1>2. SizeBound' OBVIOUS
<1>3. DataOK' BY DEF DataOK
<1>4. PlacesOK' BY DEF PlacesOK
<1>5. BothOpen' BY DEF BothOpen
<1>6. OneHolder' BY DEF OneHolder, Holders
<1>7. NoLostWakeup' BY DEF NoLostWakeup
<1> QED BY <1>1, <1>2, <1>3, <1>4, <1>5, <1>6, <1>7 DEF IInv

(* writep() without a reader.                                              *)
LEMMA WriteEpipeKeeps ==
  ASSUME IInv, NEW p \in Procs, WriteEpipe(p)
  PROVE  IInv'
<1> USE PIPSIZAssumption, CallsAssumption, MsgsAssumption
        DEF IInv, SizeBound, TypeOK, Full, End, Awake, WriteEpipe, Brief, Prele, Return, At, Woken,
            LockWaiters
<1>1. RefCounts' BY RefsSame
<1>2. SizeBound' OBVIOUS
<1>3. DataOK' BY DEF DataOK
<1>4. PlacesOK' BY WhoCounts DEF B, Uses, PlacesOK, DataOK
<1>5. BothOpen' BY DEF BothOpen
<1>6. OneHolder' BY DEF OneHolder, Holders
<1>7. NoLostWakeup' BY DEF NoLostWakeup
<1> QED BY <1>1, <1>2, <1>3, <1>4, <1>5, <1>6, <1>7 DEF IInv

(* writep() waits for room.                                                *)
LEMMA WriteWaitKeeps ==
  ASSUME IInv, NEW p \in Procs, WriteWait(p)
  PROVE  IInv'
<1>5. BothOpen'
  <2>1. upd = FALSE BY DEF WriteWait, Brief, IInv, OneHolder, SizeBound, TypeOK
  <2> QED BY <2>1, WhoCounts DEF WriteWait, B, End, BothOpen
<1> USE PIPSIZAssumption, CallsAssumption, MsgsAssumption
        DEF IInv, SizeBound, TypeOK, Full, End, Awake, WriteWait, Brief, Prele, At, Woken,
            LockWaiters, calls
<1>1. RefCounts' BY RefsSame
<1>2. SizeBound' OBVIOUS
<1>3. DataOK' BY DEF DataOK
<1>4. PlacesOK' BY DEF PlacesOK
<1>6. OneHolder' BY DEF OneHolder, Holders
<1>7. NoLostWakeup' BY DEF NoLostWakeup
<1> QED BY <1>1, <1>2, <1>3, <1>4, <1>5, <1>6, <1>7 DEF IInv

(* writep() goes into writei.                                              *)
LEMMA WriteStartKeeps ==
  ASSUME IInv, NEW p \in Procs, WriteStart(p)
  PROVE  IInv'
<1> USE PIPSIZAssumption, CallsAssumption, MsgsAssumption
        DEF IInv, SizeBound, TypeOK, Full, End, Awake, WriteStart, Long, At
<1>1. RefCounts' BY RefsSame
<1>2. SizeBound' OBVIOUS
<1>3. DataOK' BY DEF DataOK
<1>4. PlacesOK' BY DEF PlacesOK
<1>5. BothOpen' BY DEF BothOpen
<1>6. OneHolder' BY DEF OneHolder, Holders
<1>7. NoLostWakeup' BY DEF NoLostWakeup
<1> QED BY <1>1, <1>2, <1>3, <1>4, <1>5, <1>6, <1>7 DEF IInv

(* The first j bytes of a message.                                         *)
LEMMA PrefixSeq ==
  ASSUME NEW S, NEW s \in Seq(S), NEW j \in 0..Len(s)
  PROVE  SubSeq(s, 1, j) \in Seq(S) /\ Len(SubSeq(s, 1, j)) = j
<1>1. Len(s) \in Nat /\ \A i \in 1..j : s[i] \in S OBVIOUS
<1> QED BY <1>1, SubSeqProperties

(* Junk is a sequence of bytes, too.                                       *)
LEMMA SpoiltSeq ==
  ASSUME NEW n \in Nat
  PROVE  Spoilt(n) \in Seq(Bytes) /\ Len(Spoilt(n)) = n
<1>1. Spoilt(n) = [i \in 1..n |-> Junk] BY DEF Spoilt
<1>2. Junk \in Bytes BY DEF Bytes
<1>3. Spoilt(n) \in [1..n -> Bytes] BY <1>1, <1>2
<1>4. Spoilt(n) \in Seq(Bytes) BY <1>3, SeqDef
<1> QED BY <1>1, <1>4, LenProperties

(* What writei has added to the file, whether it failed or not.            *)
LEMMA WrittenFacts ==
  ASSUME IInv, NEW p \in Procs, NEW k \in 0..Len(msg[p]), Written(p, k)
  PROVE  /\ \E x \in Seq(Bytes) : Len(x) <= k /\ file' = file \o x
         /\ err' \in [Procs -> BOOLEAN] /\ (err'[p] => IOErrors)
         /\ \A q \in Procs \ {p} : err'[q] = err[q]
<1>1. msg[p] \in Seq(Bytes) /\ Len(msg[p]) \in Nat /\ k \in Nat /\ file \in Seq(Bytes)
  BY DEF IInv, DataOK
<1>2. err \in [Procs -> BOOLEAN] /\ (err[p] => IOErrors) BY DEF IInv, SizeBound, TypeOK, PlacesOK
<1>3. CASE ~err[p] /\ file' = file \o SubSeq(msg[p], 1, k) /\ UNCHANGED err
  <2>1. SubSeq(msg[p], 1, k) \in Seq(Bytes) /\ Len(SubSeq(msg[p], 1, k)) <= k BY <1>1, PrefixSeq
  <2> QED BY <1>2, <1>3, <2>1
<1>4. CASE /\ IOErrors /\ ~err[p] /\ err' = [err EXCEPT ![p] = TRUE]
           /\ \E j \in 0..(k - 1) : \E n \in 0..(k - j) :
                file' = file \o SubSeq(msg[p], 1, j) \o Spoilt(n)
  <2>a. PICK j \in 0..(k - 1) : \E n \in 0..(k - j) : file' = file \o SubSeq(msg[p], 1, j) \o Spoilt(n)
    BY <1>4
  <2>1. PICK n \in 0..(k - j) : file' = file \o SubSeq(msg[p], 1, j) \o Spoilt(n) BY <2>a
  <2>2. j \in 0..Len(msg[p]) /\ n \in Nat /\ j + n <= k BY <1>1
  <2> DEFINE y == SubSeq(msg[p], 1, j)
             z == Spoilt(n)
  <2>3. y \in Seq(Bytes) /\ Len(y) = j BY <1>1, <2>2, PrefixSeq
  <2>4. z \in Seq(Bytes) /\ Len(z) = n BY <2>2, SpoiltSeq
  <2>5. file' = file \o y \o z BY <2>1
  <2> HIDE DEF y, z
  <2>6. (y \o z) \in Seq(Bytes) /\ Len(y \o z) <= k BY <2>2, <2>3, <2>4, ConcatProperties
  <2>7. \A f, g, h \in Seq(Bytes) : f \o g \o h = f \o (g \o h) BY ConcatAssociative
  <2>8. \E x \in Seq(Bytes) : Len(x) <= k /\ file' = file \o x BY <1>1, <2>3, <2>4, <2>5, <2>6, <2>7, Zenon
  <2> QED BY <1>2, <1>4, <2>8
<1>5. CASE /\ err[p] /\ UNCHANGED err
           /\ \E j \in 0..k : file' \in {file \o SubSeq(msg[p], 1, j), file \o Spoilt(j)}
  <2>1. PICK j \in 0..k : file' = file \o SubSeq(msg[p], 1, j) \/ file' = file \o Spoilt(j) BY <1>5
  <2>2. SubSeq(msg[p], 1, j) \in Seq(Bytes) /\ Len(SubSeq(msg[p], 1, j)) <= k BY <1>1, PrefixSeq
  <2>3. Spoilt(j) \in Seq(Bytes) /\ Len(Spoilt(j)) <= k BY <1>1, SpoiltSeq
  <2> QED BY <1>2, <1>5, <2>1, <2>2, <2>3
<1> QED BY <1>3, <1>4, <1>5 DEF Written

(* readp() after readi.                                                    *)
LEMMA ReadEndKeeps ==
  ASSUME IInv, NEW p \in Procs, ReadEnd(p)
  PROVE  IInv'
<1>0. PICK k \in 0..(Len(file) - off) : Consume(k) /\ (\E r : Return(p, r))
  <2> DEFINE k0 == Least(cnt[p], Len(file) - off)
  <2>a. cnt[p] \in Nat
    <3>1. cnt[p] \in Counts \cup {0} BY DEF IInv, SizeBound, TypeOK
    <3>2. Counts \subseteq Nat BY CallsAssumption
    <3>3. 0 \in Nat OBVIOUS
    <3> QED BY <3>1, <3>2, <3>3, Zenon
  <2>b. off \in 0..Len(file) BY DEF IInv, SizeBound, TypeOK
  <2>c. Len(file) \in Nat BY DEF IInv, DataOK
  <2>1. cnt[p] \in Nat /\ Len(file) \in Nat /\ off \in 0..Len(file) BY <2>a, <2>b, <2>c
  <2>2. k0 \in 0..(Len(file) - off) BY <2>1 DEF Least
  <2>3. \/ Consume(k0) /\ Return(p, <<"read", SubSeq(file, off + 1, off + k0)>>)
        \/ (\E j \in 0..k0 : Consume(j)) /\ Return(p, <<"error">>)
    BY DEF ReadEnd
  <2> HIDE DEF k0
  <2>4. \A j \in 0..k0 : j \in 0..(Len(file) - off) BY <2>1, <2>2
  <2> QED BY <2>2, <2>3, <2>4
<1>a. /\ \A q \in Holders : q = p
      /\ upd = FALSE /\ file \in Seq(Bytes) /\ Len(file) \in Nat /\ off \in Nat
  BY DEF ReadEnd, At, IInv, OneHolder, Holders, DataOK, SizeBound, TypeOK
<1>b. \/ off + k = Len(file) /\ file' = <<>> /\ off' = 0
      \/ off + k < Len(file) /\ file' = file /\ off' = off + k
  BY <1>0, <1>a DEF Consume
<1>c. pc' = [pc EXCEPT ![p] = "user"] BY <1>0 DEF Return
<1>2. SizeBound'
  <2>1. off' \in 0..Len(file') /\ Len(file') < 2 * PIPSIZ
    BY <1>a, <1>b, PIPSIZAssumption DEF IInv, SizeBound
  <2> QED BY <1>0, <2>1, CallsAssumption
          DEF ReadEnd, Consume, Return, Prele, Woken, Awake, IInv, SizeBound, TypeOK
<1>3. DataOK'
  <2>1. file' \in Seq(Bytes) /\ (fcount'["r"] = 0 /\ fcount'["w"] = 0 => file' = <<>>)
    <3>1. <<>> \in Seq(Bytes) OBVIOUS
    <3> QED BY <1>a, <1>b, <3>1 DEF ReadEnd, IInv, DataOK
  <2> QED BY <1>0, <2>1 DEF Return, IInv, DataOK
<1>4. PlacesOK'
  <2>1. \A q \in Procs : pc'[q] # "writei" BY <1>a, <1>c DEF Holders, IInv, SizeBound, TypeOK
  <2>2. pc[p] = "readi" /\ chan[p] = Awake BY DEF ReadEnd, At
  <2> QED BY <1>0, <1>c, <2>1, <2>2
          DEF ReadEnd, Consume, Return, Woken, Awake, IInv, PlacesOK, SizeBound, TypeOK
<1>6. OneHolder'
  <2>1. \A q \in Procs : pc'[q] \notin {"readi", "writei"}
    BY <1>a, <1>c DEF Holders, IInv, SizeBound, TypeOK
  <2> QED BY <1>a, <2>1 DEF ReadEnd, Prele, OneHolder, Holders
<1>7. NoLostWakeup'
  <2>1. \A q \in Procs : chan'[q] # "lock"
    BY <1>0 DEF Consume, Woken, LockWaiters, Awake, IInv, NoLostWakeup
  <2>2. ASSUME NEW q \in Procs, chan'[q] = "data" PROVE iread' /\ file' = <<>> /\ icount' >= 2
    BY <1>0, <1>b, <2>2 DEF ReadEnd, Consume, Woken, Awake, IInv, NoLostWakeup
  <2>3. ASSUME NEW q \in Procs, chan'[q] = "room" PROVE iwrite' /\ Full' /\ icount' >= 2
    BY <1>0, <1>a, <1>b, <2>3 DEF ReadEnd, Consume, Woken, Awake, Full, IInv, NoLostWakeup
  <2> QED BY <2>1, <2>2, <2>3 DEF NoLostWakeup
<1> USE PIPSIZAssumption, CallsAssumption, MsgsAssumption
        DEF IInv, SizeBound, TypeOK, Full, End, Awake, ReadEnd, Consume, Prele, Return, At, Woken,
            LockWaiters, Least
<1>1. RefCounts' BY RefsSame
<1>5. BothOpen' BY DEF BothOpen
<1> QED BY <1>1, <1>2, <1>3, <1>4, <1>5, <1>6, <1>7 DEF IInv

(* writep() after writei.                                                  *)
LEMMA WriteEndKeeps ==
  ASSUME IInv, NEW p \in Procs, WriteEnd(p)
  PROVE  IInv'
<1>0. PICK k \in 0..PIPSIZ : /\ k = Least(Len(msg[p]), PIPSIZ) /\ k \in 0..Len(msg[p])
                             /\ Written(p, k) /\ msg' = [msg EXCEPT ![p] = SubSeq(@, k + 1, Len(@))]
  <2>1. Len(msg[p]) \in Nat BY DEF IInv, DataOK
  <2>2. Least(Len(msg[p]), PIPSIZ) \in 0..PIPSIZ /\ Least(Len(msg[p]), PIPSIZ) \in 0..Len(msg[p])
    BY <2>1, PIPSIZAssumption DEF Least
  <2> QED BY <2>2 DEF WriteEnd
<1>a. /\ \A q \in Holders : q = p
      /\ Len(file) < PIPSIZ /\ upd = FALSE /\ file \in Seq(Bytes) /\ Len(file) \in Nat
  BY PIPSIZAssumption DEF WriteEnd, At, IInv, OneHolder, Holders, DataOK, PlacesOK, SizeBound, TypeOK, Full
<1>b. PICK x \in Seq(Bytes) : Len(x) <= k /\ file' = file \o x BY <1>0, WrittenFacts
<1>c. file' \in Seq(Bytes) /\ Len(file') = Len(file) + Len(x) /\ Len(x) \in Nat
  BY <1>a, <1>b, ConcatProperties
<1>d. /\ err' \in [Procs -> BOOLEAN] /\ (err'[p] => IOErrors)
      /\ \A q \in Procs \ {p} : err'[q] = err[q]
  BY <1>0, WrittenFacts
<1>2. SizeBound'
  <2>1. off' \in 0..Len(file') /\ Len(file') < 2 * PIPSIZ
    BY <1>a, <1>b, <1>c, PIPSIZAssumption DEF WriteEnd, IInv, SizeBound, TypeOK
  <2> QED BY <1>d, <2>1 DEF WriteEnd, Prele, Woken, Awake, IInv, SizeBound, TypeOK
<1>3. DataOK'
  <2>1. \A s \in Seq(Bytes) : \A i \in 1..Len(s) + 1 : SubSeq(s, i, Len(s)) \in Seq(Bytes)
    BY SubSeqProperties
  <2>2. msg' \in [Procs -> Seq(Bytes)] BY <1>0, <2>1 DEF IInv, DataOK
  <2>3. fcount["w"] # 0 BY WhoCounts DEF WriteEnd, At, Uses, IInv, PlacesOK, End
  <2> QED BY <1>c, <2>2, <2>3 DEF WriteEnd, DataOK
<1>4. PlacesOK'
  <2>1. \A q \in Procs : pc'[q] # "writei" BY <1>a DEF WriteEnd, Holders, IInv, SizeBound, TypeOK
  <2>2. \A q \in Procs \ {p} : msg'[q] = msg[q] BY <1>0 DEF IInv, DataOK
  <2> QED BY <1>d, <2>1, <2>2
          DEF WriteEnd, At, Woken, Awake, IInv, PlacesOK, SizeBound, TypeOK
<1> USE PIPSIZAssumption, CallsAssumption, MsgsAssumption
        DEF IInv, SizeBound, TypeOK, Full, End, Awake, WriteEnd, Written, Spoilt, Prele, At, Woken,
            LockWaiters, Least
<1>1. RefCounts' BY RefsSame
<1>5. BothOpen' BY DEF BothOpen
<1>6. OneHolder' BY DEF OneHolder, Holders
<1>7. NoLostWakeup' BY WhoCounts DEF B, Uses, NoLostWakeup, OneHolder, Holders, BothOpen, PlacesOK, DataOK
<1> QED BY <1>1, <1>2, <1>3, <1>4, <1>5, <1>6, <1>7 DEF IInv

(* closef() with the lock.                                                 *)
LEMMA CloseEndKeeps ==
  ASSUME IInv, NEW p \in Procs, CloseEnd(p)
  PROVE  IInv'
<1>1. RefCounts' /\ fcount' \in [End -> 0..Cardinality(Procs)]
  <2>1. pc[p] = "closef" /\ fin[p] \in End /\ fcount[fin[p]] = 1 /\ fin[p] \notin fds[p]
    BY DEF CloseEnd, Brief, At, IInv, PlacesOK, SizeBound, TypeOK
  <2>2. \A x \in End : Users(x)' = IF x = fin[p] THEN Users(x) \ {p} ELSE Users(x)
    BY <2>1 DEF Users, Uses, CloseEnd, IInv, SizeBound, TypeOK
  <2>3. p \in Users(fin[p]) BY <2>1 DEF Users, Uses
  <2>4. \A x \in End : fcount'[x] = Cardinality(Users(x)')
    <3> TAKE x \in End
    <3>1. IsFiniteSet(Users(x)) /\ fcount[x] = Cardinality(Users(x)) BY WhoCounts
    <3>2. x = fin[p] => Cardinality(Users(x) \ {p}) = Cardinality(Users(x)) - 1
      BY <2>3, <3>1, FS_RemoveElement
    <3>3. fcount'[x] = IF x = fin[p] THEN 0 ELSE fcount[x] BY DEF CloseEnd, IInv, SizeBound, TypeOK
    <3> QED BY <2>1, <2>2, <3>1, <3>2, <3>3
  <2>5. fds' \in [Procs -> SUBSET End] BY DEF CloseEnd, IInv, SizeBound, TypeOK
  <2>6. fcount' = [x \in End |-> fcount'[x]] BY DEF CloseEnd, IInv, SizeBound, TypeOK
  <2>7. icount' = B(fcount'["r"]) + B(fcount'["w"]) + (IF upd' THEN 1 ELSE 0)
    BY <2>1, WhoCounts DEF CloseEnd, B, End, IInv, SizeBound, TypeOK
  <2> QED BY <2>4, <2>5, <2>6, <2>7, CountsKept
<1>2. SizeBound'
  <2>1. icount \in 1..3
    BY WhoCounts DEF CloseEnd, Brief, At, B, End, IInv, PlacesOK, SizeBound, TypeOK
  <2>2. off' \in 0..Len(file') /\ Len(file') < 2 * PIPSIZ
    BY PIPSIZAssumption DEF CloseEnd, IInv, SizeBound, TypeOK
  <2>3. icount' \in 0..3 BY <2>1 DEF CloseEnd
  <2>4. chan' \in [Procs -> {Awake, "lock", "data", "room"}]
    BY DEF CloseEnd, Closed, Woken, IInv, SizeBound, TypeOK
  <2>5. pc' \in [Procs -> {"user", "readp", "writep", "closef", "readi", "writei"}]
        /\ fin' \in [Procs -> End]
    BY DEF CloseEnd, IInv, SizeBound, TypeOK, End
  <2> QED BY <1>1, <2>2, <2>3, <2>4, <2>5 DEF CloseEnd, Closed, Brief, Prele, IInv, SizeBound, TypeOK
<1>3. DataOK'
  <2>1. upd = FALSE BY DEF CloseEnd, Brief, IInv, OneHolder, SizeBound, TypeOK
  <2>2. fin[p] \in End /\ fcount[fin[p]] = 1
    BY DEF CloseEnd, Brief, At, IInv, PlacesOK, SizeBound, TypeOK
  <2>3. fcount'["r"] = 0 /\ fcount'["w"] = 0 => icount = 1
    BY <2>1, <2>2, WhoCounts DEF CloseEnd, B, End, IInv, SizeBound, TypeOK
  <2>4. file' = <<>> \/ file' = file BY DEF CloseEnd
  <2>5. file' \in Seq(Bytes)
    <3>1. <<>> \in Seq(Bytes) /\ file \in Seq(Bytes) BY DEF IInv, DataOK
    <3> QED BY <2>4, <3>1
  <2>6. icount = 1 => file' = <<>> BY DEF CloseEnd
  <2> QED BY <2>3, <2>5, <2>6 DEF CloseEnd, IInv, DataOK
<1>4. PlacesOK'
  <2>1. \A q \in Procs : pc[q] # "writei"
    BY DEF CloseEnd, Brief, IInv, OneHolder, Holders
  <2>2. \A q \in Procs \ {p} : pc[q] = "closef" => fin[q] # fin[p]
    BY WhoCounts DEF Uses, CloseEnd, Brief, At, IInv, PlacesOK, SizeBound, TypeOK
  <2> QED BY <2>1, <2>2
          DEF CloseEnd, Closed, Brief, At, Woken, Awake, IInv, PlacesOK, SizeBound, TypeOK
<1> USE PIPSIZAssumption, CallsAssumption, MsgsAssumption
        DEF IInv, SizeBound, TypeOK, Full, End, Awake, CloseEnd, Closed, Brief, Prele, At, Woken,
            LockWaiters
<1>5. BothOpen' BY DEF BothOpen
<1>6. OneHolder' BY DEF OneHolder, Holders
<1>7. NoLostWakeup' BY DEF NoLostWakeup
<1> QED BY <1>1, <1>2, <1>3, <1>4, <1>5, <1>6, <1>7 DEF IInv

(* A signal ends a sleep for data or room.                                 *)
LEMMA SignalKeeps ==
  ASSUME IInv, NEW p \in Procs, Signal(p)
  PROVE  IInv'
<1>1. RefCounts'
  <2>1. pc[p] \in {"readp", "writep"} BY DEF Signal, IInv, PlacesOK
  <2> QED BY <2>1, RefsSame DEF Signal, Return, ivars, IInv, SizeBound, TypeOK
<1> USE PIPSIZAssumption, CallsAssumption, MsgsAssumption
        DEF IInv, SizeBound, TypeOK, Full, End, Awake, Signal, Return, Woken, ivars
<1>2. SizeBound' OBVIOUS
<1>3. DataOK' BY DEF DataOK
<1>4. PlacesOK' BY WhoCounts DEF B, Uses, PlacesOK, DataOK
<1>5. BothOpen' BY DEF BothOpen
<1>6. OneHolder' BY WhoCounts DEF B, Uses, OneHolder, Holders, PlacesOK
<1>7. NoLostWakeup' BY DEF NoLostWakeup
<1> QED BY <1>1, <1>2, <1>3, <1>4, <1>5, <1>6, <1>7 DEF IInv

(* update() takes the inode.                                               *)
LEMMA UpdateStartKeeps ==
  ASSUME IInv, UpdateStart
  PROVE  IInv'
<1>1. RefCounts' /\ fcount' \in [End -> 0..Cardinality(Procs)]
  <2>1. \A x \in End : Users(x)' = Users(x) BY DEF Users, Uses, UpdateStart, calls
  <2>2. fds' \in [Procs -> SUBSET End] /\ fcount' = fcount BY DEF UpdateStart, IInv, SizeBound, TypeOK
  <2>3. fcount' = [x \in End |-> fcount'[x]] BY <2>2 DEF IInv, SizeBound, TypeOK
  <2>4. icount' = B(fcount'["r"]) + B(fcount'["w"]) + (IF upd' THEN 1 ELSE 0)
    BY <2>2, WhoCounts DEF UpdateStart, B, IInv, OneHolder, SizeBound, TypeOK
  <2> QED BY <2>1, <2>2, <2>3, <2>4, WhoCounts, CountsKept
<1>2. SizeBound'
  <2>1. upd = FALSE /\ icount \in 0..2
    BY WhoCounts DEF UpdateStart, B, End, IInv, OneHolder, SizeBound, TypeOK
  <2> QED BY <1>1, <2>1 DEF UpdateStart, calls, IInv, SizeBound, TypeOK
<1> USE PIPSIZAssumption, CallsAssumption, MsgsAssumption
        DEF IInv, SizeBound, TypeOK, Full, End, Awake, UpdateStart, calls
<1>3. DataOK' BY DEF DataOK
<1>4. PlacesOK' BY DEF PlacesOK
<1>5. BothOpen' BY DEF BothOpen
<1>6. OneHolder' BY DEF OneHolder, Holders
<1>7. NoLostWakeup' BY DEF NoLostWakeup
<1> QED BY <1>1, <1>2, <1>3, <1>4, <1>5, <1>6, <1>7 DEF IInv

(* update() gives the inode back.                                          *)
LEMMA UpdateEndKeeps ==
  ASSUME IInv, UpdateEnd
  PROVE  IInv'
<1>1. RefCounts' /\ fcount' \in [End -> 0..Cardinality(Procs)]
  <2>1. \A x \in End : Users(x)' = Users(x) BY DEF Users, Uses, UpdateEnd, calls
  <2>2. fds' \in [Procs -> SUBSET End] /\ fcount' = fcount BY DEF UpdateEnd, IInv, SizeBound, TypeOK
  <2>3. fcount' = [x \in End |-> fcount'[x]] BY <2>2 DEF IInv, SizeBound, TypeOK
  <2>4. icount' = B(fcount'["r"]) + B(fcount'["w"]) + (IF upd' THEN 1 ELSE 0)
    BY <2>2, WhoCounts DEF UpdateEnd, B, IInv, SizeBound, TypeOK
  <2> QED BY <2>1, <2>2, <2>3, <2>4, WhoCounts, CountsKept
<1>2. SizeBound'
  <2>1. icount \in 1..3 BY WhoCounts DEF UpdateEnd, B, End, IInv, SizeBound, TypeOK
  <2>2. icount' \in 0..3 BY <2>1 DEF UpdateEnd
  <2>3. chan' \in [Procs -> {Awake, "lock", "data", "room"}]
    BY DEF UpdateEnd, Woken, IInv, SizeBound, TypeOK
  <2> QED BY <1>1, <2>2, <2>3 DEF UpdateEnd, Prele, calls, IInv, SizeBound, TypeOK
<1> USE PIPSIZAssumption, CallsAssumption, MsgsAssumption
        DEF IInv, SizeBound, TypeOK, Full, End, Awake, UpdateEnd, Prele, Woken, LockWaiters, calls
<1>3. DataOK' BY DEF DataOK
<1>4. PlacesOK' BY DEF PlacesOK
<1>5. BothOpen' BY DEF BothOpen
<1>6. OneHolder' BY DEF OneHolder, Holders
<1>7. NoLostWakeup' BY WhoCounts DEF B, Uses, NoLostWakeup, OneHolder, Holders, BothOpen, PlacesOK, DataOK
<1> QED BY <1>1, <1>2, <1>3, <1>4, <1>5, <1>6, <1>7 DEF IInv

----------------------------------------------------------------------------
(* Before there is a pipe.                                                 *)
LEMMA InitIInv == Init => IInv
<1> SUFFICES ASSUME Init PROVE IInv OBVIOUS
<1>1. Cardinality(Procs) \in Nat BY ProcsAssumption, FS_CardinalityType
<1>2. SizeBound
  <2>1. fcount \in [End -> 0..Cardinality(Procs)] BY <1>1 DEF Init
  <2>2. icount \in 0..3 /\ off \in 0..Len(file) /\ Len(file) < 2 * PIPSIZ BY PIPSIZAssumption DEF Init
  <2>3. cnt \in [Procs -> Counts \cup {0}] BY DEF Init
  <2> QED BY <2>1, <2>2, <2>3 DEF Init, SizeBound, TypeOK, End, Awake
<1>3. DataOK BY DEF Init, DataOK
<1>4. PlacesOK /\ BothOpen /\ NoLostWakeup BY DEF Init, PlacesOK, BothOpen, NoLostWakeup, Awake
<1>5. RefCounts
  <2>1. \A e \in End : {p \in Procs : e \in fds[p] \/ (pc[p] = "closef" /\ fin[p] = e)} = {}
    BY DEF Init
  <2>2. {e \in End : fcount[e] > 0} = {} BY DEF Init
  <2>3. Cardinality({}) = 0 BY FS_EmptySet
  <2>4. upd = FALSE /\ icount = 0 /\ \A e \in End : fcount[e] = 0 BY DEF Init
  <2>5. icount = Cardinality({e \in End : fcount[e] > 0}) + (IF upd THEN 1 ELSE 0) BY <2>2, <2>3, <2>4
  <2>6. \A e \in End :
          fcount[e] = Cardinality({p \in Procs : e \in fds[p] \/ (pc[p] = "closef" /\ fin[p] = e)})
    BY <2>1, <2>3, <2>4
  <2> QED BY <2>5, <2>6 DEF RefCounts
<1>6. OneHolder BY DEF Init, OneHolder, Holders
<1> QED BY <1>2, <1>3, <1>4, <1>5, <1>6 DEF IInv

(* Every step of the kernel keeps the invariant.                           *)
LEMMA NextKeeps == IInv /\ [Next]_vars => IInv'
<1> SUFFICES ASSUME IInv, [Next]_vars PROVE IInv' OBVIOUS
<1>1. ASSUME NEW p \in Procs, Calls(p) PROVE IInv'
  BY <1>1, MakePipeKeeps, ForkKeeps, ReadKeeps, WriteKeeps, CloseSharedKeeps, CloseLastKeeps DEF Calls
<1>2. ASSUME NEW p \in Procs, GetsLock(p) PROVE IInv'
  BY <1>2, ReadEofKeeps, ReadWaitKeeps, ReadStartKeeps, WriteDoneKeeps, WriteEpipeKeeps,
     WriteWaitKeeps, WriteStartKeeps, CloseEndKeeps DEF GetsLock
<1>3. ASSUME NEW p \in Procs, Finishes(p) PROVE IInv'
  BY <1>3, ReadEndKeeps, WriteEndKeeps DEF Finishes
<1>4. ASSUME NEW p \in Procs, PlockSleep(p) \/ Signal(p) PROVE IInv'
  BY <1>4, PlockSleepKeeps, SignalKeeps
<1>5. CASE UpdateStart \/ UpdateEnd BY <1>5, UpdateStartKeeps, UpdateEndKeeps
<1>6. CASE UNCHANGED vars
  <2>1. RefCounts' BY <1>6, RefsSame DEF vars, IInv
  <2>2. SizeBound' /\ DataOK' /\ PlacesOK' BY <1>6 DEF vars, IInv, SizeBound, TypeOK, DataOK, PlacesOK, Full
  <2>3. BothOpen' /\ OneHolder' /\ NoLostWakeup'
    BY <1>6 DEF vars, IInv, BothOpen, OneHolder, Holders, NoLostWakeup, Full
  <2> QED BY <2>1, <2>2, <2>3 DEF IInv
<1> QED BY <1>1, <1>2, <1>3, <1>4, <1>5, <1>6 DEF Next

(* pipe.c, fio.c, iget.c: the invariant of a pipe holds in every state, for *)
(* any processes, messages, counts and PIPSIZ.                             *)
THEOREM PipeInvariant == Spec => []IInv
<1>1. Init => IInv BY InitIInv
<1>2. IInv /\ [Next]_vars => IInv' BY NextKeeps
<1> QED BY <1>1, <1>2, PTL DEF Spec

(* plock: between it and prele nobody else reads, writes or updates the    *)
(* inode of the pipe.                                                      *)
THEOREM PipeOneHolder == Spec => []OneHolder
<1>1. IInv => OneHolder BY DEF IInv
<1> QED BY <1>1, PipeInvariant, PTL

(* readp and writep: nobody sleeps for a reason that is gone, and who      *)
(* sleeps has set the flag by which the other side wakes it.               *)
THEOREM PipeNoLostWakeup == Spec => []NoLostWakeup
<1>1. IInv => NoLostWakeup BY DEF IInv
<1> QED BY <1>1, PipeInvariant, PTL

(* closef, iput and update: f_count and i_count are the numbers of those   *)
(* who have the file and the inode.                                        *)
THEOREM PipeRefCounts == Spec => []RefCounts
<1>1. IInv => RefCounts BY DEF IInv
<1> QED BY <1>1, PipeInvariant, PTL

(* writep: the file of a pipe may pass PIPSIZ bytes, but stays below       *)
(* 2 * PIPSIZ, whatever is written and however the writes are cut; and     *)
(* every variable has its type.                                            *)
THEOREM PipeSizeBound == Spec => []SizeBound
<1>1. IInv => SizeBound BY DEF IInv
<1> QED BY <1>1, PipeInvariant, PTL
----------------------------------------------------------------------------
(* The bytes behind the offset o of a file.                                *)
Rest(s, o) == SubSeq(s, o + 1, Len(s))

(* They are a sequence.                                                    *)
LEMMA RestType ==
  ASSUME NEW S, NEW s \in Seq(S), NEW o \in 0..Len(s)
  PROVE  /\ Rest(s, o) \in Seq(S) /\ Len(Rest(s, o)) = Len(s) - o
         /\ \A i \in 1..(Len(s) - o) : Rest(s, o)[i] = s[o + i]
<1>1. Len(s) \in Nat /\ o \in Nat /\ o <= Len(s) OBVIOUS
<1>2. \A i \in (o + 1)..Len(s) : s[i] \in S OBVIOUS
<1>3. o + 1 \in Int /\ Len(s) \in Int BY <1>1
<1>4. /\ SubSeq(s, o + 1, Len(s)) \in Seq(S)
      /\ Len(SubSeq(s, o + 1, Len(s))) = IF o + 1 <= Len(s) THEN Len(s) - (o + 1) + 1 ELSE 0
      /\ \A i \in 1..(Len(s) - (o + 1) + 1) : SubSeq(s, o + 1, Len(s))[i] = s[(o + 1) + i - 1]
  BY <1>2, <1>3, SubSeqProperties
<1> QED BY <1>1, <1>4 DEF Rest

(* A writer appends to them,                                               *)
LEMMA RestAppend ==
  ASSUME NEW S, NEW s \in Seq(S), NEW t \in Seq(S), NEW o \in 0..Len(s)
  PROVE  Rest(s \o t, o) = Rest(s, o) \o t
<1>1. Len(s) \in Nat /\ Len(t) \in Nat /\ o \in Nat /\ o <= Len(s) OBVIOUS
<1>2. /\ s \o t \in Seq(S) /\ Len(s \o t) = Len(s) + Len(t)
      /\ \A i \in 1..(Len(s) + Len(t)) : (s \o t)[i] = IF i <= Len(s) THEN s[i] ELSE t[i - Len(s)]
  BY ConcatProperties
<1>3. o \in 0..Len(s \o t) BY <1>1, <1>2
<1>4. /\ Rest(s, o) \in Seq(S) /\ Len(Rest(s, o)) = Len(s) - o
      /\ \A i \in 1..(Len(s) - o) : Rest(s, o)[i] = s[o + i]
  BY RestType
<1>5. /\ Rest(s \o t, o) \in Seq(S) /\ Len(Rest(s \o t, o)) = Len(s \o t) - o
      /\ \A i \in 1..(Len(s \o t) - o) : Rest(s \o t, o)[i] = (s \o t)[o + i]
  BY <1>2, <1>3, RestType
<1>6. /\ Rest(s, o) \o t \in Seq(S) /\ Len(Rest(s, o) \o t) = Len(s) - o + Len(t)
      /\ \A i \in 1..(Len(s) - o + Len(t)) :
           (Rest(s, o) \o t)[i] = IF i <= Len(s) - o THEN Rest(s, o)[i] ELSE t[i - (Len(s) - o)]
  <2> DEFINE r == Rest(s, o)
  <2>1. r \in Seq(S) /\ Len(r) = Len(s) - o BY <1>4
  <2> HIDE DEF r
  <2>2. /\ r \o t \in Seq(S) /\ Len(r \o t) = Len(r) + Len(t)
        /\ \A i \in 1..(Len(r) + Len(t)) : (r \o t)[i] = IF i <= Len(r) THEN r[i] ELSE t[i - Len(r)]
    BY <2>1, ConcatProperties
  <2> QED BY <2>1, <2>2 DEF r
<1>7. \A i \in 1..Len(Rest(s \o t, o)) : Rest(s \o t, o)[i] = (Rest(s, o) \o t)[i]
  <2> SUFFICES ASSUME NEW i \in 1..(Len(s) + Len(t) - o)
               PROVE  Rest(s \o t, o)[i] = (Rest(s, o) \o t)[i]
    <3>1. Len(Rest(s \o t, o)) = Len(s) + Len(t) - o BY <1>2, <1>5
    <3> QED BY <3>1
  <2>1. i \in Nat /\ o + i \in 1..(Len(s) + Len(t)) BY <1>1
  <2>2. Rest(s \o t, o)[i] = IF o + i <= Len(s) THEN s[o + i] ELSE t[o + i - Len(s)]
    BY <1>1, <1>2, <1>5, <2>1
  <2>3. (Rest(s, o) \o t)[i] = IF i <= Len(s) - o THEN s[o + i] ELSE t[i - (Len(s) - o)]
    BY <1>1, <1>4, <1>6, <2>1
  <2>4. (o + i <= Len(s)) = (i <= Len(s) - o) /\ o + i - Len(s) = i - (Len(s) - o) BY <1>1, <2>1
  <2> QED BY <2>2, <2>3, <2>4
<1>8. Len(Rest(s \o t, o)) = Len(Rest(s, o) \o t) BY <1>1, <1>2, <1>5, <1>6
<1> QED BY <1>5, <1>6, <1>7, <1>8, SeqEqual

(* and a reader takes from their front.                                    *)
LEMMA RestTake ==
  ASSUME NEW S, NEW s \in Seq(S), NEW o \in 0..Len(s), NEW k \in 0..(Len(s) - o)
  PROVE  /\ SubSeq(Rest(s, o), 1, k) = SubSeq(s, o + 1, o + k)
         /\ Rest(Rest(s, o), k) = Rest(s, o + k)
<1>1. Len(s) \in Nat /\ o \in Nat /\ k \in Nat /\ o + k <= Len(s) /\ o + k \in 0..Len(s) OBVIOUS
<1>2. /\ Rest(s, o) \in Seq(S) /\ Len(Rest(s, o)) = Len(s) - o
      /\ \A i \in 1..(Len(s) - o) : Rest(s, o)[i] = s[o + i]
  BY RestType
<1>3. SubSeq(Rest(s, o), 1, k) = SubSeq(s, o + 1, o + k)
  <2>1. /\ SubSeq(Rest(s, o), 1, k) \in Seq(S)
        /\ Len(SubSeq(Rest(s, o), 1, k)) = IF 1 <= k THEN k - 1 + 1 ELSE 0
        /\ \A i \in 1..(k - 1 + 1) : SubSeq(Rest(s, o), 1, k)[i] = Rest(s, o)[1 + i - 1]
    <3>1. 1 \in Int /\ k \in Int /\ \A i \in 1..k : Rest(s, o)[i] \in S BY <1>1, <1>2
    <3> QED BY <3>1, SubSeqProperties
  <2>2. /\ SubSeq(s, o + 1, o + k) \in Seq(S)
        /\ Len(SubSeq(s, o + 1, o + k)) = IF o + 1 <= o + k THEN (o + k) - (o + 1) + 1 ELSE 0
        /\ \A i \in 1..((o + k) - (o + 1) + 1) : SubSeq(s, o + 1, o + k)[i] = s[(o + 1) + i - 1]
    <3>1. o + 1 \in Int /\ o + k \in Int /\ \A i \in (o + 1)..(o + k) : s[i] \in S BY <1>1
    <3> QED BY <3>1, SubSeqProperties
  <2>3. Len(SubSeq(Rest(s, o), 1, k)) = Len(SubSeq(s, o + 1, o + k)) BY <1>1, <2>1, <2>2
  <2>4. \A i \in 1..Len(SubSeq(Rest(s, o), 1, k)) :
          SubSeq(Rest(s, o), 1, k)[i] = SubSeq(s, o + 1, o + k)[i]
    <3> SUFFICES ASSUME NEW i \in 1..k
                 PROVE  SubSeq(Rest(s, o), 1, k)[i] = SubSeq(s, o + 1, o + k)[i]
      BY <1>1, <2>1
    <3>1. i \in Nat /\ i \in 1..(Len(s) - o) /\ 1 + i - 1 = i /\ (o + 1) + i - 1 = o + i
          /\ i \in 1..(k - 1 + 1) /\ i \in 1..((o + k) - (o + 1) + 1)
      BY <1>1
    <3> QED BY <1>2, <2>1, <2>2, <3>1
  <2> QED BY <2>1, <2>2, <2>3, <2>4, SeqEqual
<1>4. Rest(Rest(s, o), k) = Rest(s, o + k)
  <2>1. k \in 0..Len(Rest(s, o)) BY <1>1, <1>2
  <2>2. /\ Rest(Rest(s, o), k) \in Seq(S) /\ Len(Rest(Rest(s, o), k)) = Len(s) - o - k
        /\ \A i \in 1..(Len(s) - o - k) : Rest(Rest(s, o), k)[i] = Rest(s, o)[k + i]
    BY <1>2, <2>1, RestType
  <2>3. /\ Rest(s, o + k) \in Seq(S) /\ Len(Rest(s, o + k)) = Len(s) - (o + k)
        /\ \A i \in 1..(Len(s) - (o + k)) : Rest(s, o + k)[i] = s[o + k + i]
    BY <1>1, RestType
  <2>4. Len(Rest(Rest(s, o), k)) = Len(Rest(s, o + k))
    <3>1. Len(s) - o - k = Len(s) - (o + k) BY <1>1
    <3> QED BY <2>2, <2>3, <3>1, Zenon
  <2>5. \A i \in 1..Len(Rest(Rest(s, o), k)) : Rest(Rest(s, o), k)[i] = Rest(s, o + k)[i]
    <3> SUFFICES ASSUME NEW i \in 1..(Len(s) - o - k)
                 PROVE  Rest(Rest(s, o), k)[i] = Rest(s, o + k)[i]
      BY <2>2
    <3>1. i \in Nat /\ k + i \in 1..(Len(s) - o) /\ i \in 1..(Len(s) - (o + k)) /\ o + (k + i) = o + k + i
      BY <1>1
    <3> QED BY <1>2, <2>2, <2>3, <3>1
  <2> QED BY <2>2, <2>3, <2>4, <2>5, SeqEqual
<1> QED BY <1>3, <1>4

(* Nothing is left behind the last byte.                                   *)
LEMMA RestEmpty ==
  ASSUME NEW S, NEW s \in Seq(S)
  PROVE  Rest(s, Len(s)) = <<>> /\ Rest(<<>>, 0) = <<>>
<1>1. Len(s) + 1 \in Int /\ Len(s) \in Int /\ Len(s) < Len(s) + 1 OBVIOUS
<1>2. Len(<<>>) = 0 OBVIOUS
<1>3. 0 + 1 \in Int /\ 0 \in Int /\ 0 < 0 + 1 OBVIOUS
<1> QED BY <1>1, <1>2, <1>3, SubSeqEmpty DEF Rest

(* The queue, and what its parts are.                                      *)
LEMMA QueueFacts ==
  ASSUME IInv
  PROVE  /\ file \in Seq(Bytes) /\ Len(file) \in Nat /\ off \in 0..Len(file)
         /\ Rest(file, off) \in Seq(Bytes) /\ Len(Rest(file, off)) = Len(file) - off
         /\ file = <<>> => Rest(file, off) = <<>> /\ off = 0
<1>1. file \in Seq(Bytes) /\ Len(file) \in Nat BY DEF IInv, DataOK
<1>2. off \in 0..Len(file) BY DEF IInv, SizeBound, TypeOK
<1>3. Rest(file, off) \in Seq(Bytes) /\ Len(Rest(file, off)) = Len(file) - off BY <1>1, <1>2, RestType
<1>4. ASSUME file = <<>> PROVE Rest(file, off) = <<>> /\ off = 0
  <2>1. Len(file) = 0 BY <1>4
  <2>2. off = 0 BY <1>2, <2>1
  <2>3. Rest(<<>>, 0) = <<>> BY <1>1, RestEmpty
  <2> QED BY <1>4, <2>2, <2>3
<1> QED BY <1>1, <1>2, <1>3, <1>4

(* What the users of a pipe see.                                           *)
avars == <<Rest(file, off), fds, msg, err, result>>

(* The steps nobody sees.                                                  *)
LEMMA Unseen ==
  ASSUME UNCHANGED <<file, off, fds, msg, err, result>>
  PROVE  UNCHANGED avars
BY DEF avars, Rest

(* Opening and closing.                                                    *)
LEMMA EndsStep ==
  ASSUME IInv, NEW p \in Procs, Calls(p)
  PROVE  Abstract!FNext \/ UNCHANGED avars
<1>1. CASE MakePipe(p)
  <2>1. \A e \in End : ~Uses(p, e) /\ fcount[e] = 0
    BY <1>1, WhoCounts DEF MakePipe, B, End, IInv, SizeBound, TypeOK
  <2>2. fds[p] # End BY <2>1 DEF Uses, End
  <2>3. fds' \in [Procs -> SUBSET {"r", "w"}] /\ fds' # fds
    BY <1>1, <2>2 DEF MakePipe, End, IInv, SizeBound, TypeOK
  <2>4. file = <<>> BY <2>1 DEF IInv, DataOK, End
  <2>5. off = 0 /\ file' = file /\ off' = off BY <1>1, <2>4, QueueFacts DEF MakePipe
  <2>6. Abstract!Ends BY <1>1, <2>3, <2>5 DEF Abstract!Ends, MakePipe, calls
  <2> QED BY <2>6 DEF Abstract!FNext
<1>2. ASSUME NEW q \in Procs, Fork(p, q) PROVE Abstract!FNext
  <2>1. fds' \in [Procs -> SUBSET {"r", "w"}] /\ fds' # fds
    BY <1>2 DEF Fork, End, IInv, SizeBound, TypeOK
  <2>2. Abstract!Ends BY <1>2, <2>1 DEF Abstract!Ends, Fork, calls
  <2> QED BY <2>2 DEF Abstract!FNext
<1>3. ASSUME NEW n \in Counts, Read(p, n) PROVE UNCHANGED avars
  BY <1>3, Unseen DEF Read, Call, ivars
<1>4. ASSUME NEW m \in Msgs, Write(p, m) PROVE Abstract!FNext
  <2>1. msg[p] = <<>> BY <1>4 DEF Write, Call, At, IInv, PlacesOK
  <2>2. Abstract!Begin(p, m) BY <1>4, <2>1 DEF Abstract!Begin, Write, Call, ivars
  <2> QED BY <2>2 DEF Abstract!FNext
<1>5. ASSUME NEW e \in End, CloseShared(p, e) \/ CloseLast(p, e) PROVE Abstract!FNext
  <2>1. fds' \in [Procs -> SUBSET {"r", "w"}] /\ fds' # fds
    BY <1>5 DEF CloseShared, CloseLast, End, IInv, SizeBound, TypeOK
  <2>2. UNCHANGED <<file, off, msg, err, result>>
    BY <1>5 DEF CloseShared, CloseLast, Call, calls, ivars
  <2>3. Abstract!Ends BY <2>1, <2>2 DEF Abstract!Ends
  <2> QED BY <2>3 DEF Abstract!FNext
<1> QED BY <1>1, <1>2, <1>3, <1>4, <1>5 DEF Calls

(* A call returns, and has or has not written all it was given.            *)
LEMMA ReturnsStep ==
  ASSUME NEW p \in Procs, NEW r, Return(p, r), UNCHANGED fds
  PROVE  Abstract!Returns(p, r) /\ msg' = [msg EXCEPT ![p] = <<>>]
BY DEF Return, Abstract!Returns

(* Nothing to change in what is empty.                                     *)
LEMMA NoMessage ==
  ASSUME IInv, NEW p \in Procs, msg[p] = <<>>
  PROVE  [msg EXCEPT ![p] = <<>>] = msg
BY DEF IInv, DataOK

(* Calls that end, wait or go on without touching the bytes.               *)
LEMMA BriefStep ==
  ASSUME IInv, NEW p \in Procs,
         \/ ReadEof(p) \/ ReadWait(p) \/ ReadStart(p)
         \/ WriteDone(p) \/ WriteEpipe(p) \/ WriteWait(p) \/ WriteStart(p)
  PROVE  Abstract!FNext \/ UNCHANGED avars
<1>1. CASE ReadWait(p) \/ ReadStart(p) \/ WriteWait(p) \/ WriteStart(p)
  BY <1>1, Unseen DEF ReadWait, ReadStart, WriteWait, WriteStart, Long, calls
<1>2. CASE ReadEof(p)
  <2>1. pc[p] = "readp" /\ "r" \in fds[p] /\ msg[p] = <<>> BY <1>2 DEF ReadEof, Brief, At, IInv, PlacesOK
  <2>2. upd = FALSE BY <1>2 DEF ReadEof, Brief, IInv, OneHolder, SizeBound, TypeOK
  <2>3. fcount["r"] # 0 BY <2>1, WhoCounts DEF Uses, End
  <2>4. fcount["w"] = 0 BY <1>2, <2>2, <2>3, WhoCounts DEF ReadEof, B, End
  <2>5. Abstract!NoneHas("w") BY <2>4, WhoCounts DEF Abstract!NoneHas, Uses, End
  <2>6. Abstract!Returns(p, <<"eof">>) /\ msg' = msg
    BY <1>2, <2>1, ReturnsStep, NoMessage DEF ReadEof
  <2>7. Rest(file, off) = <<>> BY <1>2, QueueFacts DEF ReadEof
  <2>8. Abstract!Eof(p) BY <1>2, <2>5, <2>6, <2>7 DEF Abstract!Eof, ReadEof, Rest
  <2> QED BY <2>8 DEF Abstract!FNext
<1>3. CASE WriteDone(p)
  <2>1. msg[p] = <<>> BY <1>3 DEF WriteDone
  <2>2. Abstract!Returns(p, IF err[p] THEN <<"error">> ELSE <<"written">>) /\ msg' = msg
    BY <1>3, <2>1, ReturnsStep, NoMessage DEF WriteDone
  <2>3. Abstract!Done(p) BY <1>3, <2>1, <2>2 DEF Abstract!Done, WriteDone
  <2> QED BY <2>3 DEF Abstract!FNext
<1>4. CASE WriteEpipe(p)
  <2>1. pc[p] = "writep" /\ "w" \in fds[p] BY <1>4 DEF WriteEpipe, Brief, At, IInv, PlacesOK
  <2>2. upd = FALSE BY <1>4 DEF WriteEpipe, Brief, IInv, OneHolder, SizeBound, TypeOK
  <2>3. fcount["w"] # 0 BY <2>1, WhoCounts DEF Uses, End
  <2>4. fcount["r"] = 0 BY <1>4, <2>2, <2>3, WhoCounts DEF WriteEpipe, B, End
  <2>5. Abstract!NoneHas("r") BY <2>4, WhoCounts DEF Abstract!NoneHas, Uses, End
  <2>6. Abstract!Returns(p, <<"EPIPE">>) /\ msg' = [msg EXCEPT ![p] = <<>>]
    BY <1>4, ReturnsStep DEF WriteEpipe
  <2>7. Abstract!Epipe(p) BY <1>4, <2>5, <2>6 DEF Abstract!Epipe, WriteEpipe
  <2> QED BY <2>7 DEF Abstract!FNext
<1> QED BY <1>1, <1>2, <1>3, <1>4

(* A signal.                                                               *)
LEMMA SignalStep ==
  ASSUME IInv, NEW p \in Procs, Signal(p)
  PROVE  Abstract!FNext
<1>1. Abstract!Returns(p, <<"EINTR">>) /\ msg' = [msg EXCEPT ![p] = <<>>] BY ReturnsStep DEF Signal
<1>2. Abstract!Interrupted(p) BY <1>1 DEF Abstract!Interrupted, Signal, ivars
<1> QED BY <1>2 DEF Abstract!FNext

(* closef and iput: with the last end the bytes go.                        *)
LEMMA CloseStep ==
  ASSUME IInv, NEW p \in Procs, CloseEnd(p)
  PROVE  Abstract!FNext \/ UNCHANGED avars
<1>1. CASE icount # 1
  BY <1>1, Unseen DEF CloseEnd
<1>2. CASE icount = 1
  <2>1. upd = FALSE BY DEF CloseEnd, Brief, IInv, OneHolder, SizeBound, TypeOK
  <2>2. pc[p] = "closef" /\ fin[p] \in End /\ fcount[fin[p]] = 1 /\ fin[p] \notin fds[p]
    BY DEF CloseEnd, Brief, At, IInv, PlacesOK, SizeBound, TypeOK
  <2>3. \A e \in End \ {fin[p]} : fcount[e] = 0 BY <1>2, <2>1, <2>2, WhoCounts DEF B, End
  <2>4. \A e \in End, q \in Procs : e \notin fds[q]
    <3> TAKE e \in End, q \in Procs
    <3>1. CASE e = fin[p]
      <4>1. Uses(p, e) BY <2>2, <3>1 DEF Uses
      <4>2. Uses(q, e) => q = p BY <2>2, <3>1, <4>1, WhoCounts
      <4> QED BY <2>2, <3>1, <4>2 DEF Uses
    <3>2. CASE e # fin[p] BY <2>3, <3>2, WhoCounts DEF Uses
    <3> QED BY <3>1, <3>2
  <2>5. Abstract!NoneHas("r") /\ Abstract!NoneHas("w") BY <2>4 DEF Abstract!NoneHas, End
  <2>6. file' = <<>> /\ off' = 0 BY <1>2 DEF CloseEnd
  <2>7. Rest(file, off)' = <<>> BY <2>6, QueueFacts, RestEmpty DEF Rest
  <2>8. Abstract!Discard BY <2>5, <2>7 DEF Abstract!Discard, CloseEnd, Rest
  <2> QED BY <2>8 DEF Abstract!FNext
<1> QED BY <1>1, <1>2

(* readp takes the first bytes of the queue, or loses them when readi      *)
(* fails on the way.                                                       *)
LEMMA ConsumeStep ==
  ASSUME IInv, NEW k \in 0..(Len(file) - off), Consume(k)
  PROVE  Rest(file, off)' = Rest(Rest(file, off), k)
<1>1. Rest(Rest(file, off), k) = Rest(file, off + k) BY QueueFacts, RestTake
<1>2. CASE off + k = Len(file)
  <2>1. file' = <<>> /\ off' = 0 BY <1>2 DEF Consume
  <2>2. Rest(file, off)' = <<>> BY <2>1, QueueFacts, RestEmpty DEF Rest
  <2>3. Rest(file, off + k) = <<>> BY <1>2, QueueFacts, RestEmpty
  <2> QED BY <1>1, <2>2, <2>3
<1>3. CASE off + k # Len(file)
  <2>1. file' = file /\ off' = off + k BY <1>3 DEF Consume
  <2> QED BY <1>1, <2>1 DEF Rest
<1> QED BY <1>2, <1>3

(* The whole of a read.                                                    *)
LEMMA ReadStep ==
  ASSUME IInv, NEW p \in Procs, ReadEnd(p)
  PROVE  Abstract!FNext
<1> DEFINE k == Least(cnt[p], Len(file) - off)
<1>1. k \in 0..(Len(file) - off) /\ k \in 0..Len(Rest(file, off))
  <2>1. cnt[p] \in Counts \cup {0} BY DEF IInv, SizeBound, TypeOK
  <2>2. Counts \subseteq Nat BY CallsAssumption
  <2>3. 0 \in Nat OBVIOUS
  <2>4. cnt[p] \in Nat BY <2>1, <2>2, <2>3, Zenon
  <2> QED BY <2>4, QueueFacts DEF Least
<1>2. msg[p] = <<>> BY DEF ReadEnd, At, IInv, PlacesOK
<1>3. UNCHANGED fds BY DEF ReadEnd
<1>4. \/ Consume(k) /\ Return(p, <<"read", SubSeq(file, off + 1, off + k)>>)
      \/ IOErrors /\ (\E j \in 0..k : Consume(j)) /\ Return(p, <<"error">>)
  BY DEF ReadEnd
<1> HIDE DEF k
<1>5. CASE Consume(k) /\ Return(p, <<"read", SubSeq(file, off + 1, off + k)>>)
  <2>1. SubSeq(Rest(file, off), 1, k) = SubSeq(file, off + 1, off + k) BY <1>1, QueueFacts, RestTake
  <2>2. Rest(file, off)' = Rest(Rest(file, off), k) BY <1>1, <1>5, ConsumeStep
  <2>3. Abstract!Returns(p, <<"read", SubSeq(file, off + 1, off + k)>>) /\ msg' = msg
    BY <1>2, <1>3, <1>5, ReturnsStep, NoMessage
  <2>4. Abstract!Get(p) BY <1>1, <2>1, <2>2, <2>3 DEF Abstract!Get, Rest
  <2> QED BY <2>4 DEF Abstract!FNext
<1>6. CASE IOErrors /\ (\E j \in 0..k : Consume(j)) /\ Return(p, <<"error">>)
  <2>1. PICK j \in 0..k : Consume(j) BY <1>6
  <2>2. j \in 0..(Len(file) - off) /\ j \in 0..Len(Rest(file, off)) BY <1>1, QueueFacts
  <2>3. Rest(file, off)' = Rest(Rest(file, off), j) BY <2>1, <2>2, ConsumeStep
  <2>4. Abstract!Returns(p, <<"error">>) /\ msg' = msg BY <1>2, <1>3, <1>6, ReturnsStep, NoMessage
  <2>5. Abstract!GetFails(p) BY <1>6, <2>2, <2>3, <2>4 DEF Abstract!GetFails, Rest
  <2> QED BY <2>5 DEF Abstract!FNext
<1> QED BY <1>4, <1>5, <1>6

(* writep appends a piece, or what is left of one.                         *)
LEMMA WriteStep ==
  ASSUME IInv, NEW p \in Procs, WriteEnd(p)
  PROVE  Abstract!FNext
<1> DEFINE k == Least(Len(msg[p]), PIPSIZ)
           q == Rest(file, off)
           Part(j) == SubSeq(msg[p], 1, j)
<1>1. msg[p] \in Seq(Bytes) /\ msg[p] # <<>> /\ Len(msg[p]) \in Nat \ {0}
  BY DEF WriteEnd, At, IInv, PlacesOK, DataOK
<1>2. k \in Nat /\ k > 0 /\ k <= Len(msg[p]) BY <1>1, PIPSIZAssumption DEF Least
<1>3. q \in Seq(Bytes) /\ file \in Seq(Bytes) /\ off \in 0..Len(file) BY QueueFacts
<1>4. k = Abstract!Least(Len(msg[p]), PIPSIZ) BY DEF Least, Abstract!Least
<1>5. Written(p, k) /\ msg' = [msg EXCEPT ![p] = SubSeq(@, k + 1, Len(@))] /\ UNCHANGED <<off, fds, result>>
  BY DEF WriteEnd
<1>6. err \in [Procs -> BOOLEAN] /\ (err[p] => IOErrors) BY DEF IInv, SizeBound, TypeOK, PlacesOK
<1> HIDE DEF k
<1>7. ASSUME NEW x \in Seq(Bytes), file' = file \o x PROVE Rest(file, off)' = q \o x
  <2>1. Rest(file \o x, off) = q \o x BY <1>3, RestAppend
  <2> QED BY <1>5, <1>7, <2>1 DEF Rest
<1>8. \A j \in 0..k : Part(j) \in Seq(Bytes) /\ Len(Part(j)) = j
  <2>1. \A j \in 0..k : j \in 0..Len(msg[p]) BY <1>1, <1>2
  <2> QED BY <1>1, <2>1, PrefixSeq
<1>9. \A n \in Nat : Spoilt(n) \in Seq(Bytes) BY SpoiltSeq
<1>10. q \o <<>> = q /\ Part(0) = <<>> /\ Spoilt(0) = <<>>
  <2>1. Len(Part(0)) = 0 /\ Len(Spoilt(0)) = 0 /\ Part(0) \in Seq(Bytes) /\ Spoilt(0) \in Seq(Bytes)
    BY <1>2, <1>8, SpoiltSeq
  <2>2. q \o <<>> = q BY <1>3, ConcatEmptySeq
  <2>3. Part(0) = <<>> BY <2>1, EmptySeq
  <2>4. Spoilt(0) = <<>> BY <2>1, EmptySeq
  <2> QED BY <2>2, <2>3, <2>4
<1>11. \/ ~err[p] /\ Rest(file, off)' = q \o Part(k) /\ UNCHANGED err
       \/ /\ IOErrors /\ err' = [err EXCEPT ![p] = TRUE]
          /\ \E j \in 0..k : \E n \in 0..(k - j) : Rest(file, off)' = q \o Part(j) \o Spoilt(n)
  <2>1. CASE ~err[p] /\ file' = file \o Part(k) /\ UNCHANGED err
    <3>1. Part(k) \in Seq(Bytes) BY <1>2, <1>8
    <3>2. Rest(file, off)' = q \o Part(k) BY <1>7, <2>1, <3>1
    <3> QED BY <2>1, <3>2
  <2>2. CASE /\ IOErrors /\ ~err[p] /\ err' = [err EXCEPT ![p] = TRUE]
             /\ \E j \in 0..(k - 1) : \E n \in 0..(k - j) : file' = file \o Part(j) \o Spoilt(n)
    <3>a. PICK j \in 0..(k - 1) : \E n \in 0..(k - j) : file' = file \o Part(j) \o Spoilt(n) BY <2>2
    <3>1. PICK n \in 0..(k - j) : file' = file \o Part(j) \o Spoilt(n) BY <3>a
    <3>2. j \in 0..k /\ n \in Nat BY <1>2
    <3>3. Part(j) \in Seq(Bytes) /\ Spoilt(n) \in Seq(Bytes) BY <1>8, <1>9, <3>2
    <3>4. \A f, g, h \in Seq(Bytes) : f \o g \o h = f \o (g \o h) BY ConcatAssociative
    <3>5. \A f, g \in Seq(Bytes) : f \o g \in Seq(Bytes) BY ConcatProperties
    <3> HIDE DEF Part, q
    <3>6. Part(j) \o Spoilt(n) \in Seq(Bytes) BY <3>3, <3>5
    <3>7. file' = file \o (Part(j) \o Spoilt(n)) BY <1>3, <3>1, <3>3, <3>4, Zenon
    <3>8. Rest(file, off)' = q \o (Part(j) \o Spoilt(n)) BY <1>7, <3>6, <3>7
    <3>9. Rest(file, off)' = q \o Part(j) \o Spoilt(n) BY <1>3, <3>3, <3>4, <3>8, Zenon
    <3> QED BY <2>2, <3>2, <3>9
  <2>3. CASE /\ err[p] /\ UNCHANGED err
             /\ \E j \in 0..k : file' \in {file \o Part(j), file \o Spoilt(j)}
    <3>1. PICK j \in 0..k : file' = file \o Part(j) \/ file' = file \o Spoilt(j) BY <2>3
    <3>2. j \in Nat /\ 0 \in 0..k /\ 0 \in 0..(k - j) /\ j \in 0..(k - 0) BY <1>2
    <3>3. err' = [err EXCEPT ![p] = TRUE] BY <1>6, <2>3
    <3>4. CASE file' = file \o Part(j)
      <4>1. Rest(file, off)' = q \o Part(j) /\ q \o Part(j) \in Seq(Bytes)
        <5>1. Part(j) \in Seq(Bytes) BY <1>8
        <5> QED BY <1>3, <1>7, <3>4, <5>1, ConcatProperties
      <4>2. Rest(file, off)' = q \o Part(j) \o Spoilt(0) BY <1>10, <4>1, ConcatEmptySeq
      <4> QED BY <1>6, <2>3, <3>2, <3>3, <4>2
    <3>5. CASE file' = file \o Spoilt(j)
      <4>1. Rest(file, off)' = q \o Spoilt(j) BY <1>7, <1>9, <3>2, <3>5
      <4>2. Rest(file, off)' = q \o Part(0) \o Spoilt(j) BY <1>10, <4>1
      <4> QED BY <1>6, <2>3, <3>2, <3>3, <4>2
    <3> QED BY <3>1, <3>4, <3>5
  <2> QED BY <1>5, <2>1, <2>2, <2>3 DEF Written
<1>12. Abstract!Put(p) BY <1>2, <1>4, <1>5, <1>11 DEF Abstract!Put, Spoilt, Rest
<1> QED BY <1>12 DEF Abstract!FNext

(* Pipes are queues of bytes: what is read is what was written, in order,  *)
(* each byte once and no piece mixed with another; a read finds the end of *)
(* the file only when nothing is left and nobody can write, a write fails  *)
(* with EPIPE only when nobody can read; and a failing file system spoils  *)
(* no more than the pieces it failed on.                                   *)
THEOREM PipeImplementsFifo == Spec => ImplementsFifo
<1>1. Init => Abstract!FInit
  <2> SUFFICES ASSUME Init PROVE Abstract!FInit OBVIOUS
  <2>1. <<>> \in Seq(Bytes) OBVIOUS
  <2>2. Rest(<<>>, 0) = <<>> BY <2>1, RestEmpty
  <2> QED BY <2>2 DEF Init, Abstract!FInit, Rest
<1>2. IInv /\ [Next]_vars => Abstract!FNext \/ UNCHANGED avars
  <2> SUFFICES ASSUME IInv, [Next]_vars PROVE Abstract!FNext \/ UNCHANGED avars OBVIOUS
  <2>1. ASSUME NEW p \in Procs, Calls(p) PROVE Abstract!FNext \/ UNCHANGED avars BY <2>1, EndsStep
  <2>2. ASSUME NEW p \in Procs, GetsLock(p) PROVE Abstract!FNext \/ UNCHANGED avars
    BY <2>2, BriefStep, CloseStep DEF GetsLock
  <2>3. ASSUME NEW p \in Procs, Finishes(p) PROVE Abstract!FNext \/ UNCHANGED avars
    BY <2>3, ReadStep, WriteStep DEF Finishes
  <2>4. ASSUME NEW p \in Procs, PlockSleep(p) PROVE UNCHANGED avars BY <2>4, Unseen DEF PlockSleep, calls
  <2>5. ASSUME NEW p \in Procs, Signal(p) PROVE Abstract!FNext BY <2>5, SignalStep
  <2>6. CASE UpdateStart \/ UpdateEnd \/ UNCHANGED vars
    BY <2>6, Unseen DEF UpdateStart, UpdateEnd, vars, calls
  <2> QED BY <2>1, <2>2, <2>3, <2>4, <2>5, <2>6 DEF Next
<1>3. (Abstract!FNext \/ UNCHANGED avars) =>
        [Abstract!FNext]_<<SubSeq(file, off + 1, Len(file)), fds, msg, err, result>>
  BY DEF avars, Rest
<1>4. Spec => []IInv BY PipeInvariant
<1> QED BY <1>1, <1>2, <1>3, <1>4, PTL DEF Spec, ImplementsFifo, Abstract!FSpec
=============================================================================
