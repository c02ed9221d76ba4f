-------------------------------- MODULE Pipe --------------------------------
(***************************************************************************)
(* Pipes: usr/sys/sys/pipe.c, with the parts of closef (fio.c), iput       *)
(* (iget.c), fork (slp.c newproc) and update (alloc.c) that touch the      *)
(* inode of a pipe.                                                        *)
(*                                                                         *)
(* The kernel is not preemptive: a process loses the processor only where  *)
(* it sleeps, in plock, for data or for room, and inside readi, writei and *)
(* iupdat, which wait for the disk.  An action is the code between two     *)
(* such points.  A sleep for data or room is at PPIPE > PZERO, so a signal *)
(* may end it; it leaves the call by the non-local goto to u_qsav.         *)
(***************************************************************************)
EXTENDS Naturals, Sequences, FiniteSets

CONSTANTS
  Procs,
  PIPSIZ,    \* a pipe with this many bytes in it is full
  Msgs,      \* what processes write, a set of sequences of bytes
  Counts,    \* how much they ask to read
  IOErrors   \* whether readi and writei can fail

ASSUME PIPSIZAssumption == PIPSIZ \in Nat \ {0}
ASSUME ProcsAssumption == IsFiniteSet(Procs)
ASSUME CallsAssumption == Counts \subseteq Nat /\ IOErrors \in BOOLEAN

(* What can be in the file: what is written, and what a disk may make of   *)
(* it.                                                                     *)
Junk == "junk"
Bytes == {Junk} \cup UNION {{m[i] : i \in DOMAIN m} : m \in Msgs}

ASSUME MsgsAssumption == Msgs \subseteq Seq(Bytes)

VARIABLES
  icount,   \* i_count, 0 when there is no pipe
  fcount,   \* f_count of the file of each end
  ilock, iwant,   \* ILOCK and IWANT in i_flag
  iread, iwrite,  \* IREAD and IWRITE in i_mode: somebody waits for data, for room
  file,     \* the bytes of the inode; i_size is its length
  off,      \* f_offset of the read end
  upd,      \* update() holds the lock
  fds,      \* the ends each process has open
  pc,       \* where each process is
  cnt,      \* u_count of its read
  msg,      \* what is left to write of its write
  fin,      \* the end it is closing
  err,      \* u_error # 0 in its write
  chan,     \* what it sleeps on
  result    \* which process returned from a call last, and with what

ivars == <<icount, fcount, ilock, iwant, iread, iwrite, file, off>>
vars == <<icount, fcount, ilock, iwant, iread, iwrite, file, off,
          upd, fds, pc, cnt, msg, fin, err, chan, result>>
calls == <<pc, cnt, msg, fin, err, result>>

End == {"r", "w"}
Awake == "awake"

Init ==
  /\ icount = 0 /\ fcount = [e \in End |-> 0]
  /\ ilock = FALSE /\ iwant = FALSE /\ iread = FALSE /\ iwrite = FALSE
  /\ file = <<>> /\ off = 0
  /\ fds = [p \in Procs |-> {}] /\ pc = [p \in Procs |-> "user"]
  /\ upd = FALSE /\ cnt = [p \in Procs |-> 0] /\ msg = [p \in Procs |-> <<>>]
  /\ fin = [p \in Procs |-> "r"] /\ err = [p \in Procs |-> FALSE]
  /\ chan = [p \in Procs |-> Awake] /\ result = <<>>

At(p, l) == pc[p] = l /\ chan[p] = Awake

(* wakeup on the channels in cs.                                           *)
Woken(cs) == [q \in Procs |-> IF chan[q] \in cs THEN Awake ELSE chan[q]]

(* The channel prele wakes, if anybody waits for the lock.                 *)
LockWaiters == IF iwant THEN {"lock"} ELSE {}

Prele == ilock' = FALSE /\ iwant' = FALSE

Return(p, r) ==
  /\ pc' = [pc EXCEPT ![p] = "user"] /\ result' = <<p>> \o r
  /\ cnt' = [cnt EXCEPT ![p] = 0] /\ msg' = [msg EXCEPT ![p] = <<>>]
  /\ err' = [err EXCEPT ![p] = FALSE] /\ UNCHANGED fin

----------------------------------------------------------------------------
(* pipe(): ialloc returns a locked inode, and the assignment to i_flag     *)
(* unlocks it.  A failure of ialloc or falloc leaves no pipe behind.       *)
MakePipe(p) ==
  /\ At(p, "user") /\ icount = 0
  /\ icount' = 2 /\ fcount' = [e \in End |-> 1]
  /\ ilock' = FALSE /\ iwant' = FALSE /\ iread' = FALSE /\ iwrite' = FALSE
  /\ file' = <<>> /\ off' = 0
  /\ fds' = [fds EXCEPT ![p] = End]
  /\ UNCHANGED <<upd, chan>> /\ UNCHANGED calls

(* Mutant: does not count the child's reference to the open files.         *)
Fork_NoCount(p, q) ==
  /\ At(p, "user") /\ At(q, "user") /\ fds[p] # {} /\ fds[q] = {}
  /\ fds' = [fds EXCEPT ![q] = fds[p]]
  /\ UNCHANGED <<icount, fcount, ilock, iwant, iread, iwrite, file, off, upd, chan>>
  /\ UNCHANGED calls

(* fork: the child, which had no pipe, shares its parent's open files.     *)
Fork(p, q) ==
  /\ At(p, "user") /\ At(q, "user") /\ fds[p] # {} /\ fds[q] = {}
  /\ fds' = [fds EXCEPT ![q] = fds[p]]
  /\ fcount' = [e \in End |-> IF e \in fds[p] THEN fcount[e] + 1 ELSE fcount[e]]
  /\ UNCHANGED <<icount, ilock, iwant, iread, iwrite, file, off, upd, chan>>
  /\ UNCHANGED calls

Call(p, l) ==
  /\ At(p, "user") /\ pc' = [pc EXCEPT ![p] = l]
  /\ UNCHANGED <<upd, err, chan, result>> /\ UNCHANGED ivars

Read(p, n) ==
  /\ "r" \in fds[p] /\ Call(p, "readp")
  /\ cnt' = [cnt EXCEPT ![p] = n]
  /\ UNCHANGED <<fds, msg, fin>>

Write(p, m) ==
  /\ "w" \in fds[p] /\ Call(p, "writep")
  /\ msg' = [msg EXCEPT ![p] = m]
  /\ UNCHANGED <<fds, cnt, fin>>

(* close and exit: the descriptor goes first; only the last reference to   *)
(* the file gets beyond the count.                                         *)
CloseShared(p, e) ==
  /\ At(p, "user") /\ e \in fds[p] /\ fcount[e] > 1
  /\ fds' = [fds EXCEPT ![p] = @ \ {e}]
  /\ fcount' = [fcount EXCEPT ![e] = @ - 1]
  /\ UNCHANGED <<icount, ilock, iwant, iread, iwrite, file, off, upd, chan>>
  /\ UNCHANGED calls

CloseLast(p, e) ==
  /\ e \in fds[p] /\ fcount[e] <= 1
  /\ Call(p, "closef")
  /\ fds' = [fds EXCEPT ![p] = @ \ {e}] /\ fin' = [fin EXCEPT ![p] = e]
  /\ UNCHANGED <<cnt, msg>>

----------------------------------------------------------------------------
(* plock: sleep while the inode is locked.                                 *)
PlockSleep(p) ==
  /\ \E l \in {"readp", "writep", "closef"} : At(p, l)
  /\ ilock
  /\ iwant' = TRUE /\ chan' = [chan EXCEPT ![p] = "lock"]
  /\ UNCHANGED <<icount, fcount, ilock, iread, iwrite, file, off, upd, fds>>
  /\ UNCHANGED calls

(* plock succeeds, and the code after it gives the lock back at once.      *)
Brief(p, l) == At(p, l) /\ ~ilock /\ Prele

(* readp finds the pipe empty.                                             *)
ReadEof(p) ==
  /\ Brief(p, "readp") /\ file = <<>> /\ icount < 2
  /\ chan' = Woken(LockWaiters)
  /\ Return(p, <<"eof">>)
  /\ UNCHANGED <<icount, fcount, iread, iwrite, file, off, upd, fds>>

(* Mutant: sleeps without setting IREAD.                                   *)
ReadWait_NoIREAD(p) ==
  /\ Brief(p, "readp") /\ file = <<>> /\ icount >= 2
  /\ chan' = [Woken(LockWaiters) EXCEPT ![p] = "data"]
  /\ UNCHANGED <<icount, fcount, iread, iwrite, file, off, upd, fds>>
  /\ UNCHANGED calls

ReadWait(p) ==
  /\ Brief(p, "readp") /\ file = <<>> /\ icount >= 2
  /\ iread' = TRUE
  /\ chan' = [Woken(LockWaiters) EXCEPT ![p] = "data"]
  /\ UNCHANGED <<icount, fcount, iwrite, file, off, upd, fds>>
  /\ UNCHANGED calls

(* writep has nothing left to write, has no reader, or finds no room.      *)
WriteDone(p) ==
  /\ Brief(p, "writep") /\ msg[p] = <<>>
  /\ chan' = Woken(LockWaiters)
  /\ Return(p, IF err[p] THEN <<"error">> ELSE <<"written">>)
  /\ UNCHANGED <<icount, fcount, iread, iwrite, file, off, upd, fds>>

WriteEpipe(p) ==
  /\ Brief(p, "writep") /\ msg[p] # <<>> /\ icount < 2
  /\ chan' = Woken(LockWaiters)
  /\ Return(p, <<"EPIPE">>)
  /\ UNCHANGED <<icount, fcount, iread, iwrite, file, off, upd, fds>>

(* Mutant: one byte more than PIPSIZ before the pipe counts as full.       *)
Full_OffByOne == Len(file) > PIPSIZ

Full == Len(file) >= PIPSIZ

WriteWait(p) ==
  /\ Brief(p, "writep") /\ msg[p] # <<>> /\ icount >= 2 /\ Full
  /\ iwrite' = TRUE
  /\ chan' = [Woken(LockWaiters) EXCEPT ![p] = "room"]
  /\ UNCHANGED <<icount, fcount, iread, file, off, upd, fds>>
  /\ UNCHANGED calls

(* plock succeeds and the lock is kept while the disk is waited for.       *)
Long(p, l, l2) ==
  /\ At(p, l) /\ ~ilock /\ ilock' = TRUE
  /\ pc' = [pc EXCEPT ![p] = l2]
  /\ UNCHANGED <<icount, fcount, iwant, iread, iwrite, file, off, upd, fds, cnt, msg, fin, err, chan, result>>

ReadStart(p) == Long(p, "readp", "readi") /\ file # <<>>
WriteStart(p) == Long(p, "writep", "writei") /\ msg[p] # <<>> /\ icount >= 2 /\ ~Full

----------------------------------------------------------------------------
Least(a, b) == IF a <= b THEN a ELSE b

(* Mutant: resets the offset but not the size of the file.                 *)
Consume_NoTruncate(k) ==
  LET o == off + k
  IN  /\ off' = IF o = Len(file) THEN 0 ELSE o
      /\ iwrite' = (iwrite /\ o # Len(file))
      /\ chan' = Woken(LockWaiters \cup (IF o = Len(file) /\ iwrite THEN {"room"} ELSE {}))
      /\ UNCHANGED file

(* The rest of readp after k bytes were moved: if the reader has caught up *)
(* with the writer, start at 0 again and wake the writers; unlock.         *)
Consume(k) ==
  LET o == off + k
  IN  /\ off' = IF o = Len(file) THEN 0 ELSE o
      /\ file' = IF o = Len(file) THEN <<>> ELSE file
      /\ iwrite' = (iwrite /\ o # Len(file))
      /\ chan' = Woken(LockWaiters \cup (IF o = Len(file) /\ iwrite THEN {"room"} ELSE {}))

ReadEnd(p) ==
  /\ At(p, "readi")
  /\ LET k == Least(cnt[p], Len(file) - off)
     IN  \/ Consume(k) /\ Return(p, <<"read", SubSeq(file, off + 1, off + k)>>)
         \/ IOErrors /\ (\E j \in 0..k : Consume(j)) /\ Return(p, <<"error">>)
  /\ Prele
  /\ UNCHANGED <<icount, fcount, iread, upd, fds>>

(* What writei leaves of a piece of k bytes.  All of it, or, with u_error  *)
(* set, a prefix and after it some bytes of the block that failed: its     *)
(* buffer is released without being marked for writing, so that it may     *)
(* come back from the disk as something else.  u_error stays set from then *)
(* on, and ends every later writei after at most a block in the same way.  *)
Spoilt(n) == [i \in 1..n |-> Junk]

Written(p, k) ==
  \/ ~err[p] /\ file' = file \o SubSeq(msg[p], 1, k) /\ UNCHANGED err
  \/ /\ IOErrors /\ ~err[p] /\ err' = [err EXCEPT ![p] = TRUE]
     /\ \E j \in 0..(k - 1) : \E n \in 0..(k - j) :
          file' = file \o SubSeq(msg[p], 1, j) \o Spoilt(n)
  \/ /\ err[p] /\ UNCHANGED err
     /\ \E j \in 0..k : file' \in {file \o SubSeq(msg[p], 1, j), file \o Spoilt(j)}

(* The rest of writep: prele, wake the readers, and back to loop with what *)
(* is left to write, even after an error.                                  *)
WriteEnd(p) ==
  /\ At(p, "writei")
  /\ LET k == Least(Len(msg[p]), PIPSIZ)
     IN  Written(p, k) /\ msg' = [msg EXCEPT ![p] = SubSeq(@, k + 1, Len(@))]
  /\ pc' = [pc EXCEPT ![p] = "writep"]
  /\ Prele
  /\ iread' = FALSE
  /\ chan' = Woken(LockWaiters \cup (IF iread THEN {"data"} ELSE {}))
  /\ UNCHANGED <<icount, fcount, iwrite, off, upd, fds, cnt, fin, result>>

(* Mutant: the last close of an end wakes nobody.                          *)
Closed_NoWakeup == /\ chan' = Woken(LockWaiters) /\ iread' = FALSE /\ iwrite' = FALSE

(* closef tells everybody who waits on the pipe.                           *)
Closed == /\ chan' = Woken(LockWaiters \cup {"data", "room"}) /\ iread' = FALSE /\ iwrite' = FALSE

(* closef with the inode locked, then iput; the last reference truncates   *)
(* and frees the inode (nobody else knows it any more).                    *)
CloseEnd(p) ==
  /\ Brief(p, "closef")
  /\ fcount' = [fcount EXCEPT ![fin[p]] = 0]
  /\ Closed
  /\ icount' = icount - 1
  /\ IF icount = 1 THEN file' = <<>> /\ off' = 0 ELSE UNCHANGED <<file, off>>
  /\ pc' = [pc EXCEPT ![p] = "user"] /\ fin' = [fin EXCEPT ![p] = "r"]
  /\ UNCHANGED <<upd, fds, cnt, msg, err, result>>

(* A signal ends a sleep for data or for room.  The sleeper found it when  *)
(* it went to sleep, or setrun wakes all who sleep on the same channel.    *)
Signal(p) ==
  /\ chan[p] \in {"data", "room"}
  /\ \E c \in {Woken({chan[p]}), [chan EXCEPT ![p] = Awake]} : chan' = c
  /\ Return(p, <<"EINTR">>)
  /\ UNCHANGED ivars /\ UNCHANGED <<upd, fds>>

(* Mutant: update() does not look at ILOCK.                                *)
UpdateStart_Locked ==
  /\ icount > 0
  /\ ilock' = TRUE /\ icount' = icount + 1 /\ upd' = TRUE
  /\ UNCHANGED <<fcount, iwant, iread, iwrite, file, off, fds, chan>> /\ UNCHANGED calls

(* update() passes over a locked inode; it holds an extra reference and    *)
(* the lock while iupdat waits for the disk, then iput.                    *)
UpdateStart ==
  /\ ~ilock /\ icount > 0
  /\ ilock' = TRUE /\ icount' = icount + 1 /\ upd' = TRUE
  /\ UNCHANGED <<fcount, iwant, iread, iwrite, file, off, fds, chan>> /\ UNCHANGED calls

UpdateEnd ==
  /\ upd
  /\ icount' = icount - 1 /\ upd' = FALSE /\ Prele /\ chan' = Woken(LockWaiters)
  /\ UNCHANGED <<fcount, iread, iwrite, file, off, fds>> /\ UNCHANGED calls

----------------------------------------------------------------------------
Calls(p) ==
  \/ MakePipe(p) \/ \E q \in Procs : Fork(p, q)
  \/ \E n \in Counts : Read(p, n)
  \/ \E m \in Msgs : Write(p, m)
  \/ \E e \in End : CloseShared(p, e) \/ CloseLast(p, e)

GetsLock(p) ==
  \/ ReadEof(p) \/ ReadWait(p) \/ ReadStart(p)
  \/ WriteDone(p) \/ WriteEpipe(p) \/ WriteWait(p) \/ WriteStart(p)
  \/ CloseEnd(p)

Finishes(p) == ReadEnd(p) \/ WriteEnd(p)

Next ==
  \/ \E p \in Procs : Calls(p) \/ PlockSleep(p) \/ GetsLock(p) \/ Finishes(p) \/ Signal(p)
  \/ UpdateStart \/ UpdateEnd

Spec == Init /\ [][Next]_vars
----------------------------------------------------------------------------
(* Type invariant.                                                         *)
TypeOK ==
  /\ icount \in 0..3 /\ fcount \in [End -> 0..Cardinality(Procs)]
  /\ ilock \in BOOLEAN /\ iwant \in BOOLEAN /\ iread \in BOOLEAN /\ iwrite \in BOOLEAN
  /\ off \in 0..Len(file) /\ upd \in BOOLEAN
  /\ fds \in [Procs -> SUBSET End]
  /\ pc \in [Procs -> {"user", "readp", "writep", "closef", "readi", "writei"}]
  /\ cnt \in [Procs -> Counts \cup {0}] /\ fin \in [Procs -> End]
  /\ err \in [Procs -> BOOLEAN]
  /\ chan \in [Procs -> {Awake, "lock", "data", "room"}]

(* Whoever holds the lock: nobody else reads, writes or updates the inode. *)
Holders == {p \in Procs : pc[p] \in {"readi", "writei"}}

OneHolder ==
  /\ ilock <=> (upd \/ Holders # {})
  /\ \A p, q \in Holders : p = q
  /\ ~(upd /\ Holders # {})

(* Nobody sleeps for a reason that is gone: a reader sleeps only on an     *)
(* empty pipe, a writer only on a full one, both only while the other end  *)
(* is open, and the flag that makes the other side wake it is set.  Holds  *)
(* although a signal, a close or another waiter may come first.            *)
NoLostWakeup ==
  \A p \in Procs :
    /\ chan[p] = "lock" => ilock /\ iwant
    /\ chan[p] = "data" => iread /\ file = <<>> /\ icount >= 2
    /\ chan[p] = "room" => iwrite /\ Full /\ icount >= 2

(* pipe.c: "One can therefore get a file > PIPSIZ if write sizes do not    *)
(* divide PIPSIZ", but never one of 2 * PIPSIZ bytes.                      *)
SizeBound == TypeOK /\ Len(file) < 2 * PIPSIZ

(* The counts agree: f_count is the number of processes that have the end  *)
(* open or are closing it, and i_count is the number of ends in use, plus  *)
(* one while update() looks at the inode.                                  *)
RefCounts ==
  /\ \A e \in End :
       fcount[e] = Cardinality({p \in Procs : e \in fds[p] \/ (pc[p] = "closef" /\ fin[p] = e)})
  /\ icount = Cardinality({e \in End : fcount[e] > 0}) + (IF upd THEN 1 ELSE 0)

(* The pipe implements PipeFifo.                                           *)
Abstract == INSTANCE PipeFifo WITH
  queue <- SubSeq(file, off + 1, Len(file)), open <- fds,
  todo <- msg, failed <- err, Failing <- IOErrors

ImplementsFifo == Abstract!FSpec

----------------------------------------------------------------------------
(* Fairness: the disk answers, and a process that was woken inside the     *)
(* kernel (at PINOD or PPIPE) is dispatched before any process gets back   *)
(* to user mode, so with two processes it finds the lock free in the end.  *)
Fairness ==
  /\ WF_vars(UpdateEnd)
  /\ \A p \in Procs : WF_vars(PlockSleep(p)) /\ SF_vars(GetsLock(p)) /\ WF_vars(Finishes(p))

FairSpec == Spec /\ Fairness

(* A process that reads from a pipe without writers, or writes to one      *)
(* without readers, does not hang: it gets the rest of the data, the end   *)
(* of the file or EPIPE, even if it was asleep when the last end was       *)
(* closed.                                                                 *)
HangupSeen ==
  \A p \in Procs :
    /\ (pc[p] = "readp" /\ fcount["w"] = 0) ~> pc[p] = "user"
    /\ (pc[p] = "writep" /\ fcount["r"] = 0) ~> pc[p] = "user"
=============================================================================
