----------------------------- MODULE InodeTable -----------------------------
(***************************************************************************)
(* The in-core inode table (usr/sys/sys/iget.c) and the free i-nodes of    *)
(* the super block (ialloc, ifree and update of alloc.c), driven by the    *)
(* calls that make, open, close and remove a file.                         *)
(*                                                                         *)
(* A process keeps the processor until it sleeps: for ILOCK, for s_ilock   *)
(* or for the disk.  cur is the process that is between two such points;   *)
(* an action is the code up to a branch or a sleep.  Every name is in a    *)
(* directory of its own, whose inode stays in core and whose lock namei    *)
(* takes; every i-node is in a block of its own of the i-list.             *)
(***************************************************************************)
EXTENDS Integers, Sequences, FiniteSets, SequencesExt

CONSTANTS
  Procs,
  Nobody,    \* no process
  Names,     \* the paths that processes use
  NINODE,    \* slots of inode[]
  NINO,      \* i-nodes of the volume, not counting those of the directories
  NICINOD,   \* entries of s_inode[]
  Faults     \* what may fail: "iget" and "search" (reads of the i-list),
             \* "iupdat" and "wdir" (writes of an i-node, of a directory)

ASSUME ProcsAssumption == IsFiniteSet(Procs) /\ Nobody \notin Procs
ASSUME SizesAssumption == NINODE \in Nat \ {0} /\ NINO \in Nat \ {0} /\ NICINOD \in Nat \ {0}
ASSUME FaultsAssumption == Faults \subseteq {"iget", "search", "iupdat", "wdir"}

Slots == 1..NINODE
Inos == 1..NINO
SIlock == NINODE + 1    \* the channel &s_ilock; a slot is the channel of its lock
Awake == 0

VARIABLES
  inode,    \* the table: i_number, i_count, ILOCK, IWANT, IUPD|ICHG, i_mode # 0, i_nlink
  dinode,   \* the i-list: di_mode # 0, di_nlink
  sinode,   \* s_inode[0..s_ninode-1]
  silock,   \* s_ilock # 0
  dir,      \* d_ino of each name, 0 if there is no entry
  dlock,    \* who holds the lock of the directory of each name
  file,     \* f_inode of the file a process has open, 0 if none
  u,        \* of each process: where it is, its call and the locals of the call
  cur,      \* who has the processor in the middle of a call
  eio       \* history: reading or writing an i-node or an entry has failed

vars == <<inode, dinode, sinode, silock, dir, dlock, file, u, cur, eio>>

Empty == [number |-> 0, count |-> 0, lock |-> FALSE, want |-> FALSE, chg |-> FALSE,
          mode |-> FALSE, nlink |-> 0]

Foreign == [Empty EXCEPT !.number = NINO + 1, !.count = 1, !.mode = TRUE, !.nlink = 1]

User == [pc |-> "user", call |-> "none", name |-> "none", ino |-> 0,
         ip |-> 0, pos |-> 0, again |-> FALSE, chan |-> Awake]

(* A volume without files, and s_inode[] empty.  Some slots are taken, by  *)
(* directories and programs in use.                                        *)
Init ==
  /\ \E k \in 0..NINODE - 1 :
       inode = [i \in Slots |-> IF i <= k THEN Foreign ELSE Empty]
  /\ dinode = [n \in Inos |-> [mode |-> FALSE, nlink |-> 0]]
  /\ sinode = <<>> /\ silock = FALSE
  /\ dir = [n \in Names |-> 0] /\ dlock = [n \in Names |-> Nobody]
  /\ file = [p \in Procs |-> 0]
  /\ u = [p \in Procs |-> User] /\ cur = Nobody /\ eio = FALSE

----------------------------------------------------------------------------
(* Nothing is said of what follows a store past the end of s_inode[].      *)
Overflow == Len(sinode) > NICINOD

At(p, l) == u[p].pc = l /\ u[p].chan = Awake /\ cur \in {Nobody, p} /\ ~Overflow

(* Go on at l without a sleep, or sleep for the disk and go on at l.       *)
Run(p, l) == u' = [u EXCEPT ![p].pc = l] /\ cur' = p
Disk(p, l) == u' = [u EXCEPT ![p].pc = l] /\ cur' = Nobody

(* sleep on channel c; the loop around it starts again at the same place.  *)
SleepOn(p, c) == u' = [u EXCEPT ![p].chan = c] /\ cur' = Nobody

(* The users after a wakeup of channel c.                                  *)
Wakeup(w, c) == [q \in Procs |-> IF w[q].chan = c THEN [w[q] EXCEPT !.chan = Awake] ELSE w[q]]

(* One read or write of an i-node or of an entry fails, at most once.      *)
Fails(f) == f \in Faults /\ ~eio /\ eio' = TRUE

(* prele(ip): the slot afterwards, and the users.                          *)
Unlocked(ip) == [ip EXCEPT !.lock = FALSE, !.want = FALSE]
Prele(w, i) == IF inode[i].want THEN Wakeup(w, i) ELSE w

----------------------------------------------------------------------------
(* namei finds the name (flag 0, or 1 for a name that exists): it gives    *)
(* the directory back before it gets the inode, without a sleep in between.*)
Namei(p, call, n) ==
  /\ At(p, "user") /\ file[p] = 0 /\ dlock[n] = Nobody /\ dir[n] # 0
  /\ u' = [u EXCEPT ![p] = [User EXCEPT !.pc = "iget", !.call = call, !.name = n,
                                        !.ino = dir[n]]]
  /\ cur' = p
  /\ UNCHANGED <<inode, dinode, sinode, silock, dir, dlock, file, eio>>

Open(p, n) == Namei(p, "open", n)
CreatOld(p, n) == Namei(p, "trunc", n)

(* creat of a name that does not exist: namei leaves the directory locked. *)
CreatNew(p, n) ==
  /\ At(p, "user") /\ file[p] = 0 /\ dlock[n] = Nobody /\ dir[n] = 0
  /\ dlock' = [dlock EXCEPT ![n] = p]
  /\ u' = [u EXCEPT ![p] = [User EXCEPT !.pc = "ialloc", !.call = "creat", !.name = n]]
  /\ cur' = p
  /\ UNCHANGED <<inode, dinode, sinode, silock, dir, file, eio>>

(* unlink: namei(flag 2) returns the directory, locked; then iget.         *)
Unlink(p, n) ==
  /\ At(p, "user") /\ dlock[n] = Nobody /\ dir[n] # 0
  /\ dlock' = [dlock EXCEPT ![n] = p]
  /\ u' = [u EXCEPT ![p] = [User EXCEPT !.pc = "iget", !.call = "unlink", !.name = n,
                                        !.ino = dir[n]]]
  /\ cur' = p
  /\ UNCHANGED <<inode, dinode, sinode, silock, dir, file, eio>>

(* closef on the last reference to the file.                               *)
Close(p) ==
  /\ At(p, "user") /\ file[p] # 0
  /\ u' = [u EXCEPT ![p] = [User EXCEPT !.pc = "plock", !.call = "close"]] /\ cur' = p
  /\ UNCHANGED <<inode, dinode, sinode, silock, dir, dlock, file, eio>>

(* update(), one at a time.                                                *)
Sync(p) ==
  /\ At(p, "user") /\ \A q \in Procs : u[q].call # "sync"
  /\ u' = [u EXCEPT ![p] = [User EXCEPT !.pc = "scan", !.call = "sync", !.pos = 1]] /\ cur' = p
  /\ UNCHANGED <<inode, dinode, sinode, silock, dir, dlock, file, eio>>

----------------------------------------------------------------------------
(* The end of a call, or of the iput it did last: ialloc looks for another *)
(* i-node, update for another slot, everybody else gives back the          *)
(* directory, if it is held, and returns.                                  *)
Leave(w, p) ==
  IF w[p].again THEN [w EXCEPT ![p].pc = "loop", ![p].again = FALSE, ![p].ip = 0]
  ELSE IF w[p].call = "sync" THEN [w EXCEPT ![p].pc = "scan", ![p].ip = 0]
  ELSE [w EXCEPT ![p] = User]

LeaveCpu(p) == IF u[p].again \/ u[p].call = "sync" THEN p ELSE Nobody

LeaveDir(p) ==
  [n \in Names |-> IF dlock[n] = p /\ ~u[p].again THEN Nobody ELSE dlock[n]]

Returns(w, p) == u' = Leave(w, p) /\ cur' = LeaveCpu(p) /\ dlock' = LeaveDir(p)

----------------------------------------------------------------------------
(* iget(dev, ino).                                                         *)
Here_Unlocked(ino) == {i \in Slots : inode[i].number = ino /\ ~inode[i].lock}
Here(ino) == {i \in Slots : inode[i].number = ino}

Unused == {i \in Slots : inode[i].count = 0}

(* The slot is locked: sleep and search again.                             *)
IgetWait(p) ==
  /\ At(p, "iget")
  /\ \E i \in Here(u[p].ino) :
       /\ inode[i].lock
       /\ inode' = [inode EXCEPT ![i].want = TRUE]
       /\ SleepOn(p, i)
  /\ UNCHANGED <<dinode, sinode, silock, dir, dlock, file, eio>>

IgetHit(p) ==
  /\ At(p, "iget")
  /\ \E i \in Here(u[p].ino) :
       /\ ~inode[i].lock
       /\ inode' = [inode EXCEPT ![i].count = @ + 1, ![i].lock = TRUE]
       /\ u' = [u EXCEPT ![p].pc = "got", ![p].ip = i] /\ cur' = p
  /\ UNCHANGED <<dinode, sinode, silock, dir, dlock, file, eio>>

(* ENFILE.                                                                 *)
IgetFull(p) ==
  /\ At(p, "iget") /\ Here(u[p].ino) = {} /\ Unused = {}
  /\ Returns(u, p)
  /\ UNCHANGED <<inode, dinode, sinode, silock, dir, file, eio>>

(* Take the first unused slot, which keeps mode and links of its last user *)
(* until the i-node has been read.                                         *)
IgetMiss(p) ==
  /\ At(p, "iget") /\ Here(u[p].ino) = {}
  /\ \E i \in Unused :
       /\ \A j \in Unused : i <= j
       /\ inode' = [inode EXCEPT ![i].number = u[p].ino, ![i].lock = TRUE, ![i].want = FALSE,
                                 ![i].chg = FALSE, ![i].count = @ + 1]
       /\ u' = [u EXCEPT ![p].pc = "read", ![p].ip = i] /\ cur' = Nobody
  /\ UNCHANGED <<dinode, sinode, silock, dir, dlock, file, eio>>

IgetRead(p) ==
  /\ At(p, "read")
  /\ LET d == dinode[u[p].ino] IN
       inode' = [inode EXCEPT ![u[p].ip].mode = d.mode, ![u[p].ip].nlink = d.nlink]
  /\ Run(p, "got")
  /\ UNCHANGED <<dinode, sinode, silock, dir, dlock, file, eio>>

IgetError(p) ==
  /\ At(p, "read") /\ Fails("iget")
  /\ Run(p, "iput")
  /\ UNCHANGED <<inode, dinode, sinode, silock, dir, dlock, file>>

----------------------------------------------------------------------------
(* iput(ip).                                                               *)
IputMore(p) ==
  /\ At(p, "iput") /\ inode[u[p].ip].count # 1
  /\ inode' = [inode EXCEPT ![u[p].ip] = [Unlocked(inode[u[p].ip]) EXCEPT !.count = @ - 1]]
  /\ Returns(Prele(u, u[p].ip), p)
  /\ UNCHANGED <<dinode, sinode, silock, dir, file, eio>>

(* The last reference to a file without links: itrunc waits for the disk,  *)
(* unless the i-node is no file at all.                                    *)
IputTrunc(p) ==
  /\ At(p, "iput") /\ inode[u[p].ip].count = 1 /\ inode[u[p].ip].nlink <= 0
  /\ inode' = [inode EXCEPT ![u[p].ip].lock = TRUE]
  /\ IF inode[u[p].ip].mode THEN Disk(p, "ifree") ELSE Run(p, "ifree")
  /\ UNCHANGED <<dinode, sinode, silock, dir, dlock, file, eio>>

(* ifree(dev, ino) after itrunc, and the wait for the block in iupdat.     *)
Ifree(ino) == IF silock \/ Len(sinode) >= NICINOD THEN sinode ELSE Append(sinode, ino)

IputFree(p) ==
  /\ At(p, "ifree")
  /\ inode' = [inode EXCEPT ![u[p].ip].mode = FALSE, ![u[p].ip].chg = TRUE]
  /\ sinode' = Ifree(inode[u[p].ip].number)
  /\ Disk(p, "iupdat")
  /\ UNCHANGED <<dinode, silock, dir, dlock, file, eio>>

(* The last reference to a file that keeps a link and has been changed.    *)
IputWrite(p) ==
  /\ At(p, "iput")
  /\ LET ip == inode[u[p].ip] IN ip.count = 1 /\ ip.nlink > 0 /\ ip.chg
  /\ inode' = [inode EXCEPT ![u[p].ip].lock = TRUE]
  /\ Disk(p, "iupdat")
  /\ UNCHANGED <<dinode, sinode, silock, dir, dlock, file, eio>>

(* The end of iput: prele, and the slot has no number any more.            *)
IputClear_NoPrele(p) ==
  /\ inode' = [inode EXCEPT ![u[p].ip] = [Empty EXCEPT !.mode = inode[u[p].ip].mode,
                                                       !.nlink = inode[u[p].ip].nlink]]
  /\ Returns(u, p)
IputClear(p) ==
  /\ inode' = [inode EXCEPT ![u[p].ip] = [Empty EXCEPT !.mode = inode[u[p].ip].mode,
                                                       !.nlink = inode[u[p].ip].nlink]]
  /\ Returns(Prele(u, u[p].ip), p)

IputSame(p) ==
  /\ At(p, "iput")
  /\ LET ip == inode[u[p].ip] IN ip.count = 1 /\ ip.nlink > 0 /\ ~ip.chg
  /\ IputClear(p)
  /\ UNCHANGED <<dinode, sinode, silock, dir, file, eio>>

(* iupdat(ip) has its block, or an error, in which case nothing is written.*)
WriteDinode(i) ==
  dinode' = [dinode EXCEPT ![inode[i].number] =
               [mode |-> inode[i].mode, nlink |-> inode[i].nlink]]

IputEnd(p) ==
  /\ At(p, "iupdat")
  /\ \/ WriteDinode(u[p].ip) /\ UNCHANGED eio
     \/ Fails("iupdat") /\ UNCHANGED dinode
  /\ IputClear(p)
  /\ UNCHANGED <<sinode, silock, dir, file>>

----------------------------------------------------------------------------
(* ialloc(dev).                                                            *)
IallocWait(p) ==
  /\ At(p, "ialloc") /\ silock
  /\ SleepOn(p, SIlock)
  /\ UNCHANGED <<inode, dinode, sinode, silock, dir, dlock, file, eio>>

(* The label loop is behind the wait for s_ilock.                          *)
AtLoop(p) == At(p, "loop") \/ (At(p, "ialloc") /\ ~silock)

IallocPop(p) ==
  /\ AtLoop(p)
  /\ sinode # <<>>
  /\ sinode' = Front(sinode)
  /\ u' = [u EXCEPT ![p].pc = "iget", ![p].ino = Last(sinode)] /\ cur' = p
  /\ UNCHANGED <<inode, dinode, silock, dir, dlock, file, eio>>

IallocSearch(p) ==
  /\ AtLoop(p)
  /\ sinode = <<>>
  /\ silock' = TRUE
  /\ u' = [u EXCEPT ![p].pc = "search", ![p].pos = 1] /\ cur' = Nobody
  /\ UNCHANGED <<inode, dinode, sinode, dir, dlock, file, eio>>

(* One block of the i-list: its i-node is noted if it is free and not in   *)
(* core.  With the last block, or when s_inode[] is full, the search ends. *)
Noted(ino) == IF ~dinode[ino].mode /\ Here(ino) = {} THEN Append(sinode, ino) ELSE sinode

Search(p, found) ==
  /\ At(p, "search")
  /\ sinode' = found
  /\ IF Len(found) >= NICINOD \/ u[p].pos = NINO
     THEN /\ silock' = FALSE
          /\ LET w == Wakeup(u, SIlock) IN
               IF found # <<>>
               THEN u' = [w EXCEPT ![p].pc = "loop", ![p].pos = 0] /\ cur' = p /\ UNCHANGED dlock
               ELSE Returns(w, p)
     ELSE /\ u' = [u EXCEPT ![p].pos = @ + 1] /\ cur' = Nobody
          /\ UNCHANGED <<silock, dlock>>
  /\ UNCHANGED <<inode, dinode, dir, file, eio>>

SearchRead(p) == Search(p, Noted(u[p].pos))
SearchError(p) == "search" \in Faults /\ Search(p, sinode)

(* The i-node from s_inode[] is in use after all: look some more.          *)
IallocAgain(p) ==
  /\ At(p, "got") /\ u[p].call = "creat" /\ inode[u[p].ip].mode
  /\ u' = [u EXCEPT ![p].pc = "iput", ![p].again = TRUE] /\ cur' = p
  /\ UNCHANGED <<inode, dinode, sinode, silock, dir, dlock, file, eio>>

(* maknode, up to the wait for the disk in writei.                         *)
Maknode_NoTest(p) ==
  /\ At(p, "got") /\ u[p].call = "creat"
  /\ inode' = [inode EXCEPT ![u[p].ip].mode = TRUE, ![u[p].ip].nlink = 1, ![u[p].ip].chg = TRUE]
  /\ Disk(p, "wdir")
  /\ UNCHANGED <<dinode, sinode, silock, dir, dlock, file, eio>>
Maknode(p) ==
  /\ At(p, "got") /\ u[p].call = "creat" /\ ~inode[u[p].ip].mode
  /\ inode' = [inode EXCEPT ![u[p].ip].mode = TRUE, ![u[p].ip].nlink = 1, ![u[p].ip].chg = TRUE]
  /\ Disk(p, "wdir")
  /\ UNCHANGED <<dinode, sinode, silock, dir, dlock, file, eio>>

----------------------------------------------------------------------------
(* The end of open1, with the inode as itrunc left it: prele, then falloc. *)
(* Without a file the inode is dropped; iput takes the lock again, if it   *)
(* needs it, before anybody else runs.                                     *)
Open1(p, ip) ==
  \/ /\ inode' = [inode EXCEPT ![u[p].ip] = Unlocked(ip)]
     /\ file' = [file EXCEPT ![p] = u[p].ip]
     /\ u' = [Prele(u, u[p].ip) EXCEPT ![p] = User] /\ cur' = Nobody
  \/ /\ inode' = [inode EXCEPT ![u[p].ip] = [ip EXCEPT !.want = FALSE]]
     /\ u' = [Prele(u, u[p].ip) EXCEPT ![p].pc = "iput"] /\ cur' = p
     /\ UNCHANGED file

(* access fails.                                                           *)
Refused(p) ==
  /\ At(p, "got") /\ u[p].call \in {"open", "trunc"}
  /\ Run(p, "iput")
  /\ UNCHANGED <<inode, dinode, sinode, silock, dir, dlock, file, eio>>

(* open: open1 with trf = 0.  creat of an old file, trf = 1, does the same *)
(* if the i-node is free again by now: itrunc does not touch it.           *)
Opened(p) ==
  /\ At(p, "got")
  /\ u[p].call = "open" \/ (u[p].call = "trunc" /\ ~inode[u[p].ip].mode)
  /\ Open1(p, inode[u[p].ip])
  /\ UNCHANGED <<dinode, sinode, silock, dir, dlock, eio>>

(* creat of an old file: itrunc waits for the disk.                        *)
Truncate(p) ==
  /\ At(p, "got") /\ u[p].call = "trunc" /\ inode[u[p].ip].mode
  /\ Disk(p, "itrunc")
  /\ UNCHANGED <<inode, dinode, sinode, silock, dir, dlock, file, eio>>

Truncated(p) ==
  /\ At(p, "itrunc")
  /\ Open1(p, [inode[u[p].ip] EXCEPT !.chg = TRUE])
  /\ UNCHANGED <<dinode, sinode, silock, dir, dlock, eio>>

(* creat of a new file: wdir has written the entry and given back the      *)
(* directory; open1 with trf = 2.                                          *)
Created(p) ==
  /\ At(p, "wdir") /\ u[p].call = "creat"
  /\ dir' = [dir EXCEPT ![u[p].name] = inode[u[p].ip].number]
  /\ dlock' = LeaveDir(p)
  /\ Open1(p, inode[u[p].ip])
  /\ UNCHANGED <<dinode, sinode, silock, eio>>

(* The entry could not be written: open1 drops the inode.                  *)
CreateError(p) ==
  /\ At(p, "wdir") /\ u[p].call = "creat" /\ Fails("wdir")
  /\ dlock' = LeaveDir(p)
  /\ Run(p, "iput")
  /\ UNCHANGED <<inode, dinode, sinode, silock, dir, file>>

(* unlink, up to writei, and after it, whether it worked or not.           *)
UnlinkGot(p) ==
  /\ At(p, "got") /\ u[p].call = "unlink"
  /\ Disk(p, "wdir")
  /\ UNCHANGED <<inode, dinode, sinode, silock, dir, dlock, file, eio>>

Unlinked(p) ==
  /\ At(p, "wdir") /\ u[p].call = "unlink"
  /\ \/ dir' = [dir EXCEPT ![u[p].name] = 0] /\ UNCHANGED eio
     \/ Fails("wdir") /\ UNCHANGED dir
  /\ inode' = [inode EXCEPT ![u[p].ip].nlink = @ - 1, ![u[p].ip].chg = TRUE]
  /\ Run(p, "iput")
  /\ UNCHANGED <<dinode, sinode, silock, dlock, file>>

(* closef: plock and then iput.                                            *)
PlockWait(p) ==
  /\ At(p, "plock") /\ inode[file[p]].lock
  /\ inode' = [inode EXCEPT ![file[p]].want = TRUE]
  /\ SleepOn(p, file[p])
  /\ UNCHANGED <<dinode, sinode, silock, dir, dlock, file, eio>>

Plock(p) ==
  /\ At(p, "plock") /\ ~inode[file[p]].lock
  /\ inode' = [inode EXCEPT ![file[p]].lock = TRUE]
  /\ file' = [file EXCEPT ![p] = 0]
  /\ u' = [u EXCEPT ![p].pc = "iput", ![p].ip = file[p]] /\ cur' = p
  /\ UNCHANGED <<dinode, sinode, silock, dir, dlock, eio>>

(* update: the next slot with something to write, if there is one.  Slots  *)
(* with nothing to write are locked and unlocked at once.                  *)
Dirty_Locked(p) == {i \in Slots : i >= u[p].pos /\ inode[i].count # 0 /\ inode[i].chg}
Dirty(p) ==
  {i \in Slots : i >= u[p].pos /\ ~inode[i].lock /\ inode[i].count # 0 /\ inode[i].chg}

UpdateNext_NoCount(p) ==
  /\ At(p, "scan")
  /\ \E i \in Dirty(p) :
       /\ \A j \in Dirty(p) : i <= j
       /\ inode' = [inode EXCEPT ![i].lock = TRUE]
       /\ u' = [u EXCEPT ![p].pc = "update", ![p].ip = i, ![p].pos = i + 1] /\ cur' = Nobody
  /\ UNCHANGED <<dinode, sinode, silock, dir, dlock, file, eio>>
UpdateNext(p) ==
  /\ At(p, "scan")
  /\ \E i \in Dirty(p) :
       /\ \A j \in Dirty(p) : i <= j
       /\ inode' = [inode EXCEPT ![i].lock = TRUE, ![i].count = @ + 1]
       /\ u' = [u EXCEPT ![p].pc = "update", ![p].ip = i, ![p].pos = i + 1] /\ cur' = Nobody
  /\ UNCHANGED <<dinode, sinode, silock, dir, dlock, file, eio>>

UpdateWrite(p) ==
  /\ At(p, "update")
  /\ \/ /\ WriteDinode(u[p].ip) /\ UNCHANGED eio
        /\ inode' = [inode EXCEPT ![u[p].ip].chg = FALSE]
     \/ Fails("iupdat") /\ UNCHANGED <<dinode, inode>>
  /\ Run(p, "iput")
  /\ UNCHANGED <<sinode, silock, dir, dlock, file>>

UpdateEnd(p) ==
  /\ At(p, "scan") /\ Dirty(p) = {}
  /\ u' = [u EXCEPT ![p] = User] /\ cur' = Nobody
  /\ UNCHANGED <<inode, dinode, sinode, silock, dir, dlock, file, eio>>
----------------------------------------------------------------------------
Calls(p) ==
  \/ \E n \in Names : Open(p, n) \/ CreatOld(p, n) \/ CreatNew(p, n) \/ Unlink(p, n)
  \/ Close(p) \/ Sync(p)

Steps(p) ==
  \/ IgetWait(p) \/ IgetHit(p) \/ IgetFull(p) \/ IgetMiss(p) \/ IgetRead(p) \/ IgetError(p)
  \/ IputMore(p) \/ IputTrunc(p) \/ IputFree(p) \/ IputWrite(p) \/ IputSame(p) \/ IputEnd(p)
  \/ IallocWait(p) \/ IallocPop(p) \/ IallocSearch(p) \/ IallocAgain(p)
  \/ SearchRead(p) \/ SearchError(p) \/ Maknode(p) \/ Created(p) \/ CreateError(p)
  \/ Opened(p) \/ Refused(p) \/ Truncate(p) \/ Truncated(p)
  \/ UnlinkGot(p) \/ Unlinked(p) \/ PlockWait(p) \/ Plock(p)
  \/ UpdateNext(p) \/ UpdateWrite(p) \/ UpdateEnd(p)

Next == \E p \in Procs : Calls(p) \/ Steps(p)

Spec == Init /\ [][Next]_vars
----------------------------------------------------------------------------
(* Type correctness.                                                       *)
TypeOK ==
  /\ inode \in [Slots -> [number : 0..NINO + 1, count : Nat, lock : BOOLEAN,
                          want : BOOLEAN, chg : BOOLEAN, mode : BOOLEAN, nlink : Int]]
  /\ dinode \in [Inos -> [mode : BOOLEAN, nlink : Int]]
  /\ sinode \in Seq(Inos) /\ silock \in BOOLEAN
  /\ dir \in [Names -> 0..NINO] /\ dlock \in [Names -> Procs \cup {Nobody}]
  /\ file \in [Procs -> 0..NINODE] /\ cur \in Procs \cup {Nobody}

(* An i-node is in at most one slot of the table, although processes look  *)
(* for it, sleep, and find slots taken and given up meanwhile (iget).      *)
OneSlot ==
  TypeOK /\ \A i, j \in Slots :
    inode[i].number = inode[j].number /\ inode[i].number \in Inos => i = j

(* i_count is the number of open files and of calls at work on the inode   *)
(* (iget, iput, closef, update), and a slot without references is free.    *)
RefCounts ==
  \A i \in Slots : inode[i] # Foreign =>
    /\ inode[i].count = Cardinality({p \in Procs : file[p] = i})
                         + Cardinality({p \in Procs : u[p].ip = i})
    /\ inode[i].count = 0 <=> inode[i].number = 0

(* ILOCK is held by exactly one process that is at work on the inode, so   *)
(* two never read, write or free it at the same time (iget, plock, prele). *)
OneHolder ==
  \A i \in Slots : Cardinality({p \in Procs : u[p].ip = i}) = IF inode[i].lock THEN 1 ELSE 0

(* Who sleeps for an inode or for the list of free i-nodes will be woken:  *)
(* it is locked, and IWANT is set (iget, plock, prele, ialloc).            *)
NoLostWakeup ==
  \A p \in Procs :
    /\ u[p].chan \in Slots => inode[u[p].chan].lock /\ inode[u[p].chan].want
    /\ u[p].chan = SIlock => silock /\ \E q \in Procs : u[q].pc = "search"

(* The i-node as a reader of the volume sees it: from the table, unless    *)
(* the slot is still being filled.                                         *)
Current(ino) ==
  LET filled == {i \in Slots : /\ inode[i].number = ino
                               /\ \A p \in Procs : ~(u[p].ip = i /\ u[p].pc = "read")}
  IN IF filled = {} THEN dinode[ino] ELSE inode[CHOOSE i \in filled : TRUE]

(* Every name leads to an i-node that is in use and counts a link for it;  *)
(* in particular no i-node is ever given to two files (ialloc, ifree, iput *)
(* against lookups that are out of date).  True until an i-node or an      *)
(* entry could not be read or written.                                     *)
LinkedIsLive ==
  ~eio => \A n \in Names : dir[n] # 0 =>
    /\ Current(dir[n]).mode
    /\ Current(dir[n]).nlink >= Cardinality({m \in Names : dir[m] = dir[n]})

(* ifree "stores up to NICINOD I nodes in the super block and throws away  *)
(* any more", and ialloc stops at NICINOD: s_inode[] does not overflow.    *)
SinodeBound == ~Overflow
=============================================================================
