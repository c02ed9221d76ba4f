---------------------------- MODULE BufferCache ----------------------------
(***************************************************************************)
(* The block buffer cache of usr/sys/sys/bio.c together with the SD-card   *)
(* driver that serves it, usr/sys/bcm283x/dev/sdx.c.                       *)
(*                                                                         *)
(* The kernel is not preemptive: the process that owns the processor       *)
(* (cur) keeps it until it sleeps or leaves the cache, and only the disk   *)
(* interrupt (Sdxintr) can come between two of its steps, and only when    *)
(* interrupts are enabled.  A process's steps are cut exactly where an     *)
(* interrupt can make a difference: after the search of the device's       *)
(* buffer list in getblk and around the store of B_AGE in bwrite.          *)
(*                                                                         *)
(* The routines below (Notavail, Brelse, Iodone, Sdxstart, Sdxstrategy,    *)
(* Bwrite) are operators from a cache state to a cache state, composed the *)
(* way the code calls them; the actions apply them to the variables.       *)
(***************************************************************************)
EXTENDS Naturals, Sequences, FiniteSets, Functions, SequencesExt, KernelLists

CONSTANTS
  Procs,      \* processes that use the cache
  NBUF,       \* size of the pool buf[]
  Blocks,     \* block numbers of the one device modelled
  BadBlocks,  \* block numbers that sdxstrategy rejects (past the volume)
  Vals,       \* contents of a block
  Zero,       \* what the buffers hold after boot (static storage)
  NODEV,      \* b_dev of a buffer associated with no block
  Nobody,     \* the processor is idle / no process
  Nil,        \* a NULL pointer, or rablkno = 0
  FreeList,   \* the sleep channel &bfreelist
  Faults      \* environment: which of FaultKinds can happen

(***************************************************************************)
(* "finish"  iofinish fails for a transfer somebody waits for              *)
(* "afinish" iofinish fails for an asynchronous transfer                   *)
(* "split"   b_flags |= B_AGE is a load and a store (ldrh/orr/strh), with  *)
(*           room for an interrupt in between                              *)
(***************************************************************************)
FaultKinds == {"finish", "afinish", "split"}

Bufs == 1..NBUF

ASSUME FaultsAssumption == Faults \subseteq FaultKinds
ASSUME BlocksAssumption == BadBlocks \subseteq Blocks /\ NODEV \notin Blocks /\ Nil \notin Blocks
ASSUME BufsAssumption == NBUF \in Nat \ {0} /\ Nil \notin Bufs /\ FreeList \notin Bufs \cup {Nil}
ASSUME ValsAssumption == Zero \in Vals
ASSUME ProcsAssumption == Nobody \notin Procs
ASSUME ViewAssumption == Nil \notin Blocks \X (Vals \cup {Nil})

VARIABLES
  flags,     \* b_flags of each buffer, a set of Flag
  assoc,     \* (b_dev, b_blkno) of each buffer
  free,      \* the available list, oldest first (av_forw from bfreelist)
  fwanted,   \* B_WANTED in bfreelist.b_flags
  actq,      \* sdxtab.b_actf, b_actl: the driver's queue
  active,    \* sdxtab.b_active
  wchan,     \* p_wchan of each process, Nil when it is not asleep
  data,      \* contents of each buffer
  disk,      \* contents of each block on the card
  cur,       \* the process that owns the processor
  pc, op,    \* where each process is, and in which routine
  blk, ra,   \* blkno and rablkno of its call
  bp,        \* the buffer the caller holds
  tgt,       \* the local bp of getblk and bwrite
  reg        \* b_flags as loaded by bwrite before the store of B_AGE

cvars == <<flags, assoc, free, fwanted, actq, active, wchan, data, disk>>
pvars == <<cur, pc, op, blk, ra, bp, tgt, reg>>
vars == <<flags, assoc, free, fwanted, actq, active, wchan, data, disk,
          cur, pc, op, blk, ra, bp, tgt, reg>>

Flag == {"READ", "DONE", "ERROR", "BUSY", "WANTED", "AGE", "ASYNC", "DELWRI"}
PC == {"idle", "getblk", "take", "got", "age", "store", "ra", "iowait", "held", "bflush"}
Op == {"none", "getblk", "bread", "breada", "ahead", "geteblk", "bwrite", "bawrite"}

(***************************************************************************)
(* The state the cache routines work on, read from and written to the      *)
(* variables.                                                              *)
(***************************************************************************)
Cache == [flags |-> flags, assoc |-> assoc, free |-> free, fwanted |-> fwanted,
          actq |-> actq, active |-> active, wchan |-> wchan, data |-> data, disk |-> disk]

SetCache(s) ==
  /\ flags' = s.flags /\ assoc' = s.assoc /\ free' = s.free /\ fwanted' = s.fwanted
  /\ actq' = s.actq /\ active' = s.active /\ wchan' = s.wchan
  /\ data' = s.data /\ disk' = s.disk

SetF(s, b, on, off) == [s EXCEPT !.flags[b] = (@ \cup on) \ off]

----------------------------------------------------------------------------
(* wakeup(chan): every process sleeping on chan becomes runnable.          *)
Wakeup(s, chan) == [s EXCEPT !.wchan = [p \in Procs |-> IF s.wchan[p] = chan THEN Nil ELSE s.wchan[p]]]

(* Mutant: forgets to mark the buffer busy.                                *)
Notavail_NotBusy(s, b) == [s EXCEPT !.free = Unlink(@, b)]

(* Unlink a buffer from the available list and mark it busy.               *)
Notavail(s, b) == SetF([s EXCEPT !.free = Unlink(@, b)], b, {"BUSY"}, {})

(* Mutant: clears B_WANTED of the free list without the wakeup.            *)
BrelseWake_NoWakeup(s, b) ==
  LET w == IF "WANTED" \in s.flags[b] THEN Wakeup(s, b) ELSE s
  IN  [w EXCEPT !.fwanted = FALSE]

(* Release the buffer: wake the waiters, drop the association after an     *)
(* error, and put it at the old or the new end of the available list.      *)
BrelseWake(s, b) ==
  LET w == IF "WANTED" \in s.flags[b] THEN Wakeup(s, b) ELSE s
  IN  IF w.fwanted THEN Wakeup([w EXCEPT !.fwanted = FALSE], FreeList) ELSE w

Brelse(s, b) ==
  LET w == BrelseWake(s, b)
  IN  [w EXCEPT !.assoc[b] = IF "ERROR" \in s.flags[b] THEN NODEV ELSE @,
                !.free = IF "AGE" \in s.flags[b] THEN <<b>> \o @ ELSE Append(@, b),
                !.flags[b] = @ \ {"WANTED", "BUSY", "ASYNC", "AGE"}]

(* Mutants: does not release an asynchronous buffer; releases it but does  *)
(* not wake the process that waits for a synchronous one.                  *)
Iodone_NoRelease(s, b) == Wakeup(SetF(s, b, {"DONE"}, {"WANTED"}), b)

Iodone_NoWakeup(s, b) ==
  LET d == SetF(s, b, {"DONE"}, {})
  IN  IF "ASYNC" \in s.flags[b] THEN Brelse(d, b) ELSE SetF(d, b, {}, {"WANTED"})

Iodone(s, b) ==
  LET d == SetF(s, b, {"DONE"}, {})
  IN  IF "ASYNC" \in s.flags[b] THEN Brelse(d, b)
                                ELSE Wakeup(SetF(d, b, {}, {"WANTED"}), b)

(* Start the transfer at the head of the queue; iostart is assumed to      *)
(* succeed (see the README for what happens when it does not).             *)
Sdxstart(s) == IF s.actq = <<>> THEN s ELSE [s EXCEPT !.active = TRUE]

Sdxstrategy(s, b) ==
  IF s.assoc[b] \in BadBlocks
  THEN Iodone(SetF(s, b, {"ERROR"}, {}), b)
  ELSE LET q == [s EXCEPT !.actq = Append(@, b)]
       IN  IF s.active THEN q ELSE Sdxstart(q)

(* bwrite up to and including the call of the strategy routine.            *)
BwriteStart(s, b) == Sdxstrategy(SetF(s, b, {}, {"READ", "DONE", "ERROR", "DELWRI", "AGE"}), b)

Incore(x) == \E b \in Bufs : assoc[b] = x

----------------------------------------------------------------------------
Init ==
  /\ flags = [b \in Bufs |-> {}]
  /\ assoc = [b \in Bufs |-> NODEV]
  /\ free = [i \in 1..NBUF |-> i]
  /\ fwanted = FALSE /\ actq = <<>> /\ active = FALSE
  /\ wchan = [p \in Procs |-> Nil]
  /\ data = [b \in Bufs |-> Zero] /\ disk \in [Blocks -> Vals]
  /\ cur = Nobody
  /\ pc = [p \in Procs |-> "idle"] /\ op = [p \in Procs |-> "none"]
  /\ blk = [p \in Procs |-> Nil] /\ ra = [p \in Procs |-> Nil]
  /\ bp = [p \in Procs |-> Nil] /\ tgt = [p \in Procs |-> Nil]
  /\ reg = [p \in Procs |-> {}]

(* p is at l, awake, and the processor is its own or free.                 *)
Runs(p, l) == cur \in {p, Nobody} /\ wchan[p] = Nil /\ pc[p] = l

Goto(p, l) == pc' = [pc EXCEPT ![p] = l]

(* The call is over: p leaves the cache and its locals are dead.           *)
Return(p) ==
  /\ Goto(p, "idle") /\ cur' = Nobody
  /\ op' = [op EXCEPT ![p] = "none"]
  /\ blk' = [blk EXCEPT ![p] = Nil] /\ ra' = [ra EXCEPT ![p] = Nil]
  /\ bp' = [bp EXCEPT ![p] = Nil] /\ tgt' = [tgt EXCEPT ![p] = Nil]
  /\ reg' = [reg EXCEPT ![p] = {}]

(* The caller now holds b and may sleep for reasons of its own.            *)
Hold(p, b) ==
  /\ Goto(p, "held") /\ cur' = Nobody
  /\ bp' = [bp EXCEPT ![p] = b] /\ tgt' = [tgt EXCEPT ![p] = Nil]
  /\ UNCHANGED <<op, blk, ra, reg>>

(* The block getblk is looking for.                                        *)
Arg(p) == IF op[p] = "ahead" THEN ra[p] ELSE blk[p]

----------------------------------------------------------------------------
(* Calls.                                                                  *)
Call(p, o, x) ==
  /\ Runs(p, "idle")
  /\ Goto(p, "getblk") /\ cur' = p
  /\ op' = [op EXCEPT ![p] = o] /\ blk' = [blk EXCEPT ![p] = x]
  /\ UNCHANGED <<ra, bp, tgt, reg>> /\ UNCHANGED cvars

Getblk(p, x) == Call(p, "getblk", x)
Bread(p, x) == Call(p, "bread", x)
Geteblk(p) == Call(p, "geteblk", NODEV)

(* breada skips its own getblk when the block is already in core.          *)
Breada(p, x, r) ==
  /\ Runs(p, "idle")
  /\ Goto(p, IF Incore(x) THEN "ra" ELSE "getblk") /\ cur' = p
  /\ op' = [op EXCEPT ![p] = "breada"] /\ blk' = [blk EXCEPT ![p] = x]
  /\ ra' = [ra EXCEPT ![p] = r]
  /\ UNCHANGED <<bp, tgt, reg>> /\ UNCHANGED cvars

(* getblk's loop: the device list is searched with interrupts enabled.     *)
GetblkSearch(p) ==
  /\ Runs(p, "getblk")
  /\ Goto(p, "take") /\ cur' = p
  /\ tgt' = [tgt EXCEPT ![p] = IF op[p] # "geteblk" /\ Incore(Arg(p))
                               THEN CHOOSE b \in Bufs : assoc[b] = Arg(p) ELSE Nil]
  /\ UNCHANGED <<op, blk, ra, bp, reg>> /\ UNCHANGED cvars

(* Mutant: goes on after the sleep instead of back to loop.                *)
SleepOn_NoLoop(s, p, chan) ==
  /\ SetCache([s EXCEPT !.wchan[p] = chan])
  /\ Goto(p, "take") /\ cur' = Nobody
  /\ UNCHANGED <<op, blk, ra, bp, tgt, reg>>

(* sleep(chan, pri), then back to loop.                                    *)
SleepOn(s, p, chan) ==
  /\ SetCache([s EXCEPT !.wchan[p] = chan])
  /\ Goto(p, "getblk") /\ cur' = Nobody
  /\ tgt' = [tgt EXCEPT ![p] = Nil]
  /\ UNCHANGED <<op, blk, ra, bp, reg>>

(* Mutant: sleeps on a busy buffer without setting B_WANTED.               *)
GetblkBusy_NotWanted(p) ==
  /\ Runs(p, "take") /\ tgt[p] # Nil
  /\ "BUSY" \in flags[tgt[p]]
  /\ SleepOn(Cache, p, tgt[p])

GetblkBusy(p) ==
  /\ Runs(p, "take") /\ tgt[p] # Nil
  /\ "BUSY" \in flags[tgt[p]]
  /\ SleepOn(SetF(Cache, tgt[p], {"WANTED"}, {}), p, tgt[p])

GetblkFound(p) ==
  /\ Runs(p, "take") /\ tgt[p] # Nil
  /\ "BUSY" \notin flags[tgt[p]]
  /\ SetCache(Notavail(Cache, tgt[p]))
  /\ Goto(p, "got")
  /\ UNCHANGED <<cur, op, blk, ra, bp, tgt, reg>>

GetblkNone(p) ==
  /\ Runs(p, "take") /\ tgt[p] = Nil
  /\ free = <<>>
  /\ SleepOn([Cache EXCEPT !.fwanted = TRUE], p, FreeList)

(* The oldest buffer holds a delayed write: start it and look again.       *)
GetblkDelwri(p) ==
  /\ Runs(p, "take") /\ tgt[p] = Nil
  /\ free # <<>> /\ "DELWRI" \in flags[Head(free)]
  /\ LET b == Head(free)
     IN  /\ SetCache(BwriteStart(SetF(Notavail(Cache, b), b, {"ASYNC"}, {}), b))
         /\ tgt' = [tgt EXCEPT ![p] = b]
  /\ Goto(p, "age")
  /\ UNCHANGED <<cur, op, blk, ra, bp, reg>>

(* Mutant: reassigns the oldest buffer even if it holds a delayed write.   *)
GetblkReassign_DropsDelwri(p) ==
  /\ Runs(p, "take") /\ tgt[p] = Nil
  /\ free # <<>>
  /\ LET b == Head(free)
     IN  /\ SetCache([Notavail(Cache, b) EXCEPT !.flags[b] = {"BUSY"}, !.assoc[b] = Arg(p)])
         /\ tgt' = [tgt EXCEPT ![p] = b]
  /\ Goto(p, "got")
  /\ UNCHANGED <<cur, op, blk, ra, bp, reg>>

GetblkReassign(p) ==
  /\ Runs(p, "take") /\ tgt[p] = Nil
  /\ free # <<>> /\ "DELWRI" \notin flags[Head(free)]
  /\ LET b == Head(free)
     IN  /\ SetCache([Notavail(Cache, b) EXCEPT !.flags[b] = {"BUSY"}, !.assoc[b] = Arg(p)])
         /\ tgt' = [tgt EXCEPT ![p] = b]
  /\ Goto(p, "got")
  /\ UNCHANGED <<cur, op, blk, ra, bp, reg>>

(* bwrite, after the strategy routine, for an asynchronous delayed write:  *)
(* b_flags |= B_AGE, with interrupts enabled.                              *)
AfterAge(p) ==
  IF op[p] = "bawrite"
  THEN Return(p)
  ELSE /\ Goto(p, "getblk") /\ tgt' = [tgt EXCEPT ![p] = Nil]
       /\ reg' = [reg EXCEPT ![p] = {}]
       /\ UNCHANGED <<cur, op, blk, ra, bp>>

SetAge(p) ==
  /\ Runs(p, "age") /\ "split" \notin Faults
  /\ SetCache(SetF(Cache, tgt[p], {"AGE"}, {}))
  /\ AfterAge(p)

LoadAge(p) ==
  /\ Runs(p, "age") /\ "split" \in Faults
  /\ reg' = [reg EXCEPT ![p] = flags[tgt[p]]]
  /\ Goto(p, "store")
  /\ UNCHANGED <<cur, op, blk, ra, bp, tgt>> /\ UNCHANGED cvars

StoreAge(p) ==
  /\ Runs(p, "store")
  /\ SetCache([Cache EXCEPT !.flags[tgt[p]] = reg[p] \cup {"AGE"}])
  /\ AfterAge(p)

(* What the caller of getblk does with the buffer.                         *)
GotHeld(p) ==
  /\ Runs(p, "got")
  /\ \/ op[p] \in {"getblk", "geteblk"}
     \/ op[p] = "bread" /\ "DONE" \in flags[tgt[p]]
  /\ Hold(p, tgt[p]) /\ UNCHANGED cvars

GotBread(p) ==
  /\ Runs(p, "got") /\ op[p] = "bread" /\ "DONE" \notin flags[tgt[p]]
  /\ SetCache(Sdxstrategy(SetF(Cache, tgt[p], {"READ"}, {}), tgt[p]))
  /\ Goto(p, "iowait")
  /\ bp' = [bp EXCEPT ![p] = tgt[p]] /\ tgt' = [tgt EXCEPT ![p] = Nil]
  /\ UNCHANGED <<cur, op, blk, ra, reg>>

GotBreada(p) ==
  /\ Runs(p, "got") /\ op[p] = "breada"
  /\ SetCache(IF "DONE" \in flags[tgt[p]] THEN Cache
              ELSE Sdxstrategy(SetF(Cache, tgt[p], {"READ"}, {}), tgt[p]))
  /\ Goto(p, "ra")
  /\ bp' = [bp EXCEPT ![p] = tgt[p]] /\ tgt' = [tgt EXCEPT ![p] = Nil]
  /\ UNCHANGED <<cur, op, blk, ra, reg>>

(* The end of breada: wait for its block, or bread it if it was in core.   *)
BreadaEnd(p) ==
  /\ op' = [op EXCEPT ![p] = "bread"]
  /\ Goto(p, IF bp[p] = Nil THEN "getblk" ELSE "iowait")
  /\ tgt' = [tgt EXCEPT ![p] = Nil]
  /\ ra' = [ra EXCEPT ![p] = Nil]
  /\ UNCHANGED <<blk, bp, reg>>

GotAhead(p) ==
  /\ Runs(p, "got") /\ op[p] = "ahead"
  /\ SetCache(IF "DONE" \in flags[tgt[p]] THEN Brelse(Cache, tgt[p])
              ELSE Sdxstrategy(SetF(Cache, tgt[p], {"READ", "ASYNC"}, {}), tgt[p]))
  /\ BreadaEnd(p) /\ UNCHANGED cur

(* Mutant: reads ahead without asking incore first.                        *)
ReadAhead_NoIncore(p) ==
  /\ Runs(p, "ra")
  /\ cur' = p
  /\ IF ra[p] # Nil
     THEN /\ op' = [op EXCEPT ![p] = "ahead"] /\ Goto(p, "getblk")
          /\ UNCHANGED <<blk, ra, bp, tgt, reg>>
     ELSE BreadaEnd(p)
  /\ UNCHANGED cvars

ReadAhead(p) ==
  /\ Runs(p, "ra")
  /\ cur' = p
  /\ IF ra[p] # Nil /\ ~Incore(ra[p])
     THEN /\ op' = [op EXCEPT ![p] = "ahead"] /\ Goto(p, "getblk")
          /\ UNCHANGED <<blk, ra, bp, tgt, reg>>
     ELSE BreadaEnd(p)
  /\ UNCHANGED cvars

(* iowait: sleep until B_DONE, then return to bread or go on in bwrite.    *)
IowaitSleep(p) ==
  /\ Runs(p, "iowait") /\ "DONE" \notin flags[bp[p]]
  /\ SetCache([Cache EXCEPT !.wchan[p] = bp[p]])
  /\ cur' = Nobody
  /\ UNCHANGED <<pc, op, blk, ra, bp, tgt, reg>>

IowaitRead(p) ==
  /\ Runs(p, "iowait") /\ "DONE" \in flags[bp[p]] /\ op[p] = "bread"
  /\ Hold(p, bp[p]) /\ UNCHANGED cvars

IowaitWrite(p) ==
  /\ Runs(p, "iowait") /\ "DONE" \in flags[bp[p]] /\ op[p] = "bwrite"
  /\ SetCache(Brelse(Cache, bp[p]))
  /\ Return(p)

----------------------------------------------------------------------------
(* The holder gives the buffer back.  Callers write only a buffer that is  *)
(* associated with a block and was read without error.                     *)
Release(p) ==
  /\ Runs(p, "held")
  /\ SetCache(Brelse(Cache, bp[p]))
  /\ Return(p)

CanWrite(p) == assoc[bp[p]] # NODEV /\ "ERROR" \notin flags[bp[p]]

Modified(p, v) == [Cache EXCEPT !.data[bp[p]] = v]

Bdwrite(p, v) ==
  /\ Runs(p, "held") /\ CanWrite(p)
  /\ SetCache(Brelse(SetF(Modified(p, v), bp[p], {"DELWRI", "DONE"}, {}), bp[p]))
  /\ Return(p)

Bwrite(p, v) ==
  /\ Runs(p, "held") /\ CanWrite(p)
  /\ SetCache(BwriteStart(Modified(p, v), bp[p]))
  /\ Goto(p, "iowait") /\ cur' = p
  /\ op' = [op EXCEPT ![p] = "bwrite"]
  /\ UNCHANGED <<blk, ra, bp, tgt, reg>>

Bawrite(p, v) ==
  /\ Runs(p, "held") /\ CanWrite(p)
  /\ SetCache(BwriteStart(SetF(Modified(p, v), bp[p], {"ASYNC"}, {}), bp[p]))
  /\ IF "DELWRI" \in flags[bp[p]]
     THEN /\ Goto(p, "age") /\ cur' = p
          /\ op' = [op EXCEPT ![p] = "bawrite"]
          /\ tgt' = [tgt EXCEPT ![p] = bp[p]] /\ bp' = [bp EXCEPT ![p] = Nil]
          /\ UNCHANGED <<blk, ra, reg>>
     ELSE Return(p)

(* bflush runs at spl6 from its first look at the list to its return.      *)
BflushCall(p) ==
  /\ Runs(p, "idle")
  /\ Goto(p, "bflush") /\ cur' = p
  /\ UNCHANGED <<op, blk, ra, bp, tgt, reg>> /\ UNCHANGED cvars

Delayed == {i \in 1..Len(free) : "DELWRI" \in flags[free[i]]}

BflushWrite(p) ==
  /\ Runs(p, "bflush")
  /\ \E i \in Delayed :
       /\ \A j \in Delayed : i <= j
       /\ LET b == free[i]
          IN  SetCache(SetF(BwriteStart(Notavail(SetF(Cache, b, {"ASYNC"}, {}), b), b),
                            b, {"AGE"}, {}))
  /\ UNCHANGED pvars

BflushEnd(p) ==
  /\ Runs(p, "bflush") /\ Delayed = {}
  /\ Return(p) /\ UNCHANGED cvars

----------------------------------------------------------------------------
(* The disk interrupt: iofinish moves the data of the transfer at the head *)
(* of the queue or reports an error; then iodone, then the next transfer.  *)
IrqEnabled == \A p \in Procs : pc[p] # "bflush"

Transfer(s, b) ==
  IF "READ" \in s.flags[b] THEN [s EXCEPT !.data[b] = s.disk[s.assoc[b]]]
                           ELSE [s EXCEPT !.disk[s.assoc[b]] = s.data[b]]

FinishFails(b) == (IF "ASYNC" \in flags[b] THEN "afinish" ELSE "finish") \in Faults

(* Mutant: does not start the next transfer.                               *)
SdxintrDone_NoStart(s, b) == Iodone([s EXCEPT !.active = FALSE, !.actq = Tail(@)], b)

SdxintrDone(s, b) == Sdxstart(Iodone([s EXCEPT !.active = FALSE, !.actq = Tail(@)], b))

Sdxintr ==
  /\ IrqEnabled /\ active
  /\ LET b == Head(actq)
     IN  \/ SetCache(SdxintrDone(Transfer(Cache, b), b))
         \/ FinishFails(b) /\ SetCache(SdxintrDone(SetF(Cache, b, {"ERROR"}, {}), b))
  /\ UNCHANGED pvars

----------------------------------------------------------------------------
Calls(p) ==
  \/ \E x \in Blocks : Getblk(p, x) \/ Bread(p, x)
  \/ \E x \in Blocks, r \in Blocks \cup {Nil} : Breada(p, x, r)
  \/ Geteblk(p) \/ BflushCall(p)

Releases(p) ==
  \/ Release(p)
  \/ \E v \in Vals : Bdwrite(p, v) \/ Bwrite(p, v) \/ Bawrite(p, v)

Inside(p) ==
  \/ GetblkSearch(p) \/ GetblkBusy(p) \/ GetblkFound(p) \/ GetblkNone(p)
  \/ GetblkDelwri(p) \/ GetblkReassign(p)
  \/ SetAge(p) \/ LoadAge(p) \/ StoreAge(p)
  \/ GotHeld(p) \/ GotBread(p) \/ GotBreada(p) \/ GotAhead(p) \/ ReadAhead(p)
  \/ IowaitSleep(p) \/ IowaitRead(p) \/ IowaitWrite(p)
  \/ BflushWrite(p) \/ BflushEnd(p)

Next == Sdxintr \/ \E p \in Procs : Calls(p) \/ Releases(p) \/ Inside(p)

Spec == Init /\ [][Next]_vars

----------------------------------------------------------------------------
(* Type invariant.                                                         *)
TypeOK ==
  /\ flags \in [Bufs -> SUBSET Flag]
  /\ assoc \in [Bufs -> Blocks \cup {NODEV}]
  /\ free \in Seq(Bufs) /\ actq \in Seq(Bufs)
  /\ fwanted \in BOOLEAN /\ active \in BOOLEAN
  /\ wchan \in [Procs -> Bufs \cup {FreeList, Nil}]
  /\ data \in [Bufs -> Vals] /\ disk \in [Blocks -> Vals]
  /\ cur \in Procs \cup {Nobody}
  /\ pc \in [Procs -> PC] /\ op \in [Procs -> Op]
  /\ blk \in [Procs -> Blocks \cup {NODEV, Nil}] /\ ra \in [Procs -> Blocks \cup {Nil}]
  /\ bp \in [Procs -> Bufs \cup {Nil}] /\ tgt \in [Procs -> Bufs \cup {Nil}]
  /\ reg \in [Procs -> SUBSET Flag]

(* p owns b: it is the caller's buffer, or getblk is about to return it.   *)
Owns(p, b) == bp[p] = b \/ (pc[p] = "got" /\ tgt[p] = b)

(* buf.h: a buffer is on the available list if and only if it is not       *)
(* marked BUSY, and it is there once.                                      *)
BusyIffNotAvailable ==
  /\ \A b \in Bufs : b \in ToSet(free) <=> "BUSY" \notin flags[b]
  /\ IsInjective(free)

(* No buffer leaks and none is shared: a busy buffer is either in the      *)
(* hands of exactly one process, or is the driver's alone, and then it is  *)
(* asynchronous, so that iodone will release it; an available one is       *)
(* nobody's and not on the driver's queue.                                 *)
Accounted ==
  /\ \A p \in Procs, b \in Bufs : Owns(p, b) => "BUSY" \in flags[b] /\ "ASYNC" \notin flags[b]
  /\ \A p, q \in Procs, b \in Bufs : Owns(p, b) /\ Owns(q, b) => p = q
  /\ \A b \in ToSet(actq) : "BUSY" \in flags[b]
  /\ \A b \in Bufs : "BUSY" \in flags[b] =>
       (\E p \in Procs : Owns(p, b)) \/ ("ASYNC" \in flags[b] /\ b \in ToSet(actq))

(* getblk never leaves two buffers associated with the same block.         *)
NoAlias ==
  \A a, b \in Bufs : assoc[a] = assoc[b] /\ assoc[a] # NODEV => a = b

(* getblk and bread return a buffer of the block they were asked for.      *)
RightBlock ==
  \A p \in Procs : pc[p] = "held" => assoc[bp[p]] = blk[p]

(* No lost wakeup: whoever sleeps in getblk or iowait sleeps for a reason  *)
(* that still holds, and the event that ends it will issue the wakeup.     *)
NoLostWakeup ==
  \A p \in Procs :
    /\ wchan[p] = FreeList => fwanted /\ free = <<>>
    /\ wchan[p] \in Bufs /\ pc[p] = "getblk" => {"BUSY", "WANTED"} \subseteq flags[wchan[p]]
    /\ wchan[p] \in Bufs /\ pc[p] = "iowait" =>
          "DONE" \notin flags[wchan[p]] /\ wchan[p] \in ToSet(actq)

(* The driver is active exactly while its queue holds a request, so a      *)
(* request never waits in an idle driver.                                  *)
DriverBusy == active <=> actq # <<>>

(* The processes never all hang: if everyone sleeps in the cache, a        *)
(* transfer is under way whose interrupt will wake somebody.  breada holds *)
(* one buffer while it waits for another, so this needs more buffers than  *)
(* processes.                                                              *)
NotHungUp == (\A p \in Procs : wchan[p] # Nil) => active
----------------------------------------------------------------------------
(* The inductive invariant behind the properties above, for the fault-free *)
(* and the "finish" environment.                                           *)

(* A process inside a stretch of code that does not sleep owns the         *)
(* processor; only getblk and iowait sleep, iowait on the caller's buffer. *)
CpuOK ==
  \A p \in Procs :
    /\ pc[p] \in {"take", "got", "age", "store", "bflush"} => cur = p
    /\ wchan[p] # Nil => pc[p] \in {"getblk", "iowait"}
    /\ wchan[p] # Nil /\ pc[p] = "iowait" => wchan[p] = bp[p]

(* Which locals are live where.                                            *)
LocalsOK ==
  \A p \in Procs :
    /\ pc[p] # "store"
    /\ pc[p] \in {"idle", "bflush"} => bp[p] = Nil
    /\ pc[p] \in {"getblk", "take", "got", "age"} /\ op[p] # "ahead" => bp[p] = Nil
    /\ pc[p] \in {"held", "iowait"} => bp[p] # Nil
    /\ pc[p] = "ra" => op[p] = "breada"
    /\ pc[p] \in {"got", "age"} => tgt[p] # Nil
    /\ pc[p] = "take" /\ op[p] = "geteblk" => tgt[p] = Nil
    /\ pc[p] = "got" => tgt[p] \notin ToSet(actq) /\ tgt[p] # bp[p]
    /\ pc[p] = "held" => bp[p] \notin ToSet(actq)
    /\ pc[p] \notin {"idle", "bflush"} =>
         IF op[p] = "geteblk" THEN blk[p] = NODEV ELSE blk[p] \in Blocks
    /\ op[p] = "ahead" => ra[p] \in Blocks

(* The driver's queue: no duplicates, no transfer already done, no error,  *)
(* every request for a block of the device; a transfer that a process will *)
(* wait for is on it unless it is done.                                    *)
QueueOK ==
  /\ IsInjective(actq)
  /\ \A p \in Procs : bp[p] # Nil /\ pc[p] # "held" =>
       "DONE" \in flags[bp[p]] \/ bp[p] \in ToSet(actq)
  /\ \A b \in ToSet(actq) : "DONE" \notin flags[b] /\ "ERROR" \notin flags[b] /\ assoc[b] \in Blocks

(* Which block a buffer is associated with while somebody relies on it.    *)
AssocOK ==
  /\ \A p \in Procs :
       /\ bp[p] # Nil => assoc[bp[p]] = blk[p]
       /\ pc[p] \in {"take", "got"} /\ tgt[p] # Nil => assoc[tgt[p]] = Arg(p)
       /\ pc[p] = "got" => "ERROR" \notin flags[tgt[p]]
       /\ pc[p] = "take" /\ tgt[p] = Nil /\ op[p] # "geteblk" => ~Incore(Arg(p))
  /\ \A b \in Bufs :
       /\ "DELWRI" \in flags[b] =>
            assoc[b] \in Blocks /\ "DONE" \in flags[b] /\ "ERROR" \notin flags[b]
       /\ "BUSY" \notin flags[b] => "ASYNC" \notin flags[b]
       /\ "BUSY" \notin flags[b] /\ assoc[b] # NODEV => "ERROR" \notin flags[b]

IInv ==
  /\ TypeOK /\ CpuOK /\ LocalsOK /\ QueueOK /\ AssocOK
  /\ BusyIffNotAvailable /\ Accounted /\ NoAlias /\ NoLostWakeup /\ DriverBusy

----------------------------------------------------------------------------
(* The cache implements BlockStore: the contents of a block are those of   *)
(* its valid buffer if it has one, and those on the card otherwise.        *)
Valid(b) ==
  /\ "ERROR" \notin flags[b]
  /\ "DONE" \in flags[b] \/ (b \in ToSet(actq) /\ "READ" \notin flags[b])

Store == [x \in Blocks |->
            IF \E b \in Bufs : assoc[b] = x /\ Valid(b)
            THEN data[CHOOSE b \in Bufs : assoc[b] = x /\ Valid(b)] ELSE disk[x]]

View == [p \in Procs |->
           IF pc[p] = "held" /\ op[p] # "geteblk" /\ "ERROR" \notin flags[bp[p]]
           THEN <<blk[p], IF op[p] = "bread" THEN data[bp[p]] ELSE Nil>> ELSE Nil]

Abstract == INSTANCE BlockStore WITH
  store <- Store, view <- View, Lossy <- IF "finish" \in Faults THEN Blocks ELSE BadBlocks

(* Callers see a store in which only the holder of a block changes it: no  *)
(* delayed or asynchronous write is lost, overwritten or seen half done,   *)
(* whatever order the driver's interrupts and the victims of getblk come   *)
(* in.                                                                     *)
ImplementsBlockStore == Abstract!BSpec

----------------------------------------------------------------------------
(* Fairness: the driver's interrupt comes when a transfer is active and    *)
(* interrupts are not masked for good (it stays pending meanwhile), a      *)
(* process that is runnable inside the cache is dispatched again and again *)
(* (it runs at a kernel priority, ahead of every user process), and a      *)
(* caller does not keep a buffer for ever.                                 *)
Fairness ==
  /\ SF_vars(Sdxintr)
  /\ \A p \in Procs : SF_vars(Inside(p)) /\ SF_vars(Releases(p))

FairSpec == Spec /\ Fairness

(* Whoever waits for a transfer gets to the end of the wait.               *)
IowaitEnds == \A p \in Procs : pc[p] = "iowait" ~> pc[p] # "iowait"

(* Whoever sleeps in the cache, for a busy buffer, for a free buffer or    *)
(* for a transfer, is woken.  (It may then find the buffer taken again and *)
(* go back to sleep: getblk does not promise more.)                        *)
SleepersWake == \A p \in Procs : wchan[p] # Nil ~> wchan[p] = Nil
=============================================================================
