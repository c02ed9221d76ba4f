# Verification of the Research UNIX v7 kernel (bcm283x port)

TLA+ models of the kernel in `src/usr/sys` and of the packet driver of uucp, the TLC
runs that check them on small instances, and TLAPS proofs, for every value of the
constants, of what the runs check of each module, liveness apart.  `PROJECT.json` lists
the components, runs, mutants, the map from definitions to source lines, the hazards and
the theorems.

## 1. The system

The repository is the seventh edition of UNIX with its kernel ported from the
PDP-11 to the ARM1176 of the first Raspberry Pi.  `usr/sys/sys` is the machine
independent kernel, `usr/sys/bcm283x` the port (traps, interrupt controller, SD
card, UART, page tables), `usr/src` and the rest the user programs and libraries.
This project is about the kernel, and about the one user program whose correctness is a
matter of lost messages and time-outs, the packet driver of uucp.

**What runs concurrently.**  One processor; a process in the kernel is never
preempted by another process (`trap_tail` calls `qswtch` only for an interrupt
of user mode).  It loses the processor where it calls `sleep`, directly or inside
a routine that waits for the disk.  Interrupts (disk, clock, UART) come between
any two instructions at which they are enabled: `spl1` to `spl7` all mask every
interrupt on this machine, `spl0` enables them, `splx` restores
(`bcm283x/dev/bcm283x_irq.c:353-407`).  So the interesting interleavings are: a
process against interrupt handlers, and processes against each other at every
`sleep`.  This decides the grain of the actions in every module: an action is the
code between two places where something else can happen that matters.

**Components, state, operations, interaction.**

| component | source | state | operations | talks to |
|---|---|---|---|---|
| buffer cache | `sys/bio.c` | `buf[]`: flags, device and block, available list, device list | getblk, geteblk, bread, breada, bwrite, bdwrite, bawrite, brelse, iowait, iodone, bflush | driver (strategy), driver's interrupt (iodone), sleep/wakeup; used by everything that touches a file |
| SD driver | `bcm283x/dev/sdx.c` | `sdxtab`: queue, active | sdxstrategy, sdxstart, sdxintr | cache, controller |
| sleep and run queues | `sys/slp.c` | `slpque[]`, `runq`, `p_link`, `p_wchan`, `p_stat`, `p_pri` | sleep, wakeup, setrun, setrq, swtch, qswtch, sched | everybody; trap_tail, psignal |
| time-outs | `sys/clock.c` | `callout[]` | timeout, clock | terminal drivers |
| core and swap maps | `sys/malloc.c` | `coremap`, `swapmap`, `runin` | malloc, mfree | fork, exec, expand, exit, text, swapper |
| pipes | `sys/pipe.c` | inode lock, IREAD/IWRITE, size, offset, counts | pipe, readp, writep, plock, prele | files, inodes, fork, close, signals, update |
| files | `sys/fio.c`, `sys2.c` | `file[]`: `f_count`, offset | falloc, getf, closef, open, dup | inodes, pipes, devices |
| inode table | `sys/iget.c` | `inode[]`: lock, count, number | iget, iput, iupdat, itrunc | cache, free lists |
| free lists | `sys/alloc.c` | super block: free blocks, free i-nodes, locks | alloc, free, ialloc, ifree, update | cache, inode table |
| names | `sys/nami.c`, `sys4.c` | directories | namei, wdir, link, unlink | inode table |
| processes | `sys/sys1.c`, `slp.c`, `main.c` | `proc[]` | fork, exec, exit, wait | maps, text, signals |
| signals, tracing | `sys/sig.c` | `p_sig`, `ipc` | psignal, issig, psig, stop, ptrace | sleep, exit |
| text and swapping | `sys/text.c`, `slp.c` | `text[]`, SLOAD, SLOCK, `runout` | xalloc, xfree, xccdec, xswap, swapin, sched | maps, cache (swap) |
| terminals | `sys/tty.c`, `prim.c`, `bcm283x/dev/bcm283x_pl011.c` | clists, `t_state` | ttyinput, canon, ttwrite, ttstart, start, xint | time-outs, sleep |
| packet driver | `cmd/uucp/pk0.c`, `pk1.c` | `struct pack`: windows, buffers, messages to send | pkopen, pkread, pkwrite, pkgetpack, pkoutput | its peer, over a telephone line |

**What is hard.**  Flags such as B_WANTED, IWANT, IREAD, `runin` and `runout` pair
every sleep with a wakeup, and each pairing is a chance to lose one.  State is
tested at `spl0` and used after `spl6`.  Locks are held across disk transfers.
Fixed tables overflow.  Transfers fail in the middle of compound operations.
`PROJECT.json` lists these as hazards, at the line where they bite, with the
property that covers each or the reason none does yet.

**What makes each component correct.**  Cache: one buffer per block, every buffer
either on the available list or owned by exactly one party, getblk returns the
block asked for, no write is lost, no sleeper forgotten, no deadlock with enough
buffers.  Queues: each process is on the one list its state says, wakeup wakes
all.  Time-outs: each call runs in its tick.  Maps: no unit lost or given twice.
Pipes: a FIFO with end-of-file and EPIPE at the right moments and no sleeper
forgotten.  Inodes: an i-node in one slot, with one holder, counts equal to references,
given to one file.  Processes: every child is heard of once, by its parent or by init; a stopped
process has a tracer; the tracers' shared structure is never left locked.  Terminals:
output never comes to rest, lines are counted right, readers are told.  Packets: read
as they were written, in order, once.  Free blocks (planned): no block in two places.

## 2. Modules

Abstract specifications are in modules of their own and are the `PROPERTY` of a
run, through `INSTANCE ... WITH`.

| module | models | abstract | run module |
|---|---|---|---|
| `BufferCache` | `bio.c` + `sdx.c` | `BlockStore` | `MCBufferCache` |
| `KernelLists` | unlinking from a list | | |
| `Callout` | `timeout`, `clock` | `Timers` | itself |
| `ResourceMap` | `malloc.c`, the `runin` handshake | `Arena` | itself |
| `Pipe` | `pipe.c`, parts of `fio.c`, `iget.c`, `alloc.c` | `PipeFifo` | `MCPipe` |
| `SleepQueue` | `slp.c` queues, `trap_tail`, `psignal` | | `MCSleepQueue` |
| `InodeTable` | `iget.c`, `ialloc`, `ifree`, `update`, open, creat, unlink, close | | `MCInodeTable` |
| `ProcLife` | fork, exit, wait (`sys1.c`, `slp.c`), `sig.c` | `Processes` | `MCProcLife` |
| `Tty` | `tty.c` on top of `bcm283x_pl011.c` | | `MCTty` |
| `Packet` | `cmd/uucp/pk0.c`, `pk1.c`, both ends and the line | `ReliableLine` | `MCPacket` |
| `BufferCacheProofs`, `TableProofs`, `PipeProofs`, `ProcLifeProofs`, `InodeTableProofs`, `TtyProofs`, `SleepQueueProofs`, `PacketProofs` | the theorems | | |

Operators whose name has a suffix after an underscore (`Zombie_NoInit`) are
mutants: the plausible bug a property is shown to catch.  No specification uses
them.

### BufferCache

A buffer has `flags` (the set of its B_ bits), `assoc` (its device and block, or
`NODEV`) and `data`; `free` is the available list, `actq` and `active` the driver's
queue.  The routines of `bio.c` and `sdx.c` (`Notavail`, `Brelse`, `Iodone`,
`Sdxstart`, `Sdxstrategy`, `BwriteStart`) are operators from a cache state to a
cache state, composed as the code calls them, so that for instance a `brelse`
called by `iodone` in the interrupt is the same operator as the one a process
calls.  `cur` is the process that has the processor; only `Sdxintr` can come
between two of its steps, and only where interrupts are enabled.  `getblk` is cut
between its search and its test of B_BUSY, because there the code is at spl0;
`bwrite` is cut around `b_flags |= B_AGE`, which compiles to a load and a store.
One device is modelled, with a set of block numbers of which some may be outside
the volume.  `iofinish` of the controller is external: it moves the data, or
fails.  The constant `Faults` chooses what the environment may do: `"finish"`
(transfers somebody waits for fail), `"afinish"` (asynchronous ones too), `"split"`
(the interrupt may come between the load and the store of B_AGE).  swap() and
physio() use private headers and are left out.

### Callout

The table is the sequence of entries before the terminator.  The clock's loop is
cut after each call it runs, since that call may itself call `timeout`; calls that
have run keep their slot until the loop is over, as in the code.  A delay of 0
asked for by a running call runs in the same tick.  `state` records a panic or a
store past the array.

### ResourceMap

`map` is the sequence of entries before the zero size, `segs` what callers hold.
`malloc` leaves a stale `m_addr` in the terminator; `mfree` tests `m_size` wherever
that could decide anything, except at `a+size == bp->m_addr` in the first branch
(line 58), where a stale address at the end of the map would add a size of 0:
harmless.  The swapper is the client that waits: `SchedSwapin` fails, sets `runin`
and sleeps in one step, because nothing else runs between the search for a victim
and that sleep.  A process with a shared text needs two allocations; `swapin`
gives the first back if the second fails, which is left to the text module.

### Pipe

One pipe, its inode and two files.  The lock is held across `readi`, `writei` and
`iupdat`, so these are the cuts.  Signals end a sleep for data or room and leave
the call by the non-local goto; `setrun` of a sleeper wakes everybody on the
channel, except when the signal was found on the way to sleep, so both outcomes
are in `Signal`.  `update()` takes the lock and an extra reference behind
everybody's back.  With `IOErrors`, `writei` may fail half way: `writep` goes on
with the rest (lines 180-186), with `u_error` still set, and the bytes of the
block that failed may come back as something else (`Junk`); `Written` is the prefix
that was stored, `Spoilt` what a failed piece leaves behind it.

### SleepQueue

The lists as pointers: heads `slpque[h]` and `runq`, links `p_link`.  `WakeStep` is
one round of the loop of `wakeup` with its locals `p` and `q`, up to its call of
`setrun`, which may call `wakeup` for the swapper (`CallSwapper`).  `runout` is
cleared before that call, so the recursion is exactly one deep and needs no
RECURSIVE operator.  `Hash` is a constant function from channels to buckets, so
that the runs can choose collisions.  `window` is the moment in `sleep` between
`spl0()` and `swtch()`.  Abstracted: which runnable process `swtch` prefers (any),
swap transfers (one step), `runin` (any channel), zombies.

### InodeTable

`inode` is the table, `dinode` the i-list on the disk as the cache shows it, `sinode`
and `silock` the list of free i-nodes of the super block, `dir` the entries, `u` the
locals of the call each process is in.  A process keeps the processor (`cur`) until it
sleeps for ILOCK, for `s_ilock` or for the disk, and the actions are the pieces of code
between branches and sleeps; so `iput(dp); iget(d_ino)` in namei, or the `iput` and the
`goto loop` of ialloc, are several actions that nobody gets between.  Each name is in
a directory of its own: namei's lock of the directory is `dlock`, and since the
directory is locked from before its blocks are read until the entry is used, the
search is one step.  Each i-node is in a block of its own of the i-list, which is the
finest interleaving of ialloc's search.  A slot keeps the mode and links of its last
user until the i-node has been read, as in the code: this is what makes the `iput`
after a failed read dangerous.  Some slots may belong to inodes outside the model, so
that the table can be full.  Abstracted: permissions (access fails or not), data
blocks, times, mount points, link, the super block on the disk, and more than one
open file for each process.

### ProcLife

The entries of `proc[]` with `p_stat`, `p_ppid`, `p_sig` and the flags STRC and SWTED;
`ipc`, the one structure through which all tracers speak to their children; and `pc`,
where each process is.  An action is the code between two places where a process gives
up the processor: the sleep of `wait`, the two sleeps of `ptrace`, the switch in `stop`,
the swap of `newproc` without core (during which the parent is SIDL and it is the child
that sleeps), and the closes at the beginning of `exit`.  What `exit` does from SZOMB on,
it does without a pause (`Zombie`).  Process ids are entries, so an id is used again at
once, which is harsher than `newproc`; loops that take the first entry that fits take
any.  `u_signal` is left open: a signal of a process that is not traced is ignored,
caught or fatal.  The abstract specification, `Processes`, is a tree of the living in
which the dead wait to be buried.

### Tty

One terminal: the raw, canonical and output queues as sequences or counts that share one
pool of cblocks, `t_delct` as a char, the bits TIMEOUT, TTSTOP and ASLEEP of `t_state`,
the mask bit and the transmit FIFO of the UART, and the number of `ttrstrt` time-outs
under way.  The routines are operators from a terminal to a terminal, composed as the
code calls them; a handler is one action (`IrqKey`, `IrqTx`, `Ttrstrt`), and the steps of
a process are cut where an interrupt matters: between the tests in `ttwrite` and
`wflushtty` and the sleep nothing comes (spl5), between `wflushtty` and the new flags of
TIOCSETP, and around `canon`'s `t_delct--` something does.  `IrqKey` handles a key and
then the transmitter, with the request that was read before, as `bcm283x_pl011_irq`
does.  External: the FIFO, which asks while it is at or below its level.

### Packet

`pk` is `struct pack` of each end, with the fields' own names: window positions `ps`, `pr`,
`rpr`, `nxtps`, `pscopy`, the states and contents of the output and input places, the
pool of input buffers, and the sets of messages to send (`msg`) and to repeat (`rmsg`).
`line` holds the packets on their way to each end, in order; it may lose a packet, damage
its header or its contents, and deliver it after the alarm.  Each end is a sequential
program that yields only in `pkgetpack`, so an action is the code between two calls of
it.  The two uucicos take turns to write and to read (`Burst`), as `gwrdata` and
`grddata` do.  `sys/pk.h`, with the values of WINDOWS and of the message numbers, is not in
the repository: WINDOWS and the order of `Messages`, of which `pkoutput` sends the first, are
constants.  `2 * WINDOWS <= MOD` is assumed; `pkdata` relies on it to find a place
outside the window for a packet that nobody has looked at.

## 3. Runs

All runs finish within about two minutes with two workers.  Every
property of a run has a mutant in `PROJECT.json` that TLC finds.

| run | instance | properties | shows |
|---|---|---|---|
| `bufcache` | 2 processes, 3 buffers, 2 blocks, failing transfers | BusyIffNotAvailable, Accounted, NoLostWakeup, RightBlock, NotHungUp | no buffer leaks, no sleeper is forgotten, getblk is right, no deadlock when buffers outnumber processes |
| `bufcache_store` | 2 processes, 2 buffers, 2 blocks, 2 values, interrupts inside B_AGE | NoAlias, DriverBusy, ImplementsBlockStore | to its callers the cache is a store only the holder of a block changes, even when the race on B_AGE leaks a buffer |
| `bufcache_live` | 2 processes, 1 buffer | IowaitEnds, SleepersWake | under fairness nobody sleeps for ever |
| `callout` | 3 calls, delays 0 to 3 | ImplementsTimers | every call runs in its tick |
| `resmap` | a few units of core, several sizes | MapSorted, HolesBounded, NoIdleRoom, ImplementsArena | no core lost or given twice; the swapper never sleeps with room |
| `pipe` | 3 processes, PIPSIZ 2, a write of 3 | NoLostWakeup, SizeBound, RefCounts, OneHolder, ImplementsFifo | two readers or two writers share the flags and nobody is forgotten; what is read is what was written |
| `pipe_live` | 2 processes, PIPSIZ 1, failing file system | ImplementsFifo, HangupSeen | calls that succeed keep the promise of a FIFO although others fail; readers and writers notice the other end closing |
| `inodes` | 2 processes, 2 names, 2 i-nodes, 2 slots, NICINOD 1, one failing transfer | OneSlot, RefCounts, OneHolder, NoLostWakeup, LinkedIsLive | one slot, one holder and the right count for every i-node whatever fails; a name leads to a file in use as long as nothing failed |
| `sleepq` | 3 processes, 2 channels, the swapper, buckets apart | QueuesOK, WakesAll, SwapperCalled | the lists stay apart, wakeup wakes all, the swapper is called |
| `proclife` | init and 4 other entries, 1 signal, 2 pending | Heard, IpcHeld, StoppedHasTracer, ImplementsProcesses | every death and stop is heard of; tracing never hangs; processes form a tree |
| `packet` | MOD 4, window 2, turns of 4 packets, 2 faults | BuffersOK, Aligned, ImplementsReliableLine | what is written at one end is read at the other, in order, once, whatever the line does |
| `tty` | 1 reader, 2 writers, queues of 3 characters in all, water marks 0, FIFO of 1 | OutputMoves, DelctRight, ReadersTold | output keeps moving, lines are counted, readers are told |

Where a module has a TypeOK, it is a conjunct of one of its properties (MapSorted, SizeBound,
OneSlot, QueuesOK, StoppedHasTracer), or proved (`BufferCache`).

### Statements of the code that do not hold

Each is shown by a change of a constant, or by an invariant the runs leave out.

- `TableFits` of `Callout` with `NCALL = 3` and `Delays = {1, 2}`.  `clock.c:169-170` says
  "The panic is there because there is nothing intelligent to be done if an entry won't
  fit."  `timeout` decides from the slot of the new entry (`clock.c:185`), not from the
  number of entries: one that sorts before the last is accepted and moves the terminator
  to `callout[NCALL]`.
- `WakesAll` of `SleepQueue` with `Hash <- Together`.  `slp.c:98` says "Wake up all
  processes sleeping on chan."  `wakeup` keeps the predecessor of p across `setrun`, which
  may call `wakeup(&runout)`; if `&runout` is in the same bucket and the predecessor is the
  swapper, the outer loop stores the rest of the bucket into its `p_link`, and what is behind
  the swapper on the run queue is lost.
- `NotDisturbed` of `SleepQueue`.  `slp.c:39-40` says "when pri<=PZERO a signal cannot
  disturb the sleep".  `trap_tail` calls `setpri` for interrupts of kernel mode too: one
  between sleep's `spl0()` and the switch replaces the priority that sleep has just set.
- `IpcHeld` of `ProcLife` with `KernelTail = TRUE`.  `trap_tail` also calls `psig` for
  interrupts of kernel mode (`traps.c:23-25`): a process that has been woken in `ptrace`
  and is interrupted before it goes on may exit there, with `ipc` locked for ever, or stop
  in the middle of the call.
Three more races of the cache are shown by changing a constant of `MCBufferCache.cfg`.
With `"split"` in `Faults`, BusyIffNotAvailable (`h/buf.h:15-17`) fails: the interrupt
between the load and the store of B_AGE brings B_BUSY back on a buffer that is on
the available list, which nobody will ever release.  With `"afinish"`, RightBlock
(`bio.c:266-267`) fails: an asynchronous transfer fails between getblk's search and
its test of B_BUSY, and the buffer found has lost its block.  With no more buffers
than processes, NotHungUp (`bio.c:99-100`) fails: each process in breada holds one
buffer and waits for another.

Two more of `InodeTable`.  `SinodeBound` (`alloc.c:134-139`, `alloc.c:215-217`) fails
when it is added to `MCInodeTable.cfg`.  The label `loop` of ialloc is behind the wait for
`s_ilock`: a process that finds the i-node it took from the list in use after all (its
iupdat failed earlier, or the search noted it between two owners) starts a second
search beside the first.  The search that ends first clears `s_ilock`, ifree fills
`s_inode[]`, and the other search stores one more before it tests `s_ninode`.  The model
stops there.  And LinkedIsLive fails without its hypothesis `~eio` when iget can fail:
the slot taken still has `i_nlink` 0 of the removed file that used it last, so the
`iput` after the failed read (`iget.c:263-265`) frees the i-node of a file that has a
name and, if the block can be read by then, clears its mode on the disk.

Two of `Packet` and `Tty`, which the models contain.  With `WINDOWS = 1` and
`GETRIES = 4` a data packet can arrive when no input buffer is left; `pkgetpack` then
uses the null pointer before it tests it (`pk1.c:178-180`), and the model stops that end
(`Fail`).  And an interrupt between `canon`'s `getc` of a delimiter and its `t_delct--`, or
within the latter, makes `t_delct` wrong until the queue is flushed (`tty.c:376-379`): too
large, and a read returns 0 as at the end of the file; too small, and a reader sleeps
with a line there.  `lost` records that it happened, and DelctRight speaks of the rest.
Read off while modelling, without a property: a stop key in the same interrupt as a
request of the transmitter does not stop it, since `xint` sends and sets the mask bit again
after `rint` cleared it (`bcm283x_pl011.c:544-550`); `xint` does not wait for the end of a
delay either; a line of exactly CANBSIZ-2 characters leaves its delimiter for the next read, which
returns 0; TIOCSETN between raw and cooked mode leaves `t_delct` as it was; `psig`
calls `sendsig` with the address 1 for an ignored signal that a tracer lets through.

**Why the bounds are enough.**  The cache treats processes, blocks and buffers
alike and its decisions involve two parties: two processes on the same or on
different blocks, against the interrupt, with one buffer more or one fewer than
they need, produce every branch (coverage shows every action fire); the proofs
below remove the bound for the safety properties.  For `Callout` three calls put an
entry in front of, between and behind others, equal and different delays; NCALL is
large enough that it never fills.  For
`ResourceMap` freed segments meet no, one and two neighbours.  For `Pipe`, a write
longer than PIPSIZ takes two pieces and meets a full pipe; three processes give
two readers or two writers for one flag.  For `InodeTable`, two processes reach every
action, among them the full table, the second look at a stale entry of `s_inode[]` and
two searches at once; besides the reads of ialloc's search, which may fail at any time,
at most one transfer fails (`Fails`), which also bounds `i_nlink` below.  For
`SleepQueue`, three processes besides the swapper give a predecessor, the process woken
and a successor in one bucket.  For `ProcLife`, four processes besides init give a
grandparent, a tracer, its traced child and a second tracer that waits for `ipc`; with one
signal a process has none or some, which is all that `issig` and `stop` tell apart, and two
processes have one at the same time (`MaxSignalled`): two traced children, or one and
its tracer.  For
`Packet`, turns of four packets over a window of two with numbers modulo four make every
number come round, and a fault may hit a packet and its repetition or acknowledgement;
contents are numbers modulo 8, so a packet cannot pass for one a full round of sequence numbers
away.  For `Tty`, water marks of 0, a FIFO of one character and three cblocks make every
queue fill and run empty; two writers share ASLEEP.  CHECK_DEADLOCK is off where the system may stop: all calls pending and a
panic (`Callout`), the pipe with every descriptor closed or every process waiting
for a peer (`Pipe`), processes asleep with nobody to wake them (`SleepQueue`), the
overflow of `s_inode[]` (`InodeTable`), both ends given up (`Packet`), and a cache with as many processes as buffers,
one of which may be lost to the race on B_AGE (`bufcache_store`).  A block outside the volume, which the driver refuses, is in
no run: the proofs cover it, since they hold for every set `BadBlocks`.

**Fairness.**  `BufferCache`: strong fairness of the disk interrupt (it stays
pending while it is masked, and every routine unmasks in the end), of the steps of
a process inside the cache (woken at PRIBIO, it is dispatched before any process
in user mode, so it runs again and again), and of a caller's release of a buffer
(no caller keeps one for ever).  SleepersWake promises that a sleeper is woken, not
that it gets the buffer: `getblk` makes no such promise, another process may be
quicker each time.  `Pipe`: weak fairness of the disk, strong fairness of taking
the lock, since a process woken at PINOD or PPIPE is dispatched before any process
gets back to user mode to lock the pipe again; readers and writers themselves need
not call anything.

## 4. Proofs

Each theorem holds for every value of the constants that satisfies the named assumptions
of its module; where it needs more, the hypothesis is part of its statement.  All have the
same shape.  The property is not inductive, so there is an `IInv` that is; one lemma per
action (`ReadStartKeeps`, `ZombieKeeps`, ...) shows that the action keeps it; `InitIInv`
and `NextKeeps` collect them; and the theorems follow by PTL.  TLC checked every `IInv` on
the bounds of the run before it was proved.

| module | theorems | hypotheses |
|---|---|---|
| `BufferCacheProofs` | CacheInvariant, CacheTypes, CacheAvailable, CacheAccounted, CacheNoAlias, CacheNoLostWakeup, CacheDriverBusy, CacheRightBlock, CacheClean, CacheImplementsBlockStore, CacheHangsOnlyAhead, CacheNotHungUp | `Faults \subseteq {"finish"}`; the last two a process, the last more buffers than processes, finitely many |
| `TableProofs` | MapInvariant, MapIsSorted, MapNoIdleRoom, MapHolesBounded, MapImplementsArena, CalloutInvariant, CalloutImplementsTimers | |
| `PipeProofs` | PipeInvariant, PipeOneHolder, PipeNoLostWakeup, PipeRefCounts, PipeSizeBound, PipeImplementsFifo | |
| `ProcLifeProofs` | LifeInvariant, WaitHears, TracersTakeTurns, StoppedAreTraced, LifeImplementsProcesses | `KernelTail = FALSE` |
| `InodeTableProofs` | InodeInvariant, InodeOneSlot, InodeRefCounts, InodeOneHolder, InodeNoLostWakeup, InodeLinkedIsLive | |
| `TtyProofs` | TtyInvariant, TtyOutputMoves, TtyDelctRight, TtyReadersTold | |
| `SleepQueueProofs` | SleepInvariant, QueuesApart, WakeupWakesAll, SwapperIsCalled | `BucketApart`: no other channel is in the bucket of `&runout` |
| `PacketProofs` | PacketInvariant, PacketBuffersOK, PacketAligned, PacketImplementsReliableLine | |

The hypotheses on the faults, on KernelTail, on the number of buffers and on the buckets
are needed: without them a property fails (section 3; with
`Hash <- Together` both QueuesOK and WakesAll do, while TLC finds SwapperCalled to hold there
too).  The linker decides whether the last is true of a kernel: `HASH` takes six bits of
the address of `runout`.
The first part of `BufferCacheProofs` has the facts about lists the kernel's queues need:
what appending, prepending, taking the head and unlinking do to the members and to the
absence of duplicates.

**The cache.**  `IInv` adds to the properties: who may own the processor and
sleep where (`CpuOK`), which locals are live at which point and that a buffer just
obtained is on no queue (`LocalsOK`), that the driver's queue has no duplicates,
nothing done and nothing in error, and that a transfer somebody will wait for is on
it (`QueueOK`), and what association a process relies on between two steps, with
the states a free buffer cannot be in (`AssocOK`).  The last one is the heart: a
buffer in error never stays associated once it is free, so a buffer found by the
search carries no old error.

The argument has four layers.  Lemmas about the routines give what `Brelse`,
`Iodone`, `Sdxstrategy` and so on change, field by field.  Every routine ends in one
of three outcomes for the buffer it works on: freed, queued, or refused by the
driver; `FreedKeeps`, `QueuedKeeps` and `RefusedKeeps` show that each outcome keeps
the parts of the invariant that speak of the cache.  One lemma per action
(`GotBreadKeeps`, `BwriteKeeps`, `SdxintrKeeps`, ...) reduces the action to an
outcome and checks the process's own part.

A by-product: `AssocOK` says that `getblk` never returns a buffer with B_ERROR, so
the branch of `update()` that skips the super block without releasing the buffer
(`alloc.c:297-298`) is never taken.

The second half of the module is the refinement of `BlockStore`.  `StoreOf` is the store
that a state of the cache stands for: a block has the contents of the buffer that holds a valid copy
of it, or else those on the card.  Each routine changes at most one buffer (`Only`), so
a step is one of four: it is invisible; a write that failed is lost, in nobody's hands; a
caller gets a block; or the holder changes its block, or lets it go.  `getblk` must be able to give a free
buffer another block without a trace; this needs a further invariant, CacheClean: a buffer
that is done, without error and not delayed agrees with the card.  `BlockStore` needs
to tell a view, a pair `<<block, contents>>`, from the null pointer, hence
`ViewAssumption`.  The run `bufcache_store` allows the race on B_AGE ("split") as
well, which the hypothesis of the theorem excludes.

The third part is about deadlock.  Only a breada that reads ahead holds a buffer while it
waits for another (`Ahead`).  `NoCircle` says that of any set of them one asks for a block that none
of the set holds.  It holds because `breada` asks `incore` before it calls `getblk`, so the
newcomer asks for a block that nobody has; and who is in the set already keeps its two
blocks.  `WaitsForIts` says that a sleeper in `getblk` sleeps on the buffer that has its block, also after
others have released and taken it.  Together: if all sleep and no transfer is under way,
somebody sleeps for any buffer, so none is free and each is held by a breada
(CacheHangsOnlyAhead); a count of buffers and processes then gives CacheNotHungUp.  The
kernel is configured with `NBUF` 29 and `NPROC` 150 (`param.h:8`, `param.h:21`): with 29
processes in a read-ahead at once the hang is possible, and CacheHangsOnlyAhead says
that nothing less is enough.

**The maps.**  MapSorted alone is not inductive, since `mfree` of something that is free
already would overlap.  `IInv` says that free and held space are a partition of the whole
(`Partition`, on the sets of units) and that what callers hold is disjoint (`SegsOK`).
`mfree` is then one of four: merged with the hole before it, the one behind it, both, or
none; a lemma for each gives the new holes and what they cover.  MapHolesBounded, which is
what keeps the table from overflowing, is a count: the unit
at the end of every hole but the last is held, by a different caller for each.  The map
implements `Arena`, a set of free units with no order or table.

**Time-outs.**  The invariant is small: no call waits twice, and the entries ahead of the
clock's `p1` have counted down to 0 (`CalloutInv`), so that what a running call inserts goes
behind it.  The work is in the sums along the table, `DueTimes`, a recursive function.  That it
exists is shown by a least counterexample, and so are the facts about it: it never
decreases (`DueGrows`), it is 0 up to an entry exactly if all times so far are
(`DueNowIs`), and two tables with the same times along a stretch are due at the same distance
there (`DueAlong`).  The last one does all three changes: what is inserted splits one time in two, the tick takes
one from all that is behind the first entry not due, the gap that closes was worth 0.
Each action is then one of `Timers`, and the overflow panic a stutter.  The theorem
does not say that the table fits (section 3): the model goes on until the first store past it.

**Pipes.**  NoLostWakeup needs `BothOpen`: who sleeps for data or room does so between two
open ends, although `pipe.c` tests only `i_count`, which `update` raises as well.
RefCounts is a sum over processes and the phases they are in; `CountsKept` and
`WhoCounts` reduce each action to the one process that moves.  PipeImplementsFifo takes
what lies behind the read offset of the file for the queue of `PipeFifo`; `plock`, the waits
and `update` are steps the queue does not see.

**Processes.**  `ParentsLive` (every process but init, also a dead one, has a living
parent), `InitLives` and `SwapsOK` (a parent sleeps for one swap of one child) carry Heard;
`Shape` ties state and place.  LifeImplementsProcesses shows each action to be one of
birth, death, burial or nothing of `Processes`.

**I-nodes.**  `LocksOK` is the centre: ILOCK is set exactly for the slots some process is
at work on, and by one.  With `SlotsOK` (what calls and files refer to are i-nodes of the
volume, and an inode in `iput`'s last phase has one reference) OneSlot follows although `iget`
sleeps in two places.  `SearchOK` says only that with `s_ilock` set somebody searches, not one:
there may be two (section 3).

LinkedIsLive has an invariant of its own, `LInv`, on top of `IInv`.  `LocalsOK`: the number
unlink has looked up is still what the name says, and the name creat has looked up is still
free, since both hold the lock of the directory through all their sleeps; and what iput
frees has no links.  `FilesOK`: no two names have one i-node; an i-node that has a name is in
use and has a link, in its slot if the slot has been filled (`SlotLive`) and else on the
volume (`VolumeLive`); a slot without IUPD and ICHG agrees with the volume, which is why iput
may give it up unwritten; and the i-node creat has made has no name yet (`NewFile`).  Nothing
is assumed of `s_inode[]`, which may name i-nodes in use, or one twice: the test of `i_mode`
in ialloc, after iget, is all that is needed.  A step moves one i-node at most (`OwnStep`);
most move none (`CalmStep`).  After a failed transfer, and after a store past the end of
`s_inode[]`, where the model stops, the theorem says nothing.

**Terminals.**  A handler is a composition of routines, so each routine has a lemma in two
halves.  On the output side: a pause has its time-out, a sleeper its mark or its wakeup
(`Marked`), and output goes on or is at its end with everybody woken (`Moving`).  On the input
side: nothing, a flush, a character, or a character and a delimiter (`InputStep`).  `IInv` adds
that in `canon`, from the first `getc` on, and while the mode is set, the process has
the processor and nobody sleeps for input (`BriefOK`); that no line is empty (`Apart`); and
DelctRight made inductive (`Right`), which speaks of the moment before TIOCSETP ends
raw mode, when the queue has just been flushed, too.  That `t_delct` does not wrap needs `Apart`:
the raw queue then has at most `(TTYHOG + 3) / 2` lines.  The attempt to prove this found the
assumption of the model too weak: it used to be `2 * WIDTH > TTYHOG + 2`, and TLC finds
DelctRight violated for `TTYHOG = 3` and `WIDTH = 3`.  The kernel's 256 and 256 are far from it.

**Sleep queues.**  `List(lk, hd, S)` says that from `hd` along `lk` one meets every member
of S once and then NULL; a lemma each gives what pushing, popping, unlinking behind a
predecessor and a store to a link that is not on the list do to it (`ListPush`, `ListPop`,
`ListUnlink`, `ListFrame`), and `WalkList` that the walk of the model finds the members of a
list.  `Sound` says that the run queue and all buckets are lists, of the runnable and of the
sleepers.  A loop of wakeup is followed by its `p` and `q`: `At` says that `p` is at the
head of what is left, that `q`, if there is one, is the member before it, and that nobody behind sleeps on
the channel.  A round keeps `At` and either ends the loop or leaves one less (`Left`); the
rounds the model allows are then enough, which is an induction on the measure, not on
data (`LoopEnds`).  `setrun` may call `wakeup(&runout)` from within a round; `Made` says
what that changes: one process, and perhaps the swapper, have moved to the run
queue.  With the swapper in a bucket of its own it is never the `q` of the outer loop, so
`At` survives the call (`AtKept`).  Only finitely many processes are assumed, as in
`proc[NPROC]`.

**Packets.**  Numbers are modulo MOD, so a packet on the line and one in a buffer cannot be
ordered by them.  Everything is measured back from the last packet written
(`Back`), where it has an age; the invariant says which ages occur.  For one direction
(`Chan`): what the reader has not read is still in an output buffer, and sent if the
reader is past it (`Writes`); acknowledgements on the line are of what was read and never
step back (`Acked`); data on the line or in an input buffer is less than a window older than
what the reader waits for, and so is each packet compared with one sent before it (`Sent`, `Held`).
As twice the window fits in MOD (`NumbersAssumption`), a number then names one
packet.  Of one end, `Sound` says that the buffers that are taken are the ones the counts and
the window say, and that pool and places make up a window.  A driver routine runs to its end
before anything else does, so `Linked` states the same of an end in the middle of an
action, whose output is not on the line yet; one lemma for each routine keeps it
(`PksackLinked`, `PkdataLinked`, `PkgetpackLinked`, `PkacceptLinked`, `PkoutputLinked`), and
`Joined` is the state between actions.  Loss and damage leave a subsequence, with some
packets damaged (`Thins`), and all parts of `Chan` survive that.  The loop of `pkaccept`
over the places is a recursive function (`Marked`), treated as the sums above.  TLC
checked `IInv` on the run's 745106 states first.  The theorems put no bound on faults, bursts or
turns of the numbers.  An end that finds no input buffer (section 3), or has tried
GETRIES times, fails and takes no further step; what is said of the two holds on.

**Only model-checked.**  Liveness under fairness (IowaitEnds, SleepersWake, HangupSeen), which
is out of the prover's reach, and what the hypotheses above exclude.  Every other property
of a run is stated by a theorem.

## 5. Not modelled

User programs and libraries other than the packet driver: they are sequential, a hundred
and fifty thousand lines of them, and nearly all of the repository by size; the share of
the source that the map covers is small for this reason.  Start-up, page tables, floating
point and the assembly of the trap path; the SD controller below `iostart`/`iofinish`; the
accounting half of `clock`; exec.  Of the terminals: TANDEM, erase, kill and escapes,
TIOCSETN and TIOCSETC, open and close, loss of carrier, and the loads and stores of
`t_state` at spl0 in ioctl (`tty.c:249`, `tty.c:290`) and `canon` (`tty.c:412`), which may bring
back a bit that an interrupt has just cleared.  Of the packet driver: short packets and packets
read in pieces, `pkclose`, the check sums themselves, and that the handshake ends, which
depends on message numbers that are not in the repository.  The PDP-11 files
(`sys/trap.c`, `40/`, `conf/mch.s`) are not part of this kernel.

## 6. Plan

Done, with proofs: `BufferCache`, `ResourceMap`, `Callout`, `Pipe`, `InodeTable`, `ProcLife`,
`Tty`, `SleepQueue`, `Packet`.  Left, in this order; a module that composes two
takes over the run of its parts, so that the number of runs does not grow.

1. `FreeList` (`alloc.c`): the free blocks of the super block with `s_flock` held across
   the disk, failing reads, itrunc and bmap as its clients.  Abstract specification: a
   set of free blocks.
2. Names (`nami.c`, `sys4.c`, `sys2.c`): a tree of directories over `InodeTable`, the lock
   order of namei and unlink, and link's unlocked inode.
3. `SdxDriver` (`sdx.c`): the request queue through `av_forw`, failing `iostart`, range
   test; refines the queue of `BufferCache`.
4. `TextSwap` (`text.c`, `slp.c`): `x_count`, `x_ccount`, XLOCK against the swapper,
   two-step `swapin`; composes with `ResourceMap`.
