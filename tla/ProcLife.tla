------------------------------ MODULE ProcLife ------------------------------
(***************************************************************************)
(* The life of a process: fork and newproc, exit, wait (usr/sys/sys/sys1.c *)
(* and slp.c), the delivery of signals and the tracing of one process by   *)
(* another (usr/sys/sys/sig.c), as seen in the table proc[] and in ipc,    *)
(* the one structure that all tracers share.                               *)
(*                                                                         *)
(* The kernel is not preemptive: an action is the code between two places  *)
(* where a process gives up the processor.  Those are the sleep of wait,   *)
(* the two sleeps of ptrace, the switch in stop, the swap of newproc when  *)
(* there is no core, and the closes at the beginning of exit.              *)
(*                                                                         *)
(* What is left open.  A process is named by its entry in proc[], and so   *)
(* is its process id: a new process gets the id of the last one in its     *)
(* entry at once, where newproc takes 30000 forks to come back to it.      *)
(* Loops over proc[] that take the first entry that fits take any.  Of     *)
(* u_signal only what exit does to it is kept: a signal of a process that  *)
(* is not traced may turn out to be ignored, caught or fatal.              *)
(*                                                                         *)
(* proc[0], the swapper, takes no part.  /etc/init, proc[1], never exits   *)
(* and is sent no signal: exit would panic.                                *)
(***************************************************************************)
EXTENDS Naturals, FiniteSets

CONSTANTS
  Slots,         \* the entries of proc[]
  InitProc,      \* &proc[1]
  None,          \* the process id 0
  Sigs,          \* the signals
  MaxSignalled,  \* bound on the entries with a signal at the same time
  KernelTail     \* whether an interrupt of kernel mode ends in issig and psig

ASSUME SlotsAssumption == InitProc \in Slots /\ None \notin Slots
ASSUME TailAssumption == KernelTail \in BOOLEAN /\ MaxSignalled \in Nat

VARIABLES
  stat,    \* p_stat, "none" for a free entry
  ppid,    \* p_ppid
  sig,     \* p_sig
  flag,    \* STRC and SWTED in p_flag
  pc,      \* where the process is
  tgt,     \* p of ptrace: the entry it found
  ipc      \* ip_lock, and ip_req ("none" for 0, "error" for -1)

vars == <<stat, ppid, sig, flag, pc, tgt, ipc>>

(* The requests of ptrace: 1 to 6, 7 and 9, 8.                             *)
Reqs == {"access", "continue", "kill"}

(* main() has made init.                                                   *)
Init ==
  /\ stat = [s \in Slots |-> IF s = InitProc THEN "SRUN" ELSE "none"]
  /\ ppid = [s \in Slots |-> None]
  /\ sig = [s \in Slots |-> {}] /\ flag = [s \in Slots |-> {}]
  /\ pc = [s \in Slots |-> "user"] /\ tgt = [s \in Slots |-> None]
  /\ ipc = [lock |-> None, req |-> "none"]

At(p, l) == stat[p] = "SRUN" /\ pc[p] = l

Goto(p, l) == pc' = [pc EXCEPT ![p] = l]

(* setrun of the entries in S.                                             *)
Setrun(S) == [s \in Slots |-> IF s \in S THEN "SRUN" ELSE stat[s]]

(* Who sleeps on &ipc; who sleeps on the address of an entry, in wait.     *)
OnIpc == {s \in Slots : stat[s] = "SSLEEP" /\ pc[s] \in {"ipclock", "ipcreq"}}
OnProc(q) == {s \in {q} \cap Slots : stat[s] = "SSLEEP" /\ pc[s] = "wait"}

Children(p) == {c \in Slots : ppid[c] = p}

----------------------------------------------------------------------------
(* newproc fills in a free entry; it does not touch p_sig.                 *)
Enter(p, c) ==
  /\ stat[c] = "none"
  /\ ppid' = [ppid EXCEPT ![c] = p] /\ flag' = [flag EXCEPT ![c] = {}]
  /\ UNCHANGED <<sig, tgt, ipc>>

(* fork with core for the child.  It fails without an effect when there is *)
(* no entry, no swap space, or the user has too many processes.            *)
Fork(p, c) ==
  /\ At(p, "user") /\ Enter(p, c)
  /\ stat' = [stat EXCEPT ![c] = "SRUN"] /\ Goto(c, "user")

(* fork without: the image is written to the swap area.  Meanwhile the     *)
(* parent is SIDL and u_procp is the child, so that it is the child that   *)
(* sleeps for the transfer.                                                *)
ForkSwap(p, c) ==
  /\ At(p, "user") /\ Enter(p, c)
  /\ stat' = [stat EXCEPT ![c] = "SSLEEP", ![p] = "SIDL"] /\ Goto(c, "swap")

ForkSwapped(p, c) ==
  /\ stat[p] = "SIDL" /\ pc[c] = "swap" /\ ppid[c] = p
  /\ stat' = Setrun({p, c}) /\ Goto(c, "user")
  /\ UNCHANGED <<ppid, sig, flag, tgt, ipc>>

----------------------------------------------------------------------------
(* exit(), for the system call or for a signal: no more tracing, and all   *)
(* signals are ignored while it closes its files and gives back its        *)
(* directory, its text and its core, any of which may sleep.               *)
ExitBegins(p) == flag' = [flag EXCEPT ![p] = @ \ {"STRC"}] /\ Goto(p, "exit")

Rexit(p) ==
  /\ At(p, "user") /\ p # InitProc
  /\ ExitBegins(p)
  /\ UNCHANGED <<stat, ppid, sig, tgt, ipc>>

(* Mutants: init is not woken for the children it is given; children keep  *)
(* their dead parent; stopped children are not set free.                   *)
Zombie_NoInit(p) ==
  LET kids == Children(p)
  IN  /\ At(p, "exit")
      /\ ppid' = [s \in Slots |-> IF s \in kids THEN InitProc ELSE ppid[s]]
      /\ stat' = [Setrun({s \in kids : stat[s] = "SSTOP"} \cup OnProc(ppid[p])) EXCEPT ![p] = "SZOMB"]
      /\ UNCHANGED <<sig, flag, pc, tgt, ipc>>

Zombie_KeepKids(p) ==
  /\ At(p, "exit")
  /\ stat' = [Setrun(OnProc(ppid[p])) EXCEPT ![p] = "SZOMB"]
  /\ UNCHANGED <<ppid, sig, flag, pc, tgt, ipc>>

Zombie_KeepStopped(p) ==
  LET kids == Children(p)
  IN  /\ At(p, "exit")
      /\ ppid' = [s \in Slots |-> IF s \in kids THEN InitProc ELSE ppid[s]]
      /\ stat' = [Setrun(OnProc(ppid[p]) \cup (IF kids = {} THEN {} ELSE OnProc(InitProc)))
                    EXCEPT ![p] = "SZOMB"]
      /\ UNCHANGED <<sig, flag, pc, tgt, ipc>>

(* The rest of exit is done without a pause: the process is a zombie, its  *)
(* children are given to init, which is woken, those that were stopped run *)
(* again, and the parent is woken.                                         *)
Zombie(p) ==
  LET kids == Children(p)
      freed == {s \in kids : stat[s] = "SSTOP"}
      woken == OnProc(ppid[p]) \cup (IF kids = {} THEN {} ELSE OnProc(InitProc))
  IN  /\ At(p, "exit")
      /\ ppid' = [s \in Slots |-> IF s \in kids THEN InitProc ELSE ppid[s]]
      /\ stat' = [Setrun(freed \cup woken) EXCEPT ![p] = "SZOMB"]
      /\ UNCHANGED <<sig, flag, pc, tgt, ipc>>

----------------------------------------------------------------------------
(* wait.  The children it can report.                                      *)
Reportable(p) ==
  {c \in Children(p) : stat[c] = "SZOMB" \/ (stat[c] = "SSTOP" /\ "SWTED" \notin flag[c])}

(* issig may find no signal: it has dropped those that are ignored, which  *)
(* it does not do in a process that is traced.                             *)
NoSignal(p) == sig[p] = {} \/ "STRC" \notin flag[p]

Dropped(p) == [sig EXCEPT ![p] = {}]

(* The call, or its loop after the sleep when no signal was found.         *)
Search(p) ==
  \/ At(p, "user") /\ UNCHANGED sig
  \/ At(p, "wait") /\ NoSignal(p) /\ sig' = Dropped(p)

(* A zombie is laid to rest.                                               *)
WaitZombie(p, c) ==
  /\ \/ At(p, "user") /\ sig' = Dropped(c)
     \/ At(p, "wait") /\ NoSignal(p) /\ sig' = [Dropped(p) EXCEPT ![c] = {}]
  /\ c \in Reportable(p) /\ stat[c] = "SZOMB"
  /\ stat' = [stat EXCEPT ![c] = "none"] /\ ppid' = [ppid EXCEPT ![c] = None]
  /\ flag' = [flag EXCEPT ![c] = {}]
  /\ pc' = [pc EXCEPT ![p] = "user", ![c] = "user"]
  /\ UNCHANGED <<tgt, ipc>>

WaitStopped(p, c) ==
  /\ Search(p) /\ c \in Reportable(p) /\ stat[c] = "SSTOP"
  /\ flag' = [flag EXCEPT ![c] = @ \cup {"SWTED"}] /\ Goto(p, "user")
  /\ UNCHANGED <<stat, ppid, tgt, ipc>>

(* Without any child the call fails, with no effect.                       *)
WaitSleep(p) ==
  /\ At(p, "user") \/ At(p, "wait")
  /\ NoSignal(p) /\ sig' = Dropped(p)
  /\ Reportable(p) = {} /\ Children(p) # {}
  /\ stat' = [stat EXCEPT ![p] = "SSLEEP"] /\ Goto(p, "wait")
  /\ UNCHANGED <<ppid, flag, tgt, ipc>>

(* A signal ends the sleep: the non-local goto to the end of the system    *)
(* call, where the signal is looked at again.                              *)
WaitIntr(p) ==
  /\ At(p, "wait") /\ sig[p] # {} /\ Goto(p, "user")
  /\ UNCHANGED <<stat, ppid, sig, flag, tgt, ipc>>

----------------------------------------------------------------------------
(* psignal, for kill, the terminal, the clock or a trap.                   *)
Psignal(q, n) ==
  /\ Cardinality({s \in Slots \ {q} : sig[s] # {}}) < MaxSignalled
  /\ stat[q] # "none" /\ q # InitProc
  /\ sig' = [sig EXCEPT ![q] = @ \cup {n}] /\ stat' = Setrun(OnProc(q))
  /\ UNCHANGED <<ppid, flag, pc, tgt, ipc>>

(* ptrace(0): let the parent trace this process.                           *)
TraceMe(p) ==
  /\ At(p, "user") /\ p # InitProc
  /\ flag' = [flag EXCEPT ![p] = @ \cup {"STRC"}]
  /\ UNCHANGED <<stat, ppid, sig, pc, tgt, ipc>>

(* The end of psig, with the signals sg: one of them is taken off, and the *)
(* process goes on at l, having ignored or caught it, or exits.            *)
Deliver(p, sg, l) ==
  \/ sg = {} /\ sig' = [sig EXCEPT ![p] = {}] /\ Goto(p, l) /\ UNCHANGED flag
  \/ \E n \in sg :
       /\ sig' = [sig EXCEPT ![p] = sg \ {n}]
       /\ ExitBegins(p) \/ (Goto(p, l) /\ UNCHANGED flag)

(* Where issig and psig are called: on the way back to user mode, and, if  *)
(* interrupts of kernel mode end in trap_tail, in the middle of any call.  *)
Tail(p) ==
  /\ At(p, "user") \/ (KernelTail /\ \E l \in {"wait", "ipclock", "ipcreq", "stop"} : At(p, l))
  /\ sig[p] # {}

Psig(p) ==
  /\ Tail(p) /\ "STRC" \notin flag[p]
  /\ Deliver(p, sig[p], pc[p])
  /\ UNCHANGED <<stat, ppid, tgt, ipc>>

(* stop(), after the caller has woken others: the parent is woken and the  *)
(* process stops; a child of init exits instead.                           *)
Stop(p, woken) ==
  \/ /\ ppid[p] # InitProc
     /\ stat' = [Setrun(woken \cup OnProc(ppid[p])) EXCEPT ![p] = "SSTOP"]
     /\ Goto(p, "stop") /\ UNCHANGED flag
  \/ /\ ppid[p] = InitProc
     /\ stat' = Setrun(woken) /\ ExitBegins(p)

PsigStop(p) ==
  /\ Tail(p) /\ "STRC" \in flag[p]
  /\ Stop(p, {})
  /\ UNCHANGED <<ppid, sig, tgt, ipc>>

----------------------------------------------------------------------------
(* A stopped process runs again, in stop.  There is no request for it: it  *)
(* stops once more.                                                        *)
StopAgain(p) ==
  /\ At(p, "stop") /\ ipc.lock # p
  /\ Stop(p, {})
  /\ UNCHANGED <<ppid, sig, tgt, ipc>>

(* procxmt: the request is taken, and whoever waits on &ipc woken.         *)
Xmt(p, r, answer) ==
  /\ At(p, "stop") /\ ipc.lock = p /\ ipc.req = r
  /\ ipc' = [ipc EXCEPT !.req = answer]
  /\ UNCHANGED <<ppid, tgt>>

(* Mutant: the tracer is not woken.                                        *)
XmtAccess_NoWakeup(p) ==
  /\ Xmt(p, "access", "none") \/ Xmt(p, "access", "error")
  /\ Stop(p, {}) /\ UNCHANGED sig

(* A word of the process is read or written, or cannot be; then it stops   *)
(* again.                                                                  *)
XmtAccess(p) ==
  /\ Xmt(p, "access", "none") \/ Xmt(p, "access", "error")
  /\ Stop(p, OnIpc) /\ UNCHANGED sig

(* It goes on, with one signal or with none.                               *)
XmtContinue(p) ==
  /\ Xmt(p, "continue", "none") /\ stat' = Setrun(OnIpc)
  /\ \E sg \in {{}} \cup {{n} : n \in Sigs} : Deliver(p, sg, "user")

XmtKill(p) ==
  /\ Xmt(p, "kill", "none") /\ stat' = Setrun(OnIpc)
  /\ ExitBegins(p) /\ UNCHANGED sig

----------------------------------------------------------------------------
(* ptrace(req) of the stopped child c: the rest of the call when the lock  *)
(* is free, up to the sleep for the answer.                                *)
Request(p, c, r) ==
  /\ ipc.lock = None
  /\ ipc' = [lock |-> c, req |-> r]
  /\ flag' = [flag EXCEPT ![c] = @ \ {"SWTED"}]
  /\ stat' = [Setrun({c}) EXCEPT ![p] = "SSLEEP"]
  /\ tgt' = [tgt EXCEPT ![p] = c] /\ Goto(p, "ipcreq")
  /\ UNCHANGED <<ppid, sig>>

Traceable(p, c) == At(p, "user") /\ stat[c] = "SSTOP" /\ ppid[c] = p

Ptrace(p, c, r) == Traceable(p, c) /\ Request(p, c, r)

PtraceWait(p, c) ==
  /\ Traceable(p, c) /\ ipc.lock # None
  /\ stat' = [stat EXCEPT ![p] = "SSLEEP"] /\ Goto(p, "ipclock")
  /\ tgt' = [tgt EXCEPT ![p] = c]
  /\ UNCHANGED <<ppid, sig, flag, ipc>>

PtraceLocked(p, r) == At(p, "ipclock") /\ Request(p, tgt[p], r)

(* Both loops of ptrace sleep again when the reason has not gone away.     *)
PtraceSleep(p) ==
  /\ (At(p, "ipclock") /\ ipc.lock # None) \/ (At(p, "ipcreq") /\ ipc.req \in Reqs)
  /\ stat' = [stat EXCEPT ![p] = "SSLEEP"]
  /\ UNCHANGED <<ppid, sig, flag, pc, tgt, ipc>>

PtraceDone(p) ==
  /\ At(p, "ipcreq") /\ ipc.req \notin Reqs
  /\ ipc' = [ipc EXCEPT !.lock = None] /\ stat' = Setrun(OnIpc)
  /\ tgt' = [tgt EXCEPT ![p] = None] /\ Goto(p, "user")
  /\ UNCHANGED <<ppid, sig, flag>>

----------------------------------------------------------------------------
Next ==
  \E p \in Slots :
    \/ Rexit(p) \/ Zombie(p) \/ WaitSleep(p) \/ WaitIntr(p)
    \/ TraceMe(p) \/ Psig(p) \/ PsigStop(p)
    \/ StopAgain(p) \/ XmtAccess(p) \/ XmtContinue(p) \/ XmtKill(p)
    \/ PtraceSleep(p) \/ PtraceDone(p)
    \/ \E n \in Sigs : Psignal(p, n)
    \/ \E r \in Reqs : PtraceLocked(p, r)
    \/ \E c \in Slots :
         \/ Fork(p, c) \/ ForkSwap(p, c) \/ ForkSwapped(p, c)
         \/ WaitZombie(p, c) \/ WaitStopped(p, c) \/ PtraceWait(p, c)
         \/ \E r \in Reqs : Ptrace(p, c, r)

Spec == Init /\ [][Next]_vars

----------------------------------------------------------------------------
(* Type invariant; and newproc finds no signal and no flag in the entry of *)
(* a process that is gone.                                                 *)
TypeOK ==
  /\ stat \in [Slots -> {"none", "SSLEEP", "SRUN", "SIDL", "SZOMB", "SSTOP"}]
  /\ ppid \in [Slots -> Slots \cup {None}] /\ tgt \in [Slots -> Slots \cup {None}]
  /\ sig \in [Slots -> SUBSET Sigs] /\ flag \in [Slots -> SUBSET {"STRC", "SWTED"}]
  /\ pc \in [Slots -> {"user", "swap", "exit", "wait", "stop", "ipclock", "ipcreq"}]
  /\ ipc \in [lock : Slots \cup {None}, req : Reqs \cup {"none", "error"}]
  /\ \A s \in Slots : stat[s] = "none" => sig[s] = {} /\ flag[s] = {}

(* wait does not sleep on: while it sleeps, no child of its process is     *)
(* dead or has stopped unreported, also when the child came to it by the   *)
(* death of the child's parent.                                            *)
Heard ==
  \A p \in Slots : stat[p] = "SSLEEP" /\ pc[p] = "wait" => Reportable(p) = {} /\ Children(p) # {}

(* The structure ipc belongs to one tracer at a time.  While a tracer      *)
(* waits for the answer, its child is still the one it found and is about  *)
(* to answer; while one waits for the lock, somebody holds it, and the     *)
(* child found before the wait is still its child and still stopped.       *)
IpcHeld ==
  /\ \A p \in Slots : pc[p] = "ipcreq" =>
       /\ ipc.lock = tgt[p]
       /\ \A q \in Slots : pc[q] = "ipcreq" => p = q
       /\ stat[p] = "SSLEEP" => ipc.req \in Reqs
       /\ ipc.req \in Reqs => At(tgt[p], "stop") /\ ppid[tgt[p]] = p
  /\ ipc.lock # None => \E p \in Slots : pc[p] = "ipcreq"
  /\ \A p \in Slots : pc[p] = "ipclock" =>
       /\ stat[tgt[p]] = "SSTOP" /\ ppid[tgt[p]] = p
       /\ stat[p] = "SSLEEP" => ipc.lock # None

(* Nobody stays stopped for ever: a stopped process has a living parent,   *)
(* other than init, that can let it go on.                                 *)
StoppedHasTracer ==
  /\ TypeOK
  /\ \A p \in Slots : stat[p] = "SSTOP" =>
       /\ "STRC" \in flag[p] /\ pc[p] = "stop"
       /\ ppid[p] # InitProc /\ stat[ppid[p]] \notin {"none", "SZOMB"}

(* What fork, exit and wait promise.                                       *)
Promise == INSTANCE Processes WITH
  Names <- Slots, Root <- InitProc, Nobody <- None,
  living <- {s \in Slots : stat[s] \notin {"none", "SZOMB"}},
  dead <- {s \in Slots : stat[s] = "SZOMB"},
  parent <- ppid

(* The table of processes implements the promise: each process is born of  *)
(* a living one, dies once, leaves its children to init, and is buried     *)
(* once, when its parent has been told.                                    *)
ImplementsProcesses == Promise!Spec
=============================================================================
