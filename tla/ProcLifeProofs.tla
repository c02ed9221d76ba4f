---------------------------- MODULE ProcLifeProofs ----------------------------
(***************************************************************************)
(* The life of a process is what fork, exit, wait and ptrace promise, for  *)
(* any number of entries of proc[] and of signals, as long as an interrupt *)
(* of kernel mode does not end in issig and psig (KernelTail = FALSE).     *)
(***************************************************************************)
EXTENDS ProcLife, TLAPS

(* Where a process can be in each state.  A free entry is as wait left it; *)
(* only the calls that sleep are found asleep; who waits in ptrace waits   *)
(* for a process.                                                          *)
Shape ==
  \A s \in Slots :
    /\ stat[s] = "none" => pc[s] = "user" /\ ppid[s] = None
    /\ stat[s] = "SSLEEP" => pc[s] \in {"swap", "wait", "ipclock", "ipcreq"}
    /\ stat[s] = "SIDL" => pc[s] = "user"
    /\ stat[s] = "SZOMB" => pc[s] = "exit"
    /\ pc[s] = "swap" => stat[s] = "SSLEEP"
    /\ pc[s] = "stop" => "STRC" \in flag[s]
    /\ pc[s] \in {"ipclock", "ipcreq"} => tgt[s] \in Slots

(* init lives for ever.                                                    *)
InitLives ==
  /\ stat[InitProc] \in {"SSLEEP", "SRUN", "SIDL"}
  /\ pc[InitProc] \notin {"swap", "exit", "stop"}
  /\ sig[InitProc] = {} /\ ppid[InitProc] = None

(* All others, the dead included, have a living parent.                    *)
ParentsLive ==
  \A s \in Slots : stat[s] # "none" /\ s # InitProc =>
    ppid[s] \in Slots /\ stat[ppid[s]] \notin {"none", "SZOMB"}

(* A child whose image is being written has a parent that waits for that,  *)
(* and for that only.                                                      *)
SwapsOK ==
  \A c \in Slots : pc[c] = "swap" =>
    /\ stat[ppid[c]] = "SIDL"
    /\ \A d \in Slots : pc[d] = "swap" /\ ppid[d] = ppid[c] => c = d

(* The inductive invariant.                                                *)
IInv ==
  /\ Shape /\ InitLives /\ ParentsLive /\ SwapsOK
  /\ StoppedHasTracer /\ Heard /\ IpcHeld

----------------------------------------------------------------------------
(* fork with core for the child.                                           *)
LEMMA ForkKeeps ==
  ASSUME IInv, NEW p \in Slots, NEW c \in Slots, Fork(p, c)
  PROVE  IInv'
<1> USE SlotsAssumption DEF IInv, StoppedHasTracer, TypeOK, Fork, At, Enter, Goto
<1>1. Shape' BY DEF Shape
<1>2. InitLives' BY DEF InitLives
<1>3. ParentsLive' BY DEF ParentsLive
<1>4. SwapsOK' BY DEF SwapsOK
<1>5. StoppedHasTracer' OBVIOUS
<1>6. Heard' BY DEF Heard, Reportable, Children, Shape
<1>7. IpcHeld' BY DEF IpcHeld, Shape
<1> QED BY <1>1, <1>2, <1>3, <1>4, <1>5, <1>6, <1>7

(* fork that writes the image of the child to the swap area.               *)
LEMMA ForkSwapKeeps ==
  ASSUME IInv, NEW p \in Slots, NEW c \in Slots, ForkSwap(p, c)
  PROVE  IInv'
<1> USE SlotsAssumption DEF IInv, StoppedHasTracer, TypeOK, ForkSwap, At, Enter, Goto
<1>1. Shape' BY DEF Shape
<1>2. InitLives' BY DEF InitLives
<1>3. ParentsLive' BY DEF ParentsLive
<1>4. SwapsOK' BY DEF SwapsOK, Shape, ParentsLive, InitLives
<1>5. StoppedHasTracer' BY DEF ParentsLive, InitLives
<1>6. Heard' BY DEF Heard, Reportable, Children, Shape
<1>7. IpcHeld' BY DEF IpcHeld, Shape
<1> QED BY <1>1, <1>2, <1>3, <1>4, <1>5, <1>6, <1>7

(* The image of the child is on the swap area.                             *)
LEMMA ForkSwappedKeeps ==
  ASSUME IInv, NEW p \in Slots, NEW c \in Slots, ForkSwapped(p, c)
  PROVE  IInv'
<1>1. IpcHeld'
  <2>1. stat[p] = "SIDL" /\ pc[p] = "user" /\ stat[c] = "SSLEEP" /\ pc[c] = "swap"
    BY DEF ForkSwapped, IInv, Shape
  <2>2. \A s \in Slots \ {p, c} : stat'[s] = stat[s] /\ pc'[s] = pc[s]
    BY DEF ForkSwapped, Setrun, Goto, IInv, StoppedHasTracer, TypeOK
  <2>3. stat'[p] = "SRUN" /\ pc'[p] = "user" /\ stat'[c] = "SRUN" /\ pc'[c] = "user"
    BY <2>1 DEF ForkSwapped, Setrun, Goto, IInv, StoppedHasTracer, TypeOK
  <2> QED BY <2>1, <2>2, <2>3 DEF ForkSwapped, IInv, IpcHeld, At, Shape
<1> USE SlotsAssumption DEF IInv, StoppedHasTracer, TypeOK, ForkSwapped, Setrun, Goto
<1>2. Shape' BY DEF Shape
<1>3. InitLives' BY DEF InitLives
<1>4. ParentsLive' BY DEF ParentsLive
<1>5. SwapsOK' BY DEF SwapsOK, Shape, ParentsLive, InitLives
<1>6. StoppedHasTracer' BY DEF ParentsLive, InitLives
<1>7. Heard' BY DEF Heard, Reportable, Children
<1> QED BY <1>1, <1>2, <1>3, <1>4, <1>5, <1>6, <1>7

(* exit begins.                                                            *)
LEMMA RexitKeeps ==
  ASSUME IInv, NEW p \in Slots, Rexit(p)
  PROVE  IInv'
<1> USE SlotsAssumption DEF IInv, StoppedHasTracer, TypeOK, Rexit, ExitBegins, At, Goto
<1>1. Shape' BY DEF Shape
<1>2. InitLives' BY DEF InitLives
<1>3. ParentsLive' BY DEF ParentsLive
<1>4. SwapsOK' BY DEF SwapsOK
<1>5. StoppedHasTracer' OBVIOUS
<1>6. Heard' BY DEF Heard, Reportable, Children
<1>7. IpcHeld' BY DEF IpcHeld
<1> QED BY <1>1, <1>2, <1>3, <1>4, <1>5, <1>6, <1>7

(* exit ends.                                                              *)
LEMMA ZombieKeeps ==
  ASSUME IInv, NEW p \in Slots, Zombie(p)
  PROVE  IInv'
<1>1. Heard'
  <2>1. /\ stat'[p] = "SZOMB"
        /\ \A s \in Slots \ {p} :
             \/ stat'[s] = stat[s] /\ ~(stat[s] = "SSTOP" /\ ppid[s] = p)
             \/ stat'[s] = "SRUN"
        /\ ppid' = [s \in Slots |-> IF ppid[s] = p THEN InitProc ELSE ppid[s]]
        /\ pc' = pc /\ flag' = flag
    BY DEF Zombie, Setrun, OnProc, Children, At
  <2>2. p # InitProc /\ ppid[p] \in Slots
    BY DEF Zombie, At, IInv, InitLives, ParentsLive
  <2>3. ~(stat'[ppid[p]] = "SSLEEP" /\ pc[ppid[p]] = "wait")
    BY <2>1, <2>2 DEF Zombie, Setrun, OnProc
  <2>4. (\E s \in Slots : ppid[s] = p) => ~(stat'[InitProc] = "SSLEEP" /\ pc[InitProc] = "wait")
    BY <2>2, SlotsAssumption DEF Zombie, Setrun, OnProc, Children
  <2>5. SUFFICES ASSUME NEW q \in Slots, stat'[q] = "SSLEEP", pc[q] = "wait"
                 PROVE  Reportable(q)' = {} /\ Children(q)' # {}
    BY <2>1 DEF Heard
  <2>6. q # p /\ q # ppid[p] /\ stat[q] = "SSLEEP" /\ Reportable(q) = {} /\ Children(q) # {}
    BY <2>1, <2>3, <2>5 DEF IInv, Heard
  <2>7. Children(q)' = Children(q)
    BY <2>1, <2>4, <2>5, <2>6, SlotsAssumption DEF Children
  <2>8. ASSUME NEW c \in Children(q) PROVE stat'[c] # "SZOMB" /\ ~(stat'[c] = "SSTOP" /\ "SWTED" \notin flag'[c])
    BY <2>1, <2>6 DEF Reportable, Children
  <2> QED BY <2>6, <2>7, <2>8 DEF Reportable
<1> USE SlotsAssumption DEF IInv, StoppedHasTracer, TypeOK, Zombie, Setrun, OnProc, At, Children
<1>2. Shape' BY DEF Shape
<1>3. InitLives' BY DEF InitLives, Shape
<1>4. ParentsLive' BY DEF ParentsLive, InitLives
<1>5. SwapsOK' BY DEF SwapsOK, Shape, InitLives, ParentsLive
<1>6. StoppedHasTracer' BY DEF Shape, ParentsLive, InitLives, SwapsOK, IpcHeld, Heard, Reportable, Children
<1>7. IpcHeld' BY DEF IpcHeld, Shape, InitLives, ParentsLive
<1> QED BY <1>1, <1>2, <1>3, <1>4, <1>5, <1>6, <1>7

(* wait lays a zombie to rest.                                             *)
LEMMA WaitZombieKeeps ==
  ASSUME IInv, NEW p \in Slots, NEW c \in Slots, WaitZombie(p, c)
  PROVE  IInv'
<1> USE SlotsAssumption DEF IInv, StoppedHasTracer, TypeOK, WaitZombie, Dropped, At
<1>1. Shape' BY DEF Shape
<1>2. InitLives' BY DEF InitLives
<1>3. ParentsLive' BY DEF ParentsLive
<1>4. SwapsOK' BY DEF SwapsOK
<1>5. StoppedHasTracer' OBVIOUS
<1>6. Heard' BY DEF Heard, Reportable, Children
<1>7. IpcHeld' BY DEF IpcHeld, Shape
<1> QED BY <1>1, <1>2, <1>3, <1>4, <1>5, <1>6, <1>7

(* wait reports a stopped child.                                           *)
LEMMA WaitStoppedKeeps ==
  ASSUME IInv, NEW p \in Slots, NEW c \in Slots, WaitStopped(p, c)
  PROVE  IInv'
<1> USE SlotsAssumption DEF IInv, StoppedHasTracer, TypeOK, WaitStopped, Search, Dropped, At, Goto
<1>1. Shape' BY DEF Shape
<1>2. InitLives' BY DEF InitLives
<1>3. ParentsLive' BY DEF ParentsLive
<1>4. SwapsOK' BY DEF SwapsOK
<1>5. StoppedHasTracer' OBVIOUS
<1>6. Heard' BY DEF Heard, Reportable, Children
<1>7. IpcHeld' BY DEF IpcHeld
<1> QED BY <1>1, <1>2, <1>3, <1>4, <1>5, <1>6, <1>7

(* wait sleeps.                                                            *)
LEMMA WaitSleepKeeps ==
  ASSUME IInv, NEW p \in Slots, WaitSleep(p)
  PROVE  IInv'
<1> USE SlotsAssumption DEF IInv, StoppedHasTracer, TypeOK, WaitSleep, Dropped, At, Goto
<1>1. Shape' BY DEF Shape
<1>2. InitLives' BY DEF InitLives
<1>3. ParentsLive' BY DEF ParentsLive
<1>4. SwapsOK' BY DEF SwapsOK
<1>5. StoppedHasTracer' OBVIOUS
<1>6. Heard' BY DEF Heard, Reportable, Children
<1>7. IpcHeld' BY DEF IpcHeld
<1> QED BY <1>1, <1>2, <1>3, <1>4, <1>5, <1>6, <1>7

(* A signal ends the sleep of wait.                                        *)
LEMMA WaitIntrKeeps ==
  ASSUME IInv, NEW p \in Slots, WaitIntr(p)
  PROVE  IInv'
<1> USE SlotsAssumption DEF IInv, StoppedHasTracer, TypeOK, WaitIntr, At, Goto
<1>1. Shape' BY DEF Shape
<1>2. InitLives' BY DEF InitLives
<1>3. ParentsLive' BY DEF ParentsLive
<1>4. SwapsOK' BY DEF SwapsOK
<1>5. StoppedHasTracer' OBVIOUS
<1>6. Heard' BY DEF Heard, Reportable, Children
<1>7. IpcHeld' BY DEF IpcHeld
<1> QED BY <1>1, <1>2, <1>3, <1>4, <1>5, <1>6, <1>7

(* psignal.                                                                *)
LEMMA PsignalKeeps ==
  ASSUME IInv, NEW p \in Slots, NEW n \in Sigs, Psignal(p, n)
  PROVE  IInv'
<1>1. IpcHeld'
  <2>1. \A s \in Slots : stat'[s] = stat[s] \/ (stat[s] = "SSLEEP" /\ pc[s] = "wait" /\ stat'[s] = "SRUN")
    BY DEF Psignal, Setrun, OnProc, IInv, StoppedHasTracer, TypeOK
  <2> QED BY <2>1 DEF Psignal, IInv, IpcHeld, At, Shape
<1> USE SlotsAssumption DEF IInv, StoppedHasTracer, TypeOK, Psignal, Setrun, OnProc
<1>2. Shape' BY DEF Shape
<1>3. InitLives' BY DEF InitLives
<1>4. ParentsLive' BY DEF ParentsLive
<1>5. SwapsOK' BY DEF SwapsOK, Shape, ParentsLive, InitLives
<1>6. StoppedHasTracer' BY DEF ParentsLive, InitLives
<1>7. Heard' BY DEF Heard, Reportable, Children
<1> QED BY <1>1, <1>2, <1>3, <1>4, <1>5, <1>6, <1>7

(* ptrace(0).                                                              *)
LEMMA TraceMeKeeps ==
  ASSUME IInv, NEW p \in Slots, TraceMe(p)
  PROVE  IInv'
<1> USE SlotsAssumption DEF IInv, StoppedHasTracer, TypeOK, TraceMe, At
<1>1. Shape' BY DEF Shape
<1>2. InitLives' BY DEF InitLives
<1>3. ParentsLive' BY DEF ParentsLive
<1>4. SwapsOK' BY DEF SwapsOK
<1>5. StoppedHasTracer' OBVIOUS
<1>6. Heard' BY DEF Heard, Reportable, Children
<1>7. IpcHeld' BY DEF IpcHeld
<1> QED BY <1>1, <1>2, <1>3, <1>4, <1>5, <1>6, <1>7

(* psig of a process that is not traced.                                   *)
LEMMA PsigKeeps ==
  ASSUME KernelTail = FALSE, IInv, NEW p \in Slots, Psig(p)
  PROVE  IInv'
<1> USE SlotsAssumption DEF IInv, StoppedHasTracer, TypeOK, Psig, Tail, Deliver, ExitBegins, At, Goto
<1>1. Shape' BY DEF Shape
<1>2. InitLives' BY DEF InitLives
<1>3. ParentsLive' BY DEF ParentsLive
<1>4. SwapsOK' BY DEF SwapsOK
<1>5. StoppedHasTracer' OBVIOUS
<1>6. Heard' BY DEF Heard, Reportable, Children
<1>7. IpcHeld' BY DEF IpcHeld, Shape
<1> QED BY <1>1, <1>2, <1>3, <1>4, <1>5, <1>6, <1>7

(* stop(), for psig and for procxmt, which has answered and woken the      *)
(* tracers before.                                                         *)
LEMMA StopKeeps ==
  ASSUME IInv, NEW p \in Slots, NEW woken \in SUBSET Slots,
         At(p, "user") \/ At(p, "stop"), "STRC" \in flag[p], p # InitProc,
         Stop(p, woken), UNCHANGED <<ppid, sig, tgt>>,
         \/ woken = {} /\ UNCHANGED ipc /\ (At(p, "user") \/ ipc.lock # p)
         \/ /\ woken = OnIpc /\ ipc.lock = p
            /\ \E a \in {"none", "error"} : ipc' = [ipc EXCEPT !.req = a]
  PROVE  IInv'
<1> DEFINE told == woken \cup OnProc(ppid[p])
<1>1. /\ \A s \in woken : s # p /\ stat[s] = "SSLEEP" /\ pc[s] \in {"ipclock", "ipcreq"}
      /\ \A s \in OnProc(ppid[p]) : s # p /\ stat[s] = "SSLEEP" /\ pc[s] = "wait"
  BY DEF OnIpc, OnProc, At
<1> HIDE DEF told
<1>2. /\ ipc' \in [lock : Slots \cup {None}, req : Reqs \cup {"none", "error"}]
      /\ ipc'.lock = ipc.lock
  BY DEF IInv, StoppedHasTracer, TypeOK
<1>3. ppid[p] \in Slots /\ stat[ppid[p]] \notin {"none", "SZOMB"}
  BY DEF IInv, ParentsLive, At
<1>4. CASE ppid[p] # InitProc
  <2>1. /\ stat' = [s \in Slots |-> IF s = p THEN "SSTOP" ELSE IF s \in told THEN "SRUN" ELSE stat[s]]
        /\ pc' = [pc EXCEPT ![p] = "stop"] /\ flag' = flag
    BY <1>4 DEF told, Stop, Setrun, Goto
  <2> USE DEF told
  <2>2. Shape' BY <1>1, <2>1 DEF IInv, Shape, StoppedHasTracer, TypeOK, At
  <2>3. InitLives' BY <1>1, <2>1, SlotsAssumption DEF IInv, InitLives, StoppedHasTracer, TypeOK, At
  <2>4. ParentsLive' BY <1>1, <2>1 DEF IInv, ParentsLive, StoppedHasTracer, TypeOK, At
  <2>5. SwapsOK' BY <1>1, <2>1 DEF IInv, SwapsOK, Shape, ParentsLive, InitLives, StoppedHasTracer, TypeOK, At
  <2>6. StoppedHasTracer'
    <3>1. TypeOK' BY <1>1, <1>2, <2>1 DEF IInv, StoppedHasTracer, TypeOK, At
    <3> QED BY <1>1, <1>3, <1>4, <2>1, <3>1 DEF IInv, StoppedHasTracer, TypeOK, At, ParentsLive, InitLives
  <2>7. Heard'
    <3>1. stat'[ppid[p]] # "SSLEEP" \/ pc'[ppid[p]] # "wait" BY <1>3, <2>1 DEF OnProc, IInv, StoppedHasTracer, TypeOK
    <3> QED BY <1>1, <2>1, <3>1 DEF IInv, Heard, Reportable, Children, StoppedHasTracer, TypeOK, At
  <2>8. IpcHeld' BY <1>1, <1>2, <1>3, <2>1, SlotsAssumption DEF IInv, IpcHeld, Shape, StoppedHasTracer, TypeOK, At, Reqs, OnIpc
  <2> QED BY <2>2, <2>3, <2>4, <2>5, <2>6, <2>7, <2>8 DEF IInv
<1>5. CASE ppid[p] = InitProc
  <2>1. /\ stat' = [s \in Slots |-> IF s \in woken THEN "SRUN" ELSE stat[s]]
        /\ pc' = [pc EXCEPT ![p] = "exit"] /\ flag' = [flag EXCEPT ![p] = @ \ {"STRC"}]
    BY <1>5 DEF Stop, Setrun, Goto, ExitBegins
  <2> USE DEF told
  <2>2. Shape' BY <1>1, <2>1 DEF IInv, Shape, StoppedHasTracer, TypeOK, At
  <2>3. InitLives' BY <1>1, <2>1, SlotsAssumption DEF IInv, InitLives, StoppedHasTracer, TypeOK, At
  <2>4. ParentsLive' BY <1>1, <2>1 DEF IInv, ParentsLive, StoppedHasTracer, TypeOK, At
  <2>5. SwapsOK' BY <1>1, <2>1 DEF IInv, SwapsOK, Shape, ParentsLive, InitLives, StoppedHasTracer, TypeOK, At
  <2>6. StoppedHasTracer'
    <3>1. TypeOK' BY <1>1, <1>2, <2>1 DEF IInv, StoppedHasTracer, TypeOK, At
    <3> QED BY <1>1, <1>3, <2>1, <3>1 DEF IInv, StoppedHasTracer, TypeOK, At, ParentsLive, InitLives
  <2>7. Heard' BY <1>1, <2>1 DEF IInv, Heard, Reportable, Children, StoppedHasTracer, TypeOK, At
  <2>8. IpcHeld' BY <1>1, <1>2, <1>3, <2>1, SlotsAssumption, <1>5 DEF IInv, IpcHeld, Shape, StoppedHasTracer, TypeOK, At, Reqs, OnIpc
  <2> QED BY <2>2, <2>3, <2>4, <2>5, <2>6, <2>7, <2>8 DEF IInv
<1> QED BY <1>4, <1>5

(* A traced process stops for a signal.                                    *)
LEMMA PsigStopKeeps ==
  ASSUME KernelTail = FALSE, IInv, NEW p \in Slots, PsigStop(p)
  PROVE  IInv'
<1>1. At(p, "user") /\ p # InitProc BY DEF PsigStop, Tail, IInv, InitLives
<1> QED BY <1>1, StopKeeps DEF PsigStop

(* A process that was set running without a request for it stops again.    *)
LEMMA StopAgainKeeps ==
  ASSUME IInv, NEW p \in Slots, StopAgain(p)
  PROVE  IInv'
<1>1. "STRC" \in flag[p] /\ p # InitProc BY DEF StopAgain, At, IInv, Shape, InitLives
<1> QED BY <1>1, StopKeeps DEF StopAgain

(* procxmt answers a request for a word of the process.                    *)
LEMMA XmtAccessKeeps ==
  ASSUME IInv, NEW p \in Slots, XmtAccess(p)
  PROVE  IInv'
<1>1. "STRC" \in flag[p] /\ p # InitProc BY DEF XmtAccess, Xmt, At, IInv, Shape, InitLives
<1>2. OnIpc \in SUBSET Slots BY DEF OnIpc
<1> QED BY <1>1, <1>2, StopKeeps DEF XmtAccess, Xmt

(* procxmt lets the process go on.                                         *)
LEMMA XmtContinueKeeps ==
  ASSUME IInv, NEW p \in Slots, XmtContinue(p)
  PROVE  IInv'
<1> USE SlotsAssumption DEF IInv, StoppedHasTracer, TypeOK, XmtContinue, Xmt, Setrun, OnIpc, Deliver, ExitBegins, At, Goto, Reqs
<1>1. Shape' BY DEF Shape
<1>2. InitLives' BY DEF InitLives
<1>3. ParentsLive' BY DEF ParentsLive
<1>4. SwapsOK' BY DEF SwapsOK, Shape, ParentsLive, InitLives
<1>5. StoppedHasTracer' BY DEF ParentsLive, InitLives
<1>6. Heard' BY DEF Heard, Reportable, Children
<1>7. IpcHeld' BY DEF IpcHeld, Shape
<1> QED BY <1>1, <1>2, <1>3, <1>4, <1>5, <1>6, <1>7

(* procxmt makes the process exit.                                         *)
LEMMA XmtKillKeeps ==
  ASSUME IInv, NEW p \in Slots, XmtKill(p)
  PROVE  IInv'
<1> USE SlotsAssumption DEF IInv, StoppedHasTracer, TypeOK, XmtKill, Xmt, Setrun, OnIpc, ExitBegins, At, Goto, Reqs
<1>1. Shape' BY DEF Shape
<1>2. InitLives' BY DEF InitLives
<1>3. ParentsLive' BY DEF ParentsLive
<1>4. SwapsOK' BY DEF SwapsOK, Shape, ParentsLive, InitLives
<1>5. StoppedHasTracer' BY DEF ParentsLive, InitLives
<1>6. Heard' BY DEF Heard, Reportable, Children
<1>7. IpcHeld' BY DEF IpcHeld, Shape
<1> QED BY <1>1, <1>2, <1>3, <1>4, <1>5, <1>6, <1>7

(* ptrace passes a request to a stopped child at once.                     *)
LEMMA PtraceKeeps ==
  ASSUME IInv, NEW p \in Slots, NEW c \in Slots, NEW r \in Reqs, Ptrace(p, c, r)
  PROVE  IInv'
<1> USE SlotsAssumption DEF IInv, StoppedHasTracer, TypeOK, Ptrace, Traceable, Request, Setrun, At, Goto, Reqs
<1>1. Shape' BY DEF Shape
<1>2. InitLives' BY DEF InitLives
<1>3. ParentsLive' BY DEF ParentsLive
<1>4. SwapsOK' BY DEF SwapsOK, Shape, ParentsLive, InitLives
<1>5. StoppedHasTracer' BY DEF ParentsLive, InitLives
<1>6. Heard' BY DEF Heard, Reportable, Children
<1>7. IpcHeld' BY DEF IpcHeld, Shape
<1> QED BY <1>1, <1>2, <1>3, <1>4, <1>5, <1>6, <1>7

(* ptrace passes its request when it gets the lock.                        *)
LEMMA PtraceLockedKeeps ==
  ASSUME IInv, NEW p \in Slots, NEW r \in Reqs, PtraceLocked(p, r)
  PROVE  IInv'
<1> USE SlotsAssumption DEF IInv, StoppedHasTracer, TypeOK, PtraceLocked, Request, Setrun, At, Goto, Reqs
<1>1. Shape' BY DEF Shape, IpcHeld
<1>2. InitLives' BY DEF InitLives
<1>3. ParentsLive' BY DEF ParentsLive, IpcHeld
<1>4. SwapsOK' BY DEF SwapsOK, Shape, ParentsLive, InitLives, IpcHeld
<1>5. StoppedHasTracer' BY DEF ParentsLive, InitLives
<1>6. Heard' BY DEF Heard, Reportable, Children
<1>7. IpcHeld' BY DEF IpcHeld, Shape
<1> QED BY <1>1, <1>2, <1>3, <1>4, <1>5, <1>6, <1>7

(* ptrace sleeps for the lock of ipc.                                      *)
LEMMA PtraceWaitKeeps ==
  ASSUME IInv, NEW p \in Slots, NEW c \in Slots, PtraceWait(p, c)
  PROVE  IInv'
<1> USE SlotsAssumption DEF IInv, StoppedHasTracer, TypeOK, PtraceWait, Traceable, At, Goto
<1>1. Shape' BY DEF Shape
<1>2. InitLives' BY DEF InitLives
<1>3. ParentsLive' BY DEF ParentsLive
<1>4. SwapsOK' BY DEF SwapsOK
<1>5. StoppedHasTracer' OBVIOUS
<1>6. Heard' BY DEF Heard, Reportable, Children
<1>7. IpcHeld' BY DEF IpcHeld
<1> QED BY <1>1, <1>2, <1>3, <1>4, <1>5, <1>6, <1>7

(* ptrace sleeps again.                                                    *)
LEMMA PtraceSleepKeeps ==
  ASSUME IInv, NEW p \in Slots, PtraceSleep(p)
  PROVE  IInv'
<1> USE SlotsAssumption DEF IInv, StoppedHasTracer, TypeOK, PtraceSleep, At, Reqs
<1>1. Shape' BY DEF Shape
<1>2. InitLives' BY DEF InitLives
<1>3. ParentsLive' BY DEF ParentsLive
<1>4. SwapsOK' BY DEF SwapsOK
<1>5. StoppedHasTracer' OBVIOUS
<1>6. Heard' BY DEF Heard, Reportable, Children
<1>7. IpcHeld' BY DEF IpcHeld
<1> QED BY <1>1, <1>2, <1>3, <1>4, <1>5, <1>6, <1>7

(* ptrace has its answer and gives the lock back.                          *)
LEMMA PtraceDoneKeeps ==
  ASSUME IInv, NEW p \in Slots, PtraceDone(p)
  PROVE  IInv'
<1> USE SlotsAssumption DEF IInv, StoppedHasTracer, TypeOK, PtraceDone, OnIpc, Setrun, At, Goto, Reqs
<1>1. Shape' BY DEF Shape
<1>2. InitLives' BY DEF InitLives
<1>3. ParentsLive' BY DEF ParentsLive
<1>4. SwapsOK' BY DEF SwapsOK, Shape, ParentsLive, InitLives
<1>5. StoppedHasTracer' BY DEF ParentsLive, InitLives
<1>6. Heard' BY DEF Heard, Reportable, Children
<1>7. IpcHeld' BY DEF IpcHeld, Shape
<1> QED BY <1>1, <1>2, <1>3, <1>4, <1>5, <1>6, <1>7

----------------------------------------------------------------------------
(* At first there is init, alone.                                          *)
LEMMA InitIInv == Init => IInv
<1> SUFFICES ASSUME Init PROVE IInv
  OBVIOUS
<1> USE SlotsAssumption DEF Init
<1>1. Shape /\ InitLives /\ ParentsLive /\ SwapsOK BY DEF Shape, InitLives, ParentsLive, SwapsOK
<1>2. StoppedHasTracer BY DEF StoppedHasTracer, TypeOK
<1>3. Heard BY DEF Heard
<1>4. IpcHeld BY DEF IpcHeld
<1> QED BY <1>1, <1>2, <1>3, <1>4 DEF IInv

(* Every step keeps the invariant.                                         *)
LEMMA NextKeeps ==
  ASSUME KernelTail = FALSE, IInv, [Next]_vars
  PROVE  IInv'
<1>1. CASE UNCHANGED vars
  BY <1>1 DEF vars, IInv, Shape, InitLives, ParentsLive, SwapsOK, StoppedHasTracer, TypeOK,
              Heard, Reportable, Children, IpcHeld, At
<1>2. ASSUME NEW p \in Slots,
             \/ Rexit(p) \/ Zombie(p) \/ WaitSleep(p) \/ WaitIntr(p) \/ TraceMe(p) \/ Psig(p)
             \/ PtraceSleep(p) \/ PtraceDone(p)
      PROVE  IInv'
  BY <1>2, RexitKeeps, ZombieKeeps, WaitSleepKeeps, WaitIntrKeeps, TraceMeKeeps, PsigKeeps,
     PtraceSleepKeeps, PtraceDoneKeeps
<1>3. ASSUME NEW p \in Slots,
             PsigStop(p) \/ StopAgain(p) \/ XmtAccess(p) \/ XmtContinue(p) \/ XmtKill(p)
      PROVE  IInv'
  BY <1>3, PsigStopKeeps, StopAgainKeeps, XmtAccessKeeps, XmtContinueKeeps, XmtKillKeeps
<1>4. ASSUME NEW p \in Slots, NEW n \in Sigs, Psignal(p, n) PROVE IInv'
  BY <1>4, PsignalKeeps
<1>5. ASSUME NEW p \in Slots, NEW r \in Reqs, PtraceLocked(p, r) PROVE IInv'
  BY <1>5, PtraceLockedKeeps
<1>6. ASSUME NEW p \in Slots, NEW c \in Slots,
             \/ Fork(p, c) \/ ForkSwap(p, c) \/ ForkSwapped(p, c)
             \/ WaitZombie(p, c) \/ WaitStopped(p, c) \/ PtraceWait(p, c)
      PROVE  IInv'
  BY <1>6, ForkKeeps, ForkSwapKeeps, ForkSwappedKeeps, WaitZombieKeeps, WaitStoppedKeeps,
     PtraceWaitKeeps
<1>7. ASSUME NEW p \in Slots, NEW c \in Slots, NEW r \in Reqs, Ptrace(p, c, r) PROVE IInv'
  BY <1>7, PtraceKeeps
<1> QED BY <1>1, <1>2, <1>3, <1>4, <1>5, <1>6, <1>7 DEF Next

(* The invariant holds in every reachable state.                           *)
THEOREM LifeInvariant ==
  ASSUME KernelTail = FALSE
  PROVE  Spec => []IInv
<1>1. Init => IInv BY InitIInv
<1>2. IInv /\ [Next]_vars => IInv' BY NextKeeps
<1> QED BY <1>1, <1>2, PTL DEF Spec

(* wait never sleeps on while a child is dead or has stopped unreported,   *)
(* however its children came to it (exit, stop and wait).                  *)
THEOREM WaitHears ==
  ASSUME KernelTail = FALSE
  PROVE  Spec => []Heard
<1>1. IInv => Heard BY DEF IInv
<1> QED BY <1>1, LifeInvariant, PTL

(* The structure ipc has one user at a time, whose child is there to       *)
(* answer (ptrace and procxmt).                                            *)
THEOREM TracersTakeTurns ==
  ASSUME KernelTail = FALSE
  PROVE  Spec => []IpcHeld
<1>1. IInv => IpcHeld BY DEF IInv
<1> QED BY <1>1, LifeInvariant, PTL

(* Types, and no process stays stopped without a tracer that lives (stop   *)
(* and exit).                                                              *)
THEOREM StoppedAreTraced ==
  ASSUME KernelTail = FALSE
  PROVE  Spec => []StoppedHasTracer
<1>1. IInv => StoppedHasTracer BY DEF IInv
<1> QED BY <1>1, LifeInvariant, PTL

----------------------------------------------------------------------------
(* The living and the dead of the promise.                                 *)
Living == {s \in Slots : stat[s] \notin {"none", "SZOMB"}}
Dead == {s \in Slots : stat[s] = "SZOMB"}

(* fork is a birth.                                                        *)
LEMMA ForkIsBirth ==
  ASSUME IInv, NEW p \in Slots, NEW c \in Slots, Fork(p, c) \/ ForkSwap(p, c)
  PROVE  Promise!Next
<1>1. p \in Living /\ c \in Slots \ (Living \cup Dead)
  BY DEF Fork, ForkSwap, Enter, At, Living, Dead
<1>2. Living' = Living \cup {c} /\ Dead' = Dead /\ ppid' = [ppid EXCEPT ![c] = p]
  BY DEF Fork, ForkSwap, Enter, At, Living, Dead, IInv, StoppedHasTracer, TypeOK
<1> QED BY <1>1, <1>2 DEF Promise!Next, Promise!Birth, Living, Dead

(* The end of exit is a death, and leaves the children to init.            *)
LEMMA ZombieIsDeath ==
  ASSUME IInv, NEW p \in Slots, Zombie(p)
  PROVE  Promise!Next
<1>1. p \in Living /\ p # InitProc BY DEF Zombie, At, Living, IInv, InitLives
<1>2. Living' = Living \ {p} /\ Dead' = Dead \cup {p}
  BY DEF Zombie, Setrun, OnProc, Children, At, Living, Dead, IInv, StoppedHasTracer, TypeOK
<1>3. ppid' = [s \in Slots |-> IF ppid[s] = p THEN InitProc ELSE ppid[s]]
  BY DEF Zombie, Children
<1> QED BY <1>1, <1>2, <1>3 DEF Promise!Next, Promise!Death, Living, Dead

(* wait buries a dead child of a living process.                           *)
LEMMA WaitIsBurial ==
  ASSUME IInv, NEW p \in Slots, NEW c \in Slots, WaitZombie(p, c)
  PROVE  Promise!Next
<1>1. c \in Dead /\ ppid[c] = p /\ p \in Living
  BY DEF WaitZombie, Reportable, Children, At, Living, Dead
<1>2. Living' = Living /\ Dead' = Dead \ {c} /\ ppid' = [ppid EXCEPT ![c] = None]
  BY DEF WaitZombie, Living, Dead, IInv, StoppedHasTracer, TypeOK
<1> QED BY <1>1, <1>2 DEF Promise!Next, Promise!Burial, Living, Dead

(* A step that only puts processes to sleep, wakes them or stops them is   *)
(* none of the promise's.                                                  *)
LEMMA Stutters ==
  ASSUME UNCHANGED ppid,
         \A s \in Slots : \/ stat'[s] = stat[s]
                         \/ {stat[s], stat'[s]} \cap {"none", "SZOMB"} = {}
  PROVE  UNCHANGED Promise!vars
<1>1. Living' = Living /\ Dead' = Dead BY DEF Living, Dead
<1> QED BY <1>1 DEF Promise!vars, Living, Dead

(* Every step of the table is a step of the promise or none.               *)
LEMMA StepImplements ==
  ASSUME KernelTail = FALSE, IInv, [Next]_vars
  PROVE  [Promise!Next]_(Promise!vars)
<1> USE DEF IInv, StoppedHasTracer, TypeOK
<1>1. CASE UNCHANGED vars BY <1>1, Stutters DEF vars
<1>2. ASSUME NEW p \in Slots, NEW c \in Slots, Fork(p, c) \/ ForkSwap(p, c) PROVE Promise!Next
  BY <1>2, ForkIsBirth
<1>3. ASSUME NEW p \in Slots, Zombie(p) PROVE Promise!Next BY <1>3, ZombieIsDeath
<1>4. ASSUME NEW p \in Slots, NEW c \in Slots, WaitZombie(p, c) PROVE Promise!Next
  BY <1>4, WaitIsBurial
<1>5. ASSUME NEW p \in Slots, NEW c \in Slots, ForkSwapped(p, c) PROVE UNCHANGED Promise!vars
  BY <1>5, Stutters DEF ForkSwapped, Setrun, Shape
<1>6. ASSUME NEW p \in Slots,
             \/ Rexit(p) \/ WaitIntr(p) \/ TraceMe(p) \/ Psig(p)
             \/ \E c \in Slots : WaitStopped(p, c)
      PROVE  UNCHANGED Promise!vars
  BY <1>6, Stutters DEF Rexit, WaitIntr, TraceMe, Psig, WaitStopped
<1>7. ASSUME NEW p \in Slots,
             WaitSleep(p) \/ PtraceSleep(p) \/ \E c \in Slots : PtraceWait(p, c)
      PROVE  UNCHANGED Promise!vars
  BY <1>7, Stutters DEF WaitSleep, PtraceSleep, PtraceWait, Traceable, At
<1>8. ASSUME NEW p \in Slots, NEW woken \in SUBSET Slots, Stop(p, woken), UNCHANGED ppid,
             stat[p] = "SRUN", \A s \in woken : stat[s] = "SSLEEP"
      PROVE  UNCHANGED Promise!vars
  BY <1>8, Stutters DEF Stop, Setrun, OnProc
<1>9. ASSUME NEW p \in Slots, PsigStop(p) \/ StopAgain(p) \/ XmtAccess(p) PROVE UNCHANGED Promise!vars
  <2>1. OnIpc \in SUBSET Slots /\ \A s \in OnIpc : stat[s] = "SSLEEP" BY DEF OnIpc
  <2>2. stat[p] = "SRUN" BY <1>9 DEF PsigStop, StopAgain, XmtAccess, Xmt, Tail, At
  <2> QED BY <1>8, <1>9, <2>1, <2>2 DEF PsigStop, StopAgain, XmtAccess, Xmt
<1>10. ASSUME NEW p \in Slots, XmtContinue(p) \/ XmtKill(p) \/ PtraceDone(p) PROVE UNCHANGED Promise!vars
  BY <1>10, Stutters DEF XmtContinue, XmtKill, PtraceDone, Xmt, Setrun, OnIpc
<1>11. ASSUME NEW p \in Slots, NEW n \in Sigs, Psignal(p, n) PROVE UNCHANGED Promise!vars
  BY <1>11, Stutters DEF Psignal, Setrun, OnProc
<1>12. ASSUME NEW p \in Slots, NEW r \in Reqs,
              PtraceLocked(p, r) \/ \E c \in Slots : Ptrace(p, c, r)
       PROVE  UNCHANGED Promise!vars
  <2>1. PICK c \in Slots : Request(p, c, r) /\ stat[c] = "SSTOP" /\ stat[p] = "SRUN"
    BY <1>12 DEF PtraceLocked, Ptrace, Traceable, At, Shape, IpcHeld
  <2> QED BY <2>1, Stutters DEF Request, Setrun
<1> QED BY <1>1, <1>2, <1>3, <1>4, <1>5, <1>6, <1>7, <1>9, <1>10, <1>11, <1>12 DEF Next

(* The table proc[] keeps the promise of fork, exit and wait: a process is *)
(* born of a living one, dies once, leaves its children to init, and is    *)
(* buried once, when its parent has been told.                             *)
THEOREM LifeImplementsProcesses ==
  ASSUME KernelTail = FALSE
  PROVE  Spec => ImplementsProcesses
<1>1. Init => Promise!Init BY SlotsAssumption DEF Init, Promise!Init
<1>2. IInv /\ [Next]_vars => [Promise!Next]_(Promise!vars) BY StepImplements
<1> QED BY <1>1, <1>2, LifeInvariant, PTL DEF Spec, ImplementsProcesses, Promise!Spec
===============================================================================
