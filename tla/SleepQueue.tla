----------------------------- MODULE SleepQueue -----------------------------
(***************************************************************************)
(* sleep, wakeup, setrun, setrq and swtch of usr/sys/sys/slp.c at the      *)
(* level of the linked lists: slpque[], hashed by channel, and runq, which *)
(* share the link p_link of a process.                                     *)
(*                                                                         *)
(* wakeup calls setrun, and setrun calls wakeup again, for the swapper     *)
(* that sleeps on &runout, when it finds a process runnable that is not in *)
(* core.  runout is cleared first, so the recursion is one deep.  All of   *)
(* it runs at spl6: a call is one step.                                    *)
(***************************************************************************)
EXTENDS Naturals, FiniteSets

CONSTANTS
  Procs,    \* the processes other than the swapper
  Sched,    \* proc[0], the swapper
  Chans,    \* the channels other than &runout that processes sleep on
  Runout,   \* the channel &runout
  Hash,     \* the bucket of slpque[] of each channel
  Nil       \* a NULL pointer

All == Procs \cup {Sched}
Buckets == {Hash[c] : c \in Chans \cup {Runout}}

ASSUME ProcsAssumption == IsFiniteSet(Procs) /\ Sched \notin Procs /\ Nil \notin All
ASSUME ChansAssumption == Runout \notin Chans /\ Nil \notin Chans \cup {Runout}
ASSUME HashAssumption == DOMAIN Hash = Chans \cup {Runout}

VARIABLES
  slpque,   \* head of each bucket
  runq,     \* head of the run queue
  link,     \* p_link
  wchan,    \* p_wchan
  stat,     \* p_stat: "none" (a free slot), "SRUN" or "SSLEEP"
  loaded,   \* the processes with SLOAD
  runout,   \* runout # 0
  cur,      \* the process that runs, or Nil in the idle loop of swtch
  window,   \* cur has queued itself in sleep and not yet called swtch
  pri,      \* p_pri of a sleeper: "signals" if > PZERO, "nosignals" if not
  asked,    \* history: the priority it asked sleep for
  woke      \* history: who slept on the channel of the wakeup that was the last step

vars == <<slpque, runq, link, wchan, stat, loaded, runout, cur, window, pri, asked, woke>>

(* main(): only proc[0] exists, and runs.                                  *)
Init ==
  /\ slpque = [h \in Buckets |-> Nil] /\ runq = Nil
  /\ link = [p \in All |-> Nil] /\ wchan = [p \in All |-> Nil]
  /\ stat = [p \in All |-> IF p = Sched THEN "SRUN" ELSE "none"]
  /\ loaded = {Sched} /\ runout = FALSE
  /\ cur = Sched /\ window = FALSE
  /\ pri = [p \in All |-> "signals"] /\ asked = [p \in All |-> "signals"]
  /\ woke = {}

----------------------------------------------------------------------------
(* The routines work on the queues.                                        *)
Queues == [slpque |-> slpque, runq |-> runq, link |-> link, wchan |-> wchan,
           stat |-> stat, runout |-> runout]

SetQueues(s) ==
  /\ slpque' = s.slpque /\ runq' = s.runq /\ link' = s.link
  /\ wchan' = s.wchan /\ stat' = s.stat /\ runout' = s.runout

(* The processes met on the way from head along p_link; a list of n        *)
(* processes ends after n links unless it has been corrupted.              *)
Walk(lk, head) ==
  LET at[k \in 0..Cardinality(All)] ==
        IF k = 0 THEN head ELSE IF at[k - 1] = Nil THEN Nil ELSE lk[at[k - 1]]
  IN  {at[k] : k \in 0..Cardinality(All)} \ {Nil}

Setrq(s, p) ==
  IF p \in Walk(s.link, s.runq) THEN s
  ELSE [s EXCEPT !.link[p] = s.runq, !.runq = p]

(* The loop of wakeup(c) as a record: the queues s, its locals p and q, and *)
(* the process run that this round hands to setrun, if any.                *)
Loop(s, c) == [s |-> s, p |-> s.slpque[Hash[c]], q |-> Nil, run |-> Nil]

(* Mutants: the process stays in its bucket; the loop goes on (without the *)
(* continue) to step over the successor of a process it has woken.         *)
WakeStep_NoUnlink(l, c) ==
  IF l.p = Nil THEN [l EXCEPT !.run = Nil]
  ELSE IF l.s.wchan[l.p] # c THEN [l EXCEPT !.q = l.p, !.p = l.s.link[l.p], !.run = Nil]
  ELSE [l EXCEPT !.s.wchan[l.p] = Nil, !.p = l.s.link[l.p], !.run = l.p]

WakeStep_NoContinue(l, c) ==
  IF l.p = Nil THEN [l EXCEPT !.run = Nil]
  ELSE IF l.s.wchan[l.p] # c THEN [l EXCEPT !.q = l.p, !.p = l.s.link[l.p], !.run = Nil]
  ELSE LET sp == l.s.link[l.p]
           cut == IF l.q = Nil THEN [l.s EXCEPT !.slpque[Hash[c]] = sp]
                               ELSE [l.s EXCEPT !.link[l.q] = sp]
       IN  [s |-> [cut EXCEPT !.wchan[l.p] = Nil], q |-> sp, run |-> l.p,
            p |-> IF sp = Nil THEN Nil ELSE l.s.link[sp]]

(* One round up to the call of setrun.  The successor of p is read before  *)
(* that call, and so is q, which the next round stores through.            *)
WakeStep(l, c) ==
  IF l.p = Nil THEN [l EXCEPT !.run = Nil]
  ELSE IF l.s.wchan[l.p] # c THEN [l EXCEPT !.q = l.p, !.p = l.s.link[l.p], !.run = Nil]
  ELSE LET sp == l.s.link[l.p]
           cut == IF l.q = Nil THEN [l.s EXCEPT !.slpque[Hash[c]] = sp]
                               ELSE [l.s EXCEPT !.link[l.q] = sp]
       IN  [l EXCEPT !.s = [cut EXCEPT !.wchan[l.p] = Nil], !.p = sp, !.run = l.p]

(* No loop has more rounds, even if a store through q has led it astray.   *)
Rounds == 2 * Cardinality(All)

(* setrun without and with the wakeup of the swapper.                      *)
SetrunLoaded(s, p) == Setrq([s EXCEPT !.stat[p] = "SRUN"], p)

(* wakeup(&runout), called by setrun and xswap when runout is set: the     *)
(* swapper is in core, so its setrun calls nobody.                         *)
CallSwapper(s) ==
  LET l[k \in 0..Rounds] ==
        IF k = 0 THEN Loop([s EXCEPT !.runout = FALSE], Runout)
        ELSE LET n == WakeStep(l[k - 1], Runout)
             IN  IF n.run = Nil THEN n ELSE [n EXCEPT !.s = SetrunLoaded(n.s, n.run)]
  IN  IF s.runout THEN l[Rounds].s ELSE s

Setrun(s, p) ==
  LET t == SetrunLoaded(s, p)
  IN  IF p \notin loaded THEN CallSwapper(t) ELSE t

Wakeup(s, c) ==
  LET l[k \in 0..Rounds] ==
        IF k = 0 THEN Loop(s, c)
        ELSE LET n == WakeStep(l[k - 1], c)
             IN  IF n.run = Nil THEN n ELSE [n EXCEPT !.s = Setrun(n.s, n.run)]
  IN  l[Rounds].s

----------------------------------------------------------------------------
Running(p) == cur = p /\ ~window

(* newproc: the child is runnable and in core.                             *)
NewProc(p) ==
  /\ cur # Nil /\ ~window /\ stat[p] = "none"
  /\ SetQueues(Setrq([Queues EXCEPT !.stat[p] = "SRUN"], p))
  /\ loaded' = loaded \cup {p} /\ woke' = {}
  /\ UNCHANGED <<cur, window, pri, asked>>

(* newproc finds no core: the image of the child goes to the swap area.    *)
NewProcOut(p) ==
  /\ cur # Nil /\ ~window /\ stat[p] = "none"
  /\ SetQueues(Setrq(CallSwapper([Queues EXCEPT !.stat[p] = "SRUN"]), p))
  /\ woke' = {}
  /\ UNCHANGED <<loaded, cur, window, pri, asked>>

(* expand finds no core: the process swaps itself out, to be given more    *)
(* when it is swapped in.                                                  *)
Expand(p) ==
  /\ Running(p) /\ p # Sched
  /\ SetQueues(Setrq(CallSwapper(Queues), p))
  /\ loaded' = loaded \ {p} /\ cur' = Nil /\ woke' = {}
  /\ UNCHANGED <<window, pri, asked>>

(* sleep(c, pri) up to spl0(); a signal found there takes the process off  *)
(* the bucket again, with no other effect.                                 *)
Enqueue(p, c, d) ==
  /\ Running(p)
  /\ stat' = [stat EXCEPT ![p] = "SSLEEP"] /\ wchan' = [wchan EXCEPT ![p] = c]
  /\ link' = [link EXCEPT ![p] = slpque[Hash[c]]]
  /\ slpque' = [slpque EXCEPT ![Hash[c]] = p]
  /\ pri' = [pri EXCEPT ![p] = d] /\ asked' = [asked EXCEPT ![p] = d]
  /\ window' = TRUE /\ woke' = {}
  /\ UNCHANGED <<runq, loaded, cur>>

Sleep(p, c, d) == Enqueue(p, c, d) /\ UNCHANGED runout

(* An interrupt between sleep's spl0() and swtch().  From kernel mode it   *)
(* ends in trap_tail as well, and there setpri gives the process that was  *)
(* interrupted its user priority.                                          *)
TrapTail ==
  /\ window
  /\ pri' = [pri EXCEPT ![cur] = "signals"] /\ woke' = {}
  /\ UNCHANGED <<slpque, runq, link, wchan, stat, loaded, runout, cur, window, asked>>

(* wakeup(c), by an interrupt or by the process that runs.                 *)
Wake(c) ==
  /\ SetQueues(Wakeup(Queues, c))
  /\ woke' = {p \in All : wchan[p] = c}
  /\ UNCHANGED <<loaded, cur, window, pri, asked>>

(* psignal: setrun of a process that still has a p_wchan is a wakeup of    *)
(* that channel.                                                           *)
Psignal(p) ==
  /\ stat[p] = "SSLEEP" /\ pri[p] = "signals"
  /\ Wake(wchan[p])

(* qswtch: the process that runs joins the run queue.                      *)
Qswtch(p) ==
  /\ Running(p) /\ p # Sched
  /\ SetQueues(Setrq(Queues, p))
  /\ cur' = Nil /\ woke' = {}
  /\ UNCHANGED <<loaded, window, pri, asked>>

(* swtch, called by sleep or in its idle loop: some process of the run     *)
(* queue that is in core, whichever has the best priority, is unlinked and *)
(* resumed.                                                                *)
Swtch(p) ==
  /\ cur = Nil \/ window
  /\ p \in Walk(link, runq) /\ stat[p] = "SRUN" /\ p \in loaded
  /\ IF runq = p THEN runq' = link[p] /\ UNCHANGED link
     ELSE /\ UNCHANGED runq
          /\ \E q \in Walk(link, runq) : link[q] = p /\ link' = [link EXCEPT ![q] = link[p]]
  /\ cur' = p /\ window' = FALSE /\ woke' = {}
  /\ UNCHANGED <<slpque, wchan, stat, loaded, runout, pri, asked>>

Idle ==
  /\ window /\ \A p \in Walk(link, runq) : stat[p] # "SRUN" \/ p \notin loaded
  /\ cur' = Nil /\ window' = FALSE /\ woke' = {}
  /\ UNCHANGED <<slpque, runq, link, wchan, stat, loaded, runout, pri, asked>>

(* sched: swap in a process that is ready; swap one out to make room for   *)
(* it, or wait on &runin for room (a channel like any other here); wait on *)
(* &runout when none is ready.                                             *)
Ready == {p \in Procs : stat[p] = "SRUN" /\ p \notin loaded}

SwapOut(p) ==
  /\ Running(Sched) /\ Ready # {} /\ p \in loaded \ {Sched}
  /\ loaded' = loaded \ {p} /\ woke' = {}
  /\ UNCHANGED <<slpque, runq, link, wchan, stat, runout, cur, window, pri, asked>>

SchedWait(c) == Ready # {} /\ Sleep(Sched, c, "nosignals")

SwapIn(p) ==
  /\ Running(Sched) /\ p \in Ready
  /\ loaded' = loaded \cup {p} /\ woke' = {}
  /\ UNCHANGED <<slpque, runq, link, wchan, stat, runout, cur, window, pri, asked>>

(* Mutant: sleeps on &runout without setting runout.                       *)
SchedSleep_NoRunout == Ready = {} /\ Enqueue(Sched, Runout, "nosignals") /\ UNCHANGED runout

SchedSleep == Ready = {} /\ Enqueue(Sched, Runout, "nosignals") /\ runout' = TRUE

Next ==
  \/ \E p \in Procs :
       \/ NewProc(p) \/ NewProcOut(p) \/ Expand(p) \/ Qswtch(p)
       \/ SwapOut(p) \/ SwapIn(p) \/ Psignal(p)
       \/ \E c \in Chans, d \in {"signals", "nosignals"} : Sleep(p, c, d)
  \/ \E p \in All : Swtch(p)
  \/ \E c \in Chans : Wake(c) \/ SchedWait(c)
  \/ TrapTail \/ Idle \/ SchedSleep

Spec == Init /\ [][Next]_vars

----------------------------------------------------------------------------
(* Type invariant; p_stat and p_wchan agree on who is asleep.              *)
TypeOK ==
  /\ \A p \in All : stat[p] = "SSLEEP" <=> wchan[p] # Nil
  /\ slpque \in [Buckets -> All \cup {Nil}] /\ runq \in All \cup {Nil}
  /\ link \in [All -> All \cup {Nil}] /\ wchan \in [All -> Chans \cup {Runout, Nil}]
  /\ stat \in [All -> {"none", "SRUN", "SSLEEP"}] /\ loaded \subseteq All
  /\ runout \in BOOLEAN /\ window \in BOOLEAN /\ cur \in All \cup {Nil}
  /\ pri \in [All -> {"signals", "nosignals"}] /\ asked \in [All -> {"signals", "nosignals"}]
  /\ woke \subseteq All

(* The lists that share p_link never run into each other: a bucket holds   *)
(* exactly the processes asleep on its channels, and the run queue exactly *)
(* the runnable processes that do not have the processor.                  *)
QueuesOK ==
  /\ TypeOK
  /\ \A h \in Buckets :
       Walk(link, slpque[h]) = {p \in All : wchan[p] # Nil /\ Hash[wchan[p]] = h}
  /\ Walk(link, runq) = {p \in All : stat[p] = "SRUN" /\ (p = cur => window)}

(* slp.c: "Wake up all processes sleeping on chan.": every process that    *)
(* slept on it is runnable and can be found on the run queue.              *)
WakesAll == \A p \in woke : stat[p] = "SRUN" /\ p \in Walk(link, runq)

(* The swapper does not sleep on while a process that is ready waits to be *)
(* brought into core.                                                      *)
SwapperCalled == wchan[Sched] = Runout => runout /\ Ready = {}

(* slp.c: "when pri<=PZERO a signal cannot disturb the sleep".             *)
NotDisturbed == \A p \in All : stat[p] = "SSLEEP" /\ asked[p] = "nosignals" => pri[p] = "nosignals"
=============================================================================
