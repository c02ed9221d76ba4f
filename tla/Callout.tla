------------------------------ MODULE Callout ------------------------------
(***************************************************************************)
(* The time-out table of usr/sys/sys/clock.c.  timeout() sorts a call into *)
(* callout[], whose entries hold the number of ticks by which each call    *)
(* comes after the one before it; the clock interrupt counts the first     *)
(* entry down, runs the calls that have come due and closes the gap they   *)
(* leave.  A call may itself ask for a new time-out (ttrstrt restarts a    *)
(* terminal's output, which may meet the next delay), so the table can     *)
(* change under the loop that walks it.                                    *)
(*                                                                         *)
(* The table is the sequence of the entries before the first one whose     *)
(* c_func is 0; no code depends on the c_time of that one.  timeout runs   *)
(* at spl7 and the clock handler with interrupts masked, so neither is     *)
(* ever interrupted by the other.                                          *)
(***************************************************************************)
EXTENDS Integers, Sequences, SequencesExt

CONSTANTS
  Calls,     \* names for the (c_func, c_arg) pairs that can be pending
  NCALL,     \* size of callout[]
  Delays,    \* the delays tim that callers ask for
  NotPending \* no delay: the call is not in the table

ASSUME NCALLAssumption == NCALL \in Nat \ {0}
ASSUME DelaysAssumption == Delays \subseteq Nat
ASSUME NotPendingAssumption == NotPending \notin Nat

VARIABLES
  tab,       \* callout[] up to the terminator: [time |-> c_time, call |-> c_func]
  p1,        \* clock's p1 while it runs the calls that are due, 0 otherwise
  state      \* "up"; "panic" after the overflow panic; "overrun" after a store past callout[]

cvars == <<tab, p1, state>>

CInit == tab = <<>> /\ p1 = 0 /\ state = "up"

(* The entries whose call has not run yet, and their calls.                *)
Waiting == {i \in 1..Len(tab) : i >= p1}
Pending == {tab[i].call : i \in Waiting}

(* When each entry of a table is due, in ticks from now.                   *)
DueTimes(t) ==
  LET d[i \in 0..Len(t)] == IF i = 0 THEN 0 ELSE d[i - 1] + t[i].time
  IN  d

DueIn(i) == DueTimes(tab)[i]

----------------------------------------------------------------------------
(* timeout: the new entry goes before the first that is due later than it. *)
Slot(tim) ==
  CHOOSE i \in 1..(Len(tab) + 1) :
    /\ \A j \in 1..(i - 1) : DueIn(j) <= tim
    /\ i <= Len(tab) => DueIn(i) > tim

(* Mutant: the entry behind the new one keeps its c_time.                  *)
Insert_NoAdjust(c, tim) ==
  LET i == Slot(tim) IN InsertAt(tab, i, [time |-> tim - DueIn(i - 1), call |-> c])

(* The rest of the table moves up; the entry behind the new one now counts *)
(* from it.                                                                *)
Insert(c, tim) ==
  LET i == Slot(tim)
      t == tim - DueIn(i - 1)
      moved == IF i <= Len(tab) THEN [tab EXCEPT ![i].time = @ - t] ELSE tab
  IN  InsertAt(moved, i, [time |-> t, call |-> c])

(* timeout(fun, arg, tim).  The panic is decided by where the new entry    *)
(* goes, not by how many there are: the terminator may end up in           *)
(* callout[NCALL].                                                         *)
Timeout(c, tim) ==
  /\ state = "up" /\ c \notin Pending
  /\ IF Slot(tim) >= NCALL
     THEN state' = "panic" /\ UNCHANGED tab
     ELSE /\ tab' = Insert(c, tim)
          /\ state' = IF Len(tab') >= NCALL THEN "overrun" ELSE "up"
  /\ UNCHANGED p1

(* Asked for by a driver, or by the call that the clock is running.        *)
Request(c, tim) == p1 = 0 /\ Timeout(c, tim)
RunAgain(c, tim) == p1 > 1 /\ Timeout(c, tim)

----------------------------------------------------------------------------
(* The tick counts down the first entry that is not due already.           *)
NotDue == {i \in 1..Len(tab) : tab[i].time > 0}

(* clock: count down, and start running if the first entry is due.         *)
Clock ==
  /\ state = "up" /\ p1 = 0 /\ tab # <<>>
  /\ tab' = IF NotDue = {} THEN tab
            ELSE [tab EXCEPT ![CHOOSE i \in NotDue : \A j \in NotDue : i <= j].time = @ - 1]
  /\ p1' = IF tab'[1].time <= 0 THEN 1 ELSE 0
  /\ UNCHANGED state

IsDue(i) == i <= Len(tab) /\ tab[i].time <= 0

(* One round of the loop runs the call and steps over its entry, which     *)
(* stays in the table until the loop is over.                              *)
Run ==
  /\ state = "up" /\ p1 # 0 /\ IsDue(p1)
  /\ p1' = p1 + 1
  /\ UNCHANGED <<tab, state>>

(* The entries whose call has not run move to the front of the table.      *)
Close ==
  /\ state = "up" /\ p1 # 0 /\ ~IsDue(p1)
  /\ tab' = SubSeq(tab, p1, Len(tab)) /\ p1' = 0
  /\ UNCHANGED state

CNext ==
  \/ Clock \/ Run \/ Close
  \/ \E c \in Calls, tim \in Delays : Request(c, tim) \/ RunAgain(c, tim)

CSpec == CInit /\ [][CNext]_cvars

----------------------------------------------------------------------------
(* Every call runs in exactly the tick it was asked for, however many      *)
(* others are asked for before it, behind it or by the calls that run.     *)
Left == [c \in Calls |-> IF c \in Pending
                         THEN DueIn(CHOOSE i \in Waiting : tab[i].call = c)
                         ELSE NotPending]

Ticks == INSTANCE Timers WITH running <- p1 # 0, left <- Left

ImplementsTimers == Ticks!TSpec

(* clock.c: "The panic is there because there is nothing intelligent to be *)
(* done if an entry won't fit": an entry that does not fit is a panic, not *)
(* a store past the end of callout[].                                      *)
TableFits == state # "overrun"
=============================================================================
