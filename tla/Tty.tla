-------------------------------- MODULE Tty --------------------------------
(***************************************************************************)
(* A terminal: the line discipline (usr/sys/sys/tty.c) on top of the       *)
(* console driver (usr/sys/bcm283x/dev/bcm283x_pl011.c), with processes    *)
(* that read, write and set it and a user who types.                       *)
(*                                                                         *)
(* Processes do not preempt one another in the kernel, but interrupts of   *)
(* the UART and of the clock come between any two steps of a process that  *)
(* are not under one spl5 or spl6.  An action is one handler, or the code  *)
(* of a process between two points at which an interrupt matters.          *)
(*                                                                         *)
(* Characters are named for what the discipline does with them: "c" is any *)
(* ordinary one, "delay" the code of a pause in the output queue, "delim"  *)
(* the 0377 after a line in the raw queue.  Modes are ECHO with pauses     *)
(* after a new line, and RAW or not; erase and kill, escapes, cases, tabs, *)
(* columns and TANDEM are left out.  One character fills one cblock.       *)
(***************************************************************************)
EXTENDS Integers, Sequences, FiniteSets

CONSTANTS
  Readers, Writers,  \* the processes that read, and that write and set, the terminal
  None,       \* no process
  Keys,       \* what the user may type
  TTHIWAT, TTLOWAT, TTYHOG, CANBSIZ,
  WIDTH,      \* t_delct is a char, counted modulo this (256)
  NCLIST,     \* the characters all queues together can hold
  FIFO,       \* the size of the transmit FIFO, external to the kernel
  LEVEL,      \* at or below which it asks for more
  Counts,     \* how many characters a process writes, or wants to read
  MaxCalls    \* bound on the time-outs under way

Procs == Readers \cup Writers

AllKeys == {"c", "nl", "eot", "stop", "start", "intr"}

ASSUME SizesAssumption ==
  /\ {TTHIWAT, TTLOWAT, TTYHOG, CANBSIZ, NCLIST, FIFO, LEVEL, MaxCalls} \subseteq Nat
  /\ TTLOWAT <= TTHIWAT /\ LEVEL < FIFO /\ CANBSIZ > 2 /\ WIDTH \in Nat /\ 2 * WIDTH > TTYHOG + 3
ASSUME KeysAssumption == Keys \subseteq AllKeys /\ None \notin Procs /\ Counts \subseteq Nat \ {0}

VARIABLES
  tty,     \* struct tty, the mask bit and the FIFO of the UART
  pc,      \* where each process is
  cnt,     \* u_count, and in canon how much of the line there is
  tmp,     \* what a process has loaded of t_delct
  asleep,  \* the processes that sleep
  cpu,     \* the process that is in the kernel and not asleep
  lost     \* history: t_delct was changed between a load and a store of canon

vars == <<tty, pc, cnt, tmp, asleep, cpu, lost>>

Init ==
  /\ tty = [rawq |-> <<>>, canq |-> 0, outq |-> <<>>, delct |-> 0, raw |-> FALSE, state |-> {},
            txim |-> FALSE, fifo |-> 0, calls |-> 0, wakein |-> FALSE, wakeout |-> FALSE]
  /\ pc = [p \in Procs |-> "user"] /\ cnt = [p \in Procs |-> 0] /\ tmp = [p \in Procs |-> 0]
  /\ asleep = {} /\ cpu = None /\ lost = FALSE

----------------------------------------------------------------------------
(* putc: nothing when there is no cblock left.                             *)
Room(t) == NCLIST - Len(t.rawq) - t.canq - Len(t.outq)

Least(a, b) == IF a < b THEN a ELSE b

PutOut(t, s) == [t EXCEPT !.outq = @ \o SubSeq(s, 1, Least(Room(t), Len(s)))]

(* pl011start: characters go to the FIFO until it is full, a pause comes   *)
(* up, or there are none.  Pauses are time-outs; raw mode has no pauses.   *)
(* In the other cases the caller sees to it that the UART asks for more.   *)
Sent(t) ==
  LET plain == {n \in 0..Len(t.outq) : t.raw \/ \A i \in 1..n : t.outq[i] # "delay"}
  IN  CHOOSE n \in plain : n <= FIFO - t.fifo /\ \A m \in plain : m <= FIFO - t.fifo => m <= n

Pause(t) == t.fifo + Sent(t) < FIFO /\ Sent(t) < Len(t.outq)

(* Mutant: an empty queue asks for nothing, although somebody may sleep    *)
(* until it is empty.                                                      *)
Pl011out_NoMore(t) ==
  LET n == Sent(t)
      u == [t EXCEPT !.outq = SubSeq(@, n + 1, Len(@)), !.fifo = @ + n]
  IN  IF Pause(t) THEN [u EXCEPT !.outq = Tail(@), !.state = @ \cup {"TIMEOUT"}, !.calls = @ + 1]
      ELSE [u EXCEPT !.txim = @ \/ u.fifo = FIFO]

Pl011out(t) ==
  LET n == Sent(t)
      u == [t EXCEPT !.outq = SubSeq(@, n + 1, Len(@)), !.fifo = @ + n]
  IN  IF Pause(t) THEN [u EXCEPT !.outq = Tail(@), !.state = @ \cup {"TIMEOUT"}, !.calls = @ + 1]
      ELSE [u EXCEPT !.txim = TRUE]

(* ttstart.                                                                *)
Ttstart(t) == IF t.state \cap {"TIMEOUT", "TTSTOP"} = {} THEN Pl011out(t) ELSE t

(* Mutant: t_delct is left alone.                                          *)
Flushtty_KeepDelct(t) ==
  [t EXCEPT !.canq = 0, !.outq = <<>>, !.rawq = <<>>, !.state = @ \ {"TTSTOP"},
            !.txim = FALSE, !.wakein = TRUE, !.wakeout = TRUE]

(* flushtty, with the stop routine of the driver.                          *)
Flushtty(t) ==
  [t EXCEPT !.canq = 0, !.outq = <<>>, !.rawq = <<>>, !.delct = 0, !.state = @ \ {"TTSTOP"},
            !.txim = FALSE, !.wakein = TRUE, !.wakeout = TRUE]

(* What ttyoutput puts out for a character.                                *)
Image(t, c) ==
  IF t.raw THEN <<"c">>
  ELSE IF c = "nl" THEN <<"c", "delay">>
  ELSE IF c = "eot" THEN <<>>
  ELSE <<"c">>

Ttyoutput(t, c) == PutOut(t, Image(t, c))

(* Mutant: readers are not woken.                                          *)
Enter_NoWakeup(t, c) ==
  LET u == IF Room(t) > 0 THEN [t EXCEPT !.rawq = Append(@, IF c = "eot" THEN c ELSE "c")] ELSE t
  IN  IF ~t.raw /\ c \in {"nl", "eot"} /\ Room(u) > 0
        THEN [u EXCEPT !.rawq = Append(@, "delim"), !.delct = (@ + 1) % WIDTH]
      ELSE u

(* The character goes into the raw queue, a delimiter after it at the end  *)
(* of a line; readers are woken.                                           *)
Enter(t, c) ==
  LET u == IF Room(t) > 0 THEN [t EXCEPT !.rawq = Append(@, IF c = "eot" THEN c ELSE "c")] ELSE t
  IN  IF t.raw THEN [u EXCEPT !.wakein = TRUE]
      ELSE IF c \notin {"nl", "eot"} THEN u
      ELSE IF Room(u) = 0 THEN [u EXCEPT !.wakein = TRUE]
      ELSE [u EXCEPT !.rawq = Append(@, "delim"), !.delct = (@ + 1) % WIDTH, !.wakein = TRUE]

Echo(t, c) == Ttstart(Ttyoutput(t, c))

(* ttyinput.  While output is stopped any key but the stop key starts it.  *)
Ttyinput(t, c) ==
  LET stopped == "TTSTOP" \in t.state
      go == Ttstart([t EXCEPT !.state = @ \ {"TTSTOP"}])
      u == IF ~t.raw /\ stopped THEN go ELSE t
  IN  IF ~t.raw /\ c = "start" THEN u
      ELSE IF ~t.raw /\ c = "stop"
        THEN IF stopped THEN t ELSE [t EXCEPT !.state = @ \cup {"TTSTOP"}, !.txim = FALSE]
      ELSE IF ~t.raw /\ c = "intr" THEN Flushtty(u)
      ELSE IF Len(u.rawq) > TTYHOG THEN Flushtty(u) ELSE Echo(Enter(u, c), c)

(* pl011xint.                                                              *)
Xint(t) ==
  LET u == IF t.outq # <<>> THEN Pl011out(t) ELSE [t EXCEPT !.txim = FALSE]
  IN  IF "ASLEEP" \in u.state /\ Len(u.outq) <= TTLOWAT
      THEN [u EXCEPT !.state = @ \ {"ASLEEP"}, !.wakeout = TRUE] ELSE u

----------------------------------------------------------------------------
OnOut == {p \in asleep : pc[p] \in {"write", "drain"}}
OnRaw == {p \in asleep : pc[p] = "canon"}

(* The new terminal, with the wakeups on the way to it; more sleep.        *)
Store(t, more) ==
  /\ tty' = [t EXCEPT !.wakein = FALSE, !.wakeout = FALSE]
  /\ asleep' = (asleep \ ((IF t.wakein THEN OnRaw ELSE {}) \cup (IF t.wakeout THEN OnOut ELSE {})))
               \cup more

(* A handler spoils what a process has loaded and is going to store.       *)
Spoils(t) ==
  /\ lost' = ((lost /\ (t.rawq # <<>> \/ t.delct # 0 \/ \E p \in Procs : pc[p] \in {"getdelim", "delct"}))
              \/ (\E p \in Procs : pc[p] = "getdelim" /\ t.delct < tty.delct)
              \/ (\E p \in Procs : pc[p] = "delct" /\ t.delct # tty.delct))

Handler(t) == t.calls <= MaxCalls /\ Store(t, {}) /\ Spoils(t) /\ UNCHANGED <<pc, cnt, tmp, cpu>>

TxAsks == tty.txim /\ tty.fifo <= LEVEL

(* pl011_irq: the receiver's part comes first; whether the transmitter     *)
(* asks has been read before.                                              *)
IrqKey(c) == Handler(LET u == Ttyinput(tty, c) IN IF TxAsks THEN Xint(u) ELSE u)

IrqTx == TxAsks /\ Handler(Xint(tty))

(* ttrstrt, called by clock().                                             *)
Ttrstrt == tty.calls > 0 /\ Handler(Ttstart([tty EXCEPT !.calls = @ - 1, !.state = @ \ {"TIMEOUT"}]))

(* The UART sends a character.                                             *)
Transmit == tty.fifo > 0 /\ Handler([tty EXCEPT !.fifo = @ - 1])

----------------------------------------------------------------------------
(* A process goes to l, in the kernel unless that is user mode.            *)
Goto(p, l) == pc' = [pc EXCEPT ![p] = l] /\ cpu' = IF l = "user" THEN None ELSE p

At(p, l) == pc[p] = l /\ p \notin asleep /\ cpu \in {p, None}

(* It sleeps, and comes back to the same place.                            *)
Sleeps(p, t) == Store(t, {p}) /\ cpu' = None /\ UNCHANGED <<pc, cnt, tmp, lost>>

Call(p, l, n) ==
  /\ At(p, "user") /\ cpu = None /\ Goto(p, l) /\ cnt' = [cnt EXCEPT ![p] = n]
  /\ UNCHANGED <<tty, tmp, asleep, lost>>

(* A signal ends a sleep, or is seen at its end: the call is given up.     *)
Signal(p) ==
  /\ pc[p] # "user" /\ cpu # p /\ asleep' = asleep \ {p} /\ pc' = [pc EXCEPT ![p] = "user"]
  /\ UNCHANGED <<tty, cnt, tmp, cpu, lost>>

(* ttwrite.                                                                *)
WritePut(p, c) ==
  /\ At(p, "write") /\ cnt[p] > 0 /\ Len(tty.outq) <= TTHIWAT
  /\ Store(Ttyoutput(tty, c), {}) /\ Goto(p, "write")
  /\ cnt' = [cnt EXCEPT ![p] = @ - 1] /\ UNCHANGED <<tmp, lost>>

WriteSleep(p) ==
  /\ At(p, "write") /\ cnt[p] > 0 /\ Len(tty.outq) > TTHIWAT
  /\ LET t == Ttstart(tty)
     IN  t.calls <= MaxCalls /\ Sleeps(p, [t EXCEPT !.state = @ \cup {"ASLEEP"}])

WriteEnd(p) ==
  /\ At(p, "write") /\ cnt[p] = 0
  /\ LET t == Ttstart(tty) IN t.calls <= MaxCalls /\ Store(t, {})
  /\ Goto(p, "user") /\ UNCHANGED <<cnt, tmp, lost>>

(* wflushtty, for TIOCSETP, and the new mode.  It starts the output also   *)
(* when that is stopped.                                                   *)
DrainSleep(p) ==
  /\ At(p, "drain") /\ tty.outq # <<>>
  /\ LET t == Pl011out(tty)
     IN  t.calls <= MaxCalls /\ Sleeps(p, [t EXCEPT !.state = @ \cup {"ASLEEP"}])

Drained(p) ==
  /\ At(p, "drain") /\ tty.outq = <<>>
  /\ Store(Flushtty(tty), {}) /\ Goto(p, "setp") /\ lost' = FALSE /\ UNCHANGED <<cnt, tmp>>

Setp(p, mode) ==
  /\ At(p, "setp") /\ tty' = [tty EXCEPT !.raw = mode] /\ Goto(p, "user")
  /\ UNCHANGED <<cnt, tmp, asleep, lost>>

(* TIOCFLUSH.                                                              *)
Flush(p) ==
  /\ At(p, "user") /\ cpu = None /\ Store(Flushtty(tty), {}) /\ lost' = FALSE
  /\ UNCHANGED <<pc, cnt, tmp, cpu>>

----------------------------------------------------------------------------
(* ttread of at most n characters, and canon.                              *)
Ready == IF tty.raw THEN tty.rawq # <<>> ELSE tty.delct # 0

Passc(p, t, n) ==
  /\ Store([t EXCEPT !.canq = @ - Least(n, @)], {})
  /\ Goto(p, "user") /\ cnt' = [cnt EXCEPT ![p] = 0]

ReadCanq(p, n) ==
  /\ At(p, "user") /\ cpu = None /\ tty.canq > 0
  /\ Passc(p, tty, n) /\ UNCHANGED <<tmp, lost>>

ReadCanon(p) == tty.canq = 0 /\ Call(p, "canon", 0)

CanonSleep(p) == At(p, "canon") /\ ~Ready /\ Sleeps(p, tty)

CanonReady(p) ==
  /\ At(p, "canon") /\ Ready /\ Goto(p, "getc")
  /\ UNCHANGED <<tty, cnt, tmp, asleep, lost>>

(* One turn of the loop: how long the line is with the next character.     *)
Grown(n, c) == IF ~tty.raw /\ c = "eot" THEN n ELSE n + 1

CanonGetc(p) ==
  /\ At(p, "getc") /\ tty.rawq # <<>>
  /\ tty' = [tty EXCEPT !.rawq = Tail(@)]
  /\ IF ~tty.raw /\ Head(tty.rawq) = "delim" THEN Goto(p, "getdelim") /\ UNCHANGED cnt
     ELSE LET n == Grown(cnt[p], Head(tty.rawq))
          IN  cnt' = [cnt EXCEPT ![p] = n] /\ Goto(p, IF n >= CANBSIZ - 2 THEN "btoq" ELSE "getc")
  /\ UNCHANGED <<tmp, asleep, lost>>

CanonEmpty(p) ==
  /\ At(p, "getc") /\ tty.rawq = <<>> /\ Goto(p, "btoq")
  /\ UNCHANGED <<tty, cnt, tmp, asleep, lost>>

(* t_delct-- is a load and a store, at spl0.                               *)
DelctLoad(p) ==
  /\ At(p, "getdelim") /\ Goto(p, "delct") /\ tmp' = [tmp EXCEPT ![p] = tty.delct]
  /\ UNCHANGED <<tty, cnt, asleep, lost>>

DelctStore(p) ==
  /\ At(p, "delct") /\ Goto(p, "btoq")
  /\ tty' = [tty EXCEPT !.delct = (tmp[p] + WIDTH - 1) % WIDTH] /\ tmp' = [tmp EXCEPT ![p] = 0]
  /\ UNCHANGED <<cnt, asleep, lost>>

(* The line goes to the canonical queue, as far as there is room, and from *)
(* there to the process.                                                   *)
CanonEnd(p, n) ==
  /\ At(p, "btoq")
  /\ Passc(p, [tty EXCEPT !.canq = @ + Least(cnt[p], Room(tty))], n)
  /\ UNCHANGED <<tmp, lost>>

Next ==
  \/ IrqTx \/ Ttrstrt \/ Transmit \/ \E c \in Keys : IrqKey(c)
  \/ \E p \in Procs : Signal(p)
  \/ \E p \in Writers :
       \/ WriteSleep(p) \/ WriteEnd(p) \/ Flush(p)
       \/ Call(p, "drain", 0) \/ DrainSleep(p) \/ Drained(p)
       \/ \E c \in {"c", "nl"} : WritePut(p, c)
       \/ \E mode \in BOOLEAN : Setp(p, mode)
       \/ \E n \in Counts : Call(p, "write", n)
  \/ \E p \in Readers :
       \/ ReadCanon(p) \/ CanonSleep(p) \/ CanonReady(p) \/ CanonGetc(p) \/ CanonEmpty(p)
       \/ DelctLoad(p) \/ DelctStore(p)
       \/ \E n \in Counts : ReadCanq(p, n) \/ CanonEnd(p, n)

Spec == Init /\ [][Next]_vars

----------------------------------------------------------------------------
(* Type invariant; every character is in one cblock.                       *)
TTY == [rawq : Seq({"c", "eot", "delim"}), canq : Nat, outq : Seq({"c", "delay"}),
        delct : 0..(WIDTH - 1), raw : BOOLEAN, state : SUBSET {"TIMEOUT", "TTSTOP", "ASLEEP"},
        txim : BOOLEAN, fifo : 0..FIFO, calls : Nat, wakein : BOOLEAN, wakeout : BOOLEAN]

TypeOK ==
  /\ tty \in TTY /\ ~tty.wakein /\ ~tty.wakeout /\ Room(tty) >= 0
  /\ pc \in [Procs -> {"user", "write", "drain", "setp", "canon", "getc", "getdelim", "delct", "btoq"}]
  /\ cnt \in [Procs -> Nat] /\ tmp \in [Procs -> 0..(WIDTH - 1)]
  /\ asleep \subseteq Procs /\ cpu \in Procs \cup {None} /\ lost \in BOOLEAN

(* Output never stops for good: with characters in the queue, or with a    *)
(* process asleep until there are few, the UART has been told to ask for   *)
(* more, a pause will end, the user has stopped it, or a process is about  *)
(* to start it; and the sleeper has left its mark.                         *)
OutputMoves ==
  /\ TypeOK
  /\ tty.outq # <<>> \/ OnOut # {} =>
       \/ tty.txim
       \/ "TIMEOUT" \in tty.state /\ tty.calls > 0
       \/ "TTSTOP" \in tty.state
       \/ \E p \in Procs : pc[p] = "write" /\ cpu = p
  /\ OnOut # {} => "ASLEEP" \in tty.state

(* t_delct is the number of delimiters in the raw queue, counting one that *)
(* canon has just taken out: whatever is typed, flushed or overflows.      *)
(* Unless an interrupt changed it while canon was decrementing it.         *)
DelctRight ==
  ~lost /\ ~tty.raw =>
    tty.delct = Cardinality({i \in DOMAIN tty.rawq : tty.rawq[i] = "delim"})
                + Cardinality({p \in Procs : pc[p] \in {"getdelim", "delct"}})

(* No reader sleeps while there is something to read, by the test that     *)
(* canon makes.                                                            *)
ReadersTold == OnRaw # {} => ~Ready
=============================================================================
