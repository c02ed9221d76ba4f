----------------------------- MODULE TtyProofs -----------------------------
(***************************************************************************)
(* Proofs about the terminal of Tty, for any processes, keys and sizes:    *)
(* output never comes to rest with characters or writers waiting, no       *)
(* reader sleeps with something to read, and the count of lines is right.  *)
(*                                                                         *)
(* A handler is a composition of routines that map a terminal to another.  *)
(* What each does is stated as a relation between the two, in two halves:  *)
(* the output side (Moving, Going) and the input side (InputStep).         *)
(***************************************************************************)
EXTENDS Tty, FiniteSetTheorems, FunctionTheorems, SequenceTheorems, WellFoundedInduction, TLAPS

RawChars == {"c", "eot", "delim"}
OutChars == {"c", "delay"}
Flags == {"TIMEOUT", "TTSTOP", "ASLEEP"}

(* Something will send on: the transmitter asks for more, a pause ends, or *)
(* the user has stopped the output.                                        *)
Going(t) == t.txim \/ ("TIMEOUT" \in t.state /\ t.calls > 0) \/ "TTSTOP" \in t.state

(* What is kept of the output side, where o says that somebody sleeps on   *)
(* it: a pause has its time-out, and the sleeper its mark or a wakeup.     *)
Marked(t, o) ==
  /\ "TIMEOUT" \in t.state => t.calls > 0
  /\ o => "ASLEEP" \in t.state \/ t.wakeout
  /\ Room(t) >= 0

(* Output goes on, or has come to its end and the sleepers are woken.      *)
Moving(t, o) == Going(t) \/ (t.outq = <<>> /\ (o => t.wakeout))

(* u is t but for the output side.                                         *)
SameInput(u, t) ==
  /\ u \in TTY
  /\ u.rawq = t.rawq /\ u.canq = t.canq /\ u.delct = t.delct /\ u.raw = t.raw
  /\ u.wakein = t.wakein

(* What happens to the input side: nothing, it is emptied, a character     *)
(* comes in, or one and a delimiter.  Readers are woken where there may be *)
(* something new for them.                                                 *)
InputStep(v, t) ==
  /\ v.raw = t.raw /\ (t.wakein => v.wakein)
  /\ \/ v.rawq = t.rawq /\ v.delct = t.delct
     \/ v.rawq = <<>> /\ v.delct = 0 /\ v.wakein
     \/ \E c \in {"c", "eot"} : v.rawq = Append(t.rawq, c) /\ v.delct = t.delct /\ (t.raw => v.wakein)
     \/ /\ ~t.raw /\ Len(t.rawq) <= TTYHOG /\ v.wakein /\ v.delct = (t.delct + 1) % WIDTH
        /\ \E c \in {"c", "eot"} : v.rawq = Append(Append(t.rawq, c), "delim")

(* The types of the fields.                                                *)
LEMMA Fields ==
  ASSUME NEW t \in TTY
  PROVE  /\ t.rawq \in Seq(RawChars) /\ t.canq \in Nat /\ t.outq \in Seq(OutChars)
         /\ Len(t.rawq) \in Nat /\ Len(t.outq) \in Nat
         /\ t.delct \in 0..(WIDTH - 1) /\ t.raw \in BOOLEAN /\ t.state \in SUBSET Flags
         /\ t.txim \in BOOLEAN /\ t.fifo \in 0..FIFO /\ t.calls \in Nat
         /\ t.wakein \in BOOLEAN /\ t.wakeout \in BOOLEAN
         /\ Room(t) \in Int
<1>1. /\ t.rawq \in Seq(RawChars) /\ t.canq \in Nat /\ t.outq \in Seq(OutChars)
      /\ t.delct \in 0..(WIDTH - 1) /\ t.raw \in BOOLEAN /\ t.state \in SUBSET Flags
      /\ t.txim \in BOOLEAN /\ t.fifo \in 0..FIFO /\ t.calls \in Nat
      /\ t.wakein \in BOOLEAN /\ t.wakeout \in BOOLEAN
  BY Zenon DEF TTY, RawChars, OutChars, Flags
<1>2. Len(t.rawq) \in Nat /\ Len(t.outq) \in Nat BY <1>1
<1>3. NCLIST \in Nat BY SizesAssumption
<1>4. Room(t) \in Int BY <1>1, <1>2, <1>3 DEF Room
<1> QED BY <1>1, <1>2, <1>4

(* The sizes are numbers.                                                  *)
LEMMA Sizes ==
  /\ TTHIWAT \in Nat /\ TTLOWAT \in Nat /\ TTYHOG \in Nat /\ NCLIST \in Nat /\ FIFO \in Nat
  /\ LEVEL \in Nat /\ WIDTH \in Nat \ {0} /\ 2 * WIDTH > TTYHOG + 3
BY SizesAssumption

(* Every set of numbers up to a bound that is not empty has a greatest.    *)
LEMMA Greatest ==
  ASSUME NEW T, NEW b \in Nat, T \subseteq 0..b, T # {}
  PROVE  \E x \in T : \A y \in T : y <= x
<1> DEFINE U == {b - y : y \in T}
<1>1. U \subseteq Nat /\ U # {}
  <2>1. \A y \in T : b - y \in Nat OBVIOUS
  <2>2. PICK y \in T : TRUE OBVIOUS
  <2>3. b - y \in U BY <2>2
  <2> QED BY <2>1, <2>3
<1>2. \E u \in U : \A v \in U : ~(v < u)
  <2>1. \E u \in U : \A v \in U : <<v, u>> \notin OpToRel(<, Nat)
    BY <1>1, WFMin, NatLessThanWellFounded, Zenon
  <2> HIDE DEF U
  <2> QED BY <1>1, <2>1 DEF OpToRel
<1>3. PICK u \in U : \A v \in U : ~(v < u) BY <1>2
<1>4. PICK x \in T : u = b - x BY <1>3
<1>5. \A y \in T : y <= x
  <2> TAKE y \in T
  <2>1. ~(b - y < b - x) BY <1>3, <1>4
  <2>2. x \in 0..b /\ y \in 0..b OBVIOUS
  <2> QED BY <2>1, <2>2
<1> QED BY <1>5

----------------------------------------------------------------------------
(* The output side.                                                        *)

(* pl011start fills the FIFO, and no more.                                 *)
LEMMA SentFacts ==
  ASSUME NEW t \in TTY
  PROVE  Sent(t) \in 0..Len(t.outq) /\ t.fifo + Sent(t) \in 0..FIFO
<1> DEFINE plain == {n \in 0..Len(t.outq) : t.raw \/ \A i \in 1..n : t.outq[i] # "delay"}
           T == {n \in plain : n <= FIFO - t.fifo}
<1>1. Len(t.outq) \in Nat /\ t.fifo \in 0..FIFO /\ FIFO \in Nat BY Fields, Sizes
<1>2. 0 \in T BY <1>1
<1>3. T \subseteq 0..Len(t.outq) OBVIOUS
<1>4. PICK n \in T : \A m \in T : m <= n
  <2> HIDE DEF T
  <2> QED BY <1>1, <1>2, <1>3, Greatest
<1>5. \E k \in plain : k <= FIFO - t.fifo /\ \A m \in plain : m <= FIFO - t.fifo => m <= k BY <1>4
<1>6. Sent(t) \in plain /\ Sent(t) <= FIFO - t.fifo
  <2> HIDE DEF plain
  <2>1. Sent(t) = CHOOSE k \in plain :
                    k <= FIFO - t.fifo /\ \A m \in plain : m <= FIFO - t.fifo => m <= k
    BY Zenon DEF Sent, plain
  <2> QED BY <1>5, <2>1
<1> QED BY <1>1, <1>6

(* Fewer characters in outq leave no less room.                            *)
LEMMA RoomLeft ==
  ASSUME NEW t, NEW v, Len(t.rawq) \in Nat, t.canq \in Nat, Len(t.outq) \in Nat,
         Len(v.rawq) = Len(t.rawq), v.canq = t.canq, Len(v.outq) \in Nat,
         Len(v.outq) <= Len(t.outq), Room(t) >= 0
  PROVE  Room(v) >= 0
<1>1. \A n, r, c, o, m \in Nat : m <= o /\ n - r - c - o >= 0 => n - r - c - m >= 0 OBVIOUS
<1>2. NCLIST - Len(t.rawq) - t.canq - Len(t.outq) >= 0 BY Zenon DEF Room
<1>3. NCLIST - Len(t.rawq) - t.canq - Len(v.outq) >= 0 BY <1>1, <1>2, Sizes, Zenon
<1> QED BY <1>3, Zenon DEF Room

(* pl011out goes on: it asks for more, or pauses.                          *)
LEMMA Pl011outFacts ==
  ASSUME NEW t \in TTY, NEW o \in BOOLEAN, Marked(t, o)
  PROVE  LET v == Pl011out(t)
         IN  /\ SameInput(v, t) /\ Marked(v, o) /\ Going(v) /\ v.wakeout = t.wakeout
<1> DEFINE n == Sent(t)
           q == SubSeq(t.outq, n + 1, Len(t.outq))
           u == [t EXCEPT !.outq = q, !.fifo = t.fifo + n]
           v == Pl011out(t)
<1>1. n \in 0..Len(t.outq) /\ t.fifo + n \in 0..FIFO BY SentFacts
<1>2. /\ t.outq \in Seq(OutChars) /\ Len(t.outq) \in Nat /\ Len(t.rawq) \in Nat /\ t.canq \in Nat
      /\ t.calls \in Nat /\ t.state \in SUBSET Flags /\ NCLIST \in Nat
  BY Fields, Sizes
<1>3. q \in Seq(OutChars) /\ Len(q) = Len(t.outq) - n
  <2>1. \A i \in (n + 1)..Len(t.outq) : t.outq[i] \in OutChars BY <1>1, <1>2
  <2>2. n + 1 \in Int /\ Len(t.outq) \in Int BY <1>1, <1>2
  <2>3. q \in Seq(OutChars) /\ Len(q) = IF n + 1 <= Len(t.outq) THEN Len(t.outq) - (n + 1) + 1 ELSE 0
    BY <2>1, <2>2, SubSeqProperties
  <2> QED BY <1>1, <1>2, <2>3
<1> HIDE DEF n, q
<1>4. /\ u \in TTY /\ u.outq = q /\ u.rawq = t.rawq /\ u.canq = t.canq /\ u.delct = t.delct
      /\ u.raw = t.raw /\ u.state = t.state /\ u.txim = t.txim /\ u.calls = t.calls
      /\ u.wakein = t.wakein /\ u.wakeout = t.wakeout
  BY <1>1, <1>3, Zenon DEF TTY, OutChars
<1> HIDE DEF u
<1>5. CASE Pause(t)
  <2> DEFINE s == t.state \cup {"TIMEOUT"}
  <2>1. v = [u EXCEPT !.outq = Tail(q), !.state = s, !.calls = t.calls + 1]
    BY <1>4, <1>5, Zenon DEF Pl011out, u, q, n
  <2>2. q # <<>> /\ Tail(q) \in Seq(OutChars) /\ Len(Tail(q)) = Len(q) - 1
    <3>1. n < Len(t.outq) BY <1>5 DEF Pause, n
    <3>2. q # <<>> BY <1>1, <1>2, <1>3, <3>1
    <3> QED BY <1>3, <3>2, HeadTailProperties
  <2>3. s \in SUBSET {"TIMEOUT", "TTSTOP", "ASLEEP"} /\ t.calls + 1 \in Nat /\ t.calls + 1 > 0
    BY <1>2 DEF Flags
  <2> HIDE DEF s, v
  <2>4. /\ v \in TTY /\ v.outq = Tail(q) /\ v.rawq = u.rawq /\ v.canq = u.canq /\ v.delct = u.delct
        /\ v.raw = u.raw /\ v.state = s /\ v.calls = t.calls + 1
        /\ v.wakein = u.wakein /\ v.wakeout = u.wakeout
    BY <1>4, <2>1, <2>2, <2>3, Zenon DEF TTY, OutChars
  <2>5. Room(v) >= 0
    <3>1. Len(v.rawq) = Len(t.rawq) /\ v.canq = t.canq BY <1>4, <2>4
    <3>2. Len(v.outq) \in Nat /\ Len(v.outq) <= Len(t.outq) BY <1>1, <1>2, <1>3, <2>2, <2>4
    <3>3. Room(t) >= 0 BY DEF Marked
    <3> QED BY <1>2, <3>1, <3>2, <3>3, RoomLeft
  <2>6. Marked(v, o) BY <1>4, <2>3, <2>4, <2>5 DEF Marked, s
  <2>7. Going(v) BY <2>3, <2>4 DEF Going, s
  <2> QED BY <1>4, <2>4, <2>6, <2>7 DEF SameInput, v
<1>6. CASE ~Pause(t)
  <2>1. v = [u EXCEPT !.txim = TRUE] BY <1>6, Zenon DEF Pl011out, u, q, n
  <2> HIDE DEF v
  <2>2. /\ v \in TTY /\ v.outq = u.outq /\ v.rawq = u.rawq /\ v.canq = u.canq /\ v.delct = u.delct
        /\ v.raw = u.raw /\ v.state = u.state /\ v.calls = u.calls /\ v.txim
        /\ v.wakein = u.wakein /\ v.wakeout = u.wakeout
    BY <1>4, <2>1, Zenon DEF TTY
  <2>3. Room(v) >= 0 BY <1>1, <1>2, <1>3, <1>4, <2>2 DEF Marked, Room
  <2>4. Marked(v, o) BY <1>4, <2>2, <2>3 DEF Marked
  <2> QED BY <1>4, <2>2, <2>4 DEF SameInput, Going, v
<1> QED BY <1>5, <1>6

(* ttstart leaves the output going.                                        *)
LEMMA TtstartFacts ==
  ASSUME NEW t \in TTY, NEW o \in BOOLEAN, Marked(t, o)
  PROVE  LET v == Ttstart(t)
         IN  /\ SameInput(v, t) /\ Marked(v, o) /\ Going(v) /\ v.wakeout = t.wakeout
<1>1. CASE t.state \cap {"TIMEOUT", "TTSTOP"} = {} BY <1>1, Pl011outFacts DEF Ttstart
<1>2. CASE t.state \cap {"TIMEOUT", "TTSTOP"} # {}
  <2>1. Ttstart(t) = t BY <1>2 DEF Ttstart
  <2>2. "TIMEOUT" \in t.state \/ "TTSTOP" \in t.state BY <1>2
  <2> QED BY <2>1, <2>2 DEF SameInput, Going, Marked
<1> QED BY <1>1, <1>2

(* flushtty empties the queues and wakes everybody.                        *)
LEMMA FlushttyFacts ==
  ASSUME NEW t \in TTY, NEW o \in BOOLEAN, Marked(t, o)
  PROVE  LET v == Flushtty(t)
         IN  /\ v \in TTY /\ Marked(v, o) /\ Moving(v, o)
             /\ v.rawq = <<>> /\ v.outq = <<>> /\ v.delct = 0 /\ v.wakein /\ v.wakeout /\ v.raw = t.raw
<1> DEFINE s == t.state \ {"TTSTOP"}
           v == Flushtty(t)
<1>1. 0 \in 0..(WIDTH - 1) BY Sizes
<1>2. 0 \in Nat /\ <<>> \in Seq(RawChars) /\ <<>> \in Seq(OutChars) OBVIOUS
<1>3. s \in SUBSET Flags /\ ("TIMEOUT" \in s => "TIMEOUT" \in t.state) BY Fields
<1>4. v = [t EXCEPT !.canq = 0, !.outq = <<>>, !.rawq = <<>>, !.delct = 0, !.state = s,
                    !.txim = FALSE, !.wakein = TRUE, !.wakeout = TRUE]
  BY Zenon DEF Flushtty
<1> HIDE DEF v, s
<1>5. /\ v \in TTY /\ v.rawq = <<>> /\ v.outq = <<>> /\ v.canq = 0 /\ v.delct = 0 /\ v.wakein
      /\ v.wakeout /\ v.raw = t.raw /\ v.calls = t.calls /\ v.state = s
  BY <1>1, <1>2, <1>3, <1>4, Zenon DEF TTY, RawChars, OutChars, Flags
<1>6. Room(v) >= 0 BY <1>5, Sizes DEF Room
<1>7. Marked(v, o) /\ Moving(v, o) BY <1>3, <1>5, <1>6 DEF Marked, Moving
<1> QED BY <1>5, <1>7 DEF v

(* ttyoutput puts characters out as far as there are cblocks.              *)
LEMMA TtyoutputFacts ==
  ASSUME NEW t \in TTY, NEW o \in BOOLEAN, Marked(t, o), NEW c
  PROVE  LET v == Ttyoutput(t, c)
         IN  /\ SameInput(v, t) /\ Marked(v, o) /\ (t.wakeout => v.wakeout)
             /\ v.state = t.state /\ v.txim = t.txim /\ v.calls = t.calls /\ v.wakeout = t.wakeout
<1> DEFINE s == Image(t, c)
           k == Least(Room(t), Len(s))
           q == t.outq \o SubSeq(s, 1, k)
           v == Ttyoutput(t, c)
<1>1. s \in Seq(OutChars)
  <2>1. <<"c">> \in Seq(OutChars) /\ <<"c", "delay">> \in Seq(OutChars) /\ <<>> \in Seq(OutChars)
    BY DEF OutChars
  <2>2. s = <<"c">> \/ s = <<"c", "delay">> \/ s = <<>> BY Zenon DEF Image
  <2> HIDE DEF s
  <2> QED BY <2>1, <2>2
<1> HIDE DEF s
<1>2. /\ t.outq \in Seq(OutChars) /\ Len(t.outq) \in Nat /\ Len(t.rawq) \in Nat /\ t.canq \in Nat
      /\ NCLIST \in Nat /\ Len(s) \in Nat /\ Room(t) \in Nat
  BY <1>1, Fields, Sizes DEF Marked
<1>3. k \in 0..Len(s) /\ k <= Room(t) BY <1>2 DEF Least
<1> HIDE DEF k
<1>4. SubSeq(s, 1, k) \in Seq(OutChars) /\ Len(SubSeq(s, 1, k)) = k
  <2>1. \A i \in 1..k : s[i] \in OutChars BY <1>1, <1>3
  <2>2. SubSeq(s, 1, k) \in Seq(OutChars) /\ Len(SubSeq(s, 1, k)) = IF 1 <= k THEN k - 1 + 1 ELSE 0
    BY <1>3, <2>1, SubSeqProperties
  <2> QED BY <1>3, <2>2
<1>5. q \in Seq(OutChars) /\ Len(q) = Len(t.outq) + k BY <1>2, <1>4, ConcatProperties
<1>6. v = [t EXCEPT !.outq = q] BY Zenon DEF Ttyoutput, PutOut, q, k, s
<1> HIDE DEF q, v
<1>7. /\ v \in TTY /\ v.outq = q /\ v.rawq = t.rawq /\ v.canq = t.canq /\ v.delct = t.delct
      /\ v.raw = t.raw /\ v.state = t.state /\ v.txim = t.txim /\ v.calls = t.calls
      /\ v.wakein = t.wakein /\ v.wakeout = t.wakeout
  BY <1>5, <1>6, Zenon DEF TTY, OutChars
<1>8. Room(v) >= 0
  <2>1. Len(v.rawq) = Len(t.rawq) /\ v.canq = t.canq /\ Len(v.outq) = Len(t.outq) + k BY <1>5, <1>7
  <2>2. Room(v) = NCLIST - Len(t.rawq) - t.canq - (Len(t.outq) + k) BY <2>1, Zenon DEF Room
  <2>3. k \in Nat /\ k <= NCLIST - Len(t.rawq) - t.canq - Len(t.outq) BY <1>3 DEF Room
  <2>4. \A a, r, b, d, j \in Nat : j <= a - r - b - d => a - r - b - (d + j) >= 0 OBVIOUS
  <2>5. NCLIST - Len(t.rawq) - t.canq - (Len(t.outq) + k) >= 0 BY <1>2, <2>3, <2>4, Zenon
  <2> QED BY <2>2, <2>5, Zenon
<1>9. Marked(v, o) BY <1>7, <1>8 DEF Marked
<1> QED BY <1>7, <1>9 DEF SameInput, v

(* pl011xint sends on, or is at the end of the queue and wakes whoever     *)
(* waits for that.                                                         *)
LEMMA XintFacts ==
  ASSUME NEW t \in TTY, NEW o \in BOOLEAN, Marked(t, o)
  PROVE  LET v == Xint(t)
         IN  /\ SameInput(v, t) /\ Marked(v, o) /\ Moving(v, o) /\ (t.wakeout => v.wakeout)
<1> DEFINE u == IF t.outq # <<>> THEN Pl011out(t) ELSE [t EXCEPT !.txim = FALSE]
           v == Xint(t)
<1>1. /\ SameInput(u, t) /\ Marked(u, o) /\ (t.wakeout => u.wakeout)
      /\ Going(u) \/ u.outq = <<>>
  <2>1. CASE t.outq # <<>>
    <3>1. u = Pl011out(t) BY <2>1
    <3> HIDE DEF u
    <3> QED BY <3>1, Pl011outFacts
  <2>2. CASE t.outq = <<>>
    <3>1. u = [t EXCEPT !.txim = FALSE] BY <2>2
    <3> HIDE DEF u
    <3>2. /\ u \in TTY /\ u.outq = t.outq /\ u.rawq = t.rawq /\ u.canq = t.canq /\ u.delct = t.delct
          /\ u.raw = t.raw /\ u.state = t.state /\ u.calls = t.calls
          /\ u.wakein = t.wakein /\ u.wakeout = t.wakeout
      BY <3>1, Zenon DEF TTY
    <3>3. Room(u) = Room(t) BY <3>2 DEF Room
    <3> QED BY <2>2, <3>2, <3>3 DEF SameInput, Marked
  <2> QED BY <2>1, <2>2
<1>2. v = IF "ASLEEP" \in u.state /\ Len(u.outq) <= TTLOWAT
          THEN [u EXCEPT !.state = u.state \ {"ASLEEP"}, !.wakeout = TRUE] ELSE u
  BY Zenon DEF Xint
<1> HIDE DEF u, v
<1>3. u \in TTY BY <1>1 DEF SameInput
<1>4. CASE "ASLEEP" \in u.state /\ Len(u.outq) <= TTLOWAT
  <2> DEFINE s == u.state \ {"ASLEEP"}
  <2>1. s \in SUBSET Flags BY <1>3, Fields
  <2>2. v = [u EXCEPT !.state = s, !.wakeout = TRUE] BY <1>2, <1>4
  <2> HIDE DEF s
  <2>3. /\ v \in TTY /\ v.outq = u.outq /\ v.rawq = u.rawq /\ v.canq = u.canq /\ v.delct = u.delct
        /\ v.raw = u.raw /\ v.state = s /\ v.calls = u.calls /\ v.txim = u.txim
        /\ v.wakein = u.wakein /\ v.wakeout
    BY <1>3, <2>1, <2>2, Zenon DEF TTY, Flags
  <2>4. Room(v) = Room(u) BY <2>3 DEF Room
  <2>5. Marked(v, o) BY <1>1, <2>3, <2>4 DEF Marked, s
  <2>6. Going(u) => Going(v) BY <2>3 DEF Going, s
  <2>7. Moving(v, o) BY <1>1, <2>3, <2>6 DEF Moving
  <2> QED BY <1>1, <2>3, <2>5, <2>7 DEF SameInput, v
<1>5. CASE ~("ASLEEP" \in u.state /\ Len(u.outq) <= TTLOWAT)
  <2>1. v = u BY <1>2, <1>5
  <2>2. u.outq = <<>> => "ASLEEP" \notin u.state
    <3>1. u.outq = <<>> => Len(u.outq) = 0 OBVIOUS
    <3> QED BY <1>5, <3>1, Sizes
  <2>3. Moving(u, o) BY <1>1, <2>2 DEF Moving, Marked
  <2> QED BY <1>1, <2>1, <2>3 DEF v
<1> QED BY <1>4, <1>5
----------------------------------------------------------------------------
(* The input side.                                                         *)

(* Enter puts in as much of a character and its delimiter as there is room *)
(* for.                                                                    *)
LEMMA EnterFacts ==
  ASSUME NEW t \in TTY, NEW o \in BOOLEAN, Marked(t, o), NEW c, Len(t.rawq) <= TTYHOG
  PROVE  LET v == Enter(t, c)
         IN  /\ v \in TTY /\ Marked(v, o) /\ InputStep(v, t) /\ v.wakeout = t.wakeout
<1> DEFINE x == IF c = "eot" THEN c ELSE "c"
           u == IF Room(t) > 0 THEN [t EXCEPT !.rawq = Append(t.rawq, x)] ELSE t
           v == Enter(t, c)
<1>1. x \in {"c", "eot"} OBVIOUS
<1> HIDE DEF x
<1>2. /\ t.rawq \in Seq(RawChars) /\ Len(t.outq) \in Nat /\ Len(t.rawq) \in Nat /\ t.canq \in Nat
      /\ NCLIST \in Nat /\ Room(t) \in Nat /\ WIDTH \in Nat \ {0} /\ t.delct \in Nat
  BY Fields, Sizes DEF Marked
<1>3. /\ u \in TTY /\ u.outq = t.outq /\ u.canq = t.canq /\ u.delct = t.delct /\ u.raw = t.raw
      /\ u.state = t.state /\ u.calls = t.calls /\ u.wakein = t.wakein /\ u.wakeout = t.wakeout
      /\ Room(u) \in Nat
      /\ u.rawq = t.rawq \/ u.rawq = Append(t.rawq, x)
      /\ Room(u) > 0 => u.rawq = Append(t.rawq, x)
  <2>1. CASE Room(t) > 0
    <3> DEFINE q == Append(t.rawq, x)
    <3>1. q \in Seq(RawChars) /\ Len(q) = Len(t.rawq) + 1
      <4>1. x \in RawChars BY <1>1 DEF RawChars
      <4> QED BY <1>2, <4>1, AppendProperties
    <3>2. u = [t EXCEPT !.rawq = q] BY <2>1
    <3> HIDE DEF u, q
    <3>3. /\ u \in TTY /\ u.outq = t.outq /\ u.canq = t.canq /\ u.delct = t.delct /\ u.raw = t.raw
          /\ u.state = t.state /\ u.calls = t.calls /\ u.wakein = t.wakein
          /\ u.wakeout = t.wakeout /\ u.rawq = q
      BY <3>1, <3>2, Zenon DEF TTY, RawChars
    <3>4. Room(u) = Room(t) - 1
      <4>1. Len(u.rawq) = Len(t.rawq) + 1 /\ Len(u.outq) = Len(t.outq) /\ u.canq = t.canq
        BY <3>1, <3>3
      <4>2. Room(u) = NCLIST - (Len(t.rawq) + 1) - t.canq - Len(t.outq) BY <4>1, Zenon DEF Room
      <4>3. Room(t) = NCLIST - Len(t.rawq) - t.canq - Len(t.outq) BY Zenon DEF Room
      <4>4. \A a, r, b, d \in Nat : a - (r + 1) - b - d = (a - r - b - d) - 1 OBVIOUS
      <4>5. NCLIST - (Len(t.rawq) + 1) - t.canq - Len(t.outq)
              = (NCLIST - Len(t.rawq) - t.canq - Len(t.outq)) - 1
        BY <1>2, <4>4, Sizes
      <4> QED BY <4>2, <4>3, <4>5, Zenon
    <3>5. Room(u) \in Nat BY <1>2, <2>1, <3>4
    <3> QED BY <3>3, <3>5 DEF q
  <2>2. CASE ~(Room(t) > 0) BY <1>2, <2>2
  <2> QED BY <2>1, <2>2
<1>4. v = IF t.raw THEN [u EXCEPT !.wakein = TRUE]
          ELSE IF c \notin {"nl", "eot"} THEN u
          ELSE IF Room(u) = 0 THEN [u EXCEPT !.wakein = TRUE]
          ELSE [u EXCEPT !.rawq = Append(u.rawq, "delim"), !.delct = (u.delct + 1) % WIDTH,
                         !.wakein = TRUE]
  BY Zenon DEF Enter, u, x
<1> HIDE DEF u, v
<1>5. CASE v = [u EXCEPT !.wakein = TRUE]
  <2>1. /\ v \in TTY /\ v.outq = u.outq /\ v.canq = u.canq /\ v.delct = u.delct /\ v.raw = u.raw
        /\ v.state = u.state /\ v.calls = u.calls /\ v.wakein /\ v.wakeout = u.wakeout
        /\ v.rawq = u.rawq
    BY <1>3, <1>5, Zenon DEF TTY
  <2>2. Room(v) = Room(u) BY <2>1 DEF Room
  <2>3. Marked(v, o) BY <1>3, <2>1, <2>2 DEF Marked
  <2>4. InputStep(v, t) BY <1>1, <1>3, <2>1, Zenon DEF InputStep
  <2> QED BY <1>3, <2>1, <2>3, <2>4 DEF v
<1>6. CASE v = u /\ ~t.raw
  <2>1. Marked(u, o) BY <1>3 DEF Marked
  <2>2. InputStep(u, t) BY <1>1, <1>3, <1>6, Zenon DEF InputStep
  <2> QED BY <1>3, <1>6, <2>1, <2>2 DEF v
<1>7. CASE /\ ~t.raw /\ Room(u) # 0
           /\ v = [u EXCEPT !.rawq = Append(u.rawq, "delim"), !.delct = (u.delct + 1) % WIDTH,
                            !.wakein = TRUE]
  <2> DEFINE q == Append(u.rawq, "delim")
             d == (u.delct + 1) % WIDTH
  <2>1. q \in Seq(RawChars) /\ Len(q) = Len(u.rawq) + 1 /\ Len(u.rawq) \in Nat
    <3>1. u.rawq \in Seq(RawChars) BY <1>3, Fields
    <3>2. "delim" \in RawChars BY DEF RawChars
    <3> QED BY <3>1, <3>2, AppendProperties
  <2>2. d \in 0..(WIDTH - 1) BY <1>2, <1>3
  <2>3. v = [u EXCEPT !.rawq = q, !.delct = d, !.wakein = TRUE] BY <1>7
  <2> HIDE DEF q, d
  <2>4. /\ v \in TTY /\ v.outq = u.outq /\ v.canq = u.canq /\ v.delct = d /\ v.raw = u.raw
        /\ v.state = u.state /\ v.calls = u.calls /\ v.wakein /\ v.wakeout = u.wakeout
        /\ v.rawq = q
    BY <1>3, <2>1, <2>2, <2>3, Zenon DEF TTY, RawChars
  <2>5. Room(v) \in Nat
    <3>1. Room(v) = Room(u) - 1
      <4>1. Len(v.rawq) = Len(u.rawq) + 1 /\ Len(v.outq) = Len(u.outq) /\ v.canq = u.canq
        BY <2>1, <2>4
      <4>2. Len(u.outq) \in Nat /\ Len(u.rawq) \in Nat /\ u.canq \in Nat /\ NCLIST \in Nat
        BY <1>3, Fields, Sizes
      <4> QED BY <4>1, <4>2 DEF Room
    <3> QED BY <1>3, <1>7, <3>1
  <2>6. Marked(v, o) BY <1>3, <2>4, <2>5 DEF Marked
  <2>7. u.rawq = Append(t.rawq, x)
    <3>1. Room(u) > 0 BY <1>3, <1>7
    <3> QED BY <1>3, <3>1
  <2>8. v.rawq = Append(Append(t.rawq, x), "delim") /\ v.delct = (t.delct + 1) % WIDTH
    BY <1>3, <2>4, <2>7 DEF q, d
  <2>9. InputStep(v, t) BY <1>1, <1>3, <1>7, <2>4, <2>8, Zenon DEF InputStep
  <2> QED BY <1>3, <2>4, <2>6, <2>9 DEF v
<1> QED BY <1>4, <1>5, <1>6, <1>7, Zenon

(* ttyinput keeps the output going and does one of the steps of InputStep. *)
LEMMA TtyinputFacts ==
  ASSUME NEW t \in TTY, NEW o \in BOOLEAN, Marked(t, o), NEW c
  PROVE  LET v == Ttyinput(t, c)
         IN  /\ v \in TTY /\ Marked(v, o) /\ InputStep(v, t)
             /\ (t.wakeout => v.wakeout) /\ (Moving(t, o) => Moving(v, o))
<1> DEFINE stopped == "TTSTOP" \in t.state
           f == [t EXCEPT !.state = t.state \ {"TTSTOP"}]
           u == IF ~t.raw /\ stopped THEN Ttstart(f) ELSE t
           v == Ttyinput(t, c)
<1>1. /\ SameInput(u, t) /\ Marked(u, o) /\ (t.wakeout => u.wakeout) /\ (Moving(t, o) => Moving(u, o))
  <2>1. CASE ~t.raw /\ stopped
    <3> DEFINE s == t.state \ {"TTSTOP"}
    <3>1. s \in SUBSET Flags BY Fields
    <3>2. f = [t EXCEPT !.state = s] OBVIOUS
    <3> HIDE DEF f, s
    <3>3. /\ f \in TTY /\ f.outq = t.outq /\ f.rawq = t.rawq /\ f.canq = t.canq /\ f.delct = t.delct
          /\ f.raw = t.raw /\ f.state = s /\ f.calls = t.calls /\ f.wakein = t.wakein
          /\ f.wakeout = t.wakeout
      BY <3>1, <3>2, Zenon DEF TTY, Flags
    <3>4. Room(f) = Room(t) BY <3>3 DEF Room
    <3>5. Marked(f, o) BY <3>3, <3>4 DEF Marked, s
    <3>6. u = Ttstart(f) BY <2>1
    <3> HIDE DEF u
    <3>7. SameInput(u, f) /\ Marked(u, o) /\ Going(u) /\ (f.wakeout => u.wakeout)
      BY <3>3, <3>5, <3>6, TtstartFacts
    <3> QED BY <3>3, <3>7 DEF SameInput, Moving
  <2>2. CASE ~(~t.raw /\ stopped)
    <3>1. u = t BY <2>2
    <3> HIDE DEF u
    <3> QED BY <3>1 DEF SameInput
  <2> QED BY <2>1, <2>2
<1>2. v = IF ~t.raw /\ c = "start" THEN u
          ELSE IF ~t.raw /\ c = "stop"
            THEN IF stopped THEN t ELSE [t EXCEPT !.state = t.state \cup {"TTSTOP"}, !.txim = FALSE]
          ELSE IF ~t.raw /\ c = "intr" THEN Flushtty(u)
          ELSE IF Len(u.rawq) > TTYHOG THEN Flushtty(u) ELSE Echo(Enter(u, c), c)
  BY Zenon DEF Ttyinput, u, f, stopped
<1>3. u \in TTY /\ u.raw = t.raw /\ u.rawq = t.rawq /\ u.delct = t.delct /\ u.wakein = t.wakein
  BY <1>1 DEF SameInput
<1> HIDE DEF u, v, stopped
<1>4. CASE v = u BY <1>1, <1>3, <1>4 DEF v, InputStep
<1>5. CASE v = t BY <1>5 DEF v, InputStep
<1>6. CASE v = Flushtty(u)
  <2>1. /\ v \in TTY /\ Marked(v, o) /\ Moving(v, o) /\ v.rawq = <<>> /\ v.delct = 0 /\ v.wakein
        /\ v.wakeout /\ v.raw = u.raw
    BY <1>1, <1>3, <1>6, FlushttyFacts
  <2>2. InputStep(v, t) BY <1>3, <2>1 DEF InputStep
  <2> QED BY <2>1, <2>2 DEF v
<1>7. CASE v = [t EXCEPT !.state = t.state \cup {"TTSTOP"}, !.txim = FALSE]
  <2> DEFINE s == t.state \cup {"TTSTOP"}
  <2>1. s \in SUBSET Flags
    <3>1. t.state \in SUBSET Flags BY Fields
    <3> QED BY <3>1 DEF Flags
  <2>2. v = [t EXCEPT !.state = s, !.txim = FALSE] BY <1>7
  <2> HIDE DEF s
  <2>3. /\ v \in TTY /\ v.outq = t.outq /\ v.rawq = t.rawq /\ v.canq = t.canq /\ v.delct = t.delct
        /\ v.raw = t.raw /\ v.state = s /\ v.calls = t.calls /\ v.wakein = t.wakein
        /\ v.wakeout = t.wakeout
    BY <2>1, <2>2, Zenon DEF TTY, Flags
  <2>4. Room(v) = Room(t) BY <2>3 DEF Room
  <2>5. Marked(v, o) /\ Moving(v, o) /\ InputStep(v, t)
    BY <2>3, <2>4 DEF Marked, Moving, Going, InputStep, s
  <2> QED BY <2>3, <2>5 DEF v
<1>8. CASE ~(Len(u.rawq) > TTYHOG) /\ v = Echo(Enter(u, c), c)
  <2> DEFINE w == Enter(u, c)
             y == Ttyoutput(w, c)
  <2>1. Len(u.rawq) <= TTYHOG
    <3>1. Len(u.rawq) \in Nat /\ TTYHOG \in Nat BY <1>3, Fields, Sizes
    <3> QED BY <1>8, <3>1
  <2>2. w \in TTY /\ Marked(w, o) /\ InputStep(w, u) /\ w.wakeout = u.wakeout
    BY <1>1, <1>3, <2>1, EnterFacts
  <2> HIDE DEF w
  <2>3. SameInput(y, w) /\ Marked(y, o) /\ y.wakeout = w.wakeout BY <2>2, TtyoutputFacts
  <2>4. v = Ttstart(y) BY <1>8 DEF Echo, w
  <2> HIDE DEF y
  <2>5. SameInput(v, y) /\ Marked(v, o) /\ Going(v) /\ (y.wakeout => v.wakeout)
    BY <2>3, <2>4, TtstartFacts DEF SameInput
  <2>6. v \in TTY /\ v.rawq = w.rawq /\ v.delct = w.delct /\ v.raw = w.raw /\ v.wakein = w.wakein
    BY <2>3, <2>5 DEF SameInput
  <2>7. InputStep(v, t) BY <1>3, <2>2, <2>6 DEF InputStep
  <2> QED BY <1>1, <2>2, <2>3, <2>5, <2>6, <2>7 DEF v, Moving
<1> QED BY <1>2, <1>4, <1>5, <1>6, <1>7, <1>8, Zenon
----------------------------------------------------------------------------
(* Lines in the raw queue.                                                 *)

Delims(q) == {i \in DOMAIN q : q[i] = "delim"}

Lines(q) == Cardinality(Delims(q))

(* No line is empty: every delimiter comes after a character.              *)
Apart(q) == \A i \in 1..(Len(q) - 1) : q[i] = "delim" => q[i + 1] # "delim"

(* A set of numbers moved along.                                           *)
Moved(S, k) == {i + k : i \in S}

(* Moving a set does not change how many there are.                        *)
LEMMA Shift ==
  ASSUME NEW S, S \subseteq Int, IsFiniteSet(S), NEW k \in Int
  PROVE  IsFiniteSet(Moved(S, k)) /\ Cardinality(Moved(S, k)) = Cardinality(S)
<1> DEFINE T == Moved(S, k)
           f == [i \in S |-> i + k]
<1>1. f \in [S -> T] BY DEF Moved
<1>2. \A a, b \in S : f[a] = f[b] => a = b
  <2> TAKE a, b \in S
  <2>1. f[a] = a + k /\ f[b] = b + k OBVIOUS
  <2>2. a \in Int /\ b \in Int OBVIOUS
  <2> HIDE DEF f
  <2> QED BY <2>1, <2>2
<1>3. \A x \in T : \E i \in S : f[i] = x BY DEF Moved
<1> HIDE DEF f, T
<1>4. f \in Bijection(S, T) BY <1>1, <1>2, <1>3, Fun_IsBij
<1>5. ExistsBijection(S, T) BY <1>4, Fun_ExistsBij
<1> QED BY <1>5, FS_Bijection DEF T

(* The delimiters of a queue are finitely many.                            *)
LEMMA DelimsFinite ==
  ASSUME NEW q \in Seq(RawChars)
  PROVE  Delims(q) \subseteq 1..Len(q) /\ IsFiniteSet(Delims(q)) /\ Lines(q) \in Nat
<1>1. Delims(q) \subseteq 1..Len(q) BY DEF Delims
<1>2. Len(q) \in Nat OBVIOUS
<1>3. IsFiniteSet(1..Len(q)) BY <1>2, FS_Interval
<1> QED BY <1>1, <1>3, FS_Subset, FS_CardinalityType DEF Lines

(* An empty queue has no lines.                                            *)
LEMMA LinesEmpty == Lines(<<>>) = 0
<1>1. Delims(<<>>) = {} BY DEF Delims
<1> QED BY <1>1, FS_EmptySet DEF Lines

(* A character at the end of the queue.                                    *)
LEMMA LinesAppend ==
  ASSUME NEW q \in Seq(RawChars), NEW c \in RawChars
  PROVE  Lines(Append(q, c)) = IF c = "delim" THEN Lines(q) + 1 ELSE Lines(q)
<1> DEFINE r == Append(q, c)
<1>1. /\ Len(q) \in Nat /\ r \in Seq(RawChars) /\ Len(r) = Len(q) + 1 /\ r[Len(q) + 1] = c
      /\ \A i \in 1..Len(q) : r[i] = q[i]
  BY AppendProperties
<1>2. DOMAIN q = 1..Len(q) /\ DOMAIN r = 1..(Len(q) + 1) BY <1>1
<1> HIDE DEF r
<1>3. CASE c = "delim"
  <2>1. Delims(r) = Delims(q) \cup {Len(q) + 1} BY <1>1, <1>2, <1>3 DEF Delims
  <2>2. Len(q) + 1 \notin Delims(q) BY <1>1, <1>2 DEF Delims
  <2> QED BY <1>3, <2>1, <2>2, DelimsFinite, FS_AddElement DEF Lines, r
<1>4. CASE c # "delim"
  <2>1. Delims(r) = Delims(q) BY <1>1, <1>2, <1>4 DEF Delims
  <2> QED BY <1>4, <2>1 DEF Lines, r
<1> QED BY <1>3, <1>4

(* The first character taken out.                                          *)
LEMMA LinesTail ==
  ASSUME NEW q \in Seq(RawChars), q # <<>>
  PROVE  Lines(Tail(q)) = IF Head(q) = "delim" THEN Lines(q) - 1 ELSE Lines(q)
<1> DEFINE r == Tail(q)
           S == Delims(q) \ {1}
<1>1. /\ r \in Seq(RawChars) /\ Len(q) \in Nat \ {0} /\ Len(r) = Len(q) - 1 /\ Head(q) = q[1]
      /\ \A i \in 1..Len(r) : r[i] = q[i + 1]
  BY HeadTailProperties
<1>2. DOMAIN q = 1..Len(q) /\ DOMAIN r = 1..(Len(q) - 1) BY <1>1
<1> HIDE DEF r
<1>3. Delims(r) = Moved(S, -1)
  <2>1. ASSUME NEW j \in Delims(r) PROVE j \in Moved(S, -1)
    <3>1. j \in 1..(Len(q) - 1) /\ r[j] = "delim" BY <1>2 DEF Delims
    <3>2. j + 1 \in S BY <1>1, <1>2, <3>1 DEF Delims
    <3>3. j = (j + 1) + (-1) BY <3>1
    <3> HIDE DEF S
    <3> QED BY <3>2, <3>3 DEF Moved
  <2>2. ASSUME NEW i \in S PROVE i + (-1) \in Delims(r)
    <3>1. i \in 2..Len(q) /\ q[i] = "delim" BY <1>2 DEF Delims
    <3>2. i + (-1) \in 1..(Len(q) - 1) /\ (i + (-1)) + 1 = i BY <1>1, <3>1
    <3>3. r[i + (-1)] = q[i] BY <1>1, <3>2
    <3> QED BY <1>2, <3>1, <3>2, <3>3 DEF Delims
  <2> HIDE DEF S
  <2> QED BY <2>1, <2>2 DEF Moved
<1>4. IsFiniteSet(Delims(q)) /\ Lines(q) \in Nat /\ Delims(q) \subseteq Int BY <1>1, DelimsFinite
<1>5. IsFiniteSet(S) /\ S \subseteq Int BY <1>4, FS_RemoveElement
<1>6. Lines(r) = Cardinality(S)
  <2> HIDE DEF S
  <2>1. -1 \in Int OBVIOUS
  <2>2. Cardinality(Moved(S, -1)) = Cardinality(S) BY <1>5, <2>1, Shift, Zenon
  <2> QED BY <1>3, <2>2, Zenon DEF Lines
<1>7. 1 \in Delims(q) <=> Head(q) = "delim" BY <1>1, <1>2 DEF Delims
<1> QED BY <1>4, <1>6, <1>7, FS_RemoveElement DEF Lines, r

(* Lines that are not empty take two characters each, but for the first.   *)
LEMMA LinesBound ==
  ASSUME NEW q \in Seq(RawChars), Apart(q)
  PROVE  2 * Lines(q) <= Len(q) + 1
<1> DEFINE U == Delims(q)
           V == Moved(U, 1)
<1>1. Len(q) \in Nat /\ DOMAIN q = 1..Len(q) OBVIOUS
<1>2. U \subseteq 1..Len(q) /\ IsFiniteSet(U) /\ Lines(q) \in Nat BY DelimsFinite
<1>3. U \subseteq Int /\ V \subseteq 2..(Len(q) + 1) BY <1>1, <1>2 DEF Moved
<1>4. U \cap V = {}
  <2> SUFFICES ASSUME NEW i \in U, i + 1 \in U PROVE FALSE BY DEF Moved
  <2>1. i \in 1..(Len(q) - 1) BY <1>1, <1>2
  <2> QED BY <2>1 DEF Apart, Delims
<1>5. IsFiniteSet(V) /\ Cardinality(V) = Lines(q)
  <2> HIDE DEF U
  <2> QED BY <1>2, <1>3, Shift DEF Lines, U
<1>6. U \cup V \subseteq 1..(Len(q) + 1) BY <1>1, <1>2, <1>3
<1>7. IsFiniteSet(1..(Len(q) + 1)) /\ Cardinality(1..(Len(q) + 1)) = Len(q) + 1 BY <1>1, FS_Interval
<1> HIDE DEF U, V
<1>8. Cardinality(U \cup V) <= Len(q) + 1 BY <1>6, <1>7, FS_Subset
<1>9. Cardinality(U \cup V) = Lines(q) + Lines(q)
  <2>1. Cardinality(U \cap V) = 0 BY <1>4, FS_EmptySet
  <2>2. Cardinality(U) = Lines(q) BY DEF U, Lines
  <2>3. Cardinality(U \cup V) = Cardinality(U) + Cardinality(V) - Cardinality(U \cap V)
    BY <1>2, <1>5, FS_Union
  <2> QED BY <1>2, <1>5, <2>1, <2>2, <2>3
<1> QED BY <1>1, <1>2, <1>8, <1>9
----------------------------------------------------------------------------
(* The inductive invariant.                                                *)

(* Code of a process in which nobody else runs but interrupts.             *)
Brief == {"setp", "getc", "getdelim", "delct", "btoq"}

Labels == {"user", "write", "drain", "canon"} \cup Brief

BriefOK == \A p \in Procs : pc[p] \in Brief => cpu = p /\ OnRaw = {}

Writing == \E p \in Procs : pc[p] = "write" /\ cpu = p

OutOK == Marked(tty, OnOut # {}) /\ (Moving(tty, OnOut # {}) \/ Writing)

(* Who has taken a delimiter out and not counted it down yet.              *)
Taken == {p \in Procs : pc[p] \in {"getdelim", "delct"}}

Setting == \E p \in Procs : pc[p] = "setp"

(* DelctRight, also while the mode is being set after a flush, which is    *)
(* when raw mode may end; and what canon is going to store is right.       *)
Right ==
  /\ ~lost /\ (~tty.raw \/ Setting) => tty.delct = Lines(tty.rawq) + Cardinality(Taken)
  /\ Taken # {} => ~tty.raw
  /\ ~lost => \A p \in Procs : pc[p] = "delct" => tmp[p] = tty.delct

IInv == TypeOK /\ BriefOK /\ OutOK /\ Apart(tty.rawq) /\ Right /\ ReadersTold

(* TypeOK in parts.                                                        *)
LEMMA Types ==
  TypeOK <=>
  /\ tty \in TTY /\ ~tty.wakein /\ ~tty.wakeout /\ Room(tty) >= 0
  /\ pc \in [Procs -> Labels] /\ cnt \in [Procs -> Nat] /\ tmp \in [Procs -> 0..(WIDTH - 1)]
  /\ asleep \subseteq Procs /\ cpu \in Procs \cup {None} /\ lost \in BOOLEAN
<1>1. Labels = {"user", "write", "drain", "setp", "canon", "getc", "getdelim", "delct", "btoq"}
  BY DEF Labels, Brief
<1> QED BY <1>1, Zenon DEF TypeOK

(* The invariant implies what the runs check.                              *)
LEMMA InvImplies == IInv => OutputMoves /\ DelctRight
<1> SUFFICES ASSUME IInv PROVE OutputMoves /\ DelctRight OBVIOUS
<1>1. OutputMoves BY Types DEF IInv, OutOK, Marked, Moving, Going, Writing, OutputMoves
<1>2. DelctRight BY DEF IInv, Right, DelctRight, Lines, Delims, Taken
<1> QED BY <1>1, <1>2

(* When p is the only one who may run, nobody else is in the brief code.   *)
LEMMA Alone ==
  ASSUME TypeOK, BriefOK, NEW p \in Procs, cpu \in {p, None}
  PROVE  \A q \in Procs \ {p} : pc[q] \notin Brief
BY KeysAssumption DEF BriefOK

(* What a store into the terminal does.                                    *)
LEMMA StoreFacts ==
  ASSUME NEW t \in TTY, NEW more, Store(t, more)
  PROVE  /\ tty' \in TTY /\ ~tty'.wakein /\ ~tty'.wakeout /\ Room(tty') = Room(t)
         /\ tty'.rawq = t.rawq /\ tty'.canq = t.canq /\ tty'.outq = t.outq /\ tty'.delct = t.delct
         /\ tty'.raw = t.raw /\ tty'.state = t.state /\ tty'.txim = t.txim /\ tty'.calls = t.calls
         /\ asleep' \subseteq asleep \cup more
         /\ t.wakein => asleep' \cap OnRaw \subseteq more
         /\ t.wakeout => asleep' \cap OnOut \subseteq more
<1>1. tty' = [t EXCEPT !.wakein = FALSE, !.wakeout = FALSE] BY DEF Store
<1>2. /\ tty' \in TTY /\ ~tty'.wakein /\ ~tty'.wakeout
      /\ tty'.rawq = t.rawq /\ tty'.canq = t.canq /\ tty'.outq = t.outq /\ tty'.delct = t.delct
      /\ tty'.raw = t.raw /\ tty'.state = t.state /\ tty'.txim = t.txim /\ tty'.calls = t.calls
  BY <1>1, Zenon DEF TTY
<1>3. Room(tty') = Room(t) BY <1>2 DEF Room
<1>4. asleep' = (asleep \ ((IF t.wakein THEN OnRaw ELSE {}) \cup (IF t.wakeout THEN OnOut ELSE {})))
                \cup more
  BY DEF Store
<1> QED BY <1>2, <1>3, <1>4

(* The output goes on after a store.                                       *)
LEMMA OutStored ==
  ASSUME NEW t \in TTY, NEW more, Store(t, more), NEW o \in BOOLEAN, Marked(t, o),
         OnOut' # {} => o /\ ~t.wakeout,
         Moving(t, o) \/ Writing'
  PROVE  OutOK'
<1>1. /\ tty' \in TTY /\ ~tty'.wakein /\ ~tty'.wakeout /\ Room(tty') = Room(t)
      /\ tty'.outq = t.outq /\ tty'.state = t.state /\ tty'.txim = t.txim /\ tty'.calls = t.calls
  BY StoreFacts
<1>2. Marked(tty', (OnOut # {})') BY <1>1 DEF Marked
<1>3. Moving(t, o) => Moving(tty', (OnOut # {})') BY <1>1 DEF Moving, Going
<1> QED BY <1>2, <1>3 DEF OutOK

(* An action of a process that is not in ttwrite and leaves the output as  *)
(* it is.                                                                  *)
LEMMA OutKept ==
  ASSUME TypeOK, OutOK, NEW p \in Procs, cpu \in {p, None}, pc[p] # "write",
         tty'.outq = tty.outq, tty'.state = tty.state, tty'.txim = tty.txim,
         tty'.calls = tty.calls, Room(tty') >= 0, OnOut' \subseteq OnOut, ~tty'.wakeout
  PROVE  OutOK'
<1>1. ~Writing BY KeysAssumption DEF Writing
<1>2. ~tty.wakeout BY Types
<1>3. Marked(tty, OnOut # {}) /\ Moving(tty, OnOut # {}) BY <1>1 DEF OutOK
<1>4. Marked(tty', (OnOut # {})') BY <1>2, <1>3 DEF Marked
<1>5. Moving(tty', (OnOut # {})') BY <1>2, <1>3 DEF Moving, Going
<1> QED BY <1>4, <1>5 DEF OutOK

(* An action that leaves the input and the count of lines as they are.     *)
LEMMA RightKept ==
  ASSUME Right, tty'.rawq = tty.rawq, tty'.delct = tty.delct, tty'.raw = tty.raw,
         tmp' = tmp, lost' = lost,
         \A p \in Procs : \A l \in {"setp", "getdelim", "delct"} : pc'[p] = l <=> pc[p] = l
  PROVE  Right'
<1>1. Taken' = Taken BY DEF Taken
<1>2. Setting' = Setting BY DEF Setting
<1> QED BY <1>1, <1>2 DEF Right

(* A process that goes to another place.                                   *)
LEMMA GotoFacts ==
  ASSUME TypeOK, BriefOK, NEW p \in Procs, cpu \in {p, None}, NEW l \in Labels, Goto(p, l),
         l \in Brief => OnRaw' = {}
  PROVE  /\ pc' \in [Procs -> Labels] /\ cpu' \in Procs \cup {None} /\ pc'[p] = l
         /\ \A q \in Procs \ {p} : pc'[q] = pc[q] /\ pc'[q] \notin Brief
         /\ l # "user" => cpu' = p
         /\ BriefOK'
<1>1. pc \in [Procs -> Labels] BY Types
<1>2. /\ pc' \in [Procs -> Labels] /\ pc'[p] = l /\ \A q \in Procs \ {p} : pc'[q] = pc[q]
      /\ l # "user" => cpu' = p
      /\ cpu' \in Procs \cup {None}
  BY <1>1 DEF Goto
<1>3. \A q \in Procs \ {p} : pc'[q] \notin Brief BY <1>2, Alone
<1>4. BriefOK'
  <2> SUFFICES ASSUME NEW q \in Procs, pc'[q] \in Brief PROVE cpu' = q /\ OnRaw' = {} BY DEF BriefOK
  <2>1. q = p BY <1>3
  <2> QED BY <1>2, <2>1 DEF Brief
<1> QED BY <1>2, <1>3, <1>4
----------------------------------------------------------------------------
(* The handlers.                                                           *)

(* One more, or one less, of a char.                                       *)
LEMMA Wraps ==
  ASSUME NEW d \in 0..(WIDTH - 1)
  PROVE  /\ WIDTH > 1 /\ (d + 1) % WIDTH \in 0..(WIDTH - 1)
         /\ (d + 1) % WIDTH = IF d + 1 < WIDTH THEN d + 1 ELSE 0
         /\ d > 0 => (d + WIDTH - 1) % WIDTH = d - 1
         /\ (d + WIDTH - 1) % WIDTH \in 0..(WIDTH - 1)
<1>1. WIDTH \in Nat /\ WIDTH > 1 BY Sizes
<1>2. (d + 1) % WIDTH \in 0..(WIDTH - 1) /\ (d + WIDTH - 1) % WIDTH \in 0..(WIDTH - 1)
  BY <1>1
<1>3. d + 1 < WIDTH => (d + 1) % WIDTH = d + 1 BY <1>1
<1>4. ~(d + 1 < WIDTH) => (d + 1) % WIDTH = 0
  <2> SUFFICES ASSUME ~(d + 1 < WIDTH) PROVE (d + 1) % WIDTH = 0 OBVIOUS
  <2>1. d + 1 = WIDTH BY <1>1
  <2> QED BY <1>1, <2>1
<1>5. d > 0 => (d + WIDTH - 1) % WIDTH = d - 1
  <2> SUFFICES ASSUME d > 0 PROVE (d + WIDTH - 1) % WIDTH = d - 1 OBVIOUS
  <2>1. d - 1 \in 0..(WIDTH - 1) /\ d + WIDTH - 1 = WIDTH * 1 + (d - 1) BY <1>1
  <2> QED BY <1>1, <2>1
<1> QED BY <1>1, <1>2, <1>3, <1>4, <1>5

(* At most one process has taken a delimiter.                              *)
LEMMA TakenCount ==
  ASSUME TypeOK, BriefOK
  PROVE  Cardinality(Taken) = IF Taken = {} THEN 0 ELSE 1
<1>1. CASE Taken = {} BY <1>1, FS_EmptySet
<1>2. CASE Taken # {}
  <2>1. Taken = {cpu} BY <1>2 DEF Taken, BriefOK, Brief
  <2> QED BY <1>2, <2>1, FS_Singleton
<1> QED BY <1>1, <1>2

(* Whatever an interrupt does to the input side, the count stays right, or *)
(* is known to be spoilt.                                                  *)
LEMMA RightStep ==
  ASSUME IInv, NEW t \in TTY, InputStep(t, tty), Spoils(t),
         tty'.rawq = t.rawq, tty'.delct = t.delct, tty'.raw = t.raw, pc' = pc, tmp' = tmp
  PROVE  Apart(tty'.rawq) /\ Right'
<1> DEFINE q == tty.rawq
           d == tty.delct
<1>1. /\ tty \in TTY /\ q \in Seq(RawChars) /\ Len(q) \in Nat /\ d \in 0..(WIDTH - 1)
      /\ t.delct \in 0..(WIDTH - 1) /\ Lines(q) \in Nat /\ WIDTH \in Nat /\ WIDTH > 1 /\ TTYHOG \in Nat
      /\ 2 * WIDTH > TTYHOG + 3
  BY Types, Fields, DelimsFinite, Sizes, Wraps DEF IInv
<1>2. Cardinality(Taken) = IF Taken = {} THEN 0 ELSE 1 BY TakenCount DEF IInv
<1>3. /\ ~lost' => ~lost \/ (t.rawq = <<>> /\ t.delct = 0 /\ Taken = {})
      /\ ~lost' => \A p \in Procs : pc[p] = "getdelim" => ~(t.delct < d)
      /\ ~lost' => \A p \in Procs : pc[p] = "delct" => t.delct = d
  BY Zenon DEF Spoils, Taken
<1>4. Taken' = Taken /\ Setting' = Setting BY DEF Taken, Setting
<1>5. t.raw = tty.raw BY DEF InputStep
<1>6. Taken # {} => ~tty'.raw BY <1>5 DEF IInv, Right
<1>7. ~lost' => \A p \in Procs : pc'[p] = "delct" => tmp'[p] = tty'.delct
  <2> SUFFICES ASSUME ~lost', NEW p \in Procs, pc[p] = "delct" PROVE tmp[p] = t.delct OBVIOUS
  <2>1. p \in Taken BY DEF Taken
  <2>2. ~lost BY <1>3, <2>1
  <2> QED BY <1>3, <2>2 DEF IInv, Right
<1>8. CASE t.rawq = q /\ t.delct = d
  <2>1. Apart(tty'.rawq) BY <1>8 DEF IInv
  <2>2. ASSUME ~lost', ~tty'.raw \/ Setting
        PROVE  tty'.delct = Lines(tty'.rawq) + Cardinality(Taken)
    <3>1. CASE ~lost BY <1>5, <1>8, <2>2, <3>1 DEF IInv, Right
    <3>2. CASE lost
      <4>1. t.rawq = <<>> /\ t.delct = 0 /\ Taken = {} BY <1>3, <2>2, <3>2
      <4> QED BY <1>2, <4>1, LinesEmpty
    <3> QED BY <3>1, <3>2
  <2> QED BY <1>4, <1>6, <1>7, <2>1, <2>2 DEF Right
<1>9. CASE t.rawq = <<>> /\ t.delct = 0
  <2>1. Apart(tty'.rawq) BY <1>9 DEF Apart
  <2>2. ASSUME ~lost', ~tty'.raw \/ Setting
        PROVE  tty'.delct = Lines(tty'.rawq) + Cardinality(Taken)
    <3>1. Taken = {}
      <4> SUFFICES ASSUME Taken # {} PROVE FALSE OBVIOUS
      <4>1. ~lost BY <1>3, <2>2
      <4>2. d = Lines(q) + Cardinality(Taken) BY <1>5, <2>2, <4>1 DEF IInv, Right
      <4>3. d > 0 BY <1>1, <1>2, <4>2
      <4>4. PICK p \in Procs : pc[p] \in {"getdelim", "delct"} BY DEF Taken
      <4> QED BY <1>1, <1>3, <1>9, <2>2, <4>3, <4>4
    <3> QED BY <1>2, <1>9, <3>1, LinesEmpty
  <2> QED BY <1>4, <1>6, <1>7, <2>1, <2>2 DEF Right
<1>10. CASE \E c \in {"c", "eot"} : t.rawq = Append(q, c) /\ t.delct = d
  <2>1. PICK c \in {"c", "eot"} : t.rawq = Append(q, c) /\ t.delct = d BY <1>10
  <2>2. /\ c \in RawChars /\ c # "delim" /\ Len(t.rawq) = Len(q) + 1 /\ t.rawq[Len(q) + 1] = c
        /\ \A i \in 1..Len(q) : t.rawq[i] = q[i]
    <3>1. c \in RawChars /\ c # "delim" BY DEF RawChars
    <3> QED BY <1>1, <2>1, <3>1, AppendProperties
  <2>3. Lines(t.rawq) = Lines(q) BY <1>1, <2>1, <2>2, LinesAppend
  <2>4. Apart(t.rawq)
    <3> SUFFICES ASSUME NEW i \in 1..Len(q), t.rawq[i] = "delim" PROVE t.rawq[i + 1] # "delim"
      BY <1>1, <2>2 DEF Apart
    <3>1. q[i] = "delim" BY <2>2
    <3>2. CASE i = Len(q) BY <1>1, <2>2, <3>2
    <3>3. CASE i # Len(q)
      <4>1. i \in 1..(Len(q) - 1) BY <1>1, <3>3
      <4>2. t.rawq[i + 1] = q[i + 1] BY <1>1, <2>2, <4>1
      <4> QED BY <3>1, <4>1, <4>2 DEF IInv, Apart
    <3> QED BY <3>2, <3>3
  <2>5. ASSUME ~lost', ~tty'.raw \/ Setting
        PROVE  tty'.delct = Lines(tty'.rawq) + Cardinality(Taken)
    <3>1. t.rawq # <<>> BY <1>1, <2>2
    <3> QED BY <1>3, <1>5, <2>1, <2>3, <2>5, <3>1 DEF IInv, Right
  <2> QED BY <1>4, <1>6, <1>7, <2>4, <2>5 DEF Right
<1>11. CASE /\ ~tty.raw /\ Len(q) <= TTYHOG /\ t.delct = (d + 1) % WIDTH
            /\ \E c \in {"c", "eot"} : t.rawq = Append(Append(q, c), "delim")
  <2>1. PICK c \in {"c", "eot"} : t.rawq = Append(Append(q, c), "delim") BY <1>11
  <2> DEFINE r == Append(q, c)
  <2>2. /\ r \in Seq(RawChars) /\ Len(r) = Len(q) + 1 /\ r[Len(q) + 1] = c /\ c # "delim"
        /\ c \in RawChars /\ \A i \in 1..Len(q) : r[i] = q[i]
    <3>1. c \in RawChars /\ c # "delim" BY DEF RawChars
    <3> QED BY <1>1, <3>1, AppendProperties
  <2>3. t.rawq = Append(r, "delim") BY <2>1
  <2>4. Lines(r) = Lines(q) BY <1>1, <2>2, LinesAppend
  <2> HIDE DEF r
  <2>5. "delim" \in RawChars BY DEF RawChars
  <2>6. /\ Len(t.rawq) = Len(q) + 2
        /\ \A i \in 1..Len(r) : t.rawq[i] = r[i]
    BY <1>1, <2>2, <2>3, <2>5, AppendProperties
  <2>7. Lines(t.rawq) = Lines(q) + 1 BY <2>2, <2>3, <2>4, <2>5, LinesAppend
  <2>8. Apart(t.rawq)
    <3> SUFFICES ASSUME NEW i \in 1..(Len(q) + 1), t.rawq[i] = "delim" PROVE t.rawq[i + 1] # "delim"
      BY <1>1, <2>6 DEF Apart
    <3>1. i \in 1..Len(r) /\ r[i] = "delim" BY <1>1, <2>2, <2>6
    <3>2. i \in 1..Len(q) /\ q[i] = "delim"
      <4>1. r[Len(q) + 1] # "delim" BY <2>2
      <4>2. i # Len(q) + 1 BY <3>1, <4>1
      <4>3. i \in 1..Len(q) BY <1>1, <2>2, <3>1, <4>2
      <4> QED BY <2>2, <3>1, <4>3
    <3>3. t.rawq[i + 1] = r[i + 1] BY <1>1, <2>2, <2>6, <3>2
    <3>4. CASE i = Len(q) BY <1>1, <2>2, <3>3, <3>4
    <3>5. CASE i # Len(q)
      <4>1. i \in 1..(Len(q) - 1) BY <1>1, <3>2, <3>5
      <4>2. r[i + 1] = q[i + 1] BY <1>1, <2>2, <4>1
      <4> QED BY <3>2, <3>3, <4>1, <4>2 DEF IInv, Apart
    <3> QED BY <3>4, <3>5
  <2>9. (d + 1) % WIDTH = IF d + 1 < WIDTH THEN d + 1 ELSE 0 BY <1>1, Wraps
  <2>10. ASSUME ~lost', ~tty'.raw \/ Setting
         PROVE  tty'.delct = Lines(tty'.rawq) + Cardinality(Taken)
    <3>1. t.rawq # <<>> BY <1>1, <2>6
    <3>2. ~lost BY <1>3, <2>10, <3>1
    <3>3. d = Lines(q) + Cardinality(Taken) BY <1>11, <3>2 DEF IInv, Right
    <3>4. d + 1 < WIDTH
      <4>1. CASE Taken = {}
        <5>1. 2 * Lines(q) <= Len(q) + 1 BY <1>1, LinesBound DEF IInv
        <5>2. d = Lines(q) BY <1>1, <1>2, <3>3, <4>1
        <5> QED BY <1>1, <1>11, <5>1, <5>2
      <4>2. CASE Taken # {}
        <5>1. PICK p \in Procs : pc[p] \in {"getdelim", "delct"} BY <4>2 DEF Taken
        <5>2. ~(t.delct < d) \/ t.delct = d BY <1>3, <2>10, <5>1
        <5> QED BY <1>1, <1>11, <2>9, <5>2
      <4> QED BY <4>1, <4>2
    <3>5. t.delct = d + 1 BY <1>11, <2>9, <3>4
    <3>6. Cardinality(Taken) \in Nat BY <1>2
    <3> QED BY <1>1, <2>7, <3>3, <3>5, <3>6
  <2> QED BY <1>4, <1>6, <1>7, <2>8, <2>10 DEF Right
<1>12. /\ \/ t.rawq = q /\ t.delct = d
          \/ t.rawq = <<>> /\ t.delct = 0
          \/ \E c \in {"c", "eot"} : t.rawq = Append(q, c) /\ t.delct = d
          \/ /\ ~tty.raw /\ Len(q) <= TTYHOG /\ t.delct = (d + 1) % WIDTH
             /\ \E c \in {"c", "eot"} : t.rawq = Append(Append(q, c), "delim")
  BY Zenon DEF InputStep
<1> QED BY <1>8, <1>9, <1>10, <1>11, <1>12, Zenon

(* A handler keeps the invariant if what it makes of the terminal is right *)
(* on both sides.                                                          *)
LEMMA HandlerKeeps ==
  ASSUME IInv, NEW t \in TTY, Handler(t), Marked(t, OnOut # {}),
         Moving(tty, OnOut # {}) => Moving(t, OnOut # {}), InputStep(t, tty)
  PROVE  IInv'
<1>1. Store(t, {}) /\ Spoils(t) /\ pc' = pc /\ cnt' = cnt /\ tmp' = tmp /\ cpu' = cpu BY DEF Handler
<1>2. /\ tty' \in TTY /\ ~tty'.wakein /\ ~tty'.wakeout /\ Room(tty') = Room(t)
      /\ tty'.rawq = t.rawq /\ tty'.delct = t.delct /\ tty'.raw = t.raw
      /\ asleep' \subseteq asleep
      /\ t.wakein => asleep' \cap OnRaw = {}
      /\ t.wakeout => asleep' \cap OnOut = {}
  BY <1>1, StoreFacts
<1>3. /\ tty \in TTY /\ ~tty.wakein
      /\ pc \in [Procs -> Labels] /\ cnt \in [Procs -> Nat] /\ tmp \in [Procs -> 0..(WIDTH - 1)]
      /\ asleep \subseteq Procs /\ cpu \in Procs \cup {None}
  BY Types DEF IInv
<1>4. Room(tty)' >= 0 BY <1>2 DEF Marked, Room
<1>5. lost' \in BOOLEAN
  <2>1. lost \in BOOLEAN BY Types DEF IInv
  <2> QED BY <1>1, <2>1 DEF Spoils
<1>6. TypeOK' BY <1>1, <1>2, <1>3, <1>4, <1>5, Types, Zenon DEF TypeOK, Labels, Brief
<1>7. OnRaw' \subseteq OnRaw /\ OnOut' \subseteq OnOut BY <1>1, <1>2 DEF OnRaw, OnOut
<1>8. (t.wakein => OnRaw' = {}) /\ (t.wakeout => OnOut' = {}) BY <1>1, <1>2 DEF OnRaw, OnOut
<1>9. BriefOK' BY <1>1, <1>7 DEF IInv, BriefOK
<1>10. OutOK'
  <2>1. Writing' <=> Writing BY <1>1 DEF Writing
  <2>2. Moving(t, OnOut # {}) \/ Writing' BY <2>1 DEF IInv, OutOK
  <2> QED BY <1>1, <1>7, <1>8, <2>2, OutStored
<1>11. Apart(tty'.rawq) /\ Right' BY <1>1, <1>2, RightStep
<1>12. ReadersTold'
  <2> SUFFICES ASSUME OnRaw' # {} PROVE ~Ready' BY DEF ReadersTold
  <2>1. ~Ready BY <1>7 DEF IInv, ReadersTold
  <2>2. ~t.wakein BY <1>8
  <2>3. t.raw = tty.raw /\ (t.rawq = tty.rawq \/ ~t.raw) /\ t.delct = tty.delct BY <2>2 DEF InputStep
  <2> QED BY <1>2, <2>1, <2>3 DEF Ready
<1> QED BY <1>6, <1>9, <1>10, <1>11, <1>12 DEF IInv

(* The output side before a handler.                                       *)
LEMMA Before == IInv => tty \in TTY /\ Marked(tty, OnOut # {}) BY Types DEF IInv, OutOK

(* A receiver interrupt keeps the invariant.                               *)
LEMMA IrqKeyKeeps ==
  ASSUME IInv, NEW c \in Keys, IrqKey(c)
  PROVE  IInv'
<1> DEFINE o == OnOut # {}
           u == Ttyinput(tty, c)
           t == IF TxAsks THEN Xint(u) ELSE u
<1>1. /\ u \in TTY /\ Marked(u, o) /\ InputStep(u, tty) /\ (Moving(tty, o) => Moving(u, o))
  BY Before, TtyinputFacts
<1>2. Handler(t) BY DEF IrqKey
<1> HIDE DEF u
<1>3. CASE TxAsks
  <2>1. t = Xint(u) BY <1>3
  <2>2. SameInput(t, u) /\ Marked(t, o) /\ Moving(t, o) BY <1>1, <2>1, XintFacts
  <2> HIDE DEF t, o
  <2>3. t \in TTY /\ InputStep(t, tty)
    <3>1. t \in TTY /\ t.rawq = u.rawq /\ t.delct = u.delct /\ t.raw = u.raw /\ t.wakein = u.wakein
      BY <2>2, Zenon DEF SameInput
    <3> QED BY <1>1, <3>1, Zenon DEF InputStep
  <2> QED BY <1>2, <2>2, <2>3, HandlerKeeps DEF o
<1>4. CASE ~TxAsks
  <2>1. t = u BY <1>4
  <2> QED BY <1>1, <1>2, <2>1, HandlerKeeps
<1> QED BY <1>3, <1>4

(* A transmitter interrupt keeps the invariant.                            *)
LEMMA IrqTxKeeps ==
  ASSUME IInv, IrqTx
  PROVE  IInv'
<1> DEFINE o == OnOut # {}
           t == Xint(tty)
<1>1. SameInput(t, tty) /\ Marked(t, o) /\ Moving(t, o) BY Before, XintFacts
<1>2. Handler(t) BY DEF IrqTx
<1> HIDE DEF t
<1>3. t \in TTY /\ InputStep(t, tty) BY <1>1 DEF SameInput, InputStep
<1> QED BY <1>1, <1>2, <1>3, HandlerKeeps

(* The end of a pause keeps the invariant.                                 *)
LEMMA TtrstrtKeeps ==
  ASSUME IInv, Ttrstrt
  PROVE  IInv'
<1> DEFINE o == OnOut # {}
           k == tty.calls - 1
           s == tty.state \ {"TIMEOUT"}
           f == [tty EXCEPT !.calls = k, !.state = s]
           t == Ttstart(f)
<1>1. tty \in TTY /\ Marked(tty, o) BY Before
<1>2. k \in Nat /\ s \in SUBSET Flags
  <2>1. tty.calls \in Nat /\ tty.state \in SUBSET Flags BY <1>1, Fields
  <2> QED BY <2>1 DEF Ttrstrt
<1>3. f = [tty EXCEPT !.calls = @ - 1, !.state = @ \ {"TIMEOUT"}] OBVIOUS
<1>4. Handler(t) BY <1>3, Zenon DEF Ttrstrt
<1>5. "TIMEOUT" \notin s /\ ("ASLEEP" \in tty.state => "ASLEEP" \in s) OBVIOUS
<1> HIDE DEF k, s
<1>6. /\ f \in TTY /\ f.outq = tty.outq /\ f.rawq = tty.rawq /\ f.canq = tty.canq
      /\ f.delct = tty.delct /\ f.raw = tty.raw /\ f.state = s /\ f.wakein = tty.wakein
      /\ f.wakeout = tty.wakeout
  BY <1>1, <1>2, Zenon DEF TTY, Flags
<1> HIDE DEF f
<1>7. Room(f) = Room(tty) BY <1>6 DEF Room
<1>8. Marked(f, o) BY <1>1, <1>5, <1>6, <1>7 DEF Marked
<1>9. SameInput(t, f) /\ Marked(t, o) /\ Going(t) BY <1>6, <1>8, TtstartFacts
<1> HIDE DEF t
<1>10. t \in TTY /\ InputStep(t, tty) /\ Moving(t, o) BY <1>6, <1>9 DEF SameInput, InputStep, Moving
<1> QED BY <1>4, <1>9, <1>10, HandlerKeeps

(* A character sent keeps the invariant.                                   *)
LEMMA TransmitKeeps ==
  ASSUME IInv, Transmit
  PROVE  IInv'
<1> DEFINE o == OnOut # {}
           k == tty.fifo - 1
           t == [tty EXCEPT !.fifo = k]
<1>1. tty \in TTY /\ Marked(tty, o) BY Before
<1>2. k \in 0..FIFO
  <2>1. tty.fifo \in 0..FIFO /\ FIFO \in Nat BY <1>1, Fields, Sizes
  <2> QED BY <2>1 DEF Transmit
<1>3. Handler(t) BY DEF Transmit
<1> HIDE DEF k
<1>4. /\ t \in TTY /\ t.outq = tty.outq /\ t.rawq = tty.rawq /\ t.canq = tty.canq
      /\ t.delct = tty.delct /\ t.raw = tty.raw /\ t.state = tty.state /\ t.wakein = tty.wakein
      /\ t.wakeout = tty.wakeout /\ t.txim = tty.txim /\ t.calls = tty.calls
  BY <1>1, <1>2, Zenon DEF TTY
<1> HIDE DEF t
<1>5. Room(t) = Room(tty) BY <1>4 DEF Room
<1>6. Marked(t, o) BY <1>1, <1>4, <1>5 DEF Marked
<1>7. InputStep(t, tty) BY <1>4 DEF InputStep
<1>8. Moving(tty, o) => Moving(t, o) BY <1>4 DEF Moving, Going
<1> QED BY <1>3, <1>4, <1>6, <1>7, <1>8, HandlerKeeps

----------------------------------------------------------------------------
(* The processes.                                                          *)

(* A process goes on, and leaves the input side as it is.                  *)
LEMMA QuietKeeps ==
  ASSUME IInv, NEW p \in Procs, cpu \in {p, None}, p \notin asleep, NEW l \in Labels, Goto(p, l),
         pc[p] \notin {"setp", "getdelim", "delct"}, l \notin {"setp", "getdelim", "delct"},
         tty' \in TTY, ~tty'.wakein, ~tty'.wakeout, Room(tty') >= 0,
         tty'.rawq = tty.rawq, tty'.delct = tty.delct, tty'.raw = tty.raw,
         cnt' \in [Procs -> Nat], tmp' = tmp, lost' = lost, asleep' \subseteq asleep,
         l \in Brief => OnRaw = {}, OutOK'
  PROVE  IInv'
<1>1. /\ pc \in [Procs -> Labels] /\ tmp \in [Procs -> 0..(WIDTH - 1)] /\ lost \in BOOLEAN
      /\ asleep \subseteq Procs
  BY Types DEF IInv
<1>2. pc' = [pc EXCEPT ![p] = l] BY DEF Goto
<1>3. OnRaw' \subseteq OnRaw BY <1>1, <1>2 DEF OnRaw
<1>4. /\ pc' \in [Procs -> Labels] /\ cpu' \in Procs \cup {None} /\ BriefOK'
      /\ pc'[p] = l /\ \A q \in Procs \ {p} : pc'[q] = pc[q]
  BY <1>3, GotoFacts DEF IInv
<1>5. TypeOK'
  <2>1. tmp' \in [Procs -> 0..(WIDTH - 1)] /\ lost' \in BOOLEAN /\ asleep' \subseteq Procs BY <1>1
  <2>2. Room(tty)' >= 0 BY DEF Room
  <2> QED BY <1>4, <2>1, <2>2, Zenon DEF TypeOK, Labels, Brief
<1>6. Right'
  <2>1. \A q \in Procs : \A k \in {"setp", "getdelim", "delct"} : pc'[q] = k <=> pc[q] = k
    BY <1>4
  <2> QED BY <2>1, RightKept DEF IInv
<1>7. ReadersTold' BY <1>3 DEF IInv, ReadersTold, Ready
<1>8. Apart(tty'.rawq) BY DEF IInv
<1> QED BY <1>4, <1>5, <1>6, <1>7, <1>8 DEF IInv

(* A process goes to sleep.                                                *)
LEMMA SleepKeeps ==
  ASSUME IInv, NEW p \in Procs, cpu \in {p, None}, pc[p] \notin Brief, NEW t \in TTY, Sleeps(p, t),
         t.rawq = tty.rawq, t.delct = tty.delct, t.raw = tty.raw, Room(t) >= 0,
         pc[p] = "canon" => ~Ready, OutOK'
  PROVE  IInv'
<1>1. /\ pc \in [Procs -> Labels] /\ cnt \in [Procs -> Nat] /\ tmp \in [Procs -> 0..(WIDTH - 1)]
      /\ lost \in BOOLEAN /\ asleep \subseteq Procs
  BY Types DEF IInv
<1>2. Store(t, {p}) /\ cpu' = None /\ pc' = pc /\ cnt' = cnt /\ tmp' = tmp /\ lost' = lost
  BY DEF Sleeps
<1>3. /\ tty' \in TTY /\ ~tty'.wakein /\ ~tty'.wakeout /\ Room(tty') = Room(t)
      /\ tty'.rawq = t.rawq /\ tty'.delct = t.delct /\ tty'.raw = t.raw
      /\ asleep' \subseteq asleep \cup {p}
  BY <1>2, StoreFacts
<1>4. TypeOK'
  <2>1. Room(tty)' >= 0 BY <1>3 DEF Room
  <2>2. asleep' \subseteq Procs /\ cpu' \in Procs \cup {None} BY <1>1, <1>2, <1>3
  <2> QED BY <1>1, <1>2, <1>3, <2>1, <2>2, Zenon DEF TypeOK, Labels, Brief
<1>5. BriefOK' BY <1>2, Alone DEF IInv, BriefOK
<1>6. Right' BY <1>2, <1>3, RightKept DEF IInv
<1>7. ReadersTold'
  <2> SUFFICES ASSUME OnRaw' # {} PROVE ~Ready' BY DEF ReadersTold
  <2>1. OnRaw # {} \/ pc[p] = "canon" BY <1>2, <1>3 DEF OnRaw
  <2>2. ~Ready BY <2>1 DEF IInv, ReadersTold
  <2> QED BY <1>3, <2>2 DEF Ready
<1>8. Apart(tty'.rawq) BY <1>3 DEF IInv
<1> QED BY <1>4, <1>5, <1>6, <1>7, <1>8 DEF IInv

(* A system call starts.                                                   *)
LEMMA CallKeeps ==
  ASSUME IInv, NEW p \in Procs, NEW l \in {"write", "drain", "canon"}, NEW n \in Nat, Call(p, l, n)
  PROVE  IInv'
<1>1. /\ pc[p] = "user" /\ p \notin asleep /\ cpu = None /\ Goto(p, l)
      /\ cnt' = [cnt EXCEPT ![p] = n] /\ tty' = tty /\ tmp' = tmp /\ asleep' = asleep /\ lost' = lost
  BY DEF Call, At
<1>2. /\ tty \in TTY /\ ~tty.wakein /\ ~tty.wakeout /\ Room(tty) >= 0 /\ cnt \in [Procs -> Nat]
      /\ pc \in [Procs -> Labels]
  BY Types DEF IInv
<1>3. OnOut' \subseteq OnOut BY <1>1, <1>2 DEF OnOut, Goto
<1>4. OutOK' BY <1>1, <1>2, <1>3, OutKept DEF IInv
<1>5. cnt' \in [Procs -> Nat] BY <1>1, <1>2
<1>6. l \in Labels /\ l \notin Brief BY DEF Labels, Brief
<1> QED BY <1>1, <1>2, <1>4, <1>5, <1>6, QuietKeeps

(* A signal ends a call.                                                   *)
LEMMA SignalKeeps ==
  ASSUME IInv, NEW p \in Procs, Signal(p)
  PROVE  IInv'
<1>1. /\ cpu # p /\ asleep' = asleep \ {p} /\ pc' = [pc EXCEPT ![p] = "user"]
      /\ tty' = tty /\ cnt' = cnt /\ tmp' = tmp /\ cpu' = cpu /\ lost' = lost
  BY DEF Signal
<1>2. /\ tty \in TTY /\ ~tty.wakein /\ ~tty.wakeout /\ Room(tty) >= 0 /\ cnt \in [Procs -> Nat]
      /\ pc \in [Procs -> Labels] /\ tmp \in [Procs -> 0..(WIDTH - 1)] /\ lost \in BOOLEAN
      /\ asleep \subseteq Procs /\ cpu \in Procs \cup {None}
  BY Types DEF IInv
<1>3. pc[p] \notin Brief BY <1>1 DEF IInv, BriefOK
<1>4. pc'[p] = "user" /\ \A q \in Procs \ {p} : pc'[q] = pc[q] BY <1>1, <1>2
<1>5. pc' \in [Procs -> Labels]
  <2>1. "user" \in Labels BY DEF Labels
  <2> QED BY <1>1, <1>2, <2>1
<1>6. TypeOK' BY <1>1, <1>2, <1>5, Zenon DEF TypeOK, Labels, Brief, Room
<1>7. OnRaw' \subseteq OnRaw /\ OnOut' \subseteq OnOut BY <1>1, <1>4 DEF OnRaw, OnOut
<1>8. BriefOK'
  <2> SUFFICES ASSUME NEW q \in Procs, pc'[q] \in Brief PROVE cpu' = q /\ OnRaw' = {} BY DEF BriefOK
  <2>1. pc[q] \in Brief BY <1>4 DEF Brief
  <2> QED BY <1>1, <1>7, <2>1 DEF IInv, BriefOK
<1>9. OutOK'
  <2>1. Writing => Writing' BY <1>1, <1>4 DEF Writing
  <2>2. Marked(tty', (OnOut # {})') BY <1>1, <1>7 DEF IInv, OutOK, Marked
  <2>3. Moving(tty, OnOut # {}) => Moving(tty', (OnOut # {})') BY <1>1, <1>7 DEF Moving
  <2> QED BY <2>1, <2>2, <2>3 DEF IInv, OutOK
<1>10. Right'
  <2>1. \A q \in Procs : \A l \in {"setp", "getdelim", "delct"} : pc'[q] = l <=> pc[q] = l
    BY <1>3, <1>4 DEF Brief
  <2> QED BY <1>1, <2>1, RightKept DEF IInv
<1>11. ReadersTold' BY <1>1, <1>7 DEF IInv, ReadersTold, Ready
<1>12. Apart(tty'.rawq) BY <1>1 DEF IInv
<1> QED BY <1>6, <1>8, <1>9, <1>10, <1>11, <1>12 DEF IInv

(* ttwrite puts a character out; it is going to start the output.          *)
LEMMA WritePutKeeps ==
  ASSUME IInv, NEW p \in Procs, NEW c, WritePut(p, c)
  PROVE  IInv'
<1> DEFINE t == Ttyoutput(tty, c)
           o == OnOut # {}
<1>1. /\ pc[p] = "write" /\ p \notin asleep /\ cpu \in {p, None} /\ cnt[p] > 0
      /\ Store(t, {}) /\ Goto(p, "write") /\ cnt' = [cnt EXCEPT ![p] = @ - 1]
      /\ tmp' = tmp /\ lost' = lost
  BY DEF WritePut, At
<1>2. /\ tty \in TTY /\ Marked(tty, o) /\ cnt \in [Procs -> Nat] /\ pc \in [Procs -> Labels]
      /\ ~tty.wakeout
  BY Before, Types DEF IInv
<1>3. SameInput(t, tty) /\ Marked(t, o) /\ ~t.wakeout
  <2>1. o \in BOOLEAN OBVIOUS
  <2> HIDE DEF o
  <2>2. SameInput(t, tty) /\ Marked(t, o) /\ t.wakeout = tty.wakeout
    BY <1>2, <2>1, TtyoutputFacts, Zenon
  <2> QED BY <1>2, <2>2
<1> HIDE DEF t
<1>4. t \in TTY /\ t.rawq = tty.rawq /\ t.delct = tty.delct /\ t.raw = tty.raw BY <1>3 DEF SameInput
<1>5. /\ tty' \in TTY /\ ~tty'.wakein /\ ~tty'.wakeout /\ Room(tty') = Room(t)
      /\ tty'.rawq = t.rawq /\ tty'.delct = t.delct /\ tty'.raw = t.raw /\ asleep' \subseteq asleep
  BY <1>1, <1>4, StoreFacts
<1>6. Writing' BY <1>1, <1>2 DEF Writing, Goto
<1>7. OnOut' \subseteq OnOut BY <1>1, <1>2, <1>5 DEF OnOut, Goto
<1>8. OutOK' BY <1>1, <1>3, <1>4, <1>6, <1>7, OutStored
<1>9. Room(tty') >= 0 BY <1>3, <1>5 DEF Marked
<1>10. cnt' \in [Procs -> Nat]
  <2>1. cnt[p] - 1 \in Nat BY <1>1, <1>2
  <2> QED BY <1>1, <1>2, <2>1
<1>11. "write" \in Labels /\ "write" \notin Brief BY DEF Labels, Brief
<1> QED BY <1>1, <1>4, <1>5, <1>8, <1>9, <1>10, <1>11, QuietKeeps

(* Whoever goes to sleep until there are few characters has started the    *)
(* output and leaves a mark.                                               *)
LEMMA OutSleepKeeps ==
  ASSUME IInv, NEW p \in Procs, cpu \in {p, None}, pc[p] \in {"write", "drain"}, NEW t,
         SameInput(t, tty), Marked(t, OnOut # {}), Going(t), ~t.wakeout,
         Sleeps(p, [t EXCEPT !.state = @ \cup {"ASLEEP"}])
  PROVE  IInv'
<1> DEFINE s == t.state \cup {"ASLEEP"}
           u == [t EXCEPT !.state = s]
<1>1. t \in TTY /\ t.rawq = tty.rawq /\ t.delct = tty.delct /\ t.raw = tty.raw BY DEF SameInput
<1>2. s \in SUBSET Flags
  <2>1. t.state \in SUBSET Flags BY <1>1, Fields
  <2> QED BY <2>1 DEF Flags
<1>3. "ASLEEP" \in s /\ \A x \in {"TIMEOUT", "TTSTOP"} : x \in s <=> x \in t.state OBVIOUS
<1>4. Sleeps(p, u) OBVIOUS
<1> HIDE DEF s
<1>5. /\ u \in TTY /\ u.outq = t.outq /\ u.rawq = t.rawq /\ u.canq = t.canq /\ u.delct = t.delct
      /\ u.raw = t.raw /\ u.state = s /\ u.calls = t.calls /\ u.txim = t.txim /\ u.wakeout = t.wakeout
  BY <1>1, <1>2, Zenon DEF TTY, Flags
<1> HIDE DEF u
<1>6. Room(u) = Room(t) BY <1>5 DEF Room
<1>7. Marked(u, TRUE) /\ Moving(u, TRUE) BY <1>3, <1>5, <1>6 DEF Marked, Moving, Going
<1>8. Store(u, {p}) BY <1>4 DEF Sleeps
<1>9. OutOK' BY <1>5, <1>7, <1>8, OutStored
<1>10. pc[p] \notin Brief /\ pc[p] # "canon" BY DEF Brief
<1>11. Room(u) >= 0 BY <1>6 DEF Marked
<1> QED BY <1>1, <1>4, <1>5, <1>9, <1>10, <1>11, SleepKeeps

(* ttwrite waits.                                                          *)
LEMMA WriteSleepKeeps ==
  ASSUME IInv, NEW p \in Procs, WriteSleep(p)
  PROVE  IInv'
<1> DEFINE t == Ttstart(tty)
<1>1. /\ pc[p] = "write" /\ cpu \in {p, None}
      /\ Sleeps(p, [t EXCEPT !.state = @ \cup {"ASLEEP"}])
  BY DEF WriteSleep, At
<1>2. ~tty.wakeout BY Types DEF IInv
<1>3. SameInput(t, tty) /\ Marked(t, OnOut # {}) /\ Going(t) /\ ~t.wakeout
  BY <1>2, Before, TtstartFacts
<1> HIDE DEF t
<1> QED BY <1>1, <1>3, OutSleepKeeps

(* wflushtty waits.                                                        *)
LEMMA DrainSleepKeeps ==
  ASSUME IInv, NEW p \in Procs, DrainSleep(p)
  PROVE  IInv'
<1> DEFINE t == Pl011out(tty)
<1>1. /\ pc[p] = "drain" /\ cpu \in {p, None}
      /\ Sleeps(p, [t EXCEPT !.state = @ \cup {"ASLEEP"}])
  BY DEF DrainSleep, At
<1>2. ~tty.wakeout BY Types DEF IInv
<1>3. SameInput(t, tty) /\ Marked(t, OnOut # {}) /\ Going(t) /\ ~t.wakeout
  BY <1>2, Before, Pl011outFacts
<1> HIDE DEF t
<1> QED BY <1>1, <1>3, OutSleepKeeps

(* ttwrite starts the output and returns.                                  *)
LEMMA WriteEndKeeps ==
  ASSUME IInv, NEW p \in Procs, WriteEnd(p)
  PROVE  IInv'
<1> DEFINE t == Ttstart(tty)
           o == OnOut # {}
<1>1. /\ pc[p] = "write" /\ p \notin asleep /\ cpu \in {p, None} /\ Store(t, {})
      /\ Goto(p, "user") /\ cnt' = cnt /\ tmp' = tmp /\ lost' = lost
  BY DEF WriteEnd, At
<1>2. /\ tty \in TTY /\ Marked(tty, o) /\ cnt \in [Procs -> Nat] /\ pc \in [Procs -> Labels]
      /\ ~tty.wakeout
  BY Before, Types DEF IInv
<1>3. SameInput(t, tty) /\ Marked(t, o) /\ Going(t) /\ ~t.wakeout BY <1>2, TtstartFacts
<1> HIDE DEF t
<1>4. t \in TTY /\ t.rawq = tty.rawq /\ t.delct = tty.delct /\ t.raw = tty.raw BY <1>3 DEF SameInput
<1>5. /\ tty' \in TTY /\ ~tty'.wakein /\ ~tty'.wakeout /\ Room(tty') = Room(t)
      /\ tty'.rawq = t.rawq /\ tty'.delct = t.delct /\ tty'.raw = t.raw /\ asleep' \subseteq asleep
  BY <1>1, <1>4, StoreFacts
<1>6. OnOut' \subseteq OnOut BY <1>1, <1>2, <1>5 DEF OnOut, Goto
<1>7. OutOK' BY <1>1, <1>3, <1>4, <1>6, OutStored DEF Moving
<1>8. Room(tty') >= 0 BY <1>3, <1>5 DEF Marked
<1>9. "user" \in Labels /\ "user" \notin Brief BY DEF Labels, Brief
<1> QED BY <1>1, <1>2, <1>4, <1>5, <1>7, <1>8, <1>9, QuietKeeps

(* A flush by a process that is alone: TIOCFLUSH, or before the mode is    *)
(* set.                                                                    *)
LEMMA FlushKeeps ==
  ASSUME IInv, NEW p \in Procs, cpu \in {p, None}, p \notin asleep, pc[p] \notin Brief,
         Store(Flushtty(tty), {}), lost' = FALSE, cnt' = cnt, tmp' = tmp,
         \/ pc' = pc /\ cpu' = cpu
         \/ Goto(p, "setp")
  PROVE  IInv'
<1> DEFINE t == Flushtty(tty)
           o == OnOut # {}
<1>1. /\ tty \in TTY /\ Marked(tty, o) /\ cnt \in [Procs -> Nat] /\ pc \in [Procs -> Labels]
      /\ tmp \in [Procs -> 0..(WIDTH - 1)] /\ asleep \subseteq Procs /\ cpu \in Procs \cup {None}
  BY Before, Types DEF IInv
<1>2. /\ t \in TTY /\ Marked(t, o) /\ Moving(t, o) /\ t.rawq = <<>> /\ t.outq = <<>> /\ t.delct = 0
      /\ t.wakein /\ t.wakeout /\ t.raw = tty.raw
  BY <1>1, FlushttyFacts
<1>3. Store(t, {}) OBVIOUS
<1> HIDE DEF t
<1>4. /\ tty' \in TTY /\ ~tty'.wakein /\ ~tty'.wakeout /\ Room(tty') = Room(t)
      /\ tty'.rawq = <<>> /\ tty'.delct = 0 /\ tty'.raw = tty.raw /\ asleep' \subseteq asleep
      /\ asleep' \cap OnRaw = {} /\ asleep' \cap OnOut = {}
  BY <1>2, <1>3, StoreFacts
<1>5. \A q \in Procs \ {p} : pc[q] \notin Brief BY Alone DEF IInv
<1>6. /\ pc' \in [Procs -> Labels] /\ cpu' \in Procs \cup {None}
      /\ \A q \in Procs \ {p} : pc'[q] = pc[q]
      /\ pc'[p] = pc[p] \/ (pc'[p] = "setp" /\ cpu' = p)
  <2>1. CASE pc' = pc /\ cpu' = cpu BY <1>1, <2>1
  <2>2. CASE Goto(p, "setp")
    <3>1. "setp" \in Labels BY DEF Labels, Brief
    <3> QED BY <1>1, <2>2, <3>1 DEF Goto
  <2> QED BY <2>1, <2>2
<1>7. OnRaw' = {} /\ OnOut' = {}
  <2>1. \A q \in asleep' : q \in Procs \ {p} /\ q \notin OnRaw /\ q \notin OnOut BY <1>1, <1>4
  <2> QED BY <1>4, <1>6, <2>1 DEF OnRaw, OnOut
<1>8. \A q \in Procs : pc'[q] \in Brief => pc'[q] = "setp" /\ q = p /\ cpu' = p BY <1>5, <1>6
<1>9. TypeOK'
  <2>1. Room(tty)' >= 0 BY <1>2, <1>4 DEF Marked, Room
  <2>2. /\ lost' \in BOOLEAN /\ asleep' \subseteq Procs /\ cnt' \in [Procs -> Nat]
        /\ tmp' \in [Procs -> 0..(WIDTH - 1)]
    BY <1>1, <1>4
  <2> QED BY <1>4, <1>6, <2>1, <2>2, Zenon DEF TypeOK, Labels, Brief
<1>10. BriefOK' BY <1>7, <1>8 DEF BriefOK
<1>11. OutOK' BY <1>2, <1>3, <1>7, OutStored
<1>12. Taken' = {} BY <1>8 DEF Taken, Brief
<1>13. Right'
  <2>1. Cardinality(Taken)' = 0 BY <1>12, FS_EmptySet
  <2>2. \A q \in Procs : pc'[q] # "delct" BY <1>8 DEF Brief
  <2> QED BY <1>4, <1>12, <2>1, <2>2, LinesEmpty DEF Right
<1>14. ReadersTold' BY <1>7 DEF ReadersTold
<1>15. Apart(tty'.rawq) BY <1>4 DEF Apart
<1> QED BY <1>9, <1>10, <1>11, <1>13, <1>14, <1>15 DEF IInv

(* The queues are empty, and wflushtty flushes.                            *)
LEMMA DrainedKeeps ==
  ASSUME IInv, NEW p \in Procs, Drained(p)
  PROVE  IInv'
<1>1. "drain" \notin Brief BY DEF Brief
<1> QED BY <1>1, FlushKeeps DEF Drained, At

(* TIOCFLUSH.                                                              *)
LEMMA TiocflushKeeps ==
  ASSUME IInv, NEW p \in Procs, Flush(p)
  PROVE  IInv'
<1>1. "user" \notin Brief BY DEF Brief
<1> QED BY <1>1, FlushKeeps DEF Flush, At

(* TIOCSETP sets the mode, with nobody asleep for input.                   *)
LEMMA SetpKeeps ==
  ASSUME IInv, NEW p \in Procs, NEW mode \in BOOLEAN, Setp(p, mode)
  PROVE  IInv'
<1>1. /\ pc[p] = "setp" /\ p \notin asleep /\ cpu \in {p, None} /\ tty' = [tty EXCEPT !.raw = mode]
      /\ Goto(p, "user") /\ cnt' = cnt /\ tmp' = tmp /\ asleep' = asleep /\ lost' = lost
  BY DEF Setp, At
<1>2. /\ tty \in TTY /\ ~tty.wakein /\ ~tty.wakeout /\ Room(tty) >= 0 /\ cnt \in [Procs -> Nat]
      /\ pc \in [Procs -> Labels] /\ tmp \in [Procs -> 0..(WIDTH - 1)] /\ lost \in BOOLEAN
      /\ asleep \subseteq Procs
  BY Types DEF IInv
<1>3. /\ tty' \in TTY /\ tty'.outq = tty.outq /\ tty'.rawq = tty.rawq /\ tty'.canq = tty.canq
      /\ tty'.delct = tty.delct /\ tty'.state = tty.state /\ tty'.txim = tty.txim
      /\ tty'.calls = tty.calls /\ tty'.wakein = tty.wakein /\ tty'.wakeout = tty.wakeout
  BY <1>1, <1>2, Zenon DEF TTY
<1>4. Room(tty') = Room(tty) BY <1>3 DEF Room
<1>5. OnRaw = {} BY <1>1 DEF IInv, BriefOK, Brief
<1>6. OnRaw' = {} /\ OnOut' \subseteq OnOut BY <1>1, <1>2, <1>5 DEF OnRaw, OnOut, Goto
<1>7. /\ pc' \in [Procs -> Labels] /\ cpu' \in Procs \cup {None} /\ pc'[p] = "user"
      /\ \A q \in Procs \ {p} : pc'[q] = pc[q] /\ pc'[q] \notin Brief
      /\ BriefOK'
  <2>1. "user" \in Labels BY DEF Labels
  <2> QED BY <1>1, <1>6, <2>1, GotoFacts DEF IInv
<1>8. TypeOK'
  <2>1. Room(tty)' >= 0 BY <1>2, <1>4 DEF Room
  <2> QED BY <1>1, <1>2, <1>3, <1>7, <2>1, Zenon DEF TypeOK, Labels, Brief
<1>9. OutOK' BY <1>1, <1>2, <1>3, <1>4, <1>6, OutKept DEF IInv
<1>10. Taken = {} /\ Taken' = {} /\ \A q \in Procs : pc'[q] # "delct"
  <2>1. \A q \in Procs : pc'[q] \notin Brief BY <1>7 DEF Brief
  <2>2. \A q \in Procs \ {p} : pc[q] \notin Brief BY <1>7
  <2> QED BY <1>1, <2>1, <2>2 DEF Taken, Brief
<1>11. Right' BY <1>1, <1>3, <1>10 DEF IInv, Right, Setting
<1>12. ReadersTold' BY <1>6 DEF ReadersTold
<1>13. Apart(tty'.rawq) BY <1>3 DEF IInv
<1> QED BY <1>7, <1>8, <1>9, <1>11, <1>12, <1>13 DEF IInv

----------------------------------------------------------------------------
(* Reading.                                                                *)

(* passc: what is handed to the process leaves the canonical queue.        *)
LEMMA PasscKeeps ==
  ASSUME IInv, NEW p \in Procs, cpu \in {p, None}, p \notin asleep, NEW n \in Nat,
         pc[p] \in {"user", "btoq"}, NEW k \in Nat, k <= Room(tty),
         Passc(p, [tty EXCEPT !.canq = @ + k], n), tmp' = tmp, lost' = lost
  PROVE  IInv'
<1> DEFINE t == [tty EXCEPT !.canq = @ + k]
           m == t.canq - Least(n, t.canq)
           u == [t EXCEPT !.canq = m]
<1>1. /\ tty \in TTY /\ Marked(tty, OnOut # {}) /\ cnt \in [Procs -> Nat] /\ pc \in [Procs -> Labels]
      /\ ~tty.wakein /\ ~tty.wakeout
  BY Before, Types DEF IInv
<1>2. tty.canq \in Nat /\ Len(tty.rawq) \in Nat /\ Len(tty.outq) \in Nat /\ NCLIST \in Nat
  BY <1>1, Fields, Sizes
<1>3. t.canq = tty.canq + k /\ t \in TTY
  <2> DEFINE j == tty.canq + k
  <2>1. j \in Nat BY <1>2
  <2>2. t = [tty EXCEPT !.canq = j] OBVIOUS
  <2> HIDE DEF j, t
  <2>3. t.canq = j /\ t \in TTY BY <1>1, <2>1, <2>2, Zenon DEF TTY
  <2> QED BY <2>3 DEF j
<1>4. /\ t.outq = tty.outq /\ t.rawq = tty.rawq /\ t.delct = tty.delct /\ t.raw = tty.raw
      /\ t.state = tty.state /\ t.txim = tty.txim /\ t.calls = tty.calls
      /\ t.wakein = tty.wakein /\ t.wakeout = tty.wakeout
  BY <1>1, Zenon DEF TTY
<1>5. Passc(p, t, n) OBVIOUS
<1> HIDE DEF t
<1>6. m \in Nat /\ m <= tty.canq + k BY <1>2, <1>3 DEF Least
<1>7. Store(u, {}) /\ Goto(p, "user") /\ cnt' = [cnt EXCEPT ![p] = 0]
  BY <1>5, Zenon DEF Passc
<1> HIDE DEF m
<1>8. /\ u \in TTY /\ u.canq = m /\ u.outq = t.outq /\ u.rawq = t.rawq /\ u.delct = t.delct
      /\ u.raw = t.raw /\ u.state = t.state /\ u.txim = t.txim /\ u.calls = t.calls
      /\ u.wakein = t.wakein /\ u.wakeout = t.wakeout
  BY <1>3, <1>6, Zenon DEF TTY
<1> HIDE DEF u
<1>9. Room(u) >= 0
  <2>1. Len(u.rawq) = Len(tty.rawq) /\ Len(u.outq) = Len(tty.outq) /\ u.canq = m BY <1>4, <1>8
  <2>2. Room(u) = NCLIST - Len(tty.rawq) - m - Len(tty.outq) BY <2>1, Zenon DEF Room
  <2>3. k \in Nat /\ k <= NCLIST - Len(tty.rawq) - tty.canq - Len(tty.outq) BY Zenon DEF Room
  <2>4. \A a, r, b, d, e, j \in Nat : j <= a - r - b - d /\ e <= b + j => a - r - e - d >= 0
    OBVIOUS
  <2>5. NCLIST - Len(tty.rawq) - m - Len(tty.outq) >= 0 BY <1>2, <1>6, <2>3, <2>4, Zenon
  <2> QED BY <2>2, <2>5, Zenon
<1>10. /\ tty' \in TTY /\ ~tty'.wakein /\ ~tty'.wakeout /\ Room(tty') = Room(u)
       /\ tty'.rawq = u.rawq /\ tty'.outq = u.outq /\ tty'.delct = u.delct /\ tty'.raw = u.raw
       /\ tty'.state = u.state /\ tty'.txim = u.txim /\ tty'.calls = u.calls
       /\ asleep' \subseteq asleep
  BY <1>7, <1>8, StoreFacts
<1>11. OnOut' \subseteq OnOut BY <1>1, <1>7, <1>10 DEF OnOut, Goto
<1>12. OutOK' BY <1>1, <1>4, <1>8, <1>9, <1>10, <1>11, OutKept DEF IInv
<1>13. cnt' \in [Procs -> Nat] BY <1>1, <1>7
<1>14. "user" \in Labels /\ "user" \notin Brief BY DEF Labels, Brief
<1> QED BY <1>4, <1>7, <1>8, <1>9, <1>10, <1>12, <1>13, <1>14, QuietKeeps

(* A reader takes what is left of an earlier line.                         *)
LEMMA ReadCanqKeeps ==
  ASSUME IInv, NEW p \in Procs, NEW n \in Nat, ReadCanq(p, n)
  PROVE  IInv'
<1>1. /\ pc[p] = "user" /\ p \notin asleep /\ cpu = None /\ Passc(p, tty, n)
      /\ tmp' = tmp /\ lost' = lost
  BY DEF ReadCanq, At
<1>2. tty \in TTY /\ Room(tty) >= 0 BY Types DEF IInv
<1>3. tty = [tty EXCEPT !.canq = @ + 0]
  <2> DEFINE j == tty.canq + 0
  <2>1. j = tty.canq BY <1>2, Fields
  <2> HIDE DEF j
  <2>2. tty = [tty EXCEPT !.canq = j] BY <1>2, <2>1, Zenon DEF TTY
  <2> QED BY <2>2, Zenon DEF j
<1>4. Passc(p, [tty EXCEPT !.canq = @ + 0], n) BY <1>1, <1>3, Zenon
<1> QED BY <1>1, <1>2, <1>4, PasscKeeps

(* The end of canon.                                                       *)
LEMMA CanonEndKeeps ==
  ASSUME IInv, NEW p \in Procs, NEW n \in Nat, CanonEnd(p, n)
  PROVE  IInv'
<1> DEFINE k == Least(cnt[p], Room(tty))
<1>1. /\ pc[p] = "btoq" /\ p \notin asleep /\ cpu \in {p, None} /\ tmp' = tmp /\ lost' = lost
      /\ Passc(p, [tty EXCEPT !.canq = @ + k], n)
  BY DEF CanonEnd, At
<1>2. cnt[p] \in Nat /\ Room(tty) \in Nat
  <2>1. tty \in TTY /\ Room(tty) >= 0 /\ cnt \in [Procs -> Nat] BY Types DEF IInv
  <2>2. Room(tty) \in Int BY <2>1, Fields
  <2> QED BY <2>1, <2>2
<1>3. k \in Nat /\ k <= Room(tty) BY <1>2 DEF Least
<1> HIDE DEF k
<1> QED BY <1>1, <1>3, PasscKeeps

(* canon waits only while there is nothing.                                *)
LEMMA CanonSleepKeeps ==
  ASSUME IInv, NEW p \in Procs, CanonSleep(p)
  PROVE  IInv'
<1>1. pc[p] = "canon" /\ p \notin asleep /\ cpu \in {p, None} /\ ~Ready /\ Sleeps(p, tty)
  BY DEF CanonSleep, At
<1>2. /\ tty \in TTY /\ ~tty.wakein /\ ~tty.wakeout /\ Room(tty) >= 0 /\ pc \in [Procs -> Labels]
  BY Types DEF IInv
<1>3. Store(tty, {p}) /\ pc' = pc BY <1>1 DEF Sleeps
<1>4. /\ ~tty'.wakeout /\ Room(tty') = Room(tty)
      /\ tty'.outq = tty.outq /\ tty'.state = tty.state /\ tty'.txim = tty.txim
      /\ tty'.calls = tty.calls /\ asleep' \subseteq asleep \cup {p}
  BY <1>2, <1>3, StoreFacts
<1>5. OnOut' \subseteq OnOut BY <1>1, <1>3, <1>4 DEF OnOut
<1>6. OutOK' BY <1>1, <1>2, <1>4, <1>5, OutKept DEF IInv
<1>7. pc[p] \notin Brief BY <1>1 DEF Brief
<1> QED BY <1>1, <1>2, <1>6, <1>7, SleepKeeps

(* A step of canon that changes nothing of the terminal.                   *)
LEMMA CanonOn ==
  ASSUME IInv, NEW p \in Procs, cpu \in {p, None}, p \notin asleep, pc[p] \in {"canon", "getc"},
         NEW l \in {"getc", "btoq"}, Goto(p, l), OnRaw = {},
         tty' = tty, cnt' = cnt, tmp' = tmp, asleep' = asleep, lost' = lost
  PROVE  IInv'
<1>1. /\ tty \in TTY /\ ~tty.wakein /\ ~tty.wakeout /\ Room(tty) >= 0 /\ pc \in [Procs -> Labels]
      /\ cnt \in [Procs -> Nat]
  BY Types DEF IInv
<1>2. OnOut' \subseteq OnOut BY <1>1 DEF OnOut, Goto
<1>3. OutOK' BY <1>1, <1>2, OutKept DEF IInv
<1>4. l \in Labels BY DEF Labels, Brief
<1> QED BY <1>1, <1>3, <1>4, QuietKeeps

(* canon has something to read: so nobody sleeps for it.                   *)
LEMMA CanonReadyKeeps ==
  ASSUME IInv, NEW p \in Procs, CanonReady(p)
  PROVE  IInv'
<1>1. OnRaw = {} BY DEF CanonReady, IInv, ReadersTold
<1> QED BY <1>1, CanonOn DEF CanonReady, At

(* canon has taken everything.                                             *)
LEMMA CanonEmptyKeeps ==
  ASSUME IInv, NEW p \in Procs, CanonEmpty(p)
  PROVE  IInv'
<1>1. OnRaw = {} BY DEF CanonEmpty, At, IInv, BriefOK, Brief
<1> QED BY <1>1, CanonOn DEF CanonEmpty, At

(* What the steps of canon on the count have in common: p is in the brief  *)
(* code before and after.                                                  *)
LEMMA CanonCounts ==
  ASSUME IInv, NEW p \in Procs, cpu \in {p, None}, p \notin asleep, pc[p] \in Brief,
         NEW l \in Brief, Goto(p, l), asleep' = asleep,
         tty' \in TTY, ~tty'.wakein, ~tty'.wakeout, Room(tty') >= 0,
         tty'.outq = tty.outq, tty'.state = tty.state, tty'.txim = tty.txim, tty'.calls = tty.calls,
         cnt' \in [Procs -> Nat], tmp' \in [Procs -> 0..(WIDTH - 1)], lost' = lost,
         Apart(tty'.rawq), Right'
  PROVE  IInv'
<1>1. pc \in [Procs -> Labels] /\ lost \in BOOLEAN /\ asleep \subseteq Procs BY Types DEF IInv
<1>2. OnRaw = {} BY DEF IInv, BriefOK
<1>3. OnRaw' = {} /\ OnOut' \subseteq OnOut BY <1>1, <1>2 DEF OnRaw, OnOut, Goto
<1>4. pc' \in [Procs -> Labels] /\ cpu' \in Procs \cup {None} /\ BriefOK'
  <2>1. l \in Labels BY DEF Labels
  <2> QED BY <1>3, <2>1, GotoFacts DEF IInv
<1>5. TypeOK'
  <2>1. Room(tty)' >= 0 BY DEF Room
  <2> QED BY <1>1, <1>4, <2>1, Zenon DEF TypeOK, Labels, Brief
<1>6. OutOK'
  <2>1. pc[p] # "write" BY DEF Brief
  <2> QED BY <1>3, <2>1, OutKept DEF IInv
<1>7. ReadersTold' BY <1>3 DEF ReadersTold
<1> QED BY <1>4, <1>5, <1>6, <1>7 DEF IInv

(* One turn of the loop of canon.                                          *)
LEMMA CanonGetcKeeps ==
  ASSUME IInv, NEW p \in Procs, CanonGetc(p)
  PROVE  IInv'
<1> DEFINE q == tty.rawq
           r == Tail(q)
           delim == ~tty.raw /\ Head(q) = "delim"
           n == Grown(cnt[p], Head(q))
           l == IF delim THEN "getdelim" ELSE IF n >= CANBSIZ - 2 THEN "btoq" ELSE "getc"
<1>1. /\ pc[p] = "getc" /\ p \notin asleep /\ cpu \in {p, None} /\ q # <<>>
      /\ tty' = [tty EXCEPT !.rawq = r] /\ Goto(p, l)
      /\ cnt' = IF delim THEN cnt ELSE [cnt EXCEPT ![p] = n]
      /\ tmp' = tmp /\ asleep' = asleep /\ lost' = lost
  BY DEF CanonGetc, At
<1>2. /\ tty \in TTY /\ ~tty.wakein /\ ~tty.wakeout /\ Room(tty) >= 0 /\ pc \in [Procs -> Labels]
      /\ cnt \in [Procs -> Nat] /\ tmp \in [Procs -> 0..(WIDTH - 1)]
  BY Types DEF IInv
<1>3. /\ q \in Seq(RawChars) /\ Len(q) \in Nat /\ tty.canq \in Nat /\ Len(tty.outq) \in Nat
      /\ NCLIST \in Nat
  BY <1>2, Fields, Sizes
<1>4. r \in Seq(RawChars) /\ Len(r) = Len(q) - 1 /\ \A i \in 1..Len(r) : r[i] = q[i + 1]
  BY <1>1, <1>3, HeadTailProperties
<1>5. Lines(r) = IF Head(q) = "delim" THEN Lines(q) - 1 ELSE Lines(q) BY <1>1, <1>3, LinesTail
<1>6. Lines(q) \in Nat BY <1>3, DelimsFinite
<1>7. Apart(r) BY <1>3, <1>4 DEF IInv, Apart
<1>8. n \in Nat BY <1>2 DEF Grown
<1>9. cnt' \in [Procs -> Nat] BY <1>1, <1>2, <1>8
<1>10. l \in Brief /\ pc[p] \in Brief /\ l # "setp" /\ l # "delct" /\ (l = "getdelim" <=> delim)
  BY <1>1 DEF Brief
<1> HIDE DEF l, n, r
<1>11. /\ tty' \in TTY /\ tty'.rawq = r /\ tty'.outq = tty.outq /\ tty'.state = tty.state
       /\ tty'.txim = tty.txim /\ tty'.calls = tty.calls /\ tty'.delct = tty.delct
       /\ tty'.raw = tty.raw /\ tty'.canq = tty.canq
       /\ tty'.wakein = tty.wakein /\ tty'.wakeout = tty.wakeout
  BY <1>1, <1>2, <1>4, Zenon DEF TTY, RawChars
<1>12. Room(tty') >= 0
  <2>1. Len(tty'.rawq) = Len(q) - 1 /\ Len(tty'.outq) = Len(tty.outq) /\ tty'.canq = tty.canq
    BY <1>4, <1>11
  <2>2. Room(tty') = NCLIST - (Len(q) - 1) - tty.canq - Len(tty.outq) BY <2>1, Zenon DEF Room
  <2>3. Room(tty) = NCLIST - Len(q) - tty.canq - Len(tty.outq) BY Zenon DEF Room
  <2>4. NCLIST - Len(q) - tty.canq - Len(tty.outq) >= 0 BY <1>2, <2>3
  <2>5. \A a, b, c, m \in Nat : m - a - b - c >= 0 => m - (a - 1) - b - c >= 0 OBVIOUS
  <2>6. NCLIST - (Len(q) - 1) - tty.canq - Len(tty.outq) >= 0 BY <1>3, <2>4, <2>5, Zenon
  <2> QED BY <2>2, <2>6
<1>13. \A x \in Procs \ {p} : pc[x] \notin Brief BY <1>1, Alone DEF IInv
<1>14. pc'[p] = l /\ \A x \in Procs \ {p} : pc'[x] = pc[x] BY <1>1, <1>2 DEF Goto
<1>15. Taken = {} /\ ~Setting' /\ ~Setting BY <1>1, <1>10, <1>13, <1>14 DEF Taken, Setting, Brief
<1>16. Taken' = IF delim THEN {p} ELSE {} BY <1>10, <1>13, <1>14 DEF Taken, Brief
<1>17. Right'
  <2>1. Cardinality(Taken) = 0 BY <1>15, FS_EmptySet
  <2>2. Cardinality(Taken') = IF delim THEN 1 ELSE 0 BY <1>16, FS_EmptySet, FS_Singleton
  <2>3. \A x \in Procs : pc'[x] # "delct" BY <1>10, <1>13, <1>14 DEF Brief
  <2>4. Taken' # {} => ~tty'.raw BY <1>11, <1>16
  <2>5. ASSUME ~lost', ~tty'.raw PROVE tty'.delct = Lines(tty'.rawq) + Cardinality(Taken')
    <3>1. tty.delct = Lines(q) + 0 BY <1>1, <1>11, <2>1, <2>5 DEF IInv, Right
    <3> QED BY <1>5, <1>6, <1>11, <2>2, <2>5, <3>1
  <2>6. ~Setting' BY <1>15
  <2> QED BY <2>3, <2>4, <2>5, <2>6 DEF Right
<1> QED BY <1>1, <1>2, <1>7, <1>9, <1>10, <1>11, <1>12, <1>17, CanonCounts

(* canon loads the count ...                                               *)
LEMMA DelctLoadKeeps ==
  ASSUME IInv, NEW p \in Procs, DelctLoad(p)
  PROVE  IInv'
<1>1. /\ pc[p] = "getdelim" /\ p \notin asleep /\ cpu \in {p, None} /\ Goto(p, "delct")
      /\ tmp' = [tmp EXCEPT ![p] = tty.delct]
      /\ tty' = tty /\ cnt' = cnt /\ asleep' = asleep /\ lost' = lost
  BY DEF DelctLoad, At
<1>2. /\ tty \in TTY /\ ~tty.wakein /\ ~tty.wakeout /\ Room(tty) >= 0 /\ pc \in [Procs -> Labels]
      /\ cnt \in [Procs -> Nat] /\ tmp \in [Procs -> 0..(WIDTH - 1)]
  BY Types DEF IInv
<1>3. tmp' \in [Procs -> 0..(WIDTH - 1)] /\ tmp'[p] = tty.delct BY <1>1, <1>2, Fields
<1>4. \A x \in Procs \ {p} : pc[x] \notin Brief BY <1>1, Alone DEF IInv
<1>5. pc'[p] = "delct" /\ \A x \in Procs \ {p} : pc'[x] = pc[x] BY <1>1, <1>2 DEF Goto
<1>6. Taken' = Taken /\ Setting' = Setting BY <1>1, <1>4, <1>5 DEF Taken, Setting
<1>7. Right' BY <1>1, <1>3, <1>4, <1>5, <1>6 DEF IInv, Right, Brief
<1>8. "delct" \in Brief /\ "getdelim" \in Brief BY DEF Brief
<1>9. Apart(tty'.rawq) BY <1>1 DEF IInv
<1> QED BY <1>1, <1>2, <1>3, <1>7, <1>8, <1>9, CanonCounts

(* ... and stores it decremented.                                          *)
LEMMA DelctStoreKeeps ==
  ASSUME IInv, NEW p \in Procs, DelctStore(p)
  PROVE  IInv'
<1> DEFINE d == (tmp[p] + WIDTH - 1) % WIDTH
<1>1. /\ pc[p] = "delct" /\ p \notin asleep /\ cpu \in {p, None} /\ Goto(p, "btoq")
      /\ tty' = [tty EXCEPT !.delct = d] /\ tmp' = [tmp EXCEPT ![p] = 0]
      /\ cnt' = cnt /\ asleep' = asleep /\ lost' = lost
  BY DEF DelctStore, At
<1>2. /\ tty \in TTY /\ ~tty.wakein /\ ~tty.wakeout /\ Room(tty) >= 0 /\ pc \in [Procs -> Labels]
      /\ cnt \in [Procs -> Nat] /\ tmp \in [Procs -> 0..(WIDTH - 1)]
  BY Types DEF IInv
<1>3. tmp[p] \in 0..(WIDTH - 1) BY <1>2
<1>4. d \in 0..(WIDTH - 1) /\ (tmp[p] > 0 => d = tmp[p] - 1) /\ WIDTH > 1 BY <1>3, Wraps
<1> HIDE DEF d
<1>5. /\ tty' \in TTY /\ tty'.rawq = tty.rawq /\ tty'.outq = tty.outq /\ tty'.state = tty.state
      /\ tty'.txim = tty.txim /\ tty'.calls = tty.calls /\ tty'.delct = d
      /\ tty'.raw = tty.raw /\ tty'.canq = tty.canq
      /\ tty'.wakein = tty.wakein /\ tty'.wakeout = tty.wakeout
  BY <1>1, <1>2, <1>4, Zenon DEF TTY
<1>6. Room(tty') = Room(tty) BY <1>5 DEF Room
<1>7. \A x \in Procs \ {p} : pc[x] \notin Brief BY <1>1, Alone DEF IInv
<1>8. pc'[p] = "btoq" /\ \A x \in Procs \ {p} : pc'[x] = pc[x] BY <1>1, <1>2 DEF Goto
<1>9. Taken = {p} /\ Taken' = {} BY <1>1, <1>7, <1>8 DEF Taken, Brief
<1>10. Right'
  <2>1. Cardinality(Taken) = 1 /\ Cardinality(Taken') = 0 BY <1>9, FS_EmptySet, FS_Singleton
  <2>2. \A x \in Procs : pc'[x] # "delct" BY <1>7, <1>8 DEF Brief
  <2>3. ASSUME ~lost' PROVE d = Lines(tty.rawq)
    <3>1. ~tty.raw BY <1>9 DEF IInv, Right
    <3>2. tty.delct = Lines(tty.rawq) + 1 /\ tmp[p] = tty.delct
      BY <1>1, <2>1, <2>3, <3>1 DEF IInv, Right
    <3>3. Lines(tty.rawq) \in Nat BY <1>2, Fields, DelimsFinite
    <3> QED BY <1>4, <3>2, <3>3
  <2>4. Lines(tty.rawq) \in Nat BY <1>2, Fields, DelimsFinite
  <2> QED BY <1>5, <1>9, <2>1, <2>2, <2>3, <2>4 DEF Right
<1>11. "delct" \in Brief /\ "btoq" \in Brief BY DEF Brief
<1>12. Apart(tty'.rawq) BY <1>5 DEF IInv
<1>13. tmp' \in [Procs -> 0..(WIDTH - 1)]
  <2>1. 0 \in 0..(WIDTH - 1) BY <1>4, Sizes
  <2> QED BY <1>1, <1>2, <2>1
<1> QED BY <1>1, <1>2, <1>5, <1>6, <1>10, <1>11, <1>12, <1>13, CanonCounts

----------------------------------------------------------------------------
(* Theorems.                                                               *)

(* The invariant holds at first.                                           *)
LEMMA InitIInv == Init => IInv
<1> SUFFICES ASSUME Init PROVE IInv OBVIOUS
<1>1. WIDTH \in Nat /\ WIDTH > 1 /\ FIFO \in Nat /\ NCLIST \in Nat BY Sizes
<1>2. 0 \in 0..(WIDTH - 1) /\ 0 \in 0..FIFO /\ {} \in SUBSET Flags BY <1>1
<1>3. <<>> \in Seq(RawChars) /\ <<>> \in Seq(OutChars) /\ 0 \in Nat OBVIOUS
<1>4. /\ tty = [rawq |-> <<>>, canq |-> 0, outq |-> <<>>, delct |-> 0, raw |-> FALSE, state |-> {},
                txim |-> FALSE, fifo |-> 0, calls |-> 0, wakein |-> FALSE, wakeout |-> FALSE]
      /\ pc = [p \in Procs |-> "user"] /\ cnt = [p \in Procs |-> 0] /\ tmp = [p \in Procs |-> 0]
      /\ asleep = {} /\ cpu = None /\ lost = FALSE
  BY DEF Init
<1>5. tty \in TTY BY <1>2, <1>3, <1>4, Zenon DEF TTY, RawChars, OutChars, Flags
<1>6. /\ tty.rawq = <<>> /\ tty.canq = 0 /\ tty.outq = <<>> /\ tty.delct = 0 /\ ~tty.raw
      /\ tty.state = {} /\ ~tty.wakein /\ ~tty.wakeout
  BY <1>4
<1>7. Room(tty) >= 0 BY <1>1, <1>6 DEF Room
<1>8. "user" \in Labels /\ "user" \notin Brief BY DEF Labels, Brief
<1>9. TypeOK BY <1>2, <1>4, <1>5, <1>6, <1>7, <1>8, Types
<1>10. OnOut = {} /\ OnRaw = {} BY <1>4 DEF OnOut, OnRaw
<1>11. BriefOK BY <1>4, <1>8 DEF BriefOK
<1>12. OutOK BY <1>6, <1>7, <1>10 DEF OutOK, Marked, Moving
<1>13. Right
  <2>1. Taken = {} BY <1>4 DEF Taken
  <2> QED BY <1>4, <1>6, <2>1, LinesEmpty, FS_EmptySet DEF Right
<1>14. Apart(tty.rawq) BY <1>6 DEF Apart
<1>15. ReadersTold BY <1>10 DEF ReadersTold
<1> QED BY <1>9, <1>11, <1>12, <1>13, <1>14, <1>15 DEF IInv

(* Every step keeps the invariant.                                         *)
LEMMA NextKeeps == IInv /\ [Next]_vars => IInv'
<1> SUFFICES ASSUME IInv, [Next]_vars PROVE IInv' OBVIOUS
<1>1. CASE UNCHANGED vars
  BY <1>1 DEF vars, IInv, TypeOK, BriefOK, OutOK, Right, ReadersTold, Ready, OnOut, OnRaw, Writing,
              Setting, Taken, Marked, Moving, Going, Room, Apart, Lines, Delims
<1>2. CASE IrqTx \/ Ttrstrt \/ Transmit BY <1>2, IrqTxKeeps, TtrstrtKeeps, TransmitKeeps
<1>3. ASSUME NEW c \in Keys, IrqKey(c) PROVE IInv' BY <1>3, IrqKeyKeeps
<1>4. ASSUME NEW p \in Procs, Signal(p) PROVE IInv' BY <1>4, SignalKeeps
<1>5. ASSUME NEW p \in Writers,
             WriteSleep(p) \/ WriteEnd(p) \/ Flush(p) \/ DrainSleep(p) \/ Drained(p)
      PROVE  IInv'
  <2>1. p \in Procs BY DEF Procs
  <2> QED BY <1>5, <2>1, WriteSleepKeeps, WriteEndKeeps, TiocflushKeeps, DrainSleepKeeps, DrainedKeeps
<1>6. ASSUME NEW p \in Writers,
             \/ Call(p, "drain", 0) \/ \E c \in {"c", "nl"} : WritePut(p, c)
             \/ \E mode \in BOOLEAN : Setp(p, mode)
             \/ \E n \in Counts : Call(p, "write", n)
      PROVE  IInv'
  <2>1. p \in Procs /\ Counts \subseteq Nat BY KeysAssumption DEF Procs
  <2> QED BY <1>6, <2>1, CallKeeps, WritePutKeeps, SetpKeeps
<1>7. ASSUME NEW p \in Readers,
             \/ ReadCanon(p) \/ CanonSleep(p) \/ CanonReady(p) \/ CanonGetc(p) \/ CanonEmpty(p)
             \/ DelctLoad(p) \/ DelctStore(p)
      PROVE  IInv'
  <2>1. p \in Procs BY DEF Procs
  <2>2. ReadCanon(p) => Call(p, "canon", 0) BY DEF ReadCanon
  <2> QED BY <1>7, <2>1, <2>2, CallKeeps, CanonSleepKeeps, CanonReadyKeeps, CanonGetcKeeps,
             CanonEmptyKeeps, DelctLoadKeeps, DelctStoreKeeps
<1>8. ASSUME NEW p \in Readers, NEW n \in Counts, ReadCanq(p, n) \/ CanonEnd(p, n)
      PROVE  IInv'
  <2>1. p \in Procs /\ n \in Nat BY KeysAssumption DEF Procs
  <2> QED BY <1>8, <2>1, ReadCanqKeeps, CanonEndKeeps
<1> QED BY <1>1, <1>2, <1>3, <1>4, <1>5, <1>6, <1>7, <1>8 DEF Next

(* The inductive invariant of the terminal: its types, that the code of    *)
(* canon that is not left by a sleep runs with nobody asleep for input,    *)
(* that output goes on, and how t_delct counts the lines of the raw queue. *)
THEOREM TtyInvariant == Spec => []IInv
<1>1. Init => IInv BY InitIInv
<1>2. IInv /\ [Next]_vars => IInv' BY NextKeeps
<1> QED BY <1>1, <1>2, PTL DEF Spec

(* Output never comes to rest, for any keys typed, pauses, full queues and *)
(* signals, with characters in the queue or a process asleep in ttwrite or *)
(* wflushtty: ttstart, ttrstrt and pl011xint always leave something behind *)
(* that will go on.                                                        *)
THEOREM TtyOutputMoves == Spec => []OutputMoves
<1>1. IInv => OutputMoves BY InvImplies
<1> QED BY <1>1, TtyInvariant, PTL

(* t_delct is the number of lines in the raw queue, with the one canon has *)
(* taken and not counted yet, unless an interrupt came between the load    *)
(* and the store of its decrement: flushes, overflows and changes of mode  *)
(* do not get it wrong, and it does not wrap while the queue is bounded by *)
(* TTYHOG.                                                                 *)
THEOREM TtyDelctRight == Spec => []DelctRight
<1>1. IInv => DelctRight BY InvImplies
<1> QED BY <1>1, TtyInvariant, PTL

(* No reader sleeps in canon when its test, made again, would find input:  *)
(* ttyinput and flushtty wake readers whenever they make it so.            *)
THEOREM TtyReadersTold == Spec => []ReadersTold
<1>1. IInv => ReadersTold BY DEF IInv
<1> QED BY <1>1, TtyInvariant, PTL
=============================================================================
