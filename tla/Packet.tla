------------------------------- MODULE Packet -------------------------------
(***************************************************************************)
(* The packet driver of uucp (usr/src/cmd/uucp/pk0.c and pk1.c), compiled  *)
(* for user mode: two uucicos, one at each end of a telephone line that    *)
(* loses and damages packets, open a connection and then take turns to     *)
(* write and to read.                                                      *)
(*                                                                         *)
(* Each end is one sequential process that gives the other a chance only   *)
(* where it waits for input, in pkgetpack: an action is the code between   *)
(* two such waits.  The line keeps the order of what it carries, and the   *)
(* check sums find all damage; what follows a bad header is skipped up to  *)
(* the next header.  Packets are full, and each call moves one of them.    *)
(* The names of the fields are those of struct pack; sys/pk.h, which       *)
(* declares it, is not in the repository.                                  *)
(***************************************************************************)
EXTENDS Naturals, Sequences, FiniteSets, SequencesExt

CONSTANTS
  MOD,        \* sequence numbers are modulo this (8)
  WINDOWS,    \* packets in flight, and input buffers, of each end (sys/pk.h)
  GETRIES,    \* time-outs in a row before pkgetpack gives up (5)
  CONBAD,     \* bad headers in a row before it gives up (5)
  Burst,      \* how many packets each end writes when it is its turn
  Messages,   \* the control messages by number (sys/pk.h, not in the repository)
  PAYLOADS,   \* contents are numbers modulo this
  MaxFaults,  \* bound on the packets lost, damaged or later than the time-out
  LINECAP     \* bound on what is on the line when an end times out

Ends == {"A", "B"}
Other(e) == IF e = "A" THEN "B" ELSE "A"

(* Twice the window fits in MOD: then the places pkdata uses for packets   *)
(* that have not been looked at lie outside the window.                    *)
ASSUME NumbersAssumption ==
  /\ {MOD, WINDOWS, GETRIES, PAYLOADS} \subseteq Nat \ {0}
  /\ {CONBAD, MaxFaults, LINECAP} \subseteq Nat
  /\ 2 * WINDOWS <= MOD /\ MOD < PAYLOADS
ASSUME BurstAssumption == Burst \in [Ends -> Nat \ {0}]
ASSUME MessagesAssumption ==
  /\ Messages \in Seq({"RJ", "RR", "INITA", "INITB", "INITC"})
  /\ {Messages[i] : i \in DOMAIN Messages} = {"RJ", "RR", "INITA", "INITB", "INITC"}

VARIABLES
  pk,       \* struct pack of each end
  pc,       \* "closed", "open", "idle", "write" or "read" (waiting in those calls), "failed"
  role,     \* whether it is this end's turn to write or to read
  left,     \* the packets left of its turn
  tries,    \* time-outs of the call of pkgetpack that waits
  conbad,   \* Conbad
  line,     \* the packets on their way to each end
  wrote,    \* how many packets each end has written, modulo PAYLOADS
  got,      \* the contents of the last packet read at each end
  faults    \* how many there have been

vars == <<pk, pc, role, left, tries, conbad, line, wrote, got, faults>>

Numbers == 0..(MOD - 1)
Nil == [ok |-> FALSE, seq |-> 0, data |-> 0]

(* pkopen, before its first output.                                        *)
NewPack ==
  [state |-> {}, ps |-> 0, pr |-> 0, rpr |-> 0, nxtps |-> 0, pscopy |-> 0,
   os |-> [x \in Numbers |-> "null"], ob |-> [x \in Numbers |-> 0],
   is |-> [x \in Numbers |-> "free"], ib |-> [x \in Numbers |-> Nil],
   pool |-> WINDOWS, xcount |-> 0, rcount |-> 0,
   msg |-> {"INITA"}, rmsg |-> {"INITA"}, out |-> <<>>]

Init ==
  /\ pk = [e \in Ends |-> NewPack] /\ pc = [e \in Ends |-> "closed"]
  /\ role = [e \in Ends |-> IF e = "A" THEN "writes" ELSE "reads"]
  /\ left = [e \in Ends |-> Burst["A"]]
  /\ tries = [e \in Ends |-> 0] /\ conbad = [e \in Ends |-> 0]
  /\ line = [e \in Ends |-> <<>>]
  /\ wrote = [e \in Ends |-> 0] /\ got = [e \in Ends |-> 0]
  /\ faults = 0

----------------------------------------------------------------------------
Nxt(x) == (x + 1) % MOD
Plus(x, i) == (x + i) % MOD
Dist(x, y) == (y + MOD - x) % MOD       \* how far y is ahead of x

(* The message pkoutput sends first, the one with the lowest number.       *)
FirstMsg(S) == Messages[CHOOSE i \in DOMAIN Messages :
                          Messages[i] \in S /\ \A j \in 1..(i - 1) : Messages[j] \notin S]

(* Mutant: p_ps stays where it is.                                         *)
Pksack_KeepPs(k) ==
  LET done == {x \in {Plus(k.ps, i) : i \in 1..Dist(k.ps, k.rpr)} : k.os[x] = "sent"}
  IN  [k EXCEPT !.os = [x \in Numbers |-> IF x \in done THEN "null" ELSE k.os[x]],
                !.ob = [x \in Numbers |-> IF x \in done THEN 0 ELSE k.ob[x]],
                !.xcount = @ - Cardinality(done)]

(* pksack: everything sent between the last acknowledgement and this one   *)
(* is done with.                                                           *)
Pksack(k) ==
  LET seen == {Plus(k.ps, i) : i \in 1..Dist(k.ps, k.rpr)}
      done == {x \in seen : k.os[x] = "sent"}
      last == CHOOSE x \in done : \A y \in done : Dist(k.ps, y) <= Dist(k.ps, x)
  IN  IF done = {} THEN k
      ELSE [k EXCEPT !.os = [x \in Numbers |-> IF x \in done THEN "null" ELSE k.os[x]],
                     !.ob = [x \in Numbers |-> IF x \in done THEN 0 ELSE k.ob[x]],
                     !.xcount = @ - Cardinality(done), !.ps = last]

(* pkoutput sends one packet at most: a control message, unless all there  *)
(* is to say is RR and a data packet can carry it, or the next data packet. *)
Pkoutput(k) ==
  LET x == IF "RXMIT" \in k.state THEN Nxt(k.rpr) ELSE k.nxtps
      ready == k.os[x] \in {"ready", "sent"}
      m == FirstMsg(k.msg)
      Control == [kind |-> m, val |-> IF m \in {"RJ", "RR"} THEN k.pr ELSE 0,
                  seq |-> 0, data |-> 0, hdr |-> TRUE, ok |-> TRUE]
      Data == [kind |-> "data", val |-> k.pr, seq |-> x, data |-> k.ob[x],
               hdr |-> TRUE, ok |-> TRUE]
  IN  IF k.msg \ {"RR"} # {} \/ (k.msg # {} /\ ~ready) THEN
        [k EXCEPT !.nxtps = x, !.msg = @ \ {m}, !.out = Append(@, Control)]
      ELSE IF ready THEN
        [k EXCEPT !.nxtps = Nxt(x), !.os[x] = "sent", !.state = @ \ {"RXMIT"},
                  !.out = Append(@, Data)]
      ELSE [k EXCEPT !.nxtps = x]

(* The answer to INITB.                                                    *)
InitB(k) ==
  IF "LIVE" \in k.state THEN [k EXCEPT !.msg = @ \cup {"INITC"}]
  ELSE IF "INITa" \notin k.state THEN [k EXCEPT !.state = @ \cup {"INITb"}]
  ELSE [k EXCEPT !.state = @ \cup {"INITb"}, !.rmsg = @ \ {"INITA"}, !.msg = @ \cup {"INITC"}]

(* pkcntl: a control message.                                              *)
Control(k, c) ==
  CASE c.kind = "INITA" ->
         [k EXCEPT !.state = @ \cup {"INITa"}, !.msg = @ \cup {"INITB"}, !.rmsg = @ \cup {"INITB"}]
    [] c.kind = "INITB" -> InitB(k)
    [] c.kind = "INITC" ->
         IF {"INITa", "INITb"} \subseteq k.state
         THEN [k EXCEPT !.state = {"LIVE"}, !.rmsg = @ \ {"INITB"}]
         ELSE [k EXCEPT !.msg = @ \cup {"INITB"}]
    [] c.kind = "RJ" ->
         Pksack([k EXCEPT !.state = @ \cup {"RXMIT"}, !.msg = @ \cup {"RR"}, !.rpr = c.val])
    [] c.kind = "RR" -> Pksack([k EXCEPT !.rpr = c.val])

Pkcntl(k, c) == LET n == Control(k, c) IN IF n.msg # {} THEN Pkoutput(n) ELSE n

(* pkdata: the packet goes to a free place other than that of the next     *)
(* number, to be looked at by pkaccept.  Before the connection is live it  *)
(* is dropped and the peer reminded.                                       *)
Pkdata(k, c) ==
  LET places == {i \in 0..(MOD - 2) : k.is[Plus(k.pr, MOD - i)] = "free"}
      x == Plus(k.pr, MOD - (CHOOSE i \in places : \A j \in places : i <= j))
  IN  IF "LIVE" \notin k.state THEN Pkoutput([k EXCEPT !.msg = @ \cup k.rmsg])
      ELSE IF places = {} THEN k
      ELSE [k EXCEPT !.pool = @ - 1, !.is[x] = "raw", !.ib[x] = [ok |-> c.ok, seq |-> c.seq, data |-> c.data]]

(* pkgetpack: a data packet brings an acknowledgement, whatever its        *)
(* contents.                                                               *)
Pkgetpack(k, c) ==
  IF ~c.hdr THEN k
  ELSE IF c.kind = "data" THEN Pkdata(Pksack([k EXCEPT !.rpr = c.val]), c)
  ELSE Pkcntl(k, c)

(* The numbers of the input window.                                        *)
Window(k) == {Plus(k.pr, i) : i \in 1..WINDOWS}

(* Mutant: the buffer is lost.                                             *)
Free_Leak(k, x) == [k EXCEPT !.is[x] = "free", !.ib[x] = Nil]

(* The buffer of place x goes back to the pool.                            *)
Free(k, x) == [k EXCEPT !.is[x] = "free", !.ib[x] = Nil, !.pool = @ + 1]

(* Mutant: the check sum of the data is not looked at.                     *)
Mark_NoSum(k, x) ==
  LET c == k.ib[x]
      moved == [k EXCEPT !.ib[x] = k.ib[c.seq], !.is[x] = k.is[c.seq], !.ib[c.seq] = c]
  IN  IF c.seq \notin Window(k) \/ k.is[c.seq] \in {"mark", "copy"}
        THEN [Free(k, x) EXCEPT !.msg = @ \cup {"RR"}]
      ELSE IF x = c.seq THEN [k EXCEPT !.is[x] = "mark"]
      ELSE [moved EXCEPT !.is[c.seq] = "mark"]

(* pkaccept, its first loop: what to do with the packet in place x.        *)
Mark(k, x) ==
  LET c == k.ib[x]
      moved == [k EXCEPT !.ib[x] = k.ib[c.seq], !.is[x] = k.is[c.seq], !.ib[c.seq] = c]
  IN  IF k.is[x] # "raw" \/ ~c.ok THEN [Free(k, x) EXCEPT !.msg = @ \cup {"RJ"}]
      ELSE IF c.seq \notin Window(k) \/ k.is[c.seq] \in {"mark", "copy"}
        THEN [Free(k, x) EXCEPT !.msg = @ \cup {"RR"}]
      ELSE IF x = c.seq THEN [k EXCEPT !.is[x] = "mark"]
      ELSE [moved EXCEPT !.is[c.seq] = "mark"]

Marked(k) ==
  LET m[x \in 0..MOD] ==
        IF x = 0 THEN k
        ELSE IF k.is[x - 1] = "raw" THEN Mark(m[x - 1], x - 1) ELSE m[x - 1]
  IN  m[MOD]

(* Its second loop: what comes before the first hole can be read, what     *)
(* comes after it is thrown away.                                          *)
Pkaccept(k) ==
  LET n == Marked(k)
      there == {i \in 1..WINDOWS : n.is[Plus(n.pr, i)] \in {"mark", "copy"}}
      upto == {i \in there : 1..i \subseteq there}
      away == {Plus(n.pr, i) : i \in there \ upto}
      take == {Plus(n.pr, i) : i \in upto}
  IN  [n EXCEPT !.is = [x \in Numbers |-> IF x \in take THEN "copy" ELSE IF x \in away THEN "free" ELSE n.is[x]],
                !.ib = [x \in Numbers |-> IF x \in away THEN Nil ELSE n.ib[x]],
                !.pool = @ + Cardinality(away), !.rcount = Cardinality(take),
                !.msg = IF away = {} THEN @ ELSE @ \cup {"RR"}]

(* The end of pkread, which takes the first packet that can be read.       *)
Take(k) ==
  LET x == Nxt(k.pr)
  IN  Pkoutput([Free(k, x) EXCEPT !.pr = x, !.rcount = @ - 1, !.msg = @ \cup {"RR"}])

----------------------------------------------------------------------------
(* The new struct pack of e; what it puts out goes onto the line ln.       *)
Store(e, k, ln) ==
  /\ pk' = [pk EXCEPT ![e] = [k EXCEPT !.out = <<>>]]
  /\ line' = [ln EXCEPT ![Other(e)] = @ \o k.out]

Goto(e, l) == pc' = [pc EXCEPT ![e] = l]

(* pkopen.                                                                 *)
Open(e) ==
  /\ pc[e] = "closed" /\ Goto(e, "open")
  /\ Store(e, Pkoutput(pk[e]), line)
  /\ UNCHANGED <<role, left, tries, conbad, wrote, got, faults>>

(* uucico: one packet of a turn is done; the last one ends the turn.       *)
Turn(e) ==
  IF left[e] > 1 THEN left' = [left EXCEPT ![e] = @ - 1] /\ UNCHANGED role
  ELSE LET writer == IF role[e] = "writes" THEN Other(e) ELSE e
       IN  /\ role' = [role EXCEPT ![e] = IF @ = "writes" THEN "reads" ELSE "writes"]
           /\ left' = [left EXCEPT ![e] = Burst[writer]]

(* pkwrite of one packet.                                                  *)
CanWrite(k) == k.xcount < WINDOWS /\ k.os[Nxt(k.pscopy)] = "null"

Write(e) ==
  LET k == pk[e]
      x == Nxt(k.pscopy)
      n == (wrote[e] + 1) % PAYLOADS
  IN  /\ pc[e] = "idle" /\ role[e] = "writes" /\ CanWrite(k)
      /\ Store(e, Pkoutput([k EXCEPT !.os[x] = "ready", !.ob[x] = n, !.pscopy = x, !.xcount = @ + 1]), line)
      /\ wrote' = [wrote EXCEPT ![e] = n] /\ Turn(e)
      /\ UNCHANGED <<pc, tries, conbad, got, faults>>

(* The window is full: it pushes the next packet out and waits for input.  *)
WriteWait(e) ==
  /\ pc[e] = "idle" /\ role[e] = "writes" /\ ~CanWrite(pk[e])
  /\ Store(e, IF pk[e].xcount >= WINDOWS THEN Pkoutput(pk[e]) ELSE pk[e], line)
  /\ Goto(e, "write") /\ tries' = [tries EXCEPT ![e] = 0]
  /\ UNCHANGED <<role, left, conbad, wrote, got, faults>>

(* pkread of one packet, when what has come is k: it reads it, or waits.   *)
Read(e, k, ln) ==
  LET n == Pkaccept(k)
  IN  IF n.rcount > 0 THEN
        /\ got' = [got EXCEPT ![e] = n.ib[Nxt(n.pr)].data]
        /\ Store(e, Take(n), ln) /\ Goto(e, "idle") /\ Turn(e)
      ELSE Store(e, n, ln) /\ Goto(e, "read") /\ UNCHANGED <<got, role, left>>

StartRead(e) ==
  /\ pc[e] = "idle" /\ role[e] = "reads"
  /\ Read(e, pk[e], line)
  /\ tries' = [tries EXCEPT ![e] = 0]
  /\ UNCHANGED <<conbad, wrote, faults>>

----------------------------------------------------------------------------
(* pkgetpack returns to the caller that waits at l, with the packet that   *)
(* came or after a bad header.                                             *)
Waits(e) == pc[e] \in {"open", "write", "read"} /\ conbad[e] <= CONBAD

HasBuffer(e) == Head(line[e]).hdr /\ Head(line[e]).kind = "data" => pk[e].pool > 0

Get(e, l) ==
  /\ Waits(e) /\ pc[e] = l /\ line[e] # <<>> /\ HasBuffer(e)
  /\ conbad' = [conbad EXCEPT ![e] = IF Head(line[e]).hdr THEN 0 ELSE @ + 1]
  /\ tries' = [tries EXCEPT ![e] = 0]
  /\ UNCHANGED <<wrote, faults>>

Received(e) == Pkgetpack(pk[e], Head(line[e]))
Rest(e) == [line EXCEPT ![e] = Tail(@)]

(* pkopen is done when the connection is live; then pkreset.               *)
GetOpen(e) ==
  LET k == Received(e)
  IN  /\ Get(e, "open")
      /\ IF "LIVE" \in k.state
         THEN Store(e, [k EXCEPT !.ps = 0, !.pr = 0, !.rpr = 0, !.nxtps = 1], Rest(e)) /\ Goto(e, "idle")
         ELSE Store(e, k, Rest(e)) /\ UNCHANGED pc
      /\ UNCHANGED <<role, left, got>>

GetWrite(e) ==
  /\ Get(e, "write") /\ Goto(e, "idle")
  /\ Store(e, Received(e), Rest(e))
  /\ UNCHANGED <<role, left, got>>

GetRead(e) == Get(e, "read") /\ Read(e, Received(e), Rest(e))

(* pkfail: too many bad headers in a row.  A data packet for which there   *)
(* is no buffer ends the model of this end, too: pkgetpack uses the null   *)
(* pointer before it looks at it.                                          *)
Fail(e) ==
  /\ pc[e] \in {"open", "write", "read"}
  /\ conbad[e] > CONBAD \/ (line[e] # <<>> /\ ~HasBuffer(e))
  /\ Goto(e, "failed")
  /\ UNCHANGED <<pk, role, left, tries, conbad, line, wrote, got, faults>>

(* The alarm of pkcget: everything not acknowledged is sent again, from    *)
(* the first on.  The answer may be on its way.                            *)
Timeout(e) ==
  LET k == pk[e]
      m == k.msg \cup k.rmsg
  IN  /\ Waits(e) /\ Len(line[Other(e)]) < LINECAP
      /\ IF line[e] = <<>> THEN UNCHANGED faults ELSE faults < MaxFaults /\ faults' = faults + 1
      /\ Store(e, Pkoutput([k EXCEPT !.msg = IF m = {} THEN {"RR"} ELSE m,
                                     !.state = IF "LIVE" \in @ THEN @ \cup {"RXMIT"} ELSE @]), line)
      /\ tries' = [tries EXCEPT ![e] = @ + 1]
      /\ IF tries[e] + 1 >= GETRIES THEN Goto(e, "failed") ELSE UNCHANGED pc
      /\ UNCHANGED <<role, left, conbad, wrote, got>>

(* The line.                                                               *)
Fault == faults < MaxFaults /\ faults' = faults + 1
         /\ UNCHANGED <<pk, pc, role, left, tries, conbad, wrote, got>>

Lose(e, i) ==
  /\ i \in DOMAIN line[e] /\ line' = [line EXCEPT ![e] = RemoveAt(@, i)]
  /\ Fault

BadHeader(e, i) ==
  /\ i \in DOMAIN line[e] /\ line' = [line EXCEPT ![e][i].hdr = FALSE]
  /\ Fault

BadData(e, i) ==
  /\ i \in DOMAIN line[e] /\ line[e][i].kind = "data"
  /\ line' = [line EXCEPT ![e][i].ok = FALSE, ![e][i].data = (@ + 1) % PAYLOADS]
  /\ Fault

Next ==
  \E e \in Ends :
    \/ Open(e) \/ Write(e) \/ WriteWait(e) \/ StartRead(e)
    \/ GetOpen(e) \/ GetWrite(e) \/ GetRead(e) \/ Fail(e) \/ Timeout(e)
    \/ \E i \in 1..Len(line[e]) : Lose(e, i) \/ BadHeader(e, i) \/ BadData(e, i)

Spec == Init /\ [][Next]_vars

----------------------------------------------------------------------------
(* Every input buffer is in the pool or holds a packet, and every output   *)
(* buffer waits for its acknowledgement, whatever was dropped, repeated or *)
(* damaged: the counts pkclose checks at the end.                          *)
BuffersOK ==
  \A e \in Ends :
    LET k == pk[e]
    IN  /\ k.pool + Cardinality({x \in Numbers : k.is[x] # "free"}) = WINDOWS
        /\ k.xcount = Cardinality({x \in Numbers : k.os[x] # "null"}) /\ k.xcount <= WINDOWS
        /\ k.rcount = Cardinality({x \in Numbers : k.is[x] = "copy"})

(* The two ends agree on the window: the last number one has read lies     *)
(* between what the other knows to be acknowledged and what it has         *)
(* written, so that a number modulo MOD names one packet.                  *)
Aligned ==
  \A e \in Ends : pc[e] \notin {"closed", "open"} /\ pc[Other(e)] \notin {"closed", "open"} =>
     /\ Dist(pk[e].ps, pk[e].pscopy) = pk[e].xcount
     /\ Dist(pk[e].ps, pk[Other(e)].pr) <= pk[e].xcount

Wire == INSTANCE ReliableLine WITH sent <- wrote, received <- got

(* What is read at one end is what was written at the other, in order,     *)
(* each packet once.                                                       *)
ImplementsReliableLine == Wire!Spec
=============================================================================
