------------------------------ MODULE PipeFifo ------------------------------
(***************************************************************************)
(* What a pipe promises its users: a queue of bytes.  A write appends its  *)
(* bytes in pieces of at most PIPSIZ, each without interleaving; a read    *)
(* takes a prefix.  A read reports the end of the file only when the queue *)
(* is empty and no writer is left, a write fails with EPIPE only when no   *)
(* reader is left, and otherwise only a signal cuts a call short.          *)
(***************************************************************************)
EXTENDS Naturals, Sequences

CONSTANTS
  Procs, PIPSIZ, Msgs,
  Failing,  \* the file system that holds the bytes can fail
  Junk      \* a byte nobody wrote

VARIABLES
  queue,   \* bytes written and not yet read
  open,    \* the ends each process has open
  failed,  \* a piece of the write of a process has failed
  todo,    \* what is left to write of each process's write
  result   \* which process returned from a call last, and with what

Least(a, b) == IF a <= b THEN a ELSE b

NoneHas(e) == \A p \in Procs : e \notin open[p]

FInit ==
  /\ queue = <<>> /\ open = [p \in Procs |-> {}]
  /\ todo = [p \in Procs |-> <<>>] /\ result = <<>>
  /\ failed = [p \in Procs |-> FALSE]

(* Opening and closing; with the last end the bytes in the queue go, too.  *)
Ends ==
  /\ open' \in [Procs -> SUBSET {"r", "w"}] /\ open' # open
  /\ UNCHANGED <<queue, todo, failed, result>>

Discard ==
  /\ NoneHas("r") /\ NoneHas("w")
  /\ queue' = <<>> /\ UNCHANGED <<open, todo, failed, result>>

Begin(p, m) ==
  /\ todo[p] = <<>> /\ "w" \in open[p]
  /\ todo' = [todo EXCEPT ![p] = m]
  /\ UNCHANGED <<queue, open, failed, result>>

(* A piece of a write.  A piece that fails, and all that follow it in the  *)
(* same write, leave a prefix and some junk; the write returns an error.   *)
Put(p) ==
  LET k == Least(Len(todo[p]), PIPSIZ)
  IN  /\ k > 0
      /\ todo' = [todo EXCEPT ![p] = SubSeq(@, k + 1, Len(@))]
      /\ \/ ~failed[p] /\ queue' = queue \o SubSeq(todo[p], 1, k) /\ UNCHANGED failed
         \/ /\ Failing /\ failed' = [failed EXCEPT ![p] = TRUE]
            /\ \E j \in 0..k : \E n \in 0..(k - j) :
                 queue' = queue \o SubSeq(todo[p], 1, j) \o [i \in 1..n |-> Junk]
      /\ UNCHANGED <<open, result>>

Returns(p, r) ==
  /\ result' = <<p>> \o r /\ failed' = [failed EXCEPT ![p] = FALSE]
  /\ UNCHANGED open

Done(p) ==
  /\ todo[p] = <<>> /\ UNCHANGED <<queue, todo>>
  /\ Returns(p, IF failed[p] THEN <<"error">> ELSE <<"written">>)

Get(p) ==
  \E k \in 0..Len(queue) :
    /\ Returns(p, <<"read", SubSeq(queue, 1, k)>>)
    /\ queue' = SubSeq(queue, k + 1, Len(queue)) /\ UNCHANGED todo

GetFails(p) ==
  /\ Failing /\ Returns(p, <<"error">>)
  /\ \E k \in 0..Len(queue) : queue' = SubSeq(queue, k + 1, Len(queue))
  /\ UNCHANGED todo

Eof(p) ==
  /\ queue = <<>> /\ NoneHas("w")
  /\ Returns(p, <<"eof">>) /\ UNCHANGED <<queue, todo>>

Epipe(p) ==
  /\ NoneHas("r") /\ Returns(p, <<"EPIPE">>)
  /\ todo' = [todo EXCEPT ![p] = <<>>] /\ UNCHANGED queue

Interrupted(p) ==
  /\ Returns(p, <<"EINTR">>)
  /\ todo' = [todo EXCEPT ![p] = <<>>] /\ UNCHANGED queue

FNext ==
  \/ Ends \/ Discard
  \/ \E p \in Procs :
       \/ (\E m \in Msgs : Begin(p, m)) \/ Put(p) \/ Done(p) \/ Get(p) \/ GetFails(p)
       \/ Eof(p) \/ Epipe(p) \/ Interrupted(p)

FSpec == FInit /\ [][FNext]_<<queue, open, todo, failed, result>>
=============================================================================
