---------------------------- MODULE ReliableLine ----------------------------
(***************************************************************************)
(* What the packet driver of uucp promises: a line in each direction that  *)
(* delivers what is written to it, in order, once.  Packets are numbered,  *)
(* modulo PAYLOADS.                                                        *)
(***************************************************************************)
EXTENDS Naturals

CONSTANTS Ends, Other(_), PAYLOADS

VARIABLES sent, received   \* the last packet written, and read, at each end

Init == sent = [e \in Ends |-> 0] /\ received = [e \in Ends |-> 0]

Send(e) == sent' = [sent EXCEPT ![e] = (@ + 1) % PAYLOADS] /\ UNCHANGED received

Receive(e) ==
  /\ received[e] # sent[Other(e)]
  /\ received' = [received EXCEPT ![e] = (@ + 1) % PAYLOADS] /\ UNCHANGED sent

Next == \E e \in Ends : Send(e) \/ Receive(e)

Spec == Init /\ [][Next]_<<sent, received>>
=============================================================================
