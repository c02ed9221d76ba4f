------------------------------ MODULE MCPacket ------------------------------
(* Packet with turns that are longer than the window.                      *)
EXTENDS Packet

Four == [e \in Ends |-> 4]
ByNumber == <<"RJ", "RR", "INITC", "INITB", "INITA">>
=============================================================================
