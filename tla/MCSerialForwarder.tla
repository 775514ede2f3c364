-------------------------- MODULE MCSerialForwarder --------------------------
(* SerialForwarder for TLC, with two clients.                              *)
EXTENDS SerialForwarder

CONSTANTS c1, c2

TwoClients == {c1, c2}
OnePacket  == [c \in TwoClients |-> 1]
=============================================================================
