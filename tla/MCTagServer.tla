---------------------------- MODULE MCTagServer ----------------------------
(* TagServer for TLC: a message is known by its type alone.                *)
EXTENDS TagServer

\* Drivers post messages of type 1; ETRI_simulator.c and the tests next to it
\* also post other types.
Report     == [data_type |-> 1]
OtherType  == [data_type |-> 7]
MCMessage  == {Report, OtherType}
============================================================================
