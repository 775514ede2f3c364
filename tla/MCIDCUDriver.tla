--------------------------- MODULE MCIDCUDriver ----------------------------
(* IDCUDriver for TLC.                                                     *)
EXTENDS IDCUDriver

CONSTANT d1

OneDevice == {d1}
============================================================================
