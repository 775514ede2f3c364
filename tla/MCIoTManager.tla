---------------------------- MODULE MCIoTManager ----------------------------
(* IoTManager for TLC.                                                     *)
EXTENDS IoTManager

Zero == {[p \in Port |-> 0]}

\* One disturbance, of the inputs or by a fault.
OneDisturbance == toggles + faults <= 1

\* A fault (a damaged frame, a busy database, a restore that goes astray) without a
\* client or a death; these two may meet.
FaultAlone == faults = 0 \/ crashes + requests = 0
=============================================================================
