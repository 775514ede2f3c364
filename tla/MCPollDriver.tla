---------------------------- MODULE MCPollDriver ---------------------------
(* PollDriver for TLC: every driver of CommunicationManager but iDCU_IoT.  *)
EXTENDS PollDriver

Drivers == {"PLCS10", "PLCS12ex", "GN1200", "unknown"}
============================================================================
