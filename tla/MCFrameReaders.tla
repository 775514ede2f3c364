--------------------------- MODULE MCFrameReaders ---------------------------
(* FrameReaders for TLC, with all three programs.                          *)
EXTENDS FrameReaders

Programs == {"CommManager", "UartManager", "PLCS-12"}
=============================================================================
