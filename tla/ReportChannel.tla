--------------------------- MODULE ReportChannel ---------------------------
(***************************************************************************)
(* What the path from the device drivers to the middleware promises about  *)
(* the reports it was given, and all that it promises: every report is     *)
(* handed over at most once, in the order in which the reports were        *)
(* accepted, and any report may be lost on the way.  Reports are numbered  *)
(* 1, 2, ... in the order in which the message queue accepted them.        *)
(*                                                                         *)
(* This is the abstract specification that TagServer implements.           *)
(***************************************************************************)
EXTENDS Naturals, Sequences

VARIABLES
    accepted,   \* number of reports accepted so far
    pending,    \* the accepted reports whose fate is open
    handed      \* the reports the middleware got, in the order it got them

channelVars == <<accepted, pending, handed>>

ChannelInit ==
    /\ accepted = 0
    /\ pending = {}
    /\ handed = <<>>

\* A new report is accepted.
AcceptReport ==
    /\ accepted' = accepted + 1
    /\ pending' = pending \union {accepted + 1}
    /\ UNCHANGED handed

\* Some of the open reports are given up, for good.
LoseReports ==
    /\ \E gone \in (SUBSET pending) \ {{}} : pending' = pending \ gone
    /\ UNCHANGED <<accepted, handed>>

\* The oldest open report reaches the middleware.
HandOver ==
    \E r \in pending :
        /\ \A other \in pending : r <= other
        /\ pending' = pending \ {r}
        /\ handed' = Append(handed, r)
        /\ UNCHANGED accepted

ChannelNext == AcceptReport \/ LoseReports \/ HandOver

ChannelSpec == ChannelInit /\ [][ChannelNext]_channelVars
============================================================================
