------------------------------ MODULE Gateway -------------------------------
(***************************************************************************)
(* The reporting path of the gateway: the iDCU drivers (IDCUDriver) and    *)
(* tagServer (TagServer) as concurrent processes that share the System V   *)
(* message queue with key 1 and nothing else.                              *)
(***************************************************************************)
EXTENDS IDCUDriver, FiniteSetsExt

CONSTANTS SockCap, Transducers, FdLimit, MaxPosted, MaxFaults

ASSUME GatewayAssumption ==
    /\ {SockCap, Transducers} \subseteq Nat \ {0}
    /\ {FdLimit, MaxPosted, MaxFaults} \subseteq Nat

VARIABLES
    serverPc, booting, startTries, regTries, reg, leaked, hand, conn, wire,
    acks, registered, delivered, lost, faults     \* tagServer and its link

Server == INSTANCE TagServer WITH pc <- serverPc

serverVars  == <<serverPc, booting, startTries, regTries, reg, leaked, hand, conn,
                 wire, acks, registered, delivered, lost, faults>>
gatewayVars == <<queueVars, driverVars, serverVars>>

GatewayInit == Init /\ Server!Init

DriversStep ==
    /\ \E d \in Device : DeviceStep(d) \/ DriverStep(d)
    /\ UNCHANGED serverVars

ServerStep ==
    /\ Server!ServerStep \/ Server!LinkStep
    /\ UNCHANGED driverVars

GatewayNext == DriversStep \/ ServerStep

GatewaySpec == GatewayInit /\ [][GatewayNext]_gatewayVars

\* The fairness of the two parts, each process being scheduled on its own.
GatewayFairness ==
    /\ \A d \in Device :
        /\ WF_gatewayVars(OpenSession(d) /\ UNCHANGED serverVars)
        /\ WF_gatewayVars(Poll(d) /\ UNCHANGED serverVars)
        /\ WF_gatewayVars(Receive(d) /\ UNCHANGED serverVars)
        /\ WF_gatewayVars(ParseStep(d) /\ UNCHANGED serverVars)
    /\ WF_gatewayVars(Server!ServerStep /\ UNCHANGED driverVars)
    /\ WF_gatewayVars(Server!MiddlewareReads /\ UNCHANGED driverVars)

GatewayFairSpec == GatewaySpec /\ GatewayFairness

-----------------------------------------------------------------------------
(* What the middleware can know.                                           *)

\* The positions in delivered of the reports of device d of one kind.
Arrived(d, kind) ==
    {i \in DOMAIN delivered : LET m == log[delivered[i]] IN m.dev = d /\ m.kind = kind}

Arrival(i) == log[delivered[i]]

\* What the middleware is told for a device, over all the reports it reads.
Told(d, i) == IF i \in Arrived(d, "count") THEN Arrival(i).qty ELSE 0

TotalTold(d) ==
    LET sum[i \in 0 .. Len(delivered)] == IF i = 0 THEN 0 ELSE sum[i - 1] + Told(d, i)
    IN  sum[Len(delivered)]

\* The quantities the middleware receives for a device never add up to more
\* than the device made, whatever was reset, retried or reconnected, as long
\* as the driver took nothing but whole replies for replies.
MiddlewareNeverOvercounts == \A d \in Device : ~misled[d] => TotalTold(d) <= made[d]

\* The input bit the middleware was told last is the one the driver saw last,
\* if no report of it was refused or lost and none is under way.  (Otherwise
\* the middleware may stay wrong: the driver reports changes only.)
WoView(d) ==
    IF Arrived(d, "wo") = {} THEN 0 ELSE Arrival(Max(Arrived(d, "wo"))).total

WoViewCurrent ==
    \A d \in Device :
        /\ ~refusedWo[d]
        /\ \A m \in Server!Pending \union lost : ~(log[m].dev = d /\ log[m].kind = "wo")
        => WoView(d) = woPastData[d]

\* What the drivers do to the queue is what TagServer takes the drivers to do:
\* they put messages behind the others, one at a time, and only where there is
\* room.  So what holds of TagServer holds of the gateway.
ServerPart ==
    Server!Init
    /\ [][\/ Server!ServerStep \/ Server!LinkStep
          \/ \E i \in DOMAIN log' : Server!Post(log'[i])]_<<
            queueVars, serverVars>>

\* The total of the last count report is what the counter shows.
TotalArrived(d) ==
    /\ Arrived(d, "count") # {}
    /\ Arrival(Max(Arrived(d, "count"))).total % (2 * HalfRange) = count[d]

Disturbed(d) == faults > 0 \/ upsets > 0 \/ refusedQty[d] > 0 \/ refusedWo[d]

InStep(d) ==
    /\ count[d] = origin[d].count \/ TotalArrived(d)
    /\ WoView(d) = wo[d]

\* Without a fault, an upset or a refusal, the counter of a device at rest and the
\* state of its input reach the middleware: what changed while the driver was
\* busy, the queue full or tagServer still connecting is not forgotten.  Only a
\* counter that rests where the driver took its baseline, at the start, at zero
\* or after a wrap, is not reported.
ReachesMiddleware == \A d \in Device : <>[](Disturbed(d) \/ InStep(d))
============================================================================
