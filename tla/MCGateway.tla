----------------------------- MODULE MCGateway ------------------------------
(* Gateway for TLC.                                                        *)
EXTENDS Gateway

CONSTANT d1

OneDevice == {d1}

\* The states a device can be in when its driver starts: with a counter that has
\* just begun, whose units are all reported behind a first baseline, and its input
\* on; and with one that comes to the sign change of its print-out, or wraps, with
\* the next unit, and its input off.
MCInit ==
    /\ GatewayInit
    /\ <<count[d1], wo[d1]>> \in {<<1, 1>>, <<2 * HalfRange - 1, 0>>}

MCFairSpec == MCInit /\ [][GatewayNext]_gatewayVars /\ GatewayFairness

\* One disturbance, of a device and its line or of the network.
OneDisturbance == upsets + faults <= 1
============================================================================
