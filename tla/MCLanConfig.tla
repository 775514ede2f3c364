--------------------------- MODULE MCLanConfig ---------------------------
(* LanConfig for TLC.                                                    *)
EXTENDS LanConfig

\* Address 1 is 2 with its bytes in the other order.
MCRev == [a \in Addr |-> CASE a = 0 -> 0 [] a = 1 -> 2 [] a = 2 -> 1]

Plain == [lanOn |-> TRUE, wlanOn |-> TRUE, lan |-> 1, wlan |-> 1, name |-> "net", mgmt |-> 0,
          group |-> 0, wep |-> [g \in {3, 4} |-> "blank"], psk |-> "blank"]

\* Open, WEP with a key of either length, WPA, fields that are full or blank,
\* and an interface that is off.
MCEntry ==
    {[Plain EXCEPT !.wlanOn = FALSE, !.lan = 2, !.name = "blank"],
     [Plain EXCEPT !.lanOn = FALSE, !.mgmt = 1, !.group = 3, !.wep[3] = "key"],
     [Plain EXCEPT !.mgmt = 1, !.group = 4, !.wep[4] = "key", !.name = "full"],
     [Plain EXCEPT !.mgmt = 2, !.psk = "word", !.wlan = 2],
     [Plain EXCEPT !.mgmt = 2, !.psk = "full", !.name = "full"]}
==========================================================================
