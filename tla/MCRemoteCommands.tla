------------------------- MODULE MCRemoteCommands -------------------------
(* RemoteCommands for TLC.                                                *)
EXTENDS RemoteCommands

Of(kind, node) == [kind |-> kind, node |-> node]

\* A command that takes the same steps in both processes is given to one.
MCAsk == [m2m   |-> {Of("delete", 1), Of("reboot", 0)}
                    \union {Of(kind, 0) : kind \in {"list", "status", "data"}},
          setup |-> {Of("change", 1), Of("list", 0), Of("time", 0)}]
===========================================================================
