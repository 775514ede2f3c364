----------------------------- MODULE IoTManager -----------------------------
(***************************************************************************)
(* IoTManager.c as a whole: CounterStore and, beside it, the thread that   *)
(* serves one Modbus/TCP client at a time (ConnectPorcess, SocketPorcess,  *)
(* ParsingReceiveValue, CommandProcess).  It reads io while the main loop  *)
(* writes it, reads the table through the connection on which the main     *)
(* loop updates it, and writes commands on the serial line.                *)
(*                                                                         *)
(* The client is the environment; the iDCU driver is one.                  *)
(***************************************************************************)
EXTENDS CounterStore

CONSTANTS
    Kinds,          \* what clients ask for: "io", "count" (the iDCU driver asks
                    \* for these two), "clear"
    MaxToggles,     \* bound of the model: changes of inputs
    MaxRequests     \* bound of the model: requests of clients

ASSUME IoTManagerAssumption ==
    /\ Kinds \subseteq {"io", "count", "clear"}
    /\ MaxToggles \in Nat /\ MaxRequests \in Nat

VARIABLES
    toggles,    \* how much of MaxToggles was used
    tpc,        \* the server thread: "accept", "recv", "serve" or "crash"
    client,     \* its client and what became of it
    inbox,      \* requests not yet received
    batch,      \* requests in receiveBuffer, not yet handled
    cut,        \* the last request of batch is incomplete
    reply,      \* the last reply written
    requests,   \* how much of MaxRequests was used
    pipelined,  \* history: the client has had two requests under way at once
    sigpipe,    \* history: writing to the client ended the process
    readAt,     \* the input that getIOStatus reads next, Ports + 1 after the last
    bits,       \* the inputs it has read: SendBuffer[9]
    taken,      \* history: the counters of accepted frames and of the first table
    lastIn,     \* history: the inputs of the frame before the one in nodeIn
    frames,     \* history: the inputs of the frames that were in io, or on their way
                \* into it, since getIOStatus began to read
    cleared     \* history: the ports that stood cleared in io since then

netVars    == <<tpc, client, inbox, batch, cut, reply, requests, pipelined, sigpipe>>
pastVars   == <<toggles, taken, lastIn>>
readVars   == <<readAt, bits, frames, cleared>>
seenVars   == <<pastVars, readVars>>
vars       == <<storeVars, netVars, seenVars>>

Request ==
    [kind : Kinds \ {"clear"}] \union [kind : Kinds \intersect {"clear"}, port : Port]

\* "none": no client; "open": connected; "fin": the client has closed; "rst":
\* and its kernel has answered to what was written since; "gone": the host of
\* the client has vanished.
ClientValues == {"none", "open", "fin", "rst", "gone"}

NetInit ==
    /\ Init
    /\ tpc = "accept" /\ client = "none" /\ inbox = <<>> /\ batch = <<>> /\ cut = FALSE
    /\ reply = [kind |-> "none"] /\ requests = 0
    /\ pipelined = FALSE /\ sigpipe = FALSE
    /\ toggles = 0 /\ taken = {db} /\ lastIn = nodeIn
    /\ readAt = 1 /\ bits = [p \in Port |-> 0] /\ frames = {} /\ cleared = {}

-----------------------------------------------------------------------------
(* What matters to the board only with clients (external).                 *)

ToggleInput(p) ==
    /\ toggles < MaxToggles /\ toggles' = toggles + 1
    /\ input' = [input EXCEPT ![p] = 1 - @]
    /\ UNCHANGED <<count, asking, restarts, tally, lineVars, mainVars, dbVars, syncs,
                   causes, upsetVars, netVars, taken, lastIn, readVars>>

TakeClear ==
    /\ toBoard # <<>> /\ Head(toBoard).kind = "clear"
    /\ toBoard' = Tail(toBoard)
    /\ count' = [count EXCEPT ![Head(toBoard).port] = 0]
    /\ UNCHANGED <<input, asking, restarts, tally, toManager, mainVars, dbVars, syncs,
                   causes, upsetVars, netVars, seenVars>>

ClientsBoardStep == TakeClear \/ \E p \in Port : ToggleInput(p)

-----------------------------------------------------------------------------
(* The client (external).                                                  *)

ClientConnects ==
    /\ pc # "dead" /\ client = "none"
    /\ requests < MaxRequests
    /\ client' = "open" /\ tpc' = "recv"
    /\ pipelined' = FALSE /\ sigpipe' = FALSE
    /\ UNCHANGED <<storeVars, seenVars, inbox, batch, cut, reply, requests>>

ClientSends(r) ==
    /\ client = "open" /\ requests < MaxRequests
    /\ requests' = requests + 1
    /\ inbox' = Append(inbox, r)
    /\ pipelined' = (pipelined \/ inbox \o batch # <<>>)
    /\ UNCHANGED <<storeVars, seenVars, tpc, client, batch, cut, reply, sigpipe>>

ClientLeaves ==
    /\ client = "open"
    /\ client' \in {"fin", "gone"}
    /\ UNCHANGED <<storeVars, seenVars, tpc, inbox, batch, cut, reply, requests, pipelined,
                   sigpipe>>

ClientStep == ClientConnects \/ ClientLeaves \/ \E r \in Request : ClientSends(r)

-----------------------------------------------------------------------------
(* The server thread.                                                      *)

\* Mutant of Receive: the remainder begins with the last request once more.
ReceiveAgain ==
    /\ pc # "dead" /\ tpc = "recv" /\ inbox # <<>>
    /\ batch' = inbox /\ cut' = FALSE
    /\ inbox' = <<inbox[Len(inbox)]>> /\ tpc' = "serve"
    /\ UNCHANGED <<storeVars, seenVars, client, reply, requests, pipelined, sigpipe>>

\* recv() takes all that is there.  The last request may be incomplete: its length
\* has arrived, what it asks for is read from old bytes of the buffer.
Receive ==
    /\ pc # "dead" /\ tpc = "recv" /\ inbox # <<>>
    /\ \/ batch' = inbox /\ cut' = FALSE /\ UNCHANGED faults
       \/ /\ Fault
          /\ \E r \in Request : batch' = [inbox EXCEPT ![Len(inbox)] = r]
          /\ cut' = TRUE
    /\ inbox' = <<>> /\ tpc' = "serve"
    /\ UNCHANGED <<boardVars, lineVars, mainVars, dbVars, syncs, causes, crashes, seenVars,
                   client, reply, requests, pipelined, sigpipe>>

\* Mutant of Disconnect: only the end of the connection ends the loop.
DisconnectAtEndOnly ==
    /\ pc # "dead" /\ tpc = "recv" /\ inbox = <<>>
    /\ client \in {"fin", "rst"}
    /\ client' = "none" /\ tpc' = "accept"
    /\ UNCHANGED <<storeVars, seenVars, inbox, batch, cut, reply, requests, pipelined,
                   sigpipe>>

\* The end of the connection, or no request for twenty seconds: close(), then
\* socket(), bind(), listen() and accept() again.
Disconnect ==
    /\ pc # "dead" /\ tpc = "recv" /\ inbox = <<>>
    /\ client' = "none" /\ tpc' = "accept"
    /\ UNCHANGED <<storeVars, seenVars, inbox, batch, cut, reply, requests, pipelined,
                   sigpipe>>

\* CommandProcess is done with the first request of batch.
Handled ==
    /\ batch' = Tail(batch)
    /\ tpc' = IF Tail(batch) # <<>> THEN "serve" ELSE IF cut THEN "crash" ELSE "recv"
    /\ UNCHANGED <<inbox, cut, requests, pipelined, sigpipe>>

Serving(kind) == pc # "dead" /\ tpc = "serve" /\ Head(batch).kind = kind

\* write(client_sock), in vain when the client has left.
Write(r) ==
    /\ client # "rst"
    /\ reply' = r
    /\ client' \in IF client = "fin" THEN {"fin", "rst"} ELSE {client}
    /\ Handled
    /\ UNCHANGED <<storeVars, pastVars>>

\* What the main loop has in io, and the port it has cleared and not yet set.
Stored(step, last, new) == IF step \in {"ioclear", "ioset"} THEN {last, new} ELSE {new}
Blank(step, port)       == IF step = "ioset" THEN {port} ELSE {}

\* getIOStatus: one input, read while the main loop may be writing the inputs.
ReadIo ==
    /\ Serving("io") /\ readAt <= Ports
    /\ bits' = [bits EXCEPT ![readAt] = io[readAt]]
    /\ readAt' = readAt + 1
    /\ IF readAt = 1
       THEN frames' = Stored(pc, lastIn, nodeIn) /\ cleared' = Blank(pc, at)
       ELSE UNCHANGED <<frames, cleared>>
    /\ UNCHANGED <<storeVars, netVars, pastVars>>

StopReading == readAt' = 1 /\ bits' = [p \in Port |-> 0] /\ frames' = {} /\ cleared' = {}

\* getIOStatus, when it has them all.
ServeIo ==
    /\ Serving("io") /\ readAt > Ports
    /\ Write([kind |-> "io", value |-> bits])
    /\ StopReading

\* Mutant of ServeCount: the reply is built from memory.
ServeCountFromMemory ==
    Serving("count") /\ Write([kind |-> "count", value |-> pastData]) /\ UNCHANGED readVars

\* getCommStatus: the table through the connection that the main loop uses too,
\* within its transaction or not.
ServeCount ==
    Serving("count") /\ Write([kind |-> "count", value |-> view]) /\ UNCHANGED readVars

\* SELECT finds the database locked by another process: no reply.
SelectFails ==
    /\ Serving("count")
    /\ pc \notin {"update", "commit"}
    /\ Fault
    /\ Handled
    /\ UNCHANGED <<boardVars, lineVars, mainVars, dbVars, syncs, causes, crashes, seenVars,
                   client, reply>>

\* setCountClear: the command goes to the board; nothing is answered.
ServeClear ==
    /\ Serving("clear")
    /\ Len(toBoard) < LineCap
    /\ toBoard' = Append(toBoard, Clear(Head(batch).port))
    /\ Handled
    /\ UNCHANGED <<boardVars, toManager, mainVars, dbVars, syncs, causes, upsetVars,
                   seenVars, client, reply>>

\* The process ends and its connection with it.
NetDies ==
    /\ Die
    /\ client' = "none" /\ inbox' = <<>> /\ batch' = <<>> /\ tpc' = "accept"
    /\ StopReading
    /\ UNCHANGED <<pastVars, cut, reply, requests, pipelined>>

\* A second write() after the client has left: SIGPIPE, for which there is no
\* handler.
Sigpipe ==
    /\ (Serving("io") /\ readAt > Ports) \/ Serving("count")
    /\ client = "rst"
    /\ sigpipe' = TRUE
    /\ NetDies /\ UNCHANGED crashes

\* Behind an incomplete request the number of bytes left is negative: memcpy
\* ends the process.
ParseCrash ==
    /\ pc # "dead" /\ tpc = "crash"
    /\ NetDies /\ UNCHANGED <<crashes, sigpipe>>

ServerStep ==
    \/ Receive \/ Disconnect \/ ReadIo \/ ServeIo \/ ServeCount \/ SelectFails
    \/ ServeClear \/ Sigpipe \/ ParseCrash

-----------------------------------------------------------------------------

\* The history follows the frames that the main loop accepts.
NetStoreStep ==
    /\ StoreStep \/ Start
    /\ taken' = taken \union {node'}
    /\ lastIn' = IF pc = "parse" /\ pc' = "ioclear" THEN nodeIn ELSE lastIn
    /\ frames' = IF readAt = 1 THEN frames ELSE frames \union Stored(pc', lastIn', nodeIn')
    /\ cleared' = IF readAt = 1 THEN cleared ELSE cleared \union Blank(pc', at')
    /\ UNCHANGED <<netVars, toggles, readAt, bits>>

NetCrash ==
    /\ pc # "dead" /\ crashes < MaxCrashes /\ crashes' = crashes + 1
    /\ NetDies /\ UNCHANGED sigpipe

NetNext == NetStoreStep \/ ClientsBoardStep \/ ServerStep \/ ClientStep \/ NetCrash

NetSpec == NetInit /\ [][NetNext]_vars

\* The server thread is scheduled; like a thread_syncCount it finds room on the
\* line for a command in the end.
NetFairness ==
    Fairness /\ WF_vars(TakeClear) /\ WF_vars(ServerStep) /\ SF_vars(ServeClear)

NetFairSpec == NetSpec /\ NetFairness

-----------------------------------------------------------------------------
(* Properties.                                                             *)

\* All counters of a reply come from one frame of the board (or from the first
\* table): a reply is never a mixture of two frames, although the main loop
\* stores a frame port by port while the server thread runs.
WholeReplies == reply.kind = "count" => reply.value \in taken

\* getIOStatus and the main loop go through io at the same time, without a lock.
\* Each input of a reply is still one the board has sent, and no older than the
\* reading: it comes from a frame that was in io, or on its way into it, at some
\* moment of the reading.  The one exception is an input that the main loop stores
\* in that time: io[i] is set to 0 first, so a reply may show it as off though no
\* frame does.  (Together the inputs of a reply need not come from one frame.)
InputsReal ==
    [][ServeIo =>
        \A p \in Port :
            \/ \E f \in frames : reply'.value[p] = f[p]
            \/ p \in cleared /\ reply'.value[p] = 0]_vars

\* A client that waits for each answer never ends the process by leaving,
\* whenever it leaves; one that sends a request too early can.
OneRequestIsSafe == sigpipe => pipelined

\* The server thread comes back to accept() when a client has gone, with or
\* without a word.
NextClientServed == client \in {"fin", "rst", "gone"} ~> client = "none"
=============================================================================
