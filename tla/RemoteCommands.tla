--------------------------- MODULE RemoteCommands ---------------------------
(***************************************************************************)
(* Commands to the sensor network and the gateway.  Two processes take     *)
(* them: M2MManager.c from one TCP client at a time, SetupManager.c in UDP *)
(* datagrams.  Both answer, delete rows of tb_comm_status, and put         *)
(* commands on the message queues with keys 2222 (read by CommManager.c,   *)
(* or by UartManager.c) and 3333 (read by the radiopulse                   *)
(* RealTimeDataManager, which deletes rows too and restarts the gateway;   *)
(* the counters it writes are one more user of the database).              *)
(*                                                                         *)
(* The clients, the stream, other users of the database and the network    *)
(* are environment.  A command is sent in three parts: 1, 0xFE and the     *)
(* length, 2, the rest up to its last three bytes, and 3, those, with the  *)
(* node and 0xFF.  A read may end between any two.                         *)
(***************************************************************************)
EXTENDS Integers, Sequences, FiniteSets

CONSTANTS
    Node,           \* nodes with a row in tb_comm_status
    Manager,        \* the reader of queue 2222: "comm", "uart"
    Ask,            \* by front process, what its clients ask for
    QueueCap,       \* messages that fit in a queue (msg_qbytes)
    LineCap,        \* parts of commands on their way to M2MManager
    MaxCommands,    \* bound of the model: commands of clients
    MaxQueries,     \* bound of the model: how many of them only ask
    MaxFaults       \* bound of the model: processes that do not start, times
                    \* others lock the database

Front == {"m2m", "setup"}

\* Nodes are deleted, given another number and group, or rebooted, node 0
\* standing for the gateway and all nodes.  SetupManager knows no GETDATA.
Command == [kind : {"delete", "change"}, node : Node]
           \union [kind : {"reboot"}, node : Node \union {0}]
           \union [kind : {"list", "status", "data", "time"}, node : {0}]

ASSUME RemoteCommandsAssumption ==
    /\ Node \subseteq Nat \ {0} /\ Manager \subseteq {"comm", "uart"}
    /\ Ask \in [Front -> SUBSET Command]
    /\ \A ask \in Ask["setup"] : ask.kind \notin {"status", "data"}
    /\ QueueCap \in Nat \ {0} /\ LineCap \in Nat
    /\ {MaxCommands, MaxQueries, MaxFaults} \subseteq Nat

\* The calls of Pack_Manager for a command.
Calls(ask) ==
    CASE ask.kind = "delete" -> <<"event", "row">>
      [] ask.kind = "change" -> <<"node", "event", "row">>
      [] ask.kind = "reboot" -> IF ask.node # 0 THEN <<"node">> ELSE <<"node", "event">>
      [] OTHER               -> <<ask.kind>>

VARIABLES
    manager,    \* which process reads queue 2222
    udp,        \* the port of SetupManager: "bound", "exit"
    asked,      \* history: every command sent, and to which process
    client,     \* the client of M2MManager: "none", "open", "fin", "rst"
    line,       \* parts on the way to M2MManager, <<number of the command, part>>
    datagrams,  \* commands on the way to SetupManager
    pc,         \* M2MManager: "accept", "recv", "parse" or "dead"
    buf,        \* parts in its receiveBuffer
    kept,       \* how many of them the last call of the parser left
    at,         \* position in buf behind the last command taken, or 0
    garbled,    \* an incomplete command was taken: memcpy will fail
    todo,       \* calls that the processes have still to make, by process
    nodeQueue,  \* queue 2222
    eventQueue, \* queue 3333
    answering,  \* UartManager has a message of type 2 to put on queue 2222
    rtd,        \* RealTimeDataManager: "idle", "begin", "locked", "gone", when
                \* it reboots, or "ended", when it has not started
    job,        \* the node it deletes, or 0
    rows,       \* nodes with a row in tb_comm_status
    lock,       \* who has locked the database: "none", "rtd", "other"
    faults,     \* how much of MaxFaults was used
    radio,      \* history: the commands written to the network
    handled,    \* history: the commands taken by the front processes
    failed,     \* history: the calls of each command that came to nothing
    cut,        \* history: commands a read has cut
    pipelined,  \* history: a client did not wait for the end of its command
    unasked,    \* history: commands done for a node that was not meant
    boots       \* history: restarts of the gateway

clientVars == <<asked, client, line, datagrams, pipelined>>
parseVars  == <<pc, buf, kept, at, garbled, cut, unasked>>
queueVars  == <<nodeQueue, eventQueue>>
rtdVars    == <<rtd, job>>
dbVars     == <<rows, lock, faults>>
logVars    == <<radio, handled, failed>>
vars == <<manager, udp, clientVars, parseVars, todo, queueVars, answering, rtdVars, dbVars,
          logVars, boots>>

Part    == (1 .. MaxCommands) \X (1 .. 3)
Nothing == [id |-> 0, node |-> 0, calls |-> <<>>, good |-> TRUE]
Call    == {"node", "event", "row", "list", "status", "data", "time"}
Task    == [id : 0 .. MaxCommands, node : Node \union {0}, calls : Seq(Call), good : BOOLEAN]
Message == [id : 1 .. MaxCommands, node : Node \union {0}, good : BOOLEAN]
Answer  == [id |-> 0, node |-> 0, good |-> TRUE]

TypeOK ==
    /\ manager \in Manager /\ udp \in {"bound", "exit"}
    /\ asked \in Seq([front : Front, ask : Command]) /\ Len(asked) <= MaxCommands
    /\ client \in {"none", "open", "fin", "rst"}
    /\ line \in Seq(Part) /\ Len(line) <= LineCap
    /\ datagrams \in Seq(1 .. MaxCommands)
    /\ pc \in {"accept", "recv", "parse", "dead"}
    /\ buf \in Seq(Part) /\ kept \in 0 .. Len(buf) /\ at \in 0 .. Len(buf) + 1
    /\ garbled \in BOOLEAN
    /\ todo \in [Front -> Task]
    /\ nodeQueue \in Seq(Message \union {Answer}) /\ Len(nodeQueue) <= QueueCap
    /\ eventQueue \in Seq(Message) /\ Len(eventQueue) <= QueueCap
    /\ answering \in BOOLEAN
    /\ rtd \in {"idle", "begin", "locked", "gone", "ended"} /\ job \in Node \union {0}
    /\ rows \subseteq Node
    /\ lock \in {"none", "rtd", "other"} /\ (lock = "rtd" <=> rtd = "locked")
    /\ faults \in 0 .. MaxFaults
    /\ radio \in Seq(1 .. MaxCommands) /\ handled \in Seq(1 .. MaxCommands)
    /\ failed \in [1 .. MaxCommands -> SUBSET {"node", "event", "row"}]
    /\ cut \subseteq 1 .. MaxCommands /\ unasked \subseteq 1 .. MaxCommands
    /\ pipelined \in BOOLEAN /\ boots \in Nat

\* M2MManager, SetupManager and RealTimeDataManager end when they cannot open
\* the database, a queue or the port; nobody starts them again.
MainM2M(starts)    == IF starts THEN "accept" ELSE "dead"
UDPConnect(starts) == IF starts THEN "bound" ELSE "exit"
MainRtd(starts)    == IF starts THEN "idle" ELSE "ended"

\* Which of them may fail so when n of the faults have been used.
Failing(n) == {f \in SUBSET {"m2m", "setup", "rtd"} : n + Cardinality(f) <= MaxFaults}

Init ==
    /\ manager \in Manager
    /\ \E f \in Failing(0) :
        /\ pc = MainM2M("m2m" \notin f)
        /\ udp = UDPConnect("setup" \notin f)
        /\ rtd = MainRtd("rtd" \notin f)
        /\ faults = Cardinality(f)
    /\ asked = <<>> /\ client = "none" /\ line = <<>> /\ datagrams = <<>> /\ pipelined = FALSE
    /\ buf = <<>> /\ kept = 0 /\ at = 0 /\ garbled = FALSE
    /\ cut = {} /\ unasked = {}
    /\ todo = [f \in Front |-> Nothing]
    /\ nodeQueue = <<>> /\ eventQueue = <<>> /\ answering = FALSE
    /\ job = 0
    /\ rows = Node /\ lock = "none"
    /\ radio = <<>> /\ handled = <<>> /\ failed = [i \in 1 .. MaxCommands |-> {}]
    /\ boots = 0

Busy(f) == todo[f].calls # <<>>
Ids(parts) == {parts[i][1] : i \in DOMAIN parts}

-----------------------------------------------------------------------------
(* The clients (external).                                                 *)

Query(ask) == ask.kind \in {"list", "status", "data", "time"}

MayAsk(ask) ==
    /\ Len(asked) < MaxCommands
    /\ Query(ask) => Cardinality({i \in DOMAIN asked : Query(asked[i].ask)}) < MaxQueries

ClientSends(ask) ==
    /\ client = "open"
    /\ MayAsk(ask) /\ Len(line) + 3 <= LineCap
    /\ asked' = Append(asked, [front |-> "m2m", ask |-> ask])
    /\ line' = line \o [p \in 1 .. 3 |-> <<Len(asked) + 1, p>>]
    /\ pipelined' = (pipelined \/ line # <<>> \/ buf # <<>> \/ Busy("m2m"))
    /\ UNCHANGED <<manager, udp, client, datagrams, parseVars, todo, queueVars, answering,
                   rtdVars, dbVars, logVars, boots>>

ClientLeaves ==
    /\ client = "open"
    /\ client' = "fin"
    /\ UNCHANGED <<manager, udp, asked, line, datagrams, pipelined, parseVars, todo, queueVars,
                   answering, rtdVars, dbVars, logVars, boots>>

\* A datagram holds one command; one that is lost was never sent.
SendDatagram(ask) ==
    /\ udp = "bound" /\ rtd # "gone"
    /\ MayAsk(ask)
    /\ asked' = Append(asked, [front |-> "setup", ask |-> ask])
    /\ datagrams' = Append(datagrams, Len(asked) + 1)
    /\ UNCHANGED <<manager, udp, client, line, pipelined, parseVars, todo, queueVars, answering,
                   rtdVars, dbVars, logVars, boots>>

-----------------------------------------------------------------------------
(* M2MManager: Connect_Manager, Socket_Manager and ParsingReceiveValue.    *)

\* One client is served; the listening socket is closed until it has gone.
ClientConnects ==
    /\ pc = "accept"
    /\ client' = "open"
    /\ pc' = "recv"
    /\ buf' = <<>> /\ kept' = 0 /\ at' = 0
    /\ UNCHANGED <<manager, udp, asked, line, datagrams, pipelined, garbled, cut, unasked, todo,
                   queueVars, answering, rtdVars, dbVars, logVars, boots>>

\* Commands are a few bytes long: they never fill a read.
Receive ==
    /\ pc = "recv"
    /\ \E n \in 1 .. Len(line) :
        /\ buf' = buf \o SubSeq(line, 1, n)
        /\ line' = SubSeq(line, n + 1, Len(line))
        /\ cut' = IF line[n][2] = 3 THEN cut ELSE cut \union {line[n][1]}
    /\ at' = 0
    /\ pc' = "parse"
    /\ UNCHANGED <<manager, udp, asked, client, datagrams, pipelined, kept, garbled, unasked,
                   todo, queueVars, answering, rtdVars, dbVars, logVars, boots>>

\* recv returns 0 or -1, or select has waited for 20 s.
EndSession ==
    /\ pc = "recv"
    /\ line = <<>>
    /\ client' = "none"
    /\ pc' = "accept"
    /\ UNCHANGED <<manager, udp, asked, line, datagrams, pipelined, buf, kept, at, garbled, cut,
                   unasked, todo, queueVars, answering, rtdVars, dbVars, logVars, boots>>

\* Positions of beginnings of commands that the parser has not passed.
Headers == {j \in at + 1 .. Len(buf) : buf[j][2] = 1}
Whole   == {j \in Headers : j + 2 <= Len(buf)}
First(positions) == CHOOSE j \in positions : \A k \in positions : j <= k

\* The length handed on is the position in the buffer behind the command, so
\* it is right for a command at the beginning of the buffer only.
Packet(id, node, j) ==
    [id |-> id, node |-> node, good |-> j = 1,
     calls |-> Calls([kind |-> asked[id].ask.kind, node |-> node])]

\* Mutant of TakeCommand: nothing is looked for behind a command.
TakeCommandOnce ==
    /\ pc = "parse" /\ ~Busy("m2m")
    /\ Whole # {}
    /\ LET j  == First(Whole)
           id == buf[j][1] IN
       /\ todo' = [todo EXCEPT !["m2m"] = Packet(id, asked[id].ask.node, j)]
       /\ handled' = Append(handled, id)
    /\ at' = Len(buf)
    /\ UNCHANGED <<manager, udp, clientVars, pc, buf, kept, garbled, cut, unasked, queueVars,
                   answering, rtdVars, dbVars, radio, failed, boots>>

TakeCommand ==
    /\ pc = "parse" /\ ~Busy("m2m")
    /\ Whole # {}
    /\ LET j  == First(Whole)
           id == buf[j][1] IN
       /\ todo' = [todo EXCEPT !["m2m"] = Packet(id, asked[id].ask.node, j)]
       /\ handled' = Append(handled, id)
       /\ at' = j + 2
    /\ UNCHANGED <<manager, udp, clientVars, pc, buf, kept, garbled, cut, unasked, queueVars,
                   answering, rtdVars, dbVars, radio, failed, boots>>

\* The test of the length is three bytes too weak: a command without its last
\* part is taken when the memory behind it holds 0xFF in the right place, with
\* the node found there.
TakeCut ==
    /\ pc = "parse" /\ ~Busy("m2m")
    /\ Whole = {}
    /\ \E j \in Headers, node \in Node \union {0} :
        LET id == buf[j][1] IN
        /\ j + 1 = Len(buf)
        /\ asked[id].ask.kind \in {"delete", "change"} => node \in Node
        /\ todo' = [todo EXCEPT !["m2m"] = Packet(id, node, j)]
        /\ handled' = Append(handled, id)
        /\ at' = j + 2
        /\ unasked' = IF node = asked[id].ask.node THEN unasked ELSE unasked \union {id}
    /\ garbled' = TRUE
    /\ UNCHANGED <<manager, udp, clientVars, pc, buf, kept, cut, queueVars, answering, rtdVars,
                   dbVars, radio, failed, boots>>

\* Mutant of ParseEnds: all of the buffer is kept.
ParseEndsKeeps ==
    /\ pc = "parse" /\ ~Busy("m2m") /\ ~garbled
    /\ Whole = {}
    /\ kept' = Len(buf) /\ at' = 0
    /\ pc' = "recv"
    /\ UNCHANGED <<manager, udp, clientVars, buf, garbled, cut, unasked, todo, queueVars,
                   answering, rtdVars, dbVars, logVars, boots>>

\* What is behind the last command stays in the buffer; without a command in
\* it, what this read has brought.
ParseEnds ==
    /\ pc = "parse" /\ ~Busy("m2m") /\ ~garbled
    /\ Whole = {}
    /\ LET rest == SubSeq(buf, (IF at > 0 THEN at ELSE kept) + 1, Len(buf)) IN
       buf' = rest /\ kept' = Len(rest)
    /\ at' = 0
    /\ pc' = "recv"
    /\ UNCHANGED <<manager, udp, clientVars, garbled, cut, unasked, todo, queueVars, answering,
                   rtdVars, dbVars, logVars, boots>>

\* The end of M2MManager: its socket is closed, its other calls are not made.
Die ==
    /\ pc' = "dead" /\ client' = "none" /\ line' = <<>>
    /\ buf' = <<>> /\ kept' = 0 /\ at' = 0 /\ garbled' = FALSE
    /\ todo' = [todo EXCEPT !["m2m"] = Nothing]

\* For each client the port is opened anew, and closed when it has come.  A
\* socket or bind that fails ends the process.
ListenFails ==
    /\ pc = "accept" /\ ~Busy("m2m")
    /\ faults < MaxFaults /\ faults' = faults + 1
    /\ Die
    /\ UNCHANGED <<manager, udp, asked, datagrams, pipelined, cut, unasked, queueVars, answering,
                   rtdVars, rows, lock, logVars, boots>>

\* The size of the remainder is negative.
ParseCrashes ==
    /\ pc = "parse" /\ ~Busy("m2m") /\ garbled
    /\ Die
    /\ UNCHANGED <<manager, udp, asked, datagrams, pipelined, cut, unasked, queueVars, answering,
                   rtdVars, dbVars, logVars, boots>>

-----------------------------------------------------------------------------
(* SetupManager.                                                           *)

TakeDatagram ==
    /\ ~Busy("setup") /\ rtd # "gone"
    /\ datagrams # <<>>
    /\ LET id == Head(datagrams) IN
       /\ todo' = [todo EXCEPT !["setup"] = Packet(id, asked[id].ask.node, 1)]
       /\ handled' = Append(handled, id)
    /\ datagrams' = Tail(datagrams)
    /\ UNCHANGED <<manager, udp, asked, client, line, pipelined, parseVars, queueVars, answering,
                   rtdVars, dbVars, radio, failed, boots>>

-----------------------------------------------------------------------------
(* Pack_Manager of both, one call at a time.                               *)

Next1(f, call) ==
    /\ Busy(f) /\ Head(todo[f].calls) = call
    /\ todo' = [todo EXCEPT ![f].calls = Tail(@)]

Failure(f, call) == failed' = [failed EXCEPT ![todo[f].id] = @ \union {call}]
Sent(f) == [id |-> todo[f].id, node |-> todo[f].node, good |-> todo[f].good]

\* commandNodeConfig; whether the queue took the message is not looked at.
PutNode(f) ==
    /\ Next1(f, "node")
    /\ IF Len(nodeQueue) < QueueCap
       THEN /\ nodeQueue' = Append(nodeQueue, Sent(f))
            /\ IF todo[f].good THEN UNCHANGED failed ELSE Failure(f, "node")
       ELSE UNCHANGED nodeQueue /\ Failure(f, "node")
    /\ UNCHANGED <<manager, udp, clientVars, parseVars, eventQueue, answering, rtdVars, dbVars,
                   radio, handled, boots>>

\* commandM2MConfig.
PutEvent(f) ==
    /\ Next1(f, "event")
    /\ IF Len(eventQueue) < QueueCap
       THEN /\ eventQueue' = Append(eventQueue, Sent(f))
            /\ IF todo[f].good THEN UNCHANGED failed ELSE Failure(f, "event")
       ELSE UNCHANGED eventQueue /\ Failure(f, "event")
    /\ UNCHANGED <<manager, udp, clientVars, parseVars, nodeQueue, answering, rtdVars, dbVars,
                   radio, handled, boots>>

\* Given up when the database stays locked for a second.
Delete(f) ==
    /\ IF lock = "none"
       THEN rows' = rows \ {todo[f].node} /\ UNCHANGED failed
       ELSE UNCHANGED rows /\ Failure(f, "row")
    /\ UNCHANGED <<manager, udp, clientVars, parseVars, queueVars, answering, rtdVars, lock,
                   faults, radio, handled, boots>>

Asks(f, kind) == asked[todo[f].id].ask.kind = kind

\* commandDeleteNode, and nodeInfoupdate, which deletes too.
DeleteRow(f) == Next1(f, "row") /\ Asks(f, "delete") /\ Delete(f)
InfoUpdate(f) == Next1(f, "row") /\ Asks(f, "change") /\ Delete(f)

\* A reply of M2MManager: the first to a client that has left is answered with
\* a reset, the second ends the process.
Reply(call) ==
    /\ IF client = "rst"
       THEN /\ Busy("m2m") /\ Head(todo["m2m"].calls) = call
            /\ Die
       ELSE /\ Next1("m2m", call)
            /\ client' = IF client = "fin" THEN "rst" ELSE client
            /\ UNCHANGED <<line, pc, buf, kept, at, garbled>>
    /\ UNCHANGED <<manager, udp, asked, datagrams, pipelined, cut, unasked, queueVars, answering,
                   rtdVars, dbVars, logVars, boots>>

\* No reply, or a datagram, which cannot fail so.
Silent(f, call) ==
    /\ Next1(f, call)
    /\ UNCHANGED <<manager, udp, clientVars, parseVars, queueVars, answering, rtdVars, dbVars,
                   logVars, boots>>

\* The rows that getNodeInfo and el1000_sqlite3_select find: none when they fail.
NodeInfo == IF lock = "none" THEN rows ELSE {}
Selected == IF lock = "none" THEN rows ELSE {}

\* commandGetNodeInfo and getNodeStatusData say nothing when there is no row.
ReplyNodes ==
    \/ NodeInfo # {} /\ Reply("list")
    \/ NodeInfo = {} /\ Silent("m2m", "list")

ReplyStatus ==
    \/ Selected # {} /\ Reply("status")
    \/ Selected = {} /\ Silent("m2m", "status")

\* getNodeData and the time server write something in any case.
ReplyData == \E kind \in {"data", "time"} : Reply(kind)

\* The same functions of SetupManager.
SendNodes == Silent("setup", "list")
SendTime  == Silent("setup", "time")

PackStep ==
    \/ \E f \in Front : PutNode(f) \/ PutEvent(f) \/ DeleteRow(f) \/ InfoUpdate(f)
    \/ ReplyNodes \/ ReplyStatus \/ ReplyData
    \/ SendNodes \/ SendTime

-----------------------------------------------------------------------------
(* The reader of queue 2222.                                               *)

Commands == {k \in DOMAIN nodeQueue : nodeQueue[k] # Answer}
Without(queue, k) == SubSeq(queue, 1, k - 1) \o SubSeq(queue, k + 1, Len(queue))

\* Mutant of TakeNode: the size does not count 0xFE and the length byte.
TakeNodeShort ==
    /\ manager = "comm"
    /\ Commands # {}
    /\ nodeQueue' = Without(nodeQueue, First(Commands))
    /\ UNCHANGED <<manager, udp, clientVars, parseVars, todo, eventQueue, answering, rtdVars,
                   dbVars, logVars, boots>>

\* CommManager writes a command of the right length to the network.
TakeNode ==
    /\ manager = "comm"
    /\ Commands # {}
    /\ LET k == First(Commands) IN
       /\ radio' = IF nodeQueue[k].good THEN Append(radio, nodeQueue[k].id) ELSE radio
       /\ nodeQueue' = Without(nodeQueue, k)
    /\ UNCHANGED <<manager, udp, clientVars, parseVars, todo, eventQueue, answering, rtdVars,
                   dbVars, handled, failed, boots>>

\* Mutant of TakeForUart: messages of all types are received.
TakeAnyForUart ==
    /\ manager = "uart" /\ ~answering
    /\ nodeQueue # <<>>
    /\ answering' = (Head(nodeQueue) # Answer)
    /\ nodeQueue' = Tail(nodeQueue)
    /\ UNCHANGED <<manager, udp, clientVars, parseVars, todo, eventQueue, rtdVars, dbVars,
                   logVars, boots>>

\* UartManager answers with its counters instead; one of the wrong length is
\* answered or not, as the byte behind it happens to be.
TakeForUart ==
    /\ manager = "uart" /\ ~answering
    /\ Commands # {}
    /\ LET k == First(Commands) IN
       /\ answering' \in IF nodeQueue[k].good THEN {TRUE} ELSE BOOLEAN
       /\ nodeQueue' = Without(nodeQueue, k)
    /\ UNCHANGED <<manager, udp, clientVars, parseVars, todo, eventQueue, rtdVars, dbVars,
                   logVars, boots>>

\* Nobody receives messages of type 2.
PutAnswer ==
    /\ answering
    /\ answering' = FALSE
    /\ nodeQueue' = IF Len(nodeQueue) < QueueCap THEN Append(nodeQueue, Answer) ELSE nodeQueue
    /\ UNCHANGED <<manager, udp, clientVars, parseVars, todo, eventQueue, rtdVars, dbVars,
                   logVars, boots>>

-----------------------------------------------------------------------------
(* RealTimeDataManager, and the database.                                  *)

\* An event of the wrong length is dropped, one to reboot replaces the process
\* by /sbin/reboot, the others delete the row of a node.
TakeEvent ==
    /\ rtd = "idle"
    /\ eventQueue # <<>>
    /\ LET m == Head(eventQueue)
           reboots == asked[m.id].ask.kind = "reboot" IN
       /\ rtd' = IF ~m.good THEN "idle" ELSE IF reboots THEN "gone" ELSE "begin"
       /\ job' = IF m.good /\ ~reboots THEN m.node ELSE 0
    /\ eventQueue' = Tail(eventQueue)
    /\ UNCHANGED <<manager, udp, clientVars, parseVars, todo, nodeQueue, answering,
                   dbVars, logVars, boots>>

\* Mutant of Begin: a locked database is not tried again.
BeginOnce ==
    /\ rtd = "begin"
    /\ IF lock = "none" THEN rtd' = "locked" /\ lock' = "rtd" /\ UNCHANGED job
       ELSE rtd' = "idle" /\ job' = 0 /\ UNCHANGED lock
    /\ UNCHANGED <<manager, udp, clientVars, parseVars, todo, queueVars, answering, rows,
                   faults, logVars, boots>>

\* BEGIN EXCLUSIVE, tried until it succeeds.
Begin ==
    /\ rtd = "begin"
    /\ lock = "none"
    /\ rtd' = "locked" /\ lock' = "rtd"
    /\ UNCHANGED <<manager, udp, clientVars, parseVars, todo, queueVars, answering, job,
                   rows, faults, logVars, boots>>

\* The row is gone for others with END.
DeleteAndEnd ==
    /\ rtd = "locked"
    /\ rows' = rows \ {job}
    /\ rtd' = "idle" /\ job' = 0 /\ lock' = "none"
    /\ UNCHANGED <<manager, udp, clientVars, parseVars, todo, queueVars, answering, faults,
                   logVars, boots>>

\* Another process, or RealTimeDataManager for counters, locks the database
\* for more than a second, and unlocks it.
OtherLocks ==
    /\ lock = "none" /\ faults < MaxFaults
    /\ lock' = "other" /\ faults' = faults + 1
    /\ UNCHANGED <<manager, udp, clientVars, parseVars, todo, queueVars, answering, rtdVars, rows,
                   logVars, boots>>

OtherUnlocks ==
    /\ lock = "other"
    /\ lock' = "none"
    /\ UNCHANGED <<manager, udp, clientVars, parseVars, todo, queueVars, answering, rtdVars, rows,
                   faults, logVars, boots>>

\* The gateway restarts; what was in a queue or in a process is lost.
Restart ==
    /\ rtd = "gone"
    /\ client' = "none" /\ line' = <<>> /\ datagrams' = <<>>
    /\ \E f \in Failing(faults) :
        /\ pc' = MainM2M("m2m" \notin f)
        /\ udp' = UDPConnect("setup" \notin f)
        /\ rtd' = MainRtd("rtd" \notin f)
        /\ faults' = faults + Cardinality(f)
    /\ buf' = <<>> /\ kept' = 0 /\ at' = 0 /\ garbled' = FALSE
    /\ todo' = [f \in Front |-> Nothing]
    /\ nodeQueue' = <<>> /\ eventQueue' = <<>> /\ answering' = FALSE
    /\ job' = 0 /\ lock' = "none"
    /\ failed' = [i \in 1 .. MaxCommands |->
                    failed[i]
                    \union (IF \E k \in DOMAIN nodeQueue : nodeQueue[k].id = i THEN {"node"} ELSE {})
                    \union (IF \E k \in DOMAIN eventQueue : eventQueue[k].id = i THEN {"event"} ELSE {})
                    \union UNION {{"node", "event", "row"} \intersect
                                    {todo[f].calls[k] : k \in DOMAIN todo[f].calls} :
                                    f \in {g \in Front : todo[g].id = i}}]
    /\ boots' = boots + 1
    /\ UNCHANGED <<manager, asked, pipelined, cut, unasked, rows, radio, handled>>

-----------------------------------------------------------------------------
\* The steps of processes that have something to do.
Work ==
    \/ Receive \/ TakeCommand \/ TakeCut \/ ParseEnds \/ ParseCrashes
    \/ TakeDatagram
    \/ PackStep
    \/ TakeNode \/ TakeForUart \/ PutAnswer
    \/ TakeEvent \/ Begin \/ DeleteAndEnd
    \/ OtherUnlocks \/ Restart

Next ==
    \/ \E ask \in Ask["m2m"] : ClientSends(ask)
    \/ \E ask \in Ask["setup"] : SendDatagram(ask)
    \/ ClientConnects \/ ClientLeaves \/ EndSession \/ ListenFails
    \/ OtherLocks
    \/ Work

Spec == Init /\ [][Next]_vars

-----------------------------------------------------------------------------
(* Properties.                                                             *)

Done(i) == i \in {handled[k] : k \in DOMAIN handled} /\ \A f \in Front : todo[f].id # i \/ ~Busy(f)

\* A front process does each command it is sent at most once, and those of one
\* client in the order in which they were sent, however the stream was cut.
HandledOnceInOrder ==
    \A k, l \in DOMAIN handled :
        /\ handled[k] = handled[l] => k = l
        /\ k < l /\ asked[handled[k]].front = asked[handled[l]].front => handled[k] < handled[l]

\* Two processes delete the row of a node.  It stays only when M2MManager or
\* SetupManager found the database locked, and the event was refused by the
\* full queue, had the wrong length, was lost in a restart, or is to be done.
DeletedUnlessExplained ==
    \A i \in DOMAIN asked \ unasked :
        LET node == asked[i].ask.node IN
        Done(i) /\ asked[i].ask.kind \in {"delete", "change"} /\ node \in rows =>
            /\ "row" \in failed[i]
            /\ \/ "event" \in failed[i]
               \/ \E k \in DOMAIN eventQueue : eventQueue[k].node = node
               \/ job = node

\* A node is forgotten by the table but not told by the network only for one
\* of the same reasons; UartManager tells it nothing at all.
HeardUnlessExplained ==
    \A i \in DOMAIN asked \ unasked :
        Done(i) /\ asked[i].ask.kind \in {"change", "reboot"} /\ manager = "comm" =>
            \/ "node" \in failed[i]
            \/ i \in {radio[k] : k \in DOMAIN radio}
            \/ \E k \in DOMAIN nodeQueue : nodeQueue[k].id = i

\* Once queue 2222 is full of answers of UartManager, no command gets to the
\* network until the gateway restarts.
FullOfAnswers == Len(nodeQueue) = QueueCap /\ Commands = {}
MuteForGood == [][FullOfAnswers => FullOfAnswers' \/ boots' > boots]_vars

\* A command that has reached M2MManager is taken, whatever became of those
\* before it: when the parser has come to its end, none of which all parts
\* were read is left in the buffer, unless it came in pieces.
CommandsTaken ==
    pc = "recv" =>
        \A i \in DOMAIN asked \ Ids(line) :
            asked[i].front = "m2m" =>
                i \in cut \union {handled[k] : k \in DOMAIN handled} \/ boots > 0
=============================================================================
