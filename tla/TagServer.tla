----------------------------- MODULE TagServer -----------------------------
(***************************************************************************)
(* The gateway's uplink process (tagServer.c with ETRI_Registration.c and  *)
(* the TCPClient / sender / receive functions of TCPSocket.c).  It         *)
(* registers the gateway with the middleware over TCP, then moves reports  *)
(* one at a time from the System V message queue with key 1 to the         *)
(* connection.                                                             *)
(*                                                                         *)
(* A report is known by its number: log is the history of all messages     *)
(* that msgsnd accepted and the queue holds indices of log.  The           *)
(* middleware and the network are the environment: the middleware answers  *)
(* every packet it reads, as ETRI_simulator.c does, and either may break   *)
(* the connection at any moment.                                           *)
(***************************************************************************)
EXTENDS Integers, Sequences

CONSTANTS
    Message,        \* the messages drivers may put on the queue
    QueueCap,       \* messages that fit in the queue (msg_qbytes)
    SockCap,        \* packets that fit in the connection before send() blocks
    Transducers,    \* rows of table transducerinfo
    FdLimit,        \* open descriptors the process may have (RLIMIT_NOFILE)
    MaxPosted,      \* bound of the model: messages posted
    MaxFaults       \* bound of the model: failures of network and middleware

ASSUME TagServerAssumption ==
    /\ \A m \in Message : m.data_type \in Nat \ {0}
    /\ QueueCap \in Nat \ {0}
    /\ SockCap \in Nat \ {0}
    /\ Transducers \in Nat \ {0}
    /\ FdLimit \in Nat
    /\ MaxPosted \in Nat
    /\ MaxFaults \in Nat

VARIABLES
    log,        \* history: every message msgsnd accepted
    queue,      \* the message queue: numbers (indices of log) not yet received
    pc,         \* where tagServer is
    booting,    \* init() was called by the start-up loop of main
    startTries, \* reTry of main
    regTries,   \* reTry of init()
    reg,        \* the registration packet being sent: 1..RegCount
    leaked,     \* database handles left open by failed registrations
    hand,       \* the message msgrcv returned and send() has not taken; 0: none
    conn,       \* the socket in variable tcp, and what became of it
    wire,       \* packets written to the connection, not yet read by the peer
    acks,       \* answers of the middleware not yet read by tagServer
    registered, \* registration packets the middleware read on this connection
    delivered,  \* history: the reports the middleware read, in order
    lost,       \* history: the reports that can no longer arrive
    faults      \* failures so far

serverVars == <<pc, booting, startTries, regTries, reg, leaked, hand>>
linkVars   == <<conn, wire, acks, registered, delivered, lost, faults>>
queueVars  == <<log, queue>>
vars       == <<queueVars, serverVars, linkVars>>

\* Packets 1, 2, 3 describe the gateway node, the PAN and the sensor node;
\* one packet for each transducer follows.
NodePackets == 1 .. 3
RegCount    == 3 + Transducers

RegPacket(r)    == [kind |-> "reg", n |-> r]
ReportPacket(m) == [kind |-> "report", n |-> m]
Packet == [kind : {"reg"}, n : 1 .. RegCount] \union [kind : {"report"}, n : Nat]

\* The reports among the packets of a connection.
Reports(w) == {w[i].n : i \in {j \in DOMAIN w : w[j].kind = "report"}}

PcValues == {"connect", "opendb", "regsend", "regwait", "poll", "dequeue",
             "report", "dead"}

\* "none": no socket; "up": both ends open; "fin": the peer closed, its reset
\* has not come back; "rst": the connection was reset.
ConnValues == {"none", "up", "fin", "rst"}

TypeOK ==
    /\ log \in Seq(Message)
    /\ queue \in Seq(Nat)
    /\ pc \in PcValues
    /\ booting \in BOOLEAN
    /\ startTries \in 0 .. 3
    /\ regTries \in 0 .. 3
    /\ reg \in 1 .. RegCount
    /\ leaked \in Nat
    /\ hand \in Nat
    /\ conn \in ConnValues
    /\ wire \in Seq(Packet)
    /\ acks \in Nat
    /\ registered \in SUBSET (1 .. RegCount)
    /\ delivered \in Seq(Nat)
    /\ lost \in SUBSET Nat
    /\ faults \in Nat

Init ==
    /\ log = <<>> /\ queue = <<>>
    /\ pc = "connect" /\ booting = TRUE
    /\ startTries = 3 /\ regTries = 3 /\ reg = 1
    /\ leaked = 0 /\ hand = 0
    /\ conn = "none" /\ wire = <<>> /\ acks = 0
    /\ registered = {} /\ delivered = <<>> /\ lost = {} /\ faults = 0

-----------------------------------------------------------------------------
(* init(): connect to the middleware and register.                         *)

\* Whenever init() is called it reads the address of the middleware and what it
\* registers from env.reg, a file taken to be there and never to change, and its
\* loop starts over with reTry = 3.
CallInit ==
    /\ pc' = "connect"
    /\ regTries' = 3

\* Mutant of InitFails: one try too many.
InitFailsOffByOne ==
    IF booting
    THEN /\ startTries' = startTries - 1
         /\ IF startTries > 0
            THEN CallInit
            ELSE pc' = "dead" /\ UNCHANGED regTries
    ELSE /\ pc' = "poll"
         /\ UNCHANGED <<startTries, regTries>>

\* Mutant of InitFails: the main loop waits for a connection at any price.
InitFailsAgain ==
    IF booting
    THEN /\ startTries' = startTries - 1
         /\ IF startTries > 1
            THEN CallInit
            ELSE pc' = "dead" /\ UNCHANGED regTries
    ELSE CallInit /\ UNCHANGED startTries

\* init() returns -1.  main tries three times at start-up and then exits; the
\* call in the main loop ignores the result.
InitFails ==
    IF booting
    THEN /\ startTries' = startTries - 1
         /\ IF startTries > 1
            THEN CallInit
            ELSE pc' = "dead" /\ UNCHANGED regTries
    ELSE /\ pc' = "poll"
         /\ UNCHANGED <<startTries, regTries>>

\* Mutant of Connect: a reconnection in the main loop does not register.
ConnectOnly ==
    /\ pc = "connect"
    /\ leaked + 1 <= FdLimit
    /\ conn' = "up"
    /\ wire' = <<>> /\ acks' = 0 /\ registered' = {}
    /\ pc' = IF booting THEN "opendb" ELSE "poll"
    /\ UNCHANGED <<queueVars, booting, startTries, regTries, reg, leaked, hand,
                   delivered, lost, faults>>

Connect ==
    /\ pc = "connect"
    /\ leaked + 1 <= FdLimit
    /\ conn' = "up"
    /\ wire' = <<>> /\ acks' = 0 /\ registered' = {}
    /\ pc' = "opendb"
    /\ UNCHANGED <<queueVars, booting, startTries, regTries, reg, leaked, hand,
                   delivered, lost, faults>>

\* connect() is refused or times out, or socket() finds no free descriptor.
ConnectFails ==
    /\ pc = "connect"
    /\ \/ leaked + 1 > FdLimit /\ UNCHANGED faults
       \/ faults < MaxFaults /\ faults' = faults + 1
    /\ InitFails
    /\ UNCHANGED <<queueVars, booting, reg, leaked, hand, conn, wire, acks,
                   registered, delivered, lost>>

\* ETRI_Registration returned -1: three attempts on one connection, then
\* close(tcp).  left are the numbers of answers that may remain unread.
AttemptFails(left) ==
    IF regTries > 1
    THEN /\ regTries' = regTries - 1
         /\ pc' = "opendb"
         /\ acks' \in left
         /\ UNCHANGED <<startTries, conn, wire>>
    ELSE /\ InitFails
         /\ conn' = "none" /\ wire' = <<>> /\ acks' = 0

\* Mutant of OpenDatabase: what sqlite3_open returns is not looked at.
OpenDatabaseUnchecked ==
    /\ pc = "opendb"
    /\ pc' = "regsend" /\ reg' = 1
    /\ UNCHANGED <<queueVars, booting, startTries, regTries, leaked, hand, linkVars>>

OpenDatabase ==
    /\ pc = "opendb"
    /\ leaked + 2 <= FdLimit
    /\ pc' = "regsend" /\ reg' = 1
    /\ UNCHANGED <<queueVars, booting, startTries, regTries, leaked, hand, linkVars>>

OpenDatabaseFails ==
    /\ pc = "opendb"
    /\ leaked + 2 > FdLimit
    /\ AttemptFails({acks})
    /\ UNCHANGED <<queueVars, booting, reg, leaked, hand, registered, delivered,
                   lost, faults>>

\* An error return between sqlite3_open and sqlite3_close: the handle is lost.
RegistrationFails(left) ==
    /\ leaked' = leaked + 1
    /\ AttemptFails(left)
    /\ UNCHANGED <<queueVars, booting, reg, hand, registered, delivered, lost>>

\* A packet written to a connection whose peer has closed vanishes; the reset
\* it provokes may or may not have come back.
VanishInto == conn' \in {"fin", "rst"} /\ UNCHANGED wire

\* sender(): send().
SendRegPacket ==
    /\ pc = "regsend"
    /\ \/ /\ conn = "up"
          /\ Len(wire) < SockCap
          /\ wire' = Append(wire, RegPacket(reg))
          /\ UNCHANGED conn
       \/ conn = "fin" /\ VanishInto
    /\ pc' = "regwait"
    /\ UNCHANGED <<queueVars, booting, startTries, regTries, reg, leaked, hand,
                   acks, registered, delivered, lost, faults>>

SendRegPacketFails ==
    /\ pc = "regsend"
    /\ conn = "rst"
    /\ RegistrationFails({acks})
    /\ UNCHANGED faults

\* recv() takes what has arrived, up to the size of its buffer.
Unread == IF acks = 0 THEN {0} ELSE 0 .. acks - 1

\* Transducer_Description_Registration found a row for every packet it owes.
NextPacket ==
    IF reg < RegCount
    THEN /\ pc' = "regsend" /\ reg' = reg + 1
         /\ UNCHANGED booting
    ELSE /\ pc' = "poll" /\ booting' = FALSE
         /\ UNCHANGED reg

\* sender(): receive() sees the socket readable within ten seconds.  Any
\* answer counts, and so does the end of the connection: when recv() returns
\* 0 or -1 the result of receive() is 0 all the same.
RegPacketAnswered ==
    /\ pc = "regwait"
    /\ acks > 0 \/ conn \in {"fin", "rst"}
    /\ acks' \in Unread
    /\ NextPacket
    /\ UNCHANGED <<queueVars, startTries, regTries, leaked, hand, conn, wire,
                   registered, delivered, lost, faults>>

\* The select on transducerinfo fails or returns no row: no transducer packet
\* is sent and the function returns its uninitialized rtrn, here a value
\* other than -1.
NoTransducerRows ==
    /\ pc = "regwait" /\ reg = 3
    /\ acks > 0 \/ conn \in {"fin", "rst"}
    /\ faults < MaxFaults /\ faults' = faults + 1
    /\ acks' \in Unread
    /\ pc' = "poll" /\ booting' = FALSE
    /\ UNCHANGED <<queueVars, startTries, regTries, reg, leaked, hand, conn, wire,
                   registered, delivered, lost>>

\* The same, the value being -1.
NoTransducerRowsFails ==
    /\ pc = "regwait" /\ reg = 3
    /\ acks > 0 \/ conn \in {"fin", "rst"}
    /\ faults < MaxFaults /\ faults' = faults + 1
    /\ RegistrationFails(Unread)

\* No answer within ten seconds.
RegPacketTimesOut ==
    /\ pc = "regwait"
    /\ acks = 0 /\ conn = "up"
    /\ faults < MaxFaults /\ faults' = faults + 1
    /\ RegistrationFails({0})

-----------------------------------------------------------------------------
(* The loop of main.                                                       *)

\* recv(tcp, MSG_DONTWAIT): the answers are thrown away; the end of the
\* connection goes unnoticed.
DiscardAnswers ==
    /\ pc = "poll"
    /\ acks' \in Unread
    /\ pc' = "dequeue"
    /\ UNCHANGED <<queueVars, booting, startTries, regTries, reg, leaked, hand, conn,
                   wire, registered, delivered, lost, faults>>

\* msgrcv(IPC_NOWAIT) finds the queue empty: sleep(1).
QueueEmpty ==
    /\ pc = "dequeue"
    /\ queue = <<>>
    /\ pc' = "poll"
    /\ UNCHANGED <<queueVars, booting, startTries, regTries, reg, leaked, hand, linkVars>>

\* msgrcv takes the oldest message; only messages of type 1 are sent on.
Dequeue ==
    /\ pc = "dequeue"
    /\ queue # <<>>
    /\ queue' = Tail(queue)
    /\ IF log[Head(queue)].data_type = 1
       THEN /\ pc' = "report" /\ hand' = Head(queue)
            /\ UNCHANGED lost
       ELSE /\ pc' = "poll" /\ lost' = lost \union {Head(queue)}
            /\ UNCHANGED hand
    /\ UNCHANGED <<log, booting, startTries, regTries, reg, leaked, conn, wire, acks,
                   registered, delivered, faults>>

\* Mutant of SendReport: the report stays in hand.
SendReportKeeps ==
    /\ pc = "report"
    /\ \/ /\ conn = "up"
          /\ Len(wire) < SockCap
          /\ wire' = Append(wire, ReportPacket(hand))
          /\ UNCHANGED <<conn, lost>>
       \/ /\ conn = "fin" /\ VanishInto
          /\ lost' = lost \union {hand}
    /\ pc' = "poll"
    /\ UNCHANGED <<queueVars, booting, startTries, regTries, reg, leaked, hand, acks,
                   registered, delivered, faults>>

\* send() takes the report.  On a connection the peer has closed it takes it
\* in vain.
SendReport ==
    /\ pc = "report"
    /\ \/ /\ conn = "up"
          /\ Len(wire) < SockCap
          /\ wire' = Append(wire, ReportPacket(hand))
          /\ UNCHANGED <<conn, lost>>
       \/ /\ conn = "fin" /\ VanishInto
          /\ lost' = lost \union {hand}
    /\ pc' = "poll" /\ hand' = 0
    /\ UNCHANGED <<queueVars, booting, startTries, regTries, reg, leaked, acks,
                   registered, delivered, faults>>

\* Mutant of SendReportFails: the report is put back on the queue.
SendReportFailsRequeues ==
    /\ pc = "report"
    /\ conn \in {"none", "rst"}
    /\ conn' = "none" /\ wire' = <<>> /\ acks' = 0
    /\ queue' = Append(queue, hand)
    /\ hand' = 0
    /\ CallInit
    /\ UNCHANGED <<log, booting, startTries, reg, leaked, registered, delivered, lost,
                   faults>>

\* send() returns -1: close(tcp), sleep(10), init().  The report in hand is
\* not sent again.
SendReportFails ==
    /\ pc = "report"
    /\ conn \in {"none", "rst"}
    /\ conn' = "none" /\ wire' = <<>> /\ acks' = 0
    /\ lost' = lost \union {hand}
    /\ hand' = 0
    /\ CallInit
    /\ UNCHANGED <<queueVars, booting, startTries, reg, leaked, registered, delivered,
                   faults>>

ServerStep ==
    \/ Connect \/ ConnectFails \/ OpenDatabase \/ OpenDatabaseFails
    \/ SendRegPacket \/ SendRegPacketFails
    \/ RegPacketAnswered \/ RegPacketTimesOut
    \/ NoTransducerRows \/ NoTransducerRowsFails
    \/ DiscardAnswers \/ QueueEmpty \/ Dequeue \/ SendReport \/ SendReportFails

-----------------------------------------------------------------------------
(* The middleware and the network (external).                              *)

\* The middleware reads a packet and answers it.
MiddlewareReads ==
    /\ conn = "up" /\ wire # <<>>
    /\ wire' = Tail(wire)
    /\ acks' = acks + 1
    /\ IF Head(wire).kind = "reg"
       THEN /\ registered' = registered \union {Head(wire).n}
            /\ UNCHANGED delivered
       ELSE /\ delivered' = Append(delivered, Head(wire).n)
            /\ UNCHANGED registered
    /\ UNCHANGED <<queueVars, serverVars, conn, lost, faults>>

\* The middleware closes the connection (state "fin") or the connection is
\* reset; what it has not read is lost.
ConnectionBreaks ==
    /\ conn = "up"
    /\ faults < MaxFaults /\ faults' = faults + 1
    /\ conn' \in {"fin", "rst"}
    /\ lost' = lost \union Reports(wire)
    /\ wire' = <<>>
    /\ UNCHANGED <<queueVars, serverVars, acks, registered, delivered>>

LinkStep == MiddlewareReads \/ ConnectionBreaks

\* A driver's msgsnd succeeds.
Post(m) ==
    /\ Len(queue) < QueueCap
    /\ log' = Append(log, m)
    /\ queue' = Append(queue, Len(log) + 1)
    /\ UNCHANGED <<serverVars, linkVars>>

Produce == \E m \in Message : Post(m)

Next == ServerStep \/ LinkStep \/ (Len(log) < MaxPosted /\ Produce)

Spec == Init /\ [][Next]_vars

\* The process runs as long as it has not given up, and the middleware reads
\* what is sent to it as long as the connection stands.
FairSpec == Spec /\ WF_vars(ServerStep) /\ WF_vars(MiddlewareReads)

-----------------------------------------------------------------------------
(* Properties.                                                             *)

\* The reports whose fate is open.
Numbers(s) == {s[i] : i \in DOMAIN s}
InHand     == {hand} \ {0}
Pending    == Numbers(queue) \union InHand \union Reports(wire)

\* Every message msgsnd accepted is in exactly one place: waiting, in hand, on
\* the wire, at the middleware or lost.  Nothing is forgotten without being
\* counted as lost, and nothing that was lost or delivered comes back.
EveryReportAccounted ==
    /\ 1 .. Len(log) = Pending \union Numbers(delivered) \union lost
    /\ Pending \intersect Numbers(delivered) = {}
    /\ (Pending \union Numbers(delivered)) \intersect lost = {}
    /\ Numbers(queue) \intersect (InHand \union Reports(wire)) = {}
    /\ InHand \intersect Reports(wire) = {}

\* The middleware reads each report at most once and in the order in which
\* the drivers put them on the queue, across all reconnections.
DeliveredInOrder ==
    \A i, j \in DOMAIN delivered : i < j => delivered[i] < delivered[j]

\* The middleware never reads a report on a connection on which it has not
\* read the descriptions of the gateway node, the PAN and the sensor node,
\* although sender() takes a closed connection for an answer and the result
\* of init() is ignored by the main loop.
RegisteredBeforeReport ==
    [][delivered' # delivered => NodePackets \subseteq registered]_vars

\* ETRI_Registration leaves its database handle open whenever it fails.  Once
\* such handles have used up the descriptors of the process while it has no
\* registered connection, it never has one again: every later report is lost.
CutOff == leaked + 2 > FdLimit /\ (conn = "none" \/ pc = "opendb")

CutOffForGood == [][CutOff => CutOff' /\ delivered' = delivered]_vars

\* Every message put on the queue is eventually delivered or lost: tagServer
\* never stops taking messages, however often it must reconnect, unless it
\* gave up at start-up.
EveryReportResolved ==
    \A m \in 1 .. MaxPosted :
        m <= Len(log) ~> \/ m \in Numbers(delivered) \union lost
                         \/ pc = "dead"

\* The queue, the process and the connection together behave as the channel
\* that ReportChannel specifies: at most once, in order, lossy.
Channel == INSTANCE ReportChannel WITH
               accepted <- Len(log),
               pending  <- Pending,
               handed   <- delivered

ImplementsChannel == Channel!ChannelSpec
============================================================================
