---------------------------- MODULE CounterStore ----------------------------
(***************************************************************************)
(* IoTManager.c without its network side: the process on the iDCU that     *)
(* polls the counter board over a serial line, keeps the counters in       *)
(* memory and in an SQLite table, and gives them back to a board that has  *)
(* restarted.                                                              *)
(*                                                                         *)
(* The threads are the main loop (pc), thread_main (SendPoll) and one      *)
(* thread_syncCount for each request of the board (syncs).  The board is   *)
(* the environment; what it does is taken from what the code expects.      *)
(***************************************************************************)
EXTENDS Integers, Sequences
Sq == INSTANCE SequencesExt

CONSTANTS
    Ports,          \* the board has counters 1 .. Ports (8 in the code)
    HalfRange,      \* a counter has 2 * HalfRange values; the upper half
                    \* stands for those with the top byte set
    LineCap,        \* frames a direction of the serial line holds
    ReadCap,        \* frames one read() returns at most
    BoardWaits,     \* a restarted board leaves every poll unanswered until it
                    \* has its counters back
    Garbage,        \* the counters that a damaged frame may show
    MaxTally,       \* bound of the model: units counted at a port
    MaxRestarts,    \* bound of the model: starts of the board
    MaxAsks,        \* bound of the model: requests of the board under way
    MaxCrashes,     \* bound of the model: deaths of the process
    MaxFaults       \* bound of the model: damaged frames, busy database

Port   == 1 .. Ports
Count  == 0 .. 2 * HalfRange - 1
Counts == [Port -> Count]
Inputs == [Port -> {0, 1}]

ASSUME CounterStoreAssumption ==
    /\ Ports \in Nat \ {0}
    /\ HalfRange \in Nat \ {0}
    /\ LineCap \in Nat \ {0} /\ ReadCap \in Nat \ {0}
    /\ BoardWaits \in BOOLEAN
    /\ Garbage \subseteq Counts
    /\ MaxTally \in 1 .. HalfRange - 1
    /\ MaxRestarts \in Nat \ {0}
    /\ {MaxAsks, MaxCrashes, MaxFaults} \subseteq Nat

VARIABLES
    count,      \* board: the counters
    input,      \* board: the inputs, which change in module IoTManager
    asking,     \* board: restarted and without its counters
    restarts,   \* board: how often it has started
    tally,      \* history: the units counted at each port, restarts or not
    toManager,  \* frames on the line or in the driver of the serial port
    toBoard,    \* commands on the line
    pc,         \* where the main loop is
    rx,         \* frames in receiveBuffer, not yet parsed
    behind,     \* Head(rx) is not at the beginning of receiveBuffer
    node,       \* counters of the frame being handled
    nodeIn,     \* inputs of the frame being handled
    at,         \* loop index i
    io,         \* inputs as the other threads see them
    pastData,   \* counters as the other threads see them
    db,         \* the table tb_comm_status, committed
    view,       \* the table as this process's connection sees it
    syncs,      \* the running thread_syncCount, in order of creation
    refused,    \* history: the last change of counters was not stored
    causes,     \* history: what may make a stored counter go back
    crashes,    \* how much of MaxCrashes was used
    faults      \* how much of MaxFaults was used

boardVars == <<count, input, asking, restarts, tally>>
lineVars  == <<toManager, toBoard>>
mainVars  == <<pc, rx, behind, node, nodeIn, at, io, pastData>>
dbVars    == <<db, view, refused>>
upsetVars == <<crashes, faults>>
storeVars == <<boardVars, lineVars, mainVars, dbVars, syncs, causes, upsetVars>>

\* Frames of the board.  A request carries, as history, the number of the
\* start of the board it belongs to.
DataFrame  == [kind |-> "data", cnt |-> count, in |-> input]
AskFrame   == [kind |-> "ask", epoch |-> restarts]
NoiseFrame == [kind |-> "noise"]
Frame == [kind : {"data"}, cnt : Counts, in : Inputs]
         \union [kind : {"ask"}, epoch : Nat] \union {NoiseFrame}

Poll          == [kind |-> "poll"]
Clear(p)      == [kind |-> "clear", port |-> p]
Restore(v, e) == [kind |-> "restore", cnt |-> v, epoch |-> e]
Command == {Poll} \union [kind : {"clear"}, port : Port]
           \union [kind : {"restore"}, cnt : Counts, epoch : Nat]

Causes   == {"bare", "late", "misread"}
PcValues == {"read", "parse", "ioclear", "ioset", "begin", "update", "commit",
             "store", "dead"}

TypeOK ==
    /\ count \in Counts /\ input \in Inputs /\ asking \in BOOLEAN
    /\ restarts \in 1 .. MaxRestarts /\ tally \in Counts
    /\ toManager \in Seq(Frame) /\ Len(toManager) <= LineCap
    /\ toBoard \in Seq(Command) /\ Len(toBoard) <= LineCap
    /\ pc \in PcValues
    /\ rx \in Seq(Frame) /\ Len(rx) <= ReadCap /\ behind \in BOOLEAN
    /\ node \in Counts /\ nodeIn \in Inputs /\ at \in Port
    /\ io \in Inputs /\ pastData \in Counts
    /\ db \in Counts /\ view \in Counts /\ refused \in BOOLEAN
    /\ syncs \in Seq([copied : BOOLEAN, cnt : Counts, epoch : Nat])
    /\ causes \subseteq Causes
    /\ crashes \in 0 .. MaxCrashes /\ faults \in 0 .. MaxFaults

\* IoTManager has just started on a table with the counts of earlier days; the
\* board has been switched on with it or has been running.
Init ==
    /\ asking \in BOOLEAN /\ restarts = 1
    /\ count = [p \in Port |-> IF asking THEN 0 ELSE 1] /\ input = [p \in Port |-> 0]
    /\ tally = [p \in Port |-> 1]
    /\ toManager = <<>> /\ toBoard = <<>>
    /\ pc = "read" /\ rx = <<>> /\ behind = FALSE
    /\ db = [p \in Port |-> 1] /\ view = db /\ node = db /\ pastData = db
    /\ nodeIn = [p \in Port |-> 0] /\ io = [p \in Port |-> 0] /\ at = 1
    /\ syncs = <<>> /\ refused = FALSE /\ causes = {}
    /\ crashes = 0 /\ faults = 0

Fault == faults < MaxFaults /\ faults' = faults + 1

-----------------------------------------------------------------------------
(* The board and the line (external).                                      *)

CountUnit(p) ==
    /\ ~asking /\ tally[p] < MaxTally
    /\ count' = [count EXCEPT ![p] = (@ + 1) % (2 * HalfRange)]
    /\ tally' = [tally EXCEPT ![p] = @ + 1]
    /\ UNCHANGED <<input, asking, restarts, lineVars, mainVars, dbVars, syncs,
                   causes, upsetVars>>

BoardRestarts ==
    /\ restarts < MaxRestarts /\ restarts' = restarts + 1
    /\ count' = [p \in Port |-> 0] /\ asking' = TRUE
    /\ toBoard' = <<>>
    /\ UNCHANGED <<input, tally, toManager, mainVars, dbVars, syncs, causes,
                   upsetVars>>

\* What does not fit in the driver of the serial port is lost.
Transmit(f) ==
    toManager' = IF Len(toManager) < LineCap THEN Append(toManager, f) ELSE toManager

UnderWay ==
    Len(syncs) + Len(SelectSeq(toManager \o rx, LAMBDA f : f.kind = "ask"))
               + Len(SelectSeq(toBoard, LAMBDA c : c.kind = "restore"))

\* The board asks for its counters, again and again until it has them.
BoardAsks ==
    /\ asking /\ UnderWay < MaxAsks /\ Len(toManager) < LineCap
    /\ Transmit(AskFrame)
    /\ UNCHANGED <<boardVars, toBoard, mainVars, dbVars, syncs, causes, upsetVars>>

\* An answer without the counters that were lost is the cause "bare".
AnswerPoll ==
    /\ toBoard # <<>> /\ Head(toBoard).kind = "poll"
    /\ toBoard' = Tail(toBoard)
    /\ \/ /\ asking => ~BoardWaits
          /\ Transmit(DataFrame)
          /\ causes' = IF asking THEN causes \union {"bare"} ELSE causes
       \/ asking /\ UNCHANGED <<toManager, causes>>
    /\ UNCHANGED <<boardVars, mainVars, dbVars, syncs, upsetVars>>

\* A restore that answers a request from before the last restart is the cause
\* "late".
TakeRestore ==
    /\ toBoard # <<>> /\ Head(toBoard).kind = "restore"
    /\ toBoard' = Tail(toBoard)
    /\ asking' = FALSE
    /\ IF asking
       THEN /\ count' = Head(toBoard).cnt
            /\ causes' = IF Head(toBoard).epoch # restarts THEN causes \union {"late"}
                                                           ELSE causes
       ELSE UNCHANGED <<count, causes>>
    /\ UNCHANGED <<input, restarts, tally, toManager, mainVars, dbVars, syncs,
                   upsetVars>>

DamageFrame ==
    /\ Fault
    /\ \E i \in DOMAIN toManager : toManager' = [toManager EXCEPT ![i] = NoiseFrame]
    /\ UNCHANGED <<boardVars, toBoard, mainVars, dbVars, syncs, causes, crashes>>

BoardStep ==
    \/ \E p \in Port : CountUnit(p)
    \/ BoardRestarts \/ BoardAsks \/ AnswerPoll \/ TakeRestore \/ DamageFrame

-----------------------------------------------------------------------------
(* The main loop: read() and uartParsingReceiveValue.                      *)

\* Mutant of ReadUart: the remainder is not moved to the front of the buffer.
ReadUartBehind ==
    /\ pc = "read"
    /\ \E n \in 1 .. Len(toManager) :
        /\ n <= ReadCap
        /\ rx' = SubSeq(toManager, 1, n)
        /\ toManager' = SubSeq(toManager, n + 1, Len(toManager))
    /\ behind' = TRUE
    /\ pc' = "parse"
    /\ UNCHANGED <<boardVars, toBoard, node, nodeIn, at, io, pastData, dbVars, syncs,
                   causes, upsetVars>>

\* A frame that has only partly arrived stays in front of the buffer; it counts
\* as not yet read.
ReadUart ==
    /\ pc = "read"
    /\ \E n \in 1 .. Len(toManager) :
        /\ n <= ReadCap
        /\ rx' = SubSeq(toManager, 1, n)
        /\ toManager' = SubSeq(toManager, n + 1, Len(toManager))
    /\ behind' = FALSE
    /\ pc' = "parse"
    /\ UNCHANGED <<boardVars, toBoard, node, nodeIn, at, io, pastData, dbVars, syncs,
                   causes, upsetVars>>

FrameDone(rest) ==
    /\ rx' = rest
    /\ behind' = (rest # <<>>)
    /\ pc' = IF rest = <<>> THEN "read" ELSE "parse"

\* _uartGetCheckSum is given the index in receiveBuffer instead of the length
\* of the frame.  Behind another frame it adds up, and compares with, what the
\* stack happens to hold: any frame may fail there and any may pass.
DropFrame ==
    /\ pc = "parse"
    /\ behind \/ Head(rx).kind = "noise"
    /\ FrameDone(Tail(rx))
    /\ UNCHANGED <<boardVars, lineVars, node, nodeIn, at, io, pastData, dbVars, syncs,
                   causes, upsetVars>>

Misread == Head(rx).kind = "noise" /\ behind

\* receiveEvent, case 1: CreateSync starts a thread.
TakeAsk ==
    /\ pc = "parse"
    /\ \/ /\ Head(rx).kind = "ask"
          /\ syncs' = Append(syncs, [copied |-> FALSE, cnt |-> pastData,
                                     epoch |-> Head(rx).epoch])
          /\ UNCHANGED causes
       \/ /\ Misread /\ UnderWay < MaxAsks
          /\ syncs' = Append(syncs, [copied |-> FALSE, cnt |-> pastData, epoch |-> 0])
          /\ causes' = causes \union {"misread"}
    /\ FrameDone(Tail(rx))
    /\ UNCHANGED <<boardVars, lineVars, node, nodeIn, at, io, pastData, dbVars, upsetVars>>

\* receiveEvent, default: the counters are decoded.
TakeData ==
    /\ pc = "parse"
    /\ \/ /\ Head(rx).kind = "data"
          /\ node' = Head(rx).cnt /\ nodeIn' = Head(rx).in
          /\ UNCHANGED causes
       \/ /\ Misread
          /\ node' \in Garbage /\ UNCHANGED nodeIn
          /\ causes' = causes \union {"misread"}
    /\ rx' = Tail(rx)
    /\ pc' = "ioclear" /\ at' = 1
    /\ UNCHANGED <<boardVars, lineVars, behind, io, pastData, dbVars, syncs, upsetVars>>

-----------------------------------------------------------------------------
(* receiveEvent, default, after the counters.                              *)

\* Mutant of Changed: changed is assigned for each port, the last one wins.
ChangedAtLast == pastData[Ports] # node[Ports]

Changed == pastData # node

\* The body of a loop over the ports, and where the loop leads.
Loop(next, end) ==
    IF at < Ports THEN at' = at + 1 /\ pc' = next
                  ELSE at' = 1 /\ pc' = end

\* io[i] = 0;
ClearIo ==
    /\ pc = "ioclear"
    /\ io' = [io EXCEPT ![at] = 0]
    /\ pc' = "ioset"
    /\ UNCHANGED <<boardVars, lineVars, rx, behind, node, nodeIn, at, pastData, dbVars,
                   syncs, causes, upsetVars>>

\* Mutant of SetIo: cntOffset stays where it is.
SetIoSameOffset ==
    /\ pc = "ioset"
    /\ io' = [io EXCEPT ![at] = nodeIn[1]]
    /\ Loop("ioclear", IF Changed THEN "begin" ELSE "store")
    /\ UNCHANGED <<boardVars, lineVars, rx, behind, node, nodeIn, pastData, dbVars, syncs,
                   causes, upsetVars>>

\* io[i] = buffer[cntOffset++];
SetIo ==
    /\ pc = "ioset"
    /\ io' = [io EXCEPT ![at] = nodeIn[at]]
    /\ Loop("ioclear", IF Changed THEN "begin" ELSE "store")
    /\ UNCHANGED <<boardVars, lineVars, rx, behind, node, nodeIn, pastData, dbVars, syncs,
                   causes, upsetVars>>

\* BEGIN EXCLUSIVE TRANSACTION fails when another process uses the database.
Begin ==
    /\ pc = "begin"
    /\ \/ pc' = "update" /\ UNCHANGED <<refused, faults>>
       \/ Fault /\ pc' = "store" /\ refused' = TRUE
    /\ UNCHANGED <<boardVars, lineVars, rx, behind, node, nodeIn, at, io, pastData, db, view,
                   syncs, causes, crashes>>

\* A failed UPDATE is only printed.
Update ==
    /\ pc = "update"
    /\ \/ view' = node /\ refused' = FALSE /\ UNCHANGED faults
       \/ Fault /\ refused' = TRUE /\ UNCHANGED view
    /\ pc' = "commit"
    /\ UNCHANGED <<boardVars, lineVars, rx, behind, node, nodeIn, at, io, pastData, db,
                   syncs, causes, crashes>>

Commit ==
    /\ pc = "commit"
    /\ db' = view
    /\ pc' = "store"
    /\ UNCHANGED <<boardVars, lineVars, rx, behind, node, nodeIn, at, io, pastData, view,
                   refused, syncs, causes, upsetVars>>

\* Mutant of StorePast: the loop starts one port too late.
StorePastButFirst ==
    /\ pc = "store"
    /\ pastData' = IF at = 1 THEN pastData ELSE [pastData EXCEPT ![at] = node[at]]
    /\ Loop("store", IF rx = <<>> THEN "read" ELSE "parse")
    /\ behind' = (rx # <<>>)
    /\ UNCHANGED <<boardVars, lineVars, rx, node, nodeIn, io, dbVars, syncs, causes,
                   upsetVars>>

\* pastData.cnt[i] = node.cnt[i];
StorePast ==
    /\ pc = "store"
    /\ pastData' = [pastData EXCEPT ![at] = node[at]]
    /\ Loop("store", IF rx = <<>> THEN "read" ELSE "parse")
    /\ behind' = (rx # <<>>)
    /\ UNCHANGED <<boardVars, lineVars, rx, node, nodeIn, io, dbVars, syncs, causes,
                   upsetVars>>

MainStep ==
    \/ ReadUart \/ DropFrame \/ TakeAsk \/ TakeData
    \/ ClearIo \/ SetIo \/ Begin \/ Update \/ Commit \/ StorePast

-----------------------------------------------------------------------------
(* The other threads.                                                      *)

\* thread_main: every 500 ms; write() blocks while the line is full.
SendPoll ==
    /\ pc # "dead"
    /\ Len(toBoard) < LineCap
    /\ toBoard' = Append(toBoard, Poll)
    /\ UNCHANGED <<boardVars, toManager, mainVars, dbVars, syncs, causes, upsetVars>>

\* thread_syncCount: memcpy of pastData.
CopyPast(i) ==
    /\ ~syncs[i].copied
    /\ syncs' = [syncs EXCEPT ![i].copied = TRUE, ![i].cnt = pastData]
    /\ UNCHANGED <<boardVars, lineVars, mainVars, dbVars, causes, upsetVars>>

\* The end mark 0xFF is put at length+3, over the top byte of the last counter.
Spoil(v) == [v EXCEPT ![Ports] = HalfRange + (@ % HalfRange)]

\* thread_syncCount: write().
SendRestore(i) ==
    /\ syncs[i].copied
    /\ Len(toBoard) < LineCap
    /\ toBoard' = Append(toBoard, Restore(Spoil(syncs[i].cnt), syncs[i].epoch))
    /\ syncs' = Sq!RemoveAt(syncs, i)
    /\ UNCHANGED <<boardVars, toManager, mainVars, dbVars, causes, upsetVars>>

\* The thread takes the descriptor from the stack frame of CreateSync, which has
\* returned: what is there by then may be another number, and the write goes
\* astray.
LoseRestore(i) ==
    /\ syncs[i].copied
    /\ Fault
    /\ syncs' = Sq!RemoveAt(syncs, i)
    /\ UNCHANGED <<boardVars, lineVars, mainVars, dbVars, causes, crashes>>

SyncStep == \E i \in DOMAIN syncs : CopyPast(i) \/ SendRestore(i) \/ LoseRestore(i)

\* The process ends, whatever the reason: an open transaction is rolled back.
Die ==
    /\ pc' = "dead"
    /\ view' = db /\ syncs' = <<>> /\ rx' = <<>> /\ behind' = FALSE
    /\ UNCHANGED <<boardVars, lineVars, node, nodeIn, at, io, pastData, db, refused, causes,
                   faults>>

Crash == pc # "dead" /\ crashes < MaxCrashes /\ crashes' = crashes + 1 /\ Die

\* Mutant of Start: init() does not fill pastData.
StartEmpty ==
    /\ pc = "dead"
    /\ pc' = "read"
    /\ toManager' = <<>>
    /\ node' = [p \in Port |-> 0] /\ pastData' = [p \in Port |-> 0]
    /\ nodeIn' = [p \in Port |-> 0] /\ io' = [p \in Port |-> 0] /\ at' = 1
    /\ refused' = FALSE
    /\ UNCHANGED <<boardVars, toBoard, rx, behind, db, view, syncs, causes, upsetVars>>

\* main up to its loop: OpenSerial flushes the line, init() takes the counters
\* from the table.  (When the table cannot be read the process ends at once and
\* stays dead.)
Start ==
    /\ pc = "dead"
    /\ pc' = "read"
    /\ toManager' = <<>>
    /\ node' = db /\ pastData' = db
    /\ nodeIn' = [p \in Port |-> 0] /\ io' = [p \in Port |-> 0] /\ at' = 1
    /\ refused' = FALSE
    /\ UNCHANGED <<boardVars, toBoard, rx, behind, db, view, syncs, causes, upsetVars>>

StoreStep == BoardStep \/ MainStep \/ SendPoll \/ SyncStep

Next == StoreStep \/ Crash \/ Start

Spec == Init /\ [][Next]_storeVars

\* The threads are scheduled, the board answers and repeats its request.  The
\* poll thread sleeps between two writes, so that a thread that waits to write
\* finds room on the line in the end: strong fairness.
Fairness ==
    /\ WF_storeVars(MainStep)
    /\ WF_storeVars(SendPoll)
    /\ SF_storeVars(SyncStep)
    /\ WF_storeVars(Start)
    /\ WF_storeVars(AnswerPoll \/ TakeRestore)
    /\ WF_storeVars(BoardAsks)

FairSpec == Spec /\ Fairness

-----------------------------------------------------------------------------
(* Properties.                                                             *)

\* The counters whose top byte survives a restore.
Sound == Port \ {Ports}

\* Between two reads the table holds what the process has in memory, unless
\* BEGIN or UPDATE failed at the last change; a later change of any counter
\* repairs the whole table.
StoredUnlessRefused == pc = "read" /\ ~refused => db = pastData

\* Unless a client clears it (module IoTManager), a stored counter goes back for
\* one of three reasons only: the board answered a poll before it had its
\* counters back, a restore came a restart too late, or a damaged frame was
\* accepted behind another one.  No order of polls, requests, threads, crashes
\* and busy databases makes it go back.
NeverGoesBack ==
    [][\A p \in Sound : db'[p] < db[p] => causes # {}]_storeVars

\* A restarted board is given at least what the table holds, and never more
\* than was counted.
RestoredBetween ==
    [][asking /\ ~asking' /\ causes' = {} =>
        \A p \in Sound : db[p] <= count'[p] /\ count'[p] <= tally[p]]_storeVars

\* A board that asks gets its counters, although its requests may be dropped
\* behind other frames and the process may end in between.
BoardServed == asking ~> ~asking

\* Counters that rest arrive in memory, although frames behind other frames
\* are accepted or dropped at random.
Known == pastData = count
CountersArrive == []<>(Known \/ asking)
=============================================================================
