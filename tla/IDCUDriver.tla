----------------------------- MODULE IDCUDriver -----------------------------
(***************************************************************************)
(* The driver processes for iDCU controllers (driver/iDCU_IoT.c), one per  *)
(* device, forked by CommunicationManager.  A driver polls its device over *)
(* TCP, alternately for the input bits (Modbus function 2) and for the     *)
(* production counter (function 4), and puts a report on the System V      *)
(* message queue with key 1 when what it read differs from what it read    *)
(* before: the state of the work-order input ("wo", transducer 51), or the *)
(* counter (transducer 52) with the units counted since the last report    *)
(* (transducer 53).                                                        *)
(*                                                                         *)
(* The device, its TCP stream and the receiver of the queue are the        *)
(* environment.  A reply is a unit: the stream delivers whole replies,     *)
(* except that the last one of a read may be incomplete.  What the parser  *)
(* does inside a reply whose first byte it has stepped over is told by     *)
(* what such a reply may look like.                                        *)
(***************************************************************************)
EXTENDS Integers, Sequences

CONSTANTS
    Device,         \* the iDCU controllers of device_info.xml
    HalfRange,      \* the counter has 2 * HalfRange values (2^31 in the code)
    QueueCap,       \* messages that fit in the queue (msg_qbytes)
    ReplyCap,       \* replies the stream holds before the device stalls
    ReadCap,        \* replies that fill the receive buffer (BUFFER_SIZE)
    Lookalike,      \* counters may have bytes that look like a header (01 02)
    MaxMade,        \* bound of the model: units each device counts
    MaxUpsets       \* bound of the model: counter resets, changes of the
                    \* input, lost sessions, bad and incomplete replies, and
                    \* false headers among counters that are taken

ASSUME IDCUDriverAssumption ==
    /\ HalfRange \in Nat \ {0}
    /\ QueueCap \in Nat \ {0}
    /\ ReplyCap \in Nat \ {0}
    /\ ReadCap \in Nat \ {0}
    /\ Lookalike \in BOOLEAN
    /\ MaxMade \in Nat
    /\ MaxUpsets \in Nat

Count == 0 .. 2 * HalfRange - 1
Bit   == {0, 1}
None  == 2

VARIABLES
    log,        \* history: every message msgsnd accepted
    queue,      \* the message queue: numbers (indices of log) not yet received
    count,      \* device: the counter
    wo,         \* device: the work-order input
    made,       \* history: units the device has counted since the start
    upsets,     \* how much of MaxUpsets was used
    replies,    \* replies in the stream, not yet read by the driver
    pc,         \* where the driver is
    sendType,   \* what the sender thread asks for next; 0: bits, 1: counter
    stray,      \* the same of a sender thread of an earlier session, or None
    buf,        \* replies in receiveBuffer, not yet parsed
    cut,        \* the last reply of buf is incomplete
    place,      \* what of Head(buf) the parser looks at next: its first byte,
                \* its second byte, or some byte further inside it
    woPastData, cntPastData, preQty,
    seen,       \* history: made when the reply in preQty was produced
    origin,     \* history: preQty and seen of the last baseline
    queuedQty,  \* history: units in accepted reports since that baseline
    refusedQty, \* history: units in refused reports since that baseline
    refusedWo,  \* history: some report of the input was refused
    misled      \* history: something else than a reply was taken for one

queueVars  == <<log, queue>>
deviceVars == <<count, wo, made>>
tcpVars    == <<replies, sendType, stray, buf, cut, place>>
tagVars    == <<woPastData, cntPastData, preQty, seen, origin, queuedQty, refusedQty,
                refusedWo, misled>>
driverVars == <<deviceVars, upsets, pc, tcpVars, tagVars>>
vars       == <<queueVars, driverVars>>

\* mimic: 01 02, or a 01 at the end, is among the bytes of the counters.  Every
\* io reply has 01 02 among its bytes: 01 02 00 00 00 04 01 02 01 XX.
Reply == [kind : {"io", "count", "bad"}, value : Count \union Bit, at : Nat,
          mimic : BOOLEAN]

\* lo, hi: the report stands for the units lo + 1 .. hi of its device.
Message == [dev : Device, data_type : {1}, kind : {"wo", "count"}, total : Int,
            qty : Int, lo : Nat, hi : Nat]

TypeOK ==
    /\ log \in Seq(Message)
    /\ queue \in Seq(Nat)
    /\ count \in [Device -> Count]
    /\ wo \in [Device -> Bit]
    /\ made \in [Device -> Nat]
    /\ upsets \in Nat
    /\ replies \in [Device -> Seq(Reply)]
    /\ pc \in [Device -> {"closed", "recv", "parse", "dead"}]
    /\ sendType \in [Device -> Bit]
    /\ stray \in [Device -> Bit \union {None}]
    /\ buf \in [Device -> Seq(Reply)]
    /\ cut \in [Device -> BOOLEAN]
    /\ place \in [Device -> {"front", "second", "inside"}]
    /\ woPastData \in [Device -> Bit]
    /\ cntPastData \in [Device -> Count]
    /\ preQty \in [Device -> Count]
    /\ seen \in [Device -> Nat]
    /\ origin \in [Device -> [count : Count, made : Nat]]
    /\ queuedQty \in [Device -> Nat]
    /\ refusedQty \in [Device -> Nat]
    /\ refusedWo \in [Device -> BOOLEAN]
    /\ misled \in [Device -> BOOLEAN]

\* A driver starts while its device may already have counted.
Init ==
    /\ log = <<>> /\ queue = <<>>
    /\ count \in [Device -> Count] /\ wo \in [Device -> Bit]
    /\ made = [d \in Device |-> 0]
    /\ upsets = 0
    /\ replies = [d \in Device |-> <<>>]
    /\ pc = [d \in Device |-> "closed"]
    /\ sendType = [d \in Device |-> 0]
    /\ stray = [d \in Device |-> None]
    /\ buf = [d \in Device |-> <<>>]
    /\ cut = [d \in Device |-> FALSE] /\ place = [d \in Device |-> "front"]
    /\ woPastData = [d \in Device |-> 0]
    /\ cntPastData = [d \in Device |-> 0] /\ preQty = [d \in Device |-> 0]
    /\ seen = [d \in Device |-> 0]
    /\ origin = [d \in Device |-> [count |-> 0, made |-> 0]]
    /\ queuedQty = [d \in Device |-> 0] /\ refusedQty = [d \in Device |-> 0]
    /\ refusedWo = [d \in Device |-> FALSE] /\ misled = [d \in Device |-> FALSE]

Upset == upsets < MaxUpsets /\ upsets' = upsets + 1

-----------------------------------------------------------------------------
(* The device (external; for an iDCU controlled by IoTManager.c, what its  *)
(* getIOStatus and getCommStatus answer).                                  *)

CountUnit(d) ==
    /\ made[d] < MaxMade
    /\ count' = [count EXCEPT ![d] = (@ + 1) % (2 * HalfRange)]
    /\ made' = [made EXCEPT ![d] = @ + 1]
    /\ UNCHANGED <<queueVars, wo, upsets, pc, tcpVars, tagVars>>

\* The counter is cleared, or the device restarts with an older value.
ResetCounter(d) ==
    /\ Upset
    /\ \E c \in 0 .. count[d] - 1 : count' = [count EXCEPT ![d] = c]
    /\ UNCHANGED <<queueVars, wo, made, pc, tcpVars, tagVars>>

ToggleWo(d) ==
    /\ Upset
    /\ wo' = [wo EXCEPT ![d] = 1 - @]
    /\ UNCHANGED <<queueVars, count, made, pc, tcpVars, tagVars>>

-----------------------------------------------------------------------------
(* The session: main loop of iDCU_IoT, sender thread, receiving loop.      *)

\* TCPClient succeeds: a new sender thread; the local buffers start empty.
OpenSession(d) ==
    /\ pc[d] = "closed"
    /\ pc' = [pc EXCEPT ![d] = "recv"]
    /\ sendType' = [sendType EXCEPT ![d] = 0]
    /\ UNCHANGED <<queueVars, deviceVars, upsets, replies, stray, buf, cut, place, tagVars>>

\* select times out, or recv returns 0 or -1: close, sleep(2).  The stream and
\* the local buffers are gone.  The sender thread ends with the failure of a send,
\* unless it sleeps until the number of its descriptor stands for a connection
\* again: then it goes on, beside the thread of that session.
CloseSession(d) ==
    /\ pc[d] = "recv"
    /\ Upset
    /\ pc' = [pc EXCEPT ![d] = "closed"]
    /\ replies' = [replies EXCEPT ![d] = <<>>]
    /\ buf' = [buf EXCEPT ![d] = <<>>]
    /\ cut' = [cut EXCEPT ![d] = FALSE] /\ place' = [place EXCEPT ![d] = "front"]
    /\ \E t \in {sendType[d], stray[d], None} : stray' = [stray EXCEPT ![d] = t]
    /\ UNCHANGED <<queueVars, deviceVars, sendType, tagVars>>

Answers(d, type) ==
    IF type = 0
    THEN {[kind |-> "io", value |-> wo[d], at |-> made[d], mimic |-> FALSE]}
    ELSE [kind : {"count"}, value : {count[d]}, at : {made[d]}, mimic : {FALSE, Lookalike}]

\* Mutant of Poll: sendType stays as it is.
PollBitsOnly(d) ==
    /\ pc[d] \in {"recv", "parse"}
    /\ Len(replies[d]) < ReplyCap
    /\ \E r \in Answers(d, sendType[d]) : replies' = [replies EXCEPT ![d] = Append(@, r)]
    /\ UNCHANGED <<queueVars, deviceVars, upsets, pc, sendType, stray, buf, cut, place, tagVars>>

\* thread_main sends the next request and the device answers it, or answers
\* with something whose length bytes do not fit, such as an exception.
Poll(d) ==
    /\ pc[d] \in {"recv", "parse"}
    /\ Len(replies[d]) < ReplyCap
    /\ sendType' = [sendType EXCEPT ![d] = 1 - @]
    /\ \E r \in Answers(d, sendType[d]) :
        \/ replies' = [replies EXCEPT ![d] = Append(@, r)] /\ UNCHANGED upsets
        \/ replies' = [replies EXCEPT ![d] = Append(@, [r EXCEPT !.kind = "bad"])] /\ Upset
    /\ UNCHANGED <<queueVars, deviceVars, pc, stray, buf, cut, place, tagVars>>

\* The thread of an earlier session sends its next request on this connection.
StrayPoll(d) ==
    /\ pc[d] \in {"recv", "parse"} /\ stray[d] # None
    /\ Len(replies[d]) < ReplyCap
    /\ stray' = [stray EXCEPT ![d] = 1 - @]
    /\ \E r \in Answers(d, stray[d]) : replies' = [replies EXCEPT ![d] = Append(@, r)]
    /\ UNCHANGED <<queueVars, deviceVars, upsets, pc, sendType, buf, cut, place, tagVars>>

\* recv returns what has arrived, here n replies, possibly less the end of the
\* last one (a reply of which one byte has come counts as not arrived).  The
\* missing end of an earlier reply comes first, and may be cut again.
Receive(d) ==
    /\ pc[d] = "recv"
    /\ \E n \in 0 .. Len(replies[d]), incomplete \in BOOLEAN :
        /\ n < ReadCap
        /\ n > 0 \/ cut[d]
        /\ IF incomplete THEN Upset ELSE UNCHANGED upsets
        /\ buf' = [buf EXCEPT ![d] = @ \o SubSeq(replies[d], 1, n)]
        /\ replies' = [replies EXCEPT ![d] = SubSeq(@, n + 1, Len(@))]
        /\ cut' = [cut EXCEPT ![d] = incomplete]
    /\ pc' = [pc EXCEPT ![d] = "parse"]
    /\ UNCHANGED <<queueVars, deviceVars, sendType, stray, place, tagVars>>

\* recv fills the buffer: the whole read is thrown away.
ReceiveTooMuch(d) ==
    /\ pc[d] = "recv"
    /\ ~cut[d]
    /\ Len(replies[d]) >= ReadCap
    /\ replies' = [replies EXCEPT ![d] = SubSeq(@, ReadCap + 1, Len(@))]
    /\ UNCHANGED <<queueVars, deviceVars, upsets, pc, sendType, stray, buf, cut, place, tagVars>>

-----------------------------------------------------------------------------
(* selectTag_iDCU_IoT                                                      *)

\* Mutant of Offer: nobody looks whether the queue has room.
OfferUnbounded(m) == log' = Append(log, m) /\ queue' = Append(queue, Len(log) + 1)

\* msgsnd with IPC_NOWAIT.
Offer(m) ==
    IF Len(queue) < QueueCap
    THEN log' = Append(log, m) /\ queue' = Append(queue, Len(log) + 1)
    ELSE UNCHANGED queueVars

\* sprintf "%ld" of a 32-bit unsigned number.
Printed(n) == IF n >= HalfRange THEN n - 2 * HalfRange ELSE n

\* Mutant of SelectIo: woPastData is assigned before the comparison.
SelectIoTooLate(d, bit) ==
    /\ woPastData' = [woPastData EXCEPT ![d] = bit]
    /\ UNCHANGED <<queueVars, cntPastData, preQty, seen, origin, queuedQty, refusedQty,
                   refusedWo>>

\* Type 2: the report is queued when the input differs from the last reply.
SelectIo(d, bit) ==
    /\ IF woPastData[d] # bit
       THEN /\ Offer([dev |-> d, data_type |-> 1, kind |-> "wo", total |-> bit, qty |-> 0,
                      lo |-> 0, hi |-> 0])
            /\ refusedWo' = [refusedWo EXCEPT ![d] = @ \/ Len(queue) >= QueueCap]
       ELSE UNCHANGED <<queueVars, refusedWo>>
    /\ woPastData' = [woPastData EXCEPT ![d] = bit]
    /\ UNCHANGED <<cntPastData, preQty, seen, origin, queuedQty, refusedQty>>

\* Mutant of SelectBaseline: a counter that went back is taken to have started
\* again at zero.
SelectBaselineFromZero(d, c, at) ==
    \/ /\ preQty[d] = 0
       /\ origin' = [origin EXCEPT ![d] = [count |-> c, made |-> at]]
       /\ queuedQty' = [queuedQty EXCEPT ![d] = 0]
       /\ refusedQty' = [refusedQty EXCEPT ![d] = 0]
       /\ UNCHANGED queueVars
    \/ /\ preQty[d] > c
       /\ Offer([dev |-> d, data_type |-> 1, kind |-> "count", total |-> Printed(c),
                 qty |-> Printed(c), lo |-> seen[d], hi |-> at])
       /\ UNCHANGED <<origin, queuedQty, refusedQty>>

\* Type 4, no baseline or the counter went back: break before the report.
SelectBaseline(d, c, at) ==
    /\ preQty[d] = 0 \/ preQty[d] > c
    /\ origin' = [origin EXCEPT ![d] = [count |-> c, made |-> at]]
    /\ queuedQty' = [queuedQty EXCEPT ![d] = 0]
    /\ refusedQty' = [refusedQty EXCEPT ![d] = 0]
    /\ UNCHANGED queueVars

\* Type 4: the report is queued when the counter differs from the last reply.
\* Whether msgsnd takes it or not, preQty moves on.
SelectQty(d, c, at) ==
    LET qty == c - preQty[d] IN
    /\ preQty[d] # 0 /\ preQty[d] <= c
    /\ IF cntPastData[d] # c
       THEN /\ Offer([dev |-> d, data_type |-> 1, kind |-> "count", total |-> Printed(c),
                      qty |-> Printed(qty), lo |-> seen[d], hi |-> at])
            /\ IF Len(queue) < QueueCap
               THEN queuedQty' = [queuedQty EXCEPT ![d] = @ + qty] /\ UNCHANGED refusedQty
               ELSE refusedQty' = [refusedQty EXCEPT ![d] = @ + qty] /\ UNCHANGED queuedQty
       ELSE UNCHANGED <<queueVars, queuedQty, refusedQty>>
    /\ UNCHANGED origin

\* Mutant of SelectCount: preQty stays at the baseline.
SelectCountKeepsBase(d, c, at) ==
    /\ \/ /\ SelectBaseline(d, c, at)
          /\ preQty' = [preQty EXCEPT ![d] = c] /\ seen' = [seen EXCEPT ![d] = at]
       \/ /\ SelectQty(d, c, at)
          /\ UNCHANGED <<preQty, seen>>
    /\ cntPastData' = [cntPastData EXCEPT ![d] = c]
    /\ UNCHANGED <<woPastData, refusedWo>>

\* Mutant of SelectCount: cntPastData is assigned before the comparison, so that
\* no report of the counter is made.
SelectCountTooLate(d, c, at) ==
    /\ \/ SelectBaseline(d, c, at)
       \/ /\ preQty[d] # 0 /\ preQty[d] <= c
          /\ UNCHANGED <<queueVars, origin, queuedQty, refusedQty>>
    /\ cntPastData' = [cntPastData EXCEPT ![d] = c]
    /\ preQty' = [preQty EXCEPT ![d] = c]
    /\ seen' = [seen EXCEPT ![d] = at]
    /\ UNCHANGED <<woPastData, refusedWo>>

SelectCount(d, c, at) ==
    /\ SelectBaseline(d, c, at) \/ SelectQty(d, c, at)
    /\ cntPastData' = [cntPastData EXCEPT ![d] = c]
    /\ preQty' = [preQty EXCEPT ![d] = c]
    /\ seen' = [seen EXCEPT ![d] = at]
    /\ UNCHANGED <<woPastData, refusedWo>>

SelectTag(d, kind, value, at) ==
    \/ kind = "io" /\ SelectIo(d, value)
    \/ kind = "count" /\ SelectCount(d, value, at)
    \/ kind \notin {"io", "count"}
       /\ UNCHANGED <<queueVars, woPastData, cntPastData, preQty, seen, origin, queuedQty,
                      refusedQty, refusedWo>>

-----------------------------------------------------------------------------
(* ParsingReceiveValue_iDCU_IoT, one reply at a time.  The parser looks for *)
(* the two bytes of a header, 01 02, at every index it comes to.           *)

LastIncomplete(d) == cut[d] /\ Len(buf[d]) = 1

\* What selectTag gets when bytes that are no reply are taken for one.
Garbage ==
    [kind : {"io"}, value : Bit] \union [kind : {"count"}, value : Count]
        \union [kind : {"other"}, value : {0}]

\* A reply the parser looks at from its first byte is taken; then the index
\* is one too far, so that the header of the reply behind it goes unseen.
ParseReply(d) ==
    /\ pc[d] = "parse" /\ place[d] = "front" /\ buf[d] # <<>> /\ ~LastIncomplete(d)
    /\ Head(buf[d]).kind # "bad"
    /\ SelectTag(d, Head(buf[d]).kind, Head(buf[d]).value, Head(buf[d]).at)
    /\ buf' = [buf EXCEPT ![d] = Tail(@)]
    /\ place' = [place EXCEPT ![d] = "second"]
    /\ UNCHANGED <<deviceVars, upsets, pc, replies, sendType, stray, cut, misled>>

\* Length bytes that do not fit: return 0, and all that has arrived is dropped.
\* The missing end of an incomplete reply will come all the same.
DropAll(d) ==
    /\ buf' = [buf EXCEPT ![d] = IF cut[d] THEN <<@[Len(@)]>> ELSE <<>>]
    /\ place' = [place EXCEPT ![d] = IF cut[d] THEN "inside" ELSE "front"]
    /\ pc' = [pc EXCEPT ![d] = "recv"]
    /\ UNCHANGED <<queueVars, deviceVars, upsets, replies, sendType, stray, cut, tagVars>>

\* The length bytes of an incomplete reply are old bytes of the buffer.
RejectBuffer(d) ==
    /\ pc[d] = "parse" /\ place[d] = "front" /\ buf[d] # <<>>
    /\ LastIncomplete(d) \/ Head(buf[d]).kind = "bad"
    /\ DropAll(d)

\* The length bytes of an incomplete reply fit: it is taken with old bytes of
\* the buffer for those that are missing, the size of the remainder becomes
\* negative, and memcpy kills the process.  Nobody restarts it.
ParseIncomplete(d) ==
    /\ pc[d] = "parse" /\ place[d] = "front" /\ LastIncomplete(d)
    /\ \E g \in Garbage :
        /\ SelectTag(d, g.kind, g.value, Head(buf[d]).at)
        /\ misled' = [misled EXCEPT
             ![d] = @ \/ g # [kind |-> Head(buf[d]).kind, value |-> Head(buf[d]).value]]
    /\ pc' = [pc EXCEPT ![d] = "dead"]
    /\ UNCHANGED <<deviceVars, upsets, tcpVars>>

\* A whole io reply of which the parser looks at the second byte next: it comes
\* to the 01 02 at bytes 6 and 7.
ShowsHeader(d) == place[d] = "second" /\ Head(buf[d]).kind = "io" /\ ~LastIncomplete(d)

\* The parser may come to 01 02 before the end of Head(buf): its own bytes, or a
\* 01 at the end of all that has arrived and an old byte behind it.
MayShowHeader(d) ==
    buf[d] # <<>> /\ (Head(buf[d]).kind = "io" \/ Head(buf[d]).mimic \/ LastIncomplete(d))

\* The reply whose header went unseen lies before the next one found: lost.
MissReply(d) ==
    /\ pc[d] = "parse" /\ place[d] # "front" /\ Len(buf[d]) > 1 /\ ~ShowsHeader(d)
    /\ buf' = [buf EXCEPT ![d] = Tail(@)]
    /\ place' = [place EXCEPT ![d] = "front"]
    /\ UNCHANGED <<queueVars, deviceVars, upsets, pc, replies, sendType, stray, cut, tagVars>>

\* What looks like a header inside Head(buf) has length bytes that do not fit:
\* not only that reply is lost, but everything behind it as well.
RejectFalseHeader(d) ==
    /\ pc[d] = "parse" /\ place[d] # "front" /\ MayShowHeader(d)
    /\ DropAll(d)

\* What looks like a header has length bytes that fit.  Those of an io reply lie
\* in the next reply, and fit only if they are old bytes behind the last one;
\* then, as in ParseIncomplete, the process dies.  Among the bytes of counters
\* anything may follow, and the index goes to anything behind.
TakeFalseHeader(d) ==
    /\ pc[d] = "parse" /\ place[d] # "front" /\ MayShowHeader(d)
    /\ Head(buf[d]).mimic \/ Len(buf[d]) = 1
    /\ \E g \in Garbage : SelectTag(d, g.kind, g.value, Head(buf[d]).at)
    /\ misled' = [misled EXCEPT ![d] = TRUE]
    /\ \/ pc' = [pc EXCEPT ![d] = "dead"] /\ UNCHANGED <<upsets, buf, place>>
       \/ /\ Head(buf[d]).mimic
          /\ Upset
          /\ \E n \in 0 .. Len(buf[d]), p \in {"front", "second", "inside"} :
              /\ n = 0 => p = "inside"
              /\ cut[d] => n < Len(buf[d])
              /\ buf' = [buf EXCEPT ![d] = SubSeq(@, n + 1, Len(@))]
              /\ place' = [place EXCEPT ![d] = p]
          /\ UNCHANGED pc
    /\ UNCHANGED <<deviceVars, replies, sendType, stray, cut>>

\* What lies behind the last reply taken, at most one reply, is kept.
ParseEnds(d) ==
    /\ pc[d] = "parse"
    /\ buf[d] = <<>> \/ (place[d] # "front" /\ Len(buf[d]) = 1 /\ ~ShowsHeader(d))
    /\ place' = [place EXCEPT ![d] = IF @ = "inside" /\ buf[d] # <<>> THEN @ ELSE "front"]
    /\ pc' = [pc EXCEPT ![d] = "recv"]
    /\ UNCHANGED <<queueVars, deviceVars, upsets, replies, sendType, stray, buf, cut, tagVars>>

DeviceStep(d) == CountUnit(d) \/ ResetCounter(d) \/ ToggleWo(d)

ParseStep(d) ==
    \/ ParseReply(d) \/ RejectBuffer(d) \/ ParseIncomplete(d) \/ MissReply(d)
    \/ RejectFalseHeader(d) \/ TakeFalseHeader(d) \/ ParseEnds(d)

DriverStep(d) ==
    \/ OpenSession(d) \/ CloseSession(d) \/ Poll(d) \/ StrayPoll(d)
    \/ Receive(d) \/ ReceiveTooMuch(d) \/ ParseStep(d)

\* tagServer takes a message (external here, TagServer.tla).
Consume ==
    /\ queue # <<>>
    /\ queue' = Tail(queue)
    /\ UNCHANGED <<log, driverVars>>

Next == (\E d \in Device : DeviceStep(d) \/ DriverStep(d)) \/ Consume

Spec == Init /\ [][Next]_vars

\* The forked processes run, the device answers, and the driver reads often
\* enough not to have its receive buffer filled.
FairSpec ==
    Spec /\ \A d \in Device :
        /\ WF_vars(OpenSession(d)) /\ WF_vars(Poll(d))
        /\ WF_vars(Receive(d)) /\ WF_vars(ParseStep(d))

-----------------------------------------------------------------------------
(* Properties.                                                             *)

CountReports == {i \in DOMAIN log : log[i].kind = "count"}

\* The stretches of production that the reports of a device stand for do not
\* overlap, and unless bytes that are no reply were taken for one, no report
\* has a quantity above what the device made in its stretch, over resets, wraps
\* and replies missed: adding up what is reported never gives more than was made.
UnitsReportedOnce ==
    /\ \A i, j \in CountReports :
        i < j /\ log[i].dev = log[j].dev => log[i].hi <= log[j].lo
    /\ \A i \in CountReports :
        ~misled[log[i].dev] => log[i].qty <= log[i].hi - log[i].lo

\* Between two baselines the accepted and the refused reports together account
\* for exactly what the counter advanced since the baseline: what a full
\* queue refuses is the only thing missing, and it is never made up for.
QuantityConserved ==
    \A d \in Device :
        preQty[d] # 0 => queuedQty[d] + refusedQty[d] = preQty[d] - origin[d].count

\* A driver that lives comes to know the counter of a device that no longer
\* changes, although the parser misses every second reply of a read, keeps the
\* last of an even number back, and drops a whole read behind a missed io reply:
\* what it loses is not always the counter's, however the reads group the replies.
\* Two cases are excepted because every count reply may be lost in them: a
\* second sender thread (reads of io, io, count, count), and counters among
\* whose bytes a header shows (reads of io, count).
CatchesUp ==
    \A d \in Device :
        <>[](stray[d] = None /\ \A i \in DOMAIN buf[d] : ~buf[d][i].mimic)
            => <>[](pc[d] = "dead" \/ preQty[d] = count[d])
============================================================================
