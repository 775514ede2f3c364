---------------------------- MODULE FrameReaders ----------------------------
(***************************************************************************)
(* The three programs that cut a stream of bytes into frames with the same *)
(* main loop: CommManager.c and UartManager.c, which read a serial port    *)
(* (the bridge of the radio network, the I/O board), and PLCS-12.c, to     *)
(* which the PLC connects (port 50006).  CommManager puts what it has read *)
(* on the queue with key 1111, PLCS-12 on the one with key 1, UartManager  *)
(* writes it into the row of /work/db/comm.                                *)
(*                                                                         *)
(* The device, the line and the reader of the queue are environment.  A    *)
(* frame is sent in three parts of different length: 1, its beginning, 2,  *)
(* and 3, its end (check sum and 0xFF).  A read may end between any two.   *)
(***************************************************************************)
EXTENDS Integers, Sequences, FiniteSets

CONSTANTS
    Kind,           \* the programs
    QueueCap,       \* messages that fit in the queue (msg_qbytes)
    LineCap,        \* parts the line holds before the device stalls
    ReadCap,        \* PLCS-12: parts that fill a read of BUFFER_SIZE bytes
    BufferCap,      \* parts that fill the receive buffer of BUFFER_SIZE bytes
    MaxFrames,      \* bound of the model: frames the device sends
    MaxUpsets       \* bound of the model: disturbances of the line, lost
                    \* sessions, stalls, chance hits of a check

Serial == {"CommManager", "UartManager"}
Uart   == "UartManager"
Plc    == "PLCS-12"

ASSUME FrameReadersAssumption ==
    /\ Kind \subseteq Serial \union {Plc}
    /\ QueueCap \in Nat \ {0} /\ LineCap \in Nat /\ ReadCap \in Nat \ {0}
    /\ BufferCap \in Nat /\ MaxFrames \in Nat /\ MaxUpsets \in Nat

\* How a frame leaves the device: whole, with a wrong check sum, without end.
Form == {"whole", "bad", "cut"}

VARIABLES
    kind,       \* the program
    pc,         \* where it is
    asked,      \* UartManager: requests on their way to the board
    sent,       \* history: form of every frame the device has sent
    line,       \* parts on the line, <<number of the frame, part>>
    buf,        \* parts in receiveBuffer
    parsingSize,\* PLCS-12: parts of buf that were there before the last read
    at,         \* the parser's index i in buf
    remainSize, \* the parser's end of the last frame found in buf
    queue,      \* messages in the queue, not yet received
    log,        \* history: everything stored or offered to the queue
    crowded,    \* history: frames that were not alone in the buffer: behind something
                \* else (serial programs), together with another frame (PLCS-12)
    split,      \* history, PLCS-12: frames that were alone, but in more than two reads
    skewed,     \* history, PLCS-12: reads have not ended with the frames
    hurt,       \* history: frames the driver or the line has thrown away
    upsets      \* how much of MaxUpsets was used

deviceVars == <<asked, sent, line, upsets>>
parserVars == <<buf, parsingSize, at, remainSize>>
history    == <<crowded, split, skewed, hurt>>
vars       == <<kind, pc, deviceVars, parserVars, queue, log, history>>

Noise == <<0, 1>>
Part  == ((1 .. MaxFrames) \X (1 .. 3)) \union {Noise}

TypeOK ==
    /\ kind \in Kind
    /\ pc \in {"unborn", "gone", "accept", "recv", "parse", "loops"}
    /\ asked \in 0 .. 1
    /\ sent \in Seq(Form) /\ Len(sent) <= MaxFrames
    /\ line \in Seq(Part) /\ Len(line) <= LineCap
    /\ buf \in Seq(Part) /\ Len(buf) <= BufferCap
    /\ parsingSize \in 0 .. Len(buf)
    /\ at \in 1 .. BufferCap + 1 /\ remainSize \in 0 .. Len(buf)
    /\ queue \in 0 .. QueueCap
    /\ log \in Seq([first : 0 .. MaxFrames, last : 0 .. MaxFrames, odd : BOOLEAN])
    /\ crowded \union split \union hurt \subseteq 0 .. MaxFrames
    /\ skewed \in BOOLEAN
    /\ upsets \in 0 .. MaxUpsets

Init ==
    /\ kind \in Kind
    /\ pc = "unborn"
    /\ asked = 0 /\ sent = <<>> /\ line = <<>>
    /\ buf = <<>> /\ parsingSize = 0 /\ at = 1 /\ remainSize = 0
    /\ queue = 0 /\ log = <<>>
    /\ crowded = {} /\ split = {} /\ skewed = FALSE /\ hurt = {}
    /\ upsets = 0

Upset == upsets < MaxUpsets /\ upsets' = upsets + 1

Numbers(parts) == {parts[i][1] : i \in DOMAIN parts}

-----------------------------------------------------------------------------
(* Start, sessions and the line.                                           *)

\* CommManager opens the device named in /work/comm/devName; UartManager wants
\* the file too, and opens /dev/ttyAMA0.
OpenDevice == {"open", "no name", "no device"}
OpenUart   == {"open", "no name", "no device"}

\* The queues, and the database of UartManager.
StartComm ==
    /\ kind = "CommManager" /\ pc = "unborn"
    /\ \E fd \in OpenDevice, queues \in BOOLEAN :
        pc' = IF fd = "open" /\ queues THEN "recv" ELSE "gone"
    /\ UNCHANGED <<kind, deviceVars, parserVars, queue, log, history>>

StartUart ==
    /\ kind = Uart /\ pc = "unborn"
    /\ \E fd \in OpenUart, queues, database \in BOOLEAN :
        pc' = IF fd = "open" /\ queues /\ database THEN "recv" ELSE "gone"
    /\ UNCHANGED <<kind, deviceVars, parserVars, queue, log, history>>

StartPlc ==
    /\ kind = Plc /\ pc = "unborn"
    /\ \/ pc' = "accept"
       \/ pc' = "gone"
    /\ UNCHANGED <<kind, deviceVars, parserVars, queue, log, history>>

\* TCPServer returns a connection; the buffers of Socket_Manager start empty.
Accept ==
    /\ pc = "accept"
    /\ pc' = "recv"
    /\ buf' = <<>> /\ parsingSize' = 0 /\ skewed' = FALSE
    /\ UNCHANGED <<kind, deviceVars, at, remainSize, queue, log, crowded, split, hurt>>

\* select times out or recv returns 0 or -1: the connection is closed.
CloseSession ==
    /\ kind = Plc /\ pc = "recv"
    /\ Upset
    /\ pc' = "accept"
    /\ line' = <<>>
    /\ hurt' = hurt \union Numbers(line) \union Numbers(buf)
    /\ UNCHANGED <<kind, asked, sent, parserVars, queue, log, crowded, split, skewed>>

\* The thread of UartManager asks the board for its counters all the time.
Ask ==
    /\ kind = Uart /\ pc \in {"recv", "parse"}
    /\ asked = 0
    /\ asked' = 1
    /\ UNCHANGED <<kind, pc, sent, line, upsets, parserVars, queue, log, history>>

\* The device sends a frame, the serial line may damage or cut it.
SendFrame ==
    /\ pc \in {"recv", "parse"}
    /\ Len(sent) < MaxFrames /\ Len(line) + 3 <= LineCap
    /\ IF kind = Uart THEN asked = 1 /\ asked' = 0 ELSE UNCHANGED asked
    /\ \E form \in Form :
        /\ IF form = "whole" THEN UNCHANGED upsets ELSE kind \in Serial /\ Upset
        /\ sent' = Append(sent, form)
        /\ line' = line \o [p \in 1 .. (IF form = "cut" THEN 2 ELSE 3) |-> <<Len(sent) + 1, p>>]
    /\ UNCHANGED <<kind, pc, parserVars, queue, log, history>>

\* Bytes that belong to no frame.
MakeNoise ==
    /\ kind \in Serial /\ pc \in {"recv", "parse"}
    /\ Len(line) < LineCap
    /\ Upset
    /\ line' = Append(line, Noise)
    /\ UNCHANGED <<kind, pc, asked, sent, parserVars, queue, log, history>>

\* RealTimeDataManager or tagServer takes a message.
Consume ==
    /\ queue > 0
    /\ queue' = queue - 1
    /\ UNCHANGED <<kind, pc, deviceVars, parserVars, log, history>>

-----------------------------------------------------------------------------
(* Reading.                                                                *)

FrameAt(parts, i) ==
    /\ i + 2 <= Len(parts)
    /\ parts[i] # Noise
    /\ \A p \in 1 .. 3 : parts[i + p - 1] = <<parts[i][1], p>>

\* Frames that are complete in the buffer, but not at its beginning.
Behind(parts) == {parts[i][1] : i \in {j \in 2 .. Len(parts) : FrameAt(parts, j)}}

\* Nothing but parts of one frame.
OneFrame(parts) == Cardinality(Numbers(parts)) = 1

\* One or two reads have brought nothing but one frame, so far.
TwoReads(parts) == buf = <<>> \/ Len(parts) = 3
InStep(parts)   == parts[1][2] = 1 /\ OneFrame(parts) /\ TwoReads(parts)

\* A read of n parts goes behind what is left of earlier ones.
Receive ==
    /\ pc = "recv"
    /\ \E n \in 1 .. Len(line) :
        LET parts == buf \o SubSeq(line, 1, n) IN
        /\ kind = Plc => n < ReadCap
        /\ Len(buf) < BufferCap /\ Len(parts) <= BufferCap
        /\ buf' = parts
        /\ line' = SubSeq(line, n + 1, Len(line))
        /\ skewed' = (kind = Plc /\ (skewed \/ ~InStep(parts)))
        /\ crowded' = crowded \union IF kind # Plc THEN Behind(parts)
                                     ELSE IF OneFrame(parts) THEN {} ELSE Numbers(parts)
        /\ split' = split \union IF kind = Plc /\ OneFrame(parts) /\ ~TwoReads(parts)
                                 THEN Numbers(parts) ELSE {}
    /\ parsingSize' = Len(buf)
    /\ at' = 1 /\ remainSize' = 0
    /\ pc' = "parse"
    /\ UNCHANGED <<kind, asked, sent, upsets, queue, log, hurt>>

\* PLCS-12 was held up, and recv fills DataBuf: the read is thrown away.
ReceiveTooMuch ==
    /\ kind = Plc /\ pc = "recv"
    /\ Len(line) >= ReadCap
    /\ Upset
    /\ hurt' = hurt \union Numbers(SubSeq(line, 1, ReadCap)) \union Numbers(buf)
    /\ line' = SubSeq(line, ReadCap + 1, Len(line))
    /\ skewed' = TRUE
    /\ UNCHANGED <<kind, pc, asked, sent, parserVars, queue, log, crowded, split>>

\* The buffer of CommManager or UartManager is full of what is no frame: from
\* now on every read is thrown away, and the command queue is not read either.
Deaf == kind \in Serial /\ pc = "recv" /\ Len(buf) = BufferCap

Discard ==
    /\ Deaf
    /\ line # <<>>
    /\ hurt' = hurt \union Numbers(line)
    /\ line' = <<>>
    /\ UNCHANGED <<kind, pc, asked, sent, upsets, parserVars, queue, log, crowded, split, skewed>>

-----------------------------------------------------------------------------
(* ParsingReceiveValue and selectTag.                                      *)

\* UartManager updates the row; the others offer a message to the queue, which
\* takes it or not.
Store(first, last, odd) ==
    /\ log' = Append(log, [first |-> first, last |-> last, odd |-> odd])
    /\ queue' = IF kind # Uart /\ queue < QueueCap THEN queue + 1 ELSE queue

Parsing == kind \in Serial /\ pc = "parse" /\ at <= Len(buf)

\* Mutant of TakeFirst: the check sum of the frame is not compared.
TakeFirstUnchecked ==
    /\ Parsing
    /\ at = 1 /\ FrameAt(buf, 1)
    /\ Store(buf[1][1], buf[1][1], FALSE)
    /\ at' = IF kind = Uart THEN 2 ELSE 4
    /\ remainSize' = 3
    /\ UNCHANGED <<kind, pc, deviceVars, buf, parsingSize, history>>

\* A frame at the beginning of the buffer.  UartManager then goes on inside it,
\* at index 9, because storing has used the same index.
TakeFirst ==
    /\ Parsing
    /\ at = 1 /\ FrameAt(buf, 1) /\ sent[buf[1][1]] = "whole"
    /\ Store(buf[1][1], buf[1][1], FALSE)
    /\ at' = IF kind = Uart THEN 2 ELSE 4
    /\ remainSize' = 3
    /\ UNCHANGED <<kind, pc, deviceVars, buf, parsingSize, history>>

\* The check sum is wrong, because the frame is damaged or because it is not at
\* the beginning of the buffer: the sum then covers bytes behind the copy.
RefuseFrame ==
    /\ Parsing
    /\ FrameAt(buf, at)
    /\ at = 1 => sent[buf[1][1]] = "bad"
    /\ at' = at + 3 /\ remainSize' = at + 2
    /\ UNCHANGED <<kind, pc, deviceVars, buf, parsingSize, queue, log, history>>

\* Those bytes may happen to make the sum right.  CommManager goes on behind the
\* frame; UartManager starts over at index 9, finds the frame again, and stores
\* it for ever.
TakeByChance ==
    /\ Parsing
    /\ at > 1 /\ FrameAt(buf, at)
    /\ Upset
    /\ Store(buf[at][1], buf[at][1], TRUE)
    /\ IF kind = Uart THEN pc' = "loops" /\ UNCHANGED <<at, remainSize>>
       ELSE at' = at + 3 /\ remainSize' = at + 2 /\ UNCHANGED pc
    /\ UNCHANGED <<kind, asked, sent, line, buf, parsingSize, history>>

\* A byte 0xFE that begins no frame, with 0xFF where its end would be: up to
\* there everything is dropped.
FalseFrame ==
    /\ Parsing
    /\ ~FrameAt(buf, at)
    /\ Upset
    /\ \E end \in at .. Len(buf) :
        /\ at' = end + 1 /\ remainSize' = end
        /\ hurt' = hurt \union Numbers(SubSeq(buf, at, end))
    /\ UNCHANGED <<kind, pc, asked, sent, line, buf, parsingSize, queue, log, crowded, split,
                   skewed>>

SkipByte ==
    /\ Parsing
    /\ ~FrameAt(buf, at)
    /\ at' = at + 1
    /\ UNCHANGED <<kind, pc, deviceVars, buf, parsingSize, remainSize, queue, log, history>>

\* Mutant of EndParse: what is behind the last frame is lost.
EndParseDrops ==
    /\ kind \in Serial /\ pc = "parse" /\ at > Len(buf)
    /\ buf' = <<>>
    /\ pc' = "recv"
    /\ UNCHANGED <<kind, deviceVars, parsingSize, at, remainSize, queue, log, history>>

\* Mutant of EndParse: nothing is dropped but the first frame.
EndParseKeeps ==
    /\ kind \in Serial /\ pc = "parse" /\ at > Len(buf)
    /\ buf' = SubSeq(buf, (IF remainSize > 3 THEN 3 ELSE remainSize) + 1, Len(buf))
    /\ remainSize' = 0 /\ parsingSize' = 0
    /\ pc' = "recv"
    /\ UNCHANGED <<kind, deviceVars, at, queue, log, history>>

\* What is behind the last frame is kept for the next read.
EndParse ==
    /\ kind \in Serial /\ pc = "parse" /\ at > Len(buf)
    /\ buf' = SubSeq(buf, remainSize + 1, Len(buf))
    /\ remainSize' = 0 /\ parsingSize' = 0
    /\ pc' = "recv"
    /\ UNCHANGED <<kind, deviceVars, at, queue, log, history>>

\* PLCS-12 knows a frame by its 237 bytes, whatever they are.
Is237 == {buf[i][2] : i \in DOMAIN buf} = 1 .. 3 /\ Len(buf) = 3

PlcTake ==
    /\ kind = Plc /\ pc = "parse"
    /\ Is237
    /\ Store(buf[1][1], buf[3][1], skewed)
    /\ skewed' = (skewed /\ ~FrameAt(buf, 1))
    /\ buf' = <<>> /\ parsingSize' = 0 /\ at' = 1 /\ remainSize' = 0
    /\ pc' = "recv"
    /\ UNCHANGED <<kind, deviceVars, crowded, split, hurt>>

\* Anything else: only what the last read has brought is kept.  A frame that comes
\* in three reads loses its beginning here, and its end stands in front of the
\* next one.
PlcKeep ==
    /\ kind = Plc /\ pc = "parse"
    /\ ~Is237
    /\ buf' = SubSeq(buf, parsingSize + 1, Len(buf))
    /\ parsingSize' = 0 /\ at' = 1 /\ remainSize' = 0
    /\ pc' = "recv"
    /\ UNCHANGED <<kind, deviceVars, queue, log, history>>

Parse ==
    \/ TakeFirst \/ RefuseFrame \/ TakeByChance \/ FalseFrame \/ SkipByte \/ EndParse
    \/ PlcTake \/ PlcKeep

Next ==
    \/ StartComm \/ StartUart \/ StartPlc \/ Accept \/ CloseSession
    \/ Ask \/ SendFrame \/ MakeNoise \/ Consume
    \/ Receive \/ ReceiveTooMuch \/ Discard \/ Parse

Spec == Init /\ [][Next]_vars

\* The program runs and reads what has arrived.
FairSpec ==
    /\ Spec
    /\ WF_vars(Accept) /\ WF_vars(Receive) /\ WF_vars(Parse)

-----------------------------------------------------------------------------
(* Properties.                                                             *)

\* What is stored or reported is one undamaged frame, and frames come in the
\* order in which they were sent and at most once, unless they were not alone
\* in the buffer, where the check sums do not protect them, or, for PLCS-12,
\* the reads have got out of step with the frames.
SoundInOrder ==
    \A i \in DOMAIN log :
        /\ ~log[i].odd => log[i].first = log[i].last /\ sent[log[i].first] = "whole"
        /\ \A j \in 1 .. i - 1 :
            \/ log[j].last < log[i].first
            \/ log[j].last = log[i].first /\ log[i].odd /\ log[j].odd

\* With the parser at rest, a whole frame that has left the line and the buffer
\* was stored or offered to the queue, or there is one of these reasons: it was
\* thrown away with a read or a session; in the buffer of a serial program it
\* stood behind something else; PLCS-12 had bytes of another frame in the buffer
\* with it, or got it in more than two reads.
LostWereCrowdedOrSplit ==
    pc = "recv" =>
        \A n \in DOMAIN sent :
            /\ sent[n] = "whole"
            /\ n \notin Numbers(line \o buf) \union crowded \union split \union hurt
            => \E i \in DOMAIN log : log[i].first = n /\ log[i].last = n

\* The reads of a serial program come to nothing for ever only when noise and
\* pieces of frames have filled its buffer.
Jammed ==
    Deaf /\ \A i \in 1 .. Len(buf) - 2 :
                buf[i] = Noise \/ sent[buf[i][1]] = "cut" \/ buf[i][1] \in hurt

\* Every whole frame is stored or offered in the end, unless it was crowded, split
\* or thrown away or the program has ended, hangs or is jammed.  So the serial
\* programs hear a frame however it is cut by the reads, and PLCS-12 hears one
\* that comes in a read or two, if no remains of an earlier one are in the way: a
\* frame in three reads is lost and may take the later ones of its session along.
FramesHeard ==
    []<>(\/ pc = "loops" \/ Jammed
         \/ \A n \in DOMAIN sent :
                sent[n] = "whole" =>
                    n \in crowded \union split \union hurt
                    \/ \E i \in DOMAIN log : log[i].first = n)
=============================================================================
