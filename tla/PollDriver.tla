----------------------------- MODULE PollDriver -----------------------------
(***************************************************************************)
(* The driver process of a PLC or of a GN1200 meter (driver/PLCS_10.c,     *)
(* PLCS_12.c, PLCS_12ex.c and GN1200.c), forked by CommunicationManager.   *)
(* PLCS_12ex and GN1200 poll their device, PLCS_10 and PLCS_12 listen to   *)
(* it.  All of them cut the TCP stream into frames again; the PLC drivers  *)
(* put each frame on the message queue with key 1 as a report, GN1200      *)
(* prints it.                                                              *)
(*                                                                         *)
(* The device, the stream and the receiver of the queue are environment.   *)
(* A frame is sent in three parts: 1, the beginning of its header, 2, the  *)
(* rest of the header with the frame identifier and the fields, and 3, the *)
(* end (carriage return, or the CRC).  A read may end between any two.     *)
(***************************************************************************)
EXTENDS Integers, Sequences, FiniteSets

CONSTANTS
    Kind,           \* the driver names of device_info.xml
    QueueCap,       \* messages that fit in the queue (msg_qbytes)
    LineCap,        \* parts the stream holds before the device stalls
    ReadCap,        \* parts that fill a read of BUFFER_SIZE*10 bytes
    BufferCap,      \* parts that fill the receive buffer
    MaxFrames,      \* bound of the model: frames the device sends
    MaxUpsets       \* bound of the model: lost sessions, frames of other
                    \* forms, stalls that let a read fill the buffer

\* Two drivers only listen, the others start a thread that sends requests.
Listens == {"PLCS10", "PLCS12"}
Polls   == {"PLCS12ex", "GN1200"}
Meter   == "GN1200"

ASSUME PollDriverAssumption ==
    /\ Kind \subseteq Listens \union Polls \union {"unknown"}
    /\ QueueCap \in Nat \ {0} /\ LineCap \in Nat /\ ReadCap \in Nat \ {0}
    /\ BufferCap \in Nat /\ ReadCap <= BufferCap
    /\ MaxFrames \in Nat /\ MaxUpsets \in Nat

\* The forms of a frame: its identifier, and whether a field that the driver
\* reads is missing or blank.
Form == {"33", "36", "35", "33short"}

VARIABLES
    kind,       \* the driver of this device
    pc,         \* where the process is
    asked,      \* requests on their way to the device
    sent,       \* history: form of every frame the device has sent
    line,       \* parts in the stream, <<number of the frame, part>>
    buf,        \* parts in receiveBuffer
    skip,       \* GN1200: the parser has stepped over the first byte of buf
    indexCount, \* PLCS_12ex: number of the next report
    queue,      \* messages in the queue, not yet received
    log,        \* history: every report offered to the queue, or printed
    hurt,       \* history: frames a read boundary, a full buffer or the end
                \* of a session has damaged, or that completed another
    full,       \* history: this session has thrown a read away
    upsets      \* how much of MaxUpsets was used

deviceVars == <<asked, sent, line, upsets>>
readVars   == <<buf, skip, hurt, full>>
reportVars == <<indexCount, queue, log>>
vars       == <<kind, pc, deviceVars, readVars, reportVars>>

Part   == (1 .. MaxFrames) \X (1 .. 3)
Report == [first : 1 .. MaxFrames, last : 1 .. MaxFrames, index : Nat,
           accepted : BOOLEAN, full : BOOLEAN]

TypeOK ==
    /\ kind \in Kind
    /\ pc \in {"unborn", "forked", "gone", "closed", "recv", "parse", "dead"}
    /\ asked \in 0 .. 1
    /\ sent \in Seq(Form) /\ Len(sent) <= MaxFrames
    /\ line \in Seq(Part) /\ Len(line) <= LineCap
    /\ buf \in Seq(Part) /\ Len(buf) < BufferCap
    /\ skip \in BOOLEAN
    /\ indexCount \in Nat \ {0}
    /\ queue \in 0 .. QueueCap
    /\ log \in Seq(Report)
    /\ hurt \subseteq 1 .. MaxFrames
    /\ full \in BOOLEAN
    /\ upsets \in 0 .. MaxUpsets

Init ==
    /\ kind \in Kind
    /\ pc = "unborn"
    /\ asked = 0 /\ sent = <<>> /\ line = <<>>
    /\ buf = <<>> /\ skip = FALSE
    /\ indexCount = 1 /\ queue = 0 /\ log = <<>>
    /\ hurt = {} /\ full = FALSE
    /\ upsets = 0

Upset == upsets < MaxUpsets /\ upsets' = upsets + 1

Numbers(parts) == {parts[i][1] : i \in DOMAIN parts}

-----------------------------------------------------------------------------
(* The start of the process, and its sessions.                             *)

\* The child runs the driver named in device_info.xml; it ends at once when
\* there is none of that name, and there is no child when fork fails.
Fork ==
    /\ pc = "unborn"
    /\ \/ kind # "unknown" /\ pc' = "forked"
       \/ pc' = "gone"
    /\ UNCHANGED <<kind, deviceVars, readVars, reportVars>>

\* It returns when there is no queue or tag_info.xml does not know the device.
Start ==
    /\ pc = "forked"
    /\ \E queueMade, known \in BOOLEAN :
        pc' = IF queueMade /\ known THEN "closed" ELSE "gone"
    /\ UNCHANGED <<kind, deviceVars, readVars, reportVars>>

\* Mutant of OpenSession: the receive buffer is kept over sessions.
OpenSessionKeeps ==
    /\ pc = "closed"
    /\ pc' = "recv"
    /\ skip' = FALSE /\ full' = FALSE
    /\ UNCHANGED <<kind, deviceVars, buf, hurt, reportVars>>

\* TCPClient succeeds; the local buffers of Socket_Manager start empty.
OpenSession ==
    /\ pc = "closed"
    /\ pc' = "recv"
    /\ buf' = <<>> /\ skip' = FALSE /\ full' = FALSE
    /\ UNCHANGED <<kind, deviceVars, hurt, reportVars>>

\* What has not been read or reported when the socket is closed is lost.
Disconnect ==
    /\ pc = "recv"
    /\ Upset
    /\ pc' = "closed"
    /\ asked' = 0 /\ line' = <<>>
    /\ hurt' = hurt \union Numbers(line) \union Numbers(buf)
    /\ UNCHANGED <<kind, sent, buf, skip, full, reportVars>>

\* select times out after a minute, or fails.
Timeout == line = <<>> /\ Disconnect

\* recv returns -1, or 0 when the device has closed the connection.
ReceiveNone == Disconnect

\* A sender thread sends its request, whether it belongs to this session or is
\* one of an earlier session that slept while the number of its descriptor
\* came to stand for the new connection: the requests are the same.
Ask ==
    /\ kind \in Polls
    /\ pc \in {"recv", "parse"}
    /\ asked = 0
    /\ asked' = 1
    /\ UNCHANGED <<kind, pc, sent, line, upsets, readVars, reportVars>>

\* The device sends a frame: GN1200 has one form, a PLC several.
SendFrame ==
    /\ pc \in {"recv", "parse"}
    /\ Len(sent) < MaxFrames /\ Len(line) + 3 <= LineCap
    /\ IF kind \in Polls THEN asked = 1 /\ asked' = 0 ELSE UNCHANGED asked
    /\ \/ sent' = Append(sent, "33") /\ UNCHANGED upsets
       \/ /\ kind # Meter /\ Upset
          /\ \E form \in Form \ {"33"} : sent' = Append(sent, form)
    /\ line' = line \o [p \in 1 .. 3 |-> <<Len(sent) + 1, p>>]
    /\ UNCHANGED <<kind, pc, readVars, reportVars>>

\* The first n parts of the line are read, behind what is left of earlier reads.
Read(n) ==
    /\ n < ReadCap /\ Len(buf) + n < BufferCap
    /\ buf' = buf \o SubSeq(line, 1, n)
    /\ line' = SubSeq(line, n + 1, Len(line))
    /\ skip' = FALSE
    /\ pc' = "parse"
    /\ UNCHANGED <<kind, asked, sent, upsets, full, reportVars>>

\* A frame cut in its header may not be recognised.
Receive ==
    /\ pc = "recv" /\ kind # Meter
    /\ \E n \in 1 .. Len(line) :
        /\ Read(n)
        /\ hurt' = hurt \union (IF line[n][2] = 1 THEN {line[n][1]} ELSE {})

\* Nor one of the meter that is cut anywhere.
MeterReceive ==
    /\ pc = "recv" /\ kind = Meter
    /\ \E n \in 1 .. Len(line) :
        /\ Read(n)
        /\ hurt' = hurt \union (IF line[n][2] < 3 THEN {line[n][1]} ELSE {})

\* The driver was held up, and recv fills DataBuf: the read is thrown away,
\* what earlier reads left is not.
ReceiveTooMuch ==
    /\ pc = "recv"
    /\ Len(line) >= ReadCap
    /\ Upset
    /\ hurt' = hurt \union Numbers(SubSeq(line, 1, ReadCap)) \union Numbers(buf)
    /\ line' = SubSeq(line, ReadCap + 1, Len(line))
    /\ full' = TRUE
    /\ UNCHANGED <<kind, pc, asked, sent, buf, skip, reportVars>>

\* The read fits in DataBuf but not behind what is left: both are thrown away.
\* They have been put together before the size is looked at: when they do not
\* fit in receiveBuffer, what lies behind it on the stack is overwritten, which
\* does no harm or ends the process.  GN1200, which keeps nothing, does not look.
BufferFull ==
    /\ pc = "recv" /\ kind # Meter
    /\ \E n \in 1 .. Len(line) :
        /\ n < ReadCap /\ Len(buf) + n >= BufferCap
        /\ hurt' = hurt \union Numbers(SubSeq(line, 1, n)) \union Numbers(buf)
        /\ line' = SubSeq(line, n + 1, Len(line))
        /\ pc' = "recv" \/ (pc' = "dead" /\ Len(buf) + n > BufferCap)
    /\ buf' = <<>>
    /\ UNCHANGED <<kind, asked, sent, upsets, skip, full, reportVars>>

-----------------------------------------------------------------------------
(* The reports.                                                            *)

\* The fields of the report stand in the frames first to last, the same one
\* unless the stream had a hole.
NewReport(first, last, accepted) ==
    [first |-> first, last |-> last, index |-> indexCount, accepted |-> accepted,
     full |-> full]

\* createETRIPacketFormat numbers the report, msgsnd with IPC_NOWAIT takes it
\* or not; a refusal is only written to the log.
Offer(first, last) ==
    /\ log' = Append(log, NewReport(first, last, queue < QueueCap))
    /\ queue' = IF queue < QueueCap THEN queue + 1 ELSE queue
    /\ indexCount' = IF kind = "PLCS12ex" THEN indexCount + 1 ELSE indexCount

\* GN1200: selectTag prints the temperature.
PrintOnly(frame) ==
    /\ log' = Append(log, NewReport(frame, frame, FALSE))
    /\ UNCHANGED <<indexCount, queue>>

\* tagServer takes a message (external here, TagServer.tla).
Consume ==
    /\ queue > 0
    /\ queue' = queue - 1
    /\ UNCHANGED <<kind, pc, deviceVars, readVars, indexCount, log>>

-----------------------------------------------------------------------------
(* ParsingReceiveValue of the PLC drivers.                                 *)

\* PLCS_10 and PLCS_12 look for the header with the identifier 33, PLCS_12ex
\* for one that begins with 3.
Known(form) == kind = "PLCS12ex" \/ form \in {"33", "33short"}

HeaderAt(i) ==
    /\ i < Len(buf)
    /\ buf[i][2] = 1 /\ buf[i + 1][2] = 2
    /\ Known(sent[buf[i + 1][1]])

Ends == {i \in DOMAIN buf : buf[i][2] = 3}
FirstEnd == CHOOSE i \in Ends : \A j \in Ends : i <= j

\* A field is missing: in the short frame, and perhaps in one put together
\* from two.  The identifier 36 takes as many fields as there are.
Crashes(form, mixed) == form # "36" /\ (form = "33short" \/ mixed)

\* Mutant of TakeFrame: the remainder begins with the frame taken.
TakeFrameAgain ==
    /\ pc = "parse" /\ kind # Meter
    /\ HeaderAt(1) /\ Ends # {}
    /\ Offer(buf[1][1], buf[FirstEnd][1])
    /\ pc' = "recv"
    /\ UNCHANGED <<kind, deviceVars, buf, skip, hurt, full>>

\* Header and carriage return: the frame is reported, unless it has another
\* identifier, and the parser goes on behind it.
TakeFrame ==
    /\ pc = "parse" /\ kind # Meter
    /\ HeaderAt(1) /\ Ends # {}
    /\ LET first == buf[1][1]
           last  == buf[FirstEnd][1]
           form  == sent[buf[2][1]] IN
       /\ form # "33short"
       /\ IF form = "35" THEN UNCHANGED reportVars ELSE Offer(first, last)
       /\ hurt' = IF first = last THEN hurt ELSE hurt \union {last}
    /\ buf' = SubSeq(buf, FirstEnd + 1, Len(buf))
    /\ UNCHANGED <<kind, pc, deviceVars, skip, full>>

\* A field that is missing or blank: strlen(NULL) ends the process.  Nobody
\* restarts it.
CrashOnFrame ==
    /\ pc = "parse" /\ kind # Meter
    /\ HeaderAt(1) /\ Ends # {}
    /\ Crashes(sent[buf[2][1]], buf[1][1] # buf[FirstEnd][1])
    /\ pc' = "dead"
    /\ UNCHANGED <<kind, deviceVars, readVars, reportVars>>

\* Mutant of KeepRest: what was kept is not given back to the next read.
KeepRestNot ==
    /\ pc = "parse" /\ kind # Meter
    /\ HeaderAt(1) /\ Ends = {}
    /\ buf' = <<>>
    /\ pc' = "recv"
    /\ UNCHANGED <<kind, deviceVars, skip, hurt, full, reportVars>>

\* A header without carriage return: kept, from the header on.
KeepRest ==
    /\ pc = "parse" /\ kind # Meter
    /\ HeaderAt(1) /\ Ends = {}
    /\ pc' = "recv"
    /\ UNCHANGED <<kind, deviceVars, readVars, reportVars>>

\* No header here: on to the next one.  Without another the buffer is cleared;
\* the beginning of a header at its end is kept when the bytes behind it, from
\* an earlier read, complete it.
FindHeader ==
    /\ pc = "parse" /\ kind # Meter
    /\ ~HeaderAt(1)
    /\ LET headers == {i \in DOMAIN buf : HeaderAt(i)} IN
       IF headers # {}
       THEN /\ buf' = SubSeq(buf, CHOOSE i \in headers : \A j \in headers : i <= j, Len(buf))
            /\ UNCHANGED pc
       ELSE /\ \/ buf' = <<>>
               \/ buf # <<>> /\ buf[Len(buf)][2] = 1 /\ buf' = <<buf[Len(buf)]>>
            /\ pc' = "recv"
    /\ UNCHANGED <<kind, deviceVars, skip, hurt, full, reportVars>>

-----------------------------------------------------------------------------
(* ParsingReceiveValue of GN1200.                                          *)

ReplyAt1   == Len(buf) >= 2 /\ buf[1][2] = 1 /\ buf[2][2] = 2 /\ ~skip
ReplyWhole == Len(buf) >= 3 /\ buf[3][2] = 3

\* The CRC is right: the reply is printed, and the index is one too far.
MeterTake ==
    /\ pc = "parse" /\ kind = Meter
    /\ ReplyAt1 /\ ReplyWhole
    /\ PrintOnly(buf[1][1])
    /\ buf' = SubSeq(buf, 4, Len(buf))
    /\ skip' = TRUE
    /\ UNCHANGED <<kind, pc, deviceVars, hurt, full>>

\* An incomplete reply, taken with the bytes an earlier one has left behind it:
\* the CRC is wrong and the buffer is dropped, or, when both replies are the
\* same, it is right, the size of the remainder negative, and memcpy ends the
\* process.
MeterIncomplete ==
    /\ pc = "parse" /\ kind = Meter
    /\ ReplyAt1 /\ ~ReplyWhole
    /\ \/ buf' = <<>> /\ pc' = "recv" /\ UNCHANGED reportVars
       \/ PrintOnly(buf[1][1]) /\ pc' = "dead" /\ UNCHANGED buf
    /\ UNCHANGED <<kind, deviceVars, skip, hurt, full>>

\* The reply behind the one taken goes unseen, and so do the ends of replies
\* whose beginning was dropped.
MeterFind ==
    /\ pc = "parse" /\ kind = Meter
    /\ buf # <<>> /\ ~ReplyAt1
    /\ LET rest    == IF skip THEN 2 ELSE 1
           headers == {i \in rest .. Len(buf) - 1 : buf[i][2] = 1 /\ buf[i + 1][2] = 2} IN
       IF headers # {}
       THEN /\ buf' = SubSeq(buf, CHOOSE i \in headers : \A j \in headers : i <= j, Len(buf))
            /\ UNCHANGED pc
       ELSE buf' = <<>> /\ pc' = "recv"
    /\ skip' = FALSE
    /\ UNCHANGED <<kind, deviceVars, hurt, full, reportVars>>

\* Nothing is left.
MeterEnds ==
    /\ pc = "parse" /\ kind = Meter
    /\ buf = <<>>
    /\ pc' = "recv" /\ skip' = FALSE
    /\ UNCHANGED <<kind, deviceVars, buf, hurt, full, reportVars>>

Parse ==
    \/ TakeFrame \/ CrashOnFrame \/ KeepRest \/ FindHeader
    \/ MeterTake \/ MeterIncomplete \/ MeterFind \/ MeterEnds

Next ==
    \/ Fork \/ Start \/ OpenSession \/ Timeout \/ ReceiveNone \/ Ask \/ SendFrame
    \/ Receive \/ MeterReceive \/ ReceiveTooMuch \/ BufferFull \/ Parse \/ Consume

Spec == Init /\ [][Next]_vars

\* The process runs and reads what has arrived.
FairSpec ==
    /\ Spec
    /\ WF_vars(OpenSession) /\ WF_vars(Receive \/ BufferFull) /\ WF_vars(Parse)

-----------------------------------------------------------------------------
(* Properties.                                                             *)

\* The fields of a report come from one frame of the device, however the
\* stream was cut, unless the driver has thrown away a read of this session:
\* what was kept before the hole is then completed with what comes behind it.
WholeFrames ==
    \A i \in DOMAIN log : log[i].first # log[i].last => log[i].full

\* Over all sessions, a frame is reported at most once and frames are reported
\* in the order in which the device sent them.
OnceInOrder ==
    \A i, j \in DOMAIN log : i < j => log[i].last < log[j].first

\* A frame a PLC driver knows, whose header arrives in one piece in a session
\* that stays, is offered to the queue in the end, or the driver has died.  A read
\* that is thrown away costs one frame more, the one that completes what was kept.
FramesArrive ==
    []<>(\A n \in DOMAIN sent :
            kind # Meter /\ Known(sent[n]) /\ sent[n] # "35" =>
                pc = "dead" \/ n \in hurt \/ \E i \in DOMAIN log : log[i].first = n)
============================================================================
