--------------------------- MODULE SerialForwarder ---------------------------
(***************************************************************************)
(* The serial forwarder: the loop m_deluge_process of sf.c, the protocol   *)
(* of its clients (sfsource.c), and the acknowledged packets of the serial *)
(* port (serialsource.c, opened for blocking reads as serialtonet.c does). *)
(* One thread takes clients on port 5000, reads a packet of each that is   *)
(* ready, writes it to the mote and waits for the acknowledgement before   *)
(* it looks at the next.  Packets of the mote are acknowledged and kept in *)
(* a list that nobody reads.                                               *)
(*                                                                         *)
(* Clients, mote and line are environment.  On the line a frame is four    *)
(* bytes: SYNC, two bytes of content, SYNC; that the CRC tells every other *)
(* content from a whole one is assumed.                                    *)
(***************************************************************************)
EXTENDS Integers, Sequences

CONSTANTS
    Clients,        \* the programs that connect
    None,           \* no client, no acknowledgement owed
    SeqMod,         \* values of send.seqno (256)
    Mtu,            \* bytes of content at which a frame is too long (MTU)
    LineCap,        \* bytes that wait in the driver of the port
    MaxPackets,     \* bound of the model: packets of each client, a function
    MaxUpsets       \* bound of the model: disturbances

Ack == 0 .. SeqMod - 1

\* The content of a frame fits into recv.packet.
ASSUME SerialForwarderAssumption ==
    /\ None \notin Clients \union Ack
    /\ SeqMod \in Nat \ {0} /\ LineCap \in Nat \ {0}
    /\ Mtu \in Nat /\ Mtu > 2 /\ MaxPackets \in [Clients -> Nat] /\ MaxUpsets \in Nat

VARIABLES
    pc,         \* where the forwarder is
    cur,        \* the client it serves
    order,      \* clients, the newest first
    todo,       \* those of them that select has found ready
    greeting,   \* what a client says first: "old", "new" or "wrong" version,
                \* "done" when that is over
    conn,       \* "none", "queued", "open", "closed"
    mood,       \* the client "speaks", is "mute" for ever, or has "left"
    said,       \* pieces a client has written: greeting, parts of packets
    heard,      \* pieces of them that were read
    line,       \* bytes from the mote, in the driver and in recv.buffer
    used,       \* how many of them are in recv.buffer (bufused - bufpos)
    inSync, escaped,
    packet,     \* recv.packet: recv.count bytes
    seqno,
    late,       \* the deadline of the write has passed
    result,     \* of the last write_serial_packet
    reached,    \* history: its packet has reached the mote
    owes,       \* the mote has still to acknowledge this number
    plugged,    \* the port is there
    spoilt,     \* history: the first SYNC of the whole frame being read was
                \* taken for something else
    junk,       \* history: behind the last whole frame came something else
    upsets      \* how much of MaxUpsets was used

clientVars == <<greeting, conn, mood, said, heard>>
loopVars   == <<cur, order, todo>>
parserVars == <<used, inSync, escaped, packet, spoilt, junk>>
writeVars  == <<seqno, late, result, reached>>
moteVars   == <<owes, plugged, upsets>>
vars == <<pc, loopVars, clientVars, line, parserVars, writeVars, moteVars>>

\* What a frame holds: a report of the mote, or the acknowledgement of a number.
Report   == <<"report", 0>>
AckOf(n) == <<"ack", n>>

Byte == {"sync", "esc", "bad"}

\* A byte; place, for those of an undamaged frame, is its place in the frame.
Raw(b) == [byte |-> b, of |-> <<>>, part |-> 0, place |-> 0]
Frame(c) ==
    << [Raw("sync") EXCEPT !.place = 1],
       [byte |-> "data", of |-> c, part |-> 1, place |-> 2],
       [byte |-> "data", of |-> c, part |-> 2, place |-> 3],
       [Raw("sync") EXCEPT !.place = 4] >>

Upset == upsets < MaxUpsets /\ upsets' = upsets + 1

TypeOK ==
    /\ pc \in {"unborn", "select", "greet", "platform", "clients", "packet", "read", "wait", "exit"}
    /\ cur \in Clients \union {None}
    /\ order \in Seq(Clients) /\ todo \in Seq(Clients)
    /\ greeting \in [Clients -> {"old", "new", "wrong", "done"}]
    /\ conn \in [Clients -> {"none", "queued", "open", "closed"}]
    /\ mood \in [Clients -> {"speaks", "mute", "left"}]
    /\ said \in [Clients -> Nat] /\ heard \in [Clients -> Nat]
    /\ Len(line) <= LineCap /\ used \in 0 .. Len(line)
    /\ inSync \in BOOLEAN /\ escaped \in BOOLEAN /\ Len(packet) <= Mtu
    /\ seqno \in Ack /\ late \in BOOLEAN /\ result \in {"none", "acked", "silent"}
    /\ reached \in BOOLEAN /\ owes \in Ack \union {None} /\ plugged \in BOOLEAN
    /\ spoilt \in BOOLEAN /\ junk \in BOOLEAN
    /\ upsets \in 0 .. MaxUpsets

\* Only the first bytes of the structure are cleared (serialsource.c:278): it
\* comes from memory never used before, which is zero.
Init ==
    /\ pc = "unborn" /\ cur = None /\ order = <<>> /\ todo = <<>>
    /\ greeting = [c \in Clients |-> "done"] /\ conn = [c \in Clients |-> "none"]
    /\ mood = [c \in Clients |-> "speaks"]
    /\ said = [c \in Clients |-> 0] /\ heard = [c \in Clients |-> 0]
    /\ line = <<>> /\ used = 0
    /\ inSync = FALSE /\ escaped = FALSE /\ packet = <<>>
    /\ seqno = 37 % SeqMod /\ late = FALSE /\ result = "none" /\ reached = FALSE
    /\ owes = None /\ plugged = TRUE
    /\ spoilt = FALSE /\ junk = FALSE /\ upsets = 0

-----------------------------------------------------------------------------
(* Clients.                                                                *)

\* Pieces before the first packet: the version, and the platform.
Opening(c) ==
    CASE greeting[c] = "done" -> 0 [] greeting[c] = "new" -> 2 [] OTHER -> 1

\* Each packet is written in two pieces.
PacketsSaid(c)  == said[c] \div 2
PacketsHeard(c) == heard[c] \div 2

Connect(c) ==
    /\ pc \notin {"unborn", "exit"}
    /\ conn[c] = "none"
    /\ conn' = [conn EXCEPT ![c] = "queued"]
    /\ \E version \in {"old", "new", "wrong"} : greeting' = [greeting EXCEPT ![c] = version]
    /\ UNCHANGED <<pc, loopVars, mood, said, heard, line, parserVars, writeVars, moteVars>>

Say(c) ==
    /\ conn[c] \in {"queued", "open"} /\ mood[c] = "speaks"
    /\ said[c] < Opening(c) + 2 * MaxPackets[c]
    /\ said' = [said EXCEPT ![c] = @ + 1]
    /\ UNCHANGED <<pc, loopVars, greeting, conn, mood, heard, line, parserVars, writeVars, moteVars>>

\* A client stops in the middle of what it says, or closes its end.
FallSilent(c) ==
    /\ conn[c] \in {"queued", "open"} /\ mood[c] = "speaks"
    /\ Upset
    /\ mood' \in {[mood EXCEPT ![c] = m] : m \in {"mute", "left"}}
    /\ UNCHANGED <<pc, loopVars, greeting, conn, said, heard, line, parserVars, writeVars,
                   owes, plugged>>

-----------------------------------------------------------------------------
(* The mote and the line.                                                  *)

\* The driver drops what comes when its buffer is full.
Arrives(bytes) ==
    line' = IF Len(line) + Len(bytes) <= LineCap THEN line \o bytes
            ELSE line \o SubSeq(bytes, 1, LineCap - Len(line))

\* The bytes of a frame when it is no longer a whole one.
Loose(c) == [k \in 1 .. 4 |-> [Frame(c)[k] EXCEPT !.place = 0]]

\* A frame with one byte lost or changed or without room, or a stray byte.
Damaged(c) ==
    LET f == Loose(c) IN
    {f} \union {SubSeq(f, 1, k - 1) \o SubSeq(f, k + 1, 4) : k \in 1 .. 4}
        \union {[f EXCEPT ![k] = Raw(b)] : k \in 1 .. 4, b \in Byte}
        \union {<<Raw(b)>> : b \in Byte}

MoteSends(c) ==
    /\ pc # "unborn" /\ plugged
    /\ \/ Len(line) + 4 <= LineCap /\ Arrives(Frame(c)) /\ UNCHANGED upsets
       \/ Upset /\ \E bytes \in Damaged(c) : Arrives(bytes)
    /\ owes' = IF c = AckOf(owes) THEN None ELSE owes
    /\ UNCHANGED <<pc, loopVars, clientVars, parserVars, writeVars, plugged>>

\* The mote reports, or acknowledges the last packet it has received.
MoteSpeaks == \E c \in {Report} \union {AckOf(n) : n \in {owes} \ {None}} : MoteSends(c)

Unplug ==
    /\ pc # "unborn" /\ plugged
    /\ Upset
    /\ plugged' = FALSE
    /\ UNCHANGED <<pc, loopVars, clientVars, line, parserVars, writeVars, owes>>

-----------------------------------------------------------------------------
(* The loop of the forwarder.                                              *)

\* Rates that are not in the table of the build are refused.
ParseBaudrate    == {"known", "unknown"}
OpenSource(rate) == IF rate = "known" THEN {"open", "no device"} ELSE {"no rate"}
OpenServer       == {"listening", "port in use"}

\* Any failure of the serial port or of the server socket ends the program.
Start ==
    /\ pc = "unborn"
    /\ \E rate \in ParseBaudrate, server \in OpenServer : \E src \in OpenSource(rate) :
        pc' = IF src = "open" /\ server = "listening" THEN "select" ELSE "exit"
    /\ UNCHANGED <<loopVars, clientVars, line, parserVars, writeVars, moteVars>>

Left(c)     == mood[c] = "left"
Readable(c) == said[c] > heard[c] \/ Left(c)

\* One new client is taken before those that were ready are served.
Select ==
    /\ pc = "select"
    /\ todo' = SelectSeq(order, Readable)
    /\ \/ \E c \in Clients :
            /\ conn[c] = "queued"
            /\ conn' = [conn EXCEPT ![c] = "open"]
            /\ cur' = c /\ pc' = "greet"
       \/ /\ \A c \in Clients : conn[c] # "queued"
          /\ todo' # <<>>
          /\ pc' = "clients"
          /\ UNCHANGED <<cur, conn>>
    /\ UNCHANGED <<order, greeting, mood, said, heard, line, parserVars, writeVars, moteVars>>

Close(c) ==
    /\ conn' = [conn EXCEPT ![c] = "closed"]
    /\ greeting' = [greeting EXCEPT ![c] = "done"]
    /\ said' = [said EXCEPT ![c] = 0] /\ heard' = [heard EXCEPT ![c] = 0]
    /\ mood' = [mood EXCEPT ![c] = "speaks"]

\* Mutant of Add: the new client is not linked to those before it.
AddAlone(c) ==
    /\ order' = <<c>>
    /\ greeting' = [greeting EXCEPT ![c] = "done"]
    /\ said' = [said EXCEPT ![c] = @ - Opening(c)] /\ heard' = [heard EXCEPT ![c] = 0]
    /\ UNCHANGED <<conn, mood>>

\* The pieces are counted anew behind the greeting.
Add(c) ==
    /\ order' = <<c>> \o order
    /\ greeting' = [greeting EXCEPT ![c] = "done"]
    /\ said' = [said EXCEPT ![c] = @ - Opening(c)] /\ heard' = [heard EXCEPT ![c] = 0]
    /\ UNCHANGED <<conn, mood>>

\* init_sf_source waits for the version of the client.
Greet ==
    /\ pc = "greet" /\ said[cur] > 0
    /\ greeting[cur] \in {"old", "wrong"}
    /\ IF greeting[cur] = "old" THEN Add(cur) ELSE Close(cur) /\ UNCHANGED order
    /\ pc' = "clients" /\ cur' = None
    /\ UNCHANGED <<todo, line, parserVars, writeVars, moteVars>>

\* To a new version it writes its platform, which ends the program when the client
\* has left and its host has already said so (SIGPIPE).
SendPlatform ==
    /\ pc = "greet" /\ said[cur] > 0
    /\ greeting[cur] = "new"
    /\ \/ pc' = "platform"
       \/ pc' = "exit" /\ Left(cur)
    /\ UNCHANGED <<loopVars, clientVars, line, parserVars, writeVars, moteVars>>

\* Then it waits for the platform of the client.
Platform ==
    /\ pc = "platform" /\ said[cur] > 1
    /\ Add(cur)
    /\ pc' = "clients" /\ cur' = None
    /\ UNCHANGED <<todo, line, parserVars, writeVars, moteVars>>

\* The client has left in the middle of its greeting.
GreetingEnds ==
    /\ \/ pc = "greet" /\ said[cur] = 0
       \/ pc = "platform" /\ said[cur] = 1
    /\ Left(cur)
    /\ Close(cur)
    /\ pc' = "clients" /\ cur' = None
    /\ UNCHANGED <<order, todo, line, parserVars, writeVars, moteVars>>

\* The next client that select has found ready, or select again.  What the last
\* write has left counts no more.
NextClient ==
    /\ pc = "clients"
    /\ IF todo = <<>> THEN pc' = "select" /\ cur' = None /\ UNCHANGED todo
       ELSE pc' = "packet" /\ cur' = Head(todo) /\ todo' = Tail(todo)
    /\ late' = FALSE /\ result' = "none" /\ reached' = FALSE
    /\ UNCHANGED <<order, clientVars, line, parserVars, seqno, moteVars>>

RemoveClient ==
    /\ pc = "packet"
    /\ Left(cur) /\ said[cur] < heard[cur] + 2
    /\ LET Others(c) == c # cur IN order' = SelectSeq(order, Others)
    /\ Close(cur)
    /\ pc' = "clients" /\ cur' = None
    /\ UNCHANGED <<todo, line, parserVars, writeVars, moteVars>>

-----------------------------------------------------------------------------
(* write_serial_packet.                                                    *)

\* A frame is written as a whole; the mote receives it unless the line damages it.
WriteFrame(number) ==
    /\ plugged
    /\ \/ reached' = TRUE /\ owes' = number /\ UNCHANGED upsets
       \/ reached' = FALSE /\ Upset /\ UNCHANGED owes

WriteFails == ~plugged /\ UNCHANGED <<reached, owes, upsets>>

\* A whole packet of the client is read and written to the mote.  A write that
\* fails ends the program.
ForwardPacket ==
    /\ pc = "packet" /\ said[cur] >= heard[cur] + 2
    /\ heard' = [heard EXCEPT ![cur] = @ + 2]
    /\ seqno' = (seqno + 1) % SeqMod
    /\ \/ WriteFrame(seqno') /\ pc' = "read"
       \/ WriteFails /\ pc' = "exit"
    /\ UNCHANGED <<loopVars, greeting, conn, mood, said, line, parserVars, late, result, plugged>>

Returns(value) == pc' = "clients" /\ result' = value

Expire ==
    /\ pc \in {"read", "wait"} /\ ~late
    /\ late' = TRUE
    /\ UNCHANGED <<pc, loopVars, clientVars, line, parserVars, seqno, result, reached, moteVars>>

\* source_wait looks at the deadline only when nothing is left in recv.buffer.
SourceWait ==
    /\ pc = "wait"
    /\ \/ used = 0 /\ late /\ Returns("silent")
       \/ used > 0 /\ pc' = "read" /\ UNCHANGED result
       \/ used = 0 /\ ~late /\ (line # <<>> \/ ~plugged) /\ pc' = "read" /\ UNCHANGED result
    /\ UNCHANGED <<loopVars, clientVars, line, parserVars, seqno, late, reached, moteVars>>

\* buggyread waits, without a deadline, for what is there; that a read ends
\* inside a frame is one of the disturbances.
FillBuffer ==
    /\ pc = "read" /\ used = 0 /\ plugged
    /\ \E n \in 1 .. Len(line) :
        /\ used' = n
        /\ IF n < Len(line) THEN Upset ELSE UNCHANGED upsets
    /\ UNCHANGED <<pc, loopVars, clientVars, line, inSync, escaped, packet, spoilt, junk,
                   writeVars, owes, plugged>>

-----------------------------------------------------------------------------
(* read_and_process, one byte at a time.                                   *)

\* The byte that read_byte returns.
Latest == Head(line)

\* A byte is read.  Whether a whole frame begins or ends with it is noted.
ReadByte ==
    /\ pc = "read" /\ used > 0
    /\ line' = Tail(line) /\ used' = used - 1
    /\ spoilt' = IF Latest.place = 1
                 THEN inSync /\ (escaped \/ Len(packet) >= Mtu)
                 ELSE spoilt /\ Latest.place # 4
    /\ junk' = (Latest.place # 4 /\ (junk \/ Latest.place = 0))
    /\ UNCHANGED <<loopVars, clientVars, seqno, late, reached, plugged, upsets>>

Stays == UNCHANGED <<pc, result, owes>>

\* Out of step with the frames: only SYNC counts.
SeekSync ==
    /\ ReadByte
    /\ ~inSync
    /\ IF Latest.byte = "sync" THEN inSync' = TRUE /\ packet' = <<>> /\ escaped' = FALSE
       ELSE UNCHANGED <<inSync, packet, escaped>>
    /\ Stays

TooLong ==
    /\ inSync /\ Len(packet) >= Mtu
    /\ ReadByte
    /\ inSync' = FALSE
    /\ UNCHANGED <<packet, escaped>>
    /\ Stays

InFrame == used > 0 /\ inSync /\ Len(packet) < Mtu

BadSync ==
    /\ InFrame /\ escaped /\ Latest.byte = "sync"
    /\ ReadByte
    /\ inSync' = FALSE
    /\ UNCHANGED <<packet, escaped>>
    /\ Stays

Collect ==
    /\ InFrame /\ Latest.byte # "sync"
    /\ ReadByte
    /\ escaped' = (~escaped /\ Latest.byte = "esc")
    /\ packet' = IF escaped' THEN packet
                 ELSE Append(packet, IF escaped THEN Raw("bad") ELSE Latest)
    /\ UNCHANGED inSync
    /\ Stays

FrameEnds == InFrame /\ ~escaped /\ Latest.byte = "sync"

\* The CRC is right.
Good ==
    Len(packet) = 2 /\ packet[1].part = 1 /\ packet[2].part = 2 /\ packet[1].of = packet[2].of

\* Mutant of Refuse: a frame that is refused loses the step.
RefuseAndSeek ==
    /\ FrameEnds /\ ~Good
    /\ ReadByte
    /\ packet' = <<>> /\ inSync' = FALSE
    /\ UNCHANGED escaped
    /\ Stays

\* Too short, or the CRC is wrong: the SYNC begins the next frame.
Refuse ==
    /\ FrameEnds /\ ~Good
    /\ ReadByte
    /\ packet' = <<>>
    /\ UNCHANGED <<inSync, escaped>>
    /\ Stays

\* Mutant of TakeAck: the number is not compared.
TakeAckAny ==
    /\ FrameEnds /\ Good /\ packet[1].of # Report
    /\ ReadByte
    /\ packet' = <<>>
    /\ Returns("acked")
    /\ UNCHANGED <<inSync, escaped, owes>>

\* An acknowledgement of another packet is passed over, and the next is read.
TakeAck ==
    /\ FrameEnds /\ Good /\ packet[1].of # Report
    /\ ReadByte
    /\ packet' = <<>>
    /\ IF packet[1].of = AckOf(seqno) THEN Returns("acked") ELSE UNCHANGED <<pc, result>>
    /\ UNCHANGED <<inSync, escaped, owes>>

\* A packet of the mote goes to the list that nobody reads, after it has been
\* acknowledged if that was wanted.
TakePacket ==
    /\ FrameEnds /\ Good /\ packet[1].of = Report
    /\ ReadByte
    /\ packet' = <<>>
    /\ pc' = "wait"
    /\ UNCHANGED <<inSync, escaped, result, owes>>

Read == SeekSync \/ TooLong \/ BadSync \/ Collect \/ Refuse \/ TakeAck \/ TakePacket

Forward ==
    \/ Select \/ Greet \/ SendPlatform \/ Platform \/ GreetingEnds \/ NextClient \/ RemoveClient
    \/ ForwardPacket \/ SourceWait \/ FillBuffer \/ Read

Next ==
    \/ Start \/ Forward \/ Expire
    \/ \E c \in Clients : Connect(c) \/ Say(c) \/ FallSilent(c)
    \/ MoteSpeaks \/ Unplug

Spec == Init /\ [][Next]_vars

\* The forwarder runs, time passes, the mote goes on reporting, and a client that
\* is not mute says the whole of its packets.
FairSpec ==
    /\ Spec
    /\ WF_vars(Forward) /\ WF_vars(Expire) /\ WF_vars(MoteSpeaks)
    /\ \A c \in Clients : WF_vars(Say(c))

-----------------------------------------------------------------------------
(* Properties.                                                             *)

\* A write that returns 0 has reached the mote: an acknowledgement that came too
\* late for an earlier write is never taken for that of this one, though each
\* write gives up after ACK_TIMEOUT.
AckMeansDelivered == result = "acked" => reached

\* Damage on the line costs the frames it touches and at most the one behind
\* them: when an undamaged frame ends, the parser has the whole of it and takes
\* it, unless its first SYNC was taken for something else, and that happens only
\* when something damaged came directly before.
IntactFramesTaken ==
    /\ pc = "read" /\ used > 0 /\ Latest.place = 4 /\ ~spoilt => FrameEnds /\ Good
    /\ spoilt => junk

\* The forwarder waits for ever for a client that says nothing more.
Held ==
    /\ pc \in {"greet", "platform", "packet"} /\ mood[cur] = "mute"
    /\ said[cur] < CASE pc = "greet" -> 1 [] pc = "platform" -> 2 [] OTHER -> heard[cur] + 2

\* Every whole packet of a client is forwarded in the end, however many
\* acknowledgements are lost or late and whatever the line does, unless the port
\* is gone, the program has ended, or a client has stopped in the middle of what
\* it had to say and so holds up all the others for ever.
PacketsForwarded ==
    []<>(\/ pc = "exit" \/ ~plugged \/ Held
         \/ \A c \in Clients :
                conn[c] = "open" /\ greeting[c] = "done" => PacketsSaid(c) = PacketsHeard(c))
=============================================================================
