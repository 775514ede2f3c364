# iDCU-IoT gateway: specifications, model checking and proofs

This directory holds TLA+ specifications of the gateway software in `src/`, the
TLC configurations that check them on small instances, and proofs checked by
TLAPS. The specifications are translated from the C code; source lines are named
in `PROJECT.json` (`map`).

Contents: [1 the system](#1-the-system) · [2 modules](#2-modules-and-how-they-correspond-to-the-code) ·
[3 runs](#3-runs) · [4 proofs](#4-proofs) · [5 what is not modelled](#5-what-is-not-modelled) ·
[6 plan](#6-plan) · [7 how to run](#7-how-to-run)

## 1 The system

The gateway reads production counters and work-order inputs from controllers on
the shop floor and reports them to a middleware server.

```
 iDCU board --UART--> IoTManager ==Modbus/TCP==> iDCU driver --+
 PLCs, meters ------TCP-------------------------> other drivers-+--> SysV queue, key 1
                                                                |         |
            CommunicationManager (forks one driver per device) -+     tagServer --TCP--> middleware

 TCP client --> M2MManager   --+--> queue 2222 --> CommManager or UartManager --> radio network, board
 UDP clients -> SetupManager --+--> queue 3333 --> RealTimeDataManager --> node table, reboot
                     |
                     +--> network settings (four files, two scripts)
```

| Component | State it keeps | Operations | Interacts with | What is hard |
|---|---|---|---|---|
| **tagServer** (`src/tagServer.c`, `src/lib/ETRI_Registration.c`, `src/lib/TCPSocket.c`) | the socket `tcp`, retry counters, the message just received; a database handle per registration | connect, register (gateway node, PAN, sensor node, transducers), take a message and send it, reconnect | queue 1 (receives), middleware (TCP), SQLite | peers that close, time-outs whose answers come late, a leak per failed registration, the loss of the message in hand |
| **iDCU driver** (`src/driver/iDCU_IoT.c`) | `woPastData`, `cntPastData`, `preQty`, receive buffer, `sendType` of the sender thread | poll, receive, parse, compare with the last reply, report | controller (Modbus/TCP), queue 1 (sends, without waiting) | replies cut or run together by TCP, bytes inside a reply that look like a header, counter resets and wrap-around, a full queue, a sender thread beside the receiving loop |
| **CommunicationManager** | none after forking | fork one driver per device, chosen by its name | drivers | nobody restarts a driver |
| **PLC and meter drivers** (`PLCS_10/12/12ex.c`, `GN1200.c`) | receive buffer, `indexCount` | listen or poll, receive, cut into frames, report (GN1200: print) | PLC or meter, queue 1 | frames cut anywhere, reads thrown away when the buffer is full, frames with missing fields |
| **PLC listener, sensor-network managers** (`PLCS-12.c`, `CommManager.c`, `UartManager.c`) | `receiveBuffer`, parser index | serve one PLC; read a serial port, check and report or store frames | PLC, radio bridge, I/O board, queues 1 and 1111 | check sums computed over the wrong bytes, buffers that fill for ever |
| **IoTManager** (`src/IoTManager.c`) | `node`, `pastData`, `io`, table of counters in SQLite | UART events, counter restore after a restart of the board, Modbus server, clear a counter | board (UART), SQLite, iDCU driver | busy database, three threads on shared data, restart races |
| **M2MManager**, **SetupManager** (commands) | receive buffer, rows of `tb_comm_status` | delete, change, reboot a node; list, status, data, time | CommManager or UartManager (queue 2222), RealTimeDataManager (queue 3333), SQLite | one command is several steps in several processes, any of which may fail alone |
| **SetupManager** (settings) | `device`, `saveDev`, four files | show and set the network settings, run two scripts | `configRW.c`, wpa_supplicant | a file is empty while it is written, files that belong together, fields that fill their array |
| **Serial forwarder** (`sf.c`, `sfsource.c`, `serialsource.c`) | clients, parser of the port, sequence number | take clients, forward their packets with acknowledgement, acknowledge the mote's | TCP clients, mote | one thread that blocks for a client, late acknowledgements, damaged frames |
| **RealTimeDataManager.c**, **IoT_Listen** | none | take from queue 1, forward to localhost | queue 1 | competes with tagServer for messages |

Processes share nothing but the message queues and database files; the threads
of a process share its globals. The target is a 32-bit ARM (the Makefiles call
`arm-linux-gcc`), so `UINT32` (`unsigned long`) has 32 bits. With the kernel's
default of 16384 bytes a queue holds 15 messages of 1028 bytes.

What makes each part correct:

- *tagServer*: nothing that was put on the queue is sent twice or out of order;
  no report is forgotten without a failure; the middleware is told of parents
  before children and of all of them before a report; the loop never hangs.
- *driver*: what it reports adds up. No unit is reported twice, none is invented
  by a reset or a lost reply, and what is missing was refused by the queue.
- *IoTManager*: a counter never goes back, in the table or on the board, unless a
  client cleared it; a restarted board is given its counters back; a reply to a
  client shows one frame, never a mixture; no client can keep others out.
- *PLC drivers, listener, sensor-network managers*: a report is one frame of the
  device, in order and once, wherever the reads cut the stream; what is lost is lost
  for a reason in the code and not for ever.
- *commands*: each is done once and in order; a node's row goes in the end, because
  two processes delete it, unless both had a reason not to; the network is told.
- *settings*: an answer of success means that the interfaces are configured as asked;
  only a failure of the gateway leaves files that do not fit each other.
- *serial forwarder*: a write that succeeds has reached the mote; damage on the line
  costs little; packets are forwarded in the end.
- *together*: the middleware can tell from what it receives whether something is
  missing, and without failures it learns the state of the device.

`PROJECT.json` lists the hazards with their source lines and the properties
aimed at them.

## 2 Modules and how they correspond to the code

### TagServer

One process, its connection, and the middleware as environment. `pc` is the
place in the code:

| `pc` | code |
|---|---|
| `connect` | `init()`, before `TCPClient` |
| `opendb` | `ETRI_Registration`, before `IoT_sqlite3_open` |
| `regsend`, `regwait` | `sender()`: before `send`, and in `receive()` |
| `poll`, `dequeue`, `report` | the loop of `main`: before `recv`, before `msgrcv`, before `send` |
| `dead` | `main` returned -1 after three failed calls of `init()` |

`booting` tells which of the two calls of `init()` is active. `reg` is the number
of the registration packet: 1, 2, 3 are the gateway node, the PAN and the sensor
node, then comes one packet per row of `transducerinfo`. Reports are numbered in
the order in which `msgsnd` accepted them; `log[n]` is the content of report `n`.

The connection is `conn`, `wire` (packets the middleware has not read) and `acks`
(answers tagServer has not read). `fin` is a connection the middleware has closed
and whose reset has not come back: `send` still succeeds and the packet is gone.
These facts of the code matter most and are kept:

- `receive()` returns 0 whenever the socket is readable, whether it then reads an
  answer, the end of the connection or an error. So any answer counts as the
  answer to the packet just sent, and so does a closed connection.
- `init()` keeps a connected socket and repeats the registration on it up to three
  times, then closes it. The loop of `main` ignores the result of `init()`.
- A failed `ETRI_Registration` returns without `sqlite3_close`. `leaked` counts the
  handles; `FdLimit` is the number of descriptors the process may have.
- `Transducer_Description_Registration` returns an uninitialized `rtrn` when there are
  no rows: `NoTransducerRows` and `NoTransducerRowsFails` are the two outcomes.
- The message in hand is dropped when `send` fails.

`send` blocks when `SockCap` packets are unread (`TCPClient` calls `fcntl` with
`F_GETFL` where `F_SETFL` would be needed, so the socket stays blocking).
A packet is one message of the connection: that TCP could deliver a part of a
packet before a failure is left out, because a part is of no use to the receiver.
`log`, `delivered`, `lost` and `registered` are history variables.

### ReportChannel

The abstract specification: reports are accepted, handed over in the order of
their numbers, or lost. TagServer implements it with `accepted` = `Len(log)`,
`pending` = the reports in the queue, in hand and on the wire, and `handed` =
`delivered`.

### IDCUDriver

One driver per device, their devices, and the shared queue. A reply is a unit
with its kind (input bits, counter, or one with wrong length bytes), its value and
`at`, the number of units the device had counted when it answered. `pc[d]` is
`closed` (before `TCPClient`), `recv` (in `select`/`recv`), `parse` (in
`ParsingReceiveValue_iDCU_IoT`) or `dead`. The parser looks for the bytes `01 02` of a
header at every index, and after a frame its index is one too far. `place` is
what it looks at next of the first reply left in the buffer: its first byte (`front`), its
second (`second`), or a byte further inside (`inside`). Each step of its loop is an action:

- `ParseReply`: a frame seen from its first byte, with length bytes that fit, is taken by
  `selectTag_iDCU_IoT` (`SelectTag`); what follows is looked at from its second byte.
- `RejectFalseHeader`: an io reply looked at from its second byte shows another `01 02` at
  its bytes 6 and 7 (`ShowsHeader`). The length bytes there do not fit, and `return 0` drops
  that reply and everything behind it (`DropAll`).
- `MissReply`: a count reply whose first byte was stepped over shows no header; it alone is
  lost and the next reply is seen from its first byte.
- `TakeFalseHeader`: where counters have `01 02` among their bytes (`mimic`; possible only with
  `Lookalike`), or old bytes follow the last reply, a false header may even fit:
  anything may be taken for a reply, and the parser goes on anywhere or dies.
- `RejectBuffer`: the length bytes of a reply do not fit; everything is dropped.
- `ParseIncomplete`: the last frame is cut off but the old bytes behind it make
  its length fit: it is taken with arbitrary content, the remaining size becomes
  negative and `memcpy` ends the process.
- `ParseEnds`: what lies behind the last frame taken is kept for the next read, where
  it is seen from its first byte: a count reply, or an io reply of which the end is still
  missing. A whole io reply shows its false header and is dropped with the buffer.

`SelectIo`, `SelectBaseline`, `SelectQty` are the paths through `selectTag_iDCU_IoT`, with
`Offer` (`msgsnd`, `IPC_NOWAIT`) as its last step. The counter has `2 * HalfRange`
values, `Printed` is `sprintf("%ld")` of such a value. `made`, `seen`, `origin`,
`queuedQty`, `refusedQty`, `refusedWo`, `misled` and the fields `lo` and `hi` of a message are
history; `misled` says that something else than a reply
was taken for one. A sender thread of an earlier session that is still asleep when the next one
opens finds the number of its socket reused: `stray` is such a thread, and
`StrayPoll` its requests on the new connection.

### Gateway

`IDCUDriver` and `TagServer` as concurrent processes that share `log` and `queue`: `Gateway`
extends the driver module, so `Init`, `Spec` and the like are those of the drivers by
themselves, and has an instance of the server's; its own are `GatewayInit`, `GatewaySpec`, ...
`Consume` of the driver module is replaced by the server's `Dequeue`, `Produce`
of the server module by the driver's `Offer`. `ServerPart` checks that the two
modules' views of the queue agree.

### CounterStore

IoTManager without its network side, with the counter board and the serial line
as environment. `pc` is the place in the main loop:

| `pc` | code |
|---|---|
| `read` | in `read()` of `main` |
| `parse` | in the loop of `uartParsingReceiveValue`, at the next frame |
| `ioclear`, `ioset` | `receiveEvent`: before `io[i] = 0`, before `io[i] = buffer[...]` |
| `begin`, `update`, `commit` | before BEGIN, UPDATE and END TRANSACTION |
| `store` | before `pastData.cnt[i] = node.cnt[i]` |
| `dead` | the process has ended |

`at` is the index `i` of the loops. `SendPoll` is `thread_main`; each element of
`syncs` is a running `thread_syncCount`, before (`CopyPast`) or after its `memcpy`
(`SendRestore`). `db` is the table as committed, `view` the table as the process
itself sees it: all threads use one connection, so the server thread sees what
the main loop has not yet committed. `Die` rolls back.

What the code says of the board is its model: it answers a poll with its
counters and inputs, asks for its counters after a restart (again until it has
them) and takes a restore only while it asks. Whether it answers polls before it
has its counters back cannot be seen in this repository: with `BoardWaits` it does
not, without it may. These facts of the code
matter most:

- `_uartGetCheckSum` is called with the index in the buffer, not with the length
  of the frame. For the first frame of the buffer they agree; behind it the sum
  runs over old bytes of the stack. `DropFrame` and `Misread`: there any frame may
  be dropped, and a damaged one may be accepted.
- The end mark of a restore overwrites the top byte of the last counter (`Spoil`).
  The upper half of the values stands for those with that byte set; properties
  about restored counters leave the last port out (`Sound`).
- `CreateSync` gives the new thread a pointer into its own stack frame
  (`LoseRestore`).
- A failed BEGIN or UPDATE is printed and the frame counts as handled (`refused`).

`causes` is history: what has happened that can make a stored counter go back.
`bare`: the board answered a poll before it had its counters back; `late`: a
restore answered a request of before the last restart; `misread`: a damaged frame
was accepted. `tally` counts the units. When
the database cannot be opened or read at the start, `main` returns; the process
is then as it was before `Start`.

A frame that has arrived in part counts as not yet read: the code keeps it at the
front of the buffer, and when the rest comes it is the first frame. The `memcpy`
of `thread_syncCount` is one step; since restored counters are compared port by
port this makes no difference to the properties.

### IoTManager

CounterStore and the server thread, and what the board does only where there are
clients: its inputs change and it clears a counter on command. `tpc` is `accept`, `recv` (in `select`), `serve` (in
`CommandProcess`) or `crash` (`remainSize` is negative before `memcpy`). `client` tells what
became of the one connection: after the client has closed (`fin`) the first write
may be answered with a reset (`rst`), and the next one ends the process (`Sigpipe`).
`batch` holds the requests one `recv` has returned; `cut` says that the last one was
incomplete. `Disconnect` covers the end of the connection, an error and the time-out
of twenty seconds, which can come at any time a request is missing. `getIOStatus` reads the
inputs one at a time (`ReadIo`; `readAt` is the next one, `bits` what it has), while the main
loop may clear and set any of them; then it writes the reply (`ServeIo`). `frames` and `cleared` are
history for that: the inputs of the frames that were in `io`, or on their way into it, since the
reading began, and the ports that stood cleared in that time. `taken`, `lastIn`,
`pipelined` and `sigpipe` are history, too.

### PollDriver

A driver process of a PLC or a meter, from the fork on. `kind` is the driver's name:
`PLCS10` and `PLCS12` listen, `PLCS12ex` and `GN1200` start a thread that asks; for an
`unknown` name the child does nothing. `pc`: `unborn`, `forked`, `gone` (has returned),
`closed` (before `TCPClient`), `recv`, `parse`, `dead` (a signal). A frame travels in three
parts (the beginning of its header, the rest of the header with the fields, the end), and a
read may end between any two. `TakeFrame`, `CrashOnFrame`, `KeepRest`, `FindHeader` are the
branches of the PLC parsers, `MeterTake`, `MeterIncomplete`, `MeterFind`, `MeterEnds`
those of GN1200. `CrashOnFrame` is a field that `strtok` does not find. `BufferFull` is
a read that does not fit behind what is kept: both are thrown away. The code looks at the size after
its `memcpy` (`PLCS_10.c:154`, `PLCS_12ex.c:198`), so if the two are longer than `receiveBuffer`, the stack
behind it is overwritten: that does no harm, or the process ends.

### FrameReaders

`CommManager`, `UartManager` and `PLCS-12`, which have one main loop. `pc`: `unborn`,
`gone`, `accept`, `recv`, `parse` and `loops` (a parser that does not advance).
`at` is the parser's index, `remainSize` its end of the last frame. `TakeFirst` and
`RefuseFrame` are the check of a frame; `TakeByChance` is a frame behind offset 0, where
the check sum runs over other bytes than the frame's; `FalseFrame` is a header
recognised in the middle of one. PLCS-12 goes by the length of what it has: `PlcKeep` keeps only
what the last read has brought, so a frame that comes in three reads loses its beginning, alone
in the buffer or not. Of the history, `crowded` holds the frames that were behind something
else (serial programs) or together with another frame (PLCS-12), `split` those PLCS-12 had alone but in
more than two reads, `hurt` those thrown away with a read or a session. `ReceiveTooMuch` is a read PLCS-12 throws away, `Discard` any read
of a serial program whose buffer is full (`Deaf`).

### RemoteCommands

`M2MManager` and `SetupManager` with the three processes behind the queues 2222 and
3333 and the node table. `Calls(ask)` are the calls `Pack_Manager` makes for a command,
`todo` what a front process has still to make of them: `PutNode` and `PutEvent` put a
message on a queue (without waiting, and without looking whether the other call
worked), `DeleteRow` and `InfoUpdate` delete the row, `Reply` answers. `TakeNode` is CommManager, which
writes the command to the radio; UartManager (`TakeForUart`, `PutAnswer`) puts an answer on
the queue it reads itself. `TakeEvent`, `Begin` and `DeleteAndEnd` are RealTimeDataManager.
M2MManager may be ended by SIGPIPE, by an incomplete command, or because `socket` or `bind` fails: it
opens its port anew for each client (`ListenFails`).

### LanConfig

The requests GETLANINFO and SETLANINFO of SetupManager, step by step: `todo` is what
SETLANINFO has still to do. A file is empty from `OpenFile` (`fopen`) to `CloseFile`, where
what was printed gets there. `Printed` and the operators around it are what `fprintf`,
`strtok`, `strncpy` and `inet_ntoa` do to a field: a blank field is printed as `(null)`, a
full one has no end and takes the byte behind it along. `Crash` is a failure of the
gateway, at any step. The code has no `fsync`, so a failure may take back files closed
before: `disk[f]` holds the contents `f` has had since the last start, and `Crash` leaves any one of
them. An `fopen` that fails ends the program like a failure that takes nothing back. Addresses are shown and set in different byte order (`Rev`).

### SerialForwarder

The loop `m_deluge_process`, the client protocol and the packet layer of the port.
`pc` is the place in the loop: in the greeting (`greet`, `platform`), reading a packet
(`packet`), waiting for the acknowledgement or reading the port, or `exit`. The parser of the port is
modelled byte by byte (`Read`, with `inSync`, `escaped`, `packet`), since damage and
resynchronisation are what the properties are about. `Expire` is the deadline of
`ACK_TIMEOUT`. A client `speaks`, is `mute` for ever, or has `left`.

### Definitions named "Mutant of ..."

They are variants with a plausible mistake, used to see that each property can
fail; `PROJECT.json` (`mutants`) says which property each one violates.

### Type invariants

Every module states one (`TypeOK`). It is proved for TagServer and CounterStore and
checked in the run `tag_server`; for the other modules it was checked on the
instances of the runs while they were developed and is not part of a run.

## 3 Runs

| Run | Question | Bounds | States |
|---|---|---|---|
| `tag_server` | Is every report accounted for, in order, after registration; is a handle leak final; does TagServer implement ReportChannel; does its loop go on? | 3 messages of 2 types, queue and socket of 2, 1 transducer, 4 descriptors, 4 failures | 180 754 |
| `idcu_counts` | Do reported quantities add up? | counter of 4 values, 2 units, 2 upsets, 2 replies in flight, queue of 1, counters that may show a header | 3 799 113 |
| `idcu_live` | Does a driver come to know the counter of its device? | counter of 2 values, 1 unit, 1 upset, 3 replies in flight, counters that may show a header | 656 494 |
| `gateway` | What can the middleware conclude, and does the state of the device reach it? | one device whose counter has just begun, its input on, or is at its end, its input off, counter of 4 values, 2 units, 1 upset or 1 network failure, queue and socket of 1 | 333 160 |
| `counter_store` | Do counters stay what they are through restarts of the board, a death of the process, a fault? | 2 ports, 2 units, line and reads of 2 frames, 2 starts of the board, 2 requests under way, 1 death, 1 fault | 2 982 598 |
| `iot_clients` | What does a client read while a frame is stored, what can it do to the process? | 2 ports, 1 change of inputs or 1 fault, 2 requests of all kinds, line of 1 frame, a board that is not given its counters back | 1 300 292 |
| `iot_live` | Is the next client served, the board given its counters, and do counters arrive? | 2 ports, line and reads of 2 frames, 1 unit, 1 request of any kind, 1 restart of the board, 1 death or 1 fault, a board that waits | 137 214 |
| `poll_drivers` | Which frames do the PLC and meter drivers report? | 4 frames, 2 upsets, queue of 1, line of 6 parts, reads of 4, buffer of 6; kinds PLCS10, PLCS12ex, GN1200, unknown | 488 877 |
| `frame_readers` | Which frames do the listener and the managers report? | 4 frames, 2 upsets, queue of 1, line and buffer of 6 parts, reads of 5 | 276 476 |
| `remote_commands` | Which commands are done, by whom? | 2 nodes, 2 commands of which 1 only asks, queues of 1, line of 4 parts, 1 fault, both readers of queue 2222 | 1 094 196 |
| `lan_config` | What do the answer, the files and the settings shown mean? | 5 entries of an operator, 2 requests, 1 crash | 975 859 |
| `serial_forwarder` | What does a write return, what does damage cost, who holds up whom? | 2 clients with 1 packet each, 3 sequence numbers, frames too long at 3 bytes, 6 bytes waiting, 1 upset | 295 387 |

Why the bounds are enough for the interesting cases. *tagServer*: four failures
exhaust the three tries of one registration and break a later connection; four
descriptors are used up by three leaked handles, so the cut-off happens; a queue
of two lets one report wait behind the one in hand, and a socket of two lets two
reports be on the wire at a break. One transducer gives four registration
packets, so that retries meet late answers. *Driver*: four counter values put a
wrap-around and the sign change of `%ld` within reach of two units, from every value at
the start; a
queue of one is full as soon as nobody empties it; two upsets allow a reset
followed by an incomplete reply or a lost session; three replies in one read are
needed for a missed reply in the middle, and for one that takes those behind it along.
In `gateway` the counter starts at 1, where the first reply is a baseline and all units
behind it are reported without a disturbance, or at its last value, where it wraps with the
next unit; the others differ from these in `idcu_counts` only in how soon that
happens. In this run no counter shows a header. It allows one disturbance in all
(`CONSTRAINT OneDisturbance`): the driver alone is checked with two, the server alone with
four.

*IoTManager*: two ports are the least for a frame stored port by port and for one
counter whose top byte survives a restore beside one whose top byte does not; two
frames in a read put one behind another; two requests under way at two starts of
the board are needed for a restore that comes a restart too late. One fault is
a damaged frame, a busy database, a failed select, a lost restore or a cut request.
`counter_store` stops at the first cause (`CONSTRAINT NoCause`): behind it both action
properties hold of every step, and the two invariants are proved for all states.
`iot_clients` goes on behind a change of inputs or a fault, not behind both (`CONSTRAINT OneDisturbance`);
`iot_live` goes on behind a fault, such as a restore that goes astray, when there was no client and no death (`CONSTRAINT FaultAlone`).
There the counters of a frame differ from the stored ones because the board
answers polls with its counters at zero, or because a client clears one.

*Frames*: a buffer of six parts is two frames, and four frames
fill it while one is cut. A read of four parts that is thrown away takes the end of one frame and
all of the next with it, so that what was kept is completed by the third. Two upsets let a
driver meet a frame of another form as well. PLCS12 takes the same steps as PLCS10 and is left out of the run. *Commands*: a second
command behind a first one shares a read with it, finds the queue of 1 full, or the
row gone; two nodes are needed for one that is not meant. *Settings*: the entries
differ in what the steps tell apart (interfaces on or off, no protection, WEP with a full
and a short key, WPA, names that are blank or fill their field); two requests
are one that sets and one that sets back what was shown in between. *Forwarder*: three sequence numbers are one more than the late
acknowledgements that fit in the port; one upset is a damaged, cut or unplugged line.

Deadlock is not checked: tagServer may give up at start-up, a driver may die, and
the bounded environments run out of events. Instead, the liveness properties say
what must go on.

Fairness. `WF(ServerStep)`: the process is scheduled and its blocking calls have
time-outs, except `send`, which waits for the middleware; `WF(MiddlewareReads)`: the
middleware reads as long as the connection stands. The driver's `OpenSession`, `Poll`,
`Receive` and `ParseStep` are weakly fair for each device: the forked processes and
threads are scheduled and the controller answers. No fairness is assumed of
failures, resets, device activity or of a read that fills the buffer; in
`idcu_live` the buffer is larger than what can be in flight, in accordance with
a poll interval that is much longer than a pass of the receiving loop.

In CounterStore and IoTManager the threads are scheduled and the board answers
polls and repeats its request (weak fairness). A restore thread or the server
thread that waits to write finds room on the line in the end, because the poll
thread sleeps 500 ms between two writes: strong fairness for `SyncStep` and
`ServeClear`. `Start` is fair: the start script or an operator starts the process
again. No fairness is assumed of deaths, faults, restarts or clients.

PollDriver: `OpenSession`, reads (`Receive` or `BufferFull`) and `Parse` are weakly fair, the
device, the receiver of the queue and the asking thread are not. FrameReaders: the same
for `Accept`, `Receive` and `Parse`. SerialForwarder: the loop, the deadline, the mote and each
client that has not gone mute. Gateway takes the union of its parts. RemoteCommands and
LanConfig have no liveness property: a command or request is a straight line of calls that do
not wait.

What the runs show, in words. The uplink and the iDCU driver:

- No interleaving of late answers, retries and broken connections lets the
  middleware read a report before the three nodes are registered
  (`RegisteredBeforeReport`), although the code ignores the result of `init()`: the
  loop reaches `send` only with a registered, a closed or a broken connection.
- A handle leak is final: once the descriptors are used up without a connection,
  no report is ever delivered again (`CutOffForGood`).
- Every report is delivered or lost in the end (`EveryReportResolved`): the loop takes
  messages for ever, whatever the middleware does, or the process has ended. An idle connection
  that the middleware closes loses a report: the first one after it vanishes without an error,
  the second one is dropped when `send` fails, and so is one more for every failed reconnection.
- A driver reports no unit twice, and none that was not made (`UnitsReportedOnce`): the stretches of two
  reports do not overlap, and no report has more units than its stretch unless something
  else than a reply was taken for one. What it undercounts since its last baseline is exactly what the
  queue refused (`QuantityConserved`). A stray sender changes nothing in this: it only asks more often.
- A driver whose device rests comes to know its counter (`CatchesUp`), although the parser
  misses every second reply of a read and drops all of it behind a missed io reply: what is kept
  of an even number of replies shifts the next read. There are two exceptions, in which every
  count reply may be lost for ever: a second sender thread (reads of io, io, count, count) and
  counters among whose bytes a header shows (reads of io, count).
- The middleware never adds up more than the device counted
  (`MiddlewareNeverOvercounts`), and without a disturbance it learns the counter, unless that rests
  where the driver took its baseline, and the input (`ReachesMiddleware`). The state of the input can stay wrong at the middleware when
  a single report of it is refused or lost, since only changes are reported; otherwise it
  is current (`WoViewCurrent`).

The controller:

- Unless a client clears it, a stored counter goes back for one of three reasons
  only, the ones in `causes` (`NeverGoesBack`); without any one of them in the
  property TLC finds a counter that goes back. They are weaknesses of the protocol
  with the board; no order of polls, restore threads, deaths and busy databases
  adds a fourth.
- A board that answers polls while it asks may ask for ever: its request can arrive
  behind an answer each time and be dropped each time. `BoardServed` therefore is
  about a board that waits.
- A board without these causes is given at least what the table holds, and never
  more than was counted (`RestoredBetween`), except at the last port.
- A frame dropped behind another one is made up for by the next (`CountersArrive`,
  `BoardServed`).
- A reply with counters always shows one frame, because it is made from the table
  and the table is updated by one statement (`WholeReplies`); made from `pastData`
  it would not. `getIOStatus` reads `io` input by input without a lock: a reply may mix
  inputs of several frames, and show as off an input that the main loop had cleared and not yet set
  again. Nothing else: each input comes from a frame that was there in the time of the
  reading (`InputsReal`).
- Only a client that sends a request before it has the last answer can end the
  process by leaving (`OneRequestIsSafe`). A cut request ends it too. A client that is
  left is gone after twenty seconds at the latest (`NextClientServed`).

The drivers and programs that cut streams into frames:

- A PLC driver's report is made of one frame wherever the reads end, except after a
  read of the session was thrown away because the buffer was full: what was kept is then
  completed with what comes behind the hole (`WholeFrames`). Frames are reported
  once and in order over all sessions (`OnceInOrder`). A frame whose header
  arrives in one piece is offered in the end, or the process has ended (`FramesArrive`); one whose header is
  cut by a read may be missed, and so is the one that completes another behind a hole.
- In the programs with a check sum, a frame alone in the buffer is reported whole, in
  order and once; behind another one the check sum does not protect it (`SoundInOrder`). What
  is lost was thrown away with a read or a session, stood behind something in the buffer of a serial
  program, or PLCS-12 had it in the buffer with another frame or in more than two reads
  (`LostWereCrowdedOrSplit`). The serial programs hear every other frame however the reads cut it, unless
  noise and pieces of frames have filled the buffer, which jams them for ever. PLCS-12 loses a frame that
  comes in three reads; the end of it that is kept stands in front of the next one, so the later frames
  of the session may be lost with it (`FramesHeard`).

Commands, settings and the forwarder:

- However the stream is cut, a command is handled at most once and in order
  (`HandledOnceInOrder`). One that is not cut by the end of a read is always taken, with several in a
  read and whatever became of those before it (`CommandsTaken`); a cut one may be
  lost, or taken with whatever node the memory behind it holds.
- The row of a node stays only when the front process found the database locked and also the
  event to RealTimeDataManager was refused, lost in a restart or is still to be done
  (`DeletedUnlessExplained`). Each of the two calls makes up for the other, which no code looks
  at. The network is told for the same reasons only (`HeardUnlessExplained`), and not at all
  where UartManager reads the queue.
- UartManager answers commands on the queue it reads itself. Once that is full of
  such answers no command passes before a restart (`MuteForGood`).
- An answer of success to SETLANINFO is true of every interface switched on
  (`AnswerTrue`). Files are empty or disagree only behind a failure of the gateway that came while they were
  written, or took back what had been written since the start (`TornOnlyAfterCrash`).
- Settings that a client sends back as they were shown protect the radio no better and
  often worse, since the reply does not carry the keys as they were entered
  (`SentBackOnlyWeakens`).
- A stale acknowledgement is never taken for that of a later write (`AckMeansDelivered`).
  With `SeqMod = 4` disturbances and the frames on the line are fewer than the sequence
  numbers; section 4 has the exact condition. Damage
  costs the frames it touches and at most the one behind (`IntactFramesTaken`). One
  client that stops in the middle of its greeting or a packet holds up all the others for ever,
  and nothing else does (`PacketsForwarded`).

## 4 Proofs

The theorems hold for all values of the constants that satisfy the `...Assumption` of the
module: any number of devices, ports, clients, nodes and frames, any positive capacities,
any width of a counter, any number of resets, restarts, lost sessions, faults and
damaged frames. Each module `X_proofs` extends `X`. `IoTManager_proofs` is also about
CounterStore, `Gateway_proofs` also about IDCUDriver.

| Module | Theorem | Statement |
|---|---|---|
| `TagServer_proofs` | `TypeCorrect` | `Spec => []TypeOK` |
| | `ReportsAccounted` | `Spec => []EveryReportAccounted` |
| | `InOrder` | `Spec => []DeliveredInOrder` |
| | `RegistrationComesFirst` | `Spec => RegisteredBeforeReport` |
| | `StaysCutOff` | `Spec => CutOffForGood` |
| | `TagServerImplementsChannel` | `Spec => ImplementsChannel` |
| `Gateway_proofs` | `TypeCorrect` | `Spec => []TypeOK` |
| | `ReportedAtMostOnce` | `Spec => []UnitsReportedOnce` |
| | `NothingElseIsLost` | `Spec => []QuantityConserved` |
| | `PartsSound` | what the two theorems above and `ReportsAccounted`, `InOrder` say holds in the composition |
| | `GatewayServerPart` | `GatewaySpec => ServerPart` |
| | `WoKnown` | `GatewaySpec => []WoViewCurrent` |
| | `MiddlewareRight` | `GatewaySpec => []MiddlewareNeverOvercounts` |
| `IoTManager_proofs` | `TypeCorrect` | `Spec => []TypeOK` |
| | `StoredCorrect` | `Spec => []StoredUnlessRefused` |
| | `StoredNeverBack` | `Spec => NeverGoesBack` |
| | `RestoredRight` | `Spec => RestoredBetween` |
| | `ClientsDisturbNothing` | `NetSpec => [](TypeOK /\ StoredUnlessRefused)` |
| | `RepliesWhole` | `NetSpec => []WholeReplies` |
| | `WaitingIsSafe` | `NetSpec => []OneRequestIsSafe` |
| | `RepliesShowInputs` | `NetSpec => InputsReal` |
| `PollDriver_proofs` | `TypeCorrect` | `Spec => []TypeOK` |
| | `FramesStayWhole` | `Spec => []WholeFrames` |
| | `ReportedOnceInOrder` | `Spec => []OnceInOrder` |
| `FrameReaders_proofs` | `TypeCorrect` | `Spec => []TypeOK` |
| | `SoundOnceInOrder` | `Spec => []SoundInOrder` |
| | `NothingAloneIsLost` | `Spec => []LostWereCrowdedOrSplit` |
| `RemoteCommands_proofs` | `TypeCorrect` | `Spec => []TypeOK` |
| | `TakenOnceInOrder` | `Spec => []HandledOnceInOrder` |
| | `NoneLeftBehind` | `Spec => []CommandsTaken` |
| | `RowsDeleted` | `Spec => []DeletedUnlessExplained` |
| | `NodesTold` | `Spec => []HeardUnlessExplained` |
| | `FullUntilRestart` | `Spec => MuteForGood` |
| `LanConfig_proofs` | `TypeCorrect` | `Spec => []TypeOK` |
| | `RepliesTrue` | `Spec => []AnswerTrue` |
| | `FilesWhole` | `Spec => []TornOnlyAfterCrash` |
| | `NeverStronger` | `Spec => SentBackOnlyWeakens` |
| `SerialForwarder_proofs` | `EveryWholeFrameTaken` | `Spec => []IntactFramesTaken` |
| | `AcksAreTrue` | `Spec => [](Few => AckMeansDelivered)` |

The arguments:

- **TagServer.** `TypeOK` is not inductive: that `startTries` does not fall below zero
  needs that a start-up that goes on has a try left (`ServerType`). The invariant `IInv`
  behind the reports has five parts: the queue holds the last `Len(queue)` numbers in
  order (`QueueInv`); the report in hand is the one taken last (`HandInv`); a connection
  carries no report while tagServer registers and nothing once it is broken, which is
  why closing it, or connecting anew, loses nothing (`LinkInv`); delivered reports
  precede those on the wire, which precede the one in hand (`OrderInv`); and what has
  left the queue is in exactly one of the places where it can be (`FateInv`). The
  refinement proof uses the order: the report the middleware reads is the smallest
  pending one. `RegInv` adds which registration packets a connection has carried at
  each `pc`. `TypeInv` and `IInv` were checked by TLC before they were proved.
- **IDCUDriver.** What is in the buffer and on its way from a controller was counted in the
  order in which it comes, all of it after the last reply taken over (`OrderInv`); then the
  stretches that reports stand for end where the next begin (`ReportInv`), even where the
  counter has wrapped or the parser has dropped replies, one or many: what is left of a buffer in order
  is in order. A report tells of no more units
  than its stretch has (`QtyInv`): what a counter misses in resets and when it wraps only
  grows, also from one late reply to the next (`MissedInv`). This is so until something else than a reply is
  taken for one (`misled`).
- **Gateway.** The drivers and tagServer share the queue alone. A step of either is a step of
  the other that takes a message, or posts one (`GatewayServerPart`, and the same
  for the drivers), so the invariants of both modules carry over; `WoInv` adds that the
  last report of an input that was accepted is the input the driver knows. The sum of what
  the middleware is told never exceeds where the stretch of the next report begins, nor what
  was made in the end; the reports arrive in the order of their stretches. (`LeastOf`
  takes the first place where that would fail.)
- **CounterStore.** `StoredUnlessRefused` speaks of the places between two reads only;
  `Agree` says of every place of the main loop how memory, table and uncommitted table
  are related. No other thread writes any of them, and a death rolls back to
  a state of the same kind. `NeverGoesBack` needs what lies between the table and the
  number really counted: every frame under way, restore request, command and thread
  carries a number between the two that it will meet, as long as no cause has arisen
  (`ClimbingInv`: `Numbers`, `Flow`, `Given`), and which of them are of an earlier life
  of the board or the process (`Epochs`).
- **IoTManager.** The network side writes one variable of the store at most, when a client clears a
  counter. A client that does not pipeline has one request under way at most
  (`SessionInv`); the table, the uncommitted table and the counters in memory are always
  those of whole frames (`WholeInv`). Each input `getIOStatus` has read so far is in a frame of `frames` or was
  cleared, and while it reads, what the main loop has in `io` is recorded there (`ReadInv`).
- **PollDriver.** Parts in the buffer and on the line are in the order of the frames, adjacent
  ones fit unless a read was thrown away in this session (`OrderInv`, `HoleInv`), and belong
  to later frames than all that was reported (`LogInv`).
- **FrameReaders.** The parts read and those on the line form one `Stream`, always in the order
  in which they were sent (`StreamInv`). A serial program has taken nothing that lies at or
  behind a beginning of a frame it has not parsed yet (`SerialInv`). The buffer
  of PLCS-12 holds one frame from its beginning as long as the reads are in step (`PlcInv`); two frames
  in it are crowded, and one in more than two reads is split (`AloneInv`). For `LostWereCrowdedOrSplit`, a frame that came alone and
  is not stored lies whole in the `Stream`, behind the last frame taken, and once all of it is
  in the buffer of a serial program it is the first thing there and the
  parser stands on it (`LostInv`).
- **RemoteCommands.** What the parser has not passed was sent after all that was taken
  (`StreamInv`, `HandledInv`); a command that was not cut is on the line, taken or
  about to be (`TakenInv`); each call of a command taken is still to be made, was made,
  or failed (`OutcomeInv`).
- **LanConfig.** Which steps of the plan `todo` are still ahead decides which files already
  hold the new settings (`DoneInv`, `ValueInv`) and which may be empty
  (`TornInv`). What a failure may leave of a file was printed from some settings, or is empty
  (`DiskInv`). `RadioInv` is the surprising part: where the two files of the radio
  differ after a failure, what the server shows protects nothing.
- **SerialForwarder.** Each byte of an undamaged frame has its neighbours (`Framed`), and the
  parser is at the place in its packet that the last byte says, unless that frame is
  spoilt (`InsideSound`, `OutsideSound`). An acknowledgement that is still under way was
  written at most so many writes ago as there were disturbances and frames in front of it
  (`OwedYoung`, `LineYoung`), hence not `SeqMod` writes ago, when its number comes again
  (`NoImpostor`). The hypothesis `Few` bounds the two: with 256 numbers it holds for lines of 384
  bytes and 127 disturbances, say. Beyond, a stale acknowledgement may bear the
  number of a new packet (with `SeqMod = 1` TLC shows one), and the protocol cannot tell.

Every safety invariant and action property of a run is stated by a theorem
(`AckMeansDelivered` under the hypothesis `Few`). Only model-checked are the liveness properties, since fairness and ENABLED are out of the prover's reach:
`EveryReportResolved`, `CatchesUp`, `ReachesMiddleware`, `CountersArrive`,
`NextClientServed`, `BoardServed`, `FramesArrive`, `FramesHeard`, `PacketsForwarded`.

## 5 What is not modelled

Abstractions of the modules, beyond those of section 2:

- *IoTManager*: a serial buffer filled up by noise, failures of `socket`, `bind`,
  `listen` and `pthread_create`, a restore written to another open file, and
  the time functions that nothing calls.
- *PollDriver*: the fields of a frame, but for whether one is missing or blank.
- *FrameReaders*: a serial read never overflows the buffer. A false frame at offset 0 is
  refused by its check sum; a check that hits by chance is possible only behind
  offset 0. A `bind` that fails is tried again. What is done with the messages of queue
  1111 is outside, as its reader expects another layout than CommManager sends. The counters UartManager
  stores are left out (it joins their four bytes without shifting them, `UartManager.c:482`, and
  ignores an update that fails): no property is about their value.
- *RemoteCommands*: a command cut between its first two bytes; a read of 1024 bytes
  that commands fill. RealTimeDataManager is the only reader of queue 3333; the
  counters it takes from queue 1111 are one more user of the database. Rows are never
  inserted. A lost datagram is one that was never sent. The contents of replies are left out.
- *LanConfig*: netmask, gateway and name server are written and read as the address is.
  `auth_alg` and `key_flag` are 0 in every file. Names and keys are one word.
  The scripts that start the gateway and configure interfaces are environment.
- *SerialForwarder*: frames have four bytes on the line, and the CRC tells every
  damaged one. A read that ends inside a frame is a disturbance: the mote pauses between
  frames, or else the deadline is never looked at (`serialsource.c:321`). So `PacketsForwarded` rests on the fairness
  of the mote: one that falls silent in the middle of a frame holds the program for ever. A structure of
  the port begins zeroed, though `memset` is given the size of a pointer
  (`serialsource.c:278`).
- Logging, printing, time stamps, the layout of packets.

Parts left out:

- `thread_receive` and `thread_sender` of `tagServer.c` are never created. Hence
  `ETRI_Deregistration.c`, reached only from there.
- `RealTimeDataManager.c` and `IoT_Listen.c`, which are the same program: `TCPClient`
  is given the port as a string, so it never connects and loses every
  message it takes.
- Functions nothing calls: `getNodeStatusData` and `getNodeData` of SetupManager,
  `remoteNodeCommand` and `selectTag` of UartManager, `Pack_Manager` and `AustemTimeSync` of
  PLCS-12, `dispatch_packet` and `read_serial_packet` of the forwarder.
- `serialtonet.c` (does not build with the present headers and starts no forwarder), the
  radio bridges, `sfsock.c`, `DBSchedule`, `PointManager`, the M2M protocol libraries of an older
  version, `RealTimeDataManager_backup.c` and manual test programs.
- The XML parsers and the log: input and output without state between calls.
- Vendored headers (`sqlite3.h`, `expat.h`).

## 6 Plan

Done: all modules of section 2, their runs, and the theorems of section 4.

Compositions not built: IDCUDriver with IoTManager in place of its external
device. Either module is checked against a device that does all the other one
may do, and the product is beyond TLC's reach with a counter that wraps.

## 7 How to run

```
tlc -workers 2 -config MCTagServer.cfg MCTagServer
tlapm TagServer_proofs.tla
tlapm IoTManager_proofs.tla
```
