-------------------------- MODULE IoTManager_proofs --------------------------
(***************************************************************************)
(* Proofs about CounterStore and IoTManager, the process without and with  *)
(* its network side, for every number of ports, every capacity and every   *)
(* bound: the types, that the table and the memory agree unless the        *)
(* database refused the last change, that stored counters do not go back,  *)
(* and what clients are told.                                              *)
(***************************************************************************)
EXTENDS IoTManager, SequenceTheorems, TLAPS

-----------------------------------------------------------------------------
(* The types, in five groups.                                              *)

BoardType ==
    /\ count \in Counts /\ input \in Inputs /\ asking \in BOOLEAN
    /\ restarts \in 1 .. MaxRestarts /\ tally \in Counts

LineType ==
    /\ toManager \in Seq(Frame) /\ Len(toManager) <= LineCap
    /\ toBoard \in Seq(Command) /\ Len(toBoard) <= LineCap

MainType ==
    /\ pc \in PcValues
    /\ rx \in Seq(Frame) /\ Len(rx) <= ReadCap /\ behind \in BOOLEAN
    /\ (pc = "parse" => rx # <<>>)
    /\ node \in Counts /\ nodeIn \in Inputs /\ at \in Port
    /\ io \in Inputs /\ pastData \in Counts

DbType == db \in Counts /\ view \in Counts /\ refused \in BOOLEAN

RestType ==
    /\ syncs \in Seq([copied : BOOLEAN, cnt : Counts, epoch : Nat])
    /\ causes \subseteq Causes
    /\ crashes \in 0 .. MaxCrashes /\ faults \in 0 .. MaxFaults

TypeInv == BoardType /\ LineType /\ MainType /\ DbType /\ RestType

\* The fields of the frames and commands.
LEMMA FrameFields ==
    ASSUME NEW f \in Frame
    PROVE  /\ f.kind = "data" => f.cnt \in Counts /\ f.in \in Inputs
           /\ f.kind = "ask" => f.epoch \in Nat
  BY DEF Frame, NoiseFrame

LEMMA CommandFields ==
    ASSUME NEW c \in Command
    PROVE  /\ c.kind = "restore" => c.cnt \in Counts /\ c.epoch \in Nat
           /\ c.kind = "clear" => c.port \in Port
  BY DEF Command, Poll

LEMMA NewFrames ==
    ASSUME BoardType
    PROVE  DataFrame \in Frame /\ AskFrame \in Frame /\ NoiseFrame \in Frame
  BY CounterStoreAssumption DEF BoardType, DataFrame, AskFrame, NoiseFrame, Frame

LEMMA NewCommands ==
    /\ Poll \in Command
    /\ \A v \in Counts, e \in Nat : Restore(v, e) \in Command
  BY DEF Command, Poll, Restore

\* The counters after the top byte of the last one was overwritten.
LEMMA SpoilType ==
    ASSUME NEW v \in Counts
    PROVE  Spoil(v) \in Counts
<1>1. Ports \in Port /\ v[Ports] \in Nat
  BY CounterStoreAssumption DEF Port, Counts, Count
<1>2. v[Ports] % HalfRange \in 0 .. HalfRange - 1
  BY <1>1, CounterStoreAssumption
<1>3. HalfRange + (v[Ports] % HalfRange) \in Count
  BY <1>2, CounterStoreAssumption DEF Count
<1> QED
  BY <1>3 DEF Spoil, Counts

\* A thread taken out of a sequence of threads.
LEMMA RemoveAtType ==
    ASSUME NEW S, NEW s \in Seq(S), NEW i \in DOMAIN s
    PROVE  Sq!RemoveAt(s, i) \in Seq(S)
<1>1. SubSeq(s, 1, i - 1) \in Seq(S) /\ SubSeq(s, i + 1, Len(s)) \in Seq(S)
  OBVIOUS
<1> QED
  BY <1>1 DEF Sq!RemoveAt

\* What sequences over any set keep.
LEMMA ElementType == ASSUME NEW S, NEW s \in Seq(S), NEW i \in DOMAIN s PROVE s[i] \in S
  OBVIOUS

LEMMA ExceptType ==
    ASSUME NEW S, NEW s \in Seq(S), NEW i \in DOMAIN s, NEW x \in S
    PROVE  [s EXCEPT ![i] = x] \in Seq(S)
  OBVIOUS

LEMMA SplitType ==
    ASSUME NEW S, NEW s \in Seq(S), NEW n \in 1 .. Len(s)
    PROVE  /\ SubSeq(s, 1, n) \in Seq(S) /\ Len(SubSeq(s, 1, n)) = n
           /\ SubSeq(s, n + 1, Len(s)) \in Seq(S)
           /\ Len(SubSeq(s, n + 1, Len(s))) <= Len(s)
  OBVIOUS

LEMMA InitType == Init => TypeInv
<1> SUFFICES ASSUME Init PROVE TypeInv
  OBVIOUS
<1>1. 0 \in Count /\ 1 \in Count
  BY CounterStoreAssumption DEF Count
<1>2. BoardType
  BY <1>1, CounterStoreAssumption DEF Init, BoardType, Counts, Inputs
<1>3. LineType
  BY CounterStoreAssumption DEF Init, LineType
<1>4. MainType
  <2>1. at \in Port /\ pc \in PcValues /\ pc # "parse"
    BY CounterStoreAssumption DEF Init, Port, PcValues
  <2>2. node \in Counts /\ pastData \in Counts
    BY <1>1 DEF Init, Counts
  <2>3. nodeIn \in Inputs /\ io \in Inputs
    BY DEF Init, Inputs
  <2>4. rx = <<>> /\ behind = FALSE
    BY DEF Init
  <2>5. rx \in Seq(Frame) /\ Len(rx) <= ReadCap
    BY <2>4, CounterStoreAssumption
  <2> QED
    BY <2>1, <2>2, <2>3, <2>4, <2>5 DEF MainType
<1>5. DbType
  BY <1>1 DEF Init, DbType, Counts
<1>6. RestType
  BY CounterStoreAssumption DEF Init, RestType, Causes
<1> QED
  BY <1>2, <1>3, <1>4, <1>5, <1>6 DEF TypeInv

-----------------------------------------------------------------------------
(* Each step keeps the types.                                              *)

LEMMA TransmitType ==
    ASSUME LineType, NEW f \in Frame, Transmit(f)
    PROVE  toManager' \in Seq(Frame) /\ Len(toManager') <= LineCap
  BY CounterStoreAssumption DEF LineType, Transmit

LEMMA TailType ==
    ASSUME LineType, toBoard # <<>>, toBoard' = Tail(toBoard)
    PROVE  /\ toBoard' \in Seq(Command) /\ Len(toBoard') <= LineCap
           /\ Head(toBoard) \in Command
  BY CounterStoreAssumption DEF LineType

\* The board and the line.
LEMMA BoardStepType == TypeInv /\ BoardStep => TypeInv'
<1> SUFFICES ASSUME TypeInv, BoardStep PROVE TypeInv'
  OBVIOUS
<1> USE DEF TypeInv
<1>1. ASSUME NEW p \in Port, CountUnit(p) PROVE TypeInv'
  <2>1. count' \in Counts /\ tally' \in Counts
    BY <1>1, CounterStoreAssumption DEF CountUnit, BoardType, Counts, Count
  <2> QED
    BY <1>1, <2>1 DEF CountUnit, BoardType, LineType, MainType, DbType, RestType,
       lineVars, mainVars, dbVars, upsetVars
<1>2. CASE BoardRestarts
  <2>1. count' \in Counts
    BY <1>2, CounterStoreAssumption DEF BoardRestarts, Counts, Count
  <2>2. restarts' \in 1 .. MaxRestarts
    BY <1>2, CounterStoreAssumption DEF BoardRestarts, BoardType
  <2>3. LineType'
    BY <1>2, CounterStoreAssumption DEF BoardRestarts, LineType
  <2> QED
    BY <1>2, <2>1, <2>2, <2>3 DEF BoardRestarts, BoardType, MainType, DbType, RestType,
       mainVars, dbVars, upsetVars
<1>3. CASE BoardAsks
  <2>1. LineType'
    BY <1>3, NewFrames, TransmitType DEF BoardAsks, LineType
  <2> QED
    BY <1>3, <2>1 DEF BoardAsks, BoardType, MainType, DbType, RestType,
       boardVars, mainVars, dbVars, upsetVars
<1>4. CASE AnswerPoll
  <2>1. LineType'
    BY <1>4, NewFrames, TransmitType, TailType DEF AnswerPoll, LineType
  <2>2. causes' \subseteq Causes
    BY <1>4 DEF AnswerPoll, RestType, Causes
  <2> QED
    BY <1>4, <2>1, <2>2 DEF AnswerPoll, BoardType, MainType, DbType, RestType,
       boardVars, mainVars, dbVars, upsetVars
<1>5. CASE TakeRestore
  <2>1. LineType' /\ count' \in Counts
    BY <1>5, TailType, CommandFields DEF TakeRestore, LineType, BoardType
  <2>2. causes' \subseteq Causes
    BY <1>5 DEF TakeRestore, RestType, Causes
  <2> QED
    BY <1>5, <2>1, <2>2 DEF TakeRestore, BoardType, MainType, DbType, RestType,
       mainVars, dbVars, upsetVars
<1>6. CASE DamageFrame
  <2>1. LineType'
    BY <1>6, NewFrames DEF DamageFrame, LineType
  <2>2. faults' \in 0 .. MaxFaults
    <3>1. faults \in 0 .. MaxFaults /\ MaxFaults \in Nat
      BY CounterStoreAssumption DEF RestType
    <3>2. faults < MaxFaults /\ faults' = faults + 1
      BY <1>6 DEF DamageFrame, Fault
    <3> QED
      BY <3>1, <3>2
  <2> QED
    BY <1>6, <2>1, <2>2 DEF DamageFrame, BoardType, MainType, DbType, RestType,
       boardVars, mainVars, dbVars
<1> QED
  BY <1>1, <1>2, <1>3, <1>4, <1>5, <1>6 DEF BoardStep

\* The main loop.
LEMMA FrameDoneType ==
    ASSUME MainType, pc = "parse", FrameDone(Tail(rx))
    PROVE  /\ rx' \in Seq(Frame) /\ Len(rx') <= ReadCap
           /\ behind' \in BOOLEAN /\ pc' \in PcValues
           /\ (pc' = "parse" => rx' # <<>>)
           /\ Head(rx) \in Frame
<1>1. rx \in Seq(Frame) /\ rx # <<>> /\ Len(rx) <= ReadCap
  BY DEF MainType
<1>2. Tail(rx) \in Seq(Frame) /\ Len(Tail(rx)) <= ReadCap /\ Head(rx) \in Frame
  BY <1>1, CounterStoreAssumption
<1> QED
  BY <1>2 DEF FrameDone, PcValues

LEMMA LoopType ==
    ASSUME MainType, NEW next \in PcValues, NEW end \in PcValues, Loop(next, end)
    PROVE  at' \in Port /\ pc' \in {next, end}
  BY CounterStoreAssumption DEF MainType, Loop, Port

LEMMA MainStepType == TypeInv /\ MainStep => TypeInv'
<1> SUFFICES ASSUME TypeInv, MainStep PROVE TypeInv'
  OBVIOUS
<1> USE DEF TypeInv
<1>1. CASE ReadUart
  <2>1. PICK n \in 1 .. Len(toManager) :
            /\ n <= ReadCap
            /\ rx' = SubSeq(toManager, 1, n)
            /\ toManager' = SubSeq(toManager, n + 1, Len(toManager))
    BY <1>1 DEF ReadUart
  <2>2. toManager \in Seq(Frame) /\ Len(toManager) <= LineCap
    BY DEF LineType
  <2>3. rx' \in Seq(Frame) /\ Len(rx') <= ReadCap /\ rx' # <<>>
    <3>1. rx' \in Seq(Frame) /\ Len(rx') = n
      BY <2>1, <2>2, SplitType
    <3>2. n \in Nat /\ n > 0 /\ n <= ReadCap
      BY <2>1, <2>2
    <3> QED
      BY <3>1, <3>2
  <2>4. toManager' \in Seq(Frame) /\ Len(toManager') <= LineCap
    BY <2>1, <2>2, SplitType, CounterStoreAssumption
  <2> QED
    BY <1>1, <2>3, <2>4 DEF ReadUart, BoardType, LineType, MainType, DbType, RestType,
       boardVars, dbVars, upsetVars, PcValues
<1>2. CASE DropFrame
  <2>1. MainType'
    BY <1>2, FrameDoneType DEF DropFrame, MainType
  <2> QED
    BY <1>2, <2>1 DEF DropFrame, BoardType, LineType, DbType, RestType,
       boardVars, lineVars, dbVars, upsetVars
<1>3. CASE TakeAsk
  <2>1. MainType'
    BY <1>3, FrameDoneType DEF TakeAsk, MainType
  <2>2. Head(rx) \in Frame
    BY <1>3, FrameDoneType DEF TakeAsk
  <2>3. \A e \in Nat : [copied |-> FALSE, cnt |-> pastData, epoch |-> e]
                          \in [copied : BOOLEAN, cnt : Counts, epoch : Nat]
    BY DEF MainType
  <2>4. PICK e \in Nat : syncs' = Append(syncs, [copied |-> FALSE, cnt |-> pastData,
                                                epoch |-> e])
    BY <1>3, <2>2, FrameFields DEF TakeAsk
  <2>6. syncs' \in Seq([copied : BOOLEAN, cnt : Counts, epoch : Nat])
    BY <2>3, <2>4 DEF RestType
  <2>5. causes' \subseteq Causes
    BY <1>3 DEF TakeAsk, RestType, Causes
  <2> QED
    BY <1>3, <2>1, <2>6, <2>5 DEF TakeAsk, BoardType, LineType, DbType, RestType,
       boardVars, lineVars, dbVars, upsetVars
<1>4. CASE TakeData
  <2>1. rx \in Seq(Frame) /\ rx # <<>> /\ Len(rx) <= ReadCap
    BY <1>4 DEF TakeData, MainType
  <2>2. Tail(rx) \in Seq(Frame) /\ Len(Tail(rx)) <= ReadCap /\ Head(rx) \in Frame
    BY <2>1, CounterStoreAssumption
  <2>3. node' \in Counts /\ nodeIn' \in Inputs
    BY <1>4, <2>2, FrameFields, CounterStoreAssumption DEF TakeData, MainType
  <2>4. pc' \in PcValues /\ pc' # "parse" /\ at' \in Port
    BY <1>4, CounterStoreAssumption DEF TakeData, PcValues, Port
  <2>5. MainType'
    BY <1>4, <2>2, <2>3, <2>4 DEF TakeData, MainType
  <2>6. causes' \subseteq Causes
    BY <1>4 DEF TakeData, RestType, Causes
  <2> QED
    BY <1>4, <2>5, <2>6 DEF TakeData, BoardType, LineType, DbType, RestType,
       boardVars, lineVars, dbVars, upsetVars
<1>5. CASE ClearIo
  <2>1. io' \in Inputs
    BY <1>5 DEF ClearIo, MainType, Inputs
  <2> QED
    BY <1>5, <2>1 DEF ClearIo, BoardType, LineType, MainType, DbType, RestType,
       boardVars, lineVars, dbVars, upsetVars, PcValues
<1>6. CASE SetIo
  <2>1. io' \in Inputs
    BY <1>6 DEF SetIo, MainType, Inputs
  <2>2. at' \in Port /\ pc' \in {"ioclear", "begin", "store"}
    BY <1>6, LoopType DEF SetIo, PcValues
  <2> QED
    BY <1>6, <2>1, <2>2 DEF SetIo, BoardType, LineType, MainType, DbType, RestType,
       boardVars, lineVars, dbVars, upsetVars, PcValues
<1>7. CASE Begin
  <2>1. faults' \in 0 .. MaxFaults
    BY <1>7, CounterStoreAssumption DEF Begin, Fault, RestType
  <2> QED
    BY <1>7, <2>1 DEF Begin, BoardType, LineType, MainType, DbType, RestType,
       boardVars, lineVars, PcValues
<1>8. CASE Update
  <2>1. faults' \in 0 .. MaxFaults
    BY <1>8, CounterStoreAssumption DEF Update, Fault, RestType
  <2> QED
    BY <1>8, <2>1 DEF Update, BoardType, LineType, MainType, DbType, RestType,
       boardVars, lineVars, PcValues
<1>9. CASE Commit
  BY <1>9 DEF Commit, BoardType, LineType, MainType, DbType, RestType,
     boardVars, lineVars, upsetVars, PcValues
<1>10. CASE StorePast
  <2>1. pastData' \in Counts
    BY <1>10 DEF StorePast, MainType, Counts
  <2>2. at' \in Port /\ pc' \in PcValues /\ (pc' = "parse" => rx # <<>>)
    BY <1>10, LoopType DEF StorePast, PcValues
  <2> QED
    BY <1>10, <2>1, <2>2 DEF StorePast, BoardType, LineType, MainType, DbType, RestType,
       boardVars, lineVars, dbVars, upsetVars
<1> QED
  BY <1>1, <1>2, <1>3, <1>4, <1>5, <1>6, <1>7, <1>8, <1>9, <1>10 DEF MainStep

\* The other threads, the end of the process and its start.
LEMMA SyncStepType == TypeInv /\ SyncStep => TypeInv'
<1> SUFFICES ASSUME TypeInv, NEW i \in DOMAIN syncs,
                    CopyPast(i) \/ SendRestore(i) \/ LoseRestore(i)
             PROVE  TypeInv'
  BY DEF SyncStep
<1> DEFINE Sync == [copied : BOOLEAN, cnt : Counts, epoch : Nat]
<1>1. syncs \in Seq(Sync) /\ syncs[i] \in Sync
  <2>1. syncs \in Seq([copied : BOOLEAN, cnt : Counts, epoch : Nat])
    BY DEF TypeInv, RestType
  <2> QED
    BY <2>1, ElementType
<1>2. Sq!RemoveAt(syncs, i) \in Seq(Sync)
  BY <1>1, RemoveAtType
<1> USE DEF TypeInv
<1>3. CASE CopyPast(i)
  <2>1. pastData \in Counts
    BY DEF MainType
  <2>2. [[syncs[i] EXCEPT !.copied = TRUE] EXCEPT !.cnt = pastData] \in Sync
    BY <1>1, <2>1
  <2>3. syncs' \in Seq(Sync)
    <3>1. syncs' = [syncs EXCEPT ![i] = [[syncs[i] EXCEPT !.copied = TRUE]
                                                   EXCEPT !.cnt = pastData]]
      BY <1>1, <1>3 DEF CopyPast
    <3> HIDE DEF Sync
    <3> QED
      BY <1>1, <2>2, <3>1, ExceptType
  <2> QED
    BY <1>3, <2>3 DEF CopyPast, BoardType, LineType, MainType, DbType, RestType,
       boardVars, lineVars, mainVars, dbVars, upsetVars
<1>4. CASE SendRestore(i)
  <2>1. Restore(Spoil(syncs[i].cnt), syncs[i].epoch) \in Command
    BY <1>1, SpoilType, NewCommands
  <2>2. LineType'
    BY <1>4, <2>1, CounterStoreAssumption DEF SendRestore, LineType
  <2> QED
    BY <1>2, <1>4, <2>2 DEF SendRestore, BoardType, MainType, DbType, RestType,
       boardVars, mainVars, dbVars, upsetVars
<1>5. CASE LoseRestore(i)
  <2>1. faults' \in 0 .. MaxFaults
    BY <1>5, CounterStoreAssumption DEF LoseRestore, Fault, RestType
  <2> QED
    BY <1>2, <1>5, <2>1 DEF LoseRestore, BoardType, LineType, MainType, DbType, RestType,
       boardVars, lineVars, mainVars, dbVars
<1> QED
  BY <1>3, <1>4, <1>5

LEMMA StepType == TypeInv /\ [Next]_storeVars => TypeInv'
<1> SUFFICES ASSUME TypeInv, [Next]_storeVars PROVE TypeInv'
  OBVIOUS
<1> USE DEF TypeInv
<1>1. CASE SendPoll
  <2>1. LineType'
    BY <1>1, NewCommands, CounterStoreAssumption DEF SendPoll, LineType
  <2> QED
    BY <1>1, <2>1 DEF SendPoll, BoardType, MainType, DbType, RestType,
       boardVars, mainVars, dbVars, upsetVars
<1>2. CASE Crash
  <2>1. crashes' \in 0 .. MaxCrashes
    BY <1>2, CounterStoreAssumption DEF Crash, RestType
  <2>2. rx' \in Seq(Frame) /\ Len(rx') <= ReadCap
    BY <1>2, CounterStoreAssumption DEF Crash, Die
  <2>3. syncs' \in Seq([copied : BOOLEAN, cnt : Counts, epoch : Nat])
    BY <1>2 DEF Crash, Die
  <2> QED
    BY <1>2, <2>1, <2>2, <2>3 DEF Crash, Die, BoardType, LineType, MainType, DbType,
       RestType, boardVars, lineVars, PcValues
<1>3. CASE Start
  <2>1. LineType'
    BY <1>3, CounterStoreAssumption DEF Start, LineType
  <2>2. nodeIn' \in Inputs /\ io' \in Inputs /\ at' \in Port
    BY <1>3, CounterStoreAssumption DEF Start, Inputs, Port
  <2> QED
    BY <1>3, <2>1, <2>2 DEF Start, BoardType, MainType, DbType, RestType,
       boardVars, upsetVars, PcValues
<1>4. CASE UNCHANGED storeVars
  BY <1>4 DEF storeVars, boardVars, lineVars, mainVars, dbVars, upsetVars, BoardType,
     LineType, MainType, DbType, RestType
<1> QED
  BY <1>1, <1>2, <1>3, <1>4, BoardStepType, MainStepType, SyncStepType DEF Next, StoreStep

LEMMA TypeInvariant == Spec => []TypeInv
  BY InitType, StepType, PTL DEF Spec

\* TypeOK of CounterStore: counters, inputs, frames, commands and threads stay
\* in their ranges, and the buffers within their capacities.
THEOREM TypeCorrect == Spec => []TypeOK
<1>1. TypeInv => TypeOK
  BY DEF TypeInv, BoardType, LineType, MainType, DbType, RestType, TypeOK
<1> QED
  BY <1>1, TypeInvariant, PTL

-----------------------------------------------------------------------------
(* The table and the memory.                                               *)

\* StoredUnlessRefused speaks of the places between two reads only.  What makes
\* it inductive: outside a transaction nothing is uncommitted; until a frame is
\* stored, memory and table agree; inside a transaction the connection sees the
\* new counters; and the last loop has copied those below i.
Handling == {"read", "parse", "ioclear", "ioset", "begin", "update"}

Agree ==
    /\ pc # "commit" => view = db
    /\ pc \in {"begin", "update", "commit"} => at = 1
    /\ ~refused /\ pc \in Handling => pastData = db
    /\ ~refused /\ pc = "commit" => view = node
    /\ ~refused /\ pc = "store" =>
           db = node /\ \A p \in Port : p < at => pastData[p] = node[p]

LEMMA AgreeInit == Init => Agree
  BY DEF Init, Agree, Handling

\* The steps of the frame: reading, the inputs, the transaction, the copy.
LEMMA AgreeMain == TypeInv /\ Agree /\ MainStep => Agree'
<1> SUFFICES ASSUME TypeInv, Agree, MainStep PROVE Agree'
  OBVIOUS
<1> USE DEF Agree, Handling
<1>0. MainType /\ DbType
  BY DEF TypeInv
<1>1. CASE ReadUart
  BY <1>1 DEF ReadUart, dbVars
<1>2. CASE DropFrame
  BY <1>2 DEF DropFrame, FrameDone, dbVars
<1>3. CASE TakeAsk
  BY <1>3 DEF TakeAsk, FrameDone, dbVars
<1>4. CASE TakeData
  BY <1>4 DEF TakeData, dbVars
<1>5. CASE ClearIo
  BY <1>5 DEF ClearIo, dbVars
<1>6. CASE SetIo
  <2>1. CASE at < Ports
    BY <1>6, <2>1 DEF SetIo, Loop, dbVars
  <2>2. CASE ~(at < Ports) /\ Changed
    BY <1>6, <2>2 DEF SetIo, Loop, dbVars
  <2>3. CASE ~(at < Ports) /\ ~Changed
    <3>1. pc = "ioset" /\ pc' = "store" /\ at' = 1 /\ pastData = node
      BY <1>6, <2>3 DEF SetIo, Loop, Changed
    <3>2. UNCHANGED <<node, pastData, db, view, refused>>
      BY <1>6 DEF SetIo, dbVars
    <3> QED
      BY <3>1, <3>2
  <2> QED
    BY <2>1, <2>2, <2>3
<1>7. CASE Begin
  BY <1>7 DEF Begin
<1>8. CASE Update
  BY <1>8 DEF Update
<1>9. CASE Commit
  <2>1. at' = 1 /\ pc' = "store" /\ db' = view /\ UNCHANGED <<view, node, refused, pastData>>
    BY <1>9 DEF Commit
  <2>2. \A p \in Port : ~(p < 1)
    BY DEF Port
  <2> QED
    BY <1>9, <2>1, <2>2 DEF Commit
<1>10. CASE StorePast
  <2>1. pc = "store" /\ UNCHANGED <<node, db, view, refused>>
    BY <1>10 DEF StorePast, dbVars
  <2>2. pastData' = [pastData EXCEPT ![at] = node[at]] /\ pastData' \in Counts
    BY <1>0, <1>10 DEF StorePast, MainType, Counts
  <2>3. ASSUME ~refused PROVE \A p \in Port : p <= at => pastData'[p] = node[p]
    BY <1>0, <2>1, <2>2, <2>3 DEF MainType, Port, Counts
  <2>4. CASE at < Ports
    <3>1. at' = at + 1 /\ pc' = "store"
      BY <1>10, <2>4 DEF StorePast, Loop
    <3>2. \A p \in Port : p < at + 1 => p <= at
      BY <1>0 DEF MainType, Port
    <3> QED
      BY <2>1, <2>3, <3>1, <3>2
  <2>5. CASE ~(at < Ports)
    <3>1. pc' \in {"read", "parse"}
      BY <1>10, <2>5 DEF StorePast, Loop
    <3>2. \A p \in Port : p <= at
      BY <1>0, <2>5, CounterStoreAssumption DEF MainType, Port
    <3>3. ASSUME ~refused PROVE pastData' = node
      BY <1>0, <2>2, <2>3, <3>2, <3>3 DEF MainType, Counts
    <3> QED
      BY <2>1, <3>1, <3>3
  <2> QED
    BY <2>4, <2>5
<1> QED
  BY <1>1, <1>2, <1>3, <1>4, <1>5, <1>6, <1>7, <1>8, <1>9, <1>10 DEF MainStep

\* The board and the other threads do not touch what Agree speaks of; the end
\* of the process rolls back, the start reads the table.
LEMMA AgreeStep == TypeInv /\ Agree /\ [Next]_storeVars => Agree'
<1> SUFFICES ASSUME TypeInv, Agree, [Next]_storeVars PROVE Agree'
  OBVIOUS
<1>1. CASE BoardStep \/ SendPoll \/ SyncStep \/ UNCHANGED storeVars
  <2>1. UNCHANGED <<mainVars, dbVars>>
    BY <1>1 DEF BoardStep, CountUnit, BoardRestarts, BoardAsks, AnswerPoll, TakeRestore,
       DamageFrame, SendPoll, SyncStep, CopyPast, SendRestore,
       LoseRestore, storeVars
  <2> QED
    BY <2>1 DEF Agree, mainVars, dbVars
<1>2. CASE MainStep
  BY <1>2, AgreeMain
<1>3. CASE Crash
  BY <1>3 DEF Crash, Die, Agree, Handling
<1>4. CASE Start
  BY <1>4 DEF Start, Agree, Handling
<1> QED
  BY <1>1, <1>2, <1>3, <1>4 DEF Next, StoreStep

\* Whatever the threads, the board and the deaths of the process do, between
\* two reads the table holds what the process has in memory, unless BEGIN or
\* UPDATE failed at the last change of the counters.
THEOREM StoredCorrect == Spec => []StoredUnlessRefused
<1>1. Agree => StoredUnlessRefused
  BY DEF Agree, Handling, StoredUnlessRefused
<1>2. Spec => []Agree
  BY AgreeInit, AgreeStep, TypeInvariant, PTL DEF Spec
<1> QED
  BY <1>1, <1>2, PTL

-----------------------------------------------------------------------------
(* Counters do not go back: the frames on their way.                       *)

\* The frames on their way to the parser, in the order in which it will see them.
Coming == rx \o toManager

\* What is said of a sequence of frames.
RisingData(s, p) ==
    \A i \in 1 .. Len(s) : \A j \in 1 .. Len(s) :
        i < j /\ s[i].kind = "data" /\ s[j].kind = "data" => s[i].cnt[p] <= s[j].cnt[p]

DataWithin(s, p, lo, hi) ==
    \A i \in 1 .. Len(s) : s[i].kind = "data" => lo <= s[i].cnt[p] /\ s[i].cnt[p] <= hi

NoData(s) == \A i \in 1 .. Len(s) : s[i].kind # "data"

NoDataBehindAsk(s, e) ==
    \A i \in 1 .. Len(s) : \A j \in 1 .. Len(s) :
        i < j /\ s[i].kind = "ask" /\ s[i].epoch = e => s[j].kind # "data"

AsksUpTo(s, e) == \A i \in 1 .. Len(s) : s[i].kind = "ask" => s[i].epoch <= e

\* The same frames without some at the front, and perhaps with some damaged.
Thins(s, r) ==
    \E k \in Nat : \A i \in 1 .. Len(r) :
        i + k \in 1 .. Len(s) /\ r[i] \in {s[i + k], NoiseFrame}

LEMMA Thinned ==
    ASSUME NEW s \in Seq(Frame), NEW r \in Seq(Frame), Thins(s, r)
    PROVE  /\ \A p : RisingData(s, p) => RisingData(r, p)
           /\ \A p, lo, hi : DataWithin(s, p, lo, hi) => DataWithin(r, p, lo, hi)
           /\ NoData(s) => NoData(r)
           /\ \A e : NoDataBehindAsk(s, e) => NoDataBehindAsk(r, e)
           /\ \A e : AsksUpTo(s, e) => AsksUpTo(r, e)
<1>1. PICK k \in Nat : \A i \in 1 .. Len(r) :
                          i + k \in 1 .. Len(s) /\ r[i] \in {s[i + k], NoiseFrame}
  BY DEF Thins
<1>2. Len(r) \in Nat /\ Len(s) \in Nat
  BY LenProperties
<1>3. NoiseFrame.kind = "noise"
  BY DEF NoiseFrame
<1>4. \A i \in 1 .. Len(r) : r[i].kind # "noise" => r[i] = s[i + k]
  BY <1>1, <1>3
<1>5. \A i \in 1 .. Len(r) : i + k \in 1 .. Len(s)
  BY <1>1
<1>6. \A i \in 1 .. Len(r) : \A j \in 1 .. Len(r) : i < j => i + k < j + k
  BY <1>2
<1>7. ASSUME NEW p, RisingData(s, p) PROVE RisingData(r, p)
  BY <1>4, <1>5, <1>6, <1>7 DEF RisingData
<1>8. ASSUME NEW p, NEW lo, NEW hi, DataWithin(s, p, lo, hi) PROVE DataWithin(r, p, lo, hi)
  BY <1>4, <1>5, <1>8 DEF DataWithin
<1>9. NoData(s) => NoData(r)
  BY <1>4, <1>5 DEF NoData
<1>10. ASSUME NEW e, NoDataBehindAsk(s, e) PROVE NoDataBehindAsk(r, e)
  BY <1>4, <1>5, <1>6, <1>10 DEF NoDataBehindAsk
<1>11. ASSUME NEW e, AsksUpTo(s, e) PROVE AsksUpTo(r, e)
  BY <1>4, <1>5, <1>11 DEF AsksUpTo
<1> QED
  BY <1>7, <1>8, <1>9, <1>10, <1>11

LEMMA Concatenated ==
    ASSUME NEW S, NEW s \in Seq(S), NEW t \in Seq(S)
    PROVE  /\ s \o t \in Seq(S)
           /\ Len(s) \in Nat /\ Len(t) \in Nat /\ Len(s \o t) = Len(s) + Len(t)
           /\ \A i \in 1 .. Len(s) : (s \o t)[i] = s[i]
           /\ \A i \in 1 .. Len(t) : (s \o t)[i + Len(s)] = t[i]
<1>1. Len(s) \in Nat /\ Len(t) \in Nat
  BY LenProperties
<1>2. /\ s \o t \in Seq(S) /\ Len(s \o t) = Len(s) + Len(t)
      /\ \A i \in 1 .. Len(s) + Len(t) :
            (s \o t)[i] = IF i <= Len(s) THEN s[i] ELSE t[i - Len(s)]
  BY ConcatProperties, Zenon
<1>3. \A i \in 1 .. Len(t) : i + Len(s) \in 1 .. Len(s) + Len(t) /\ ~(i + Len(s) <= Len(s))
                             /\ i + Len(s) - Len(s) = i
  BY <1>1
<1>4. \A i \in 1 .. Len(t) : (s \o t)[i + Len(s)] = t[i]
  BY <1>2, <1>3
<1>5. \A i \in 1 .. Len(s) : (s \o t)[i] = s[i]
  BY <1>1, <1>2
<1> QED
  BY <1>1, <1>2, <1>4, <1>5

\* The first frame is taken.
LEMMA FirstTaken ==
    ASSUME NEW s \in Seq(Frame), NEW t \in Seq(Frame), s # <<>>
    PROVE  /\ 1 \in 1 .. Len(s \o t) /\ (s \o t)[1] = Head(s)
           /\ \A i \in 1 .. Len(Tail(s) \o t) :
                 i + 1 \in 1 .. Len(s \o t) /\ (Tail(s) \o t)[i] = (s \o t)[i + 1]
<1>1. /\ Head(s) = s[1] /\ Tail(s) \in Seq(Frame)
      /\ Len(s) \in Nat /\ Len(s) > 0 /\ Len(Tail(s)) = Len(s) - 1
      /\ \A i \in 1 .. Len(Tail(s)) : Tail(s)[i] = s[i + 1]
  BY HeadTailProperties, EmptySeq, LenProperties
<1> DEFINE r == Tail(s)
<1>2. /\ Len(s \o t) = Len(s) + Len(t) /\ Len(t) \in Nat
      /\ \A i \in 1 .. Len(s) : (s \o t)[i] = s[i]
      /\ \A i \in 1 .. Len(t) : (s \o t)[i + Len(s)] = t[i]
  BY Concatenated
<1>3. /\ Len(r \o t) = Len(r) + Len(t)
      /\ \A i \in 1 .. Len(r) : (r \o t)[i] = r[i]
      /\ \A i \in 1 .. Len(t) : (r \o t)[i + Len(r)] = t[i]
  BY <1>1, Concatenated
<1> HIDE DEF r
<1>4. ASSUME NEW i \in 1 .. Len(r \o t)
      PROVE  i + 1 \in 1 .. Len(s \o t) /\ (r \o t)[i] = (s \o t)[i + 1]
  <2>1. i + 1 \in 1 .. Len(s \o t)
    BY <1>1, <1>2, <1>3 DEF r
  <2>2. CASE i <= Len(r)
    BY <1>1, <1>2, <1>3, <2>2 DEF r
  <2>3. CASE i > Len(r)
    <3> DEFINE k == i - Len(r)
    <3>1. k \in 1 .. Len(t) /\ i = k + Len(r) /\ i + 1 = k + Len(s)
      BY <1>1, <1>2, <1>3, <2>3 DEF r
    <3> HIDE DEF k
    <3> QED
      BY <1>2, <1>3, <2>1, <3>1
  <2> QED
    BY <1>1, <1>2, <1>3, <2>1, <2>2, <2>3 DEF r
<1> QED
  BY <1>1, <1>2, <1>4 DEF r

\* A frame is added behind the others.
LEMMA Lengthened ==
    ASSUME NEW s \in Seq(Frame), NEW f \in Frame
    PROVE  /\ \A p : /\ RisingData(s, p)
                     /\ f.kind = "data" => \A i \in 1 .. Len(s) :
                                              s[i].kind = "data" => s[i].cnt[p] <= f.cnt[p]
                     => RisingData(Append(s, f), p)
           /\ \A p, lo, hi : /\ DataWithin(s, p, lo, hi)
                             /\ f.kind = "data" => lo <= f.cnt[p] /\ f.cnt[p] <= hi
                             => DataWithin(Append(s, f), p, lo, hi)
           /\ NoData(s) /\ f.kind # "data" => NoData(Append(s, f))
           /\ \A e : NoDataBehindAsk(s, e) /\ f.kind # "data" => NoDataBehindAsk(Append(s, f), e)
           /\ \A e : /\ AsksUpTo(s, e)
                     /\ f.kind = "ask" => f.epoch <= e
                     => AsksUpTo(Append(s, f), e)
<1> DEFINE r == Append(s, f)
<1>1. /\ Len(r) = Len(s) + 1 /\ Len(s) \in Nat
      /\ \A i \in 1 .. Len(s) : r[i] = s[i]
      /\ r[Len(s) + 1] = f
  BY AppendProperties, LenProperties
<1> HIDE DEF r
<1>2. \A i \in 1 .. Len(r) : i \in 1 .. Len(s) \/ i = Len(s) + 1
  BY <1>1
<1>3. \A i \in 1 .. Len(r) : \A j \in 1 .. Len(r) : i < j => i \in 1 .. Len(s)
  BY <1>1
<1>4. ASSUME NEW p, RisingData(s, p),
             f.kind = "data" => \A i \in 1 .. Len(s) : s[i].kind = "data" => s[i].cnt[p] <= f.cnt[p]
      PROVE  RisingData(r, p)
  BY <1>1, <1>2, <1>3, <1>4 DEF RisingData
<1>5. ASSUME NEW p, NEW lo, NEW hi, DataWithin(s, p, lo, hi),
             f.kind = "data" => lo <= f.cnt[p] /\ f.cnt[p] <= hi
      PROVE  DataWithin(r, p, lo, hi)
  BY <1>1, <1>2, <1>5 DEF DataWithin
<1>6. NoData(s) /\ f.kind # "data" => NoData(r)
  BY <1>1, <1>2 DEF NoData
<1>7. ASSUME NEW e, NoDataBehindAsk(s, e), f.kind # "data" PROVE NoDataBehindAsk(r, e)
  BY <1>1, <1>2, <1>3, <1>7 DEF NoDataBehindAsk
<1>8. ASSUME NEW e, AsksUpTo(s, e), f.kind = "ask" => f.epoch <= e PROVE AsksUpTo(r, e)
  BY <1>1, <1>2, <1>8 DEF AsksUpTo
<1> QED
  BY <1>4, <1>5, <1>6, <1>7, <1>8 DEF r

\* Where the frames and the threads are between the steps.
Settled ==
    /\ pc \in {"read", "dead"} => rx = <<>>
    /\ pc = "dead" => syncs = <<>>
    /\ pc \in {"read", "parse"} => pastData = node
    /\ pc = "store" => \A q \in Port : q < at => pastData[q] = node[q]

LEMMA ComingType == ASSUME TypeInv PROVE Coming \in Seq(Frame)
  BY ConcatProperties DEF TypeInv, MainType, LineType, Coming

LEMMA ComingGrows ==
    ASSUME TypeInv, NEW f \in Frame, rx' = rx, Transmit(f)
    PROVE  Coming' \in {Coming, Append(Coming, f)}
<1>1. CASE toManager' = toManager
  BY <1>1 DEF Coming
<1>2. CASE toManager' = Append(toManager, f)
  <2>1. rx \in Seq(Frame) /\ toManager \in Seq(Frame) /\ <<f>> \in Seq(Frame)
    BY DEF TypeInv, MainType, LineType
  <2>2. toManager' = toManager \o <<f>> /\ Append(Coming, f) = Coming \o <<f>>
    BY <1>2, <2>1, AppendIsConcat, ComingType
  <2>3. rx \o (toManager \o <<f>>) = (rx \o toManager) \o <<f>>
    BY <2>1, ConcatAssociative
  <2> QED
    BY <2>2, <2>3 DEF Coming
<1> QED
  BY <1>1, <1>2 DEF Transmit

LEMMA FirstGone ==
    ASSUME TypeInv, pc = "parse", rx' = Tail(rx), toManager' = toManager
    PROVE  /\ Thins(Coming, Coming')
           /\ 1 \in 1 .. Len(Coming) /\ Coming[1] = Head(rx)
           /\ \A i \in 1 .. Len(Coming') : i + 1 \in 1 .. Len(Coming) /\ Coming'[i] = Coming[i + 1]
<1>1. rx # <<>> /\ rx \in Seq(Frame) /\ toManager \in Seq(Frame)
  BY DEF TypeInv, MainType, LineType
<1>2. Coming' = Tail(rx) \o toManager
  BY DEF Coming
<1>3. /\ 1 \in 1 .. Len(Coming) /\ Coming[1] = Head(rx)
      /\ \A i \in 1 .. Len(Coming') : i + 1 \in 1 .. Len(Coming) /\ Coming'[i] = Coming[i + 1]
  BY <1>1, <1>2, FirstTaken DEF Coming
<1>4. Thins(Coming, Coming')
  BY <1>3 DEF Thins
<1> QED
  BY <1>3, <1>4

LEMMA SameThins == \A s \in Seq(Frame) : Thins(s, s)
<1> SUFFICES ASSUME NEW s \in Seq(Frame) PROVE Thins(s, s)
  OBVIOUS
<1>1. \A i \in 1 .. Len(s) : i + 0 \in 1 .. Len(s) /\ s[i] \in {s[i + 0], NoiseFrame}
  BY LenProperties
<1> QED
  BY <1>1 DEF Thins

LEMMA ComingMoves ==
    ASSUME TypeInv, Settled, [Next]_storeVars
    PROVE  \/ Thins(Coming, Coming')
           \/ BoardAsks /\ Coming' = Append(Coming, AskFrame)
           \/ /\ AnswerPoll /\ Coming' = Append(Coming, DataFrame)
              /\ asking => "bare" \in causes'
<1>1. Coming \in Seq(Frame) /\ rx \in Seq(Frame) /\ toManager \in Seq(Frame)
  BY ComingType DEF TypeInv, MainType, LineType
<1>2. CASE UNCHANGED <<rx, toManager>>
  BY <1>1, <1>2, SameThins DEF Coming
<1>3. CASE BoardAsks
  <2>1. Transmit(AskFrame) /\ rx' = rx /\ AskFrame \in Frame
    BY <1>3, NewFrames DEF BoardAsks, mainVars, TypeInv
  <2> QED
    BY <1>1, <1>3, <2>1, ComingGrows, SameThins
<1>4. CASE AnswerPoll
  <2>1. rx' = rx /\ DataFrame \in Frame
    BY <1>4, NewFrames DEF AnswerPoll, mainVars, TypeInv
  <2>2. CASE toManager' = toManager
    BY <1>2, <2>1, <2>2
  <2>3. CASE /\ Transmit(DataFrame)
             /\ causes' = IF asking THEN causes \union {"bare"} ELSE causes
    BY <1>1, <1>4, <2>1, <2>3, ComingGrows, SameThins
  <2> QED
    BY <1>4, <2>2, <2>3 DEF AnswerPoll
<1>5. CASE DamageFrame
  <2>1. PICK d \in DOMAIN toManager : toManager' = [toManager EXCEPT ![d] = NoiseFrame]
    BY <1>5 DEF DamageFrame
  <2>2. /\ Len(toManager') = Len(toManager) /\ toManager' \in Seq(Frame)
        /\ \A i \in 1 .. Len(toManager) : toManager'[i] \in {toManager[i], NoiseFrame}
    BY <1>1, <2>1, ExceptSeq, LenProperties, NewFrames DEF TypeInv
  <2>3. Coming' = rx \o toManager'
    BY <1>5 DEF DamageFrame, mainVars, Coming
  <2>4. /\ Len(Coming) = Len(rx) + Len(toManager) /\ Len(rx) \in Nat /\ Len(toManager) \in Nat
        /\ \A i \in 1 .. Len(rx) : Coming[i] = rx[i]
        /\ \A i \in 1 .. Len(toManager) : Coming[i + Len(rx)] = toManager[i]
    BY <1>1, Concatenated DEF Coming
  <2>5. /\ Len(Coming') = Len(rx) + Len(toManager)
        /\ \A i \in 1 .. Len(rx) : Coming'[i] = rx[i]
        /\ \A i \in 1 .. Len(toManager) : Coming'[i + Len(rx)] = toManager'[i]
    <3>1. \A t \in Seq(Frame) :
             /\ Len(rx \o t) = Len(rx) + Len(t)
             /\ \A i \in 1 .. Len(rx) : (rx \o t)[i] = rx[i]
             /\ \A i \in 1 .. Len(t) : (rx \o t)[i + Len(rx)] = t[i]
      BY <1>1, Concatenated
    <3> QED
      BY <2>2, <2>3, <3>1
  <2>6. ASSUME NEW i \in 1 .. Len(Coming')
        PROVE  i + 0 \in 1 .. Len(Coming) /\ Coming'[i] \in {Coming[i + 0], NoiseFrame}
    <3>1. i + 0 = i /\ i \in 1 .. Len(Coming)
      BY <2>4, <2>5
    <3>2. CASE i \in 1 .. Len(rx)
      BY <2>4, <2>5, <3>1, <3>2
    <3>3. CASE i > Len(rx)
      <4> DEFINE k == i - Len(rx)
      <4>1. k \in 1 .. Len(toManager) /\ i = k + Len(rx)
        BY <2>4, <2>5, <3>3
      <4> HIDE DEF k
      <4>2. Coming[i] = toManager[k] /\ Coming'[i] = toManager'[k]
        BY <2>4, <2>5, <4>1
      <4> QED
        BY <2>2, <3>1, <4>1, <4>2
    <3> QED
      BY <2>4, <2>5, <3>2, <3>3
  <2> QED
    BY <2>6 DEF Thins
<1>6. CASE ReadUart
  <2>1. rx = <<>> /\ Coming = toManager
    BY <1>1, <1>6, ConcatEmptySeq DEF Settled, ReadUart, Coming
  <2>2. PICK n \in 1 .. Len(toManager) : /\ rx' = SubSeq(toManager, 1, n)
                                         /\ toManager' = SubSeq(toManager, n + 1, Len(toManager))
    BY <1>6 DEF ReadUart
  <2>3. SubSeq(toManager, 1, n) \o SubSeq(toManager, n + 1, Len(toManager))
          = SubSeq(toManager, 1, Len(toManager))
    <3>1. 1 \in 1 .. Len(toManager) + 1 /\ n \in 1 - 1 .. Len(toManager)
          /\ Len(toManager) \in n .. Len(toManager)
      BY <1>1, LenProperties
    <3> QED
      BY <1>1, <3>1, ConcatAdjacentSubSeq
  <2>4. Coming' = Coming
    BY <1>1, <2>1, <2>2, <2>3, SubSeqFull DEF Coming
  <2> QED
    BY <1>1, <2>4, SameThins
<1>7. CASE DropFrame \/ TakeAsk \/ TakeData
  <2>1. pc = "parse" /\ rx' = Tail(rx) /\ toManager' = toManager
    BY <1>7 DEF DropFrame, TakeAsk, TakeData, FrameDone, lineVars
  <2> QED
    BY <2>1, FirstGone
<1>8. CASE Crash
  <2>1. rx' = <<>> /\ toManager' = toManager
    BY <1>8 DEF Crash, Die, lineVars
  <2>2. Coming' = toManager
    BY <1>1, <2>1, ConcatEmptySeq DEF Coming
  <2>3. \A i \in 1 .. Len(toManager) :
           i + Len(rx) \in 1 .. Len(Coming) /\ toManager[i] \in {Coming[i + Len(rx)], NoiseFrame}
    BY <1>1, Concatenated DEF Coming
  <2>4. Len(rx) \in Nat
    BY <1>1, LenProperties
  <2> QED
    BY <2>2, <2>3, <2>4 DEF Thins
<1>9. CASE Start
  <2>1. rx' = rx /\ rx = <<>> /\ toManager' = <<>>
    BY <1>9 DEF Start, Settled
  <2>2. Coming' = <<>> /\ Len(<<>>) = 0
    BY <2>1, EmptySeq, ConcatEmptySeq DEF Coming
  <2> QED
    BY <2>2 DEF Thins
<1>10. CASE \/ \E p \in Port : CountUnit(p)
            \/ BoardRestarts \/ TakeRestore \/ SendPoll \/ SyncStep \/ UNCHANGED storeVars
  <2>1. UNCHANGED <<rx, toManager>>
    BY <1>10 DEF CountUnit, BoardRestarts, TakeRestore, SendPoll, SyncStep, CopyPast, SendRestore,
       LoseRestore, mainVars, lineVars, storeVars
  <2> QED
    BY <1>2, <2>1
<1>11. CASE ClearIo \/ SetIo \/ Begin \/ Update \/ Commit \/ StorePast
  <2>1. UNCHANGED <<rx, toManager>>
    BY <1>11 DEF ClearIo, SetIo, Begin, Update, Commit, StorePast, lineVars
  <2> QED
    BY <1>2, <2>1
<1> QED
  BY <1>3, <1>4, <1>5, <1>6, <1>7, <1>8, <1>9, <1>10, <1>11
     DEF Next, StoreStep, BoardStep, MainStep

LEMMA SettledStep == ASSUME TypeInv, Agree, Settled, [Next]_storeVars PROVE Settled'
<1>0. /\ at \in Port /\ node \in Counts /\ pastData \in Counts
      /\ pc \in {"begin", "update", "commit"} => at = 1
      /\ \A q \in Port : ~(q < 1)
  BY DEF TypeInv, MainType, Agree, Port
<1>1. CASE \/ BoardStep \/ SendPoll \/ UNCHANGED storeVars
  <2>1. UNCHANGED <<pc, rx, node, at, pastData, syncs>>
    BY <1>1 DEF BoardStep, CountUnit, BoardRestarts, BoardAsks, AnswerPoll, TakeRestore, DamageFrame,
       SendPoll, mainVars, storeVars
  <2> QED
    BY <2>1 DEF Settled
<1>2. CASE SyncStep
  <2>1. UNCHANGED <<pc, rx, node, at, pastData>> /\ syncs # <<>>
    BY <1>2 DEF SyncStep, CopyPast, SendRestore, LoseRestore, mainVars
  <2> QED
    BY <2>1 DEF Settled
<1>3. CASE Crash
  BY <1>3 DEF Crash, Die, Settled
<1>4. CASE Start
  BY <1>4 DEF Start, Settled
<1>5. CASE ReadUart
  BY <1>5 DEF ReadUart, Settled
<1>6. CASE DropFrame
  BY <1>6 DEF DropFrame, FrameDone, Settled
<1>7. CASE TakeAsk
  BY <1>7 DEF TakeAsk, FrameDone, Settled
<1>8. CASE TakeData \/ ClearIo
  BY <1>8 DEF TakeData, ClearIo, Settled
<1>9. CASE SetIo
  <2>1. pc' \in {"ioclear", "begin"} \/ (pc' = "store" /\ at' = 1)
    BY <1>9 DEF SetIo, Loop
  <2> QED
    BY <1>0, <2>1 DEF Settled
<1>10. CASE Begin \/ Update \/ Commit
  <2>1. pc' \in {"update", "commit"} \/ (pc' = "store" /\ at' = 1)
    BY <1>0, <1>10 DEF Begin, Update, Commit
  <2> QED
    BY <1>0, <2>1 DEF Settled
<1>11. CASE StorePast
  <2>1. pc = "store" /\ UNCHANGED <<node, rx>> /\ pastData' = [pastData EXCEPT ![at] = node[at]]
    BY <1>11 DEF StorePast
  <2>2. \A p \in Port : p <= at => pastData'[p] = node[p]
    BY <1>0, <2>1 DEF Settled, Port, Counts
  <2>3. CASE at < Ports
    <3>1. at' = at + 1 /\ pc' = "store"
      BY <1>11, <2>3 DEF StorePast, Loop
    <3>2. \A p \in Port : p < at + 1 => p <= at
      BY <1>0 DEF Port
    <3> QED
      BY <2>1, <2>2, <3>1, <3>2 DEF Settled
  <2>4. CASE ~(at < Ports)
    <3>1. pc' \in {"read", "parse"} /\ (pc' = "read" => rx = <<>>)
      BY <1>11, <2>4 DEF StorePast, Loop
    <3>2. \A p \in Port : p <= at
      BY <1>0, <2>4, CounterStoreAssumption DEF Port
    <3>3. pastData' = node
      BY <1>0, <2>1, <2>2, <3>2 DEF Counts
    <3> QED
      BY <2>1, <3>1, <3>3 DEF Settled
  <2> QED
    BY <2>3, <2>4
<1> QED
  BY <1>1, <1>2, <1>3, <1>4, <1>5, <1>6, <1>7, <1>8, <1>9, <1>10, <1>11
     DEF Next, StoreStep, MainStep

-----------------------------------------------------------------------------
(* Counters do not go back: the threads and the restores.                  *)

LEMMA SetOfAppend ==
    ASSUME NEW S, NEW s \in Seq(S), NEW x \in S
    PROVE  Sq!ToSet(Append(s, x)) = Sq!ToSet(s) \union {x}
<1>1. /\ Len(Append(s, x)) = Len(s) + 1 /\ Len(s) \in Nat
      /\ \A i \in 1 .. Len(s) : Append(s, x)[i] = s[i]
      /\ Append(s, x)[Len(s) + 1] = x
  BY AppendProperties, LenProperties
<1>2. DOMAIN s = 1 .. Len(s) /\ DOMAIN Append(s, x) = 1 .. Len(s) + 1
  BY <1>1, LenProperties, AppendProperties
<1>3. 1 .. Len(s) + 1 = (1 .. Len(s)) \union {Len(s) + 1}
  BY <1>1
<1> QED
  BY <1>1, <1>2, <1>3 DEF Sq!ToSet

LEMMA SetOfTail ==
    ASSUME NEW S, NEW s \in Seq(S), s # <<>>
    PROVE  Head(s) \in Sq!ToSet(s) /\ Sq!ToSet(Tail(s)) \subseteq Sq!ToSet(s)
<1>1. /\ Head(s) = s[1] /\ DOMAIN s = 1 .. Len(s) /\ Len(s) \in Nat /\ Len(s) > 0
      /\ DOMAIN Tail(s) = 1 .. Len(s) - 1
      /\ \A i \in 1 .. Len(s) - 1 : Tail(s)[i] = s[i + 1] /\ i + 1 \in 1 .. Len(s)
  BY HeadTailProperties, EmptySeq, LenProperties
<1> QED
  BY <1>1 DEF Sq!ToSet

LEMMA SetOfRemoveAt ==
    ASSUME NEW S, NEW s \in Seq(S), NEW i \in DOMAIN s
    PROVE  Sq!ToSet(Sq!RemoveAt(s, i)) \subseteq Sq!ToSet(s)
<1>1. /\ Len(s) \in Nat /\ DOMAIN s = 1 .. Len(s) /\ i \in 1 .. Len(s)
  BY LenProperties
<1> DEFINE a == SubSeq(s, 1, i - 1)
           b == SubSeq(s, i + 1, Len(s))
<1>2. /\ a \in Seq(S) /\ Len(a) = i - 1
      /\ \A j \in 1 .. i - 1 : a[j] = s[j]
  BY <1>1
<1>3. /\ b \in Seq(S) /\ Len(b) = Len(s) - i
      /\ \A j \in 1 .. Len(s) - i : b[j] = s[i + j]
  BY <1>1
<1> HIDE DEF a, b
<1>4. /\ a \o b \in Seq(S) /\ Len(a \o b) = Len(s) - 1
      /\ \A j \in 1 .. i - 1 : (a \o b)[j] = s[j]
      /\ \A j \in 1 .. Len(s) - i : (a \o b)[j + (i - 1)] = s[i + j]
  <2>1. /\ a \o b \in Seq(S) /\ Len(a \o b) = Len(a) + Len(b)
        /\ \A j \in 1 .. Len(a) : (a \o b)[j] = a[j]
        /\ \A j \in 1 .. Len(b) : (a \o b)[j + Len(a)] = b[j]
    <3>1. \A t \in Seq(S), u \in Seq(S) :
             /\ t \o u \in Seq(S) /\ Len(t \o u) = Len(t) + Len(u)
             /\ \A j \in 1 .. Len(t) : (t \o u)[j] = t[j]
             /\ \A j \in 1 .. Len(u) : (t \o u)[j + Len(t)] = u[j]
      BY Concatenated
    <3> QED
      BY <1>2, <1>3, <3>1
  <2>2. i \in Int /\ Len(a) + Len(b) = Len(s) - 1
    BY <1>1, <1>2, <1>3
  <2> QED
    BY <1>2, <1>3, <2>1, <2>2
<1>5. ASSUME NEW j \in 1 .. Len(s) - 1
      PROVE  \E k \in 1 .. Len(s) : (a \o b)[j] = s[k]
  <2>0. i \in Int /\ j \in Int
    BY <1>1
  <2>1. CASE j <= i - 1
    <3>1. j \in 1 .. i - 1 /\ j \in 1 .. Len(s)
      BY <1>1, <2>0, <2>1
    <3> QED
      BY <1>4, <3>1
  <2>2. CASE j > i - 1
    <3> DEFINE k == j - (i - 1)
    <3>1. k \in 1 .. Len(s) - i /\ j = k + (i - 1) /\ i + k \in 1 .. Len(s)
      BY <1>1, <2>0, <2>2
    <3> HIDE DEF k
    <3> QED
      BY <1>4, <3>1
  <2>3. j <= i - 1 \/ j > i - 1
    BY <2>0
  <2> QED
    BY <2>1, <2>2, <2>3
<1>6. Sq!RemoveAt(s, i) = a \o b /\ DOMAIN (a \o b) = 1 .. Len(s) - 1
  BY <1>4, LenProperties DEF Sq!RemoveAt, a, b
<1> QED
  BY <1>1, <1>5, <1>6 DEF Sq!ToSet

\* Where the threads of the next state come from.
LEMMA SyncsMove ==
    ASSUME TypeInv, Settled, [Next]_storeVars, NEW x \in Sq!ToSet(syncs')
    PROVE  \/ x \in Sq!ToSet(syncs)
           \/ /\ TakeAsk /\ ~x.copied
              /\ \/ Head(rx).kind = "ask" /\ x.epoch = Head(rx).epoch
                 \/ x.epoch = 0 /\ "misread" \in causes'
           \/ /\ x.cnt = pastData /\ UNCHANGED <<boardVars, mainVars>> /\ syncs # <<>>
              /\ \E y \in Sq!ToSet(syncs) : y.epoch = x.epoch
<1> DEFINE Sync == [copied : BOOLEAN, cnt : Counts, epoch : Nat]
<1>0. syncs \in Seq(Sync)
  BY DEF TypeInv, RestType
<1>1. CASE UNCHANGED syncs
  BY <1>1
<1>2. CASE TakeAsk
  <2>1. \/ /\ Head(rx).kind = "ask"
           /\ syncs' = Append(syncs, [copied |-> FALSE, cnt |-> pastData,
                                      epoch |-> Head(rx).epoch])
        \/ /\ syncs' = Append(syncs, [copied |-> FALSE, cnt |-> pastData, epoch |-> 0])
           /\ "misread" \in causes'
    BY <1>2 DEF TakeAsk
  <2>2. \A e \in Nat : [copied |-> FALSE, cnt |-> pastData, epoch |-> e] \in Sync
    BY DEF TypeInv, MainType
  <2>3. Head(rx).kind = "ask" => Head(rx).epoch \in Nat
    BY <1>2, FrameDoneType, FrameFields DEF TakeAsk, TypeInv
  <2> HIDE DEF Sync
  <2>4. CASE /\ Head(rx).kind = "ask"
             /\ syncs' = Append(syncs, [copied |-> FALSE, cnt |-> pastData,
                                        epoch |-> Head(rx).epoch])
    <3>1. x \in Sq!ToSet(syncs) \/ x = [copied |-> FALSE, cnt |-> pastData,
                                        epoch |-> Head(rx).epoch]
      BY <1>0, <2>2, <2>3, <2>4, SetOfAppend
    <3> QED
      BY <1>2, <2>4, <3>1
  <2>5. CASE /\ syncs' = Append(syncs, [copied |-> FALSE, cnt |-> pastData, epoch |-> 0])
             /\ "misread" \in causes'
    <3>1. x \in Sq!ToSet(syncs) \/ x = [copied |-> FALSE, cnt |-> pastData, epoch |-> 0]
      BY <1>0, <2>2, <2>5, SetOfAppend
    <3> QED
      BY <1>2, <2>5, <3>1
  <2> QED
    BY <2>1, <2>4, <2>5
<1>3. ASSUME NEW i \in DOMAIN syncs, CopyPast(i)
      PROVE  \/ x \in Sq!ToSet(syncs)
             \/ /\ x.cnt = pastData /\ UNCHANGED <<boardVars, mainVars>> /\ syncs # <<>>
                /\ \E y \in Sq!ToSet(syncs) : y.epoch = x.epoch
  <2>1. UNCHANGED <<boardVars, mainVars>> /\ syncs # <<>>
    BY <1>3 DEF CopyPast
  <2>2. PICK j \in DOMAIN syncs : x = syncs'[j]
    BY <1>0, <1>3 DEF CopyPast, Sq!ToSet
  <2>5. syncs[i] \in Sync
    <3> HIDE DEF Sync
    <3> QED
      BY <1>0, ElementType
  <2>3. CASE j # i
    BY <1>0, <1>3, <2>2, <2>3 DEF CopyPast, Sq!ToSet
  <2>4. CASE j = i
    <3>1. x.cnt = pastData /\ x.epoch = syncs[i].epoch
      BY <1>0, <1>3, <2>2, <2>4, <2>5 DEF CopyPast
    <3> QED
      BY <2>1, <3>1 DEF Sq!ToSet
  <2> QED
    BY <2>3, <2>4
<1>4. ASSUME NEW i \in DOMAIN syncs, SendRestore(i) \/ LoseRestore(i)
      PROVE  x \in Sq!ToSet(syncs)
  <2>1. syncs' = Sq!RemoveAt(syncs, i)
    BY <1>4 DEF SendRestore, LoseRestore
  <2> HIDE DEF Sync
  <2> QED
    BY <1>0, <2>1, SetOfRemoveAt
<1>5. CASE Crash
  <2>1. syncs' = <<>> /\ DOMAIN <<>> = {}
    BY <1>5 DEF Crash, Die
  <2> QED
    BY <2>1 DEF Sq!ToSet
<1>6. CASE BoardStep \/ SendPoll \/ UNCHANGED storeVars \/ Start
  <2>1. UNCHANGED syncs
    BY <1>6 DEF BoardStep, CountUnit, BoardRestarts, BoardAsks, AnswerPoll, TakeRestore, DamageFrame,
       SendPoll, Start, storeVars
  <2> QED
    BY <1>1, <2>1
<1>7. CASE \/ ReadUart \/ DropFrame \/ TakeData
           \/ ClearIo \/ SetIo \/ Begin \/ Update \/ Commit \/ StorePast
  <2>1. UNCHANGED syncs
    BY <1>7 DEF ReadUart, DropFrame, TakeData, ClearIo, SetIo, Begin, Update, Commit, StorePast
  <2> QED
    BY <1>1, <2>1
<1> QED
  BY <1>2, <1>3, <1>4, <1>5, <1>6, <1>7 DEF Next, StoreStep, MainStep, SyncStep

\* Where the restores of the next state come from.
LEMMA RestoresMove ==
    ASSUME TypeInv, [Next]_storeVars, NEW c \in Sq!ToSet(toBoard'), c.kind = "restore"
    PROVE  \/ c \in Sq!ToSet(toBoard) /\ ~BoardRestarts
           \/ /\ SyncStep
              /\ \E y \in Sq!ToSet(syncs) :
                    y.copied /\ c.epoch = y.epoch /\ c.cnt = Spoil(y.cnt)
<1>0. toBoard \in Seq(Command) /\ Poll \in Command /\ Poll.kind # "restore"
  BY NewCommands DEF TypeInv, LineType, Poll
<1>1. CASE BoardRestarts
  <2>1. toBoard' = <<>> /\ DOMAIN <<>> = {}
    BY <1>1 DEF BoardRestarts
  <2> QED
    BY <2>1 DEF Sq!ToSet
<1>2. CASE ~BoardRestarts /\ UNCHANGED toBoard
  BY <1>2
<1>3. CASE ~BoardRestarts /\ (AnswerPoll \/ TakeRestore)
  <2>1. toBoard # <<>> /\ toBoard' = Tail(toBoard)
    BY <1>3 DEF AnswerPoll, TakeRestore
  <2> QED
    BY <1>0, <1>3, <2>1, SetOfTail
<1>4. CASE ~BoardRestarts /\ SendPoll
  <2>1. toBoard' = Append(toBoard, Poll)
    BY <1>4 DEF SendPoll
  <2>2. c \in Sq!ToSet(toBoard) \/ c = Poll
    BY <1>0, <2>1, SetOfAppend
  <2> QED
    BY <1>0, <1>4, <2>2
<1>5. ASSUME NEW i \in DOMAIN syncs, SendRestore(i), ~BoardRestarts
      PROVE  \/ c \in Sq!ToSet(toBoard)
             \/ \E y \in Sq!ToSet(syncs) :
                   y.copied /\ c.epoch = y.epoch /\ c.cnt = Spoil(y.cnt)
  <2>1. toBoard' = Append(toBoard, Restore(Spoil(syncs[i].cnt), syncs[i].epoch))
        /\ syncs[i].copied /\ syncs[i] \in Sq!ToSet(syncs)
    BY <1>5 DEF SendRestore, Sq!ToSet
  <2>2. syncs[i] \in [copied : BOOLEAN, cnt : Counts, epoch : Nat]
    <3>1. syncs \in Seq([copied : BOOLEAN, cnt : Counts, epoch : Nat])
      BY DEF TypeInv, RestType
    <3> QED
      BY <3>1, ElementType
  <2>3. Restore(Spoil(syncs[i].cnt), syncs[i].epoch) \in Command
    BY <2>2, SpoilType, NewCommands
  <2>4. c \in Sq!ToSet(toBoard) \/ c = Restore(Spoil(syncs[i].cnt), syncs[i].epoch)
    BY <1>0, <2>1, <2>3, SetOfAppend
  <2> QED
    BY <2>1, <2>4 DEF Restore
<1>6. CASE ~BoardRestarts /\ SyncStep
  <2>1. PICK i \in DOMAIN syncs : CopyPast(i) \/ SendRestore(i) \/ LoseRestore(i)
    BY <1>6 DEF SyncStep
  <2>2. CASE SendRestore(i)
    BY <1>5, <1>6, <2>2
  <2>3. CASE CopyPast(i) \/ LoseRestore(i)
    BY <1>2, <1>6, <2>3 DEF CopyPast, LoseRestore, lineVars
  <2> QED
    BY <2>1, <2>2, <2>3
<1>7. CASE ~BoardRestarts /\ (BoardAsks \/ DamageFrame \/ (\E p \in Port : CountUnit(p))
                              \/ UNCHANGED storeVars)
  <2>1. UNCHANGED toBoard
    BY <1>7 DEF CountUnit, BoardAsks, DamageFrame, lineVars, storeVars
  <2> QED
    BY <1>2, <1>7, <2>1
<1>8. CASE ~BoardRestarts /\ (MainStep \/ Crash \/ Start)
  <2>1. UNCHANGED toBoard
    BY <1>8 DEF MainStep, ReadUart, DropFrame, TakeAsk, TakeData, ClearIo, SetIo, Begin, Update,
       Commit, StorePast, Crash, Die, Start, lineVars
  <2> QED
    BY <1>2, <1>8, <2>1
<1> QED
  BY <1>1, <1>3, <1>4, <1>6, <1>7, <1>8 DEF Next, StoreStep, BoardStep

-----------------------------------------------------------------------------
(* Counters do not go back: the invariant.                                 *)

\* No request and no restore belongs to a start of the board to come.
Epochs ==
    /\ AsksUpTo(Coming, restarts)
    /\ \A x \in Sq!ToSet(syncs) : x.epoch <= restarts
    /\ \A c \in Sq!ToSet(toBoard) : c.kind = "restore" => c.epoch <= restarts

\* The request of the board as it is now has been taken.
Answered ==
    \/ \E x \in Sq!ToSet(syncs) : x.epoch = restarts
    \/ \E c \in Sq!ToSet(toBoard) : c.kind = "restore" /\ c.epoch = restarts

\* While the board is without its counters it sends no data behind a request:
\* when the request is taken, nothing is on its way and nothing is handled that
\* would change the counters in memory.
Quiet ==
    asking =>
        /\ NoDataBehindAsk(Coming, restarts)
        /\ Answered => NoData(Coming) /\ pc \in {"read", "parse", "dead"}

\* From the table over the memory to the board no counter goes down, and none
\* was not counted.
Numbers(p) ==
    /\ db[p] <= view[p] /\ view[p] <= node[p] /\ pastData[p] <= node[p]
    /\ node[p] <= tally[p]
    /\ ~asking => node[p] <= count[p] /\ count[p] <= tally[p]

Flow(p) ==
    /\ RisingData(Coming, p) /\ DataWithin(Coming, p, node[p], tally[p])
    /\ ~asking => DataWithin(Coming, p, node[p], count[p])

Given(p) ==
    asking =>
        /\ \A x \in Sq!ToSet(syncs) :
              x.epoch = restarts /\ x.copied => node[p] <= x.cnt[p] /\ x.cnt[p] <= tally[p]
        /\ \A c \in Sq!ToSet(toBoard) :
              c.kind = "restore" /\ c.epoch = restarts
              => node[p] <= c.cnt[p] /\ c.cnt[p] <= tally[p]

Climbing == Quiet /\ \A p \in Sound : Numbers(p) /\ Flow(p) /\ Given(p)

LEMMA CausesGrow == [Next]_storeVars => causes \subseteq causes'
<1> SUFFICES ASSUME [Next]_storeVars PROVE causes \subseteq causes'
  OBVIOUS
<1>1. CASE BoardStep
  BY <1>1 DEF BoardStep, CountUnit, BoardRestarts, BoardAsks, AnswerPoll, TakeRestore, DamageFrame
<1>2. CASE MainStep
  BY <1>2 DEF MainStep, ReadUart, DropFrame, TakeAsk, TakeData, ClearIo, SetIo, Begin, Update,
     Commit, StorePast
<1>3. CASE SendPoll \/ SyncStep \/ Crash \/ Start \/ UNCHANGED storeVars
  BY <1>3 DEF SendPoll, SyncStep, CopyPast, SendRestore, LoseRestore, Crash, Die, Start, storeVars
<1> QED
  BY <1>1, <1>2, <1>3 DEF Next, StoreStep

LEMMA CountsAre == ASSUME NEW v \in Counts, NEW p \in Port PROVE v[p] \in Nat
  BY CounterStoreAssumption DEF Counts, Count

\* A counter that is not at its end does not start again.
LEMMA NoWrap == ASSUME NEW a \in Nat, NEW n \in Nat, a < n PROVE a % n = a
  OBVIOUS

LEMMA BoardOnly ==
    ASSUME [Next]_storeVars
    PROVE  /\ restarts' = restarts \/ BoardRestarts
           /\ ~BoardRestarts => UNCHANGED <<asking, tally>> \/ TakeRestore \/ (\E p \in Port : CountUnit(p))
           /\ UNCHANGED count \/ BoardRestarts \/ TakeRestore \/ (\E p \in Port : CountUnit(p))
<1>1. CASE BoardStep
  BY <1>1 DEF BoardStep, CountUnit, BoardAsks, AnswerPoll, TakeRestore, DamageFrame, boardVars
<1>2. CASE ~BoardStep
  <2>1. UNCHANGED boardVars
    BY <1>2 DEF Next, StoreStep, MainStep, ReadUart, DropFrame, TakeAsk, TakeData, ClearIo,
       SetIo, Begin, Update, Commit, StorePast,
       SendPoll, SyncStep, CopyPast, SendRestore, LoseRestore, Crash, Die, Start, storeVars
  <2> QED
    BY <2>1 DEF boardVars
<1> QED
  BY <1>1, <1>2

LEMMA ComingStays == ASSUME TypeInv, [Next]_storeVars PROVE Coming' \in Seq(Frame)
<1>1. TypeInv'
  BY StepType
<1> QED
  BY <1>1, ConcatProperties DEF TypeInv, MainType, LineType, Coming

LEMMA EpochsStep == ASSUME TypeInv, Settled, Epochs, [Next]_storeVars PROVE Epochs'
<1>0. /\ restarts \in Nat /\ restarts' \in Nat /\ restarts <= restarts'
      /\ Coming \in Seq(Frame)
  <2>1. restarts \in Nat
    BY CounterStoreAssumption DEF TypeInv, BoardType
  <2>2. BoardRestarts => restarts' = restarts + 1
    BY DEF BoardRestarts
  <2> QED
    BY <2>1, <2>2, BoardOnly, ComingType
<1>1. AsksUpTo(Coming', restarts')
  <2>1. AsksUpTo(Coming', restarts)
    <3>1. CASE Thins(Coming, Coming')
      BY <1>0, <3>1, ComingStays, Thinned DEF Epochs
    <3>2. CASE Coming' = Append(Coming, AskFrame)
      <4>1. AskFrame \in Frame /\ AskFrame.epoch <= restarts
        BY <1>0, NewFrames DEF AskFrame, TypeInv
      <4> QED
        BY <1>0, <3>2, <4>1, Lengthened DEF Epochs
    <3>3. CASE Coming' = Append(Coming, DataFrame)
      <4>1. DataFrame \in Frame /\ DataFrame.kind # "ask"
        BY NewFrames DEF DataFrame, TypeInv
      <4> QED
        BY <1>0, <3>3, <4>1, Lengthened DEF Epochs
    <3> QED
      BY <3>1, <3>2, <3>3, ComingMoves
  <2>2. Coming' \in Seq(Frame)
    BY ComingStays
  <2>3. \A i \in 1 .. Len(Coming') : Coming'[i].kind = "ask" => Coming'[i].epoch \in Nat
    <3>1. \A i \in 1 .. Len(Coming') : Coming'[i] \in Frame
      BY <2>2, ElementType, LenProperties
    <3> QED
      BY <3>1, FrameFields
  <2>4. \A e \in Nat : e <= restarts => e <= restarts'
    BY <1>0
  <2> HIDE DEF Coming
  <2> QED
    BY <2>1, <2>3, <2>4 DEF AsksUpTo
<1>2. ASSUME NEW x \in Sq!ToSet(syncs') PROVE x.epoch <= restarts'
  <2>1. x.epoch \in Nat
    <3>1. TypeInv'
      BY StepType
    <3>2. PICK i \in DOMAIN syncs' : x = syncs'[i]
      BY DEF Sq!ToSet
    <3>3. syncs' \in Seq([copied : BOOLEAN, cnt : Counts, epoch : Nat])
      BY <3>1 DEF TypeInv, RestType
    <3>4. x \in [copied : BOOLEAN, cnt : Counts, epoch : Nat]
      BY <3>2, <3>3, ElementType
    <3> QED
      BY <3>4
  <2>2. x.epoch <= restarts
    <3>1. CASE TakeAsk /\ Head(rx).kind = "ask" /\ x.epoch = Head(rx).epoch
      <4>1. 1 \in 1 .. Len(Coming) /\ Coming[1] = Head(rx)
        BY <3>1, FirstGone DEF TakeAsk, FrameDone, lineVars
      <4> QED
        BY <3>1, <4>1 DEF Epochs, AsksUpTo
    <3> QED
      BY <1>0, <3>1, SyncsMove DEF Epochs
  <2> QED
    BY <1>0, <2>1, <2>2
<1>3. ASSUME NEW c \in Sq!ToSet(toBoard'), c.kind = "restore" PROVE c.epoch <= restarts'
  <2>1. c.epoch \in Nat
    <3>1. TypeInv'
      BY StepType
    <3>2. PICK i \in DOMAIN toBoard' : c = toBoard'[i]
      BY DEF Sq!ToSet
    <3>3. toBoard' \in Seq(Command)
      BY <3>1 DEF TypeInv, LineType
    <3>4. c \in Command
      BY <3>2, <3>3, ElementType
    <3> QED
      BY <1>3, <3>4, CommandFields
  <2>2. c.epoch <= restarts
    BY <1>3, RestoresMove DEF Epochs
  <2> QED
    BY <1>0, <2>1, <2>2
<1> QED
  BY <1>1, <1>2, <1>3 DEF Epochs

LEMMA QuietStep ==
    ASSUME TypeInv, Settled, Epochs, Quiet, [Next]_storeVars, causes' = {}
    PROVE  Quiet'
<1> SUFFICES ASSUME asking'
             PROVE  /\ NoDataBehindAsk(Coming', restarts')
                    /\ Answered' => NoData(Coming') /\ pc' \in {"read", "parse", "dead"}
  BY DEF Quiet
<1>0. restarts \in Nat /\ Coming \in Seq(Frame) /\ Coming' \in Seq(Frame)
  BY ComingType, ComingStays DEF TypeInv, BoardType
<1>1. CASE BoardRestarts
  <2>1. restarts' = restarts + 1 /\ UNCHANGED <<Coming, syncs>>
    BY <1>1 DEF BoardRestarts, mainVars, Coming
  <2>2. \A e : e <= restarts => e # restarts'
    BY <1>0, <2>1
  <2>3. NoDataBehindAsk(Coming', restarts')
    BY <2>1, <2>2 DEF Epochs, AsksUpTo, NoDataBehindAsk
  <2>4. ~Answered'
    <3>0. SyncStep => restarts' = restarts
      BY DEF SyncStep, CopyPast, SendRestore, LoseRestore, boardVars
    <3>1. \A c \in Sq!ToSet(toBoard') : c.kind # "restore"
      BY <1>0, <1>1, <2>1, <3>0, RestoresMove
    <3> QED
      BY <2>1, <2>2, <3>1 DEF Answered, Epochs
  <2> QED
    BY <2>3, <2>4
<1>2. CASE ~BoardRestarts
  <2>1. restarts' = restarts /\ asking
    BY <1>2, BoardOnly DEF TakeRestore, CountUnit
  <2>2. \/ Thins(Coming, Coming')
        \/ Coming' = Append(Coming, AskFrame)
    BY <2>1, ComingMoves
  <2>3. AskFrame \in Frame /\ AskFrame.kind = "ask"
    BY NewFrames DEF AskFrame, TypeInv
  <2>4. NoDataBehindAsk(Coming', restarts')
    BY <1>0, <2>1, <2>2, <2>3, Thinned, Lengthened DEF Quiet
  <2>5. ASSUME Answered
        PROVE  NoData(Coming') /\ pc' \in {"read", "parse", "dead"}
    <3>1. NoData(Coming) /\ pc \in {"read", "parse", "dead"}
      BY <2>1, <2>5 DEF Quiet
    <3>2. NoData(Coming')
      BY <1>0, <2>2, <2>3, <3>1, Thinned, Lengthened
    <3>3. ~TakeData
      <4>1. SUFFICES ASSUME TakeData PROVE FALSE
        OBVIOUS
      <4>2. Head(rx).kind = "data"
        BY <4>1 DEF TakeData
      <4>3. 1 \in 1 .. Len(Coming) /\ Coming[1] = Head(rx)
        BY <4>1, FirstGone DEF TakeData, lineVars
      <4> QED
        BY <3>1, <4>2, <4>3 DEF NoData
    <3>4. pc' \in {"read", "parse", "dead"}
      <4>1. CASE BoardStep \/ SendPoll \/ SyncStep \/ UNCHANGED storeVars
        <5>1. pc' = pc
          BY <4>1 DEF BoardStep, CountUnit, BoardRestarts, BoardAsks, AnswerPoll, TakeRestore,
             DamageFrame, SendPoll, SyncStep, CopyPast, SendRestore, LoseRestore, mainVars, storeVars
        <5> QED
          BY <3>1, <5>1
      <4>2. CASE MainStep
        BY <3>1, <3>3, <4>2 DEF MainStep, ReadUart, DropFrame, TakeAsk, FrameDone, ClearIo, SetIo,
           Begin, Update, Commit, StorePast
      <4>3. CASE Crash \/ Start
        BY <4>3 DEF Crash, Die, Start
      <4> QED
        BY <4>1, <4>2, <4>3 DEF Next, StoreStep
    <3> QED
      BY <3>2, <3>4
  <2>6. ASSUME ~Answered, Answered'
        PROVE  NoData(Coming') /\ pc' \in {"read", "parse", "dead"}
    <3>1. ASSUME NEW x \in Sq!ToSet(syncs'), x.epoch = restarts, ~(x \in Sq!ToSet(syncs))
          PROVE  TakeAsk /\ Head(rx).kind = "ask" /\ Head(rx).epoch = restarts
      BY <2>6, <3>1, SyncsMove DEF Answered
    <3>2. \A c \in Sq!ToSet(toBoard') : ~(c.kind = "restore" /\ c.epoch = restarts)
      BY <2>6, RestoresMove DEF Answered
    <3>3. TakeAsk /\ Head(rx).kind = "ask" /\ Head(rx).epoch = restarts
      BY <2>1, <2>6, <3>1, <3>2 DEF Answered
    <3>4. /\ 1 \in 1 .. Len(Coming) /\ Coming[1] = Head(rx)
          /\ \A i \in 1 .. Len(Coming') :
                i + 1 \in 1 .. Len(Coming) /\ Coming'[i] = Coming[i + 1]
      BY <3>3, FirstGone DEF TakeAsk, FrameDone, lineVars
    <3>5. \A i \in 1 .. Len(Coming') : 1 < i + 1
      BY <1>0, LenProperties
    <3>6. NoData(Coming')
      BY <2>1, <3>3, <3>4, <3>5 DEF Quiet, NoDataBehindAsk, NoData
    <3>7. pc' \in {"read", "parse"}
      BY <3>3 DEF TakeAsk, FrameDone
    <3> QED
      BY <3>6, <3>7
  <2> QED
    BY <2>4, <2>5, <2>6
<1> QED
  BY <1>1, <1>2

\* Where the counters in memory come from.
LEMMA NodeMoves ==
    ASSUME TypeInv, Settled, Agree, [Next]_storeVars, causes' = {}
    PROVE  \/ UNCHANGED node
           \/ Start /\ node' = db /\ view = db
           \/ /\ TakeData /\ Head(rx).kind = "data" /\ node' = Head(rx).cnt
              /\ 1 \in 1 .. Len(Coming) /\ Coming[1] = Head(rx)
              /\ \A i \in 1 .. Len(Coming') :
                    i + 1 \in 1 .. Len(Coming) /\ Coming'[i] = Coming[i + 1]
<1>1. CASE TakeData
  <2>1. Head(rx).kind = "data" /\ node' = Head(rx).cnt
    BY <1>1 DEF TakeData
  <2> QED
    BY <1>1, <2>1, FirstGone DEF TakeData, lineVars
<1>2. CASE Start
  BY <1>2 DEF Start, Agree
<1>3. CASE BoardStep \/ SendPoll \/ SyncStep \/ Crash \/ UNCHANGED storeVars
  BY <1>3 DEF BoardStep, CountUnit, BoardRestarts, BoardAsks, AnswerPoll, TakeRestore, DamageFrame,
     SendPoll, SyncStep, CopyPast, SendRestore, LoseRestore, Crash, Die, mainVars, storeVars
<1>4. CASE ~TakeData /\ MainStep
  BY <1>4 DEF MainStep, ReadUart, DropFrame, TakeAsk, ClearIo, SetIo, Begin, Update, Commit, StorePast
<1> QED
  BY <1>1, <1>2, <1>3, <1>4 DEF Next, StoreStep

\* What the restore that the board waits for holds.
LEMMA RestoreTaken ==
    ASSUME TypeInv, asking, TakeRestore, causes' = {}, NEW p \in Port, Given(p), Quiet
    PROVE  /\ node[p] <= count'[p] /\ count'[p] <= tally[p]
           /\ NoData(Coming)
<1>1. Head(toBoard) \in Sq!ToSet(toBoard)
  BY SetOfTail DEF TakeRestore, TypeInv, LineType
<1>2. /\ Head(toBoard).kind = "restore" /\ Head(toBoard).epoch = restarts
      /\ count' = Head(toBoard).cnt
  BY DEF TakeRestore
<1> QED
  BY <1>1, <1>2 DEF Given, Quiet, Answered

LEMMA NumbersStep ==
    ASSUME TypeInv, Settled, Agree, Quiet, NEW p \in Sound, Numbers(p), Flow(p), Given(p),
           [Next]_storeVars, causes' = {}
    PROVE  Numbers(p)'
<1>0. /\ p \in Port
      /\ count[p] \in Nat /\ tally[p] \in Nat /\ node[p] \in Nat /\ db[p] \in Nat
      /\ view[p] \in Nat /\ pastData[p] \in Nat
  BY CountsAre DEF Sound, TypeInv, BoardType, MainType, DbType
<1>1. CASE BoardStep \/ SendPoll \/ SyncStep \/ UNCHANGED storeVars
  <2>1. UNCHANGED <<db, view, node, pastData>>
    BY <1>1 DEF BoardStep, CountUnit, BoardRestarts, BoardAsks, AnswerPoll, TakeRestore, DamageFrame,
       SendPoll, SyncStep, CopyPast, SendRestore, LoseRestore, mainVars, dbVars, storeVars
  <2>2. CASE UNCHANGED <<asking, count, tally>>
    BY <2>1, <2>2 DEF Numbers
  <2>3. ASSUME NEW q \in Port, CountUnit(q) PROVE Numbers(p)'
    <3>1. /\ asking' = asking /\ ~asking /\ tally[q] < MaxTally
          /\ count' = [count EXCEPT ![q] = (@ + 1) % (2 * HalfRange)]
          /\ tally' = [tally EXCEPT ![q] = @ + 1]
      BY <2>3 DEF CountUnit
    <3>2. p \in DOMAIN count /\ p \in DOMAIN tally
      BY <1>0 DEF TypeInv, BoardType, Counts
    <3>3. CASE p = q
      <4>1. count[p] + 1 < 2 * HalfRange /\ count[p] <= tally[p]
        BY <1>0, <3>1, <3>3, CounterStoreAssumption DEF Numbers
      <4>2. (count[p] + 1) % (2 * HalfRange) = count[p] + 1
        <5>1. HalfRange \in Nat /\ count[p] \in Nat
          BY <1>0, CounterStoreAssumption
        <5>2. count[p] + 1 \in Nat /\ 2 * HalfRange \in Nat
          BY <5>1
        <5> QED
          BY <4>1, <5>2, NoWrap
      <4>3. count'[p] = count[p] + 1 /\ tally'[p] = tally[p] + 1
        BY <3>1, <3>2, <3>3, <4>2
      <4> QED
        BY <1>0, <2>1, <3>1, <4>3 DEF Numbers
    <3>4. CASE p # q
      <4>1. count'[p] = count[p] /\ tally'[p] = tally[p]
        BY <3>1, <3>2, <3>4
      <4> QED
        BY <2>1, <3>1, <4>1 DEF Numbers
    <3> QED
      BY <3>3, <3>4
  <2>4. CASE BoardRestarts
    <3>1. asking' /\ tally' = tally
      BY <2>4 DEF BoardRestarts
    <3> QED
      BY <2>1, <3>1 DEF Numbers
  <2>5. CASE TakeRestore
    <3>1. tally' = tally
      BY <2>5 DEF TakeRestore
    <3>2. node[p] <= count'[p] /\ count'[p] <= tally[p]
      <4>1. CASE asking
        BY <1>0, <2>5, <4>1, RestoreTaken
      <4>2. CASE ~asking
        BY <2>5, <4>2 DEF TakeRestore, Numbers
      <4> QED
        BY <4>1, <4>2
    <3> QED
      BY <2>1, <3>1, <3>2 DEF Numbers
  <2> QED
    BY <2>2, <2>3, <2>4, <2>5, BoardOnly
<1>2. CASE MainStep \/ Crash \/ Start
  <2>1. UNCHANGED <<asking, count, tally>>
    BY <1>2 DEF MainStep, ReadUart, DropFrame, TakeAsk, TakeData, ClearIo, SetIo, Begin, Update, Commit,
       StorePast, Crash, Die, Start, boardVars
  <2>2. CASE TakeData
    <3>1. /\ Head(rx).kind = "data" /\ node' = Head(rx).cnt
          /\ 1 \in 1 .. Len(Coming) /\ Coming[1] = Head(rx)
      BY <2>2, FirstGone DEF TakeData, lineVars
    <3>2. /\ node[p] <= node'[p] /\ node'[p] <= tally[p]
          /\ ~asking => node'[p] <= count[p]
      BY <3>1 DEF Flow, DataWithin
    <3>3. node'[p] \in Nat
      <4>1. node' \in Counts
        BY StepType DEF TypeInv, MainType
      <4> QED
        BY <1>0, <4>1, CountsAre
    <3>4. UNCHANGED <<db, view, pastData>>
      BY <2>2 DEF TakeData, dbVars
    <3> QED
      BY <1>0, <2>1, <3>2, <3>3, <3>4 DEF Numbers
  <2>3. CASE StorePast
    <3>1. UNCHANGED <<node, db, view>> /\ pastData'[p] \in {pastData[p], node[p]}
      BY <1>0, <2>3 DEF StorePast, dbVars, TypeInv, MainType, Counts
    <3> QED
      BY <1>0, <2>1, <3>1 DEF Numbers
  <2>4. CASE Update
    <3>1. UNCHANGED <<node, db, pastData>> /\ view' \in {view, node}
      BY <2>4 DEF Update
    <3> QED
      BY <1>0, <2>1, <3>1 DEF Numbers
  <2>5. CASE Commit \/ Crash \/ Start
    <3>1. /\ UNCHANGED <<node, pastData>> \/ (node' = db /\ pastData' = db /\ UNCHANGED view)
          /\ \/ db' = view /\ UNCHANGED view
             \/ view' = db /\ UNCHANGED db
             \/ UNCHANGED <<view, db>>
      BY <2>5 DEF Commit, Crash, Die, Start
    <3>2. Start => view = db /\ UNCHANGED <<view, db>>
      BY DEF Start, Agree
    <3>3. Start \/ UNCHANGED <<node, pastData>>
      BY <2>5 DEF Commit, Crash, Die
    <3> QED
      BY <1>0, <2>1, <3>1, <3>2, <3>3 DEF Numbers
  <2>6. CASE ReadUart \/ DropFrame \/ TakeAsk \/ ClearIo \/ SetIo \/ Begin
    <3>1. UNCHANGED <<node, db, view, pastData>>
      BY <2>6 DEF ReadUart, DropFrame, TakeAsk, ClearIo, SetIo, Begin, dbVars
    <3> QED
      BY <2>1, <3>1 DEF Numbers
  <2> QED
    BY <1>2, <2>2, <2>3, <2>4, <2>5, <2>6 DEF MainStep
<1> QED
  BY <1>1, <1>2 DEF Next, StoreStep

LEMMA Wider ==
    ASSUME NEW s \in Seq(Frame), NEW p \in Port, NEW lo \in Nat, NEW hi \in Nat,
           DataWithin(s, p, lo, hi), NEW lo2 \in Nat, NEW hi2 \in Nat, lo2 <= lo, hi <= hi2
    PROVE  DataWithin(s, p, lo2, hi2)
<1> SUFFICES ASSUME NEW i \in 1 .. Len(s), s[i].kind = "data"
             PROVE  lo2 <= s[i].cnt[p] /\ s[i].cnt[p] <= hi2
  BY DEF DataWithin
<1>1. s[i] \in Frame
  BY ElementType, LenProperties
<1>2. s[i].cnt[p] \in Nat
  BY <1>1, FrameFields, CountsAre
<1>3. lo <= s[i].cnt[p] /\ s[i].cnt[p] <= hi
  BY DEF DataWithin
<1> QED
  BY <1>2, <1>3

LEMMA FlowStep ==
    ASSUME TypeInv, Settled, Agree, Quiet, NEW p \in Sound, Numbers(p), Flow(p), Given(p),
           [Next]_storeVars, causes' = {}
    PROVE  Flow(p)'
<1>0. /\ p \in Port /\ Coming \in Seq(Frame) /\ Coming' \in Seq(Frame)
      /\ count[p] \in Nat /\ tally[p] \in Nat /\ node[p] \in Nat /\ db[p] \in Nat
      /\ count'[p] \in Nat /\ tally'[p] \in Nat /\ node'[p] \in Nat
  <2>1. TypeInv' /\ p \in Port
    BY StepType DEF Sound
  <2> QED
    BY <2>1, CountsAre, ComingType, ComingStays DEF TypeInv, BoardType, MainType, DbType
<1>1. CASE BoardRestarts
  <2>1. UNCHANGED <<node, tally, Coming>> /\ asking'
    BY <1>1 DEF BoardRestarts, mainVars, Coming
  <2> QED
    BY <2>1 DEF Flow
<1>2. CASE TakeRestore
  <2>1. UNCHANGED <<node, tally, Coming>>
    BY <1>2 DEF TakeRestore, mainVars, Coming
  <2>2. CASE asking
    <3>1. NoData(Coming)
      BY <1>0, <1>2, <2>2, RestoreTaken
    <3> QED
      BY <2>1, <3>1 DEF Flow, NoData, RisingData, DataWithin
  <2>3. CASE ~asking
    BY <1>2, <2>1, <2>3 DEF TakeRestore, Flow
  <2> QED
    BY <2>2, <2>3
<1>3. ASSUME NEW q \in Port, CountUnit(q) PROVE Flow(p)'
  <2>1. UNCHANGED <<asking, node, Coming>> /\ ~asking
    BY <1>3 DEF CountUnit, mainVars, lineVars, Coming
  <2>2. tally[p] <= tally'[p]
    BY <1>0, <1>3 DEF CountUnit, TypeInv, BoardType, Counts
  <2>3. count[p] <= count'[p]
    <3>1. count[q] \in Nat /\ tally[q] \in Nat
      BY CountsAre DEF TypeInv, BoardType
    <3>2. CASE p = q
      <4>1. count[p] + 1 < 2 * HalfRange
        <5>1. tally[p] < MaxTally
          BY <1>3, <3>2 DEF CountUnit
        <5>2. HalfRange \in Nat /\ MaxTally \in Nat /\ MaxTally < HalfRange
          BY CounterStoreAssumption
        <5> QED
          BY <1>0, <2>1, <5>1, <5>2 DEF Numbers
      <4>2. (count[p] + 1) % (2 * HalfRange) = count[p] + 1
        <5>1. HalfRange \in Nat /\ count[p] \in Nat
          BY <1>0, CounterStoreAssumption
        <5>2. count[p] + 1 \in Nat /\ 2 * HalfRange \in Nat
          BY <5>1
        <5> QED
          BY <4>1, <5>2, NoWrap
      <4>3. count'[p] = count[p] + 1
        BY <1>0, <1>3, <3>2, <4>2 DEF CountUnit, TypeInv, BoardType, Counts
      <4> QED
        BY <1>0, <4>3
    <3>3. CASE p # q
      BY <1>0, <1>3, <3>3 DEF CountUnit, TypeInv, BoardType, Counts
    <3> QED
      BY <3>2, <3>3
  <2>4. /\ DataWithin(Coming, p, node[p], tally'[p])
        /\ DataWithin(Coming, p, node[p], count'[p])
    BY <1>0, <2>1, <2>2, <2>3, Wider DEF Flow
  <2> QED
    BY <2>1, <2>4 DEF Flow
<1>4. CASE UNCHANGED <<asking, count, tally>>
  <2>1. CASE Thins(Coming, Coming') /\ node'[p] <= node[p]
    <3>1. /\ RisingData(Coming', p) /\ DataWithin(Coming', p, node[p], tally[p])
          /\ ~asking => DataWithin(Coming', p, node[p], count[p])
      BY <1>0, <2>1, Thinned DEF Flow
    <3>2. DataWithin(Coming', p, node'[p], tally[p])
      BY <1>0, <2>1, <3>1, Wider
    <3>3. ~asking => DataWithin(Coming', p, node'[p], count[p])
      BY <1>0, <2>1, <3>1, Wider
    <3> QED
      BY <1>4, <3>1, <3>2, <3>3 DEF Flow
  <2>2. CASE /\ Head(rx).kind = "data" /\ node' = Head(rx).cnt
             /\ 1 \in 1 .. Len(Coming) /\ Coming[1] = Head(rx)
             /\ \A i \in 1 .. Len(Coming') :
                   i + 1 \in 1 .. Len(Coming) /\ Coming'[i] = Coming[i + 1]
    <3>1. \A i \in 1 .. Len(Coming') : \A j \in 1 .. Len(Coming') : i < j => i + 1 < j + 1
      BY <1>0, LenProperties
    <3>2. RisingData(Coming', p)
      BY <2>2, <3>1 DEF Flow, RisingData
    <3>3. \A i \in 1 .. Len(Coming') : 1 < i + 1
      BY <1>0, LenProperties
    <3>4. \A i \in 1 .. Len(Coming') : Coming'[i].kind = "data" => node'[p] <= Coming'[i].cnt[p]
      BY <2>2, <3>3 DEF Flow, RisingData
    <3>5. \A i \in 1 .. Len(Coming') : Coming'[i].kind = "data" =>
             Coming'[i].cnt[p] <= tally[p] /\ (~asking => Coming'[i].cnt[p] <= count[p])
      BY <2>2 DEF Flow, DataWithin
    <3> QED
      BY <1>4, <3>2, <3>4, <3>5 DEF Flow, DataWithin
  <2>3. CASE Coming' = Append(Coming, AskFrame) /\ UNCHANGED node
    <3>1. AskFrame \in Frame /\ AskFrame.kind # "data"
      BY NewFrames DEF AskFrame, TypeInv
    <3> QED
      BY <1>0, <1>4, <2>3, <3>1, Lengthened DEF Flow
  <2>4. CASE Coming' = Append(Coming, DataFrame) /\ ~asking /\ UNCHANGED node
    <3>1. DataFrame \in Frame /\ DataFrame.cnt = count
      BY NewFrames DEF DataFrame, TypeInv
    <3>2. node[p] <= count[p] /\ count[p] <= tally[p] /\ count[p] <= count[p]
      BY <1>0, <2>4 DEF Numbers
    <3>3. RisingData(Coming', p)
      BY <1>0, <2>4, <3>1, Lengthened DEF Flow, DataWithin
    <3>4. /\ DataWithin(Coming', p, node[p], tally[p])
          /\ DataWithin(Coming', p, node[p], count[p])
      BY <1>0, <2>4, <3>1, <3>2, Lengthened DEF Flow
    <3> QED
      BY <1>4, <2>4, <3>3, <3>4 DEF Flow
  <2>5. BoardAsks \/ AnswerPoll => UNCHANGED node
    BY DEF BoardAsks, AnswerPoll, mainVars
  <2>6. Start => db[p] <= node[p]
    <3>1. Start => view = db
      BY DEF Start, Agree
    <3> QED
      BY <3>1 DEF Numbers
  <2>7. UNCHANGED node => node'[p] <= node[p]
    BY <1>0
  <2>8. \/ Thins(Coming, Coming')
        \/ Coming' = Append(Coming, AskFrame) /\ UNCHANGED node
        \/ Coming' = Append(Coming, DataFrame) /\ ~asking /\ UNCHANGED node
    BY <2>5, ComingMoves
  <2>9. Start => Thins(Coming, Coming')
    BY ComingMoves DEF Start, BoardAsks, AnswerPoll, mainVars
  <2> QED
    BY <2>1, <2>2, <2>3, <2>4, <2>6, <2>7, <2>8, <2>9, NodeMoves
<1> QED
  BY <1>1, <1>2, <1>3, <1>4, BoardOnly

LEMMA GivenStep ==
    ASSUME TypeInv, Settled, Agree, Epochs, Quiet, NEW p \in Sound, Numbers(p), Flow(p), Given(p),
           [Next]_storeVars, causes' = {}
    PROVE  Given(p)'
<1> SUFFICES ASSUME asking'
             PROVE  /\ \A x \in Sq!ToSet(syncs') : x.epoch = restarts' /\ x.copied
                         => node'[p] <= x.cnt[p] /\ x.cnt[p] <= tally'[p]
                    /\ \A c \in Sq!ToSet(toBoard') : c.kind = "restore" /\ c.epoch = restarts'
                         => node'[p] <= c.cnt[p] /\ c.cnt[p] <= tally'[p]
  BY DEF Given
<1>0. /\ p \in Port /\ p # Ports /\ restarts \in Nat
      /\ tally[p] \in Nat /\ node[p] \in Nat /\ db[p] \in Nat /\ node'[p] \in Nat
      /\ pastData[p] \in Nat
  <2>1. TypeInv' /\ p \in Port /\ p # Ports
    BY StepType DEF Sound
  <2> QED
    BY <2>1, CountsAre DEF TypeInv, BoardType, MainType, DbType
<1>1. CASE BoardRestarts
  <2>1. restarts' = restarts + 1 /\ UNCHANGED syncs
    BY <1>1 DEF BoardRestarts
  <2>2. \A e : e <= restarts => e # restarts'
    BY <1>0, <2>1
  <2>3. SyncStep => restarts' = restarts
    BY DEF SyncStep, CopyPast, SendRestore, LoseRestore, boardVars
  <2>4. \A c \in Sq!ToSet(toBoard') : c.kind # "restore"
    BY <1>0, <1>1, <2>1, <2>3, RestoresMove
  <2> QED
    BY <2>1, <2>2, <2>4 DEF Epochs
<1>2. CASE ~BoardRestarts
  <2>1. restarts' = restarts /\ asking /\ tally' = tally
    BY <1>2, BoardOnly DEF TakeRestore, CountUnit
  <2>2. ASSUME Answered PROVE node'[p] <= node[p]
    <3>1. ~(1 \in 1 .. Len(Coming) /\ Coming[1].kind = "data")
      BY <2>1, <2>2 DEF Quiet, NoData
    <3>2. Start => db[p] <= node[p]
      <4>1. Start => view = db
        BY DEF Start, Agree
      <4> QED
        BY <4>1 DEF Numbers
    <3> QED
      BY <1>0, <3>1, <3>2, NodeMoves
  <2>3. ASSUME NEW x \in Sq!ToSet(syncs'), x.epoch = restarts, x.copied
        PROVE  node'[p] <= x.cnt[p] /\ x.cnt[p] <= tally[p]
    <3>1. x.cnt[p] \in Nat
      <4>1. TypeInv'
        BY StepType
      <4>2. PICK i \in DOMAIN syncs' : x = syncs'[i]
        BY DEF Sq!ToSet
      <4>3. syncs' \in Seq([copied : BOOLEAN, cnt : Counts, epoch : Nat])
        BY <4>1 DEF TypeInv, RestType
      <4>4. x \in [copied : BOOLEAN, cnt : Counts, epoch : Nat]
        BY <4>2, <4>3, ElementType
      <4>5. x.cnt \in Counts
        BY <4>4
      <4> QED
        BY <1>0, <4>5, CountsAre
    <3>2. CASE x \in Sq!ToSet(syncs)
      <4>1. Answered /\ node[p] <= x.cnt[p] /\ x.cnt[p] <= tally[p]
        BY <2>1, <2>3, <3>2 DEF Answered, Given
      <4> QED
        BY <1>0, <2>2, <3>1, <4>1
    <3>3. CASE /\ x.cnt = pastData /\ UNCHANGED <<boardVars, mainVars>> /\ syncs # <<>>
               /\ \E y \in Sq!ToSet(syncs) : y.epoch = x.epoch
      <4>1. Answered
        BY <2>3, <3>3 DEF Answered
      <4>2. pc \in {"read", "parse"}
        BY <2>1, <3>3, <4>1 DEF Quiet, Settled
      <4>3. x.cnt[p] = node[p] /\ node' = node
        BY <3>3, <4>2 DEF Settled, mainVars
      <4> QED
        BY <1>0, <4>3 DEF Numbers
    <3> QED
      BY <2>3, <3>2, <3>3, SyncsMove
  <2>4. ASSUME NEW c \in Sq!ToSet(toBoard'), c.kind = "restore", c.epoch = restarts
        PROVE  node'[p] <= c.cnt[p] /\ c.cnt[p] <= tally[p]
    <3>1. c.cnt[p] \in Nat
      <4>1. TypeInv'
        BY StepType
      <4>2. PICK i \in DOMAIN toBoard' : c = toBoard'[i]
        BY DEF Sq!ToSet
      <4>3. toBoard' \in Seq(Command)
        BY <4>1 DEF TypeInv, LineType
      <4>4. c \in Command
        BY <4>2, <4>3, ElementType
      <4>5. c.cnt \in Counts
        BY <2>4, <4>4, CommandFields
      <4> QED
        BY <1>0, <4>5, CountsAre
    <3>2. CASE c \in Sq!ToSet(toBoard)
      <4>1. Answered /\ node[p] <= c.cnt[p] /\ c.cnt[p] <= tally[p]
        BY <2>1, <2>4, <3>2 DEF Answered, Given
      <4> QED
        BY <1>0, <2>2, <3>1, <4>1
    <3>3. ASSUME NEW y \in Sq!ToSet(syncs), y.copied, c.epoch = y.epoch, c.cnt = Spoil(y.cnt)
          PROVE  node'[p] <= c.cnt[p] /\ c.cnt[p] <= tally[p]
      <4>1. Answered /\ node[p] <= y.cnt[p] /\ y.cnt[p] <= tally[p]
        BY <2>1, <2>4, <3>3 DEF Answered, Given
      <4>2. y.cnt \in Counts
        <5>1. PICK i \in DOMAIN syncs : y = syncs[i]
          BY DEF Sq!ToSet
        <5>2. syncs \in Seq([copied : BOOLEAN, cnt : Counts, epoch : Nat])
          BY DEF TypeInv, RestType
        <5>3. y \in [copied : BOOLEAN, cnt : Counts, epoch : Nat]
          BY <5>1, <5>2, ElementType
        <5> QED
          BY <5>3
      <4>3. c.cnt[p] = y.cnt[p]
        BY <1>0, <3>3, <4>2 DEF Spoil, Counts
      <4> QED
        BY <1>0, <2>2, <3>1, <4>1, <4>3
    <3> QED
      BY <2>4, <3>2, <3>3, RestoresMove
  <2> QED
    BY <2>1, <2>3, <2>4
<1> QED
  BY <1>1, <1>2

LEMMA ClimbingInit == Init => Settled /\ Epochs /\ Climbing
<1> SUFFICES ASSUME Init PROVE Settled /\ Epochs /\ Climbing
  OBVIOUS
<1>1. Coming = <<>> /\ syncs = <<>> /\ toBoard = <<>>
  BY ConcatEmptySeq DEF Init, Coming
<1>2. Len(<<>>) = 0 /\ DOMAIN <<>> = {} /\ \A i \in 1 .. 0 : FALSE
  BY EmptySeq
<1>3. /\ \A p : RisingData(Coming, p)
      /\ \A p, lo, hi : DataWithin(Coming, p, lo, hi)
      /\ \A e : NoDataBehindAsk(Coming, e) /\ AsksUpTo(Coming, e)
      /\ NoData(Coming)
  BY <1>1, <1>2 DEF RisingData, DataWithin, NoDataBehindAsk, AsksUpTo, NoData
<1>4. Sq!ToSet(syncs) = {} /\ Sq!ToSet(toBoard) = {}
  BY <1>1, <1>2 DEF Sq!ToSet
<1>5. Settled
  BY DEF Init, Settled
<1>6. Epochs /\ Quiet
  BY <1>3, <1>4 DEF Init, Epochs, Quiet
<1>7. ASSUME NEW p \in Sound PROVE Numbers(p) /\ Flow(p) /\ Given(p)
  <2>1. Numbers(p)
    BY DEF Init, Numbers, Sound
  <2> QED
    BY <1>3, <1>4, <2>1 DEF Flow, Given
<1> QED
  BY <1>5, <1>6, <1>7 DEF Climbing

ClimbingInv ==
    /\ TypeInv /\ Agree /\ Settled /\ Epochs
    /\ causes = {} => Climbing

LEMMA ClimbingStep == ClimbingInv /\ [Next]_storeVars => ClimbingInv'
<1> SUFFICES ASSUME ClimbingInv, [Next]_storeVars PROVE ClimbingInv'
  OBVIOUS
<1>1. TypeInv' /\ Agree' /\ Settled' /\ Epochs'
  BY StepType, AgreeStep, SettledStep, EpochsStep DEF ClimbingInv
<1>2. ASSUME causes' = {} PROVE Climbing'
  <2>1. Climbing
    BY <1>2, CausesGrow DEF ClimbingInv
  <2>2. Quiet'
    BY <1>2, <2>1, QuietStep DEF ClimbingInv, Climbing
  <2>3. ASSUME NEW p \in Sound PROVE Numbers(p)' /\ Flow(p)' /\ Given(p)'
    BY <1>2, <2>1, NumbersStep, FlowStep, GivenStep DEF ClimbingInv, Climbing
  <2> QED
    BY <2>2, <2>3 DEF Climbing
<1> QED
  BY <1>1, <1>2 DEF ClimbingInv

LEMMA AlwaysClimbing == Spec => []ClimbingInv
<1>1. Init => ClimbingInv
  BY InitType, AgreeInit, ClimbingInit DEF ClimbingInv
<1> QED
  BY <1>1, ClimbingStep, PTL DEF Spec

\* Whatever the order of polls, requests, threads, crashes and busy databases,
\* a stored counter goes back only if the board answered a poll before it had
\* its counters, a restore came a restart too late, or a damaged frame was
\* accepted behind another one.
THEOREM StoredNeverBack == Spec => NeverGoesBack
<1>1. ASSUME ClimbingInv, [Next]_storeVars, NEW p \in Sound, db'[p] < db[p]
      PROVE  causes # {}
  <2>1. SUFFICES ASSUME causes = {} PROVE FALSE
    OBVIOUS
  <2>2. Numbers(p) /\ p \in Port
    BY <1>1, <2>1 DEF ClimbingInv, Climbing, Sound
  <2>3. db[p] \in Nat /\ view[p] \in Nat
    BY <1>1, <2>2, CountsAre DEF ClimbingInv, TypeInv, DbType
  <2>4. db' = db \/ db' = view
    <3>1. CASE Commit
      BY <3>1 DEF Commit
    <3>2. CASE ~Commit
      BY <1>1, <3>2 DEF Next, StoreStep, BoardStep, CountUnit, BoardRestarts, BoardAsks, AnswerPoll,
         TakeRestore, DamageFrame, MainStep, ReadUart, DropFrame, TakeAsk, TakeData, ClearIo, SetIo,
         Begin, Update, StorePast, SendPoll, SyncStep, CopyPast, SendRestore, LoseRestore,
         Crash, Die, Start, dbVars, storeVars
    <3> QED
      BY <3>1, <3>2
  <2> QED
    BY <1>1, <2>2, <2>3, <2>4 DEF Numbers
<1>2. ClimbingInv /\ [Next]_storeVars
      => [\A p \in Sound : db'[p] < db[p] => causes # {}]_storeVars
  BY <1>1
<1> QED
  BY <1>2, AlwaysClimbing, PTL DEF Spec, NeverGoesBack

\* Under the same three exceptions a board that gets its counters back gets at
\* least what the table holds and at most what was counted.
THEOREM RestoredRight == Spec => RestoredBetween
<1>1. ASSUME ClimbingInv, [Next]_storeVars, asking, ~asking', causes' = {}, NEW p \in Sound
      PROVE  db[p] <= count'[p] /\ count'[p] <= tally[p]
  <2>1. causes = {} /\ p \in Port
    BY <1>1, CausesGrow DEF Sound
  <2>2. Quiet /\ Numbers(p) /\ Given(p)
    BY <1>1, <2>1 DEF ClimbingInv, Climbing
  <2>3. TakeRestore
    BY <1>1, BoardOnly DEF BoardRestarts, CountUnit
  <2>4. node[p] <= count'[p] /\ count'[p] <= tally[p]
    BY <1>1, <2>1, <2>2, <2>3, RestoreTaken DEF ClimbingInv
  <2>5. db[p] \in Nat /\ view[p] \in Nat /\ node[p] \in Nat /\ count'[p] \in Nat
    <3>1. TypeInv /\ TypeInv'
      BY <1>1, StepType DEF ClimbingInv
    <3> QED
      BY <2>1, <3>1, CountsAre DEF TypeInv, BoardType, MainType, DbType
  <2> QED
    BY <2>2, <2>4, <2>5 DEF Numbers
<1>2. ClimbingInv /\ [Next]_storeVars
      => [asking /\ ~asking' /\ causes' = {} =>
            \A p \in Sound : db[p] <= count'[p] /\ count'[p] <= tally[p]]_storeVars
  BY <1>1
<1> QED
  BY <1>2, AlwaysClimbing, PTL DEF Spec, RestoredBetween

-----------------------------------------------------------------------------
(* The whole process: types.                                               *)

NetType ==
    /\ client \in ClientValues
    /\ inbox \in Seq(Request) /\ batch \in Seq(Request)
    /\ (tpc = "serve" <=> batch # <<>>)
    /\ lastIn \in Inputs

\* The steps of the main loop, the threads and the board.
LEMMA StoreStepNext ==
    ASSUME NetStoreStep PROVE Next
  BY DEF NetStoreStep, Next

\* What clients and their board do to the variables of CounterStore.
LEMMA ClientsType ==
    ASSUME TypeInv, ClientsBoardStep
    PROVE  TypeInv'
<1>1. ASSUME NEW p \in Port, ToggleInput(p) PROVE TypeInv'
  <2>1. input' \in Inputs
    BY <1>1 DEF ToggleInput, TypeInv, BoardType, Inputs
  <2> QED
    BY <1>1, <2>1 DEF ToggleInput, TypeInv, BoardType, LineType, MainType, DbType, RestType,
       lineVars, mainVars, dbVars, upsetVars
<1>2. CASE TakeClear
  <2>1. toBoard' \in Seq(Command) /\ Len(toBoard') <= LineCap
    BY <1>2, TailType DEF TakeClear, TypeInv
  <2>2. count' \in Counts
    <3>1. 0 \in Count
      BY CounterStoreAssumption DEF Count
    <3>2. count \in [Port -> Count] /\ count' = [count EXCEPT ![Head(toBoard).port] = 0]
      BY <1>2 DEF TakeClear, TypeInv, BoardType, Counts
    <3> QED
      BY <3>1, <3>2 DEF Counts
  <2> QED
    BY <1>2, <2>1, <2>2 DEF TakeClear, TypeInv, BoardType, LineType, MainType, DbType, RestType,
       mainVars, dbVars, upsetVars
<1> QED
  BY <1>1, <1>2 DEF ClientsBoardStep

LEMMA DieType ==
    ASSUME TypeInv, Die, crashes' \in 0 .. MaxCrashes
    PROVE  TypeInv'
<1>1. rx' \in Seq(Frame) /\ Len(rx') <= ReadCap
  BY CounterStoreAssumption DEF Die
<1>2. syncs' \in Seq([copied : BOOLEAN, cnt : Counts, epoch : Nat])
  BY DEF Die
<1> QED
  BY <1>1, <1>2 DEF Die, TypeInv, BoardType, LineType, MainType, DbType, RestType, boardVars,
     lineVars, PcValues

LEMMA RequestFields ==
    ASSUME NEW r \in Request PROVE r.kind = "clear" => r.port \in Port
  BY DEF Request

LEMMA FirstRequest ==
    ASSUME NetType, tpc = "serve"
    PROVE  /\ batch \in Seq(Request) /\ batch # <<>> /\ Head(batch) \in Request
           /\ Tail(batch) \in Seq(Request) /\ Len(Tail(batch)) = Len(batch) - 1
           /\ Len(batch) \in Nat \ {0}
  BY DEF NetType

\* Of CounterStore the server thread changes the line to the board and faults; the
\* end of the process is a death like any other.
LEMMA ServerType ==
    ASSUME TypeInv, NetType, ServerStep \/ NetCrash
    PROVE  TypeInv'
<1>1. CASE ServeClear
  <2>1. Head(batch) \in Request /\ Head(batch).kind = "clear"
    BY <1>1, FirstRequest DEF ServeClear, Serving
  <2>2. Clear(Head(batch).port) \in Command
    BY <2>1, RequestFields DEF Clear, Command
  <2>3. toBoard \in Seq(Command) /\ Len(toBoard) < LineCap
        /\ toBoard' = Append(toBoard, Clear(Head(batch).port))
    BY <1>1 DEF ServeClear, TypeInv, LineType
  <2>4. toBoard' \in Seq(Command) /\ Len(toBoard') <= LineCap
    BY <2>2, <2>3, CounterStoreAssumption
  <2> QED
    BY <1>1, <2>4 DEF ServeClear, TypeInv, BoardType, LineType, MainType, DbType, RestType,
       boardVars, mainVars, dbVars, upsetVars
<1>2. CASE Receive \/ SelectFails
  <2>1. faults' \in 0 .. MaxFaults
    BY <1>2, CounterStoreAssumption DEF Receive, SelectFails, Fault, TypeInv, RestType
  <2> QED
    BY <1>2, <2>1 DEF Receive, SelectFails, TypeInv, BoardType, LineType, MainType, DbType,
       RestType, boardVars, lineVars, mainVars, dbVars
<1>3. CASE Disconnect \/ ReadIo \/ ServeIo \/ ServeCount
  BY <1>3 DEF Disconnect, ReadIo, ServeIo, ServeCount, Write, storeVars, TypeInv, BoardType, LineType,
     MainType, DbType, RestType, boardVars, lineVars, mainVars, dbVars, upsetVars
<1>4. CASE Sigpipe \/ ParseCrash \/ NetCrash
  <2>1. Die
    BY <1>4 DEF Sigpipe, ParseCrash, NetCrash, NetDies
  <2>2. crashes' \in 0 .. MaxCrashes
    BY <1>4, CounterStoreAssumption DEF Sigpipe, ParseCrash, NetCrash, TypeInv, RestType
  <2> QED
    BY <2>1, <2>2, DieType
<1> QED
  BY <1>1, <1>2, <1>3, <1>4 DEF ServerStep

LEMMA NetStepType ==
    ASSUME TypeInv, NetType, [NetNext]_vars
    PROVE  TypeInv'
<1>1. CASE ClientStep \/ UNCHANGED vars
  BY <1>1 DEF ClientStep, ClientConnects, ClientSends, ClientLeaves, vars, storeVars, TypeInv,
     BoardType, LineType, MainType, DbType, RestType, boardVars, lineVars, mainVars, dbVars,
     upsetVars
<1>2. CASE NetStoreStep
  BY <1>2, StoreStepNext, StepType
<1> QED
  BY <1>1, <1>2, ClientsType, ServerType DEF NetNext

-----------------------------------------------------------------------------
(* The session of a client.                                                *)

\* A client that sends one request at a time has one under way at most, and has
\* none when the kernel of the process knows that it has left.
SessionInv ==
    /\ NetType
    /\ client = "none" => inbox = <<>> /\ batch = <<>>
    /\ ~pipelined => Len(inbox) + Len(batch) <= 1
    /\ client = "rst" /\ ~pipelined => inbox = <<>> /\ batch = <<>>
    /\ sigpipe => pipelined

LEMMA EmptyLength == ASSUME NEW S, NEW s \in Seq(S) PROVE s = <<>> <=> Len(s) = 0
  BY EmptySeq

LEMMA Appended ==
    ASSUME NEW S, NEW s \in Seq(S), NEW x \in S
    PROVE  Append(s, x) \in Seq(S) /\ Len(Append(s, x)) = Len(s) + 1
  OBVIOUS

\* What handling the first request leaves of the session.
LEMMA HandledSession ==
    ASSUME SessionInv, tpc = "serve", Handled, client # "rst", lastIn' \in Inputs,
           \/ client' = client
           \/ client = "fin" /\ client' = "rst"
    PROVE  SessionInv'
<1>1. /\ batch \in Seq(Request) /\ batch # <<>> /\ Tail(batch) \in Seq(Request)
      /\ Len(Tail(batch)) = Len(batch) - 1 /\ Len(batch) \in Nat \ {0}
  BY FirstRequest DEF SessionInv
<1>2. /\ batch' = Tail(batch) /\ inbox' = inbox /\ UNCHANGED <<pipelined, sigpipe>>
      /\ (tpc' = "serve" <=> Tail(batch) # <<>>)
  BY DEF Handled
<1>3. NetType'
  BY <1>1, <1>2 DEF SessionInv, NetType, ClientValues
<1>4. client' # "none"
  BY <1>1 DEF SessionInv
<1>5. inbox \in Seq(Request) /\ Len(inbox) \in Nat
  BY DEF SessionInv, NetType
<1>6. ~pipelined => Len(inbox') + Len(batch') <= 0
  BY <1>1, <1>2, <1>5 DEF SessionInv
<1>7. ~pipelined => inbox' = <<>> /\ batch' = <<>>
  BY <1>1, <1>2, <1>5, <1>6, EmptyLength
<1>8. ~pipelined => Len(inbox') + Len(batch') <= 1
  BY <1>1, <1>2, <1>5, <1>6
<1> QED
  BY <1>2, <1>3, <1>4, <1>7, <1>8 DEF SessionInv

LEMMA SessionStep ==
    ASSUME TypeInv, SessionInv, [NetNext]_vars
    PROVE  SessionInv'
<1>1. /\ client \in ClientValues /\ inbox \in Seq(Request) /\ batch \in Seq(Request)
      /\ (tpc = "serve" <=> batch # <<>>) /\ lastIn \in Inputs
      /\ Len(inbox) \in Nat /\ Len(batch) \in Nat
  BY DEF SessionInv, NetType
<1>2. nodeIn \in Inputs
  BY DEF TypeInv, MainType
<1>3. CASE NetStoreStep \/ ClientsBoardStep \/ ReadIo \/ UNCHANGED vars
  <2>1. UNCHANGED netVars /\ lastIn' \in Inputs
    BY <1>1, <1>2, <1>3 DEF NetStoreStep, ClientsBoardStep, ToggleInput, TakeClear, ReadIo, vars,
       seenVars, pastVars
  <2> QED
    BY <2>1 DEF SessionInv, NetType, netVars
<1>4. CASE ClientConnects
  <2>1. inbox = <<>> /\ batch = <<>>
    BY <1>4 DEF ClientConnects, SessionInv
  <2> QED
    BY <1>1, <1>4, <2>1 DEF ClientConnects, SessionInv, NetType, ClientValues, seenVars, pastVars
<1>5. ASSUME NEW r \in Request, ClientSends(r) PROVE SessionInv'
  <2>1. inbox' \in Seq(Request) /\ Len(inbox') = Len(inbox) + 1
    BY <1>1, <1>5, Appended DEF ClientSends
  <2>2. ~pipelined' => inbox \o batch = <<>> /\ ~pipelined
    BY <1>5 DEF ClientSends
  <2>3. inbox \o batch = <<>> => Len(inbox) + Len(batch) = 0
    BY <1>1
  <2>4. ~pipelined' => Len(inbox') + Len(batch) <= 1
    BY <1>1, <2>1, <2>2, <2>3
  <2>5. client = "open" /\ UNCHANGED <<tpc, client, batch, sigpipe, lastIn>>
        /\ (pipelined => pipelined')
    BY <1>5 DEF ClientSends, seenVars, pastVars
  <2> QED
    BY <1>1, <2>1, <2>4, <2>5 DEF SessionInv, NetType
<1>6. CASE ClientLeaves
  BY <1>1, <1>6 DEF ClientLeaves, SessionInv, NetType, ClientValues, seenVars, pastVars
<1>7. CASE Receive
  <2>1. batch' \in Seq(Request) /\ Len(batch') = Len(inbox)
    BY <1>1, <1>7 DEF Receive
  <2>2. inbox # <<>> /\ inbox' = <<>> /\ tpc = "recv" /\ tpc' = "serve"
        /\ UNCHANGED <<client, pipelined, sigpipe, lastIn>>
    BY <1>7 DEF Receive, seenVars, pastVars
  <2>3. batch' # <<>> /\ Len(inbox') = 0 /\ inbox' \in Seq(Request)
    BY <1>1, <2>1, <2>2, EmptyLength
  <2>4. batch = <<>> /\ Len(batch) = 0
    BY <1>1, <2>2
  <2>5. ~pipelined => Len(inbox') + Len(batch') <= 1
    BY <1>1, <2>1, <2>3, <2>4 DEF SessionInv
  <2> QED
    BY <1>1, <2>1, <2>2, <2>3, <2>5 DEF SessionInv, NetType
<1>8. CASE Disconnect
  <2>1. tpc = "recv" /\ inbox = <<>> /\ client' = "none" /\ tpc' = "accept"
        /\ UNCHANGED <<inbox, batch, pipelined, sigpipe, lastIn>>
    BY <1>8 DEF Disconnect, seenVars, pastVars
  <2>2. batch = <<>>
    BY <1>1, <2>1
  <2> QED
    BY <1>1, <2>1, <2>2 DEF SessionInv, NetType, ClientValues
<1>9. CASE ServeIo \/ ServeCount
  <2>1. /\ tpc = "serve" /\ Handled /\ client # "rst" /\ lastIn' = lastIn
        /\ client' \in IF client = "fin" THEN {"fin", "rst"} ELSE {client}
    BY <1>9 DEF ServeIo, ServeCount, Serving, Write, pastVars
  <2> QED
    BY <1>1, <2>1, HandledSession
<1>10. CASE SelectFails \/ ServeClear
  <2>1. tpc = "serve" /\ Handled /\ lastIn' = lastIn /\ client' = client
    BY <1>10 DEF SelectFails, ServeClear, Serving, seenVars, pastVars
  <2>2. CASE client # "rst"
    BY <1>1, <2>1, <2>2, HandledSession
  <2>3. CASE client = "rst"
    <3>1. pipelined
      BY <1>1, <2>1, <2>3 DEF SessionInv
    <3>2. Tail(batch) \in Seq(Request)
      BY <2>1, FirstRequest DEF SessionInv
    <3> QED
      BY <1>1, <2>1, <2>3, <3>1, <3>2 DEF Handled, SessionInv, NetType
  <2> QED
    BY <2>2, <2>3
<1>11. CASE Sigpipe \/ ParseCrash \/ NetCrash
  <2>1. NetDies /\ pipelined' = pipelined
    BY <1>11 DEF Sigpipe, ParseCrash, NetCrash, NetDies
  <2>2. CASE Sigpipe
    <3>1. tpc = "serve" /\ client = "rst"
      BY <2>2 DEF Sigpipe, Serving
    <3>2. pipelined
      BY <1>1, <3>1 DEF SessionInv
    <3> QED
      BY <1>1, <2>1, <3>2 DEF NetDies, SessionInv, NetType, ClientValues, pastVars
  <2>3. CASE ParseCrash \/ NetCrash
    <3>1. sigpipe' = sigpipe
      BY <2>3 DEF ParseCrash, NetCrash
    <3> QED
      BY <1>1, <2>1, <3>1 DEF NetDies, SessionInv, NetType, ClientValues, pastVars
  <2> QED
    BY <1>11, <2>2, <2>3
<1> QED
  BY <1>3, <1>4, <1>5, <1>6, <1>7, <1>8, <1>9, <1>10, <1>11 DEF NetNext, ClientStep, ServerStep

-----------------------------------------------------------------------------
(* What clients are told.                                                  *)

\* The table holds whole frames, committed or not, since only a whole frame is
\* written to it.
WholeInv == {db, view, node} \subseteq taken /\ WholeReplies

\* The main loop changes io port by port, each in two assignments.
IoInv ==
    \A p \in Port :
        /\ pc \notin {"ioclear", "ioset", "dead"} => io[p] = nodeIn[p]
        /\ pc \in {"ioclear", "ioset"} /\ p < at => io[p] = nodeIn[p]
        /\ pc \in {"ioclear", "ioset"} /\ p > at => io[p] = lastIn[p]
        /\ pc = "ioclear" /\ p = at => io[p] = lastIn[p]
        /\ pc = "ioset" /\ p = at => io[p] = 0

\* What getIOStatus has read so far, and that the history follows io meanwhile.
Shown(p, value) == \/ \E f \in frames : value = f[p]
                   \/ p \in cleared /\ value = 0

ReadInv ==
    /\ readAt \in 1 .. Ports + 1 /\ bits \in Inputs
    /\ readAt > 1 => /\ Stored(pc, lastIn, nodeIn) \subseteq frames
                     /\ Blank(pc, at) \subseteq cleared
    /\ \A p \in Port : p < readAt => Shown(p, bits[p])

NetIInv == TypeInv /\ SessionInv /\ Agree /\ WholeInv /\ IoInv /\ ReadInv

LEMMA NetInitSound == ASSUME NetInit PROVE NetIInv
<1>1. Init /\ lastIn = nodeIn
  BY DEF NetInit
<1>2. TypeInv /\ Agree
  BY <1>1, InitType, AgreeInit
<1>3. SessionInv
  BY <1>1, <1>2 DEF NetInit, SessionInv, NetType, ClientValues, TypeInv, MainType
<1>4. WholeInv
  BY <1>1 DEF NetInit, Init, WholeInv, WholeReplies
<1>5. IoInv
  BY <1>1 DEF Init, IoInv
<1>6. ReadInv
  <2>1. readAt = 1 /\ bits \in Inputs
    BY DEF NetInit, Inputs
  <2>2. 1 \in 1 .. Ports + 1 /\ \A p \in Port : ~(p < 1)
    BY CounterStoreAssumption DEF Port
  <2> QED
    BY <2>1, <2>2 DEF ReadInv
<1> QED
  BY <1>2, <1>3, <1>4, <1>5, <1>6 DEF NetIInv

\* The steps that are none of the main loop's leave what it computes with alone.
LEMMA OtherSteps ==
    ASSUME NetIInv, [NetNext]_vars, ~NetStoreStep
    PROVE  /\ UNCHANGED <<db, node, nodeIn, at, io, pastData, refused, taken, lastIn>>
           /\ \/ UNCHANGED <<pc, view>> /\ (UNCHANGED readVars \/ ReadIo \/ StopReading)
              \/ pc' = "dead" /\ view' = db /\ StopReading
           /\ UNCHANGED reply \/ ServeIo \/ ServeCount
<1>1. CASE ClientsBoardStep
  BY <1>1 DEF ClientsBoardStep, ToggleInput, TakeClear, mainVars, dbVars, netVars, seenVars,
     pastVars
<1>2. CASE ClientStep \/ UNCHANGED vars
  BY <1>2 DEF ClientStep, ClientConnects, ClientSends, ClientLeaves, vars, storeVars, mainVars,
     dbVars, seenVars, pastVars, netVars
<1>3. CASE ServeIo \/ ServeCount \/ ReadIo
  BY <1>3 DEF ServeIo, ServeCount, ReadIo, Write, storeVars, mainVars, dbVars, pastVars, netVars
<1>4. CASE Receive \/ Disconnect \/ SelectFails \/ ServeClear
  BY <1>4 DEF Receive, Disconnect, SelectFails, ServeClear, storeVars, mainVars, dbVars, seenVars,
     pastVars
<1>5. CASE Sigpipe \/ ParseCrash \/ NetCrash
  BY <1>5 DEF Sigpipe, ParseCrash, NetCrash, NetDies, Die, pastVars
<1> QED
  BY <1>1, <1>2, <1>3, <1>4, <1>5 DEF NetNext, ServerStep

\* Every frame that is handled is noted in taken; what reaches the table, and from
\* there a reply, is one of these.
LEMMA WholeStep ==
    ASSUME NetIInv, [NetNext]_vars
    PROVE  WholeInv'
<1>1. {db, view, node} \subseteq taken /\ WholeReplies
  BY DEF NetIInv, WholeInv
<1>2. CASE NetStoreStep
  <2>1. taken' = taken \union {node'} /\ reply' = reply
    BY <1>2 DEF NetStoreStep, netVars
  <2>2. db' \in {db, view} /\ view' \in {view, node}
    BY <1>2 DEF NetStoreStep, StoreStep, BoardStep, CountUnit, BoardRestarts, BoardAsks,
       AnswerPoll, TakeRestore, DamageFrame, MainStep, ReadUart, DropFrame, TakeAsk, TakeData,
       ClearIo, SetIo, Begin, Update, Commit, StorePast, SendPoll, SyncStep, CopyPast,
       SendRestore, LoseRestore, Start, dbVars
  <2> QED
    BY <1>1, <2>1, <2>2 DEF WholeInv, WholeReplies
<1>3. CASE ~NetStoreStep
  <2>1. /\ UNCHANGED <<db, node, taken>> /\ view' \in {view, db}
        /\ UNCHANGED reply \/ ServeIo \/ ServeCount
    BY <1>3, OtherSteps
  <2>2. WholeReplies'
    BY <1>1, <2>1 DEF WholeReplies, ServeIo, ServeCount, Write
  <2> QED
    BY <1>1, <2>1, <2>2 DEF WholeInv
<1> QED
  BY <1>2, <1>3

\* A frame is stored in io from the first port to the last, before the next one is
\* looked at.
LEMMA IoStep ==
    ASSUME NetIInv, [NetNext]_vars
    PROVE  IoInv'
<1>1. /\ pc \in PcValues /\ at \in Port /\ io \in [Port -> {0, 1}] /\ Ports \in Nat \ {0}
      /\ Port = 1 .. Ports
  BY CounterStoreAssumption DEF NetIInv, TypeInv, MainType, Inputs, Port
<1>2. CASE ~NetStoreStep
  <2>1. UNCHANGED <<nodeIn, at, io, lastIn>> /\ (pc' = pc \/ pc' = "dead")
    BY <1>2, OtherSteps
  <2> QED
    BY <2>1 DEF NetIInv, IoInv
<1>3. CASE NetStoreStep
  <2>1. lastIn' = IF pc = "parse" /\ pc' = "ioclear" THEN nodeIn ELSE lastIn
    BY <1>3 DEF NetStoreStep
  <2>2. CASE TakeData
    <3>1. pc = "parse" /\ pc' = "ioclear" /\ at' = 1 /\ io' = io
      BY <2>2 DEF TakeData
    <3>2. \A p \in Port : io[p] = nodeIn[p]
      BY <3>1 DEF NetIInv, IoInv
    <3>3. \A p \in Port : ~(p < 1)
      BY <1>1
    <3> QED
      BY <2>1, <3>1, <3>2, <3>3 DEF IoInv
  <2>3. CASE ClearIo
    <3>1. pc = "ioclear" /\ pc' = "ioset" /\ io' = [io EXCEPT ![at] = 0]
          /\ UNCHANGED <<at, nodeIn>> /\ lastIn' = lastIn
      BY <2>1, <2>3 DEF ClearIo
    <3>2. io'[at] = 0 /\ \A p \in Port : p # at => io'[p] = io[p]
      BY <1>1, <3>1
    <3>3. \A p \in Port : (p < at => p # at) /\ (p > at => p # at)
      BY <1>1
    <3> QED
      BY <3>1, <3>2, <3>3 DEF NetIInv, IoInv
  <2>4. CASE SetIo
    <3>1. pc = "ioset" /\ io' = [io EXCEPT ![at] = nodeIn[at]] /\ nodeIn' = nodeIn
          /\ lastIn' = lastIn
      BY <2>1, <2>4 DEF SetIo
    <3>2. io'[at] = nodeIn[at] /\ \A p \in Port : p # at => io'[p] = io[p]
      BY <1>1, <3>1
    <3>3. \A p \in Port : p <= at => io'[p] = nodeIn[p]
      BY <1>1, <3>1, <3>2 DEF NetIInv, IoInv
    <3>4. \A p \in Port : p > at => io'[p] = lastIn[p]
      BY <1>1, <3>1, <3>2 DEF NetIInv, IoInv
    <3>5. CASE at < Ports
      <4>1. at' = at + 1 /\ pc' = "ioclear"
        BY <2>4, <3>5 DEF SetIo, Loop
      <4> QED
        BY <1>1, <3>1, <3>3, <3>4, <4>1 DEF IoInv
    <3>6. CASE ~(at < Ports)
      <4>1. pc' \in {"begin", "store"}
        BY <2>4, <3>6 DEF SetIo, Loop
      <4>2. \A p \in Port : p <= at
        BY <1>1, <3>6
      <4> QED
        BY <3>1, <3>3, <4>1, <4>2 DEF IoInv
    <3> QED
      BY <3>5, <3>6
  <2>5. CASE Start
    BY <2>5 DEF Start, IoInv
  <2>6. CASE \/ BoardStep \/ SendPoll \/ SyncStep \/ ReadUart \/ DropFrame \/ TakeAsk
             \/ Begin \/ Update \/ Commit \/ StorePast
    <3>1. UNCHANGED <<nodeIn, io>>
      BY <2>6 DEF BoardStep, CountUnit, BoardRestarts, BoardAsks, AnswerPoll, TakeRestore,
         DamageFrame, ReadUart, DropFrame, TakeAsk, Begin, Update, Commit, StorePast, SendPoll,
         SyncStep, CopyPast, SendRestore, LoseRestore, mainVars
    <3>2. \/ UNCHANGED <<pc, at>>
          \/ /\ pc \notin {"ioclear", "ioset", "dead"}
             /\ pc' \notin {"ioclear", "ioset", "dead"}
      BY <2>6 DEF BoardStep, CountUnit, BoardRestarts, BoardAsks, AnswerPoll, TakeRestore,
         DamageFrame, ReadUart, DropFrame, TakeAsk, FrameDone, Begin, Update, Commit, StorePast,
         Loop, SendPoll, SyncStep, CopyPast, SendRestore, LoseRestore, mainVars
    <3>3. lastIn' = lastIn
      BY <2>1, <3>2
    <3> QED
      BY <3>1, <3>2, <3>3 DEF NetIInv, IoInv
  <2> QED
    BY <1>3, <2>2, <2>3, <2>4, <2>5, <2>6 DEF NetStoreStep, StoreStep, MainStep
<1> QED
  BY <1>2, <1>3

\* What one input in io is: of a frame that counts, or cleared.
LEMMA InIo ==
    ASSUME NetIInv, pc # "dead", NEW p \in Port
    PROVE  \/ \E f \in Stored(pc, lastIn, nodeIn) : io[p] = f[p]
           \/ p \in Blank(pc, at) /\ io[p] = 0
<1>1. at \in Nat /\ p \in Nat
  BY DEF NetIInv, TypeInv, MainType, Port
<1>2. CASE pc \notin {"ioclear", "ioset"}
  BY <1>2 DEF NetIInv, IoInv, Stored
<1>3. CASE pc \in {"ioclear", "ioset"}
  <2>1. p < at \/ p > at \/ p = at
    BY <1>1
  <2>2. io[p] \in {nodeIn[p], lastIn[p]} \/ (pc = "ioset" /\ p = at /\ io[p] = 0)
    BY <1>3, <2>1 DEF NetIInv, IoInv
  <2> QED
    BY <1>3, <2>2 DEF Stored, Blank
<1> QED
  BY <1>2, <1>3

\* While getIOStatus reads, the history takes in every frame that the main loop
\* stores and every port that it clears.
LEMMA ReadStep ==
    ASSUME NetIInv, [NetNext]_vars
    PROVE  ReadInv'
<1>1. /\ readAt \in 1 .. Ports + 1 /\ bits \in Inputs /\ io \in Inputs
      /\ Ports \in Nat \ {0} /\ Port = 1 .. Ports
      /\ \A p \in Port : p < readAt => Shown(p, bits[p])
  BY CounterStoreAssumption DEF NetIInv, ReadInv, TypeInv, MainType, Port
<1>2. CASE NetStoreStep
  <2>1. /\ frames \subseteq frames' /\ cleared \subseteq cleared'
        /\ UNCHANGED <<readAt, bits>>
        /\ readAt # 1 => /\ Stored(pc', lastIn', nodeIn') \subseteq frames'
                         /\ Blank(pc', at') \subseteq cleared'
    BY <1>2 DEF NetStoreStep
  <2>2. \A p \in Port : p < readAt => Shown(p, bits[p])'
    BY <1>1, <2>1 DEF Shown
  <2>3. readAt > 1 => readAt # 1
    BY <1>1
  <2>4. readAt' > 1 => /\ Stored(pc, lastIn, nodeIn)' \subseteq frames'
                       /\ Blank(pc, at)' \subseteq cleared'
    BY <2>1, <2>3 DEF Stored, Blank
  <2> QED
    BY <1>1, <2>1, <2>2, <2>4 DEF ReadInv
<1>3. CASE StopReading
  <2>1. readAt' = 1 /\ bits' \in Inputs
    BY <1>3 DEF StopReading, Inputs
  <2>2. 1 \in 1 .. Ports + 1 /\ \A p \in Port : ~(p < 1)
    BY <1>1
  <2> QED
    BY <2>1, <2>2 DEF ReadInv
<1>4. CASE ReadIo
  <2>1. /\ pc # "dead" /\ readAt \in Port /\ readAt' = readAt + 1
        /\ bits' = [bits EXCEPT ![readAt] = io[readAt]]
        /\ UNCHANGED <<pc, at, lastIn, nodeIn>>
    BY <1>1, <1>4 DEF ReadIo, Serving, storeVars, mainVars, pastVars
  <2>2. bits' \in Inputs
    BY <1>1, <2>1 DEF Inputs
  <2>3. Stored(pc, lastIn, nodeIn) \subseteq frames' /\ Blank(pc, at) \subseteq cleared'
    BY <1>1, <1>4 DEF ReadIo, NetIInv, ReadInv
  <2>4. bits'[readAt] = io[readAt] /\ \A p \in Port : p # readAt => bits'[p] = bits[p]
    BY <1>1, <2>1 DEF Inputs
  <2>5. ASSUME NEW p \in Port, p < readAt' PROVE Shown(p, bits[p])'
    <3>1. CASE p = readAt
      BY <2>3, <2>4, <3>1, <2>1, InIo DEF Shown
    <3>2. CASE p # readAt
      <4>1. p < readAt /\ readAt # 1
        BY <1>1, <2>1, <2>5, <3>2
      <4>2. frames' = frames /\ cleared' = cleared
        BY <1>4, <4>1 DEF ReadIo
      <4> QED
        BY <1>1, <2>4, <3>2, <4>1, <4>2 DEF Shown
    <3> QED
      BY <3>1, <3>2
  <2>6. readAt' \in 1 .. Ports + 1
    BY <1>1, <2>1
  <2> QED
    BY <2>1, <2>2, <2>3, <2>5, <2>6 DEF ReadInv, Stored, Blank
<1>5. CASE ~NetStoreStep /\ ~ReadIo /\ ~StopReading
  <2>1. UNCHANGED <<nodeIn, at, lastIn, pc, readVars>>
    BY <1>5, OtherSteps
  <2> QED
    BY <2>1 DEF NetIInv, ReadInv, Shown, Stored, Blank, readVars
<1> QED
  BY <1>2, <1>3, <1>4, <1>5

LEMMA NetStepSound ==
    ASSUME NetIInv, [NetNext]_vars
    PROVE  NetIInv'
<1>1. TypeInv' /\ SessionInv'
  BY NetStepType, SessionStep DEF NetIInv, SessionInv
<1>2. Agree'
  <2>1. CASE NetStoreStep
    BY <2>1, StoreStepNext, AgreeStep DEF NetIInv
  <2>2. CASE ~NetStoreStep
    BY <2>2, OtherSteps DEF NetIInv, Agree, Handling
  <2> QED
    BY <2>1, <2>2
<1> QED
  BY <1>1, <1>2, WholeStep, IoStep, ReadStep DEF NetIInv

LEMMA NetInvariance == NetSpec => []NetIInv
<1>1. NetInit => NetIInv
  BY NetInitSound
<1>2. NetIInv /\ [NetNext]_vars => NetIInv'
  BY NetStepSound
<1> QED
  BY <1>1, <1>2, PTL DEF NetSpec

\* The types of CounterStore hold, and table and memory agree unless refused, with
\* clients as well: no request, however cut, and no client that leaves disturbs
\* them.
THEOREM ClientsDisturbNothing == NetSpec => [](TypeOK /\ StoredUnlessRefused)
<1>1. NetIInv => TypeOK /\ StoredUnlessRefused
  BY DEF NetIInv, TypeInv, BoardType, LineType, MainType, DbType, RestType, TypeOK, Agree,
         Handling, StoredUnlessRefused
<1> QED
  BY <1>1, NetInvariance, PTL

\* A client never gets counters of two frames in one reply.
THEOREM RepliesWhole == NetSpec => []WholeReplies
<1>1. NetIInv => WholeReplies
  BY DEF NetIInv, WholeInv
<1> QED
  BY <1>1, NetInvariance, PTL

\* A client that sends one request at a time does not end the process by leaving.
THEOREM WaitingIsSafe == NetSpec => []OneRequestIsSafe
<1>1. NetIInv => OneRequestIsSafe
  BY DEF NetIInv, SessionInv, OneRequestIsSafe
<1> QED
  BY <1>1, NetInvariance, PTL

\* Each input of a reply comes from a frame that was in io while getIOStatus read,
\* or is one that was being stored, shown as off: whatever the main loop does
\* between the reads of the single inputs, and for every number of them.
THEOREM RepliesShowInputs == NetSpec => InputsReal
<1> DEFINE Real(p) == \/ \E f \in frames : reply'.value[p] = f[p]
                      \/ p \in cleared /\ reply'.value[p] = 0
<1>1. NetIInv /\ [NetNext]_vars => [ServeIo => \A p \in Port : Real(p)]_vars
  <2> SUFFICES ASSUME NetIInv, ServeIo, NEW p \in Port PROVE Real(p)
    OBVIOUS
  <2>1. reply'.value = bits /\ readAt > Ports
    BY DEF ServeIo, Write
  <2>2. readAt \in Nat /\ Ports \in Nat /\ p \in 1 .. Ports
    BY CounterStoreAssumption DEF NetIInv, ReadInv, Port
  <2>3. p < readAt
    BY <2>1, <2>2
  <2>4. Shown(p, bits[p])
    BY <2>3 DEF NetIInv, ReadInv
  <2> QED
    BY <2>1, <2>4 DEF Shown
<1> QED
  BY <1>1, NetInvariance, PTL DEF NetSpec, InputsReal
=============================================================================
