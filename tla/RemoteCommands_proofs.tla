----------------------- MODULE RemoteCommands_proofs ------------------------
(***************************************************************************)
(* What the processes that take remote commands guarantee for any nodes,   *)
(* any number of commands, wherever the stream of commands is cut, for any *)
(* capacity of the queues and any number of faults.                        *)
(***************************************************************************)
EXTENDS RemoteCommands, SequenceTheorems, FiniteSetTheorems, WellFoundedInduction, TLAPS

-----------------------------------------------------------------------------
(* Numbers and sequences.                                                  *)

LEMMA LeastOf ==
    ASSUME NEW T \in SUBSET Nat, T # {}
    PROVE  \E x \in T : \A y \in T : x <= y
<1> DEFINE R == OpToRel(<, Nat)
<1>1. IsWellFoundedOn(R, Nat)
  BY NatLessThanWellFounded
<1>2. \A x, y \in Nat : x < y => <<x, y>> \in R
  BY DEF OpToRel
<1> HIDE DEF R
<1>3. PICK x \in T : \A y \in T : ~(<<y, x>> \in R)
  BY <1>1, WFMin
<1>4. \A y \in T : x \in Nat /\ y \in Nat /\ ~(y < x)
  BY <1>2, <1>3
<1> QED
  BY <1>4

\* The first of some positions is one of them, and no other is before it.
LEMMA FirstOf ==
    ASSUME NEW T \in SUBSET Nat, T # {}
    PROVE  First(T) \in T /\ \A y \in T : First(T) <= y
<1>1. \E x \in T : \A y \in T : x <= y
  BY LeastOf
<1> QED
  BY <1>1, Zenon DEF First

\* What one more element, the loss of the first, or that of the k-th, make of
\* a sequence.
LEMMA OneMore ==
    ASSUME NEW S, NEW s \in Seq(S), NEW x \in S
    PROVE  /\ Append(s, x) \in Seq(S) /\ Len(Append(s, x)) = Len(s) + 1 /\ Len(s) \in Nat
           /\ DOMAIN s = 1 .. Len(s) /\ DOMAIN Append(s, x) = 1 .. Len(s) + 1
           /\ \A i \in DOMAIN s : i \in DOMAIN Append(s, x) /\ Append(s, x)[i] = s[i]
           /\ Len(s) + 1 \in DOMAIN Append(s, x) /\ Append(s, x)[Len(s) + 1] = x
           /\ \A i \in DOMAIN Append(s, x) : i \in DOMAIN s \/ i = Len(s) + 1
  OBVIOUS

LEMMA OneOf ==
    ASSUME NEW S, NEW s \in Seq(S), NEW i \in DOMAIN s
    PROVE  s[i] \in S /\ i \in 1 .. Len(s)
  OBVIOUS

LEMMA OneTaken ==
    ASSUME NEW S, NEW s \in Seq(S), s # <<>>
    PROVE  /\ Tail(s) \in Seq(S) /\ Len(Tail(s)) = Len(s) - 1
           /\ 1 \in DOMAIN s /\ Head(s) = s[1] /\ Head(s) \in S
           /\ \A i \in DOMAIN Tail(s) : i + 1 \in DOMAIN s /\ Tail(s)[i] = s[i + 1]
           /\ \A i \in DOMAIN s : i = 1 \/ (i - 1 \in DOMAIN Tail(s) /\ Tail(s)[i - 1] = s[i])
<1>1. Len(s) \in Nat \ {0} /\ DOMAIN s = 1 .. Len(s)
  BY EmptySeq
<1>2. /\ Tail(s) \in Seq(S) /\ Len(Tail(s)) = Len(s) - 1
      /\ \A i \in 1 .. Len(s) - 1 : Tail(s)[i] = s[i + 1]
  BY <1>1
<1>3. DOMAIN Tail(s) = 1 .. Len(s) - 1
  BY <1>1, <1>2
<1>4. \A i \in DOMAIN Tail(s) : i + 1 \in DOMAIN s /\ Tail(s)[i] = s[i + 1]
  BY <1>1, <1>2, <1>3
<1>5. \A i \in DOMAIN s : i = 1 \/ (i - 1 \in DOMAIN Tail(s) /\ Tail(s)[i - 1] = s[i])
  <2> SUFFICES ASSUME NEW i \in DOMAIN s, i # 1
               PROVE  i - 1 \in DOMAIN Tail(s) /\ Tail(s)[i - 1] = s[i]
    OBVIOUS
  <2>1. i - 1 \in 1 .. Len(s) - 1 /\ (i - 1) + 1 = i
    BY <1>1
  <2> QED
    BY <1>2, <1>3, <2>1
<1>6. 1 \in DOMAIN s /\ Head(s) = s[1] /\ Head(s) \in S
  BY <1>1
<1> QED
  BY <1>2, <1>4, <1>5, <1>6

LEMMA SuffixOf ==
    ASSUME NEW S, NEW s \in Seq(S), NEW k \in 1 .. Len(s) + 1
    PROVE  /\ SubSeq(s, k, Len(s)) \in Seq(S)
           /\ Len(SubSeq(s, k, Len(s))) = Len(s) - k + 1
           /\ \A i \in 1 .. Len(s) - k + 1 :
                SubSeq(s, k, Len(s))[i] = s[k - 1 + i] /\ k - 1 + i \in 1 .. Len(s)
  OBVIOUS

LEMMA WithoutOne ==
    ASSUME NEW S, NEW s \in Seq(S), NEW k \in DOMAIN s
    PROVE  /\ Without(s, k) \in Seq(S) /\ Len(Without(s, k)) = Len(s) - 1 /\ Len(s) \in Nat
           /\ \A i \in DOMAIN s : i # k => \E j \in DOMAIN Without(s, k) : Without(s, k)[j] = s[i]
<1> DEFINE a == SubSeq(s, 1, k - 1)
           b == SubSeq(s, k + 1, Len(s))
           z == a \o b
<1>1. Len(s) \in Nat /\ DOMAIN s = 1 .. Len(s) /\ k \in 1 .. Len(s)
  OBVIOUS
<1>2. a \in Seq(S) /\ Len(a) = k - 1 /\ \A i \in 1 .. k - 1 : a[i] = s[i]
  BY <1>1
<1>3. b \in Seq(S) /\ Len(b) = Len(s) - k /\ \A i \in 1 .. Len(s) - k : b[i] = s[k + i]
  BY <1>1
<1> HIDE DEF a, b
<1>4. a \in Seq(S)
  BY <1>2
<1>5. b \in Seq(S)
  BY <1>3
<1>6. /\ z \in Seq(S) /\ Len(z) = Len(a) + Len(b)
      /\ \A i \in 1 .. Len(a) + Len(b) : z[i] = IF i <= Len(a) THEN a[i] ELSE b[i - Len(a)]
  BY <1>4, <1>5, ConcatProperties, Zenon
<1> HIDE DEF z
<1>7. Len(z) = Len(s) - 1 /\ DOMAIN z = 1 .. Len(s) - 1
  BY <1>1, <1>2, <1>3, <1>6
<1>8. ASSUME NEW i \in DOMAIN s, i # k PROVE \E j \in DOMAIN z : z[j] = s[i]
  <2>1. CASE i < k
    <3>1. i \in DOMAIN z /\ i \in 1 .. Len(a) + Len(b) /\ i <= Len(a) /\ i \in 1 .. k - 1
      BY <1>1, <1>2, <1>3, <1>7, <2>1
    <3>2. z[i] = s[i]
      BY <1>2, <1>6, <3>1
    <3> QED
      BY <3>1, <3>2
  <2>2. CASE i > k
    <3>3. i \in Int /\ k \in Int /\ i <= Len(s)
      BY <1>1
    <3>4. i - 1 \in 1 .. Len(s) - 1 /\ i - k \in 1 .. Len(s) - k
      BY <1>1, <2>2, <3>3
    <3>5. i - 1 \in 1 .. (k - 1) + (Len(s) - k) /\ ~(i - 1 <= k - 1)
      BY <1>1, <2>2, <3>3
    <3>6. (i - 1) - (k - 1) = i - k /\ k + (i - k) = i
      BY <3>3
    <3>1. /\ i - 1 \in DOMAIN z /\ i - 1 \in 1 .. Len(a) + Len(b) /\ ~(i - 1 <= Len(a))
          /\ (i - 1) - Len(a) \in 1 .. Len(s) - k /\ k + ((i - 1) - Len(a)) = i
      BY <1>2, <1>3, <1>7, <3>4, <3>5, <3>6
    <3>2. z[i - 1] = s[i]
      BY <1>3, <1>6, <3>1
    <3> QED
      BY <3>1, <3>2
  <2> QED
    BY <1>1, <1>8, <2>1, <2>2
<1> QED
  BY <1>1, <1>6, <1>7, <1>8 DEF Without, z, a, b

-----------------------------------------------------------------------------
(* The parts of commands on their way to the parser of M2MManager.         *)

\* What the parser has read and what is on the way behind it.
Stream == buf \o line

Before(a, b) == a[1] < b[1] \/ (a[1] = b[1] /\ a[2] < b[2])

Goes(a, b) == IF a[2] = 3 THEN b[2] = 1 ELSE b = <<a[1], a[2] + 1>>

\* Parts come in the order in which they were sent, and none is missing behind
\* the first.
Chain(s) ==
    /\ \A i, j \in DOMAIN s : i < j => Before(s[i], s[j])
    /\ \A i \in DOMAIN s : i + 1 \in DOMAIN s => Goes(s[i], s[i + 1])
    /\ s # <<>> => s[Len(s)][2] = 3

LEMMA PartType ==
    ASSUME NEW x \in Part
    PROVE  x[1] \in 1 .. MaxCommands /\ x[2] \in 1 .. 3 /\ x = <<x[1], x[2]>>
  BY DEF Part

LEMMA Joining ==
    ASSUME NEW b \in Seq(Part), NEW l \in Seq(Part)
    PROVE  /\ b \o l \in Seq(Part) /\ Len(b \o l) = Len(b) + Len(l)
           /\ Len(b) \in Nat /\ Len(l) \in Nat
           /\ DOMAIN (b \o l) = 1 .. Len(b) + Len(l) /\ DOMAIN b = 1 .. Len(b)
           /\ DOMAIN l = 1 .. Len(l)
           /\ \A i \in DOMAIN b : i \in DOMAIN (b \o l) /\ (b \o l)[i] = b[i]
           /\ \A i \in DOMAIN l : Len(b) + i \in DOMAIN (b \o l) /\ (b \o l)[Len(b) + i] = l[i]
           /\ \A i \in DOMAIN (b \o l) : i \in DOMAIN b \/ (i - Len(b) \in DOMAIN l
                                                            /\ (b \o l)[i] = l[i - Len(b)])
<1> DEFINE z == b \o l
<1>1. /\ z \in Seq(Part) /\ Len(z) = Len(b) + Len(l)
      /\ \A i \in 1 .. Len(b) + Len(l) : z[i] = IF i <= Len(b) THEN b[i] ELSE l[i - Len(b)]
  BY ConcatProperties, Zenon
<1> HIDE DEF z
<1>2. /\ Len(b) \in Nat /\ Len(l) \in Nat /\ DOMAIN z = 1 .. Len(b) + Len(l)
      /\ DOMAIN b = 1 .. Len(b) /\ DOMAIN l = 1 .. Len(l)
  BY <1>1
<1>3. \A i \in DOMAIN b : i \in DOMAIN z /\ z[i] = b[i]
  BY <1>1, <1>2
<1>4. \A i \in DOMAIN l : Len(b) + i \in DOMAIN z /\ z[Len(b) + i] = l[i]
  <2> SUFFICES ASSUME NEW i \in DOMAIN l
               PROVE  Len(b) + i \in DOMAIN z /\ z[Len(b) + i] = l[i]
    OBVIOUS
  <2>1. /\ Len(b) + i \in 1 .. Len(b) + Len(l) /\ ~(Len(b) + i <= Len(b))
        /\ (Len(b) + i) - Len(b) = i
    BY <1>2
  <2> QED
    BY <1>1, <1>2, <2>1
<1>5. \A i \in DOMAIN z : i \in DOMAIN b \/ (i - Len(b) \in DOMAIN l /\ z[i] = l[i - Len(b)])
  BY <1>1, <1>2
<1> QED
  BY <1>1, <1>2, <1>3, <1>4, <1>5, Zenon DEF z

\* Behind the first part of a command are the others.
LEMMA WholeBehind ==
    ASSUME NEW s \in Seq(Part), Chain(s), NEW k \in DOMAIN s, s[k][2] = 1
    PROVE  /\ k + 1 \in DOMAIN s /\ s[k + 1] = <<s[k][1], 2>>
           /\ k + 2 \in DOMAIN s /\ s[k + 2] = <<s[k][1], 3>>
<1>1. DOMAIN s = 1 .. Len(s) /\ Len(s) \in Nat /\ k \in Int
  OBVIOUS
<1>2. k + 1 \in DOMAIN s
  BY <1>1 DEF Chain
<1>3. s[k + 1] = <<s[k][1], 2>>
  BY <1>2 DEF Chain, Goes
<1>4. k + 2 \in DOMAIN s
  BY <1>1, <1>2, <1>3 DEF Chain
<1>5. (k + 1) + 1 = k + 2
  BY <1>1
<1>6. s[k + 2] = <<s[k][1], 3>>
  BY <1>2, <1>3, <1>4, <1>5 DEF Chain, Goes
<1> QED
  BY <1>2, <1>3, <1>4, <1>6

\* The parts behind the first d of a chain are one.
LEMMA ChainBehind ==
    ASSUME NEW s \in Seq(Part), NEW t \in Seq(Part), NEW d \in 0 .. Len(s),
           Len(t) = Len(s) - d, \A i \in DOMAIN t : i + d \in DOMAIN s /\ t[i] = s[i + d],
           Chain(s)
    PROVE  Chain(t)
<1>1. /\ DOMAIN s = 1 .. Len(s) /\ DOMAIN t = 1 .. Len(t) /\ Len(s) \in Nat /\ Len(t) \in Nat
      /\ d \in Int
  OBVIOUS
<1>2. \A i, j \in DOMAIN t : i < j => Before(t[i], t[j])
  BY <1>1 DEF Chain
<1>3. ASSUME NEW i \in DOMAIN t, i + 1 \in DOMAIN t PROVE Goes(t[i], t[i + 1])
  <2>1. (i + d) + 1 = (i + 1) + d
    BY <1>1
  <2> QED
    BY <1>3, <2>1 DEF Chain
<1>4. ASSUME t # <<>> PROVE t[Len(t)][2] = 3
  <2>1. Len(t) \in DOMAIN t /\ Len(t) + d = Len(s) /\ s # <<>>
    BY <1>1, <1>4
  <2> QED
    BY <2>1 DEF Chain
<1> QED
  BY <1>2, <1>3, <1>4 DEF Chain

\* A command sent behind all others.
LEMMA ChainMore ==
    ASSUME NEW s \in Seq(Part), NEW n \in Nat, n < MaxCommands, Chain(s),
           \A i \in DOMAIN s : s[i][1] <= n
    PROVE  LET z == s \o [p \in 1 .. 3 |-> <<n + 1, p>>] IN
           /\ Chain(z) /\ [p \in 1 .. 3 |-> <<n + 1, p>>] \in Seq(Part)
           /\ \A i \in DOMAIN z : (i \in DOMAIN s /\ z[i] = s[i]) \/ z[i][1] = n + 1
<1> DEFINE f == [p \in 1 .. 3 |-> <<n + 1, p>>]
           z == s \o f
<1>1. /\ f \in Seq(Part) /\ Len(f) = 3 /\ DOMAIN f = 1 .. 3
      /\ \A p \in 1 .. 3 : f[p] = <<n + 1, p>>
  <2>1. \A p \in 1 .. 3 : <<n + 1, p>> \in Part
    BY RemoteCommandsAssumption DEF Part
  <2>2. f \in Seq(Part) /\ Len(f) = 3
    BY <2>1, IsASeq
  <2> QED
    BY <2>2
<1> HIDE DEF f
<1>2. f \in Seq(Part)
  BY <1>1
<1>3. /\ z \in Seq(Part) /\ Len(z) = Len(s) + Len(f)
      /\ Len(s) \in Nat
      /\ DOMAIN z = 1 .. Len(s) + Len(f) /\ DOMAIN s = 1 .. Len(s)
      /\ \A i \in DOMAIN s : i \in DOMAIN z /\ z[i] = s[i]
      /\ \A i \in DOMAIN z : i \in DOMAIN s \/ (i - Len(s) \in DOMAIN f /\ z[i] = f[i - Len(s)])
  BY <1>2, Joining, Zenon
<1> HIDE DEF z
<1>4. /\ Len(z) = Len(s) + 3 /\ DOMAIN z = 1 .. Len(s) + 3 /\ Len(s) \in Nat
      /\ DOMAIN s = 1 .. Len(s)
      /\ \A i \in DOMAIN z : i \in Int
      /\ \A i \in DOMAIN s : i \in DOMAIN z /\ z[i] = s[i]
      /\ \A i \in DOMAIN z : i \in DOMAIN s \/ (i > Len(s) /\ z[i] = <<n + 1, i - Len(s)>>)
  BY <1>1, <1>3
<1>5. \A i \in DOMAIN s : s[i][1] \in Nat /\ s[i][1] <= n
  BY PartType
<1>6. ASSUME NEW i \in DOMAIN z, NEW j \in DOMAIN z, i < j PROVE Before(z[i], z[j])
  <2>1. CASE j \in DOMAIN s
    <3>1. i \in DOMAIN s
      BY <1>4, <1>6, <2>1
    <3> QED
      BY <1>4, <1>6, <2>1, <3>1 DEF Chain
  <2>2. CASE j > Len(s) /\ z[j] = <<n + 1, j - Len(s)>>
    <3>1. CASE i \in DOMAIN s
      BY <1>4, <1>5, <2>2, <3>1 DEF Before
    <3>2. CASE i > Len(s) /\ z[i] = <<n + 1, i - Len(s)>>
      BY <1>4, <1>6, <2>2, <3>2 DEF Before
    <3> QED
      BY <1>4, <3>1, <3>2
  <2> QED
    BY <1>4, <2>1, <2>2
<1>7. ASSUME NEW i \in DOMAIN z, i + 1 \in DOMAIN z PROVE Goes(z[i], z[i + 1])
  <2>1. CASE i + 1 \in DOMAIN s
    <3>1. i \in DOMAIN s
      BY <1>4, <2>1
    <3> QED
      BY <1>4, <2>1, <3>1 DEF Chain
  <2>2. CASE i \in DOMAIN s /\ i + 1 \notin DOMAIN s
    <3>1. i = Len(s) /\ s # <<>>
      BY <1>4, <2>2
    <3>2. z[i][2] = 3
      BY <1>4, <2>2, <3>1 DEF Chain
    <3>3. (i + 1) - Len(s) = 1 /\ z[i + 1] = <<n + 1, 1>>
      BY <1>4, <1>7, <2>2, <3>1
    <3> QED
      BY <3>2, <3>3 DEF Goes
  <2>3. CASE i \notin DOMAIN s
    <3>1. /\ z[i] = <<n + 1, i - Len(s)>> /\ z[i + 1] = <<n + 1, (i + 1) - Len(s)>>
          /\ (i + 1) - Len(s) = (i - Len(s)) + 1 /\ i - Len(s) # 3
      BY <1>4, <1>7, <2>3
    <3> QED
      BY <3>1 DEF Goes
  <2> QED
    BY <2>1, <2>2, <2>3
<1>8. z[Len(z)][2] = 3
  BY <1>4
<1>9. Chain(z)
  BY <1>6, <1>7, <1>8 DEF Chain
<1>10. \A i \in DOMAIN z : (i \in DOMAIN s /\ z[i] = s[i]) \/ z[i][1] = n + 1
  BY <1>4
<1> QED
  BY <1>2, <1>9, <1>10, Zenon DEF z, f

-----------------------------------------------------------------------------
(* Commands and the calls made for them.                                   *)

Kinds == {"delete", "change", "reboot", "list", "status", "data", "time"}

LEMMA CommandType ==
    ASSUME NEW ask \in Command
    PROVE  ask.kind \in Kinds /\ ask.node \in Node \union {0}
  BY DEF Command, Kinds

LEMMA CallsMade ==
    ASSUME NEW ask, ask.kind \in Kinds
    PROVE  /\ Calls(ask) \in Seq(Call)
           /\ ask.kind \in {"change", "reboot"} => \E k \in DOMAIN Calls(ask) : Calls(ask)[k] = "node"
           /\ ask.kind \in {"change", "delete"} =>
                /\ \E k \in DOMAIN Calls(ask) : Calls(ask)[k] = "event"
                /\ \E k \in DOMAIN Calls(ask) : Calls(ask)[k] = "row"
           /\ \A k \in DOMAIN Calls(ask) :
                Calls(ask)[k] \in {"node", "event", "row"} \/ Query(ask)
<1>1. CASE ask.kind = "delete"
  <2>1. Calls(ask) = <<"event", "row">>
    BY <1>1 DEF Calls
  <2> QED
    BY <1>1, <2>1 DEF Call
<1>2. CASE ask.kind = "change"
  <2>1. Calls(ask) = <<"node", "event", "row">>
    BY <1>2 DEF Calls
  <2> QED
    BY <1>2, <2>1 DEF Call
<1>3. CASE ask.kind = "reboot" /\ ask.node # 0
  <2>1. Calls(ask) = <<"node">>
    BY <1>3 DEF Calls
  <2> QED
    BY <1>3, <2>1 DEF Call
<1>4. CASE ask.kind = "reboot" /\ ask.node = 0
  <2>1. Calls(ask) = <<"node", "event">>
    BY <1>4 DEF Calls
  <2> QED
    BY <1>4, <2>1 DEF Call
<1>5. CASE ask.kind \in {"list", "status", "data", "time"}
  <2>1. Calls(ask) = <<ask.kind>>
    BY <1>5 DEF Calls
  <2> QED
    BY <1>5, <2>1 DEF Call, Query
<1> QED
  BY <1>1, <1>2, <1>3, <1>4, <1>5 DEF Kinds

-----------------------------------------------------------------------------
(* Types.                                                                  *)

ClientType ==
    /\ asked \in Seq([front : Front, ask : Command]) /\ Len(asked) <= MaxCommands
    /\ client \in {"none", "open", "fin", "rst"}
    /\ line \in Seq(Part) /\ Len(line) <= LineCap
    /\ datagrams \in Seq(1 .. MaxCommands)
    /\ pipelined \in BOOLEAN

ParseType ==
    /\ pc \in {"accept", "recv", "parse", "dead"}
    /\ buf \in Seq(Part) /\ kept \in 0 .. Len(buf) /\ at \in 0 .. Len(buf) + 1
    /\ garbled \in BOOLEAN
    /\ cut \subseteq 1 .. MaxCommands /\ unasked \subseteq 1 .. MaxCommands

QueueType ==
    /\ nodeQueue \in Seq(Message \union {Answer}) /\ Len(nodeQueue) <= QueueCap
    /\ eventQueue \in Seq(Message) /\ Len(eventQueue) <= QueueCap
    /\ answering \in BOOLEAN

RtdType ==
    /\ rtd \in {"idle", "begin", "locked", "gone", "ended"} /\ job \in Node \union {0}
    /\ rows \subseteq Node
    /\ lock \in {"none", "rtd", "other"} /\ (lock = "rtd" <=> rtd = "locked")
    /\ faults \in 0 .. MaxFaults

LogType ==
    /\ radio \in Seq(1 .. MaxCommands) /\ handled \in Seq(1 .. MaxCommands)
    /\ failed \in [1 .. MaxCommands -> SUBSET {"node", "event", "row"}]

PlaceType ==
    manager \in Manager /\ udp \in {"bound", "exit"} /\ boots \in Nat

TaskType == todo \in [Front -> Task]

LEMMA TypeParts ==
    /\ TypeOK <=> /\ ClientType /\ ParseType /\ QueueType /\ RtdType /\ LogType /\ PlaceType
                  /\ TaskType
    /\ TypeOK' <=> /\ ClientType' /\ ParseType' /\ QueueType' /\ RtdType' /\ LogType'
                   /\ PlaceType' /\ TaskType'
  BY DEF TypeOK, ClientType, ParseType, QueueType, RtdType, LogType, PlaceType, TaskType

LEMMA SameTypes ==
    ASSUME TypeOK
    PROVE  /\ UNCHANGED clientVars => ClientType'
           /\ UNCHANGED parseVars => ParseType'
           /\ UNCHANGED queueVars /\ UNCHANGED answering => QueueType'
           /\ UNCHANGED rtdVars /\ UNCHANGED dbVars => RtdType'
           /\ UNCHANGED logVars => LogType'
           /\ UNCHANGED <<manager, udp, boots>> => PlaceType'
           /\ UNCHANGED todo => TaskType'
<1>1. UNCHANGED clientVars => ClientType'
  BY DEF TypeOK, clientVars, ClientType
<1>2. UNCHANGED parseVars => ParseType'
  BY DEF TypeOK, parseVars, ParseType
<1>3. UNCHANGED queueVars /\ UNCHANGED answering => QueueType'
  BY DEF TypeOK, queueVars, QueueType
<1>4. UNCHANGED rtdVars /\ UNCHANGED dbVars => RtdType'
  BY DEF TypeOK, rtdVars, dbVars, RtdType
<1>5. UNCHANGED logVars => LogType'
  BY DEF TypeOK, logVars, LogType
<1>6. UNCHANGED <<manager, udp, boots>> => PlaceType'
  BY DEF TypeOK, PlaceType
<1>7. UNCHANGED todo => TaskType'
  BY DEF TypeOK, TaskType
<1> QED
  BY <1>1, <1>2, <1>3, <1>4, <1>5, <1>6, <1>7

LEMMA AskedType ==
    ASSUME TypeOK, NEW i \in DOMAIN asked
    PROVE  /\ i \in 1 .. Len(asked) /\ i \in 1 .. MaxCommands
           /\ asked[i].front \in Front /\ asked[i].ask \in Command
           /\ asked[i].ask.kind \in Kinds /\ asked[i].ask.node \in Node \union {0}
<1>1. /\ asked \in Seq([front : Front, ask : Command]) /\ Len(asked) <= MaxCommands
      /\ MaxCommands \in Nat
  BY RemoteCommandsAssumption DEF TypeOK
<1>2. asked[i].front \in Front /\ asked[i].ask \in Command /\ i \in 1 .. Len(asked)
  <2> DEFINE Entry == [front : Front, ask : Command]
  <2>1. asked \in Seq(Entry)
    BY <1>1
  <2> HIDE DEF Entry
  <2>2. asked[i] \in Entry /\ i \in 1 .. Len(asked)
    BY <2>1
  <2> QED
    BY <2>2 DEF Entry
<1>3. i \in 1 .. MaxCommands
  BY <1>1, <1>2
<1> QED
  BY <1>2, <1>3, CommandType

\* What is to do for a command taken from the place j of the buffer.
LEMMA PacketType ==
    ASSUME TypeOK, NEW id \in DOMAIN asked, NEW node \in Node \union {0}, NEW j \in Nat
    PROVE  /\ Packet(id, node, j) \in Task
           /\ Packet(id, node, j).id = id /\ Packet(id, node, j).node = node
           /\ Packet(id, node, j).calls = Calls([kind |-> asked[id].ask.kind, node |-> node])
<1>1. id \in 0 .. MaxCommands /\ asked[id].ask.kind \in Kinds
  BY AskedType
<1>2. Calls([kind |-> asked[id].ask.kind, node |-> node]) \in Seq(Call)
  BY <1>1, CallsMade
<1> QED
  BY <1>1, <1>2 DEF Packet, Task

LEMMA TaskGiven ==
    ASSUME TypeOK, NEW f \in Front, NEW t \in Task, todo' = [todo EXCEPT ![f] = t]
    PROVE  /\ TaskType' /\ todo'[f] = t
           /\ \A g \in Front : g # f => todo'[g] = todo[g]
  BY DEF TypeOK, TaskType

\* A process has made its next call.
LEMMA CallMade ==
    ASSUME TypeOK, NEW f \in Front, NEW call \in Call, Next1(f, call)
    PROVE  /\ TaskType' /\ todo[f].id' = todo[f].id /\ todo[f].node' = todo[f].node
           /\ todo[f].good' = todo[f].good
           /\ todo[f].calls' = Tail(todo[f].calls)
           /\ todo[f].calls \in Seq(Call) /\ todo[f].calls # <<>> /\ Head(todo[f].calls) = call
           /\ \A g \in Front : g # f => todo'[g] = todo[g]
<1>1. /\ todo \in [Front -> Task] /\ todo[f].calls # <<>> /\ Head(todo[f].calls) = call
      /\ todo' = [todo EXCEPT ![f].calls = Tail(@)]
  BY DEF TypeOK, Next1, Busy
<1>2. /\ todo[f] \in Task /\ todo[f].calls \in Seq(Call) /\ Tail(todo[f].calls) \in Seq(Call)
  <2>1. todo[f] \in Task
    BY <1>1
  <2>2. todo[f].calls \in Seq(Call)
    BY <2>1 DEF Task
  <2> QED
    BY <1>1, <2>1, <2>2, OneTaken
<1> DEFINE rest == Tail(todo[f].calls)
           t    == [todo[f] EXCEPT !.calls = rest]
<1>3. rest \in Seq(Call)
  BY <1>2
<1>4. todo' = [todo EXCEPT ![f] = t]
  BY <1>1
<1> HIDE DEF rest
<1>5. t \in Task /\ t.id = todo[f].id /\ t.node = todo[f].node /\ t.good = todo[f].good /\ t.calls = rest
  BY <1>2, <1>3 DEF Task
<1> HIDE DEF t
<1>6. todo'[f] = t /\ TaskType' /\ \A g \in Front : g # f => todo'[g] = todo[g]
  BY <1>4, <1>5, TaskGiven
<1> QED
  BY <1>1, <1>2, <1>5, <1>6 DEF rest

LEMMA AskType ==
    ASSUME NEW f \in Front, NEW ask \in Ask[f]
    PROVE  ask \in Command
  BY RemoteCommandsAssumption

LEMMA MessageType ==
    ASSUME NEW m \in Message \union {Answer}
    PROVE  /\ m \in Message \/ m = Answer
           /\ m \in Message => /\ m.id \in 1 .. MaxCommands /\ m.node \in Node \union {0}
                               /\ m.good \in BOOLEAN
                               /\ m = [id |-> m.id, node |-> m.node, good |-> m.good]
  BY DEF Message

LEMMA SentType ==
    ASSUME TypeOK, NEW f \in Front, todo[f].id # 0
    PROVE  Sent(f) \in Message
<1>1. todo[f] \in Task
  BY DEF TypeOK
<1> QED
  BY <1>1 DEF Task, Message, Sent

LEMMA FailingType ==
    ASSUME NEW n \in Nat, NEW f \in Failing(n)
    PROVE  Cardinality(f) \in Nat /\ n + Cardinality(f) <= MaxFaults
<1>1. IsFiniteSet({"m2m", "setup", "rtd"})
  <2>1. IsFiniteSet({} \union {"m2m"})
    BY FS_EmptySet, FS_AddElement
  <2>2. IsFiniteSet(({} \union {"m2m"}) \union {"setup"})
    BY <2>1, FS_AddElement
  <2>3. IsFiniteSet((({} \union {"m2m"}) \union {"setup"}) \union {"rtd"})
    BY <2>2, FS_AddElement
  <2>4. {"m2m", "setup", "rtd"} = (({} \union {"m2m"}) \union {"setup"}) \union {"rtd"}
    OBVIOUS
  <2> QED
    BY <2>3, <2>4, Zenon
<1>2. f \subseteq {"m2m", "setup", "rtd"} /\ n + Cardinality(f) <= MaxFaults
  BY DEF Failing
<1>3. Cardinality(f) \in Nat
  BY <1>1, <1>2, FS_Subset, FS_CardinalityType
<1> QED
  BY <1>2, <1>3

LEMMA InitTypes ==
    ASSUME Init PROVE TypeOK
<1>1. ClientType
  <2>1. <<>> \in Seq([front : Front, ask : Command]) /\ <<>> \in Seq(Part)
        /\ <<>> \in Seq(1 .. MaxCommands) /\ Len(<<>>) = 0
    OBVIOUS
  <2>2. Len(<<>>) <= MaxCommands /\ Len(<<>>) <= LineCap
    BY RemoteCommandsAssumption
  <2> QED
    BY <2>1, <2>2, Zenon DEF Init, ClientType
<1>2. ParseType
  <2>1. pc \in {"accept", "dead"} /\ garbled = FALSE
    BY DEF Init, MainM2M
  <2>2. buf = <<>> /\ kept = 0 /\ at = 0 /\ cut = {} /\ unasked = {}
    BY DEF Init
  <2>3. buf \in Seq(Part) /\ kept \in 0 .. Len(buf) /\ at \in 0 .. Len(buf) + 1
    BY <2>2
  <2> QED
    BY <2>1, <2>2, <2>3 DEF ParseType
<1>3. QueueType
  <2>1. /\ <<>> \in Seq(Message \union {Answer}) /\ <<>> \in Seq(Message)
        /\ Len(<<>>) <= QueueCap /\ FALSE \in BOOLEAN
    BY RemoteCommandsAssumption
  <2> QED
    BY <2>1, Zenon DEF Init, QueueType
<1>4. RtdType
  <2>1. PICK f \in Failing(0) : rtd = MainRtd("rtd" \notin f) /\ faults = Cardinality(f)
    BY DEF Init
  <2>2. Cardinality(f) \in Nat /\ 0 + Cardinality(f) <= MaxFaults
    BY FailingType
  <2>3. MaxFaults \in Nat
    BY RemoteCommandsAssumption
  <2>5. faults \in 0 .. MaxFaults
    BY <2>1, <2>2, <2>3
  <2>6. rtd \in {"idle", "ended"} /\ lock = "none" /\ job = 0 /\ rows = Node
    BY <2>1 DEF Init, MainRtd
  <2> QED
    BY <2>5, <2>6 DEF RtdType
<1>5. LogType
  BY DEF Init, LogType
<1>6. PlaceType
  BY DEF Init, PlaceType, UDPConnect
<1>7. TaskType
  <2>1. Nothing \in Task
    BY RemoteCommandsAssumption DEF Nothing, Task
  <2> QED
    BY <2>1 DEF Init, TaskType
<1> QED
  BY <1>1, <1>2, <1>3, <1>4, <1>5, <1>6, <1>7, TypeParts

\* The steps of clients, and of M2MManager between them.
LEMMA ClientTypes ==
    ASSUME TypeOK,
           \/ \E ask \in Ask["m2m"] : ClientSends(ask)
           \/ \E ask \in Ask["setup"] : SendDatagram(ask)
           \/ ClientConnects \/ ClientLeaves \/ EndSession
    PROVE  TypeOK'
<1>1. /\ asked \in Seq([front : Front, ask : Command]) /\ line \in Seq(Part)
      /\ datagrams \in Seq(1 .. MaxCommands) /\ Len(asked) \in Nat /\ MaxCommands \in Nat
      /\ LineCap \in Nat /\ "m2m" \in Front /\ "setup" \in Front
  BY RemoteCommandsAssumption DEF TypeOK, Front
<1>2. ASSUME NEW ask \in Ask["m2m"], ClientSends(ask) PROVE TypeOK'
  <2> DEFINE three == [p \in 1 .. 3 |-> <<Len(asked) + 1, p>>]
             entry == [front |-> "m2m", ask |-> ask]
  <2>1. entry \in [front : Front, ask : Command]
    BY <1>1, AskType
  <2>2. /\ asked' = Append(asked, entry) /\ line' = line \o three
        /\ Len(asked) < MaxCommands /\ Len(line) + 3 <= LineCap
        /\ client' = client /\ datagrams' = datagrams
        /\ pipelined' = (pipelined \/ line # <<>> \/ buf # <<>> \/ Busy("m2m"))
    BY <1>2 DEF ClientSends, MayAsk
  <2>3. /\ UNCHANGED parseVars /\ UNCHANGED queueVars /\ UNCHANGED answering
        /\ UNCHANGED rtdVars /\ UNCHANGED dbVars /\ UNCHANGED logVars
        /\ UNCHANGED <<manager, udp, boots>> /\ UNCHANGED todo
    BY <1>2 DEF ClientSends
  <2>4. three \in Seq(Part) /\ Len(three) = 3
    <3>1. \A p \in 1 .. 3 : <<Len(asked) + 1, p>> \in Part
      BY <1>1, <2>2 DEF Part
    <3> QED
      BY <3>1, IsASeq
  <2> HIDE DEF three, entry
  <2>5. asked' \in Seq([front : Front, ask : Command]) /\ Len(asked') <= MaxCommands
    BY <1>1, <2>1, <2>2, OneMore
  <2>6. line' \in Seq(Part) /\ Len(line') = Len(line) + Len(three)
    BY <1>1, <2>2, <2>4, Joining
  <2>7. line' \in Seq(Part) /\ Len(line') <= LineCap
    BY <2>2, <2>4, <2>6
  <2>8. client' \in {"none", "open", "fin", "rst"} /\ datagrams' \in Seq(1 .. MaxCommands)
    BY <2>2 DEF TypeOK
  <2>9. pipelined' \in BOOLEAN
    <3>1. \A a, b : (a \/ b) \in BOOLEAN
      BY Zenon
    <3> QED
      BY <2>2, <3>1, Zenon
  <2>10. ClientType'
    BY <2>5, <2>7, <2>8, <2>9 DEF ClientType
  <2> QED
    BY <2>3, <2>10, SameTypes, TypeParts
<1>3. ASSUME NEW ask \in Ask["setup"], SendDatagram(ask) PROVE TypeOK'
  <2> DEFINE entry == [front |-> "setup", ask |-> ask]
  <2>1. entry \in [front : Front, ask : Command]
    BY <1>1, AskType
  <2>2. /\ asked' = Append(asked, entry) /\ datagrams' = Append(datagrams, Len(asked) + 1)
        /\ Len(asked) < MaxCommands
        /\ client' = client /\ line' = line /\ pipelined' = pipelined
    BY <1>3 DEF SendDatagram, MayAsk
  <2>3. /\ UNCHANGED parseVars /\ UNCHANGED queueVars /\ UNCHANGED answering
        /\ UNCHANGED rtdVars /\ UNCHANGED dbVars /\ UNCHANGED logVars
        /\ UNCHANGED <<manager, udp, boots>> /\ UNCHANGED todo
    BY <1>3 DEF SendDatagram
  <2> HIDE DEF entry
  <2>4. asked' \in Seq([front : Front, ask : Command]) /\ Len(asked') <= MaxCommands
    BY <1>1, <2>1, <2>2, OneMore
  <2>5. datagrams' \in Seq(1 .. MaxCommands)
    BY <1>1, <2>2, OneMore
  <2>6. ClientType'
    BY <2>2, <2>4, <2>5 DEF TypeOK, ClientType
  <2> QED
    BY <2>3, <2>6, SameTypes, TypeParts
<1>4. ASSUME ClientConnects PROVE TypeOK'
  <2>1. /\ client' = "open" /\ asked' = asked /\ line' = line /\ datagrams' = datagrams
        /\ pipelined' = pipelined
        /\ pc' = "recv" /\ buf' = <<>> /\ kept' = 0 /\ at' = 0 /\ garbled' = garbled
        /\ cut' = cut /\ unasked' = unasked
    BY <1>4 DEF ClientConnects
  <2>2. /\ UNCHANGED queueVars /\ UNCHANGED answering
        /\ UNCHANGED rtdVars /\ UNCHANGED dbVars /\ UNCHANGED logVars
        /\ UNCHANGED <<manager, udp, boots>> /\ UNCHANGED todo
    BY <1>4 DEF ClientConnects
  <2>3. ClientType'
    BY <2>1 DEF TypeOK, ClientType
  <2>4. ParseType'
    BY <2>1 DEF TypeOK, ParseType
  <2> QED
    BY <2>2, <2>3, <2>4, SameTypes, TypeParts
<1>5. ASSUME ClientLeaves PROVE TypeOK'
  <2>1. /\ client' = "fin" /\ asked' = asked /\ line' = line /\ datagrams' = datagrams
        /\ pipelined' = pipelined
    BY <1>5 DEF ClientLeaves
  <2>2. /\ UNCHANGED parseVars /\ UNCHANGED queueVars /\ UNCHANGED answering
        /\ UNCHANGED rtdVars /\ UNCHANGED dbVars /\ UNCHANGED logVars
        /\ UNCHANGED <<manager, udp, boots>> /\ UNCHANGED todo
    BY <1>5 DEF ClientLeaves
  <2>3. ClientType'
    BY <2>1 DEF TypeOK, ClientType
  <2> QED
    BY <2>2, <2>3, SameTypes, TypeParts
<1>6. ASSUME EndSession PROVE TypeOK'
  <2>1. /\ client' = "none" /\ asked' = asked /\ line' = line /\ datagrams' = datagrams
        /\ pipelined' = pipelined
        /\ pc' = "accept" /\ buf' = buf /\ kept' = kept /\ at' = at /\ garbled' = garbled
        /\ cut' = cut /\ unasked' = unasked
    BY <1>6 DEF EndSession
  <2>2. /\ UNCHANGED queueVars /\ UNCHANGED answering
        /\ UNCHANGED rtdVars /\ UNCHANGED dbVars /\ UNCHANGED logVars
        /\ UNCHANGED <<manager, udp, boots>> /\ UNCHANGED todo
    BY <1>6 DEF EndSession
  <2>3. ClientType'
    BY <2>1 DEF TypeOK, ClientType
  <2>4. ParseType'
    BY <2>1 DEF TypeOK, ParseType
  <2> QED
    BY <2>2, <2>3, <2>4, SameTypes, TypeParts
<1> QED
  BY <1>2, <1>3, <1>4, <1>5, <1>6

\* What Receive makes of the buffer and the line.
LEMMA Received ==
    ASSUME TypeOK, Receive
    PROVE  \E n \in 1 .. Len(line) :
              /\ buf' = buf \o SubSeq(line, 1, n) /\ line' = SubSeq(line, n + 1, Len(line))
              /\ cut' = IF line[n][2] = 3 THEN cut ELSE cut \union {line[n][1]}
              /\ SubSeq(line, 1, n) \in Seq(Part) /\ Len(SubSeq(line, 1, n)) = n
              /\ \A i \in 1 .. n : SubSeq(line, 1, n)[i] = line[i]
              /\ line' \in Seq(Part) /\ Len(line') = Len(line) - n
              /\ \A i \in 1 .. Len(line) - n : line'[i] = line[n + i] /\ n + i \in DOMAIN line
              /\ buf' \in Seq(Part) /\ Len(buf') = Len(buf) + n
              /\ buf' \o line' = buf \o line
<1>1. PICK n \in 1 .. Len(line) :
          /\ buf' = buf \o SubSeq(line, 1, n) /\ line' = SubSeq(line, n + 1, Len(line))
          /\ cut' = IF line[n][2] = 3 THEN cut ELSE cut \union {line[n][1]}
  BY DEF Receive
<1>2. buf \in Seq(Part) /\ line \in Seq(Part)
  BY DEF TypeOK
<1> DEFINE a == SubSeq(line, 1, n)
           b == SubSeq(line, n + 1, Len(line))
<1>3. a \in Seq(Part) /\ Len(a) = n /\ \A i \in 1 .. n : a[i] = line[i]
  BY <1>2
<1>4. /\ b \in Seq(Part) /\ Len(b) = Len(line) - n
      /\ \A i \in 1 .. Len(line) - n : b[i] = line[n + i] /\ n + i \in DOMAIN line
  BY <1>2
<1>5. a \o b = line
  <2>1. n \in 1 - 1 .. Len(line) /\ 1 \in 1 .. Len(line) + 1
    BY <1>2
  <2>2. SubSeq(line, 1, n) \o SubSeq(line, n + 1, Len(line)) = SubSeq(line, 1, Len(line))
    BY <1>2, <2>1, ConcatAdjacentSubSeq
  <2> QED
    BY <1>2, <2>2, SubSeqFull
<1> HIDE DEF a, b
<1>6. a \in Seq(Part)
  BY <1>3
<1>7. b \in Seq(Part)
  BY <1>4
<1>8. (buf \o a) \o b = buf \o line
  <2> DEFINE c == buf
  <2>2. c \in Seq(Part)
    BY <1>2
  <2> HIDE DEF c
  <2>3. (c \o a) \o b = c \o (a \o b)
    BY <1>6, <1>7, <2>2, ConcatAssociative, SMTT(30)
  <2>1. (buf \o a) \o b = buf \o (a \o b)
    BY <2>3 DEF c
  <2> QED
    BY <1>5, <2>1, Zenon
<1>9. buf \o a \in Seq(Part) /\ Len(buf \o a) = Len(buf) + Len(a)
  BY <1>2, <1>6, Joining
<1>10. /\ buf' = buf \o a /\ line' = b
  BY <1>1 DEF a, b
<1>11. /\ buf' \in Seq(Part) /\ Len(buf') = Len(buf) + n /\ buf' \o line' = buf \o line
       /\ line' \in Seq(Part) /\ Len(line') = Len(line) - n
       /\ \A i \in 1 .. Len(line) - n : line'[i] = line[n + i] /\ n + i \in DOMAIN line
  BY <1>3, <1>4, <1>8, <1>9, <1>10
<1>12. /\ SubSeq(line, 1, n) \in Seq(Part) /\ Len(SubSeq(line, 1, n)) = n
       /\ \A i \in 1 .. n : SubSeq(line, 1, n)[i] = line[i]
  BY <1>3 DEF a
<1> QED
  BY <1>1, <1>11, <1>12, Zenon

\* The places where the parser looks for a command.
LEMMA HeadersAre ==
    ASSUME TypeOK
    PROVE  /\ buf \in Seq(Part) /\ DOMAIN buf = 1 .. Len(buf) /\ Len(buf) \in Nat /\ at \in Nat
           /\ Headers \in SUBSET Nat /\ Whole \in SUBSET Nat
           /\ \A j \in Headers : j \in DOMAIN buf /\ j > at /\ buf[j][2] = 1 /\ j \in Int
           /\ \A j \in Whole : j \in Headers /\ j + 2 \in DOMAIN buf
           /\ Whole # {} => First(Whole) \in Whole /\ \A j \in Whole : First(Whole) <= j
<1>1. buf \in Seq(Part) /\ DOMAIN buf = 1 .. Len(buf) /\ Len(buf) \in Nat /\ at \in Nat
  BY DEF TypeOK
<1>2. \A j \in Headers : j \in DOMAIN buf /\ j > at /\ buf[j][2] = 1 /\ j \in Int
  BY <1>1 DEF Headers
<1>3. \A j \in Whole : j \in Headers /\ j + 2 \in DOMAIN buf
  BY <1>1, <1>2 DEF Whole
<1>4. Headers \in SUBSET Nat
  BY <1>1, <1>2
<1>5. Whole \in SUBSET Nat
  BY <1>3, <1>4
<1>6. Whole # {} => First(Whole) \in Whole /\ \A j \in Whole : First(Whole) <= j
  BY <1>5, FirstOf
<1> QED
  BY <1>1, <1>2, <1>3, <1>4, <1>5, <1>6

\* The parts in the buffer and on the line belong to commands that were sent.
PartsSent ==
    /\ \A i \in DOMAIN buf : buf[i][1] \in DOMAIN asked
    /\ \A i \in DOMAIN line : line[i][1] \in DOMAIN asked
    /\ \A i \in DOMAIN datagrams : datagrams[i] \in DOMAIN asked

LEMMA ParseTypes ==
    ASSUME TypeOK, PartsSent, ~garbled => at <= Len(buf),
           \/ Receive \/ TakeCommand \/ TakeCut \/ ParseEnds \/ ParseCrashes
           \/ ListenFails \/ TakeDatagram
    PROVE  TypeOK'
<1>1. /\ buf \in Seq(Part) /\ line \in Seq(Part) /\ handled \in Seq(1 .. MaxCommands)
      /\ kept \in 0 .. Len(buf) /\ at \in 0 .. Len(buf) + 1 /\ Len(buf) \in Nat
      /\ Len(line) \in Nat /\ Len(line) <= LineCap /\ LineCap \in Nat
      /\ cut \subseteq 1 .. MaxCommands /\ unasked \subseteq 1 .. MaxCommands
      /\ datagrams \in Seq(1 .. MaxCommands)
  <2>1. /\ buf \in Seq(Part) /\ line \in Seq(Part) /\ handled \in Seq(1 .. MaxCommands)
        /\ datagrams \in Seq(1 .. MaxCommands)
    BY DEF TypeOK
  <2>2. /\ kept \in 0 .. Len(buf) /\ at \in 0 .. Len(buf) + 1 /\ Len(line) <= LineCap
        /\ cut \subseteq 1 .. MaxCommands /\ unasked \subseteq 1 .. MaxCommands
    BY DEF TypeOK
  <2>3. Len(buf) \in Nat /\ Len(line) \in Nat
    BY <2>1
  <2>4. LineCap \in Nat
    BY RemoteCommandsAssumption
  <2> QED
    BY <2>1, <2>2, <2>3, <2>4
<1>2. "m2m" \in Front /\ "setup" \in Front
  BY DEF Front
<1>3. \A i \in DOMAIN asked : i \in 1 .. MaxCommands /\ asked[i].ask.node \in Node \union {0}
  BY AskedType
<1>4. ASSUME Receive PROVE TypeOK'
  <2>1. PICK n \in 1 .. Len(line) :
              /\ cut' = IF line[n][2] = 3 THEN cut ELSE cut \union {line[n][1]}
              /\ line' \in Seq(Part) /\ Len(line') = Len(line) - n
              /\ buf' \in Seq(Part) /\ Len(buf') = Len(buf) + n
    BY <1>4, Received
  <2>2. /\ pc' = "parse" /\ at' = 0 /\ kept' = kept /\ garbled' = garbled /\ unasked' = unasked
        /\ asked' = asked /\ client' = client /\ datagrams' = datagrams /\ pipelined' = pipelined
        /\ UNCHANGED queueVars /\ UNCHANGED answering
        /\ UNCHANGED rtdVars /\ UNCHANGED dbVars /\ UNCHANGED logVars
        /\ UNCHANGED <<manager, udp, boots>> /\ UNCHANGED todo
    BY <1>4 DEF Receive
  <2>3. Len(line') <= LineCap /\ kept \in 0 .. Len(buf') /\ 0 \in 0 .. Len(buf') + 1
    <3>1. n \in Nat /\ Len(buf) + n \in Nat /\ Len(line) - n <= LineCap
      BY <1>1
    <3>2. kept \in 0 .. Len(buf) + n /\ 0 \in 0 .. (Len(buf) + n) + 1
      BY <1>1, <3>1
    <3> QED
      BY <2>1, <3>1, <3>2
  <2>4. cut' \subseteq 1 .. MaxCommands
    <3>1. line[n] \in Part
      BY <1>1
    <3> QED
      BY <1>1, <2>1, <3>1, PartType
  <2>5. ClientType'
    BY <2>1, <2>2, <2>3 DEF TypeOK, ClientType
  <2>6. ParseType'
    BY <2>1, <2>2, <2>3, <2>4 DEF TypeOK, ParseType
  <2> QED
    BY <2>2, <2>5, <2>6, SameTypes, TypeParts
<1>5. ASSUME NEW id \in DOMAIN asked, NEW node \in Node \union {0}, NEW j \in Nat, NEW f \in Front,
             todo' = [todo EXCEPT ![f] = Packet(id, node, j)], handled' = Append(handled, id),
             radio' = radio, failed' = failed
      PROVE  TaskType' /\ LogType'
  <2>1. TaskType'
    BY <1>5, PacketType, TaskGiven
  <2>2. id \in 1 .. MaxCommands
    BY <1>3
  <2>3. handled' \in Seq(1 .. MaxCommands)
    BY <1>1, <1>5, <2>2, OneMore
  <2> QED
    BY <1>5, <2>1, <2>3 DEF TypeOK, LogType
<1>6. ASSUME TakeCommand PROVE TypeOK'
  <2> DEFINE j  == First(Whole)
             id == buf[j][1]
  <2>1. /\ Whole # {} /\ at' = j + 2
        /\ todo' = [todo EXCEPT !["m2m"] = Packet(id, asked[id].ask.node, j)]
        /\ handled' = Append(handled, id) /\ radio' = radio /\ failed' = failed
        /\ pc' = pc /\ buf' = buf /\ kept' = kept /\ garbled' = garbled /\ cut' = cut
        /\ unasked' = unasked
        /\ UNCHANGED clientVars /\ UNCHANGED queueVars /\ UNCHANGED answering
        /\ UNCHANGED rtdVars /\ UNCHANGED dbVars /\ UNCHANGED <<manager, udp, boots>>
    BY <1>6 DEF TakeCommand
  <2>2. j \in Whole /\ j \in Nat /\ j + 2 \in DOMAIN buf /\ j \in DOMAIN buf
    BY <2>1, HeadersAre
  <2> HIDE DEF j
  <2>3. id \in DOMAIN asked /\ asked[id].ask.node \in Node \union {0}
    BY <1>3, <2>2 DEF PartsSent
  <2> HIDE DEF id
  <2>4. TaskType' /\ LogType'
    BY <1>2, <1>5, <2>1, <2>2, <2>3
  <2>5. at' \in 0 .. Len(buf) + 1
    BY <1>1, <2>1, <2>2
  <2>6. ParseType'
    BY <2>1, <2>5 DEF TypeOK, ParseType
  <2> QED
    BY <2>1, <2>4, <2>6, SameTypes, TypeParts
<1>7. ASSUME TakeCut PROVE TypeOK'
  <2>1. PICK j \in Headers, node \in Node \union {0} :
          /\ j + 1 = Len(buf)
          /\ todo' = [todo EXCEPT !["m2m"] = Packet(buf[j][1], node, j)]
          /\ handled' = Append(handled, buf[j][1])
          /\ at' = j + 2
          /\ unasked' = IF node = asked[buf[j][1]].ask.node THEN unasked
                        ELSE unasked \union {buf[j][1]}
    BY <1>7 DEF TakeCut
  <2>2. /\ radio' = radio /\ failed' = failed
        /\ pc' = pc /\ buf' = buf /\ kept' = kept /\ garbled' = TRUE /\ cut' = cut
        /\ UNCHANGED clientVars /\ UNCHANGED queueVars /\ UNCHANGED answering
        /\ UNCHANGED rtdVars /\ UNCHANGED dbVars /\ UNCHANGED <<manager, udp, boots>>
    BY <1>7 DEF TakeCut
  <2>3. j \in DOMAIN buf /\ j \in Nat
    BY HeadersAre
  <2> DEFINE id == buf[j][1]
  <2>4. id \in DOMAIN asked /\ id \in 1 .. MaxCommands
    BY <1>3, <2>3 DEF PartsSent
  <2>5. /\ todo' = [todo EXCEPT !["m2m"] = Packet(id, node, j)]
        /\ handled' = Append(handled, id)
        /\ unasked' = unasked \/ unasked' = unasked \union {id}
    BY <2>1
  <2> HIDE DEF id
  <2>6. TaskType' /\ LogType'
    BY <1>2, <1>5, <2>2, <2>3, <2>4, <2>5
  <2>7. at' \in 0 .. Len(buf) + 1
    BY <1>1, <2>1, <2>3
  <2>8. unasked' \subseteq 1 .. MaxCommands
    BY <1>1, <2>4, <2>5
  <2>9. ParseType'
    BY <2>2, <2>7, <2>8 DEF TypeOK, ParseType
  <2> QED
    BY <2>2, <2>6, <2>9, SameTypes, TypeParts
<1>8. ASSUME ParseEnds PROVE TypeOK'
  <2> DEFINE k    == (IF at > 0 THEN at ELSE kept) + 1
             rest == SubSeq(buf, k, Len(buf))
  <2>1. /\ buf' = rest /\ kept' = Len(rest) /\ at' = 0 /\ pc' = "recv" /\ garbled = FALSE
        /\ garbled' = garbled /\ cut' = cut /\ unasked' = unasked
        /\ UNCHANGED clientVars /\ UNCHANGED queueVars /\ UNCHANGED answering
        /\ UNCHANGED rtdVars /\ UNCHANGED dbVars /\ UNCHANGED logVars
        /\ UNCHANGED <<manager, udp, boots>> /\ UNCHANGED todo
    BY <1>8 DEF ParseEnds, TypeOK
  <2>2. k \in 1 .. Len(buf) + 1
    BY <1>1, <2>1
  <2> HIDE DEF k
  <2>3. rest \in Seq(Part)
    BY <1>1, <2>2
  <2> HIDE DEF rest
  <2>4. Len(rest) \in 0 .. Len(rest) /\ 0 \in 0 .. Len(rest) + 1
    BY <2>3
  <2>5. ParseType'
    BY <2>1, <2>3, <2>4 DEF TypeOK, ParseType
  <2> QED
    BY <2>1, <2>5, SameTypes, TypeParts
<1>9. ASSUME ParseCrashes \/ ListenFails PROVE TypeOK'
  <2>1. /\ pc' = "dead" /\ client' = "none" /\ line' = <<>> /\ buf' = <<>> /\ kept' = 0 /\ at' = 0
        /\ garbled' = FALSE /\ todo' = [todo EXCEPT !["m2m"] = Nothing]
        /\ asked' = asked /\ datagrams' = datagrams /\ pipelined' = pipelined /\ cut' = cut
        /\ unasked' = unasked
        /\ UNCHANGED queueVars /\ UNCHANGED answering
        /\ UNCHANGED rtdVars /\ UNCHANGED <<rows, lock>> /\ UNCHANGED logVars
        /\ UNCHANGED <<manager, udp, boots>>
        /\ faults' = faults \/ (faults' = faults + 1 /\ faults < MaxFaults)
    BY <1>9 DEF ParseCrashes, ListenFails, Die, dbVars
  <2>2. Nothing \in Task
    BY RemoteCommandsAssumption DEF Nothing, Task
  <2>3. TaskType'
    BY <1>2, <2>1, <2>2, TaskGiven
  <2>4. ClientType'
    BY <1>1, <2>1 DEF TypeOK, ClientType
  <2>5. buf' \in Seq(Part) /\ kept' \in 0 .. Len(buf') /\ at' \in 0 .. Len(buf') + 1
    BY <2>1
  <2>6. ParseType'
    BY <1>1, <2>1, <2>5, Zenon DEF ParseType
  <2>7. RtdType'
    <3>1. faults' \in 0 .. MaxFaults
      <4>1. MaxFaults \in Nat /\ faults \in 0 .. MaxFaults
        BY RemoteCommandsAssumption DEF TypeOK
      <4> QED
        BY <2>1, <4>1
    <3> QED
      BY <2>1, <3>1 DEF TypeOK, RtdType, rtdVars
  <2> QED
    BY <2>1, <2>3, <2>4, <2>6, <2>7, SameTypes, TypeParts
<1>10. ASSUME TakeDatagram PROVE TypeOK'
  <2> DEFINE id == Head(datagrams)
  <2>1. /\ datagrams # <<>> /\ datagrams' = Tail(datagrams)
        /\ todo' = [todo EXCEPT !["setup"] = Packet(id, asked[id].ask.node, 1)]
        /\ handled' = Append(handled, id) /\ radio' = radio /\ failed' = failed
        /\ asked' = asked /\ client' = client /\ line' = line /\ pipelined' = pipelined
        /\ UNCHANGED parseVars /\ UNCHANGED queueVars /\ UNCHANGED answering
        /\ UNCHANGED rtdVars /\ UNCHANGED dbVars /\ UNCHANGED <<manager, udp, boots>>
    BY <1>10 DEF TakeDatagram
  <2>2. 1 \in DOMAIN datagrams /\ id = datagrams[1] /\ Tail(datagrams) \in Seq(1 .. MaxCommands)
    BY <1>1, <2>1, OneTaken
  <2>3. id \in DOMAIN asked
    BY <2>2 DEF PartsSent
  <2> HIDE DEF id
  <2>4. asked[id].ask.node \in Node \union {0} /\ 1 \in Nat
    BY <1>3, <2>3
  <2>5. TaskType' /\ LogType'
    BY <1>2, <1>5, <2>1, <2>3, <2>4
  <2>6. ClientType'
    BY <2>1, <2>2 DEF TypeOK, ClientType
  <2> QED
    BY <2>1, <2>5, <2>6, SameTypes, TypeParts
<1> QED
  BY <1>4, <1>6, <1>7, <1>8, <1>9, <1>10

\* A busy process works on a command that was sent.
TasksSent == \A f \in Front : Busy(f) => todo[f].id \in DOMAIN asked

LEMMA FailureNoted ==
    ASSUME TypeOK, NEW f \in Front, todo[f].id \in DOMAIN asked,
           NEW call \in {"node", "event", "row"}, Failure(f, call)
    PROVE  /\ failed' \in [1 .. MaxCommands -> SUBSET {"node", "event", "row"}]
           /\ \A i \in 1 .. MaxCommands : failed[i] \subseteq failed'[i]
           /\ call \in failed'[todo[f].id]
<1>1. todo[f].id \in 1 .. MaxCommands
  BY AskedType
<1>2. /\ failed \in [1 .. MaxCommands -> SUBSET {"node", "event", "row"}]
      /\ failed' = [failed EXCEPT ![todo[f].id] = @ \union {call}]
  BY DEF TypeOK, Failure
<1> QED
  BY <1>1, <1>2

\* The variables that no step of Pack_Manager changes.
LEMMA PackSame ==
    ASSUME PackStep
    PROVE  /\ manager' = manager /\ udp' = udp /\ asked' = asked /\ datagrams' = datagrams
           /\ pipelined' = pipelined /\ cut' = cut /\ unasked' = unasked
           /\ answering' = answering /\ UNCHANGED rtdVars /\ lock' = lock /\ faults' = faults
           /\ radio' = radio /\ handled' = handled /\ boots' = boots
<1>1. ASSUME NEW f \in Front, PutNode(f) \/ PutEvent(f) PROVE
           /\ manager' = manager /\ udp' = udp /\ asked' = asked /\ datagrams' = datagrams
           /\ pipelined' = pipelined /\ cut' = cut /\ unasked' = unasked
           /\ answering' = answering /\ UNCHANGED rtdVars /\ lock' = lock /\ faults' = faults
           /\ radio' = radio /\ handled' = handled /\ boots' = boots
  BY <1>1 DEF PutNode, PutEvent, clientVars, parseVars, dbVars
<1>2. ASSUME NEW f \in Front, DeleteRow(f) \/ InfoUpdate(f) PROVE
           /\ manager' = manager /\ udp' = udp /\ asked' = asked /\ datagrams' = datagrams
           /\ pipelined' = pipelined /\ cut' = cut /\ unasked' = unasked
           /\ answering' = answering /\ UNCHANGED rtdVars /\ lock' = lock /\ faults' = faults
           /\ radio' = radio /\ handled' = handled /\ boots' = boots
  BY <1>2 DEF DeleteRow, InfoUpdate, Delete, clientVars, parseVars
<1>3. ASSUME NEW call, Reply(call) PROVE
           /\ manager' = manager /\ udp' = udp /\ asked' = asked /\ datagrams' = datagrams
           /\ pipelined' = pipelined /\ cut' = cut /\ unasked' = unasked
           /\ answering' = answering /\ UNCHANGED rtdVars /\ lock' = lock /\ faults' = faults
           /\ radio' = radio /\ handled' = handled /\ boots' = boots
  BY <1>3 DEF Reply, dbVars, logVars
<1>4. ASSUME NEW f, NEW call, Silent(f, call) PROVE
           /\ manager' = manager /\ udp' = udp /\ asked' = asked /\ datagrams' = datagrams
           /\ pipelined' = pipelined /\ cut' = cut /\ unasked' = unasked
           /\ answering' = answering /\ UNCHANGED rtdVars /\ lock' = lock /\ faults' = faults
           /\ radio' = radio /\ handled' = handled /\ boots' = boots
  BY <1>4 DEF Silent, clientVars, parseVars, dbVars, logVars
<1> QED
  BY <1>1, <1>2, <1>3, <1>4 DEF PackStep, ReplyNodes, ReplyStatus, ReplyData, SendNodes, SendTime

\* What a step of Pack_Manager changes, by the call that is made: a message is
\* put on a queue or lost, the row of a node is deleted or not, a reply is
\* written, or M2MManager ends over one.
NodePut(f) ==
    /\ Next1(f, "node")
    /\ \/ /\ Len(nodeQueue) < QueueCap /\ nodeQueue' = Append(nodeQueue, Sent(f))
          /\ todo[f].good /\ failed' = failed
       \/ /\ Len(nodeQueue) < QueueCap /\ nodeQueue' = Append(nodeQueue, Sent(f))
          /\ Failure(f, "node")
       \/ nodeQueue' = nodeQueue /\ Failure(f, "node")
    /\ eventQueue' = eventQueue /\ rows' = rows /\ UNCHANGED clientVars /\ UNCHANGED parseVars

EventPut(f) ==
    /\ Next1(f, "event")
    /\ \/ /\ Len(eventQueue) < QueueCap /\ eventQueue' = Append(eventQueue, Sent(f))
          /\ todo[f].good /\ failed' = failed
       \/ /\ Len(eventQueue) < QueueCap /\ eventQueue' = Append(eventQueue, Sent(f))
          /\ Failure(f, "event")
       \/ eventQueue' = eventQueue /\ Failure(f, "event")
    /\ nodeQueue' = nodeQueue /\ rows' = rows /\ UNCHANGED clientVars /\ UNCHANGED parseVars

RowDone(f) ==
    /\ Next1(f, "row")
    /\ \/ rows' = rows \ {todo[f].node} /\ failed' = failed
       \/ rows' = rows /\ Failure(f, "row")
    /\ UNCHANGED queueVars /\ UNCHANGED clientVars /\ UNCHANGED parseVars

Told(f) ==
    /\ \E call \in {"list", "status", "data", "time"} : Next1(f, call)
    /\ client' \in {client, "rst"} /\ line' = line /\ UNCHANGED parseVars
    /\ UNCHANGED queueVars /\ rows' = rows /\ failed' = failed

Ended ==
    /\ Busy("m2m") /\ Head(todo["m2m"].calls) \in {"list", "status", "data", "time"}
    /\ Die
    /\ UNCHANGED queueVars /\ rows' = rows /\ failed' = failed

LEMMA PackShape ==
    ASSUME PackStep
    PROVE  Ended \/ \E f \in Front : NodePut(f) \/ EventPut(f) \/ RowDone(f) \/ Told(f)
<1>1. ASSUME NEW f \in Front, PutNode(f) PROVE NodePut(f)
  BY <1>1 DEF PutNode, NodePut, dbVars
<1>2. ASSUME NEW f \in Front, PutEvent(f) PROVE EventPut(f)
  BY <1>2 DEF PutEvent, EventPut, dbVars
<1>3. ASSUME NEW f \in Front, DeleteRow(f) \/ InfoUpdate(f) PROVE RowDone(f)
  BY <1>3 DEF DeleteRow, InfoUpdate, Delete, RowDone
<1>4. ASSUME NEW call \in {"list", "status", "data", "time"}, Reply(call)
      PROVE  Ended \/ Told("m2m")
  BY <1>4 DEF Reply, Ended, Told, parseVars, dbVars, logVars
<1>5. ASSUME NEW f \in Front, NEW call \in {"list", "status", "data", "time"}, Silent(f, call)
      PROVE  Told(f)
  BY <1>5 DEF Silent, Told, clientVars, dbVars, logVars
<1>6. "m2m" \in Front /\ "setup" \in Front
  BY DEF Front
<1> QED
  BY <1>1, <1>2, <1>3, <1>4, <1>5, <1>6
  DEF PackStep, ReplyNodes, ReplyStatus, ReplyData, SendNodes, SendTime

LEMMA PackTypes ==
    ASSUME TypeOK, TasksSent, PackStep
    PROVE  TypeOK'
<1>1. /\ QueueCap \in Nat /\ "m2m" \in Front
      /\ nodeQueue \in Seq(Message \union {Answer}) /\ Len(nodeQueue) <= QueueCap
      /\ eventQueue \in Seq(Message) /\ Len(eventQueue) <= QueueCap
  BY RemoteCommandsAssumption DEF TypeOK, Front
<1>2. /\ PlaceType' /\ answering' = answering /\ UNCHANGED rtdVars /\ lock' = lock
      /\ faults' = faults /\ radio' = radio /\ handled' = handled /\ asked' = asked
      /\ datagrams' = datagrams /\ pipelined' = pipelined /\ cut' = cut /\ unasked' = unasked
  BY PackSame, SameTypes
<1>3. ASSUME rows' = rows \/ \E n : rows' = rows \ {n} PROVE RtdType'
  BY <1>2, <1>3 DEF TypeOK, RtdType, rtdVars
<1>4. ASSUME failed' \in [1 .. MaxCommands -> SUBSET {"node", "event", "row"}] PROVE LogType'
  BY <1>2, <1>4 DEF TypeOK, LogType
<1>5. failed \in [1 .. MaxCommands -> SUBSET {"node", "event", "row"}]
  BY DEF TypeOK
<1>6. ASSUME NEW f \in Front, Busy(f)
      PROVE  todo[f].id \in DOMAIN asked /\ Sent(f) \in Message
  <2>1. todo[f].id \in DOMAIN asked
    BY <1>6 DEF TasksSent
  <2>2. todo[f].id # 0
    BY <2>1, AskedType
  <2> QED
    BY <2>1, <2>2, SentType
<1>7. ASSUME NEW f \in Front, NodePut(f) PROVE TypeOK'
  <2>1. "node" \in Call /\ Next1(f, "node") /\ Busy(f)
    BY <1>7 DEF NodePut, Call, Next1
  <2>2. TaskType' /\ Sent(f) \in Message \union {Answer} /\ todo[f].id \in DOMAIN asked
    BY <1>6, <2>1, CallMade
  <2>3. LogType'
    BY <1>4, <1>5, <1>7, <2>2, FailureNoted DEF NodePut
  <2>4. /\ \/ nodeQueue' = nodeQueue
           \/ Len(nodeQueue) < QueueCap /\ nodeQueue' = Append(nodeQueue, Sent(f))
        /\ eventQueue' = eventQueue /\ rows' = rows /\ UNCHANGED clientVars
        /\ UNCHANGED parseVars
    BY <1>7 DEF NodePut
  <2> DEFINE m == Sent(f)
  <2> HIDE DEF m
  <2>5. nodeQueue' \in Seq(Message \union {Answer}) /\ Len(nodeQueue') <= QueueCap
    <3>1. CASE nodeQueue' = nodeQueue
      BY <1>1, <3>1
    <3>2. CASE Len(nodeQueue) < QueueCap /\ nodeQueue' = Append(nodeQueue, m)
      <4>1. m \in Message \union {Answer}
        BY <2>2 DEF m
      <4> QED
        BY <1>1, <3>2, <4>1, OneMore
    <3> QED
      BY <2>4, <3>1, <3>2 DEF m
  <2>6. QueueType'
    BY <1>1, <1>2, <2>4, <2>5 DEF TypeOK, QueueType
  <2> QED
    BY <1>2, <1>3, <2>2, <2>3, <2>4, <2>6, SameTypes, TypeParts
<1>8. ASSUME NEW f \in Front, EventPut(f) PROVE TypeOK'
  <2>1. "event" \in Call /\ Next1(f, "event") /\ Busy(f)
    BY <1>8 DEF EventPut, Call, Next1
  <2>2. TaskType' /\ Sent(f) \in Message /\ todo[f].id \in DOMAIN asked
    BY <1>6, <2>1, CallMade
  <2>3. LogType'
    BY <1>4, <1>5, <1>8, <2>2, FailureNoted DEF EventPut
  <2>4. /\ \/ eventQueue' = eventQueue
           \/ Len(eventQueue) < QueueCap /\ eventQueue' = Append(eventQueue, Sent(f))
        /\ nodeQueue' = nodeQueue /\ rows' = rows /\ UNCHANGED clientVars
        /\ UNCHANGED parseVars
    BY <1>8 DEF EventPut
  <2> DEFINE m == Sent(f)
  <2> HIDE DEF m
  <2>5. eventQueue' \in Seq(Message) /\ Len(eventQueue') <= QueueCap
    <3>1. CASE eventQueue' = eventQueue
      BY <1>1, <3>1
    <3>2. CASE Len(eventQueue) < QueueCap /\ eventQueue' = Append(eventQueue, m)
      <4>1. m \in Message
        BY <2>2 DEF m
      <4> QED
        BY <1>1, <3>2, <4>1, OneMore
    <3> QED
      BY <2>4, <3>1, <3>2 DEF m
  <2>6. QueueType'
    BY <1>1, <1>2, <2>4, <2>5 DEF TypeOK, QueueType
  <2> QED
    BY <1>2, <1>3, <2>2, <2>3, <2>4, <2>6, SameTypes, TypeParts
<1>9. ASSUME NEW f \in Front, RowDone(f) PROVE TypeOK'
  <2>1. "row" \in Call /\ Next1(f, "row") /\ Busy(f)
    BY <1>9 DEF RowDone, Call, Next1
  <2>2. TaskType' /\ todo[f].id \in DOMAIN asked
    BY <1>6, <2>1, CallMade
  <2>3. LogType'
    BY <1>4, <1>5, <1>9, <2>2, FailureNoted DEF RowDone
  <2>4. /\ UNCHANGED queueVars /\ UNCHANGED clientVars /\ UNCHANGED parseVars
        /\ rows' = rows \/ \E n : rows' = rows \ {n}
    BY <1>9 DEF RowDone
  <2> QED
    BY <1>2, <1>3, <2>2, <2>3, <2>4, SameTypes, TypeParts
<1>10. ASSUME NEW f \in Front, Told(f) PROVE TypeOK'
  <2>1. PICK call \in {"list", "status", "data", "time"} : Next1(f, call)
    BY <1>10 DEF Told
  <2>2. call \in Call
    BY DEF Call
  <2>3. TaskType'
    BY <2>1, <2>2, CallMade
  <2>4. /\ UNCHANGED queueVars /\ UNCHANGED parseVars /\ rows' = rows /\ failed' = failed
        /\ client' \in {client, "rst"} /\ line' = line
    BY <1>10 DEF Told
  <2>5. ClientType'
    BY <1>2, <2>4 DEF TypeOK, ClientType
  <2> QED
    BY <1>2, <1>3, <1>4, <1>5, <2>3, <2>4, <2>5, SameTypes, TypeParts
<1>11. ASSUME Ended PROVE TypeOK'
  <2>1. /\ pc' = "dead" /\ client' = "none" /\ line' = <<>> /\ buf' = <<>> /\ kept' = 0 /\ at' = 0
        /\ garbled' = FALSE /\ todo' = [todo EXCEPT !["m2m"] = Nothing]
        /\ UNCHANGED queueVars /\ rows' = rows /\ failed' = failed
    BY <1>11 DEF Ended, Die
  <2>2. Nothing \in Task
    BY RemoteCommandsAssumption DEF Nothing, Task
  <2>3. TaskType'
    BY <1>1, <2>1, <2>2, TaskGiven
  <2>4. ClientType'
    <3>1. LineCap \in Nat
      BY RemoteCommandsAssumption
    <3> QED
      BY <1>2, <2>1, <3>1 DEF TypeOK, ClientType
  <2>5. buf' \in Seq(Part) /\ kept' \in 0 .. Len(buf') /\ at' \in 0 .. Len(buf') + 1
    BY <2>1
  <2>6. cut \subseteq 1 .. MaxCommands /\ unasked \subseteq 1 .. MaxCommands
    BY DEF TypeOK
  <2>7. ParseType'
    BY <1>2, <2>1, <2>5, <2>6, Zenon DEF ParseType
  <2> QED
    BY <1>2, <1>3, <1>4, <1>5, <2>1, <2>3, <2>4, <2>7, SameTypes, TypeParts
<1> QED
  BY <1>7, <1>8, <1>9, <1>10, <1>11, PackShape

\* The steps of the readers of the queues, and of the database.
LEMMA ReaderTypes ==
    ASSUME TypeOK,
           \/ TakeNode \/ TakeForUart \/ PutAnswer
           \/ TakeEvent \/ Begin \/ DeleteAndEnd \/ OtherLocks \/ OtherUnlocks
    PROVE  TypeOK'
<1>1. /\ QueueCap \in Nat /\ MaxFaults \in Nat
      /\ nodeQueue \in Seq(Message \union {Answer}) /\ Len(nodeQueue) <= QueueCap
      /\ eventQueue \in Seq(Message) /\ Len(eventQueue) <= QueueCap
  BY RemoteCommandsAssumption DEF TypeOK
<1>2. ASSUME NEW k \in DOMAIN nodeQueue, nodeQueue' = Without(nodeQueue, k)
      PROVE  nodeQueue' \in Seq(Message \union {Answer}) /\ Len(nodeQueue') <= QueueCap
  <2>1. nodeQueue' \in Seq(Message \union {Answer}) /\ Len(nodeQueue') = Len(nodeQueue) - 1
        /\ Len(nodeQueue) \in Nat
    BY <1>1, <1>2, WithoutOne
  <2> QED
    BY <1>1, <2>1
<1>3. Commands # {} => First(Commands) \in DOMAIN nodeQueue
                       /\ nodeQueue[First(Commands)] \in Message
  <2>1. Commands \in SUBSET Nat
    BY <1>1 DEF Commands
  <2>2. Commands # {} => First(Commands) \in Commands
    BY <2>1, FirstOf
  <2>3. \A k \in DOMAIN nodeQueue : nodeQueue[k] \in Message \union {Answer}
    BY <1>1
  <2> QED
    BY <2>2, <2>3 DEF Commands
<1>4. ASSUME TakeNode PROVE TypeOK'
  <2> DEFINE k == First(Commands)
  <2>1. /\ Commands # {}
        /\ radio' = IF nodeQueue[k].good THEN Append(radio, nodeQueue[k].id) ELSE radio
        /\ nodeQueue' = Without(nodeQueue, k) /\ eventQueue' = eventQueue
        /\ handled' = handled /\ failed' = failed
        /\ UNCHANGED clientVars /\ UNCHANGED parseVars /\ UNCHANGED answering
        /\ UNCHANGED rtdVars /\ UNCHANGED dbVars /\ UNCHANGED <<manager, udp, boots>>
        /\ UNCHANGED todo
    BY <1>4 DEF TakeNode
  <2>2. k \in DOMAIN nodeQueue /\ nodeQueue[k].id \in 1 .. MaxCommands
    BY <1>3, <2>1, MessageType
  <2> HIDE DEF k
  <2>3. QueueType'
    BY <1>1, <1>2, <2>1, <2>2 DEF TypeOK, QueueType
  <2>4. radio' \in Seq(1 .. MaxCommands)
    <3>1. radio \in Seq(1 .. MaxCommands)
      BY DEF TypeOK
    <3> QED
      BY <2>1, <2>2, <3>1, OneMore
  <2>5. LogType'
    BY <2>1, <2>4 DEF TypeOK, LogType
  <2> QED
    BY <2>1, <2>3, <2>5, SameTypes, TypeParts
<1>5. ASSUME TakeForUart PROVE TypeOK'
  <2> DEFINE k == First(Commands)
  <2>1. /\ Commands # {}
        /\ answering' \in IF nodeQueue[k].good THEN {TRUE} ELSE BOOLEAN
        /\ nodeQueue' = Without(nodeQueue, k) /\ eventQueue' = eventQueue
        /\ UNCHANGED clientVars /\ UNCHANGED parseVars /\ UNCHANGED logVars
        /\ UNCHANGED rtdVars /\ UNCHANGED dbVars /\ UNCHANGED <<manager, udp, boots>>
        /\ UNCHANGED todo
    BY <1>5 DEF TakeForUart
  <2>2. k \in DOMAIN nodeQueue
    BY <1>3, <2>1
  <2> HIDE DEF k
  <2>3. answering' \in BOOLEAN
    BY <2>1
  <2>4. nodeQueue' \in Seq(Message \union {Answer}) /\ Len(nodeQueue') <= QueueCap
    BY <1>2, <2>1, <2>2
  <2>5. QueueType'
    BY <1>1, <2>1, <2>3, <2>4 DEF QueueType
  <2> QED
    BY <2>1, <2>5, SameTypes, TypeParts
<1>6. ASSUME PutAnswer PROVE TypeOK'
  <2>1. /\ answering' = FALSE /\ eventQueue' = eventQueue
        /\ nodeQueue' = IF Len(nodeQueue) < QueueCap THEN Append(nodeQueue, Answer) ELSE nodeQueue
        /\ UNCHANGED clientVars /\ UNCHANGED parseVars /\ UNCHANGED logVars
        /\ UNCHANGED rtdVars /\ UNCHANGED dbVars /\ UNCHANGED <<manager, udp, boots>>
        /\ UNCHANGED todo
    BY <1>6 DEF PutAnswer
  <2>2. Answer \in Message \union {Answer}
    OBVIOUS
  <2>3. nodeQueue' \in Seq(Message \union {Answer}) /\ Len(nodeQueue') <= QueueCap
    BY <1>1, <2>1, <2>2, OneMore
  <2>4. QueueType'
    BY <1>1, <2>1, <2>3 DEF QueueType
  <2> QED
    BY <2>1, <2>4, SameTypes, TypeParts
<1>7. ASSUME TakeEvent PROVE TypeOK'
  <2> DEFINE m == Head(eventQueue)
             reboots == asked[m.id].ask.kind = "reboot"
  <2>1. /\ rtd = "idle" /\ eventQueue # <<>> /\ eventQueue' = Tail(eventQueue)
        /\ rtd' = IF ~m.good THEN "idle" ELSE IF reboots THEN "gone" ELSE "begin"
        /\ job' = IF m.good /\ ~reboots THEN m.node ELSE 0
        /\ nodeQueue' = nodeQueue /\ UNCHANGED answering
        /\ rows' = rows /\ lock' = lock /\ faults' = faults
        /\ UNCHANGED clientVars /\ UNCHANGED parseVars /\ UNCHANGED logVars
        /\ UNCHANGED <<manager, udp, boots>> /\ UNCHANGED todo
    BY <1>7 DEF TakeEvent, dbVars
  <2>2. m \in Message /\ Tail(eventQueue) \in Seq(Message)
        /\ Len(Tail(eventQueue)) = Len(eventQueue) - 1 /\ Len(eventQueue) \in Nat
    BY <1>1, <2>1, OneTaken
  <2>3. m.node \in Node \union {0}
    BY <2>2, MessageType
  <2> HIDE DEF m, reboots
  <2>4. Len(eventQueue') <= QueueCap
    BY <1>1, <2>1, <2>2
  <2>5. QueueType'
    BY <1>1, <2>1, <2>2, <2>4 DEF TypeOK, QueueType
  <2>6. RtdType'
    BY <2>1, <2>3 DEF TypeOK, RtdType
  <2> QED
    BY <2>1, <2>5, <2>6, SameTypes, TypeParts
<1>8. ASSUME Begin \/ DeleteAndEnd \/ OtherUnlocks PROVE TypeOK'
  <2>1. /\ UNCHANGED queueVars /\ UNCHANGED answering
        /\ UNCHANGED clientVars /\ UNCHANGED parseVars /\ UNCHANGED logVars
        /\ UNCHANGED <<manager, udp, boots>> /\ UNCHANGED todo
    BY <1>8 DEF Begin, DeleteAndEnd, OtherUnlocks
  <2>2. RtdType'
    BY <1>8 DEF Begin, DeleteAndEnd, OtherUnlocks, TypeOK, RtdType, rtdVars
  <2> QED
    BY <2>1, <2>2, SameTypes, TypeParts
<1>9. ASSUME OtherLocks PROVE TypeOK'
  <2>1. /\ UNCHANGED queueVars /\ UNCHANGED answering
        /\ UNCHANGED clientVars /\ UNCHANGED parseVars /\ UNCHANGED logVars
        /\ UNCHANGED <<manager, udp, boots>> /\ UNCHANGED todo
        /\ lock = "none" /\ faults < MaxFaults /\ lock' = "other" /\ faults' = faults + 1
        /\ rtd' = rtd /\ job' = job /\ rows' = rows
    BY <1>9 DEF OtherLocks, rtdVars
  <2>2. faults' \in 0 .. MaxFaults
    BY <1>1, <2>1 DEF TypeOK
  <2>3. RtdType'
    BY <2>1, <2>2 DEF TypeOK, RtdType
  <2> QED
    BY <2>1, <2>3, SameTypes, TypeParts
<1> QED
  BY <1>4, <1>5, <1>6, <1>7, <1>8, <1>9

\* What a restart does not lose without a note.
LEMMA RestartNotes ==
    ASSUME TypeOK, Restart
    PROVE  /\ failed' \in [1 .. MaxCommands -> SUBSET {"node", "event", "row"}]
           /\ \A i \in 1 .. MaxCommands :
                /\ failed[i] \subseteq failed'[i]
                /\ (\E k \in DOMAIN nodeQueue : nodeQueue[k].id = i) => "node" \in failed'[i]
                /\ (\E k \in DOMAIN eventQueue : eventQueue[k].id = i) => "event" \in failed'[i]
                /\ \A f \in Front, call \in {"node", "event", "row"} :
                      /\ todo[f].id = i
                      /\ \E k \in DOMAIN todo[f].calls : todo[f].calls[k] = call
                      => call \in failed'[i]
<1> DEFINE A(i) == IF \E k \in DOMAIN nodeQueue : nodeQueue[k].id = i THEN {"node"} ELSE {}
           B(i) == IF \E k \in DOMAIN eventQueue : eventQueue[k].id = i THEN {"event"} ELSE {}
           C(f) == {"node", "event", "row"} \intersect {todo[f].calls[k] : k \in DOMAIN todo[f].calls}
           D(i) == UNION {C(f) : f \in {g \in Front : todo[g].id = i}}
<1>1. failed' = [i \in 1 .. MaxCommands |-> failed[i] \union A(i) \union B(i) \union D(i)]
  BY DEF Restart
<1>2. ASSUME NEW i \in 1 .. MaxCommands
      PROVE  /\ A(i) \subseteq {"node", "event", "row"} /\ B(i) \subseteq {"node", "event", "row"}
             /\ D(i) \subseteq {"node", "event", "row"}
             /\ (\E k \in DOMAIN nodeQueue : nodeQueue[k].id = i) => "node" \in A(i)
             /\ (\E k \in DOMAIN eventQueue : eventQueue[k].id = i) => "event" \in B(i)
             /\ \A f \in Front : todo[f].id = i => C(f) \subseteq D(i)
  <2>1. D(i) \subseteq {"node", "event", "row"}
    BY Zenon
  <2>2. ASSUME NEW f \in Front, todo[f].id = i PROVE C(f) \subseteq D(i)
    <3> HIDE DEF C
    <3>1. f \in {g \in Front : todo[g].id = i}
      BY <2>2
    <3>2. C(f) \in {C(h) : h \in {g \in Front : todo[g].id = i}}
      BY <3>1, Zenon
    <3> QED
      BY <3>2
  <2> QED
    BY <2>1, <2>2
<1>3. \A f \in Front, call \in {"node", "event", "row"} :
         (\E k \in DOMAIN todo[f].calls : todo[f].calls[k] = call) => call \in C(f)
  BY Zenon
<1> HIDE DEF A, B, C, D
<1>4. failed \in [1 .. MaxCommands -> SUBSET {"node", "event", "row"}]
  BY DEF TypeOK
<1>5. failed' \in [1 .. MaxCommands -> SUBSET {"node", "event", "row"}]
  BY <1>1, <1>2, <1>4
<1>6. ASSUME NEW i \in 1 .. MaxCommands
      PROVE  /\ failed[i] \subseteq failed'[i] /\ A(i) \subseteq failed'[i]
             /\ B(i) \subseteq failed'[i] /\ D(i) \subseteq failed'[i]
  BY <1>1
<1>7. ASSUME NEW i \in 1 .. MaxCommands, NEW f \in Front, NEW call \in {"node", "event", "row"},
             todo[f].id = i, \E k \in DOMAIN todo[f].calls : todo[f].calls[k] = call
      PROVE  call \in failed'[i]
  BY <1>2, <1>3, <1>6, <1>7
<1>8. ASSUME NEW i \in 1 .. MaxCommands
      PROVE  /\ failed[i] \subseteq failed'[i]
             /\ (\E k \in DOMAIN nodeQueue : nodeQueue[k].id = i) => "node" \in failed'[i]
             /\ (\E k \in DOMAIN eventQueue : eventQueue[k].id = i) => "event" \in failed'[i]
  BY <1>2, <1>6
<1> QED
  BY <1>5, <1>7, <1>8

LEMMA RestartTypes ==
    ASSUME TypeOK, Restart
    PROVE  TypeOK'
<1>1. PICK f \in Failing(faults) :
          /\ pc' = MainM2M("m2m" \notin f) /\ udp' = UDPConnect("setup" \notin f)
          /\ rtd' = MainRtd("rtd" \notin f) /\ faults' = faults + Cardinality(f)
  BY DEF Restart
<1>2. /\ client' = "none" /\ line' = <<>> /\ datagrams' = <<>>
      /\ buf' = <<>> /\ kept' = 0 /\ at' = 0 /\ garbled' = FALSE
      /\ todo' = [g \in Front |-> Nothing]
      /\ nodeQueue' = <<>> /\ eventQueue' = <<>> /\ answering' = FALSE
      /\ job' = 0 /\ lock' = "none" /\ boots' = boots + 1
      /\ manager' = manager /\ asked' = asked /\ pipelined' = pipelined /\ cut' = cut
      /\ unasked' = unasked /\ rows' = rows /\ radio' = radio /\ handled' = handled
  BY DEF Restart
<1>3. ClientType'
  <2>1. LineCap \in Nat
    BY RemoteCommandsAssumption
  <2>2. line' \in Seq(Part) /\ Len(line') <= LineCap /\ datagrams' \in Seq(1 .. MaxCommands)
    BY <1>2, <2>1
  <2>3. /\ asked \in Seq([front : Front, ask : Command]) /\ Len(asked) <= MaxCommands
        /\ pipelined \in BOOLEAN
    BY DEF TypeOK
  <2> QED
    BY <1>2, <2>2, <2>3, Zenon DEF ClientType
<1>4. ParseType'
  <2>1. pc' \in {"accept", "dead"}
    BY <1>1 DEF MainM2M
  <2>2. buf' \in Seq(Part) /\ kept' \in 0 .. Len(buf') /\ at' \in 0 .. Len(buf') + 1
    BY <1>2
  <2>3. cut \subseteq 1 .. MaxCommands /\ unasked \subseteq 1 .. MaxCommands
    BY DEF TypeOK
  <2> QED
    BY <1>2, <2>1, <2>2, <2>3, Zenon DEF ParseType
<1>5. QueueType'
  <2>1. /\ <<>> \in Seq(Message \union {Answer}) /\ <<>> \in Seq(Message)
        /\ Len(<<>>) <= QueueCap /\ FALSE \in BOOLEAN
    BY RemoteCommandsAssumption
  <2> QED
    BY <1>2, <2>1, Zenon DEF QueueType
<1>6. RtdType'
  <2>1. rtd' \in {"idle", "ended"}
    BY <1>1 DEF MainRtd
  <2>2. faults \in Nat /\ MaxFaults \in Nat
    BY RemoteCommandsAssumption DEF TypeOK
  <2>3. Cardinality(f) \in Nat /\ faults + Cardinality(f) <= MaxFaults
    BY <2>2, FailingType
  <2>4. faults' \in 0 .. MaxFaults
    BY <1>1, <2>2, <2>3
  <2> QED
    BY <1>2, <2>1, <2>4 DEF TypeOK, RtdType
<1>7. LogType'
  BY <1>2, RestartNotes DEF TypeOK, LogType
<1>8. PlaceType'
  BY <1>1, <1>2 DEF TypeOK, PlaceType, UDPConnect
<1>9. TaskType'
  <2>1. Nothing \in Task
    BY RemoteCommandsAssumption DEF Nothing, Task
  <2> QED
    BY <1>2, <2>1 DEF TaskType
<1> QED
  BY <1>3, <1>4, <1>5, <1>6, <1>7, <1>8, <1>9, TypeParts

\* Every variable keeps its type where M2MManager and SetupManager work on
\* commands that were sent.
LEMMA StepTypes ==
    ASSUME TypeOK, TasksSent, PartsSent, ~garbled => at <= Len(buf), [Next]_vars
    PROVE  TypeOK'
<1>1. CASE UNCHANGED vars
  BY <1>1, SameTypes, TypeParts DEF vars
<1>2. CASE Next
  BY <1>2, ClientTypes, ParseTypes, PackTypes, ReaderTypes, RestartTypes DEF Next, Work
<1> QED
  BY <1>1, <1>2

-----------------------------------------------------------------------------
(* The invariant of the stream, of the datagrams, and of what was taken.   *)

Taken == {handled[k] : k \in DOMAIN handled}

\* A command of which the beginning is not on the line was cut.
StreamInv ==
    /\ Chain(Stream)
    /\ \A i \in DOMAIN Stream :
          Stream[i][1] \in DOMAIN asked /\ asked[Stream[i][1]].front = "m2m"
    /\ line # <<>> /\ line[1][2] # 1 => line[1][1] \in cut

PlaceInv ==
    /\ pc # "parse" => at = 0 /\ ~garbled
    /\ ~garbled => at <= Len(buf)

\* What the parser has not passed, and the datagrams, were sent after all that
\* was taken.
HandledInv ==
    /\ \A k \in DOMAIN handled : handled[k] \in DOMAIN asked
    /\ \A i \in DOMAIN Stream, k \in DOMAIN handled :
          i > at /\ Stream[i][2] = 1 /\ asked[handled[k]].front = "m2m"
             => handled[k] < Stream[i][1]

DatagramInv ==
    /\ \A i \in DOMAIN datagrams :
          datagrams[i] \in DOMAIN asked /\ asked[datagrams[i]].front = "setup"
    /\ \A i, j \in DOMAIN datagrams : i < j => datagrams[i] < datagrams[j]
    /\ \A i \in DOMAIN datagrams, k \in DOMAIN handled :
          asked[handled[k]].front = "setup" => handled[k] < datagrams[i]

\* Until M2MManager ends, a command that was not cut is on the line, taken, or
\* about to be.
TakenInv ==
    boots = 0 /\ pc # "dead" =>
        \A i \in DOMAIN asked :
            asked[i].front = "m2m" =>
                \/ i \in Ids(line) \union cut \union Taken
                \/ pc = "parse" /\ \E j \in Whole : buf[j][1] = i

OrderInv == /\ StreamInv /\ PlaceInv /\ HandledInv /\ DatagramInv /\ TakenInv
            /\ HandledOnceInOrder

LEMMA StreamType ==
    ASSUME TypeOK
    PROVE  /\ buf \in Seq(Part) /\ line \in Seq(Part) /\ at \in Nat
           /\ Stream \in Seq(Part) /\ Len(Stream) = Len(buf) + Len(line)
           /\ Len(buf) \in Nat /\ Len(line) \in Nat
           /\ DOMAIN Stream = 1 .. Len(buf) + Len(line) /\ DOMAIN buf = 1 .. Len(buf)
           /\ DOMAIN line = 1 .. Len(line)
           /\ \A i \in DOMAIN Stream : i \in Int /\ Stream[i] \in Part
           /\ \A i \in DOMAIN buf : i \in DOMAIN Stream /\ Stream[i] = buf[i]
           /\ \A i \in DOMAIN line : Len(buf) + i \in DOMAIN Stream /\ Stream[Len(buf) + i] = line[i]
           /\ \A i \in DOMAIN Stream :
                i \in DOMAIN buf \/ (i - Len(buf) \in DOMAIN line
                                     /\ Stream[i] = line[i - Len(buf)])
<1>1. buf \in Seq(Part) /\ line \in Seq(Part) /\ at \in Nat
  BY DEF TypeOK
<1>2. Stream \in Seq(Part)
  BY <1>1, Joining DEF Stream
<1>3. \A i \in DOMAIN Stream : i \in Int /\ Stream[i] \in Part
  BY <1>2
<1> QED
  BY <1>1, <1>2, <1>3, Joining DEF Stream

LEMMA OrderParts ==
    ASSUME TypeOK, OrderInv
    PROVE  PartsSent /\ (~garbled => at <= Len(buf))
  BY StreamType DEF OrderInv, StreamInv, PlaceInv, DatagramInv, PartsSent

\* Steps of others.
LEMMA OtherOrder ==
    ASSUME OrderInv,
           /\ asked' = asked /\ line' = line /\ datagrams' = datagrams /\ pc' = pc /\ buf' = buf
           /\ at' = at /\ garbled' = garbled /\ cut' = cut /\ handled' = handled /\ boots' = boots
    PROVE  OrderInv'
<1>1. Stream' = Stream
  BY DEF Stream
<1>2. StreamInv' /\ PlaceInv' /\ HandledInv' /\ DatagramInv'
  BY <1>1 DEF OrderInv, StreamInv, PlaceInv, HandledInv, DatagramInv
<1>3. Whole' = Whole /\ Ids(line)' = Ids(line) /\ Taken' = Taken
  BY DEF Whole, Headers, Ids, Taken
<1>4. TakenInv' /\ HandledOnceInOrder'
  BY <1>3 DEF OrderInv, TakenInv, HandledOnceInOrder
<1> QED
  BY <1>2, <1>4 DEF OrderInv

\* A command that was sent after all others of the same client is taken.
LEMMA OneHandled ==
    ASSUME TypeOK, OrderInv, NEW id \in DOMAIN asked, handled' = Append(handled, id), asked' = asked,
           \A k \in DOMAIN handled : asked[handled[k]].front = asked[id].front => handled[k] < id
    PROVE  /\ HandledOnceInOrder' /\ Taken' = Taken \union {id}
           /\ \A k \in DOMAIN handled' : handled'[k] = id \/ (k \in DOMAIN handled
                                                             /\ handled'[k] = handled[k])
<1>1. handled \in Seq(1 .. MaxCommands)
  BY DEF TypeOK
<1>2. id \in 1 .. MaxCommands
  BY AskedType
<1>3. /\ Len(handled) \in Nat /\ DOMAIN handled = 1 .. Len(handled)
      /\ DOMAIN handled' = 1 .. Len(handled) + 1
      /\ \A k \in DOMAIN handled : k \in DOMAIN handled' /\ handled'[k] = handled[k]
      /\ Len(handled) + 1 \in DOMAIN handled' /\ handled'[Len(handled) + 1] = id
      /\ \A k \in DOMAIN handled' : k \in DOMAIN handled \/ k = Len(handled) + 1
  BY <1>1, <1>2, OneMore
<1>4. Taken' = Taken \union {id}
  BY <1>3 DEF Taken
<1>5. \A k \in DOMAIN handled : handled[k] # id
  <2>1. \A k \in DOMAIN handled : handled[k] \in 1 .. MaxCommands
    BY <1>1, OneOf
  <2> QED
    BY <1>2, <2>1
<1>6. \A k \in DOMAIN handled : k < Len(handled) + 1 /\ ~(Len(handled) + 1 < k)
  BY <1>3
<1>7. ASSUME NEW k \in DOMAIN handled', NEW l \in DOMAIN handled'
      PROVE  /\ handled'[k] = handled'[l] => k = l
             /\ k < l /\ asked[handled'[k]].front = asked[handled'[l]].front
                   => handled'[k] < handled'[l]
  <2>1. CASE k \in DOMAIN handled /\ l \in DOMAIN handled
    BY <1>3, <2>1 DEF OrderInv, HandledOnceInOrder
  <2>2. CASE k \in DOMAIN handled /\ l = Len(handled) + 1
    BY <1>3, <1>5, <2>2
  <2>3. CASE k = Len(handled) + 1 /\ l \in DOMAIN handled
    BY <1>3, <1>5, <1>6, <2>3
  <2>4. CASE k = Len(handled) + 1 /\ l = Len(handled) + 1
    BY <1>3, <2>4
  <2> QED
    BY <1>3, <2>1, <2>2, <2>3, <2>4
<1>8. HandledOnceInOrder'
  BY <1>7 DEF HandledOnceInOrder
<1> QED
  BY <1>3, <1>4, <1>8

\* The command at the place j of the buffer is taken.
LEMMA TakeOrder ==
    ASSUME TypeOK, OrderInv, NEW j \in Headers, handled' = Append(handled, buf[j][1]), at' = j + 2,
           /\ asked' = asked /\ line' = line /\ datagrams' = datagrams /\ buf' = buf
           /\ cut' = cut
    PROVE  /\ StreamInv' /\ HandledInv' /\ DatagramInv' /\ HandledOnceInOrder'
           /\ Taken' = Taken \union {buf[j][1]}
           /\ \A k \in DOMAIN buf : k > j /\ buf[k][2] = 1 => k > j + 2
<1> DEFINE id == buf[j][1]
<1>1. j \in DOMAIN buf /\ j > at /\ buf[j][2] = 1 /\ j \in Int
  BY HeadersAre
<1>2. j \in DOMAIN Stream /\ Stream[j] = buf[j] /\ Stream \in Seq(Part)
  BY <1>1, StreamType
<1>3. Stream' = Stream
  BY DEF Stream
<1>4. id \in DOMAIN asked /\ asked[id].front = "m2m"
  BY <1>2 DEF OrderInv, StreamInv
<1>5. \A k \in DOMAIN handled : asked[handled[k]].front = asked[id].front => handled[k] < id
  BY <1>1, <1>2, <1>4 DEF OrderInv, HandledInv
<1> HIDE DEF id
<1>6. /\ HandledOnceInOrder' /\ Taken' = Taken \union {id}
      /\ \A k \in DOMAIN handled' : handled'[k] = id \/ (k \in DOMAIN handled
                                                        /\ handled'[k] = handled[k])
  BY <1>4, <1>5, OneHandled DEF id
<1>7. StreamInv'
  BY <1>3 DEF OrderInv, StreamInv
<1>8. DatagramInv'
  BY <1>4, <1>6 DEF OrderInv, DatagramInv
<1>9. HandledInv'
  <2>1. \A k \in DOMAIN handled' : handled'[k] \in DOMAIN asked
    BY <1>4, <1>6 DEF OrderInv, HandledInv
  <2>2. ASSUME NEW i \in DOMAIN Stream, NEW k \in DOMAIN handled', i > at', Stream[i][2] = 1,
               asked[handled'[k]].front = "m2m"
        PROVE  handled'[k] < Stream[i][1]
    <3>1. i \in Int /\ at \in Nat /\ i > j /\ i > at
      BY <1>1, <2>2, StreamType
    <3>2. Before(Stream[j], Stream[i])
      BY <1>2, <3>1 DEF OrderInv, StreamInv, Chain
    <3>3. Stream[j][1] < Stream[i][1]
      BY <1>1, <1>2, <2>2, <3>2 DEF Before
    <3>4. CASE handled'[k] = id
      BY <1>2, <3>3, <3>4 DEF id
    <3>5. CASE k \in DOMAIN handled /\ handled'[k] = handled[k]
      BY <2>2, <3>1, <3>5 DEF OrderInv, HandledInv
    <3> QED
      BY <1>6, <3>4, <3>5
  <2> QED
    BY <1>3, <2>1, <2>2 DEF HandledInv
<1>10. ASSUME NEW k \in DOMAIN buf, k > j, buf[k][2] = 1 PROVE k > j + 2
  <2>1. k \in DOMAIN Stream /\ Stream[k] = buf[k] /\ k \in Int
    BY <1>10, StreamType
  <2>2. /\ j + 1 \in DOMAIN Stream /\ Stream[j + 1] = <<Stream[j][1], 2>>
        /\ j + 2 \in DOMAIN Stream /\ Stream[j + 2] = <<Stream[j][1], 3>>
    BY <1>1, <1>2, WholeBehind DEF OrderInv, StreamInv
  <2>3. k # j + 1 /\ k # j + 2
    BY <1>10, <2>1, <2>2
  <2> QED
    BY <1>1, <1>10, <2>1, <2>3
<1> QED
  BY <1>6, <1>7, <1>8, <1>9, <1>10 DEF id

\* The parser gives up the first d parts of the buffer, none of them behind at.
LEMMA DropOrder ==
    ASSUME TypeOK, OrderInv, NEW d \in 0 .. Len(buf), d >= at, at' = 0,
           buf' \in Seq(Part), Len(buf') = Len(buf) - d,
           \A i \in DOMAIN buf' : i + d \in DOMAIN buf /\ buf'[i] = buf[i + d],
           /\ asked' = asked /\ line' = line /\ cut' = cut /\ handled' = handled
    PROVE  StreamInv' /\ HandledInv'
<1>1. /\ Stream \in Seq(Part) /\ line \in Seq(Part) /\ Len(buf) \in Nat /\ Len(line) \in Nat
      /\ Len(Stream) = Len(buf) + Len(line) /\ d \in Int /\ at \in Nat
      /\ DOMAIN buf = 1 .. Len(buf) /\ DOMAIN line = 1 .. Len(line)
  BY StreamType
<1> DEFINE s == buf' \o line
<1>2. buf' \in Seq(Part)
  OBVIOUS
<1>3. /\ s \in Seq(Part) /\ Len(s) = Len(buf') + Len(line)
      /\ DOMAIN s = 1 .. Len(buf') + Len(line)
      /\ \A i \in DOMAIN s : i \in DOMAIN buf' \/ (i - Len(buf') \in DOMAIN line
                                                   /\ s[i] = line[i - Len(buf')])
      /\ \A i \in DOMAIN buf' : s[i] = buf'[i]
  BY <1>1, <1>2, Joining
<1>4. Stream' = s
  BY DEF Stream
<1> HIDE DEF s
<1>5. \A i \in DOMAIN s : i \in Int /\ i > 0 /\ i + d \in DOMAIN Stream /\ s[i] = Stream[i + d]
  <2> SUFFICES ASSUME NEW i \in DOMAIN s
               PROVE  i \in Int /\ i > 0 /\ i + d \in DOMAIN Stream /\ s[i] = Stream[i + d]
    OBVIOUS
  <2>1. i \in Int /\ i > 0
    BY <1>3
  <2>2. CASE i \in DOMAIN buf'
    <3>1. i + d \in DOMAIN buf /\ s[i] = buf[i + d]
      BY <1>3, <2>2
    <3> QED
      BY <2>1, <3>1, StreamType
  <2>3. CASE i - Len(buf') \in DOMAIN line /\ s[i] = line[i - Len(buf')]
    <3>1. Len(buf) + (i - Len(buf')) = i + d
      BY <1>1, <2>1
    <3>2. /\ Len(buf) + (i - Len(buf')) \in DOMAIN Stream
          /\ Stream[Len(buf) + (i - Len(buf'))] = line[i - Len(buf')]
      BY <2>3, StreamType
    <3> QED
      BY <2>1, <2>3, <3>1, <3>2
  <2> QED
    BY <1>3, <2>2, <2>3
<1>6. Len(s) = Len(Stream) - d /\ d \in 0 .. Len(Stream)
  BY <1>1, <1>3
<1>7. Chain(s)
  BY <1>1, <1>3, <1>5, <1>6, ChainBehind DEF OrderInv, StreamInv
<1>8. StreamInv'
  BY <1>4, <1>5, <1>7 DEF OrderInv, StreamInv
<1>9. HandledInv'
  <2>1. ASSUME NEW i \in DOMAIN s, NEW k \in DOMAIN handled, s[i][2] = 1,
               asked[handled[k]].front = "m2m"
        PROVE  handled[k] < s[i][1]
    <3>1. i + d > at /\ i + d \in DOMAIN Stream /\ s[i] = Stream[i + d]
      BY <1>1, <1>5
    <3> QED
      BY <2>1, <3>1 DEF OrderInv, HandledInv
  <2> QED
    BY <1>4, <2>1 DEF OrderInv, HandledInv
<1> QED
  BY <1>8, <1>9

\* M2MManager ends, or the gateway: nothing is on its way.
LEMMA EndOrder ==
    ASSUME TypeOK, OrderInv, pc' = "dead" \/ boots' # 0, pc' # "parse",
           /\ line' = <<>> /\ buf' = <<>> /\ at' = 0 /\ garbled' = FALSE
           /\ asked' = asked /\ handled' = handled
           /\ datagrams' = datagrams \/ datagrams' = <<>>
    PROVE  OrderInv'
<1>1. Stream' = <<>>
  BY DEF Stream
<1>2. StreamInv'
  BY <1>1 DEF StreamInv, Chain
<1>3. PlaceInv'
  BY DEF PlaceInv
<1>4. HandledInv'
  BY <1>1 DEF OrderInv, HandledInv
<1>5. DatagramInv'
  BY DEF OrderInv, DatagramInv
<1>6. TakenInv'
  BY DEF TakenInv
<1>7. HandledOnceInOrder'
  BY DEF OrderInv, HandledOnceInOrder
<1> QED
  BY <1>2, <1>3, <1>4, <1>5, <1>6, <1>7 DEF OrderInv

\* One more command was sent.
LEMMA MoreAsked ==
    ASSUME TypeOK, NEW entry \in [front : Front, ask : Command], asked' = Append(asked, entry)
    PROVE  /\ Len(asked) \in Nat /\ DOMAIN asked = 1 .. Len(asked)
           /\ \A i \in DOMAIN asked : i \in DOMAIN asked' /\ asked'[i] = asked[i]
           /\ Len(asked) + 1 \in DOMAIN asked' /\ asked'[Len(asked) + 1] = entry
           /\ \A i \in DOMAIN asked' : i \in DOMAIN asked \/ i = Len(asked) + 1
<1> DEFINE Entry == [front : Front, ask : Command]
<1>1. asked \in Seq(Entry) /\ entry \in Entry
  BY DEF TypeOK
<1> HIDE DEF Entry
<1> QED
  BY <1>1, OneMore

LEMMA SendOrder ==
    ASSUME TypeOK, OrderInv, NEW ask \in Ask["m2m"], ClientSends(ask)
    PROVE  OrderInv'
<1> DEFINE three == [p \in 1 .. 3 |-> <<Len(asked) + 1, p>>]
           entry == [front |-> "m2m", ask |-> ask]
           s     == Stream \o three
<1>1. /\ asked' = Append(asked, entry) /\ line' = line \o three /\ Len(asked) < MaxCommands
      /\ datagrams' = datagrams /\ pc' = pc /\ buf' = buf /\ at' = at /\ garbled' = garbled
      /\ cut' = cut /\ handled' = handled /\ boots' = boots
  BY DEF ClientSends, MayAsk, parseVars, logVars
<1>2. entry \in [front : Front, ask : Command] /\ entry.front = "m2m"
  BY AskType DEF Front
<1> HIDE DEF entry
<1>3. /\ Len(asked) \in Nat /\ DOMAIN asked = 1 .. Len(asked)
      /\ \A i \in DOMAIN asked : i \in DOMAIN asked' /\ asked'[i] = asked[i]
      /\ Len(asked) + 1 \in DOMAIN asked' /\ asked'[Len(asked) + 1] = entry
      /\ \A i \in DOMAIN asked' : i \in DOMAIN asked \/ i = Len(asked) + 1
  BY <1>1, <1>2, MoreAsked
<1>4. /\ Stream \in Seq(Part) /\ line \in Seq(Part) /\ buf \in Seq(Part)
  BY StreamType
<1>5. \A i \in DOMAIN Stream : Stream[i][1] \in DOMAIN asked /\ asked[Stream[i][1]].front = "m2m"
                               /\ Stream[i][1] <= Len(asked)
  BY <1>3 DEF OrderInv, StreamInv
<1>6. /\ Chain(s) /\ three \in Seq(Part)
      /\ \A i \in DOMAIN s : (i \in DOMAIN Stream /\ s[i] = Stream[i])
                             \/ s[i][1] = Len(asked) + 1
  BY <1>1, <1>3, <1>4, <1>5, ChainMore DEF OrderInv, StreamInv
<1>7. three[1] = <<Len(asked) + 1, 1>> /\ 1 \in DOMAIN three
  OBVIOUS
<1> HIDE DEF three
<1>8. Stream' = s
  <2>1. three \in Seq(Part)
    BY <1>6
  <2> DEFINE b == buf
             l == line
  <2>2. b \in Seq(Part)
    BY <1>4
  <2>3. l \in Seq(Part)
    BY <1>4
  <2> HIDE DEF b, l
  <2>4. (b \o l) \o three = b \o (l \o three)
    BY <2>1, <2>2, <2>3, ConcatAssociative, SMTT(30)
  <2> QED
    BY <1>1, <2>4 DEF b, l, Stream
<1> HIDE DEF s
<1>9. /\ line' \in Seq(Part) /\ Len(line) \in Nat /\ DOMAIN line = 1 .. Len(line)
      /\ \A i \in DOMAIN line : i \in DOMAIN line' /\ line'[i] = line[i]
      /\ Len(line) + 1 \in DOMAIN line' /\ line'[Len(line) + 1] = <<Len(asked) + 1, 1>>
  <2>1. /\ line' \in Seq(Part) /\ Len(line) \in Nat /\ DOMAIN line = 1 .. Len(line)
        /\ \A i \in DOMAIN line : i \in DOMAIN line' /\ line'[i] = line[i]
        /\ \A i \in DOMAIN three : Len(line) + i \in DOMAIN line' /\ line'[Len(line) + i] = three[i]
    <3>1. line' = line \o three
      BY <1>1
    <3> QED
      BY <1>4, <1>6, <3>1, Joining, SMTT(30)
  <2> QED
    BY <1>7, <2>1
<1>10. StreamInv'
  <2>1. \A i \in DOMAIN s : s[i][1] \in DOMAIN asked' /\ asked'[s[i][1]].front = "m2m"
    BY <1>2, <1>3, <1>5, <1>6
  <2>2. line'[1][2] # 1 => line'[1][1] \in cut
    <3>1. CASE line = <<>>
      BY <1>9, <3>1
    <3>2. CASE line # <<>>
      <4>1. 1 \in DOMAIN line
        BY <1>9, <3>2
      <4> QED
        BY <1>9, <3>2, <4>1 DEF OrderInv, StreamInv
    <3> QED
      BY <3>1, <3>2
  <2> QED
    BY <1>1, <1>6, <1>8, <2>1, <2>2 DEF StreamInv
<1>11. PlaceInv'
  BY <1>1 DEF OrderInv, PlaceInv
<1>12. \A k \in DOMAIN handled : handled[k] \in DOMAIN asked /\ handled[k] < Len(asked) + 1
                                /\ asked'[handled[k]] = asked[handled[k]]
  <2>1. \A k \in DOMAIN handled : handled[k] \in DOMAIN asked
    BY DEF OrderInv, HandledInv
  <2> QED
    BY <1>3, <2>1
<1>13. HandledInv'
  <2>1. ASSUME NEW i \in DOMAIN s, NEW k \in DOMAIN handled, i > at, s[i][2] = 1,
               asked[handled[k]].front = "m2m"
        PROVE  handled[k] < s[i][1]
    BY <1>6, <1>12, <2>1 DEF OrderInv, HandledInv
  <2> QED
    BY <1>1, <1>3, <1>8, <1>12, <2>1 DEF HandledInv
<1>14. DatagramInv'
  <2>1. \A i \in DOMAIN datagrams : /\ datagrams[i] \in DOMAIN asked' /\ asked'[datagrams[i]].front = "setup"
    BY <1>3 DEF OrderInv, DatagramInv
  <2> QED
    BY <1>1, <1>12, <2>1 DEF OrderInv, DatagramInv
<1>15. TakenInv'
  <2>1. Ids(line) \subseteq Ids(line') /\ Len(asked) + 1 \in Ids(line')
    BY <1>9 DEF Ids
  <2>2. Whole' = Whole /\ Taken' = Taken
    BY <1>1 DEF Whole, Headers, Taken
  <2> QED
    BY <1>1, <1>3, <2>1, <2>2 DEF OrderInv, TakenInv
<1>16. HandledOnceInOrder'
  BY <1>1, <1>12 DEF OrderInv, HandledOnceInOrder
<1> QED
  BY <1>10, <1>11, <1>13, <1>14, <1>15, <1>16 DEF OrderInv

LEMMA DatagramOrder ==
    ASSUME TypeOK, OrderInv, NEW ask \in Ask["setup"], SendDatagram(ask)
    PROVE  OrderInv'
<1> DEFINE entry == [front |-> "setup", ask |-> ask]
           new   == Len(asked) + 1
<1>1. /\ asked' = Append(asked, entry) /\ datagrams' = Append(datagrams, new)
      /\ line' = line /\ pc' = pc /\ buf' = buf /\ at' = at /\ garbled' = garbled
      /\ cut' = cut /\ handled' = handled /\ boots' = boots /\ Len(asked) < MaxCommands
  BY DEF SendDatagram, MayAsk, parseVars, logVars
<1>2. entry \in [front : Front, ask : Command] /\ entry.front = "setup"
  BY AskType DEF Front
<1> HIDE DEF entry
<1>3. /\ Len(asked) \in Nat /\ DOMAIN asked = 1 .. Len(asked)
      /\ \A i \in DOMAIN asked : i \in DOMAIN asked' /\ asked'[i] = asked[i]
      /\ new \in DOMAIN asked' /\ asked'[new] = entry
      /\ \A i \in DOMAIN asked' : i \in DOMAIN asked \/ i = new
  BY <1>1, <1>2, MoreAsked
<1>4. datagrams \in Seq(1 .. MaxCommands) /\ new \in 1 .. MaxCommands
  <2>1. MaxCommands \in Nat
    BY RemoteCommandsAssumption
  <2> QED
    BY <1>1, <1>3, <2>1 DEF TypeOK
<1>5. \A k \in DOMAIN asked : k < new
  BY <1>3
<1> HIDE DEF new
<1>6. /\ Len(datagrams) \in Nat /\ DOMAIN datagrams = 1 .. Len(datagrams)
      /\ DOMAIN datagrams' = 1 .. Len(datagrams) + 1
      /\ \A i \in DOMAIN datagrams : datagrams'[i] = datagrams[i]
      /\ datagrams'[Len(datagrams) + 1] = new
      /\ \A i \in DOMAIN datagrams' : i \in DOMAIN datagrams \/ i = Len(datagrams) + 1
  BY <1>1, <1>4, OneMore
<1>7. \A k \in DOMAIN handled : handled[k] \in DOMAIN asked /\ handled[k] < new
                                /\ asked'[handled[k]] = asked[handled[k]]
  <2>1. \A k \in DOMAIN handled : handled[k] \in DOMAIN asked
    BY DEF OrderInv, HandledInv
  <2> QED
    BY <1>3, <1>5, <2>1
<1>8. Stream' = Stream
  BY <1>1 DEF Stream
<1>9. StreamInv' /\ PlaceInv' /\ HandledInv'
  <2>1. StreamInv' /\ PlaceInv'
    BY <1>1, <1>3, <1>8 DEF OrderInv, StreamInv, PlaceInv
  <2>2. HandledInv'
    BY <1>1, <1>3, <1>7, <1>8 DEF OrderInv, HandledInv
  <2> QED
    BY <2>1, <2>2
<1>10. DatagramInv'
  <2>1. \A i \in DOMAIN datagrams : /\ datagrams[i] \in DOMAIN asked /\ datagrams[i] < new
                                    /\ asked[datagrams[i]].front = "setup"
    <3>1. \A i \in DOMAIN datagrams : /\ datagrams[i] \in DOMAIN asked
                                      /\ asked[datagrams[i]].front = "setup"
      BY DEF OrderInv, DatagramInv
    <3> QED
      BY <1>5, <3>1
  <2>2. \A i \in DOMAIN datagrams' : /\ datagrams'[i] \in DOMAIN asked'
                                     /\ asked'[datagrams'[i]].front = "setup"
    BY <1>2, <1>3, <1>6, <2>1
  <2>3. ASSUME NEW i \in DOMAIN datagrams', NEW j \in DOMAIN datagrams', i < j
        PROVE  datagrams'[i] < datagrams'[j]
    <3>1. CASE j \in DOMAIN datagrams
      <4>1. i \in DOMAIN datagrams
        BY <1>6, <2>3, <3>1
      <4> QED
        BY <1>6, <2>3, <3>1, <4>1 DEF OrderInv, DatagramInv
    <3>2. CASE j = Len(datagrams) + 1
      <4>1. i \in DOMAIN datagrams
        BY <1>6, <2>3, <3>2
      <4> QED
        BY <1>6, <2>1, <3>2, <4>1
    <3> QED
      BY <1>6, <3>1, <3>2
  <2>4. ASSUME NEW i \in DOMAIN datagrams', NEW k \in DOMAIN handled,
               asked[handled[k]].front = "setup"
        PROVE  handled[k] < datagrams'[i]
    BY <1>6, <1>7, <2>4 DEF OrderInv, DatagramInv
  <2> QED
    BY <1>1, <1>7, <2>2, <2>3, <2>4 DEF DatagramInv
<1>11. TakenInv'
  <2>1. Whole' = Whole /\ Taken' = Taken /\ Ids(line') = Ids(line)
    BY <1>1 DEF Whole, Headers, Taken, Ids
  <2>2. \A i \in DOMAIN asked' : asked'[i].front = "m2m" => i \in DOMAIN asked
    BY <1>2, <1>3
  <2> QED
    BY <1>1, <1>3, <2>1, <2>2 DEF OrderInv, TakenInv
<1>12. HandledOnceInOrder'
  BY <1>1, <1>7 DEF OrderInv, HandledOnceInOrder
<1> QED
  BY <1>9, <1>10, <1>11, <1>12 DEF OrderInv

\* The beginning of a command that was not cut is on the line with its end.
LEMMA Beginning ==
    ASSUME TypeOK, StreamInv, NEW k \in DOMAIN line, line[k][1] \notin cut
    PROVE  \E q \in DOMAIN line : line[q] = <<line[k][1], 1>>
<1>1. /\ Stream \in Seq(Part) /\ Len(buf) \in Nat /\ DOMAIN line = 1 .. Len(line)
      /\ \A i \in DOMAIN line : Len(buf) + i \in DOMAIN Stream /\ Stream[Len(buf) + i] = line[i]
      /\ line \in Seq(Part)
  BY StreamType
<1>2. \A i \in DOMAIN line : line[i][2] \in 1 .. 3 /\ line[i] = <<line[i][1], line[i][2]>>
  <2>1. \A i \in DOMAIN line : line[i] \in Part
    BY <1>1
  <2> QED
    BY <2>1, PartType, Zenon
<1>3. \A i \in DOMAIN line : line[i][2] # 1 /\ line[i][1] \notin cut => i # 1
  BY DEF StreamInv
<1>4. ASSUME NEW i \in DOMAIN line, line[i][2] # 1, line[i][1] \notin cut
      PROVE  i - 1 \in DOMAIN line /\ line[i - 1] = <<line[i][1], line[i][2] - 1>>
  <2>1. i - 1 \in DOMAIN line /\ i \in Int
    BY <1>1, <1>3, <1>4
  <2>2. (Len(buf) + (i - 1)) + 1 = Len(buf) + i
    BY <1>1, <2>1
  <2>3. Goes(line[i - 1], line[i])
    BY <1>1, <2>1, <2>2 DEF StreamInv, Chain
  <2>4. line[i] = <<line[i - 1][1], line[i - 1][2] + 1>>
    BY <1>4, <2>3 DEF Goes
  <2>5. line[i][1] = line[i - 1][1] /\ line[i][2] = line[i - 1][2] + 1
    BY <2>4
  <2>6. line[i - 1][2] = line[i][2] - 1
    BY <1>2, <2>1, <2>5
  <2> QED
    BY <1>2, <2>1, <2>5, <2>6
<1>5. CASE line[k][2] = 1
  BY <1>2, <1>5
<1>6. CASE line[k][2] = 2
  <2>1. k - 1 \in DOMAIN line /\ line[k - 1] = <<line[k][1], 2 - 1>>
    BY <1>4, <1>6
  <2> QED
    BY <2>1
<1>7. CASE line[k][2] = 3
  <2>1. k - 1 \in DOMAIN line /\ line[k - 1] = <<line[k][1], 3 - 1>>
    BY <1>4, <1>7
  <2>2. line[k - 1][1] = line[k][1] /\ line[k - 1][2] = 2
    BY <2>1
  <2>3. (k - 1) - 1 \in DOMAIN line /\ line[(k - 1) - 1] = <<line[k][1], 2 - 1>>
    BY <1>4, <2>1, <2>2
  <2> QED
    BY <2>3
<1> QED
  BY <1>2, <1>5, <1>6, <1>7

\* A read leaves a command on the line, cuts it, or brings all of it.
LEMMA ReadOrder ==
    ASSUME TypeOK, OrderInv, Receive
    PROVE  OrderInv'
<1>1. PICK n \in 1 .. Len(line) :
          /\ cut' = IF line[n][2] = 3 THEN cut ELSE cut \union {line[n][1]}
          /\ line' \in Seq(Part) /\ Len(line') = Len(line) - n
          /\ \A i \in 1 .. Len(line) - n : line'[i] = line[n + i] /\ n + i \in DOMAIN line
          /\ buf' \in Seq(Part) /\ Len(buf') = Len(buf) + n
          /\ buf' \o line' = buf \o line
  BY Received
<1>2. /\ pc = "recv" /\ pc' = "parse" /\ at' = 0 /\ garbled' = garbled
      /\ asked' = asked /\ datagrams' = datagrams /\ handled' = handled /\ boots' = boots
  BY DEF Receive, logVars
<1>3. at = 0 /\ garbled = FALSE
  BY <1>2 DEF OrderInv, PlaceInv, TypeOK
<1>4. Stream' = Stream
  BY <1>1 DEF Stream
<1>5. /\ Stream \in Seq(Part) /\ Len(buf) \in Nat /\ Len(line) \in Nat
      /\ DOMAIN line = 1 .. Len(line) /\ DOMAIN buf = 1 .. Len(buf)
      /\ \A i \in DOMAIN line : Len(buf) + i \in DOMAIN Stream /\ Stream[Len(buf) + i] = line[i]
      /\ DOMAIN Stream = 1 .. Len(buf) + Len(line) /\ line \in Seq(Part)
  BY StreamType
<1>6. /\ n \in Int /\ n > 0 /\ n <= Len(line) /\ DOMAIN line' = 1 .. Len(line) - n
      /\ DOMAIN buf' = 1 .. Len(buf) + n
  BY <1>1, <1>5
<1>7. \A i \in DOMAIN buf' : i \in DOMAIN Stream /\ buf'[i] = Stream[i]
  <2>1. \A i \in DOMAIN buf' : (buf' \o line')[i] = buf'[i]
    BY <1>1, Joining
  <2>2. buf' \o line' = Stream
    BY <1>1 DEF Stream
  <2>3. \A i \in DOMAIN buf' : i \in DOMAIN Stream
    <3>1. DOMAIN buf' = 1 .. Len(buf) + n
      BY <1>6
    <3> QED
      BY <1>5, <1>6, <3>1
  <2> QED
    BY <2>1, <2>2, <2>3
<1>8. StreamInv'
  <2>1. ASSUME line' # <<>>, line'[1][2] # 1 PROVE line'[1][1] \in cut'
    <3>1. 1 \in 1 .. Len(line) - n
      BY <1>1, <1>6, <2>1
    <3>2. line'[1] = line[n + 1] /\ n + 1 \in DOMAIN line /\ n \in DOMAIN line
      BY <1>1, <1>5, <1>6, <3>1
    <3>3. (Len(buf) + n) + 1 = Len(buf) + (n + 1)
      BY <1>5, <1>6
    <3>4. Goes(line[n], line[n + 1])
      BY <1>5, <3>2, <3>3 DEF OrderInv, StreamInv, Chain
    <3>5. line[n][2] # 3 /\ line[n + 1] = <<line[n][1], line[n][2] + 1>>
      BY <2>1, <3>2, <3>4 DEF Goes
    <3>6. line'[1][1] = line[n][1]
      BY <3>2, <3>5
    <3> QED
      BY <1>1, <3>5, <3>6
  <2> QED
    BY <1>2, <1>4, <2>1 DEF OrderInv, StreamInv
<1>9. PlaceInv'
  BY <1>1, <1>2, <1>5, <1>6 DEF PlaceInv
<1>10. HandledInv'
  BY <1>2, <1>3, <1>4 DEF OrderInv, HandledInv
<1>11. DatagramInv' /\ HandledOnceInOrder'
  BY <1>2 DEF OrderInv, DatagramInv, HandledOnceInOrder
<1>12. TakenInv'
  <2> SUFFICES ASSUME boots = 0, NEW i \in DOMAIN asked, asked[i].front = "m2m",
                      i \notin Ids(line') \union cut' \union Taken
               PROVE  \E j \in Whole' : buf'[j][1] = i
    <3>1. Taken' = Taken
      BY <1>2 DEF Taken
    <3> QED
      BY <1>2, <3>1 DEF TakenInv
  <2>1. i \notin cut
    BY <1>1
  <2>2. i \in Ids(line)
    BY <1>2, <2>1 DEF OrderInv, TakenInv
  <2>3. PICK k \in DOMAIN line : line[k][1] = i
    BY <2>2 DEF Ids
  <2>4. PICK q \in DOMAIN line : line[q] = <<i, 1>>
    BY <2>1, <2>3, Beginning DEF OrderInv
  <2> DEFINE j == Len(buf) + q
  <2>5. j \in DOMAIN Stream /\ Stream[j] = <<i, 1>>
    BY <1>5, <2>4
  <2>6. /\ j + 2 \in DOMAIN Stream /\ Stream[j + 2] = <<Stream[j][1], 3>>
    <3>1. Stream[j][2] = 1
      BY <2>5
    <3> HIDE DEF j
    <3> QED
      BY <1>5, <2>5, <3>1, WholeBehind DEF OrderInv, StreamInv
  <2>7. ASSUME NEW p \in DOMAIN line, line[p][1] = i PROVE p <= n
    <3>1. CASE p > n
      <4>1. p - n \in 1 .. Len(line) - n /\ n + (p - n) = p
        <5>1. p \in Int /\ p <= Len(line) /\ Len(line) \in Int
          BY <1>5
        <5> QED
          BY <1>6, <3>1, <5>1
      <4>2. p - n \in DOMAIN line' /\ line'[p - n] = line[p]
        BY <1>1, <1>6, <4>1
      <4> QED
        BY <2>7, <4>2 DEF Ids
    <3> QED
      BY <1>5, <1>6, <3>1
  <2>8. q + 2 \in DOMAIN line /\ line[q + 2] = <<i, 3>>
    <3>1. q \in Int /\ q > 0
      BY <1>5
    <3>5. j + 2 <= Len(buf) + Len(line) /\ Len(buf) \in Int /\ Len(line) \in Int
      BY <1>5, <2>6
    <3>2. q + 2 \in DOMAIN line /\ Len(buf) + (q + 2) = j + 2
      <4>1. q + 2 <= Len(line) /\ Len(buf) + (q + 2) = j + 2
        BY <3>1, <3>5
      <4>2. DOMAIN line = 1 .. Len(line)
        BY <1>5
      <4> QED
        BY <3>1, <3>5, <4>1, <4>2
    <3>3. Stream[j + 2] = line[q + 2]
      BY <1>5, <3>2
    <3>4. Stream[j][1] = i
      BY <2>5
    <3> HIDE DEF j
    <3> QED
      BY <2>6, <3>2, <3>3, <3>4
  <2>9. q + 2 <= n /\ q \in Int /\ q > 0
    <3>1. line[q + 2][1] = i
      BY <2>8
    <3>2. q + 2 <= n
      BY <2>7, <2>8, <3>1
    <3> QED
      BY <1>5, <3>2
  <2>10. j \in 1 .. Len(buf') /\ j + 2 <= Len(buf') /\ j \in 0 + 1 .. Len(buf')
    <3>1. /\ j \in 1 .. Len(buf) + n /\ j + 2 <= Len(buf) + n
          /\ j \in 0 + 1 .. Len(buf) + n
      BY <1>5, <1>6, <2>9, SMTT(30)
    <3>2. Len(buf') = Len(buf) + n
      BY <1>1
    <3> HIDE DEF j
    <3> QED
      BY <3>1, <3>2
  <2>11. buf'[j] = <<i, 1>>
    BY <1>1, <1>6, <1>7, <2>5, <2>10
  <2> HIDE DEF j
  <2>12. j \in Whole'
    BY <1>2, <2>10, <2>11 DEF Whole, Headers
  <2> QED
    BY <2>11, <2>12
<1> QED
  BY <1>8, <1>9, <1>10, <1>11, <1>12 DEF OrderInv

\* The steps of the parser.
LEMMA ParseOrder ==
    ASSUME TypeOK, OrderInv,
           TakeCommand \/ TakeCut \/ ParseEnds \/ ParseCrashes \/ ListenFails
    PROVE  OrderInv'
<1>1. /\ Whole # {} => First(Whole) \in Whole /\ \A j \in Whole : First(Whole) <= j
      /\ \A j \in Whole : j \in Headers /\ j + 2 \in DOMAIN buf
      /\ \A j \in Headers : j \in DOMAIN buf /\ j > at /\ buf[j][2] = 1 /\ j \in Int
      /\ buf \in Seq(Part) /\ DOMAIN buf = 1 .. Len(buf) /\ Len(buf) \in Nat /\ at \in Nat
  BY HeadersAre
<1>2. CASE TakeCommand
  <2> DEFINE j == First(Whole)
  <2>1. /\ Whole # {} /\ pc = "parse" /\ at' = j + 2 /\ handled' = Append(handled, buf[j][1])
        /\ asked' = asked /\ line' = line /\ datagrams' = datagrams /\ buf' = buf /\ cut' = cut
        /\ pc' = pc /\ garbled' = garbled /\ boots' = boots
    BY <1>2 DEF TakeCommand, clientVars
  <2>2. j \in Headers /\ j + 2 \in DOMAIN buf /\ \A k \in Whole : j <= k
    BY <1>1, <2>1
  <2> HIDE DEF j
  <2>3. /\ StreamInv' /\ HandledInv' /\ DatagramInv' /\ HandledOnceInOrder'
        /\ Taken' = Taken \union {buf[j][1]}
        /\ \A k \in DOMAIN buf : k > j /\ buf[k][2] = 1 => k > j + 2
    BY <2>1, <2>2, TakeOrder
  <2>4. PlaceInv'
    BY <1>1, <2>1, <2>2 DEF PlaceInv
  <2>5. TakenInv'
    <3> SUFFICES ASSUME boots = 0, NEW i \in DOMAIN asked, asked[i].front = "m2m",
                        i \notin Ids(line) \union cut \union Taken, i # buf[j][1]
                 PROVE  \E k \in Whole' : buf[k][1] = i
      <4>1. Ids(line)' = Ids(line)
        BY <2>1 DEF Ids
      <4> QED
        BY <2>1, <2>3, <4>1 DEF TakenInv
    <3>1. PICK k \in Whole : buf[k][1] = i
      BY <2>1 DEF OrderInv, TakenInv
    <3>2. k \in DOMAIN buf /\ k \in Int /\ buf[k][2] = 1 /\ k + 2 \in DOMAIN buf /\ k # j /\ j <= k
      BY <1>1, <2>2, <3>1
    <3>3. k > j + 2
      BY <1>1, <2>2, <2>3, <3>2
    <3>4. k \in Whole'
      BY <1>1, <2>1, <2>2, <3>2, <3>3 DEF Whole, Headers
    <3> QED
      BY <3>1, <3>4
  <2> QED
    BY <2>3, <2>4, <2>5 DEF OrderInv
<1>3. CASE TakeCut
  <2>1. PICK j \in Headers : j + 1 = Len(buf) /\ at' = j + 2 /\ handled' = Append(handled, buf[j][1])
    BY <1>3 DEF TakeCut
  <2>2. /\ Whole = {} /\ pc = "parse" /\ pc' = pc /\ garbled' = TRUE /\ boots' = boots
        /\ asked' = asked /\ line' = line /\ datagrams' = datagrams /\ buf' = buf /\ cut' = cut
    BY <1>3 DEF TakeCut, clientVars
  <2>3. /\ StreamInv' /\ HandledInv' /\ DatagramInv' /\ HandledOnceInOrder'
        /\ Taken' = Taken \union {buf[j][1]}
    BY <2>1, <2>2, TakeOrder
  <2>4. PlaceInv'
    BY <2>2 DEF PlaceInv
  <2>5. TakenInv'
    <3>1. Ids(line)' = Ids(line)
      BY <2>2 DEF Ids
    <3> QED
      BY <2>2, <2>3, <3>1 DEF OrderInv, TakenInv
  <2> QED
    BY <2>3, <2>4, <2>5 DEF OrderInv
<1>4. CASE ParseEnds
  <2> DEFINE d    == IF at > 0 THEN at ELSE kept
             rest == SubSeq(buf, d + 1, Len(buf))
  <2>1. /\ buf' = rest /\ at' = 0 /\ pc' = "recv" /\ garbled = FALSE /\ Whole = {}
        /\ garbled' = garbled /\ cut' = cut /\ asked' = asked /\ line' = line
        /\ datagrams' = datagrams /\ handled' = handled /\ boots' = boots
    BY <1>4 DEF ParseEnds, TypeOK, clientVars, logVars
  <2>2. d \in 0 .. Len(buf) /\ d >= at
    <3>1. at <= Len(buf) /\ kept \in 0 .. Len(buf)
      BY <2>1 DEF OrderInv, PlaceInv, TypeOK
    <3> QED
      BY <1>1, <3>1
  <2> HIDE DEF d
  <2>3. /\ rest \in Seq(Part) /\ Len(rest) = Len(buf) - d
        /\ \A i \in DOMAIN rest : i + d \in DOMAIN buf /\ rest[i] = buf[i + d]
    <3>1. d + 1 \in 1 .. Len(buf) + 1 /\ d \in Int
      BY <1>1, <2>2
    <3>2. /\ rest \in Seq(Part) /\ Len(rest) = Len(buf) - (d + 1) + 1
          /\ \A i \in 1 .. Len(buf) - (d + 1) + 1 :
                rest[i] = buf[(d + 1) - 1 + i] /\ (d + 1) - 1 + i \in 1 .. Len(buf)
      BY <1>1, <3>1, SuffixOf
    <3> HIDE DEF rest
    <3>3. Len(rest) = Len(buf) - d /\ Len(rest) \in Nat
      BY <1>1, <2>2, <3>1, <3>2
    <3>4. ASSUME NEW i \in DOMAIN rest PROVE i + d \in DOMAIN buf /\ rest[i] = buf[i + d]
      <4>1. i \in 1 .. Len(buf) - (d + 1) + 1 /\ i \in Int
        BY <3>2
      <4>2. (d + 1) - 1 + i = i + d
        BY <3>1, <4>1
      <4> QED
        BY <1>1, <3>2, <4>1, <4>2
    <3> QED
      BY <3>2, <3>3, <3>4
  <2> HIDE DEF rest
  <2>4. StreamInv' /\ HandledInv'
    BY <2>1, <2>2, <2>3, DropOrder
  <2>5. PlaceInv'
    <3>1. Len(rest) \in Nat
      BY <2>3
    <3> QED
      BY <2>1, <3>1 DEF PlaceInv
  <2>6. DatagramInv' /\ HandledOnceInOrder'
    BY <2>1 DEF OrderInv, DatagramInv, HandledOnceInOrder
  <2>7. TakenInv'
    <3>1. Ids(line)' = Ids(line) /\ Taken' = Taken
      BY <2>1 DEF Ids, Taken
    <3>2. pc = "parse"
      BY <1>4 DEF ParseEnds
    <3> QED
      BY <2>1, <3>1, <3>2 DEF OrderInv, TakenInv
  <2> QED
    BY <2>4, <2>5, <2>6, <2>7 DEF OrderInv
<1>5. CASE ParseCrashes \/ ListenFails
  <2>1. /\ pc' = "dead" /\ line' = <<>> /\ buf' = <<>> /\ at' = 0 /\ garbled' = FALSE
        /\ asked' = asked /\ datagrams' = datagrams /\ handled' = handled
    BY <1>5 DEF ParseCrashes, ListenFails, Die, logVars
  <2> QED
    BY <2>1, EndOrder
<1> QED
  BY <1>2, <1>3, <1>4, <1>5

LEMMA TakeDatagramOrder ==
    ASSUME TypeOK, OrderInv, TakeDatagram
    PROVE  OrderInv'
<1> DEFINE id == Head(datagrams)
<1>1. /\ datagrams # <<>> /\ datagrams' = Tail(datagrams) /\ handled' = Append(handled, id)
      /\ asked' = asked /\ line' = line /\ pc' = pc /\ buf' = buf /\ at' = at
      /\ garbled' = garbled /\ cut' = cut /\ boots' = boots
  BY DEF TakeDatagram, parseVars
<1>2. datagrams \in Seq(1 .. MaxCommands)
  BY DEF TypeOK
<1>3. /\ 1 \in DOMAIN datagrams /\ id = datagrams[1]
      /\ \A i \in DOMAIN datagrams' : i + 1 \in DOMAIN datagrams /\ datagrams'[i] = datagrams[i + 1]
      /\ Tail(datagrams) \in Seq(1 .. MaxCommands)
  BY <1>1, <1>2, OneTaken
<1> HIDE DEF id
<1>4. \A i \in DOMAIN datagrams' : i \in Int /\ i > 0
  BY <1>1, <1>3
<1>5. id \in DOMAIN asked /\ asked[id].front = "setup"
  BY <1>3 DEF OrderInv, DatagramInv
<1>6. \A k \in DOMAIN handled : asked[handled[k]].front = asked[id].front => handled[k] < id
  BY <1>3, <1>5 DEF OrderInv, DatagramInv
<1>7. /\ HandledOnceInOrder' /\ Taken' = Taken \union {id}
      /\ \A k \in DOMAIN handled' : handled'[k] = id \/ (k \in DOMAIN handled
                                                        /\ handled'[k] = handled[k])
  BY <1>1, <1>5, <1>6, OneHandled
<1>8. Stream' = Stream
  BY <1>1 DEF Stream
<1>9. StreamInv' /\ PlaceInv'
  BY <1>1, <1>8 DEF OrderInv, StreamInv, PlaceInv
<1>10. HandledInv'
  BY <1>1, <1>5, <1>7, <1>8 DEF OrderInv, HandledInv
<1>11. DatagramInv'
  <2>1. \A i, j \in DOMAIN datagrams' : i < j => datagrams'[i] < datagrams'[j]
    BY <1>3, <1>4 DEF OrderInv, DatagramInv
  <2>2. \A i \in DOMAIN datagrams' : id < datagrams'[i]
    <3>1. \A i \in DOMAIN datagrams' : 1 < i + 1
      BY <1>4
    <3> QED
      BY <1>3, <3>1 DEF OrderInv, DatagramInv
  <2>3. \A i \in DOMAIN datagrams' : /\ datagrams'[i] \in DOMAIN asked
                                     /\ asked[datagrams'[i]].front = "setup"
    BY <1>3 DEF OrderInv, DatagramInv
  <2>4. ASSUME NEW i \in DOMAIN datagrams', NEW k \in DOMAIN handled',
               asked[handled'[k]].front = "setup"
        PROVE  handled'[k] < datagrams'[i]
    <3>1. CASE handled'[k] = id
      BY <2>2, <3>1
    <3>2. CASE k \in DOMAIN handled /\ handled'[k] = handled[k]
      BY <1>3, <2>4, <3>2 DEF OrderInv, DatagramInv
    <3> QED
      BY <1>7, <3>1, <3>2
  <2> QED
    BY <1>1, <2>1, <2>3, <2>4 DEF DatagramInv
<1>12. TakenInv'
  <2>1. Whole' = Whole /\ Ids(line') = Ids(line)
    BY <1>1 DEF Whole, Headers, Ids
  <2> QED
    BY <1>1, <1>7, <2>1 DEF OrderInv, TakenInv
<1> QED
  BY <1>7, <1>9, <1>10, <1>11, <1>12 DEF OrderInv

LEMMA SessionOrder ==
    ASSUME TypeOK, OrderInv, ClientConnects \/ EndSession
    PROVE  OrderInv'
<1>1. CASE ClientConnects
  <2>1. /\ pc = "accept" /\ pc' = "recv" /\ buf' = <<>> /\ at' = 0 /\ garbled' = garbled
        /\ asked' = asked /\ line' = line /\ datagrams' = datagrams /\ cut' = cut
        /\ handled' = handled /\ boots' = boots
    BY <1>1 DEF ClientConnects, logVars
  <2>2. at = 0 /\ ~garbled
    BY <2>1 DEF OrderInv, PlaceInv
  <2>3. StreamInv' /\ HandledInv'
    <3>1. /\ Len(buf) \in 0 .. Len(buf) /\ Len(buf) >= at /\ buf' \in Seq(Part)
          /\ Len(buf') = Len(buf) - Len(buf) /\ DOMAIN buf' = {}
      BY <2>1, <2>2, StreamType
    <3> QED
      BY <2>1, <3>1, DropOrder
  <2>4. PlaceInv'
    BY <2>1, <2>2 DEF PlaceInv
  <2>5. DatagramInv' /\ HandledOnceInOrder'
    BY <2>1 DEF OrderInv, DatagramInv, HandledOnceInOrder
  <2>6. TakenInv'
    <3>1. Ids(line)' = Ids(line) /\ Taken' = Taken
      BY <2>1 DEF Ids, Taken
    <3> QED
      BY <2>1, <3>1 DEF OrderInv, TakenInv
  <2> QED
    BY <2>3, <2>4, <2>5, <2>6 DEF OrderInv
<1>2. CASE EndSession
  <2>1. /\ pc = "recv" /\ pc' = "accept" /\ buf' = buf /\ at' = at /\ garbled' = garbled
        /\ asked' = asked /\ line' = line /\ datagrams' = datagrams /\ cut' = cut
        /\ handled' = handled /\ boots' = boots
    BY <1>2 DEF EndSession, logVars
  <2>2. Stream' = Stream /\ Ids(line)' = Ids(line) /\ Taken' = Taken
    BY <2>1 DEF Stream, Ids, Taken
  <2>3. StreamInv' /\ HandledInv' /\ DatagramInv' /\ HandledOnceInOrder'
    BY <2>1, <2>2 DEF OrderInv, StreamInv, HandledInv, DatagramInv, HandledOnceInOrder
  <2>4. PlaceInv'
    BY <2>1 DEF OrderInv, PlaceInv
  <2>5. TakenInv'
    BY <2>1, <2>2 DEF OrderInv, TakenInv
  <2> QED
    BY <2>3, <2>4, <2>5 DEF OrderInv
<1> QED
  BY <1>1, <1>2

LEMMA StepOrder ==
    ASSUME TypeOK, OrderInv, [Next]_vars
    PROVE  OrderInv'
<1>1. CASE \E ask \in Ask["m2m"] : ClientSends(ask)
  BY <1>1, SendOrder
<1>2. CASE \E ask \in Ask["setup"] : SendDatagram(ask)
  BY <1>2, DatagramOrder
<1>3. CASE ClientConnects \/ EndSession
  BY <1>3, SessionOrder
<1>4. CASE Receive
  BY <1>4, ReadOrder
<1>5. CASE TakeCommand \/ TakeCut \/ ParseEnds \/ ParseCrashes \/ ListenFails
  BY <1>5, ParseOrder
<1>6. CASE TakeDatagram
  BY <1>6, TakeDatagramOrder
<1>7. CASE PackStep
  <2>1. /\ asked' = asked /\ datagrams' = datagrams /\ cut' = cut /\ handled' = handled
        /\ boots' = boots
    BY <1>7, PackSame
  <2>2. CASE Ended
    <3>1. pc' = "dead" /\ line' = <<>> /\ buf' = <<>> /\ at' = 0 /\ garbled' = FALSE
      BY <2>2 DEF Ended, Die
    <3> QED
      BY <2>1, <3>1, EndOrder
  <2>3. CASE \E f \in Front : NodePut(f) \/ EventPut(f) \/ RowDone(f) \/ Told(f)
    <3>1. line' = line /\ pc' = pc /\ buf' = buf /\ at' = at /\ garbled' = garbled
      BY <2>3 DEF NodePut, EventPut, RowDone, Told, clientVars, parseVars
    <3> QED
      BY <2>1, <3>1, OtherOrder
  <2> QED
    BY <1>7, <2>2, <2>3, PackShape
<1>8. CASE Restart
  <2>1. /\ line' = <<>> /\ buf' = <<>> /\ at' = 0 /\ garbled' = FALSE /\ asked' = asked
        /\ handled' = handled /\ datagrams' = <<>> /\ boots' = boots + 1
        /\ \E f : pc' = MainM2M("m2m" \notin f)
    BY <1>8 DEF Restart
  <2>2. boots' # 0 /\ pc' # "parse"
    BY <2>1 DEF TypeOK, MainM2M
  <2> QED
    BY <2>1, <2>2, EndOrder
<1>9. CASE ClientLeaves \/ OtherLocks \/ OtherUnlocks
  BY <1>9, OtherOrder DEF ClientLeaves, OtherLocks, OtherUnlocks, clientVars, parseVars, logVars
<1>10. CASE TakeNode \/ TakeForUart \/ PutAnswer
  BY <1>10, OtherOrder DEF TakeNode, TakeForUart, PutAnswer, clientVars, parseVars, logVars
<1>11. CASE TakeEvent \/ Begin \/ DeleteAndEnd
  BY <1>11, OtherOrder DEF TakeEvent, Begin, DeleteAndEnd, clientVars, parseVars, logVars
<1>12. CASE UNCHANGED vars
  BY <1>12, OtherOrder DEF vars, clientVars, parseVars, logVars
<1> QED
  BY <1>1, <1>2, <1>3, <1>4, <1>5, <1>6, <1>7, <1>8, <1>9, <1>10, <1>11, <1>12 DEF Next, Work

-----------------------------------------------------------------------------
(* The invariant of what becomes of a command that was taken.              *)

\* A process has still to make the call for command i.
Pending(i, call) ==
    \E f \in Front : todo[f].id = i /\ \E k \in DOMAIN todo[f].calls : todo[f].calls[k] = call

\* Replies are written for commands that only ask.
TaskInv ==
    \A f \in Front : Busy(f) =>
        /\ todo[f].id \in DOMAIN asked
        /\ todo[f].id \notin unasked => todo[f].node = asked[todo[f].id].ask.node
        /\ \A k \in DOMAIN todo[f].calls :
              todo[f].calls[k] \in {"node", "event", "row"} \/ Query(asked[todo[f].id].ask)

JobInv == job # 0 => rtd \in {"begin", "locked"}

HeardInv ==
    manager = "comm" =>
        \A i \in Taken : asked[i].ask.kind \in {"change", "reboot"} =>
            \/ "node" \in failed[i]
            \/ \E k \in DOMAIN radio : radio[k] = i
            \/ \E k \in DOMAIN nodeQueue : nodeQueue[k].id = i /\ nodeQueue[k].good
            \/ Pending(i, "node")

EventFor(i) == [id |-> i, node |-> asked[i].ask.node, good |-> TRUE]

DeletedInv ==
    \A i \in Taken \ unasked :
        asked[i].ask.kind \in {"delete", "change"} /\ asked[i].ask.node \in rows =>
            /\ "row" \in failed[i] \/ Pending(i, "row")
            /\ \/ "event" \in failed[i] \/ Pending(i, "event")
               \/ \E k \in DOMAIN eventQueue : eventQueue[k] = EventFor(i)
               \/ job = asked[i].ask.node

OutcomeInv == TaskInv /\ JobInv /\ HeardInv /\ DeletedInv

LEMMA TakenType ==
    ASSUME TypeOK, OrderInv, NEW i \in Taken
    PROVE  /\ i \in DOMAIN asked /\ i \in 1 .. MaxCommands
           /\ asked[i].ask.node \in rows => asked[i].ask.node # 0
<1>1. i \in DOMAIN asked
  BY DEF Taken, OrderInv, HandledInv
<1>2. rows \subseteq Nat \ {0}
  BY RemoteCommandsAssumption DEF TypeOK
<1> QED
  BY <1>1, <1>2, AskedType

\* Steps of others.
LEMMA OtherOutcome ==
    ASSUME OutcomeInv,
           /\ manager' = manager /\ asked' = asked /\ unasked' = unasked /\ todo' = todo
           /\ nodeQueue' = nodeQueue /\ eventQueue' = eventQueue /\ rtd' = rtd /\ job' = job
           /\ rows' = rows /\ radio' = radio /\ handled' = handled /\ failed' = failed
    PROVE  OutcomeInv'
<1>1. Taken' = Taken
  BY DEF Taken
<1>2. TaskInv' /\ JobInv'
  BY DEF OutcomeInv, TaskInv, JobInv, Busy
<1>3. HeardInv'
  BY <1>1 DEF OutcomeInv, HeardInv, Pending
<1>4. DeletedInv'
  BY <1>1 DEF OutcomeInv, DeletedInv, Pending, EventFor
<1> QED
  BY <1>2, <1>3, <1>4 DEF OutcomeInv

\* One more command was sent.
LEMMA MoreOutcome ==
    ASSUME TypeOK, OrderInv, OutcomeInv,
           NEW entry \in [front : Front, ask : Command], asked' = Append(asked, entry),
           /\ manager' = manager /\ unasked' = unasked /\ todo' = todo
           /\ nodeQueue' = nodeQueue /\ eventQueue' = eventQueue /\ rtd' = rtd /\ job' = job
           /\ rows' = rows /\ radio' = radio /\ handled' = handled /\ failed' = failed
    PROVE  OutcomeInv'
<1>1. \A i \in DOMAIN asked : i \in DOMAIN asked' /\ asked'[i] = asked[i]
  BY MoreAsked
<1>2. Taken' = Taken
  BY DEF Taken
<1>3. \A i \in Taken : i \in DOMAIN asked
  BY TakenType
<1>4. TaskInv' /\ JobInv'
  BY <1>1 DEF OutcomeInv, TaskInv, JobInv, Busy
<1>5. HeardInv'
  BY <1>1, <1>2, <1>3 DEF OutcomeInv, HeardInv, Pending
<1>6. \A i \in Taken : EventFor(i)' = EventFor(i)
  BY <1>1, <1>3 DEF EventFor
<1>7. DeletedInv'
  BY <1>1, <1>2, <1>3, <1>6 DEF OutcomeInv, DeletedInv, Pending
<1> QED
  BY <1>4, <1>5, <1>7 DEF OutcomeInv

\* A process takes a command: all of its calls are to be made.
LEMMA TakeOutcome ==
    ASSUME TypeOK, OrderInv, OutcomeInv,
           NEW f \in Front, ~Busy(f),
           NEW id \in DOMAIN asked, NEW node \in Node \union {0}, NEW j \in Nat,
           todo' = [todo EXCEPT ![f] = Packet(id, node, j)],
           Taken' = Taken \union {id},
           unasked \subseteq unasked', id \notin unasked' => node = asked[id].ask.node,
           /\ manager' = manager /\ asked' = asked
           /\ nodeQueue' = nodeQueue /\ eventQueue' = eventQueue /\ rtd' = rtd /\ job' = job
           /\ rows' = rows /\ radio' = radio /\ failed' = failed
    PROVE  OutcomeInv'
<1> DEFINE ask == [kind |-> asked[id].ask.kind, node |-> node]
           t   == Packet(id, node, j)
<1>1. t \in Task /\ t.id = id /\ t.node = node /\ t.calls = Calls(ask)
  BY PacketType
<1>2. ask.kind \in Kinds /\ ask.kind = asked[id].ask.kind
  BY AskedType
<1> HIDE DEF ask, t
<1>3. todo' = [todo EXCEPT ![f] = t]
  BY DEF t
<1>4. todo'[f] = t /\ \A g \in Front : g # f => todo'[g] = todo[g]
  BY <1>1, <1>3, TaskGiven
<1>5. /\ ask.kind \in {"change", "reboot"} => \E k \in DOMAIN t.calls : t.calls[k] = "node"
      /\ ask.kind \in {"change", "delete"} =>
           /\ \E k \in DOMAIN t.calls : t.calls[k] = "event"
           /\ \E k \in DOMAIN t.calls : t.calls[k] = "row"
      /\ \A k \in DOMAIN t.calls : t.calls[k] \in {"node", "event", "row"} \/ Query(ask)
  BY <1>1, <1>2, CallsMade
<1>6. todo[f].calls = <<>>
  BY DEF Busy
<1>7. ASSUME NEW i, NEW c, Pending(i, c) PROVE Pending(i, c)'
  <2>1. PICK g \in Front : todo[g].id = i /\ \E k \in DOMAIN todo[g].calls : todo[g].calls[k] = c
    BY <1>7 DEF Pending
  <2>2. g # f
    BY <1>6, <2>1
  <2>3. todo'[g] = todo[g]
    BY <1>4, <2>2
  <2> QED
    BY <2>1, <2>3 DEF Pending
<1>8. ASSUME NEW c, \E k \in DOMAIN t.calls : t.calls[k] = c PROVE Pending(id, c)'
  BY <1>1, <1>4, <1>8 DEF Pending
<1>9. TaskInv'
  <2> SUFFICES ASSUME NEW g \in Front, Busy(g)'
               PROVE  /\ todo'[g].id \in DOMAIN asked'
                      /\ todo'[g].id \notin unasked' => todo'[g].node = asked'[todo'[g].id].ask.node
                      /\ \A k \in DOMAIN todo'[g].calls :
                            todo'[g].calls[k] \in {"node", "event", "row"}
                               \/ Query(asked'[todo'[g].id].ask)
    BY DEF TaskInv
  <2>1. CASE g = f
    <3>1. Query(ask) => Query(asked[id].ask)
      BY <1>2 DEF Query
    <3> QED
      BY <1>1, <1>4, <1>5, <2>1, <3>1
  <2>2. CASE g # f
    <3>1. todo'[g] = todo[g] /\ Busy(g)
      BY <1>4, <2>2 DEF Busy
    <3> QED
      BY <3>1 DEF OutcomeInv, TaskInv
  <2> QED
    BY <2>1, <2>2
<1>10. JobInv'
  BY DEF OutcomeInv, JobInv
<1>11. HeardInv'
  <2> SUFFICES ASSUME manager = "comm", NEW i \in Taken \union {id},
                      asked[i].ask.kind \in {"change", "reboot"}
               PROVE  \/ "node" \in failed[i]
                      \/ \E k \in DOMAIN radio : radio[k] = i
                      \/ \E k \in DOMAIN nodeQueue : nodeQueue[k].id = i /\ nodeQueue[k].good
                      \/ Pending(i, "node")'
    BY DEF HeardInv
  <2>1. CASE i = id
    BY <1>2, <1>5, <1>8, <2>1
  <2>2. CASE i \in Taken
    BY <1>7, <2>2 DEF OutcomeInv, HeardInv
  <2> QED
    BY <2>1, <2>2
<1>12. DeletedInv'
  <2> SUFFICES ASSUME NEW i \in (Taken \union {id}) \ unasked',
                      asked[i].ask.kind \in {"delete", "change"}, asked[i].ask.node \in rows
               PROVE  /\ "row" \in failed[i] \/ Pending(i, "row")'
                      /\ \/ "event" \in failed[i] \/ Pending(i, "event")'
                         \/ \E k \in DOMAIN eventQueue : eventQueue[k] = EventFor(i)
                         \/ job = asked[i].ask.node
    BY DEF DeletedInv, EventFor
  <2>1. CASE i = id
    BY <1>2, <1>5, <1>8, <2>1
  <2>2. CASE i \in Taken \ unasked
    BY <1>7, <2>2 DEF OutcomeInv, DeletedInv
  <2> QED
    BY <2>1, <2>2
<1> QED
  BY <1>9, <1>10, <1>11, <1>12 DEF OutcomeInv

\* A process has made its next call; all others are still to be made.
LEMMA CallLess ==
    ASSUME TypeOK, OutcomeInv, NEW f \in Front, NEW call \in Call, Next1(f, call),
           asked' = asked, unasked' = unasked
    PROVE  /\ TaskInv' /\ todo[f].id \in DOMAIN asked
           /\ todo[f].id \notin unasked => todo[f].node = asked[todo[f].id].ask.node
           /\ \A i, c : Pending(i, c) => Pending(i, c)' \/ (i = todo[f].id /\ c = call)
<1>1. /\ todo[f].id' = todo[f].id /\ todo[f].node' = todo[f].node
      /\ todo[f].calls' = Tail(todo[f].calls)
      /\ todo[f].calls \in Seq(Call) /\ todo[f].calls # <<>> /\ Head(todo[f].calls) = call
      /\ \A g \in Front : g # f => todo'[g] = todo[g]
  BY CallMade
<1> DEFINE calls == todo[f].calls
           rest  == Tail(calls)
<1>2. /\ 1 \in DOMAIN calls /\ Head(calls) = calls[1]
      /\ \A i \in DOMAIN rest : i + 1 \in DOMAIN calls /\ rest[i] = calls[i + 1]
      /\ \A i \in DOMAIN calls : i = 1 \/ (i - 1 \in DOMAIN rest /\ rest[i - 1] = calls[i])
  BY <1>1, OneTaken
<1>3. /\ todo'[f].id = todo[f].id /\ todo'[f].node = todo[f].node /\ todo'[f].calls = rest
  BY <1>1
<1>4. Busy(f)
  BY DEF Next1
<1>5. /\ todo[f].id \in DOMAIN asked
      /\ todo[f].id \notin unasked => todo[f].node = asked[todo[f].id].ask.node
      /\ \A k \in DOMAIN calls :
            calls[k] \in {"node", "event", "row"} \/ Query(asked[todo[f].id].ask)
  BY <1>4 DEF OutcomeInv, TaskInv
<1>6. calls[1] = call
  BY <1>1, <1>2
<1> HIDE DEF rest
<1>7. TaskInv'
  <2> SUFFICES ASSUME NEW g \in Front, Busy(g)'
               PROVE  /\ todo'[g].id \in DOMAIN asked'
                      /\ todo'[g].id \notin unasked' => todo'[g].node = asked'[todo'[g].id].ask.node
                      /\ \A k \in DOMAIN todo'[g].calls :
                            todo'[g].calls[k] \in {"node", "event", "row"}
                               \/ Query(asked'[todo'[g].id].ask)
    BY DEF TaskInv
  <2>1. CASE g = f
    BY <1>2, <1>3, <1>5, <2>1
  <2>2. CASE g # f
    <3>1. todo'[g] = todo[g] /\ Busy(g)
      BY <1>1, <2>2 DEF Busy
    <3> QED
      BY <3>1 DEF OutcomeInv, TaskInv
  <2> QED
    BY <2>1, <2>2
<1>8. ASSUME NEW i, NEW c, Pending(i, c), ~(i = todo[f].id /\ c = call) PROVE Pending(i, c)'
  <2>1. PICK g \in Front : todo[g].id = i /\ \E k \in DOMAIN todo[g].calls : todo[g].calls[k] = c
    BY <1>8 DEF Pending
  <2>2. CASE g = f
    <3>3. PICK k \in DOMAIN calls : calls[k] = c
      BY <2>1, <2>2
    <3>1. k # 1 /\ k \in DOMAIN calls /\ calls[k] = c
      BY <1>6, <1>8, <2>1, <2>2, <3>3
    <3>2. k - 1 \in DOMAIN rest /\ rest[k - 1] = c
      BY <1>2, <3>1
    <3> QED
      BY <1>3, <2>1, <2>2, <3>2 DEF Pending
  <2>3. CASE g # f
    <3>1. todo'[g] = todo[g]
      BY <1>1, <2>3
    <3> QED
      BY <2>1, <3>1 DEF Pending
  <2> QED
    BY <2>2, <2>3
<1> QED
  BY <1>5, <1>7, <1>8

LEMMA PackOutcome ==
    ASSUME TypeOK, OrderInv, OutcomeInv, PackStep
    PROVE  OutcomeInv'
<1>1. /\ manager' = manager /\ asked' = asked /\ unasked' = unasked /\ radio' = radio
      /\ handled' = handled /\ rtd' = rtd /\ job' = job
  BY PackSame DEF rtdVars
<1>2. Taken' = Taken
  BY <1>1 DEF Taken
<1>3. JobInv'
  BY <1>1 DEF OutcomeInv, JobInv
<1>4. \A i : EventFor(i)' = EventFor(i)
  BY <1>1 DEF EventFor
<1>5. "node" \in Call /\ "event" \in Call /\ "row" \in Call
  BY DEF Call
<1>6. /\ nodeQueue \in Seq(Message \union {Answer}) /\ eventQueue \in Seq(Message)
      /\ rows \subseteq Node
  BY DEF TypeOK
<1>7. \A i \in Taken : i \in 1 .. MaxCommands
  BY TakenType
<1>8. ASSUME NEW f \in Front, NodePut(f) PROVE OutcomeInv'
  <2>1. /\ TaskInv' /\ todo[f].id \in DOMAIN asked
        /\ \A i, c : Pending(i, c) => Pending(i, c)' \/ (i = todo[f].id /\ c = "node")
    BY <1>1, <1>5, <1>8, CallLess DEF NodePut
  <2>2. \A i \in 1 .. MaxCommands : failed[i] \subseteq failed'[i]
    BY <1>8, <2>1, FailureNoted DEF NodePut
  <2> DEFINE m == Sent(f)
  <2>3. m.id = todo[f].id /\ m.good = todo[f].good
    BY DEF Sent
  <2>4. m \in Message \union {Answer}
    <3>1. todo[f].id # 0
      BY <2>1, AskedType
    <3> QED
      BY <3>1, SentType
  <2>5. eventQueue' = eventQueue /\ rows' = rows
    BY <1>8 DEF NodePut
  <2>6. \/ /\ nodeQueue' = Append(nodeQueue, m) /\ (todo[f].good \/ "node" \in failed'[todo[f].id])
        \/ nodeQueue' = nodeQueue /\ "node" \in failed'[todo[f].id]
    BY <1>8, <2>1, FailureNoted DEF NodePut
  <2> HIDE DEF m
  <2>7. \A k \in DOMAIN nodeQueue : k \in DOMAIN nodeQueue' /\ nodeQueue'[k] = nodeQueue[k]
    BY <1>6, <2>4, <2>6, OneMore
  <2>8. \/ "node" \in failed'[todo[f].id]
        \/ \E k \in DOMAIN nodeQueue' : nodeQueue'[k].id = todo[f].id /\ nodeQueue'[k].good
    <3>1. CASE nodeQueue' = Append(nodeQueue, m) /\ todo[f].good
      <4>1. /\ Len(nodeQueue) + 1 \in DOMAIN nodeQueue'
            /\ nodeQueue'[Len(nodeQueue) + 1] = m
        BY <1>6, <2>4, <3>1, OneMore
      <4> QED
        BY <2>3, <3>1, <4>1
    <3> QED
      BY <2>6, <3>1
  <2>9. HeardInv'
    <3> SUFFICES ASSUME manager = "comm", NEW i \in Taken, asked[i].ask.kind \in {"change", "reboot"}
                 PROVE  \/ "node" \in failed'[i]
                        \/ \E k \in DOMAIN radio : radio[k] = i
                        \/ \E k \in DOMAIN nodeQueue' : nodeQueue'[k].id = i /\ nodeQueue'[k].good
                        \/ Pending(i, "node")'
      BY <1>1, <1>2 DEF HeardInv
    <3>1. \/ "node" \in failed[i]
          \/ \E k \in DOMAIN radio : radio[k] = i
          \/ \E k \in DOMAIN nodeQueue : nodeQueue[k].id = i /\ nodeQueue[k].good
          \/ Pending(i, "node")
      BY DEF OutcomeInv, HeardInv
    <3> QED
      BY <1>7, <2>1, <2>2, <2>7, <2>8, <3>1
  <2>10. DeletedInv'
    <3> SUFFICES ASSUME NEW i \in Taken \ unasked, asked[i].ask.kind \in {"delete", "change"},
                        asked[i].ask.node \in rows
                 PROVE  /\ "row" \in failed'[i] \/ Pending(i, "row")'
                        /\ \/ "event" \in failed'[i] \/ Pending(i, "event")'
                           \/ \E k \in DOMAIN eventQueue : eventQueue[k] = EventFor(i)
                           \/ job = asked[i].ask.node
      BY <1>1, <1>2, <1>4, <2>5 DEF DeletedInv
    <3>1. /\ "row" \in failed[i] \/ Pending(i, "row")
          /\ \/ "event" \in failed[i] \/ Pending(i, "event")
             \/ \E k \in DOMAIN eventQueue : eventQueue[k] = EventFor(i)
             \/ job = asked[i].ask.node
      BY DEF OutcomeInv, DeletedInv
    <3> QED
      BY <1>7, <2>1, <2>2, <3>1
  <2> QED
    BY <1>3, <2>1, <2>9, <2>10 DEF OutcomeInv
<1>9. ASSUME NEW f \in Front, EventPut(f) PROVE OutcomeInv'
  <2>1. /\ TaskInv' /\ todo[f].id \in DOMAIN asked
        /\ todo[f].id \notin unasked => todo[f].node = asked[todo[f].id].ask.node
        /\ \A i, c : Pending(i, c) => Pending(i, c)' \/ (i = todo[f].id /\ c = "event")
    BY <1>1, <1>5, <1>9, CallLess DEF EventPut
  <2>2. \A i \in 1 .. MaxCommands : failed[i] \subseteq failed'[i]
    BY <1>9, <2>1, FailureNoted DEF EventPut
  <2> DEFINE m == Sent(f)
  <2>3. /\ todo[f].good = TRUE /\ todo[f].id \notin unasked => m = EventFor(todo[f].id)
    BY <2>1 DEF Sent, EventFor
  <2>4. m \in Message
    <3>1. todo[f].id # 0
      BY <2>1, AskedType
    <3> QED
      BY <3>1, SentType
  <2>5. nodeQueue' = nodeQueue /\ rows' = rows
    BY <1>9 DEF EventPut
  <2>6. \/ /\ eventQueue' = Append(eventQueue, m) /\ (todo[f].good \/ "event" \in failed'[todo[f].id])
        \/ eventQueue' = eventQueue /\ "event" \in failed'[todo[f].id]
    BY <1>9, <2>1, FailureNoted DEF EventPut
  <2> HIDE DEF m
  <2>7. \A k \in DOMAIN eventQueue : k \in DOMAIN eventQueue' /\ eventQueue'[k] = eventQueue[k]
    <3>1. \A k \in DOMAIN eventQueue : /\ k \in DOMAIN Append(eventQueue, m)
                                       /\ Append(eventQueue, m)[k] = eventQueue[k]
      BY <1>6, <2>4, OneMore, SMTT(30)
    <3>2. eventQueue' = Append(eventQueue, m) \/ eventQueue' = eventQueue
      BY <2>6
    <3> QED
      BY <3>1, <3>2
  <2>8. todo[f].id \notin unasked =>
          \/ "event" \in failed'[todo[f].id]
          \/ \E k \in DOMAIN eventQueue' : eventQueue'[k] = EventFor(todo[f].id)
    <3>1. CASE eventQueue' = Append(eventQueue, m) /\ todo[f].good
      <4>1. todo[f].good = TRUE
        <5>1. todo[f] \in Task
          BY DEF TypeOK
        <5>2. todo[f].good \in BOOLEAN
          BY <5>1 DEF Task
        <5> QED
          BY <3>1, <5>2
      <4> QED
        BY <1>6, <2>3, <2>4, <3>1, <4>1, OneMore
    <3> QED
      BY <2>6, <3>1
  <2>9. HeardInv'
    <3> SUFFICES ASSUME manager = "comm", NEW i \in Taken, asked[i].ask.kind \in {"change", "reboot"}
                 PROVE  \/ "node" \in failed'[i]
                        \/ \E k \in DOMAIN radio : radio[k] = i
                        \/ \E k \in DOMAIN nodeQueue : nodeQueue[k].id = i /\ nodeQueue[k].good
                        \/ Pending(i, "node")'
      BY <1>1, <1>2, <2>5 DEF HeardInv
    <3>1. \/ "node" \in failed[i]
          \/ \E k \in DOMAIN radio : radio[k] = i
          \/ \E k \in DOMAIN nodeQueue : nodeQueue[k].id = i /\ nodeQueue[k].good
          \/ Pending(i, "node")
      BY DEF OutcomeInv, HeardInv
    <3> QED
      BY <1>7, <2>1, <2>2, <3>1
  <2>10. DeletedInv'
    <3> SUFFICES ASSUME NEW i \in Taken \ unasked, asked[i].ask.kind \in {"delete", "change"},
                        asked[i].ask.node \in rows
                 PROVE  /\ "row" \in failed'[i] \/ Pending(i, "row")'
                        /\ \/ "event" \in failed'[i] \/ Pending(i, "event")'
                           \/ \E k \in DOMAIN eventQueue' : eventQueue'[k] = EventFor(i)
                           \/ job = asked[i].ask.node
      BY <1>1, <1>2, <1>4, <2>5 DEF DeletedInv
    <3>1. /\ "row" \in failed[i] \/ Pending(i, "row")
          /\ \/ "event" \in failed[i] \/ Pending(i, "event")
             \/ \E k \in DOMAIN eventQueue : eventQueue[k] = EventFor(i)
             \/ job = asked[i].ask.node
      BY DEF OutcomeInv, DeletedInv
    <3> QED
      BY <1>7, <2>1, <2>2, <2>7, <2>8, <3>1
  <2> QED
    BY <1>3, <2>1, <2>9, <2>10 DEF OutcomeInv
<1>10. ASSUME NEW f \in Front, RowDone(f) PROVE OutcomeInv'
  <2>1. /\ TaskInv' /\ todo[f].id \in DOMAIN asked
        /\ todo[f].id \notin unasked => todo[f].node = asked[todo[f].id].ask.node
        /\ \A i, c : Pending(i, c) => Pending(i, c)' \/ (i = todo[f].id /\ c = "row")
    BY <1>1, <1>5, <1>10, CallLess DEF RowDone
  <2>2. \A i \in 1 .. MaxCommands : failed[i] \subseteq failed'[i]
    BY <1>10, <2>1, FailureNoted DEF RowDone
  <2>3. nodeQueue' = nodeQueue /\ eventQueue' = eventQueue /\ rows' \subseteq rows
    BY <1>10 DEF RowDone, queueVars
  <2>4. \/ todo[f].node \notin rows'
        \/ "row" \in failed'[todo[f].id]
    BY <1>10, <2>1, FailureNoted DEF RowDone
  <2>5. HeardInv'
    <3> SUFFICES ASSUME manager = "comm", NEW i \in Taken, asked[i].ask.kind \in {"change", "reboot"}
                 PROVE  \/ "node" \in failed'[i]
                        \/ \E k \in DOMAIN radio : radio[k] = i
                        \/ \E k \in DOMAIN nodeQueue : nodeQueue[k].id = i /\ nodeQueue[k].good
                        \/ Pending(i, "node")'
      BY <1>1, <1>2, <2>3 DEF HeardInv
    <3>1. \/ "node" \in failed[i]
          \/ \E k \in DOMAIN radio : radio[k] = i
          \/ \E k \in DOMAIN nodeQueue : nodeQueue[k].id = i /\ nodeQueue[k].good
          \/ Pending(i, "node")
      BY DEF OutcomeInv, HeardInv
    <3> QED
      BY <1>7, <2>1, <2>2, <3>1
  <2>6. DeletedInv'
    <3> SUFFICES ASSUME NEW i \in Taken \ unasked, asked[i].ask.kind \in {"delete", "change"},
                        asked[i].ask.node \in rows'
                 PROVE  /\ "row" \in failed'[i] \/ Pending(i, "row")'
                        /\ \/ "event" \in failed'[i] \/ Pending(i, "event")'
                           \/ \E k \in DOMAIN eventQueue : eventQueue[k] = EventFor(i)
                           \/ job = asked[i].ask.node
      BY <1>1, <1>2, <1>4, <2>3 DEF DeletedInv
    <3>1. /\ "row" \in failed[i] \/ Pending(i, "row")
          /\ \/ "event" \in failed[i] \/ Pending(i, "event")
             \/ \E k \in DOMAIN eventQueue : eventQueue[k] = EventFor(i)
             \/ job = asked[i].ask.node
      BY <2>3 DEF OutcomeInv, DeletedInv
    <3> QED
      BY <1>7, <2>1, <2>2, <2>4, <3>1
  <2> QED
    BY <1>3, <2>1, <2>5, <2>6 DEF OutcomeInv
<1>11. ASSUME \A i, c : Pending(i, c) /\ c \in {"node", "event", "row"} =>
                        Pending(i, c)' \/ (i \in DOMAIN asked /\ Query(asked[i].ask)),
              TaskInv',
              nodeQueue' = nodeQueue, eventQueue' = eventQueue, rows' = rows, failed' = failed
       PROVE  OutcomeInv'
  <2>1. \A i \in DOMAIN asked : Query(asked[i].ask) =>
            asked[i].ask.kind \notin {"delete", "change", "reboot"}
    BY DEF Query
  <2>2. HeardInv'
    BY <1>1, <1>2, <1>11, <2>1 DEF OutcomeInv, HeardInv
  <2>3. DeletedInv'
    BY <1>1, <1>2, <1>4, <1>11, <2>1 DEF OutcomeInv, DeletedInv
  <2> QED
    BY <1>3, <1>11, <2>2, <2>3 DEF OutcomeInv
<1>12. ASSUME NEW f \in Front, Told(f) PROVE OutcomeInv'
  <2>1. PICK call \in {"list", "status", "data", "time"} : Next1(f, call)
    BY <1>12 DEF Told
  <2>2. call \in Call
    BY DEF Call
  <2>3. /\ TaskInv'
        /\ \A i, c : Pending(i, c) => Pending(i, c)' \/ (i = todo[f].id /\ c = call)
    BY <1>1, <2>1, <2>2, CallLess
  <2>4. \A i, c : Pending(i, c) /\ c \in {"node", "event", "row"} => Pending(i, c)'
    BY <2>3
  <2>5. nodeQueue' = nodeQueue /\ eventQueue' = eventQueue /\ rows' = rows /\ failed' = failed
    BY <1>12 DEF Told, queueVars
  <2> QED
    BY <1>11, <2>3, <2>4, <2>5
<1>13. ASSUME Ended PROVE OutcomeInv'
  <2>1. /\ Busy("m2m") /\ Head(todo["m2m"].calls) \in {"list", "status", "data", "time"}
        /\ todo' = [todo EXCEPT !["m2m"] = Nothing]
        /\ nodeQueue' = nodeQueue /\ eventQueue' = eventQueue /\ rows' = rows /\ failed' = failed
    BY <1>13 DEF Ended, Die, queueVars
  <2>2. "m2m" \in Front /\ Nothing \in Task
    BY RemoteCommandsAssumption DEF Front, Nothing, Task
  <2>3. todo'["m2m"] = Nothing /\ \A g \in Front : g # "m2m" => todo'[g] = todo[g]
    BY <2>1, <2>2, TaskGiven
  <2>4. todo["m2m"].id \in DOMAIN asked /\ Query(asked[todo["m2m"].id].ask)
    <3>1. todo["m2m"] \in Task
      BY <2>2 DEF TypeOK
    <3>2. todo["m2m"].calls \in Seq(Call) /\ todo["m2m"].calls # <<>>
      BY <2>1, <3>1 DEF Task, Busy
    <3>3. 1 \in DOMAIN todo["m2m"].calls /\ Head(todo["m2m"].calls) = todo["m2m"].calls[1]
      BY <3>2, OneTaken
    <3> QED
      BY <2>1, <2>2, <3>3 DEF OutcomeInv, TaskInv
  <2>5. TaskInv'
    <3> SUFFICES ASSUME NEW g \in Front, Busy(g)'
                 PROVE  /\ todo'[g].id \in DOMAIN asked'
                        /\ todo'[g].id \notin unasked'
                              => todo'[g].node = asked'[todo'[g].id].ask.node
                        /\ \A k \in DOMAIN todo'[g].calls :
                              todo'[g].calls[k] \in {"node", "event", "row"}
                                 \/ Query(asked'[todo'[g].id].ask)
      BY DEF TaskInv
    <3>1. g # "m2m"
      BY <2>3 DEF Busy, Nothing
    <3>2. todo'[g] = todo[g] /\ Busy(g)
      BY <2>3, <3>1 DEF Busy
    <3> QED
      BY <1>1, <3>2 DEF OutcomeInv, TaskInv
  <2>6. ASSUME NEW i, NEW c, Pending(i, c)
        PROVE  Pending(i, c)' \/ (i \in DOMAIN asked /\ Query(asked[i].ask))
    <3>1. PICK g \in Front : todo[g].id = i /\ \E k \in DOMAIN todo[g].calls : todo[g].calls[k] = c
      BY <2>6 DEF Pending
    <3>2. CASE g = "m2m"
      BY <2>4, <3>1, <3>2
    <3>3. CASE g # "m2m"
      BY <2>3, <3>1, <3>3 DEF Pending
    <3> QED
      BY <3>2, <3>3
  <2> QED
    BY <1>11, <2>1, <2>5, <2>6
<1> QED
  BY <1>8, <1>9, <1>10, <1>12, <1>13, PackShape

\* The reader of queue 2222 takes a command, or UartManager adds an answer.
LEMMA ReaderOutcome ==
    ASSUME TypeOK, OutcomeInv, TakeNode \/ TakeForUart \/ PutAnswer
    PROVE  OutcomeInv'
<1>1. /\ manager' = manager /\ asked' = asked /\ unasked' = unasked /\ todo' = todo
      /\ eventQueue' = eventQueue /\ rtd' = rtd /\ job' = job /\ rows' = rows
      /\ handled' = handled /\ failed' = failed
  BY DEF TakeNode, TakeForUart, PutAnswer, clientVars, parseVars, rtdVars, dbVars, logVars
<1>2. Taken' = Taken
  BY <1>1 DEF Taken
<1>3. TaskInv' /\ JobInv'
  BY <1>1 DEF OutcomeInv, TaskInv, JobInv, Busy
<1>4. DeletedInv'
  BY <1>1, <1>2 DEF OutcomeInv, DeletedInv, Pending, EventFor
<1>5. /\ nodeQueue \in Seq(Message \union {Answer}) /\ Answer \in Message \union {Answer}
      /\ radio \in Seq(1 .. MaxCommands)
  BY DEF TypeOK
<1>6. CASE TakeNode
  <2> DEFINE k == First(Commands)
  <2>1. /\ Commands # {} /\ nodeQueue' = Without(nodeQueue, k)
        /\ radio' = IF nodeQueue[k].good THEN Append(radio, nodeQueue[k].id) ELSE radio
    BY <1>6 DEF TakeNode
  <2>2. k \in DOMAIN nodeQueue /\ nodeQueue[k] \in Message
    <3>1. Commands \in SUBSET Nat
      BY <1>5 DEF Commands
    <3>2. k \in Commands
      BY <2>1, <3>1, FirstOf
    <3>3. \A l \in DOMAIN nodeQueue : nodeQueue[l] \in Message \union {Answer}
      BY <1>5
    <3> QED
      BY <3>2, <3>3 DEF Commands
  <2>3. nodeQueue[k].id \in 1 .. MaxCommands
    BY <2>2, MessageType
  <2> HIDE DEF k
  <2>4. /\ \A l \in DOMAIN nodeQueue : l # k =>
              \E j \in DOMAIN nodeQueue' : nodeQueue'[j] = nodeQueue[l]
    BY <1>5, <2>1, <2>2, WithoutOne
  <2>5. /\ \A l \in DOMAIN radio : l \in DOMAIN radio' /\ radio'[l] = radio[l]
        /\ nodeQueue[k].good => \E l \in DOMAIN radio' : radio'[l] = nodeQueue[k].id
    <3>1. CASE nodeQueue[k].good
      <4>1. radio' = Append(radio, nodeQueue[k].id)
        BY <2>1, <3>1
      <4> QED
        BY <1>5, <2>3, <4>1, OneMore
    <3>2. CASE ~nodeQueue[k].good
      BY <2>1, <3>2
    <3> QED
      BY <3>1, <3>2
  <2>6. HeardInv'
    <3> SUFFICES ASSUME manager = "comm", NEW i \in Taken, asked[i].ask.kind \in {"change", "reboot"}
                 PROVE  \/ "node" \in failed[i]
                        \/ \E l \in DOMAIN radio' : radio'[l] = i
                        \/ \E l \in DOMAIN nodeQueue' : nodeQueue'[l].id = i /\ nodeQueue'[l].good
                        \/ Pending(i, "node")
      BY <1>1, <1>2 DEF HeardInv, Pending
    <3>1. \/ "node" \in failed[i] \/ Pending(i, "node")
          \/ \E l \in DOMAIN radio : radio[l] = i
          \/ \E l \in DOMAIN nodeQueue : nodeQueue[l].id = i /\ nodeQueue[l].good
      BY DEF OutcomeInv, HeardInv
    <3>2. CASE \E l \in DOMAIN radio : radio[l] = i
      BY <2>5, <3>2
    <3>3. ASSUME NEW l \in DOMAIN nodeQueue, nodeQueue[l].id = i, nodeQueue[l].good
          PROVE  \/ \E j \in DOMAIN radio' : radio'[j] = i
                 \/ \E j \in DOMAIN nodeQueue' : nodeQueue'[j].id = i /\ nodeQueue'[j].good
      <4>1. CASE l = k
        BY <2>5, <3>3, <4>1
      <4>2. CASE l # k
        BY <2>4, <3>3, <4>2
      <4> QED
        BY <4>1, <4>2
    <3> QED
      BY <3>1, <3>2, <3>3
  <2> QED
    BY <1>3, <1>4, <2>6 DEF OutcomeInv
<1>7. CASE TakeForUart
  <2>1. manager # "comm"
    BY <1>7 DEF TakeForUart
  <2>2. HeardInv'
    BY <1>1, <2>1 DEF HeardInv
  <2> QED
    BY <1>3, <1>4, <2>2 DEF OutcomeInv
<1>8. CASE PutAnswer
  <2>1. radio' = radio
    BY <1>8 DEF PutAnswer, logVars
  <2>2. \A l \in DOMAIN nodeQueue : l \in DOMAIN nodeQueue' /\ nodeQueue'[l] = nodeQueue[l]
    <3>1. nodeQueue' = Append(nodeQueue, Answer) \/ nodeQueue' = nodeQueue
      BY <1>8 DEF PutAnswer
    <3> QED
      BY <1>5, <3>1, OneMore
  <2>3. HeardInv'
    BY <1>1, <1>2, <2>1, <2>2 DEF OutcomeInv, HeardInv, Pending
  <2> QED
    BY <1>3, <1>4, <2>3 DEF OutcomeInv
<1> QED
  BY <1>6, <1>7, <1>8

\* RealTimeDataManager takes an event, or deletes the row of a node.
LEMMA RtdOutcome ==
    ASSUME TypeOK, OrderInv, OutcomeInv, TakeEvent \/ Begin \/ DeleteAndEnd
    PROVE  OutcomeInv'
<1>1. /\ manager' = manager /\ asked' = asked /\ unasked' = unasked /\ todo' = todo
      /\ nodeQueue' = nodeQueue /\ radio' = radio /\ handled' = handled /\ failed' = failed
  BY DEF TakeEvent, Begin, DeleteAndEnd, clientVars, parseVars, queueVars, logVars
<1>2. Taken' = Taken
  BY <1>1 DEF Taken
<1>3. TaskInv' /\ HeardInv'
  BY <1>1, <1>2 DEF OutcomeInv, TaskInv, HeardInv, Busy, Pending
<1>4. \A i : EventFor(i)' = EventFor(i)
  BY <1>1 DEF EventFor
<1>5. \A i, c : Pending(i, c)' = Pending(i, c)
  BY <1>1 DEF Pending
<1>6. CASE TakeEvent
  <2> DEFINE m == Head(eventQueue)
             reboots == asked[m.id].ask.kind = "reboot"
  <2>1. /\ rtd = "idle" /\ eventQueue # <<>> /\ eventQueue' = Tail(eventQueue) /\ rows' = rows
        /\ rtd' = IF ~m.good THEN "idle" ELSE IF reboots THEN "gone" ELSE "begin"
        /\ job' = IF m.good /\ ~reboots THEN m.node ELSE 0
    BY <1>6 DEF TakeEvent, dbVars
  <2>2. eventQueue \in Seq(Message)
    BY DEF TypeOK
  <2>3. /\ 1 \in DOMAIN eventQueue /\ m = eventQueue[1]
        /\ \A l \in DOMAIN eventQueue :
              l = 1 \/ (l - 1 \in DOMAIN eventQueue' /\ eventQueue'[l - 1] = eventQueue[l])
    BY <2>1, <2>2, OneTaken
  <2> HIDE DEF m
  <2>4. JobInv'
    BY <2>1 DEF JobInv
  <2>5. job = 0
    BY <2>1 DEF OutcomeInv, JobInv
  <2>6. DeletedInv'
    <3> SUFFICES ASSUME NEW i \in Taken \ unasked, asked[i].ask.kind \in {"delete", "change"},
                        asked[i].ask.node \in rows
                 PROVE  /\ "row" \in failed[i] \/ Pending(i, "row")
                        /\ \/ "event" \in failed[i] \/ Pending(i, "event")
                           \/ \E k \in DOMAIN eventQueue' : eventQueue'[k] = EventFor(i)
                           \/ job' = asked[i].ask.node
      BY <1>1, <1>2, <1>4, <1>5, <2>1 DEF DeletedInv
    <3>1. /\ "row" \in failed[i] \/ Pending(i, "row")
          /\ \/ "event" \in failed[i] \/ Pending(i, "event")
             \/ \E k \in DOMAIN eventQueue : eventQueue[k] = EventFor(i)
             \/ job = asked[i].ask.node
      BY DEF OutcomeInv, DeletedInv
    <3>2. asked[i].ask.node # 0
      BY TakenType
    <3>3. ASSUME NEW k \in DOMAIN eventQueue, eventQueue[k] = EventFor(i)
          PROVE  \/ \E l \in DOMAIN eventQueue' : eventQueue'[l] = EventFor(i)
                 \/ job' = asked[i].ask.node
      <4>1. CASE k = 1
        <5>1. m.id = i /\ m.node = asked[i].ask.node /\ m.good = TRUE
          BY <2>3, <3>3, <4>1 DEF EventFor
        <5>2. ~reboots
          BY <5>1
        <5> QED
          BY <2>1, <5>1, <5>2
      <4>2. CASE k # 1
        BY <2>3, <3>3, <4>2
      <4> QED
        BY <4>1, <4>2
    <3> QED
      BY <2>5, <3>1, <3>2, <3>3
  <2> QED
    BY <1>3, <2>4, <2>6 DEF OutcomeInv
<1>7. CASE Begin
  <2>1. rtd' = "locked" /\ job' = job /\ rows' = rows /\ eventQueue' = eventQueue
    BY <1>7 DEF Begin, queueVars
  <2>2. JobInv'
    BY <2>1 DEF JobInv
  <2>3. DeletedInv'
    BY <1>1, <1>2, <1>4, <1>5, <2>1 DEF OutcomeInv, DeletedInv
  <2> QED
    BY <1>3, <2>2, <2>3 DEF OutcomeInv
<1>8. CASE DeleteAndEnd
  <2>1. job' = 0 /\ rows' = rows \ {job} /\ eventQueue' = eventQueue
    BY <1>8 DEF DeleteAndEnd, queueVars
  <2>2. JobInv'
    BY <2>1 DEF JobInv
  <2>3. DeletedInv'
    BY <1>1, <1>2, <1>4, <1>5, <2>1 DEF OutcomeInv, DeletedInv
  <2> QED
    BY <1>3, <2>2, <2>3 DEF OutcomeInv
<1> QED
  BY <1>6, <1>7, <1>8

\* What a restart loses is noted.
LEMMA RestartOutcome ==
    ASSUME TypeOK, OrderInv, OutcomeInv, Restart
    PROVE  OutcomeInv'
<1>1. /\ rtd = "gone" /\ job' = 0 /\ todo' = [g \in Front |-> Nothing]
      /\ manager' = manager /\ asked' = asked /\ unasked' = unasked /\ rows' = rows
      /\ radio' = radio /\ handled' = handled
  BY DEF Restart
<1>2. Taken' = Taken
  BY <1>1 DEF Taken
<1>3. job = 0
  BY <1>1 DEF OutcomeInv, JobInv
<1>4. TaskInv' /\ JobInv'
  BY <1>1 DEF TaskInv, JobInv, Busy, Nothing
<1>5. \A i \in Taken : i \in 1 .. MaxCommands
  BY TakenType
<1>6. ASSUME NEW i \in Taken, NEW call \in {"node", "event", "row"}, Pending(i, call)
      PROVE  call \in failed'[i]
  <2>1. PICK f \in Front : todo[f].id = i /\ \E k \in DOMAIN todo[f].calls : todo[f].calls[k] = call
    BY <1>6 DEF Pending
  <2> QED
    BY <1>5, <2>1, RestartNotes
<1>7. \A i \in Taken :
        /\ failed[i] \subseteq failed'[i]
        /\ (\E k \in DOMAIN nodeQueue : nodeQueue[k].id = i) => "node" \in failed'[i]
        /\ (\E k \in DOMAIN eventQueue : eventQueue[k].id = i) => "event" \in failed'[i]
  BY <1>5, RestartNotes
<1>8. HeardInv'
  <2> SUFFICES ASSUME manager = "comm", NEW i \in Taken, asked[i].ask.kind \in {"change", "reboot"}
               PROVE  "node" \in failed'[i] \/ \E k \in DOMAIN radio : radio[k] = i
    BY <1>1, <1>2 DEF HeardInv
  <2>1. \/ "node" \in failed[i]
        \/ \E k \in DOMAIN radio : radio[k] = i
        \/ \E k \in DOMAIN nodeQueue : nodeQueue[k].id = i /\ nodeQueue[k].good
        \/ Pending(i, "node")
    BY DEF OutcomeInv, HeardInv
  <2> QED
    BY <1>6, <1>7, <2>1
<1>9. DeletedInv'
  <2> SUFFICES ASSUME NEW i \in Taken \ unasked, asked[i].ask.kind \in {"delete", "change"},
                      asked[i].ask.node \in rows
               PROVE  "row" \in failed'[i] /\ "event" \in failed'[i]
    BY <1>1, <1>2 DEF DeletedInv
  <2>1. /\ "row" \in failed[i] \/ Pending(i, "row")
        /\ \/ "event" \in failed[i] \/ Pending(i, "event")
           \/ \E k \in DOMAIN eventQueue : eventQueue[k] = EventFor(i)
           \/ job = asked[i].ask.node
    BY DEF OutcomeInv, DeletedInv
  <2>2. asked[i].ask.node # 0
    BY TakenType
  <2>3. EventFor(i).id = i
    BY DEF EventFor
  <2> QED
    BY <1>3, <1>6, <1>7, <2>1, <2>2, <2>3
<1> QED
  BY <1>4, <1>8, <1>9 DEF OutcomeInv

\* The parser of M2MManager, or SetupManager, takes a command.
LEMMA TakerOutcome ==
    ASSUME TypeOK, OrderInv, OutcomeInv, TakeCommand \/ TakeCut \/ TakeDatagram
    PROVE  OutcomeInv'
<1>1. /\ manager' = manager /\ asked' = asked /\ nodeQueue' = nodeQueue
      /\ eventQueue' = eventQueue /\ rtd' = rtd /\ job' = job /\ rows' = rows
      /\ radio' = radio /\ failed' = failed
  BY DEF TakeCommand, TakeCut, TakeDatagram, clientVars, queueVars, rtdVars, dbVars
<1>2. ASSUME NEW id \in DOMAIN asked, handled' = Append(handled, id)
      PROVE  Taken' = Taken \union {id} /\ asked[id].ask.node \in Node \union {0}
  <2>1. handled \in Seq(1 .. MaxCommands) /\ id \in 1 .. MaxCommands
    BY AskedType DEF TypeOK
  <2>2. /\ \A k \in DOMAIN handled : k \in DOMAIN handled' /\ handled'[k] = handled[k]
        /\ Len(handled) + 1 \in DOMAIN handled' /\ handled'[Len(handled) + 1] = id
        /\ \A k \in DOMAIN handled' : k \in DOMAIN handled \/ k = Len(handled) + 1
    BY <1>2, <2>1, OneMore
  <2>3. Taken' = Taken \union {id}
    BY <2>2 DEF Taken
  <2> QED
    BY <2>3, AskedType
<1>3. "m2m" \in Front /\ "setup" \in Front
  BY DEF Front
<1>4. \A j \in Headers : buf[j][1] \in DOMAIN asked /\ j \in Nat
  <2>1. PartsSent
    BY OrderParts
  <2> QED
    BY <2>1, HeadersAre DEF PartsSent
<1>5. CASE TakeCommand
  <2> DEFINE j  == First(Whole)
             id == buf[j][1]
  <2>1. /\ ~Busy("m2m") /\ Whole # {} /\ unasked' = unasked /\ handled' = Append(handled, id)
        /\ todo' = [todo EXCEPT !["m2m"] = Packet(id, asked[id].ask.node, j)]
    BY <1>5 DEF TakeCommand
  <2>2. j \in Nat /\ id \in DOMAIN asked
    BY <1>4, <2>1, HeadersAre
  <2> HIDE DEF j, id
  <2>3. Taken' = Taken \union {id} /\ asked[id].ask.node \in Node \union {0}
    BY <1>2, <2>1, <2>2
  <2> QED
    BY <1>1, <1>3, <2>1, <2>2, <2>3, TakeOutcome
<1>6. CASE TakeCut
  <2>1. ~Busy("m2m")
    BY <1>6 DEF TakeCut
  <2>2. PICK j \in Headers, node \in Node \union {0} :
          /\ todo' = [todo EXCEPT !["m2m"] = Packet(buf[j][1], node, j)]
          /\ handled' = Append(handled, buf[j][1])
          /\ unasked' = IF node = asked[buf[j][1]].ask.node THEN unasked
                        ELSE unasked \union {buf[j][1]}
    BY <1>6 DEF TakeCut
  <2> DEFINE id == buf[j][1]
  <2>3. j \in Nat /\ id \in DOMAIN asked
    BY <1>4
  <2>4. unasked \subseteq unasked' /\ (id \notin unasked' => node = asked[id].ask.node)
    BY <2>2
  <2>5. /\ todo' = [todo EXCEPT !["m2m"] = Packet(id, node, j)]
        /\ handled' = Append(handled, id)
    BY <2>2
  <2> HIDE DEF id
  <2>6. Taken' = Taken \union {id}
    BY <1>2, <2>3, <2>5
  <2> QED
    BY <1>1, <1>3, <2>1, <2>3, <2>4, <2>5, <2>6, TakeOutcome
<1>7. CASE TakeDatagram
  <2> DEFINE id == Head(datagrams)
  <2>1. /\ ~Busy("setup") /\ datagrams # <<>> /\ unasked' = unasked
        /\ handled' = Append(handled, id)
        /\ todo' = [todo EXCEPT !["setup"] = Packet(id, asked[id].ask.node, 1)]
    BY <1>7 DEF TakeDatagram, parseVars
  <2>2. id \in DOMAIN asked
    <3>1. datagrams \in Seq(1 .. MaxCommands)
      BY DEF TypeOK
    <3>2. 1 \in DOMAIN datagrams /\ id = datagrams[1]
      BY <2>1, <3>1, OneTaken
    <3> QED
      BY <3>2 DEF OrderInv, DatagramInv
  <2> HIDE DEF id
  <2>3. Taken' = Taken \union {id} /\ asked[id].ask.node \in Node \union {0}
    BY <1>2, <2>1, <2>2
  <2> QED
    BY <1>1, <1>3, <2>1, <2>2, <2>3, TakeOutcome
<1> QED
  BY <1>5, <1>6, <1>7

\* M2MManager ends: it had no command to work on.
LEMMA CrashOutcome ==
    ASSUME TypeOK, OutcomeInv, ParseCrashes \/ ListenFails
    PROVE  OutcomeInv'
<1>1. /\ manager' = manager /\ asked' = asked /\ unasked' = unasked
      /\ nodeQueue' = nodeQueue /\ eventQueue' = eventQueue /\ rtd' = rtd /\ job' = job
      /\ rows' = rows /\ radio' = radio /\ handled' = handled /\ failed' = failed
      /\ ~Busy("m2m") /\ todo' = [todo EXCEPT !["m2m"] = Nothing]
  BY DEF ParseCrashes, ListenFails, Die, queueVars, rtdVars, dbVars, logVars
<1>2. "m2m" \in Front /\ Nothing \in Task
  BY RemoteCommandsAssumption DEF Front, Nothing, Task
<1>3. todo'["m2m"] = Nothing /\ \A g \in Front : g # "m2m" => todo'[g] = todo[g]
  BY <1>1, <1>2, TaskGiven
<1>4. Taken' = Taken
  BY <1>1 DEF Taken
<1>5. ASSUME NEW i, NEW c, Pending(i, c) PROVE Pending(i, c)'
  <2>1. PICK g \in Front : todo[g].id = i /\ \E k \in DOMAIN todo[g].calls : todo[g].calls[k] = c
    BY <1>5 DEF Pending
  <2>2. g # "m2m"
    BY <1>1, <2>1 DEF Busy
  <2> QED
    BY <1>3, <2>1, <2>2 DEF Pending
<1>6. TaskInv'
  <2>1. \A g \in Front : Busy(g)' => g # "m2m" /\ Busy(g)
    BY <1>3 DEF Busy, Nothing
  <2> QED
    BY <1>1, <1>3, <2>1 DEF OutcomeInv, TaskInv
<1>7. JobInv'
  BY <1>1 DEF OutcomeInv, JobInv
<1>8. HeardInv'
  BY <1>1, <1>4, <1>5 DEF OutcomeInv, HeardInv
<1>9. DeletedInv'
  BY <1>1, <1>4, <1>5 DEF OutcomeInv, DeletedInv, EventFor
<1> QED
  BY <1>6, <1>7, <1>8, <1>9 DEF OutcomeInv

LEMMA StepOutcome ==
    ASSUME TypeOK, OrderInv, OutcomeInv, [Next]_vars
    PROVE  OutcomeInv'
<1>1. CASE \/ ClientLeaves \/ ClientConnects \/ EndSession \/ Receive \/ ParseEnds
           \/ OtherLocks \/ OtherUnlocks \/ UNCHANGED vars
  BY <1>1, OtherOutcome
     DEF ClientLeaves, ClientConnects, EndSession, Receive, ParseEnds, OtherLocks, OtherUnlocks,
         vars, parseVars, queueVars, rtdVars, dbVars, logVars, clientVars
<1>2. CASE \E ask \in Ask["m2m"] : ClientSends(ask)
  <2>1. PICK ask \in Ask["m2m"] : ClientSends(ask)
    BY <1>2
  <2>2. [front |-> "m2m", ask |-> ask] \in [front : Front, ask : Command]
    BY AskType DEF Front
  <2> QED
    BY <2>1, <2>2, MoreOutcome DEF ClientSends, parseVars, queueVars, rtdVars, dbVars, logVars
<1>3. CASE \E ask \in Ask["setup"] : SendDatagram(ask)
  <2>1. PICK ask \in Ask["setup"] : SendDatagram(ask)
    BY <1>3
  <2>2. [front |-> "setup", ask |-> ask] \in [front : Front, ask : Command]
    BY AskType DEF Front
  <2> QED
    BY <2>1, <2>2, MoreOutcome DEF SendDatagram, parseVars, queueVars, rtdVars, dbVars, logVars
<1>4. CASE TakeCommand \/ TakeCut \/ TakeDatagram
  BY <1>4, TakerOutcome
<1>5. CASE ParseCrashes \/ ListenFails
  BY <1>5, CrashOutcome
<1>6. CASE PackStep
  BY <1>6, PackOutcome
<1>7. CASE TakeNode \/ TakeForUart \/ PutAnswer
  BY <1>7, ReaderOutcome
<1>8. CASE TakeEvent \/ Begin \/ DeleteAndEnd
  BY <1>8, RtdOutcome
<1>9. CASE Restart
  BY <1>9, RestartOutcome
<1> QED
  BY <1>1, <1>2, <1>3, <1>4, <1>5, <1>6, <1>7, <1>8, <1>9 DEF Next, Work

-----------------------------------------------------------------------------
(* The theorems.                                                           *)

IInv == TypeOK /\ OrderInv /\ OutcomeInv

LEMMA InitSound ==
    ASSUME Init
    PROVE  IInv
<1>1. TypeOK
  BY InitTypes
<1>2. /\ asked = <<>> /\ line = <<>> /\ datagrams = <<>> /\ buf = <<>> /\ at = 0
      /\ garbled = FALSE /\ handled = <<>> /\ todo = [f \in Front |-> Nothing] /\ job = 0
      /\ \E f : pc = MainM2M("m2m" \notin f)
  BY DEF Init
<1>3. pc # "parse" /\ Taken = {} /\ \A f \in Front : ~Busy(f)
  BY <1>2 DEF MainM2M, Taken, Busy, Nothing
<1>4. Stream = <<>>
  BY <1>2 DEF Stream
<1>5. StreamInv
  BY <1>2, <1>4 DEF StreamInv, Chain
<1>6. PlaceInv /\ HandledInv /\ DatagramInv /\ HandledOnceInOrder
  BY <1>2, <1>3 DEF PlaceInv, HandledInv, DatagramInv, HandledOnceInOrder
<1>7. TakenInv
  BY <1>2 DEF TakenInv
<1>8. TaskInv /\ JobInv /\ HeardInv /\ DeletedInv
  BY <1>2, <1>3 DEF TaskInv, JobInv, HeardInv, DeletedInv
<1> QED
  BY <1>1, <1>5, <1>6, <1>7, <1>8 DEF IInv, OrderInv, OutcomeInv

LEMMA StepSound ==
    ASSUME IInv, [Next]_vars
    PROVE  IInv'
<1>1. TypeOK /\ OrderInv /\ OutcomeInv
  BY DEF IInv
<1>2. TypeOK'
  <2>1. TasksSent
    BY <1>1 DEF OutcomeInv, TaskInv, TasksSent
  <2> QED
    BY <1>1, <2>1, OrderParts, StepTypes
<1> QED
  BY <1>1, <1>2, StepOrder, StepOutcome DEF IInv

\* The inductive invariant: the types, the order in which commands are on their
\* way to M2MManager and SetupManager, and where the work for each of those
\* taken is.
THEOREM AlwaysSound == Spec => []IInv
  BY InitSound, StepSound, PTL DEF Spec

\* Every variable keeps its type: the places of the parser in the receive
\* buffer, the numbers of the commands in the queues, and the calls that a
\* process has still to make.
THEOREM TypeCorrect == Spec => []TypeOK
<1>1. IInv => TypeOK
  BY DEF IInv
<1> QED
  BY <1>1, AlwaysSound, PTL

\* M2MManager and SetupManager take each command at most once, and those of
\* one client in the order in which they were sent, wherever recv has cut the
\* stream and whatever ParsingReceiveValue leaves in the buffer.
THEOREM TakenOnceInOrder == Spec => []HandledOnceInOrder
<1>1. IInv => HandledOnceInOrder
  BY DEF IInv, OrderInv
<1> QED
  BY <1>1, AlwaysSound, PTL

\* When ParsingReceiveValue has come to the end of the buffer, every command
\* of which all was read was taken, unless a read had cut it or M2MManager was
\* started again.
THEOREM NoneLeftBehind == Spec => []CommandsTaken
<1>1. IInv => CommandsTaken
  <2> SUFFICES ASSUME IInv, pc = "recv", NEW i \in DOMAIN asked \ Ids(line),
                      asked[i].front = "m2m"
               PROVE  i \in cut \union Taken \/ boots > 0
    BY DEF CommandsTaken, Taken
  <2>1. TakenInv /\ boots \in Nat
    BY DEF IInv, OrderInv, TypeOK
  <2>2. CASE boots = 0
    BY <2>1, <2>2 DEF TakenInv
  <2>3. CASE boots # 0
    BY <2>1, <2>3
  <2> QED
    BY <2>2, <2>3
<1> QED
  BY <1>1, AlwaysSound, PTL

LEMMA NoneLeftToCall ==
    ASSUME NEW i, Done(i)
    PROVE  i \in Taken /\ \A c : ~Pending(i, c)
  BY DEF Done, Taken, Pending, Busy

\* A command to delete or change a node leaves its row in tb_comm_status only
\* when Pack_Manager has found the database locked and the event for
\* RealTimeDataManager was refused, of the wrong length, or lost in a restart,
\* or is still to be done.
THEOREM RowsDeleted == Spec => []DeletedUnlessExplained
<1>1. IInv => DeletedUnlessExplained
  <2> SUFFICES ASSUME IInv, NEW i \in DOMAIN asked \ unasked, Done(i),
                      asked[i].ask.kind \in {"delete", "change"}, asked[i].ask.node \in rows
               PROVE  /\ "row" \in failed[i]
                      /\ \/ "event" \in failed[i]
                         \/ \E k \in DOMAIN eventQueue : eventQueue[k].node = asked[i].ask.node
                         \/ job = asked[i].ask.node
    BY DEF DeletedUnlessExplained
  <2>1. i \in Taken /\ ~Pending(i, "row") /\ ~Pending(i, "event")
    BY NoneLeftToCall
  <2>2. /\ "row" \in failed[i]
        /\ \/ "event" \in failed[i]
           \/ \E k \in DOMAIN eventQueue : eventQueue[k] = EventFor(i)
           \/ job = asked[i].ask.node
    BY <2>1 DEF IInv, OutcomeInv, DeletedInv
  <2>3. EventFor(i).node = asked[i].ask.node
    BY DEF EventFor
  <2> QED
    BY <2>2, <2>3
<1> QED
  BY <1>1, AlwaysSound, PTL

\* A command to change or reboot a node is written to the network by
\* CommManager, or is in queue 2222, or was refused, of the wrong length, or
\* lost in a restart.
THEOREM NodesTold == Spec => []HeardUnlessExplained
<1>1. IInv => HeardUnlessExplained
  <2> SUFFICES ASSUME IInv, NEW i \in DOMAIN asked \ unasked, Done(i),
                      asked[i].ask.kind \in {"change", "reboot"}, manager = "comm"
               PROVE  \/ "node" \in failed[i]
                      \/ \E k \in DOMAIN radio : radio[k] = i
                      \/ \E k \in DOMAIN nodeQueue : nodeQueue[k].id = i
    BY DEF HeardUnlessExplained
  <2>1. i \in Taken /\ ~Pending(i, "node")
    BY NoneLeftToCall
  <2> QED
    BY <2>1 DEF IInv, OutcomeInv, HeardInv
<1> QED
  BY <1>1, AlwaysSound, PTL

\* Once queue 2222 holds nothing but answers of UartManager and is full, it
\* stays so until the gateway restarts: nobody receives messages of type 2.
THEOREM FullUntilRestart == Spec => MuteForGood
<1> DEFINE Stays == FullOfAnswers => FullOfAnswers' \/ boots' > boots
<1>1. ASSUME TypeOK, [Next]_vars, FullOfAnswers PROVE FullOfAnswers' \/ boots' > boots
  <2>1. QueueCap \in Nat /\ boots \in Nat /\ Len(nodeQueue) = QueueCap /\ Commands = {}
    BY <1>1, RemoteCommandsAssumption DEF TypeOK, FullOfAnswers
  <2>2. ASSUME nodeQueue' = nodeQueue PROVE FullOfAnswers'
    BY <2>1, <2>2 DEF FullOfAnswers, Commands
  <2>3. CASE Restart
    BY <2>1, <2>3 DEF Restart
  <2>4. CASE PackStep
    <3>1. ~(Len(nodeQueue) < QueueCap)
      BY <2>1
    <3>2. nodeQueue' = nodeQueue
      BY <1>1, <2>4, <3>1, PackShape
         DEF NodePut, EventPut, RowDone, Told, Ended, queueVars
    <3> QED
      BY <2>2, <3>2
  <2>5. CASE TakeNode \/ TakeForUart
    BY <2>1, <2>5 DEF TakeNode, TakeForUart
  <2>6. CASE PutAnswer
    <3>1. nodeQueue' = nodeQueue
      BY <2>1, <2>6 DEF PutAnswer
    <3> QED
      BY <2>2, <3>1
  <2>7. CASE \/ \E ask \in Ask["m2m"] : ClientSends(ask)
             \/ \E ask \in Ask["setup"] : SendDatagram(ask)
             \/ ClientConnects \/ ClientLeaves \/ EndSession \/ OtherLocks \/ OtherUnlocks
             \/ Receive \/ TakeCommand \/ TakeCut \/ ParseEnds \/ ParseCrashes
             \/ ListenFails \/ TakeDatagram
    BY <2>2, <2>7
       DEF ClientSends, SendDatagram, ClientConnects, ClientLeaves, EndSession, OtherLocks,
           OtherUnlocks, Receive, TakeCommand, TakeCut, ParseEnds, ParseCrashes, ListenFails,
           TakeDatagram, queueVars
  <2>8. CASE TakeEvent \/ Begin \/ DeleteAndEnd \/ UNCHANGED vars
    BY <2>2, <2>8 DEF TakeEvent, Begin, DeleteAndEnd, vars, queueVars
  <2> QED
    BY <1>1, <2>3, <2>4, <2>5, <2>6, <2>7, <2>8 DEF Next, Work
<1>2. TypeOK /\ [Next]_vars => [Stays]_vars
  BY <1>1
<1>3. MuteForGood <=> [][Stays]_vars
  BY PTL DEF MuteForGood
<1> QED
  BY <1>2, <1>3, TypeCorrect, PTL DEF Spec
=============================================================================
