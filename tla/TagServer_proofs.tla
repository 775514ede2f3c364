-------------------------- MODULE TagServer_proofs --------------------------
(***************************************************************************)
(* What TagServer guarantees for every queue capacity, every send buffer,  *)
(* every number of transducers and every descriptor limit: every report    *)
(* put on the queue is accounted for, and delivered in order and at most   *)
(* once, so that TagServer implements ReportChannel; the registration      *)
(* comes before the reports; and handles left open cut tagServer off for   *)
(* good.                                                                   *)
(***************************************************************************)
EXTENDS TagServer, TLAPS

LEMMA RegCountType == RegCount \in Nat /\ RegCount >= 4
  BY TagServerAssumption DEF RegCount

\* TypeOK in three parts, for the queue, the process and the link.  The second
\* says more than TypeOK, which is not inductive: a start-up that goes on has
\* a try left.
QueueType == log \in Seq(Message) /\ queue \in Seq(Nat)

ServerType ==
    /\ pc \in PcValues
    /\ booting \in BOOLEAN
    /\ startTries \in 0 .. 3
    /\ regTries \in 0 .. 3
    /\ reg \in 1 .. RegCount
    /\ leaked \in Nat
    /\ hand \in Nat
    /\ booting /\ pc # "dead" => startTries > 0

LinkType ==
    /\ conn \in ConnValues
    /\ wire \in Seq(Packet)
    /\ acks \in Nat
    /\ registered \in SUBSET (1 .. RegCount)
    /\ delivered \in Seq(Nat)
    /\ lost \in SUBSET Nat
    /\ faults \in Nat

TypeInv == QueueType /\ ServerType /\ LinkType

LEMMA TypeInvType == TypeInv => TypeOK
  BY DEF TypeInv, QueueType, ServerType, LinkType, TypeOK

LEMMA InitType == Init => TypeInv
  BY RegCountType DEF Init, TypeInv, QueueType, ServerType, LinkType, PcValues, ConnValues

LEMMA UnreadType == LinkType => Unread \in SUBSET Nat
  BY DEF Unread, LinkType

\* init() gives up one try, or the loop of main goes on without a connection.
LEMMA InitFailsType ==
    ASSUME ServerType, InitFails, UNCHANGED <<booting, reg, leaked, hand>>, pc # "dead"
    PROVE  ServerType'
  BY DEF ServerType, InitFails, CallInit, PcValues

\* An attempt to register that failed leaves everything in range, whatever
\* answers it left unread.
LEMMA AttemptFailsType ==
    ASSUME NEW left \in SUBSET Nat, ServerType, LinkType, AttemptFails(left),
           pc # "dead", leaked' \in Nat, faults' \in Nat,
           UNCHANGED <<booting, reg, hand, registered, delivered, lost>>
    PROVE  ServerType' /\ LinkType'
<1>1. CASE regTries > 1
  <2>1. acks' \in Nat
    BY <1>1 DEF AttemptFails
  <2> QED
    BY <1>1, <2>1 DEF AttemptFails, ServerType, LinkType, PcValues, ConnValues
<1>2. CASE ~(regTries > 1)
  <2>1. InitFails /\ conn' = "none" /\ wire' = <<>> /\ acks' = 0
    BY <1>2 DEF AttemptFails
  <2>2. ServerType'
    BY <2>1 DEF ServerType, InitFails, CallInit, PcValues
  <2> QED
    BY <2>1, <2>2 DEF LinkType, ConnValues
<1> QED
  BY <1>1, <1>2

LEMMA WriteType ==
    ASSUME NEW p \in Packet, LinkType PROVE Append(wire, p) \in Seq(Packet)
  BY DEF LinkType

\* Each step keeps every variable in its range.
LEMMA StepType == TypeInv /\ [Next]_vars => TypeInv'
<1> SUFFICES ASSUME TypeInv, [Next]_vars PROVE TypeInv'
  OBVIOUS
<1>a. QueueType /\ ServerType /\ LinkType
  BY DEF TypeInv
<1>1. CASE Connect
  BY <1>1, <1>a DEF Connect, TypeInv, QueueType, ServerType, LinkType, queueVars,
     PcValues, ConnValues
<1>2. CASE ConnectFails
  <2>1. ServerType'
    BY <1>2, <1>a, InitFailsType DEF ConnectFails
  <2>2. QueueType' /\ LinkType'
    BY <1>2, <1>a DEF ConnectFails, QueueType, LinkType, queueVars
  <2> QED
    BY <2>1, <2>2 DEF TypeInv
<1>3. CASE OpenDatabase
  BY <1>3, <1>a, RegCountType DEF OpenDatabase, TypeInv, QueueType, ServerType, LinkType,
     queueVars, linkVars, PcValues
<1>4. CASE OpenDatabaseFails
  <2>1. QueueType'
    BY <1>4, <1>a DEF OpenDatabaseFails, QueueType, queueVars
  <2>2. leaked' \in Nat /\ faults' \in Nat /\ {acks} \in SUBSET Nat
    BY <1>4, <1>a DEF OpenDatabaseFails, ServerType, LinkType
  <2>3. ServerType' /\ LinkType'
    BY <1>4, <1>a, <2>2, AttemptFailsType DEF OpenDatabaseFails
  <2> QED
    BY <2>1, <2>3 DEF TypeInv
<1>5. CASE SendRegPacket
  <2>1. RegPacket(reg) \in Packet
    BY <1>a, RegCountType DEF RegPacket, Packet, ServerType
  <2>2. wire' \in Seq(Packet)
    BY <1>5, <1>a, <2>1, WriteType DEF SendRegPacket, VanishInto, LinkType
  <2> QED
    BY <1>5, <1>a, <2>2 DEF SendRegPacket, VanishInto, TypeInv, QueueType, ServerType,
       LinkType, queueVars, PcValues, ConnValues
<1>b. ASSUME NEW left \in SUBSET Nat, RegistrationFails(left), pc # "dead", faults' \in Nat
      PROVE  TypeInv'
  <2>1. QueueType'
    BY <1>a, <1>b DEF RegistrationFails, QueueType, queueVars
  <2>2. leaked' \in Nat
    BY <1>a, <1>b DEF RegistrationFails, ServerType
  <2>3. ServerType' /\ LinkType'
    BY <1>a, <1>b, <2>2, AttemptFailsType DEF RegistrationFails
  <2> QED
    BY <2>1, <2>3 DEF TypeInv
<1>6. CASE SendRegPacketFails
  <2>1. {acks} \in SUBSET Nat /\ faults' \in Nat
    BY <1>6, <1>a DEF SendRegPacketFails, LinkType
  <2> QED
    BY <1>6, <1>b, <2>1 DEF SendRegPacketFails
<1>c. ASSUME acks' \in Unread PROVE acks' \in Nat
  BY <1>a, <1>c, UnreadType
<1>7. CASE RegPacketAnswered
  <2>1. acks' \in Nat
    BY <1>7, <1>c DEF RegPacketAnswered
  <2>2. ServerType'
    <3>1. CASE reg < RegCount
      BY <1>7, <1>a, <3>1, RegCountType
         DEF RegPacketAnswered, NextPacket, ServerType, PcValues
    <3>2. CASE ~(reg < RegCount)
      BY <1>7, <1>a, <3>2 DEF RegPacketAnswered, NextPacket, ServerType, PcValues
    <3> QED
      BY <3>1, <3>2
  <2>3. QueueType'
    BY <1>7, <1>a DEF RegPacketAnswered, QueueType, queueVars
  <2>4. LinkType'
    BY <1>7, <1>a, <2>1 DEF RegPacketAnswered, LinkType
  <2> QED
    BY <2>2, <2>3, <2>4 DEF TypeInv
<1>8. CASE RegPacketTimesOut
  <2>1. {0} \in SUBSET Nat /\ faults' \in Nat
    BY <1>8, <1>a DEF RegPacketTimesOut, LinkType
  <2> QED
    BY <1>8, <1>b, <2>1 DEF RegPacketTimesOut
<1>9. CASE NoTransducerRows
  <2>1. acks' \in Nat
    BY <1>9, <1>c DEF NoTransducerRows
  <2>2. QueueType' /\ ServerType'
    BY <1>9, <1>a DEF NoTransducerRows, QueueType, ServerType, queueVars, PcValues
  <2>3. LinkType'
    BY <1>9, <1>a, <2>1 DEF NoTransducerRows, LinkType
  <2> QED
    BY <2>2, <2>3 DEF TypeInv
<1>10. CASE NoTransducerRowsFails
  <2>1. Unread \in SUBSET Nat /\ faults' \in Nat
    BY <1>10, <1>a, UnreadType DEF NoTransducerRowsFails, LinkType
  <2> QED
    BY <1>10, <1>b, <2>1 DEF NoTransducerRowsFails
<1>11. CASE DiscardAnswers
  BY <1>11, <1>a, <1>c DEF DiscardAnswers, TypeInv, QueueType, ServerType, LinkType,
     queueVars, PcValues
<1>12. CASE QueueEmpty
  BY <1>12, <1>a DEF QueueEmpty, TypeInv, QueueType, ServerType, LinkType, queueVars,
     linkVars, PcValues
<1>13. CASE Dequeue
  <2>1. Head(queue) \in Nat /\ queue' \in Seq(Nat)
    BY <1>13, <1>a DEF Dequeue, QueueType
  <2> QED
    BY <1>13, <1>a, <2>1 DEF Dequeue, TypeInv, QueueType, ServerType, LinkType, PcValues
<1>14. CASE SendReport
  <2>1. ReportPacket(hand) \in Packet
    BY <1>a DEF ReportPacket, Packet, ServerType
  <2>2. wire' \in Seq(Packet)
    BY <1>14, <1>a, <2>1, WriteType DEF SendReport, VanishInto, LinkType
  <2>3. lost' \in SUBSET Nat
    BY <1>14, <1>a DEF SendReport, ServerType, LinkType
  <2> QED
    BY <1>14, <1>a, <2>2, <2>3 DEF SendReport, VanishInto, TypeInv, QueueType, ServerType,
       LinkType, queueVars, PcValues, ConnValues
<1>15. CASE SendReportFails
  BY <1>15, <1>a DEF SendReportFails, CallInit, TypeInv, QueueType, ServerType, LinkType,
     queueVars, PcValues, ConnValues
<1>16. CASE MiddlewareReads
  <2>1. Head(wire) \in Packet /\ wire' \in Seq(Packet)
    BY <1>16, <1>a DEF MiddlewareReads, LinkType
  <2>2. registered' \in SUBSET (1 .. RegCount) /\ delivered' \in Seq(Nat)
    <3>1. CASE Head(wire).kind = "reg"
      <4>1. Head(wire).n \in 1 .. RegCount
        BY <2>1, <3>1 DEF Packet
      <4> QED
        BY <1>16, <1>a, <3>1, <4>1 DEF MiddlewareReads, LinkType
    <3>2. CASE Head(wire).kind # "reg"
      <4>1. Head(wire).n \in Nat
        BY <2>1, RegCountType DEF Packet
      <4>2. UNCHANGED registered /\ delivered' = Append(delivered, Head(wire).n)
        BY <1>16, <3>2 DEF MiddlewareReads
      <4> QED
        BY <1>a, <4>1, <4>2 DEF LinkType
    <3> QED
      BY <3>1, <3>2
  <2>3. LinkType'
    BY <1>16, <1>a, <2>1, <2>2 DEF MiddlewareReads, LinkType
  <2> QED
    BY <1>16, <1>a, <2>3 DEF MiddlewareReads, TypeInv, QueueType, ServerType, queueVars,
       serverVars
<1>17. CASE ConnectionBreaks
  <2>1. Reports(wire) \in SUBSET Nat
    <3>1. \A i \in DOMAIN wire : wire[i] \in Packet
      BY <1>a DEF LinkType
    <3> QED
      BY <3>1, RegCountType DEF Reports, Packet
  <2>2. lost' \in SUBSET Nat
    BY <1>17, <1>a, <2>1 DEF ConnectionBreaks, LinkType
  <2>3. LinkType'
    BY <1>17, <1>a, <2>2 DEF ConnectionBreaks, LinkType, ConnValues
  <2> QED
    BY <1>17, <1>a, <2>3 DEF ConnectionBreaks, TypeInv, QueueType, ServerType, queueVars,
       serverVars
<1>18. CASE Produce
  BY <1>18, <1>a DEF Produce, Post, TypeInv, QueueType, ServerType, LinkType, serverVars,
     linkVars
<1>19. CASE UNCHANGED vars
  BY <1>19, <1>a DEF vars, TypeInv, QueueType, ServerType, LinkType, queueVars, serverVars,
     linkVars
<1> QED
  BY <1>1, <1>2, <1>3, <1>4, <1>5, <1>6, <1>7, <1>8, <1>9, <1>10, <1>11, <1>12,
     <1>13, <1>14, <1>15, <1>16, <1>17, <1>18, <1>19
     DEF Next, ServerStep, LinkStep

\* In every reachable state every variable is in its range: startTries and
\* regTries never fall below zero and reg never passes the last packet.
THEOREM TypeCorrect == Spec => []TypeOK
<1>1. TypeInv /\ [Next]_vars => TypeInv'
  BY StepType
<1> QED
  BY <1>1, InitType, TypeInvType, PTL DEF Spec

-----------------------------------------------------------------------------
(* Packets and numbers in sequences.                                       *)

\* The reports of a connection leave it in the order of their numbers.
WireOrdered(w) ==
    \A i, j \in DOMAIN w :
        i < j /\ w[i].kind = "report" /\ w[j].kind = "report" => w[i].n < w[j].n

LEMMA ReportsEmpty == Reports(<<>>) = {} /\ WireOrdered(<<>>)
  BY DEF Reports, WireOrdered

LEMMA ReportsMember ==
    ASSUME NEW w \in Seq(Packet), NEW x
    PROVE  x \in Reports(w) <=> \E i \in DOMAIN w : w[i].kind = "report" /\ w[i].n = x
  BY DEF Reports

LEMMA PacketType == ASSUME NEW p \in Packet PROVE p.n \in Nat
  BY RegCountType DEF Packet

LEMMA AppendReg ==
    ASSUME NEW w \in Seq(Packet), NEW r \in 1 .. RegCount, WireOrdered(w)
    PROVE  /\ Reports(Append(w, RegPacket(r))) = Reports(w)
           /\ WireOrdered(Append(w, RegPacket(r)))
<1> DEFINE v == Append(w, RegPacket(r))
<1>1. v \in Seq(Packet) /\ DOMAIN v = 1 .. Len(w) + 1 /\ DOMAIN w = 1 .. Len(w)
      /\ Len(w) \in Nat
  BY RegCountType DEF RegPacket, Packet
<1>2. \A i \in DOMAIN w : v[i] = w[i]
  OBVIOUS
<1>3. v[Len(w) + 1].kind # "report"
  BY DEF RegPacket
<1> HIDE DEF v
<1>4. ASSUME NEW x PROVE x \in Reports(v) <=> x \in Reports(w)
  BY <1>1, <1>2, <1>3, ReportsMember
<1>5. WireOrdered(v)
  BY <1>1, <1>2, <1>3 DEF WireOrdered
<1> QED
  BY <1>4, <1>5 DEF v

LEMMA AppendReport ==
    ASSUME NEW w \in Seq(Packet), NEW m \in Nat, WireOrdered(w),
           \A x \in Reports(w) : x < m
    PROVE  /\ Reports(Append(w, ReportPacket(m))) = Reports(w) \union {m}
           /\ WireOrdered(Append(w, ReportPacket(m)))
<1> DEFINE v == Append(w, ReportPacket(m))
<1>1. v \in Seq(Packet) /\ DOMAIN v = 1 .. Len(w) + 1 /\ DOMAIN w = 1 .. Len(w)
      /\ Len(w) \in Nat
  BY DEF ReportPacket, Packet
<1>2. \A i \in DOMAIN w : v[i] = w[i]
  OBVIOUS
<1>3. v[Len(w) + 1].kind = "report" /\ v[Len(w) + 1].n = m
  BY DEF ReportPacket
<1>4. \A i \in DOMAIN w : w[i].kind = "report" => w[i].n < m
  BY ReportsMember
<1> HIDE DEF v
<1>5. ASSUME NEW x PROVE x \in Reports(v) <=> x \in Reports(w) \/ x = m
  BY <1>1, <1>2, <1>3, ReportsMember
<1>6. WireOrdered(v)
  <2> SUFFICES ASSUME NEW i \in DOMAIN v, NEW j \in DOMAIN v, i < j,
                      v[i].kind = "report", v[j].kind = "report"
               PROVE  v[i].n < v[j].n
    BY DEF WireOrdered
  <2>1. i \in DOMAIN w
    BY <1>1
  <2>2. CASE j \in DOMAIN w
    BY <1>2, <2>1, <2>2 DEF WireOrdered
  <2>3. CASE j = Len(w) + 1
    BY <1>2, <1>3, <1>4, <2>1, <2>3
  <2> QED
    BY <1>1, <2>2, <2>3
<1> QED
  BY <1>5, <1>6 DEF v

LEMMA TailReports ==
    ASSUME NEW w \in Seq(Packet), w # <<>>, WireOrdered(w)
    PROVE  /\ WireOrdered(Tail(w))
           /\ Head(w).kind = "report" =>
                /\ Reports(w) = Reports(Tail(w)) \union {Head(w).n}
                /\ \A x \in Reports(Tail(w)) : Head(w).n < x
           /\ Head(w).kind # "report" => Reports(w) = Reports(Tail(w))
<1> DEFINE v == Tail(w)
<1>1. /\ v \in Seq(Packet) /\ Len(w) \in Nat \ {0}
      /\ DOMAIN w = 1 .. Len(w) /\ DOMAIN v = 1 .. Len(w) - 1
  OBVIOUS
<1>2. \A i \in DOMAIN v : v[i] = w[i + 1] /\ i + 1 \in DOMAIN w
  OBVIOUS
<1>3. Head(w) = w[1] /\ 1 \in DOMAIN w
  OBVIOUS
<1> HIDE DEF v
<1>4. \A i \in DOMAIN w : i # 1 => i - 1 \in DOMAIN v /\ w[i] = v[i - 1]
  BY <1>1, <1>2
<1>5. WireOrdered(v)
  <2> SUFFICES ASSUME NEW i \in DOMAIN v, NEW j \in DOMAIN v, i < j,
                      v[i].kind = "report", v[j].kind = "report"
               PROVE  v[i].n < v[j].n
    BY DEF WireOrdered
  <2>1. i + 1 < j + 1
    BY <1>1
  <2> QED
    BY <1>2, <2>1 DEF WireOrdered
<1>6. ASSUME NEW x
      PROVE  x \in Reports(w) <=> \/ x \in Reports(v)
                                  \/ w[1].kind = "report" /\ w[1].n = x
  <2>1. x \in Reports(w) <=> \E i \in DOMAIN w : w[i].kind = "report" /\ w[i].n = x
    BY ReportsMember
  <2>2. x \in Reports(v) <=> \E i \in DOMAIN v : v[i].kind = "report" /\ v[i].n = x
    BY <1>1, ReportsMember
  <2>3. ASSUME NEW i \in DOMAIN w, w[i].kind = "report", w[i].n = x, i # 1
        PROVE  x \in Reports(v)
    BY <1>4, <2>2, <2>3
  <2>4. ASSUME NEW i \in DOMAIN v, v[i].kind = "report", v[i].n = x
        PROVE  x \in Reports(w)
    BY <1>2, <2>1, <2>4
  <2> QED
    BY <1>3, <2>1, <2>2, <2>3, <2>4
<1>7. ASSUME w[1].kind = "report", NEW x \in Reports(v) PROVE w[1].n < x
  <2>1. PICK i \in DOMAIN v : v[i].kind = "report" /\ v[i].n = x
    BY <1>1, ReportsMember
  <2>2. 1 < i + 1
    BY <1>1
  <2> QED
    BY <1>2, <1>3, <1>7, <2>1, <2>2 DEF WireOrdered
<1> QED
  BY <1>3, <1>5, <1>6, <1>7 DEF v

LEMMA NumbersAppend ==
    ASSUME NEW s \in Seq(Nat), NEW x \in Nat
    PROVE  Numbers(Append(s, x)) = Numbers(s) \union {x}
<1> DEFINE t == Append(s, x)
<1>1. /\ Len(s) \in Nat /\ DOMAIN s = 1 .. Len(s) /\ DOMAIN t = 1 .. Len(s) + 1
      /\ \A i \in DOMAIN s : t[i] = s[i]
      /\ t[Len(s) + 1] = x
  OBVIOUS
<1> HIDE DEF t
<1> QED
  BY <1>1 DEF Numbers, t

-----------------------------------------------------------------------------
(* What becomes of the reports: the inductive invariant.                   *)

\* Reports 1 .. Taken have left the queue.
Taken == Len(log) - Len(queue)

\* The queue holds the last reports in order.
QueueInv ==
    /\ Taken \in Nat
    /\ \A i \in DOMAIN queue : queue[i] = Taken + i

\* tagServer holds at most the report it took last.
HandInv ==
    /\ hand # 0 => hand = Taken
    /\ hand # 0 <=> pc = "report"

\* A connection carries no report before the registration is over, and
\* nothing once it is broken.
LinkInv ==
    /\ conn # "up" => wire = <<>>
    /\ pc = "connect" => conn = "none"
    /\ pc \in {"connect", "opendb", "regsend", "regwait"} => Reports(wire) = {}

\* What was delivered, what is on the wire and what is in hand are in this
\* order, and all of it has left the queue.
OrderInv ==
    /\ WireOrdered(wire)
    /\ DeliveredInOrder
    /\ \A x \in Numbers(delivered), y \in Reports(wire) : x < y
    /\ \A x \in Numbers(delivered) \union Reports(wire) : x \in 1 .. Taken /\ x # hand

\* What has left the queue and is nowhere else is lost, and nothing else is.
FateInv ==
    /\ lost \subseteq 1 .. Taken
    /\ lost \intersect (InHand \union Reports(wire) \union Numbers(delivered)) = {}
    /\ 1 .. Taken \subseteq lost \union InHand \union Reports(wire) \union Numbers(delivered)

IInv == QueueInv /\ HandInv /\ LinkInv /\ OrderInv /\ FateInv

-----------------------------------------------------------------------------

LEMMA InitIInv == Init => IInv
<1> SUFFICES ASSUME Init PROVE IInv
  OBVIOUS
<1>1. Reports(wire) = {} /\ WireOrdered(wire) /\ Numbers(delivered) = {} /\ Taken = 0
  BY ReportsEmpty DEF Init, Numbers, Taken
<1> QED
  BY <1>1 DEF Init, IInv, QueueInv, HandInv, LinkInv, OrderInv, FateInv, InHand,
     DeliveredInOrder

\* A step that moves no report: it changes neither the queue, nor the report
\* in hand, nor what was delivered or lost, nor the reports on the wire.
LEMMA QuietStep ==
    ASSUME IInv, UNCHANGED <<log, queue, hand, delivered, lost>>,
           pc # "report", pc' # "report",
           Reports(wire') = Reports(wire), WireOrdered(wire'), LinkInv'
    PROVE  IInv'
<1>1. Taken' = Taken /\ Numbers(delivered)' = Numbers(delivered) /\ InHand' = InHand
      /\ Reports(wire)' = Reports(wire) /\ WireOrdered(wire)'
  BY DEF Taken, Numbers, InHand, Reports, WireOrdered
<1>2. QueueInv' /\ HandInv'
  BY <1>1 DEF IInv, QueueInv, HandInv
<1>3. OrderInv'
  BY <1>1 DEF IInv, OrderInv, DeliveredInOrder
<1>4. FateInv'
  BY <1>1 DEF IInv, FateInv
<1> QED
  BY <1>2, <1>3, <1>4 DEF IInv

\* The connection is given up, or kept, after a failed attempt to register:
\* no report was on it.
LEMMA AttemptFailsIInv ==
    ASSUME IInv, NEW left, AttemptFails(left), UNCHANGED <<log, queue, hand, delivered, lost>>,
           pc \in {"opendb", "regsend", "regwait"}
    PROVE  IInv'
<1>1. pc # "report" /\ Reports(wire) = {} /\ WireOrdered(wire)
  BY DEF IInv, LinkInv, OrderInv
<1>2. pc' \in {"opendb", "connect", "poll", "dead"}
  BY DEF AttemptFails, InitFails, CallInit
<1>3. \/ wire' = wire /\ conn' = conn /\ pc' = "opendb"
      \/ wire' = <<>> /\ conn' = "none"
  BY DEF AttemptFails
<1>4. Reports(wire') = {} /\ WireOrdered(wire')
  BY <1>1, <1>3, ReportsEmpty
<1>5. LinkInv'
  BY <1>1, <1>2, <1>3, <1>4 DEF IInv, LinkInv, Reports
<1> QED
  BY <1>1, <1>2, <1>4, <1>5, QuietStep

\* Connecting, and everything that happens while tagServer registers, leaves
\* the reports where they are.
LEMMA RegistrationIInv ==
    ASSUME TypeInv, IInv,
           \/ Connect \/ ConnectFails \/ OpenDatabase \/ OpenDatabaseFails
           \/ SendRegPacket \/ SendRegPacketFails
           \/ RegPacketAnswered \/ RegPacketTimesOut
           \/ NoTransducerRows \/ NoTransducerRowsFails
    PROVE  IInv'
<1>0. /\ wire \in Seq(Packet) /\ reg \in 1 .. RegCount
      /\ WireOrdered(wire) /\ LinkInv
  BY DEF TypeInv, ServerType, LinkType, IInv, OrderInv
<1>1. CASE Connect
  <2>1. Reports(wire) = {} /\ Reports(wire') = {} /\ WireOrdered(wire')
    BY <1>0, <1>1, ReportsEmpty DEF Connect, LinkInv
  <2>2. LinkInv'
    BY <1>1, <2>1 DEF Connect, LinkInv, Reports
  <2> QED
    BY <1>1, <2>1, <2>2, QuietStep DEF Connect, queueVars
<1>2. CASE ConnectFails
  <2>1. pc' \in {"connect", "poll", "dead"} /\ pc = "connect"
    BY <1>2 DEF ConnectFails, InitFails, CallInit
  <2>2. UNCHANGED <<queueVars, hand, conn, wire, delivered, lost>>
    BY <1>2 DEF ConnectFails
  <2>3. LinkInv'
    BY <1>0, <2>1, <2>2 DEF LinkInv, Reports
  <2> QED
    BY <1>0, <2>1, <2>2, <2>3, QuietStep DEF queueVars
<1>3. CASE OpenDatabase
  <2>1. LinkInv'
    BY <1>0, <1>3 DEF OpenDatabase, LinkInv, Reports, linkVars
  <2> QED
    BY <1>0, <1>3, <2>1, QuietStep DEF OpenDatabase, queueVars, linkVars
<1>4. CASE OpenDatabaseFails
  BY <1>4, AttemptFailsIInv DEF OpenDatabaseFails, queueVars
<1>5. CASE SendRegPacket
  <2>1. /\ wire' = wire \/ wire' = Append(wire, RegPacket(reg))
        /\ (conn = "up" /\ conn' = conn) \/ wire' = wire
    BY <1>5 DEF SendRegPacket, VanishInto
  <2>2. Reports(wire') = Reports(wire) /\ WireOrdered(wire')
    BY <1>0, <2>1, AppendReg
  <2>3. pc = "regsend" /\ pc' = "regwait" /\ conn \in {"up", "fin"}
    BY <1>5 DEF SendRegPacket
  <2>4. conn' # "up" => wire' = <<>>
    BY <1>0, <1>5, <2>1 DEF SendRegPacket, VanishInto, LinkInv
  <2>5. LinkInv'
    BY <1>0, <2>2, <2>3, <2>4 DEF LinkInv, Reports
  <2> QED
    BY <1>5, <2>2, <2>3, <2>5, QuietStep DEF SendRegPacket, queueVars
<1>6. CASE SendRegPacketFails
  BY <1>6, AttemptFailsIInv DEF SendRegPacketFails, RegistrationFails, queueVars
<1>7. CASE RegPacketAnswered
  <2>1. pc = "regwait" /\ pc' \in {"regsend", "poll"}
    BY <1>7 DEF RegPacketAnswered, NextPacket
  <2>2. UNCHANGED <<queueVars, hand, conn, wire, delivered, lost>>
    BY <1>7 DEF RegPacketAnswered
  <2>3. LinkInv'
    BY <1>0, <2>1, <2>2 DEF LinkInv, Reports
  <2> QED
    BY <1>0, <2>1, <2>2, <2>3, QuietStep DEF queueVars
<1>8. CASE RegPacketTimesOut
  BY <1>8, AttemptFailsIInv DEF RegPacketTimesOut, RegistrationFails, queueVars
<1>9. CASE NoTransducerRows
  <2>1. LinkInv'
    BY <1>0, <1>9 DEF NoTransducerRows, LinkInv, Reports
  <2> QED
    BY <1>0, <1>9, <2>1, QuietStep DEF NoTransducerRows, queueVars
<1>10. CASE NoTransducerRowsFails
  BY <1>10, AttemptFailsIInv DEF NoTransducerRowsFails, RegistrationFails, queueVars
<1> QED
  BY <1>1, <1>2, <1>3, <1>4, <1>5, <1>6, <1>7, <1>8, <1>9, <1>10

\* The oldest report leaves the queue: for the hand of tagServer, which is
\* empty, or, being of another type, for good.
LEMMA DequeueIInv == ASSUME TypeInv, IInv, Dequeue PROVE IInv'
<1>1. /\ queue \in Seq(Nat) /\ queue # <<>> /\ queue' = Tail(queue) /\ UNCHANGED log
      /\ Len(log) \in Nat /\ hand \in Nat
      /\ UNCHANGED <<conn, wire, delivered>> /\ pc = "dequeue"
  BY DEF TypeInv, QueueType, ServerType, Dequeue
<1>2. Len(queue) \in Nat \ {0} /\ Len(queue') = Len(queue) - 1
  BY <1>1
<1>3. Taken' = Taken + 1 /\ Taken \in Nat /\ Head(queue) = Taken + 1
  BY <1>1, <1>2 DEF IInv, QueueInv, Taken
<1>4. hand = 0 /\ Numbers(delivered)' = Numbers(delivered) /\ Reports(wire)' = Reports(wire)
  BY <1>1 DEF IInv, HandInv, Numbers, Reports
<1>5. \/ hand' = Taken + 1 /\ pc' = "report" /\ lost' = lost
      \/ hand' = 0 /\ pc' = "poll" /\ lost' = lost \union {Taken + 1}
  BY <1>3, <1>4 DEF Dequeue
<1>6. QueueInv'
  <2>1. \A i \in DOMAIN queue' : queue'[i] = queue[i + 1] /\ i + 1 \in DOMAIN queue /\ i \in Int
    BY <1>1
  <2> QED
    BY <1>3, <2>1 DEF IInv, QueueInv
<1>7. HandInv'
  BY <1>3, <1>5 DEF HandInv
<1>8. LinkInv'
  BY <1>1, <1>5 DEF IInv, LinkInv, Reports
<1>9. OrderInv'
  <2>1. \A x \in Numbers(delivered) \union Reports(wire) : x \in 1 .. Taken + 1 /\ x # hand'
    BY <1>3, <1>5 DEF IInv, OrderInv
  <2>2. WireOrdered(wire)' /\ DeliveredInOrder'
    BY <1>1 DEF IInv, OrderInv, WireOrdered, DeliveredInOrder
  <2> QED
    BY <1>3, <1>4, <2>1, <2>2 DEF IInv, OrderInv
<1>10. FateInv'
  <2>1. 1 .. Taken + 1 = (1 .. Taken) \union {Taken + 1}
    BY <1>3
  <2>2. Taken + 1 \notin lost \union Reports(wire) \union Numbers(delivered)
    BY <1>3 DEF IInv, OrderInv, FateInv
  <2>3. InHand = {} /\ InHand' \union lost' = lost \union {Taken + 1} /\ InHand' \intersect lost' = {}
    BY <1>3, <1>4, <1>5, <2>2 DEF InHand
  <2>4. lost' \subseteq 1 .. Taken + 1
    BY <1>5, <2>1 DEF IInv, FateInv
  <2>5. lost' \intersect (Reports(wire) \union Numbers(delivered)) = {}
    BY <1>5, <2>2 DEF IInv, FateInv
  <2>6. 1 .. Taken + 1 \subseteq lost' \union InHand' \union Reports(wire) \union Numbers(delivered)
    BY <2>1, <2>3 DEF IInv, FateInv
  <2> QED
    BY <1>3, <1>4, <2>3, <2>4, <2>5, <2>6 DEF FateInv
<1> QED
  BY <1>6, <1>7, <1>8, <1>9, <1>10 DEF IInv

\* The report in hand goes behind the others on the wire, or is lost.
LEMMA HandIInv == ASSUME TypeInv, IInv, SendReport \/ SendReportFails PROVE IInv'
<1>1. /\ pc = "report" /\ hand = Taken /\ hand # 0 /\ hand' = 0 /\ InHand = {hand} /\ InHand' = {}
      /\ UNCHANGED <<log, queue, delivered>> /\ wire \in Seq(Packet)
      /\ Taken' = Taken /\ Numbers(delivered)' = Numbers(delivered) /\ Taken \in Nat
  BY DEF TypeInv, LinkType, IInv, HandInv, QueueInv, SendReport, SendReportFails, InHand,
     queueVars, Taken, Numbers
<1>2. pc' \in {"poll", "connect"} /\ (pc' = "connect" => conn' = "none" /\ wire' = <<>>)
  BY DEF SendReport, SendReportFails, CallInit
<1>3. \/ wire' = Append(wire, ReportPacket(hand)) /\ lost' = lost /\ conn' = "up"
      \/ wire' = <<>> /\ wire = <<>> /\ lost' = lost \union {hand}
  BY DEF SendReport, SendReportFails, VanishInto, IInv, LinkInv
<1>4. \A x \in Numbers(delivered) \union Reports(wire) : x \in 1 .. Taken /\ x # hand
  BY DEF IInv, OrderInv
<1>5. \A x \in Reports(wire) : x < hand
  BY <1>1, <1>4
<1>6. /\ WireOrdered(wire')
      /\ \/ Reports(wire') = Reports(wire) \union {hand} /\ lost' = lost
         \/ Reports(wire') = {} /\ Reports(wire) = {} /\ lost' = lost \union {hand}
  BY <1>1, <1>3, <1>5, AppendReport, ReportsEmpty DEF IInv, OrderInv
<1>7. QueueInv' /\ HandInv'
  BY <1>1, <1>2 DEF IInv, QueueInv, HandInv
<1>8. LinkInv'
  BY <1>2, <1>3, ReportsEmpty DEF LinkInv, Reports
<1>9. OrderInv'
  <2>1. \A x \in Numbers(delivered), y \in Reports(wire') : x < y
    BY <1>1, <1>4, <1>6 DEF IInv, OrderInv
  <2>2. \A x \in Numbers(delivered) \union Reports(wire') : x \in 1 .. Taken /\ x # 0
    BY <1>1, <1>4, <1>6
  <2> QED
    BY <1>1, <1>6, <2>1, <2>2
       DEF IInv, OrderInv, DeliveredInOrder, WireOrdered, Reports
<1>10. FateInv'
  <2>1. hand \in 1 .. Taken /\ hand \notin lost \union Reports(wire) \union Numbers(delivered)
    BY <1>1, <1>4 DEF IInv, FateInv
  <2>2. lost' \subseteq 1 .. Taken
    BY <1>6, <2>1 DEF IInv, FateInv
  <2>3. lost' \intersect (Reports(wire') \union Numbers(delivered)) = {}
    BY <1>6, <2>1 DEF IInv, FateInv
  <2>4. 1 .. Taken \subseteq lost' \union Reports(wire') \union Numbers(delivered)
    BY <1>1, <1>6 DEF IInv, FateInv
  <2> QED
    BY <1>1, <2>2, <2>3, <2>4 DEF FateInv, Reports
<1> QED
  BY <1>7, <1>8, <1>9, <1>10 DEF IInv

\* The middleware takes the first packet of the wire.
LEMMA ReadIInv == ASSUME TypeInv, IInv, MiddlewareReads PROVE IInv'
<1>1. /\ wire \in Seq(Packet) /\ wire # <<>> /\ wire' = Tail(wire) /\ Head(wire) \in Packet
      /\ delivered \in Seq(Nat) /\ conn = "up" /\ WireOrdered(wire)
      /\ UNCHANGED <<log, queue, pc, hand, conn, lost>>
  BY DEF TypeInv, LinkType, IInv, OrderInv, MiddlewareReads, queueVars, serverVars
<1>2. Taken' = Taken /\ InHand' = InHand /\ WireOrdered(wire')
  BY <1>1, TailReports DEF Taken, InHand
<1>3. pc \notin {"connect", "opendb", "regsend", "regwait"} \/ Reports(wire) = {}
  BY DEF IInv, LinkInv
<1>4. CASE Head(wire).kind = "reg"
  <2>1. Reports(wire') = Reports(wire) /\ delivered' = delivered
    BY <1>1, <1>4, TailReports DEF MiddlewareReads
  <2>2. Numbers(delivered)' = Numbers(delivered) /\ Reports(wire)' = Reports(wire)
    BY <2>1 DEF Numbers, Reports
  <2>3. QueueInv' /\ HandInv'
    BY <1>1, <1>2 DEF IInv, QueueInv, HandInv
  <2>4. LinkInv'
    BY <1>1, <1>3, <2>2 DEF IInv, LinkInv
  <2>5. OrderInv'
    BY <1>1, <1>2, <2>1, <2>2 DEF IInv, OrderInv, DeliveredInOrder, WireOrdered
  <2>6. FateInv'
    BY <1>1, <1>2, <2>2 DEF IInv, FateInv
  <2> QED
    BY <2>3, <2>4, <2>5, <2>6 DEF IInv
<1>5. CASE Head(wire).kind # "reg"
  <2> DEFINE r == Head(wire).n
  <2>1. Head(wire).kind = "report" /\ r \in Nat /\ delivered' = Append(delivered, r)
    BY <1>1, <1>5, PacketType DEF Packet, MiddlewareReads
  <2>2. /\ Reports(wire) = Reports(wire') \union {r}
        /\ \A y \in Reports(wire') : r < y
    BY <1>1, <2>1, TailReports
  <2>3. Numbers(delivered') = Numbers(delivered) \union {r}
    BY <1>1, <2>1, NumbersAppend
  <2>4. Numbers(delivered)' = Numbers(delivered') /\ Reports(wire)' = Reports(wire')
    BY DEF Numbers, Reports
  <2>5. /\ \A x \in Numbers(delivered) : x < r
        /\ r \notin Reports(wire')
    BY <2>1, <2>2 DEF IInv, OrderInv
  <2> HIDE DEF r
  <2>6. QueueInv' /\ HandInv'
    BY <1>1, <1>2 DEF IInv, QueueInv, HandInv
  <2>7. LinkInv'
    BY <1>1, <1>3, <2>2, <2>4 DEF IInv, LinkInv
  <2>8. DeliveredInOrder'
    <3>1. /\ DOMAIN delivered = 1 .. Len(delivered) /\ Len(delivered) \in Nat
          /\ DOMAIN delivered' = 1 .. Len(delivered) + 1
          /\ \A i \in DOMAIN delivered : delivered'[i] = delivered[i]
          /\ delivered'[Len(delivered) + 1] = r
      BY <1>1, <2>1
    <3>2. \A i \in DOMAIN delivered : delivered[i] < r
      BY <2>5 DEF Numbers
    <3> SUFFICES ASSUME NEW i \in DOMAIN delivered', NEW j \in DOMAIN delivered', i < j
                 PROVE  delivered'[i] < delivered'[j]
      BY DEF DeliveredInOrder
    <3>3. i \in DOMAIN delivered
      BY <3>1
    <3>4. CASE j \in DOMAIN delivered
      BY <3>1, <3>3, <3>4 DEF IInv, OrderInv, DeliveredInOrder
    <3>5. CASE j = Len(delivered) + 1
      BY <3>1, <3>2, <3>3, <3>5
    <3> QED
      BY <3>1, <3>4, <3>5
  <2>9. \A x \in Numbers(delivered'), y \in Reports(wire') : x < y
    BY <2>2, <2>3 DEF IInv, OrderInv
  <2>10. \A x \in Numbers(delivered') \union Reports(wire') : x \in 1 .. Taken /\ x # hand
    BY <2>2, <2>3 DEF IInv, OrderInv
  <2>11. OrderInv'
    BY <1>1, <1>2, <2>4, <2>8, <2>9, <2>10 DEF OrderInv, WireOrdered
  <2>12. FateInv'
    BY <1>1, <1>2, <2>2, <2>3, <2>4 DEF IInv, FateInv
  <2> QED
    BY <2>6, <2>7, <2>11, <2>12 DEF IInv
<1> QED
  BY <1>4, <1>5

\* What was on the wire is lost.
LEMMA BreakIInv == ASSUME TypeInv, IInv, ConnectionBreaks PROVE IInv'
<1>1. /\ wire' = <<>> /\ lost' = lost \union Reports(wire) /\ conn = "up"
      /\ UNCHANGED <<log, queue, pc, hand, delivered>>
  BY DEF ConnectionBreaks, queueVars, serverVars
<1>2. /\ Reports(wire)' = {} /\ WireOrdered(wire)'
      /\ Taken' = Taken /\ InHand' = InHand /\ Numbers(delivered)' = Numbers(delivered)
  BY <1>1, ReportsEmpty DEF Reports, WireOrdered, Taken, InHand, Numbers
<1>3. QueueInv' /\ HandInv'
  BY <1>1, <1>2 DEF IInv, QueueInv, HandInv
<1>4. LinkInv'
  BY <1>1, <1>2 DEF IInv, LinkInv
<1>5. OrderInv'
  BY <1>1, <1>2 DEF IInv, OrderInv, DeliveredInOrder
<1>6. FateInv'
  <2>1. \A x \in Reports(wire) : x \in 1 .. Taken /\ x # hand /\ x \notin Numbers(delivered)
    BY DEF IInv, OrderInv
  <2>2. lost' \subseteq 1 .. Taken
    BY <1>1, <2>1 DEF IInv, FateInv
  <2>3. lost' \intersect (InHand \union Numbers(delivered)) = {}
    BY <1>1, <2>1 DEF IInv, FateInv, InHand
  <2>4. 1 .. Taken \subseteq lost' \union InHand \union Numbers(delivered)
    BY <1>1 DEF IInv, FateInv
  <2> QED
    BY <1>2, <2>2, <2>3, <2>4 DEF FateInv
<1> QED
  BY <1>3, <1>4, <1>5, <1>6 DEF IInv

\* A new report goes behind the others in the queue.
LEMMA ProduceIInv == ASSUME TypeInv, IInv, Produce PROVE IInv'
<1>1. PICK m \in Message : log' = Append(log, m) /\ queue' = Append(queue, Len(log) + 1)
  BY DEF Produce, Post
<1>2. UNCHANGED <<pc, hand, conn, wire, delivered, lost>> /\ log \in Seq(Message) /\ queue \in Seq(Nat)
  BY DEF Produce, Post, serverVars, linkVars, TypeInv, QueueType
<1>3. /\ Len(log') = Len(log) + 1 /\ Len(queue') = Len(queue) + 1
      /\ Len(log) \in Nat /\ Len(queue) \in Nat
      /\ DOMAIN queue = 1 .. Len(queue) /\ DOMAIN queue' = 1 .. Len(queue) + 1
      /\ \A i \in DOMAIN queue : queue'[i] = queue[i]
      /\ queue'[Len(queue) + 1] = Len(log) + 1
  BY <1>1, <1>2
<1>4. Taken' = Taken /\ Taken \in Nat
  BY <1>3 DEF Taken, IInv, QueueInv
<1>5. QueueInv'
  <2>1. \A i \in DOMAIN queue : queue[i] = Taken + i
    BY DEF IInv, QueueInv
  <2>2. Taken + (Len(queue) + 1) = Len(log) + 1
    BY <1>3 DEF Taken
  <2>3. ASSUME NEW i \in 1 .. Len(queue) + 1 PROVE queue'[i] = Taken + i
    <3>1. CASE i \in DOMAIN queue
      BY <1>3, <2>1, <3>1
    <3>2. CASE i = Len(queue) + 1
      BY <1>3, <2>2, <3>2
    <3> QED
      BY <1>3, <3>1, <3>2
  <2> QED
    BY <1>3, <1>4, <2>3 DEF QueueInv
<1>6. /\ InHand' = InHand /\ Numbers(delivered)' = Numbers(delivered)
      /\ Reports(wire)' = Reports(wire) /\ WireOrdered(wire)' = WireOrdered(wire)
  BY <1>2 DEF InHand, Numbers, Reports, WireOrdered
<1>7. HandInv' /\ LinkInv'
  BY <1>2, <1>4, <1>6 DEF IInv, HandInv, LinkInv
<1>8. OrderInv' /\ FateInv'
  BY <1>2, <1>4, <1>6 DEF IInv, OrderInv, FateInv, DeliveredInOrder
<1> QED
  BY <1>5, <1>7, <1>8 DEF IInv

LEMMA StepIInv == TypeInv /\ IInv /\ [Next]_vars => IInv'
<1> SUFFICES ASSUME TypeInv, IInv, [Next]_vars PROVE IInv'
  OBVIOUS
<1>1. CASE DiscardAnswers
  <2>1. LinkInv'
    BY <1>1 DEF DiscardAnswers, IInv, LinkInv, Reports
  <2> QED
    BY <1>1, <2>1, QuietStep DEF DiscardAnswers, queueVars, IInv, OrderInv
<1>2. CASE QueueEmpty
  <2>1. LinkInv'
    BY <1>2 DEF QueueEmpty, linkVars, IInv, LinkInv, Reports
  <2> QED
    BY <1>2, <2>1, QuietStep DEF QueueEmpty, queueVars, linkVars, IInv, OrderInv
<1>3. CASE UNCHANGED vars
  <2>1. UNCHANGED <<log, queue, pc, hand, conn, wire, delivered, lost>>
    BY <1>3 DEF vars, queueVars, serverVars, linkVars
  <2>2. /\ Taken' = Taken /\ InHand' = InHand /\ Numbers(delivered)' = Numbers(delivered)
        /\ Reports(wire)' = Reports(wire) /\ WireOrdered(wire)' = WireOrdered(wire)
    BY <2>1 DEF Taken, InHand, Numbers, Reports, WireOrdered
  <2>3. QueueInv' /\ HandInv' /\ LinkInv'
    BY <2>1, <2>2 DEF IInv, QueueInv, HandInv, LinkInv
  <2>4. OrderInv' /\ FateInv'
    BY <2>1, <2>2 DEF IInv, OrderInv, FateInv, DeliveredInOrder
  <2> QED
    BY <2>3, <2>4 DEF IInv
<1> QED
  BY <1>1, <1>2, <1>3, RegistrationIInv, DequeueIInv, HandIInv, ReadIInv, BreakIInv,
     ProduceIInv DEF Next, ServerStep, LinkStep

LEMMA Invariance == Spec => [](TypeInv /\ IInv)
<1>1. TypeInv /\ [Next]_vars => TypeInv'
  BY StepType
<1>2. TypeInv /\ IInv /\ [Next]_vars => IInv'
  BY StepIInv
<1> QED
  BY <1>1, <1>2, InitType, InitIInv, PTL DEF Spec

-----------------------------------------------------------------------------

\* The numbers in the queue are those that have not left it.
LEMMA QueueNumbers == ASSUME TypeInv, QueueInv PROVE Numbers(queue) = Taken + 1 .. Len(log)
<1>1. Len(queue) \in Nat /\ Len(log) \in Nat /\ DOMAIN queue = 1 .. Len(queue)
  BY DEF TypeInv, QueueType
<1>2. Len(log) = Taken + Len(queue) /\ Taken \in Nat
  BY <1>1 DEF Taken, QueueInv
<1>3. ASSUME NEW x \in Taken + 1 .. Len(log) PROVE x \in Numbers(queue)
  <2>1. x - Taken \in DOMAIN queue /\ queue[x - Taken] = x
    BY <1>1, <1>2 DEF QueueInv
  <2> QED
    BY <2>1 DEF Numbers
<1>4. ASSUME NEW i \in DOMAIN queue PROVE queue[i] \in Taken + 1 .. Len(log)
  BY <1>1, <1>2 DEF QueueInv
<1> QED
  BY <1>3, <1>4 DEF Numbers

\* Every report is in exactly one place.
LEMMA IInvAccounts ==
    ASSUME TypeInv, IInv PROVE EveryReportAccounted
<1>1. Numbers(queue) = Taken + 1 .. Len(log)
  BY QueueNumbers DEF IInv
<1>2. Len(log) \in Nat /\ Taken \in Nat /\ Taken <= Len(log)
  BY DEF TypeInv, QueueType, IInv, QueueInv, Taken
<1>3. 1 .. Len(log) = (1 .. Taken) \union (Taken + 1 .. Len(log))
  BY <1>2
<1>4. (1 .. Taken) \intersect (Taken + 1 .. Len(log)) = {}
  BY <1>2
<1>5. InHand \subseteq 1 .. Taken
  BY <1>2 DEF InHand, IInv, HandInv, TypeInv, ServerType
<1>6. Reports(wire) \union Numbers(delivered) \subseteq 1 .. Taken
  BY DEF IInv, OrderInv
<1>7. InHand \intersect (Reports(wire) \union Numbers(delivered)) = {}
  BY DEF IInv, OrderInv, InHand
<1>8. Reports(wire) \intersect Numbers(delivered) = {}
  <2> SUFFICES ASSUME NEW x \in Reports(wire), x \in Numbers(delivered) PROVE FALSE
    OBVIOUS
  <2>1. x < x /\ x \in Nat
    BY <1>6, <1>2 DEF IInv, OrderInv
  <2> QED
    BY <2>1
<1>9. /\ lost \subseteq 1 .. Taken
      /\ lost \intersect (InHand \union Reports(wire) \union Numbers(delivered)) = {}
      /\ 1 .. Taken \subseteq lost \union InHand \union Reports(wire) \union Numbers(delivered)
  BY DEF IInv, FateInv
<1> HIDE DEF InHand
<1> QED
  BY <1>1, <1>3, <1>4, <1>5, <1>6, <1>7, <1>8, <1>9, Zenon DEF EveryReportAccounted, Pending

\* Every report is in exactly one place, however many connections were lost,
\* registrations failed and messages refused.
THEOREM ReportsAccounted == Spec => []EveryReportAccounted
  BY IInvAccounts, Invariance, PTL

\* No report is delivered twice and none overtakes another.
THEOREM InOrder == Spec => []DeliveredInOrder
<1>1. IInv => DeliveredInOrder
  BY DEF IInv, OrderInv
<1> QED
  BY <1>1, Invariance, PTL

-----------------------------------------------------------------------------
(* Refinement.                                                             *)

\* The oldest open report is the first one on the wire, then comes the one in
\* hand, then come those in the queue.
LEMMA WireFirst ==
    ASSUME TypeInv, IInv, NEW r \in Reports(wire), NEW x \in Pending, r # x,
           \A y \in Reports(wire) : r <= y
    PROVE  r < x
<1>1. r \in 1 .. Taken /\ r # hand
  BY DEF IInv, OrderInv
<1>2. Taken \in Nat /\ Len(log) \in Nat /\ hand \in Nat
  BY DEF TypeInv, QueueType, ServerType, IInv, QueueInv
<1>3. CASE x \in Numbers(queue)
  <2>1. x \in Taken + 1 .. Len(log)
    BY <1>3, QueueNumbers DEF IInv
  <2> QED
    BY <1>1, <1>2, <2>1
<1>4. CASE x \in InHand
  BY <1>1, <1>2, <1>4 DEF InHand, IInv, HandInv
<1>5. CASE x \in Reports(wire)
  <2>1. x \in 1 .. Taken
    BY <1>5 DEF IInv, OrderInv
  <2> QED
    BY <1>1, <1>2, <1>5, <2>1
<1> QED
  BY <1>3, <1>4, <1>5 DEF Pending

\* A step that accepts nothing and delivers nothing only gives up reports, if
\* it does anything to them: no report comes back among the open ones.
LEMMA LosingStep ==
    ASSUME UNCHANGED <<log, delivered>>, Pending' \subseteq Pending
    PROVE  [Channel!ChannelNext]_Channel!channelVars
<1>1. UNCHANGED Len(log)
  OBVIOUS
<1>2. CASE Pending' = Pending
  BY <1>1, <1>2 DEF Channel!channelVars
<1>3. CASE Pending' # Pending
  <2>1. Pending \ Pending' \in (SUBSET Pending) \ {{}}
    BY <1>3
  <2>2. Pending' = Pending \ (Pending \ Pending')
    OBVIOUS
  <2> QED
    BY <1>1, <2>1, <2>2 DEF Channel!ChannelNext, Channel!LoseReports
<1> QED
  BY <1>2, <1>3

\* Every step of TagServer is a step of the channel, or invisible there.
LEMMA StepChannel ==
    ASSUME TypeInv, IInv, TypeInv', IInv', [Next]_vars
    PROVE  [Channel!ChannelNext]_Channel!channelVars
<1>1. CASE Produce
  <2>1. PICK m \in Message : log' = Append(log, m) /\ queue' = Append(queue, Len(log) + 1)
    BY <1>1 DEF Produce, Post
  <2>2. log \in Seq(Message) /\ queue \in Seq(Nat) /\ UNCHANGED <<hand, wire, delivered>>
    BY <1>1 DEF Produce, Post, serverVars, linkVars, TypeInv, QueueType
  <2>3. Len(log') = Len(log) + 1 /\ Len(log) + 1 \in Nat
    BY <2>1, <2>2
  <2>4. Numbers(queue') = Numbers(queue) \union {Len(log) + 1}
    BY <2>1, <2>2, <2>3, NumbersAppend
  <2>5. Pending' = Pending \union {Len(log) + 1}
    BY <2>2, <2>4 DEF Pending, InHand, Numbers, Reports
  <2> QED
    BY <2>2, <2>3, <2>5 DEF Channel!ChannelNext, Channel!AcceptReport
<1>2. CASE MiddlewareReads
  <2>1. /\ wire \in Seq(Packet) /\ wire # <<>> /\ wire' = Tail(wire) /\ WireOrdered(wire)
        /\ Head(wire) \in Packet /\ UNCHANGED <<log, queue, hand>>
    BY <1>2 DEF TypeInv, LinkType, IInv, OrderInv, MiddlewareReads, queueVars, serverVars
  <2>2. Pending' = Numbers(queue) \union InHand \union Reports(wire')
    BY <2>1 DEF Pending, InHand, Numbers, Reports
  <2>3. CASE Head(wire).kind = "reg"
    <3>1. UNCHANGED delivered /\ Reports(wire') = Reports(wire)
      BY <1>2, <2>1, <2>3, TailReports DEF MiddlewareReads
    <3> QED
      BY <2>1, <2>2, <3>1, LosingStep DEF Pending
  <2>4. CASE Head(wire).kind # "reg"
    <3> DEFINE r == Head(wire).n
    <3>1. Head(wire).kind = "report" /\ r \in Nat /\ delivered' = Append(delivered, r)
      BY <1>2, <2>1, <2>4, PacketType DEF Packet, MiddlewareReads
    <3>2. /\ Reports(wire) = Reports(wire') \union {r}
          /\ \A y \in Reports(wire') : r < y
      BY <2>1, <3>1, TailReports
    <3>3. r \in Reports(wire)
      BY <3>2
    <3>4. Reports(wire) \subseteq Nat
      BY <2>1, RegCountType DEF TypeInv, IInv, OrderInv, QueueInv
    <3> HIDE DEF r
    <3>5. \A x \in Pending : r # x => r < x
      BY <3>2, <3>3, <3>4, WireFirst
    <3>6. r \notin Numbers(queue) \union InHand \union Reports(wire')
      <4>1. r \in 1 .. Taken /\ r # hand
        BY <3>3 DEF IInv, OrderInv
      <4>2. r \notin Numbers(queue)
        BY <4>1, QueueNumbers DEF IInv, QueueInv, TypeInv, QueueType
      <4> QED
        BY <3>1, <3>2, <4>1, <4>2 DEF InHand
    <3>7. r \in Pending /\ Pending' = Pending \ {r}
      BY <2>2, <3>2, <3>6 DEF Pending
    <3>8. \A other \in Pending : r <= other
      <4>1. Pending \subseteq Int
        BY DEF Pending, Numbers, InHand, TypeInv, QueueType, ServerType, IInv, OrderInv
      <4> QED
        BY <3>1, <3>5, <4>1
    <3> QED
      BY <2>1, <3>1, <3>7, <3>8 DEF Channel!ChannelNext, Channel!HandOver
  <2> QED
    BY <2>3, <2>4
<1>3. CASE Dequeue
  <2>1. UNCHANGED <<log, delivered, wire>> /\ queue \in Seq(Nat) /\ queue # <<>> /\ queue' = Tail(queue)
    BY <1>3 DEF Dequeue, TypeInv, QueueType
  <2>2. Numbers(queue') \union {Head(queue)} \subseteq Numbers(queue)
    <3>1. \A i \in DOMAIN queue' : queue'[i] = queue[i + 1] /\ i + 1 \in DOMAIN queue
      BY <2>1
    <3>2. Head(queue) = queue[1] /\ 1 \in DOMAIN queue
      BY <2>1
    <3> QED
      BY <3>1, <3>2 DEF Numbers
  <2>3. InHand' \subseteq InHand \union {Head(queue)}
    BY <1>3 DEF Dequeue, InHand
  <2>4. Pending' \subseteq Pending
    BY <2>1, <2>2, <2>3 DEF Pending, Reports, Numbers
  <2> QED
    BY <2>1, <2>4, LosingStep
<1>4. CASE SendReport \/ SendReportFails
  <2>1. UNCHANGED <<log, queue, delivered>> /\ hand # 0 /\ hand' = 0
        /\ wire \in Seq(Packet) /\ hand \in Nat
    BY <1>4 DEF SendReport, SendReportFails, queueVars, TypeInv, ServerType, LinkType, IInv,
       HandInv
  <2>2. InHand = {hand} /\ InHand' = {}
    BY <2>1 DEF InHand
  <2>3. wire' \in {wire, <<>>, Append(wire, ReportPacket(hand))}
    BY <1>4 DEF SendReport, SendReportFails, VanishInto
  <2>4. \A x \in Reports(wire) : x < hand
    BY <2>1 DEF IInv, OrderInv, HandInv, QueueInv
  <2>5. Reports(wire') \subseteq Reports(wire) \union {hand}
    BY <2>1, <2>3, <2>4, AppendReport, ReportsEmpty DEF IInv, OrderInv
  <2>6. Pending' \subseteq Pending
    BY <2>1, <2>2, <2>5 DEF Pending, Numbers, Reports
  <2> QED
    BY <2>1, <2>6, LosingStep
<1>5. CASE ConnectionBreaks
  <2>1. UNCHANGED <<log, queue, delivered, hand>> /\ wire' = <<>>
    BY <1>5 DEF ConnectionBreaks, queueVars, serverVars
  <2>2. Pending' \subseteq Pending
    BY <2>1, ReportsEmpty DEF Pending, Numbers, InHand, Reports
  <2> QED
    BY <2>1, <2>2, LosingStep
<1>6. CASE \/ Connect \/ ConnectFails \/ OpenDatabase \/ OpenDatabaseFails
           \/ SendRegPacket \/ SendRegPacketFails
           \/ RegPacketAnswered \/ RegPacketTimesOut
           \/ NoTransducerRows \/ NoTransducerRowsFails
           \/ DiscardAnswers \/ QueueEmpty
  <2>1. UNCHANGED <<log, queue, delivered, hand>>
    BY <1>6 DEF Connect, ConnectFails, OpenDatabase, OpenDatabaseFails, SendRegPacket,
       SendRegPacketFails, RegPacketAnswered, RegPacketTimesOut, NoTransducerRows,
       NoTransducerRowsFails, RegistrationFails, DiscardAnswers, QueueEmpty, queueVars, linkVars
  <2>2. wire' \in {wire, <<>>, Append(wire, RegPacket(reg))}
    BY <1>6 DEF Connect, ConnectFails, OpenDatabase, OpenDatabaseFails, SendRegPacket,
       SendRegPacketFails, RegPacketAnswered, RegPacketTimesOut, NoTransducerRows,
       NoTransducerRowsFails, RegistrationFails, AttemptFails, VanishInto, DiscardAnswers,
       QueueEmpty, linkVars
  <2>3. Reports(wire') \subseteq Reports(wire)
    BY <2>2, AppendReg, ReportsEmpty DEF TypeInv, ServerType, LinkType, IInv, OrderInv
  <2>4. Pending' \subseteq Pending
    BY <2>1, <2>3 DEF Pending, Numbers, InHand, Reports
  <2> QED
    BY <2>1, <2>4, LosingStep
<1>7. CASE UNCHANGED vars
  <2>1. UNCHANGED <<log, queue, delivered, hand, wire>>
    BY <1>7 DEF vars, queueVars, serverVars, linkVars
  <2>2. Pending' = Pending
    BY <2>1 DEF Pending, Numbers, InHand, Reports
  <2> QED
    BY <2>1, <2>2, LosingStep
<1> QED
  BY <1>1, <1>2, <1>3, <1>4, <1>5, <1>6, <1>7 DEF Next, ServerStep, LinkStep

\* The queue, tagServer and its connections are together an at-most-once,
\* in-order, lossy channel.
THEOREM TagServerImplementsChannel == Spec => ImplementsChannel
<1>1. Init => Channel!ChannelInit
  <2> SUFFICES ASSUME Init PROVE Channel!ChannelInit
    OBVIOUS
  <2>1. Len(log) = 0 /\ Numbers(queue) = {} /\ InHand = {} /\ Reports(wire) = {}
    BY ReportsEmpty DEF Init, Numbers, InHand
  <2> QED
    BY <2>1 DEF Init, Channel!ChannelInit, Pending
<1>2. TypeInv /\ IInv /\ TypeInv' /\ IInv' /\ [Next]_vars
        => [Channel!ChannelNext]_Channel!channelVars
  BY StepChannel
<1> QED
  BY <1>1, <1>2, Invariance, PTL DEF Spec, ImplementsChannel, Channel!ChannelSpec

-----------------------------------------------------------------------------
(* Registration comes first.                                               *)

\* No registration packet is behind a report.
RegFirst(w) ==
    \A i, j \in DOMAIN w : w[i].kind = "report" /\ w[j].kind = "reg" => j < i

\* Registration packet r has been written to the connection since ETRI_Registration
\* was last called.
Written(r) ==
    \/ pc = "regsend" /\ r < reg
    \/ pc = "regwait" /\ r <= reg
    \/ pc \notin {"connect", "opendb", "regsend", "regwait"}

\* While the connection stands a packet that was written to it is where the
\* middleware has read it, or on the wire in front of every report.
RegInv ==
    /\ RegFirst(wire)
    /\ conn = "up" =>
         \A r \in NodePackets : Written(r) =>
             r \in registered \/ \E i \in DOMAIN wire : wire[i] = RegPacket(r)
    /\ conn = "none" => pc \notin {"opendb", "regsend", "regwait"}

LEMMA RegFirstAppendReg ==
    ASSUME NEW w \in Seq(Packet), NEW r \in 1 .. RegCount, Reports(w) = {}
    PROVE  RegFirst(Append(w, RegPacket(r)))
<1> DEFINE v == Append(w, RegPacket(r))
<1>1. /\ Len(w) \in Nat /\ DOMAIN w = 1 .. Len(w) /\ DOMAIN v = 1 .. Len(w) + 1
      /\ \A i \in DOMAIN w : v[i] = w[i]
      /\ v[Len(w) + 1] = RegPacket(r)
  BY RegCountType DEF RegPacket, Packet
<1>2. \A i \in DOMAIN w : w[i].kind # "report"
  BY DEF Reports
<1> HIDE DEF v
<1>3. \A i \in DOMAIN v : v[i].kind # "report"
  BY <1>1, <1>2 DEF RegPacket
<1> QED
  BY <1>3 DEF RegFirst, v

LEMMA RegFirstAppendReport ==
    ASSUME NEW w \in Seq(Packet), NEW m \in Nat, RegFirst(w)
    PROVE  RegFirst(Append(w, ReportPacket(m)))
<1> DEFINE v == Append(w, ReportPacket(m))
<1>1. /\ Len(w) \in Nat /\ DOMAIN w = 1 .. Len(w) /\ DOMAIN v = 1 .. Len(w) + 1
      /\ \A i \in DOMAIN w : v[i] = w[i]
      /\ v[Len(w) + 1].kind = "report"
  BY DEF ReportPacket, Packet
<1> HIDE DEF v
<1> SUFFICES ASSUME NEW i \in DOMAIN v, NEW j \in DOMAIN v,
                    v[i].kind = "report", v[j].kind = "reg"
             PROVE  j < i
  BY DEF RegFirst, v
<1>2. j \in DOMAIN w
  BY <1>1
<1>3. CASE i \in DOMAIN w
  BY <1>1, <1>2, <1>3 DEF RegFirst
<1>4. CASE i = Len(w) + 1
  BY <1>1, <1>2, <1>4
<1> QED
  BY <1>1, <1>3, <1>4

LEMMA RegFirstTail ==
    ASSUME NEW w \in Seq(Packet), w # <<>>, RegFirst(w)
    PROVE  RegFirst(Tail(w))
<1>1. Tail(w) \in Seq(Packet) /\ DOMAIN Tail(w) \subseteq Int
  OBVIOUS
<1>2. \A i \in DOMAIN Tail(w) : Tail(w)[i] = w[i + 1] /\ i + 1 \in DOMAIN w
  OBVIOUS
<1> SUFFICES ASSUME NEW i \in DOMAIN Tail(w), NEW j \in DOMAIN Tail(w),
                    Tail(w)[i].kind = "report", Tail(w)[j].kind = "reg"
             PROVE  j < i
  BY DEF RegFirst
<1>3. j + 1 < i + 1
  BY <1>2 DEF RegFirst
<1> QED
  BY <1>1, <1>3

\* An attempt to register that failed: the next one writes every packet again,
\* unless the connection is given up.
LEMMA AttemptFailsReg ==
    ASSUME RegInv, NEW left, AttemptFails(left), pc \in {"opendb", "regsend", "regwait"}
    PROVE  RegInv'
<1>1. CASE regTries > 1
  BY <1>1 DEF AttemptFails, RegInv, RegFirst, Written
<1>2. CASE ~(regTries > 1)
  <2>1. conn' = "none" /\ wire' = <<>> /\ pc' \in {"connect", "poll", "dead"}
    BY <1>2 DEF AttemptFails, InitFails, CallInit
  <2> QED
    BY <2>1 DEF RegInv, RegFirst
<1> QED
  BY <1>1, <1>2

\* A packet is written: it goes behind the others, all of them registration
\* packets, or it vanishes in a connection that no longer stands.
LEMMA SendRegPacketReg ==
    ASSUME TypeInv, LinkInv, RegInv, SendRegPacket PROVE RegInv'
<1>1. /\ wire \in Seq(Packet) /\ reg \in 1 .. RegCount /\ Reports(wire) = {}
      /\ RegCount \in Nat
      /\ pc = "regsend" /\ pc' = "regwait" /\ UNCHANGED <<reg, registered>>
  BY RegCountType DEF TypeInv, ServerType, LinkType, LinkInv, SendRegPacket
<1>2. CASE conn = "up"
  <2>1. conn' = "up" /\ wire' = Append(wire, RegPacket(reg))
    BY <1>2 DEF SendRegPacket
  <2>2. RegFirst(wire)'
    BY <1>1, <2>1, RegFirstAppendReg DEF RegFirst
  <2>3. /\ \A i \in DOMAIN wire : i \in DOMAIN wire' /\ wire'[i] = wire[i]
        /\ Len(wire) + 1 \in DOMAIN wire' /\ wire'[Len(wire) + 1] = RegPacket(reg)
    BY <1>1, <2>1 DEF RegPacket, Packet
  <2>4. ASSUME NEW r \in NodePackets, Written(r)'
        PROVE  r \in registered' \/ \E i \in DOMAIN wire' : wire'[i] = RegPacket(r)
    <3>1. r < reg \/ r = reg
      BY <1>1, <2>4 DEF Written, NodePackets
    <3>2. CASE r < reg
      BY <1>1, <1>2, <2>3, <3>2 DEF RegInv, Written
    <3> QED
      BY <2>3, <3>1, <3>2
  <2> QED
    BY <1>1, <2>1, <2>2, <2>4 DEF RegInv, RegPacket
<1>3. CASE conn # "up"
  <2>1. conn' \in {"fin", "rst"} /\ UNCHANGED wire
    BY <1>3 DEF SendRegPacket, VanishInto
  <2> QED
    BY <2>1 DEF RegInv, RegFirst
<1> QED
  BY <1>2, <1>3

\* The middleware takes the first packet: one of the descriptions is now where
\* it has read it, or none was in front of the report it took.
LEMMA ReadReg == ASSUME TypeInv, RegInv, MiddlewareReads PROVE RegInv'
<1>1. /\ wire \in Seq(Packet) /\ wire # <<>> /\ wire' = Tail(wire)
      /\ conn = "up" /\ UNCHANGED <<conn, pc, reg>>
  BY DEF TypeInv, LinkType, MiddlewareReads, serverVars
<1>2. RegFirst(wire)'
  BY <1>1, RegFirstTail DEF RegInv, RegFirst
<1>3. registered \subseteq registered'
      /\ (Head(wire).kind = "reg" => Head(wire).n \in registered')
  BY DEF MiddlewareReads
<1>4. \A i \in DOMAIN wire : i = 1 \/ (i - 1 \in DOMAIN wire' /\ wire'[i - 1] = wire[i])
  BY <1>1
<1>5. ASSUME NEW r \in NodePackets, Written(r)
      PROVE  r \in registered' \/ \E i \in DOMAIN wire' : wire'[i] = RegPacket(r)
  <2>1. CASE r \in registered
    BY <1>3, <2>1
  <2>2. CASE r \notin registered
    <3>1. PICK i \in DOMAIN wire : wire[i] = RegPacket(r)
      BY <1>1, <1>5, <2>2 DEF RegInv
    <3>2. CASE i = 1
      <4>1. Head(wire) = RegPacket(r)
        BY <1>1, <3>1, <3>2
      <4> QED
        BY <1>3, <4>1 DEF RegPacket
    <3> QED
      BY <1>4, <3>1, <3>2
  <2> QED
    BY <2>1, <2>2
<1> QED
  BY <1>1, <1>2, <1>5 DEF RegInv, Written, RegPacket

LEMMA InitReg == Init => RegInv
  BY DEF Init, RegInv, RegFirst

LEMMA StepReg == TypeInv /\ IInv /\ RegInv /\ [Next]_vars => RegInv'
<1> SUFFICES ASSUME TypeInv, IInv, RegInv, [Next]_vars PROVE RegInv'
  OBVIOUS
<1>a. LinkInv /\ wire \in Seq(Packet) /\ hand \in Nat /\ reg \in 1 .. RegCount
      /\ RegCount \in Nat /\ RegCount >= 4
  BY RegCountType DEF IInv, TypeInv, ServerType, LinkType
<1>1. CASE Connect
  BY <1>1 DEF Connect, RegInv, RegFirst, Written
<1>2. CASE ConnectFails
  <2>1. pc = "connect" /\ pc' \in {"connect", "poll", "dead"} /\ UNCHANGED <<conn, wire>>
    BY <1>2 DEF ConnectFails, InitFails, CallInit
  <2> QED
    BY <1>a, <2>1 DEF LinkInv, RegInv, RegFirst
<1>3. CASE OpenDatabase
  <2>1. pc = "opendb" /\ pc' = "regsend" /\ reg' = 1 /\ UNCHANGED <<conn, wire>>
    BY <1>3 DEF OpenDatabase, linkVars
  <2> QED
    BY <2>1 DEF RegInv, RegFirst, Written, NodePackets
<1>4. CASE \/ OpenDatabaseFails \/ SendRegPacketFails \/ RegPacketTimesOut
           \/ NoTransducerRowsFails
  BY <1>4, AttemptFailsReg
     DEF OpenDatabaseFails, SendRegPacketFails, RegPacketTimesOut, NoTransducerRowsFails,
         RegistrationFails
<1>5. CASE SendRegPacket
  BY <1>a, <1>5, SendRegPacketReg
<1>6. CASE RegPacketAnswered
  <2>1. pc = "regwait" /\ UNCHANGED <<conn, wire, registered>>
        /\ \/ pc' = "regsend" /\ reg' = reg + 1
           \/ pc' = "poll" /\ reg' = reg /\ ~(reg < RegCount)
    BY <1>6 DEF RegPacketAnswered, NextPacket
  <2>2. ASSUME NEW r \in NodePackets, Written(r)' PROVE Written(r)
    BY <1>a, <2>1, <2>2 DEF Written, NodePackets
  <2> QED
    BY <2>1, <2>2 DEF RegInv, RegFirst
<1>7. CASE NoTransducerRows
  <2>1. pc = "regwait" /\ reg = 3 /\ pc' = "poll" /\ UNCHANGED <<conn, wire, registered>>
    BY <1>7 DEF NoTransducerRows
  <2>2. \A r \in NodePackets : Written(r)
    BY <2>1 DEF Written, NodePackets
  <2> QED
    BY <2>1, <2>2 DEF RegInv, RegFirst
<1>8. CASE DiscardAnswers \/ QueueEmpty \/ Dequeue
  <2>1. /\ pc \in {"poll", "dequeue"} /\ pc' \in {"poll", "dequeue", "report"}
        /\ UNCHANGED <<conn, wire, registered>>
    BY <1>8 DEF DiscardAnswers, QueueEmpty, Dequeue, linkVars
  <2> QED
    BY <2>1 DEF RegInv, RegFirst, Written
<1>9. CASE SendReport
  <2>1. pc = "report" /\ pc' = "poll" /\ UNCHANGED registered
        /\ \/ conn' = "up" /\ conn = "up" /\ wire' = Append(wire, ReportPacket(hand))
           \/ conn' # "up" /\ conn' # "none" /\ wire' = wire
    BY <1>9 DEF SendReport, VanishInto
  <2>2. RegFirst(wire)'
    BY <1>a, <2>1, RegFirstAppendReport DEF RegInv, RegFirst
  <2>3. CASE wire' = Append(wire, ReportPacket(hand)) /\ conn = "up"
    <3>1. \A i \in DOMAIN wire : i \in DOMAIN wire' /\ wire'[i] = wire[i]
      BY <1>a, <2>3 DEF ReportPacket, Packet
    <3>2. \A r \in NodePackets : r \in registered \/ \E i \in DOMAIN wire : wire[i] = RegPacket(r)
      BY <2>1, <2>3 DEF RegInv, Written
    <3> QED
      BY <2>1, <2>2, <3>1, <3>2 DEF RegInv, RegPacket
  <2> QED
    BY <2>1, <2>2, <2>3 DEF RegInv
<1>10. CASE SendReportFails
  BY <1>10 DEF SendReportFails, CallInit, RegInv, RegFirst
<1>11. CASE MiddlewareReads
  BY <1>11, ReadReg
<1>12. CASE ConnectionBreaks
  BY <1>12 DEF ConnectionBreaks, serverVars, RegInv, RegFirst
<1>13. CASE Produce \/ UNCHANGED vars
  BY <1>13 DEF Produce, Post, vars, serverVars, linkVars, RegInv, RegFirst, Written
<1> QED
  BY <1>1, <1>2, <1>3, <1>4, <1>5, <1>6, <1>7, <1>8, <1>9, <1>10, <1>11, <1>12, <1>13
     DEF Next, ServerStep, LinkStep

\* Whatever fails while the gateway registers and however often it reconnects, a
\* report the middleware reads comes after the descriptions of the gateway node,
\* the PAN and the sensor node on the same connection.
THEOREM RegistrationComesFirst == Spec => RegisteredBeforeReport
<1>1. ASSUME TypeInv, IInv, RegInv, [Next]_vars
      PROVE  [delivered' # delivered => NodePackets \subseteq registered]_vars
  <2> SUFFICES ASSUME delivered' # delivered PROVE NodePackets \subseteq registered
    OBVIOUS
  <2>1. MiddlewareReads
    BY <1>1 DEF Next, ServerStep, LinkStep, Produce, Post, vars, queueVars, linkVars,
       Connect, ConnectFails, OpenDatabase, OpenDatabaseFails, SendRegPacket,
       SendRegPacketFails, RegPacketAnswered, RegPacketTimesOut, NoTransducerRows,
       NoTransducerRowsFails, RegistrationFails, DiscardAnswers, QueueEmpty, Dequeue,
       SendReport, SendReportFails, ConnectionBreaks
  <2>2. /\ wire \in Seq(Packet) /\ wire # <<>> /\ conn = "up" /\ LinkInv
        /\ Head(wire).kind = "report"
    BY <1>1, <2>1 DEF MiddlewareReads, TypeInv, LinkType, IInv, Packet
  <2>3. 1 \in DOMAIN wire /\ wire[1].kind = "report" /\ DOMAIN wire \subseteq Nat \ {0}
    BY <2>2
  <2>4. \A r \in NodePackets : Written(r)
    BY <2>2, <2>3 DEF LinkInv, Reports, Written
  <2>5. \A i \in DOMAIN wire, r \in NodePackets : wire[i] # RegPacket(r)
    BY <1>1, <2>3 DEF RegInv, RegFirst, RegPacket
  <2> QED
    BY <1>1, <2>2, <2>4, <2>5 DEF RegInv
<1>2. TypeInv /\ IInv /\ RegInv /\ [Next]_vars => RegInv'
  BY StepReg
<1> QED
  BY <1>1, <1>2, Invariance, InitReg, PTL DEF Spec, RegisteredBeforeReport

\* Once the database handles left open have used up the descriptors while there
\* is no registered connection, nothing is delivered any more, for every limit
\* on descriptors.
THEOREM StaysCutOff == Spec => CutOffForGood
<1>1. ASSUME TypeInv, IInv, RegInv, [Next]_vars
      PROVE  [CutOff => CutOff' /\ delivered' = delivered]_vars
  <2> SUFFICES ASSUME CutOff, Next PROVE CutOff' /\ delivered' = delivered
    BY <1>1
  <2>1. /\ leaked + 2 > FdLimit /\ (conn = "none" \/ pc = "opendb")
        /\ (conn = "none" => pc \notin {"opendb", "regsend", "regwait"})
    BY <1>1 DEF CutOff, RegInv
  <2>2. CASE Connect
    BY <2>1, <2>2 DEF Connect, CutOff
  <2>3. CASE ConnectFails
    <3>1. UNCHANGED <<leaked, conn, delivered>> /\ pc = "connect"
      BY <2>3 DEF ConnectFails
    <3> QED
      BY <2>1, <3>1 DEF CutOff
  <2>4. CASE OpenDatabaseFails
    <3>1. UNCHANGED <<leaked, delivered>> /\ (pc' = "opendb" \/ conn' = "none")
      BY <2>4 DEF OpenDatabaseFails, AttemptFails
    <3> QED
      BY <2>1, <3>1 DEF CutOff
  <2>5. CASE OpenDatabase
    BY <1>1, <2>1, <2>5, TagServerAssumption DEF OpenDatabase, TypeInv, ServerType
  <2>6. CASE \/ SendRegPacket \/ SendRegPacketFails \/ RegPacketAnswered
             \/ RegPacketTimesOut \/ NoTransducerRows \/ NoTransducerRowsFails
    BY <2>1, <2>6 DEF SendRegPacket, SendRegPacketFails, RegPacketAnswered,
       RegPacketTimesOut, NoTransducerRows, NoTransducerRowsFails
  <2>7. CASE DiscardAnswers \/ QueueEmpty \/ Dequeue
    <3>1. UNCHANGED <<leaked, conn, delivered>> /\ pc # "opendb"
      BY <2>7 DEF DiscardAnswers, QueueEmpty, Dequeue, linkVars
    <3> QED
      BY <2>1, <3>1 DEF CutOff
  <2>8. CASE SendReport
    BY <2>1, <2>8 DEF SendReport
  <2>9. CASE SendReportFails
    BY <2>1, <2>9 DEF SendReportFails, CutOff
  <2>10. CASE MiddlewareReads
    <3>1. /\ pc = "opendb" /\ UNCHANGED <<leaked, pc>>
          /\ wire \in Seq(Packet) /\ wire # <<>> /\ Reports(wire) = {}
      BY <1>1, <2>1, <2>10 DEF MiddlewareReads, serverVars, TypeInv, LinkType, IInv, LinkInv
    <3>2. 1 \in DOMAIN wire /\ Head(wire) = wire[1] /\ wire[1] \in Packet
      BY <3>1
    <3>3. Head(wire).kind = "reg"
      <4>1. wire[1].kind # "report"
        BY <3>1, <3>2 DEF Reports
      <4>2. wire[1].kind \in {"reg", "report"}
        BY <3>2 DEF Packet
      <4> QED
        BY <3>2, <4>1, <4>2
    <3> QED
      BY <2>1, <2>10, <3>1, <3>3 DEF MiddlewareReads, CutOff
  <2>11. CASE ConnectionBreaks
    BY <2>1, <2>11 DEF ConnectionBreaks, serverVars, CutOff
  <2>12. CASE Produce
    BY <2>1, <2>12 DEF Produce, Post, serverVars, linkVars, CutOff
  <2> QED
    BY <2>2, <2>3, <2>4, <2>5, <2>6, <2>7, <2>8, <2>9, <2>10, <2>11, <2>12
       DEF Next, ServerStep, LinkStep
<1>2. TypeInv /\ IInv /\ RegInv /\ [Next]_vars => RegInv'
  BY StepReg
<1> QED
  BY <1>1, <1>2, Invariance, InitReg, PTL DEF Spec, CutOffForGood
============================================================================
