--------------------------- MODULE Gateway_proofs ----------------------------
(***************************************************************************)
(* What the drivers of iDCU controllers guarantee, and what the reporting  *)
(* path as a whole guarantees, for any number of devices, any width of the *)
(* counter, any capacity of queue, stream and buffer, and any number of    *)
(* units, resets and lost sessions.  First IDCUDriver alone; then the      *)
(* gateway: the drivers and tagServer, which share only the queue, each    *)
(* behave as their own module says, so that what was proved of either      *)
(* holds of both together.                                                 *)
(***************************************************************************)
EXTENDS Gateway, SequenceTheorems, WellFoundedInduction, TLAPS

SP == INSTANCE TagServer_proofs WITH pc <- serverPc

-----------------------------------------------------------------------------
(* The replies of a device, those read and those still in the stream.      *)

\* What a reply about the input says is a bit.
SoundReply == {r \in Reply : r.kind = "io" => r.value \in Bit}

\* The units made when a reply was produced.
Made == [r \in SoundReply |-> r.at]

\* How many of them the counter had lost by then, in resets and when it wrapped:
\* what it shows of those it counted does not become more.
CountReply == {r \in SoundReply : r.kind = "count"}
Missed == [r \in SoundReply |-> r.at - r.value]

\* The replies of the set S are in the order of m: b has been read, r has not;
\* lo is what m was when the last one was taken over, hi is what it is by now.
InOrder(m, S, b, r, lo, hi) ==
    /\ lo <= hi
    /\ \A i \in DOMAIN b : b[i] \in S => lo <= m[b[i]] /\ m[b[i]] <= hi
    /\ \A i \in DOMAIN r : r[i] \in S => lo <= m[r[i]] /\ m[r[i]] <= hi
    /\ \A i, j \in DOMAIN b : b[i] \in S /\ b[j] \in S /\ i <= j => m[b[i]] <= m[b[j]]
    /\ \A i, j \in DOMAIN r : r[i] \in S /\ r[j] \in S /\ i <= j => m[r[i]] <= m[r[j]]
    /\ \A i \in DOMAIN b, j \in DOMAIN r : b[i] \in S /\ r[j] \in S => m[b[i]] <= m[r[j]]

LEMMA SoundReplyType ==
    ASSUME NEW r \in SoundReply
    PROVE  /\ r.at \in Nat /\ r.value \in Count
           /\ r.kind \in {"io", "count", "bad"}
           /\ r.kind = "io" => r.value \in Bit
<1>1. Bit \subseteq Count
  BY IDCUDriverAssumption DEF Bit, Count
<1> QED
  BY <1>1 DEF SoundReply, Reply

LEMMA MeasureType == Made \in [SoundReply -> Int] /\ Missed \in [SoundReply -> Int]
<1>1. Count \subseteq Int
  BY IDCUDriverAssumption DEF Count
<1>2. ASSUME NEW r \in SoundReply PROVE r.at \in Int /\ r.at - r.value \in Int
  <2>1. r.at \in Nat /\ r.value \in Int
    BY <1>1, SoundReplyType
  <2> QED
    BY <2>1
<1> QED
  BY <1>2 DEF Made, Missed

\* What is to come may be more.
LEMMA InOrderHigher ==
    ASSUME NEW m \in [SoundReply -> Int], NEW S \in SUBSET SoundReply,
           NEW b \in Seq(SoundReply), NEW r \in Seq(SoundReply), NEW lo \in Int, NEW hi \in Int,
           InOrder(m, S, b, r, lo, hi), NEW more \in Int, hi <= more
    PROVE  InOrder(m, S, b, r, lo, more)
<1>1. \A i \in DOMAIN b : m[b[i]] \in Int
  OBVIOUS
<1>2. \A i \in DOMAIN r : m[r[i]] \in Int
  OBVIOUS
<1> QED
  BY <1>1, <1>2 DEF InOrder

\* A new reply tells of the present.
LEMMA InOrderAppend ==
    ASSUME NEW m \in [SoundReply -> Int], NEW S \in SUBSET SoundReply,
           NEW b \in Seq(SoundReply), NEW r \in Seq(SoundReply), NEW lo \in Int, NEW hi \in Int,
           NEW x \in SoundReply, x \in S => m[x] = hi, InOrder(m, S, b, r, lo, hi)
    PROVE  InOrder(m, S, b, Append(r, x), lo, hi)
<1>1. \A i \in DOMAIN b : m[b[i]] \in Int
  OBVIOUS
<1>2. \A i \in DOMAIN r : m[r[i]] \in Int
  OBVIOUS
<1>3. /\ DOMAIN Append(r, x) = 1 .. Len(r) + 1 /\ DOMAIN r = 1 .. Len(r) /\ Len(r) \in Nat
      /\ \A i \in 1 .. Len(r) : Append(r, x)[i] = r[i]
      /\ Append(r, x)[Len(r) + 1] = x
  OBVIOUS
<1> DEFINE s == Append(r, x)
<1> HIDE DEF s
<1>4. \A i \in DOMAIN s : \/ i = Len(r) + 1 /\ s[i] = x
                          \/ i \in DOMAIN r /\ s[i] = r[i] /\ i \in Int /\ i < Len(r) + 1
  BY <1>3 DEF s
<1>8. /\ lo <= hi
      /\ \A i \in DOMAIN r : r[i] \in S => lo <= m[r[i]] /\ m[r[i]] <= hi
      /\ \A i, j \in DOMAIN r : r[i] \in S /\ r[j] \in S /\ i <= j => m[r[i]] <= m[r[j]]
  BY DEF InOrder
<1>5. ASSUME NEW i \in DOMAIN s, s[i] \in S
      PROVE  m[s[i]] \in Int /\ lo <= m[s[i]] /\ m[s[i]] <= hi
  <2>1. CASE i = Len(r) + 1 /\ s[i] = x
    BY <1>5, <1>8, <2>1
  <2>2. CASE i \in DOMAIN r /\ s[i] = r[i]
    BY <1>2, <1>5, <1>8, <2>2
  <2> QED
    BY <1>4, <2>1, <2>2
<1>6. \A i, j \in DOMAIN s : s[i] \in S /\ s[j] \in S /\ i <= j => m[s[i]] <= m[s[j]]
  <2> SUFFICES ASSUME NEW i \in DOMAIN s, NEW j \in DOMAIN s, s[i] \in S, s[j] \in S, i <= j
               PROVE  m[s[i]] <= m[s[j]]
    OBVIOUS
  <2>1. CASE j = Len(r) + 1 /\ s[j] = x
    BY <1>5, <2>1
  <2>2. CASE j \in DOMAIN r /\ s[j] = r[j] /\ j \in Int /\ j < Len(r) + 1
    <3>1. i # Len(r) + 1
      BY <1>3, <2>2
    <3>2. i \in DOMAIN r /\ s[i] = r[i]
      BY <1>4, <3>1
    <3> QED
      BY <1>8, <2>2, <3>2
  <2> QED
    BY <1>4, <2>1, <2>2
<1>7. \A i \in DOMAIN b, j \in DOMAIN s : b[i] \in S /\ s[j] \in S => m[b[i]] <= m[s[j]]
  BY <1>1, <1>2, <1>4 DEF InOrder
<1> QED
  BY <1>5, <1>6, <1>7 DEF InOrder, s

\* The reply at the head may be taken over or passed over.
LEMMA InOrderTail ==
    ASSUME NEW m \in [SoundReply -> Int], NEW S \in SUBSET SoundReply,
           NEW b \in Seq(SoundReply), NEW r \in Seq(SoundReply), NEW lo \in Int, NEW hi \in Int,
           b # <<>>, InOrder(m, S, b, r, lo, hi)
    PROVE  /\ Head(b) \in SoundReply /\ Tail(b) \in Seq(SoundReply)
           /\ InOrder(m, S, Tail(b), r, lo, hi)
           /\ Head(b) \in S =>
                /\ m[Head(b)] \in Int /\ lo <= m[Head(b)]
                /\ InOrder(m, S, Tail(b), r, m[Head(b)], hi)
                /\ InOrder(m, S, b, r, m[Head(b)], hi)
<1>1. \A i \in DOMAIN b : m[b[i]] \in Int
  OBVIOUS
<1>2. \A i \in DOMAIN r : m[r[i]] \in Int
  OBVIOUS
<1>3. /\ Head(b) = b[1] /\ Head(b) \in SoundReply /\ 1 \in DOMAIN b
      /\ Tail(b) \in Seq(SoundReply)
      /\ \A i \in DOMAIN Tail(b) : i \in DOMAIN b /\ i + 1 \in DOMAIN b /\ Tail(b)[i] = b[i + 1]
      /\ \A i \in DOMAIN b : i \in Nat /\ 1 <= i
  OBVIOUS
<1> DEFINE t == Tail(b)
<1>4. \A i \in DOMAIN t : i \in Int /\ i \in DOMAIN b /\ i + 1 \in DOMAIN b /\ t[i] = b[i + 1]
  BY <1>3
<1> HIDE DEF t
<1>5. InOrder(m, S, t, r, lo, hi)
  <2>1. \A i, j \in DOMAIN t : t[i] \in S /\ t[j] \in S /\ i <= j => m[t[i]] <= m[t[j]]
    <3> SUFFICES ASSUME NEW i \in DOMAIN t, NEW j \in DOMAIN t, t[i] \in S, t[j] \in S, i <= j
                 PROVE  m[t[i]] <= m[t[j]]
      OBVIOUS
    <3>1. i \in Int /\ j \in Int
      BY <1>4
    <3>2. i + 1 <= j + 1
      BY <3>1
    <3> QED
      BY <1>4, <3>2 DEF InOrder
  <2>2. \A i \in DOMAIN t : t[i] \in S => lo <= m[t[i]] /\ m[t[i]] <= hi
    BY <1>4 DEF InOrder
  <2>3. \A i \in DOMAIN t, j \in DOMAIN r : t[i] \in S /\ r[j] \in S => m[t[i]] <= m[r[j]]
    BY <1>4 DEF InOrder
  <2> QED
    BY <2>1, <2>2, <2>3 DEF InOrder
<1>6. ASSUME Head(b) \in S
      PROVE  /\ m[Head(b)] \in Int /\ lo <= m[Head(b)]
             /\ InOrder(m, S, b, r, m[Head(b)], hi)
             /\ InOrder(m, S, t, r, m[Head(b)], hi)
  <2>1. m[Head(b)] \in Int /\ lo <= m[Head(b)] /\ InOrder(m, S, b, r, m[Head(b)], hi)
    BY <1>1, <1>2, <1>3, <1>6 DEF InOrder
  <2>2. /\ m[Head(b)] <= hi
        /\ \A i \in DOMAIN b : b[i] \in S => m[Head(b)] <= m[b[i]] /\ m[b[i]] <= hi
        /\ \A i \in DOMAIN r : r[i] \in S => m[Head(b)] <= m[r[i]] /\ m[r[i]] <= hi
    BY <2>1 DEF InOrder
  <2>3. \A i \in DOMAIN t : t[i] \in S => m[Head(b)] <= m[t[i]] /\ m[t[i]] <= hi
    BY <1>4, <2>2
  <2>4. InOrder(m, S, t, r, m[Head(b)], hi)
    BY <1>5, <2>2, <2>3 DEF InOrder
  <2> QED
    BY <2>1, <2>4
<1> QED
  BY <1>3, <1>5, <1>6 DEF t

\* What was read may be dropped, and what was not, too.
LEMMA InOrderDropped ==
    ASSUME NEW m, NEW S, NEW b, NEW r, NEW lo, NEW hi, InOrder(m, S, b, r, lo, hi)
    PROVE  InOrder(m, S, <<>>, r, lo, hi) /\ InOrder(m, S, <<>>, <<>>, lo, hi)
  BY DEF InOrder

\* t is r without its first n replies, z is b with them.
Moved(b, r, n, t, z) ==
    /\ \A i \in DOMAIN t : i \in Nat /\ 0 < i /\ n + i \in DOMAIN r /\ t[i] = r[n + i]
    /\ \A i \in DOMAIN z :
          \/ i \in DOMAIN b /\ z[i] = b[i] /\ i \in Nat /\ i <= Len(b)
          \/ /\ i - Len(b) \in DOMAIN r /\ z[i] = r[i - Len(b)]
             /\ i \in Nat /\ Len(b) < i /\ i <= Len(b) + n

\* A read takes the first n replies of the stream, and keeps or drops them.
LEMMA ReadReplies ==
    ASSUME NEW b \in Seq(SoundReply), NEW r \in Seq(SoundReply), NEW n \in 0 .. Len(r)
    PROVE  /\ SubSeq(r, n + 1, Len(r)) \in Seq(SoundReply)
           /\ b \o SubSeq(r, 1, n) \in Seq(SoundReply)
           /\ Moved(b, r, n, SubSeq(r, n + 1, Len(r)), b \o SubSeq(r, 1, n))
<1> DEFINE s == SubSeq(r, 1, n)
           t == SubSeq(r, n + 1, Len(r))
           z == b \o s
<1>1. /\ s \in Seq(SoundReply) /\ Len(s) = n /\ DOMAIN s = 1 .. n
      /\ \A i \in 1 .. n : s[i] = r[i] /\ i \in DOMAIN r
  OBVIOUS
<1>2. /\ t \in Seq(SoundReply) /\ DOMAIN t = 1 .. Len(r) - n
      /\ \A i \in 1 .. Len(r) - n : t[i] = r[n + i] /\ n + i \in DOMAIN r
  OBVIOUS
<1> HIDE DEF s, t, z
<1>3. n \in Nat /\ Len(r) \in Nat /\ Len(b) \in Nat /\ DOMAIN b = 1 .. Len(b)
  OBVIOUS
<1>4. \A i \in DOMAIN t : i \in Nat /\ 0 < i /\ n + i \in DOMAIN r /\ t[i] = r[n + i]
  <2> SUFFICES ASSUME NEW i \in 1 .. Len(r) - n
               PROVE  i \in Nat /\ 0 < i /\ n + i \in DOMAIN r /\ t[i] = r[n + i]
    BY <1>2
  <2>1. i \in Nat /\ 0 < i
    BY <1>3
  <2> QED
    BY <1>2, <2>1
<1>5. s \in Seq(SoundReply)
  BY <1>1
<1>6. /\ b \o s \in Seq(SoundReply) /\ Len(b \o s) = Len(b) + Len(s)
      /\ \A i \in 1 .. Len(b) + Len(s) : (b \o s)[i] = IF i <= Len(b) THEN b[i] ELSE s[i - Len(b)]
  BY <1>5, ConcatProperties, Zenon
<1>7. /\ z \in Seq(SoundReply) /\ DOMAIN z = 1 .. Len(b) + n
      /\ \A i \in 1 .. Len(b) + n : z[i] = IF i <= Len(b) THEN b[i] ELSE s[i - Len(b)]
  <2>1. z \in Seq(SoundReply) /\ Len(z) = Len(b) + n
    BY <1>1, <1>3, <1>6 DEF z
  <2>2. DOMAIN z = 1 .. Len(z)
    BY <2>1
  <2> QED
    BY <1>1, <1>3, <1>6, <2>1, <2>2 DEF z
<1>8. \A i \in DOMAIN z :
        \/ i \in DOMAIN b /\ z[i] = b[i] /\ i \in Nat /\ i <= Len(b)
        \/ /\ i - Len(b) \in DOMAIN r /\ z[i] = r[i - Len(b)]
           /\ i \in Nat /\ Len(b) < i /\ i <= Len(b) + n
  <2> SUFFICES ASSUME NEW i \in 1 .. Len(b) + n
               PROVE  \/ i \in DOMAIN b /\ z[i] = b[i] /\ i \in Nat /\ i <= Len(b)
                      \/ /\ i - Len(b) \in DOMAIN r /\ z[i] = r[i - Len(b)]
                         /\ i \in Nat /\ Len(b) < i /\ i <= Len(b) + n
    BY <1>7
  <2>1. i \in Nat /\ 1 <= i /\ i <= Len(b) + n
    BY <1>3
  <2>2. CASE i <= Len(b)
    BY <1>3, <1>7, <2>1, <2>2
  <2>3. CASE ~(i <= Len(b))
    <3>1. i - Len(b) \in 1 .. n /\ Len(b) < i
      BY <1>3, <2>1, <2>3
    <3>2. z[i] = s[i - Len(b)]
      BY <1>7, <2>3
    <3> QED
      BY <1>1, <2>1, <3>1, <3>2
  <2> QED
    BY <2>2, <2>3
<1> QED
  BY <1>2, <1>4, <1>7, <1>8 DEF Moved, s, t, z

LEMMA InOrderRead ==
    ASSUME NEW m \in [SoundReply -> Int], NEW S \in SUBSET SoundReply,
           NEW b \in Seq(SoundReply), NEW r \in Seq(SoundReply), NEW lo \in Int, NEW hi \in Int,
           InOrder(m, S, b, r, lo, hi), NEW n \in 0 .. Len(r), NEW t, NEW z, Moved(b, r, n, t, z)
    PROVE  InOrder(m, S, b, t, lo, hi) /\ InOrder(m, S, z, t, lo, hi)
<1>1. n \in Nat /\ Len(b) \in Nat /\ DOMAIN b = 1 .. Len(b)
  OBVIOUS
<1>2. \A i \in DOMAIN t : i \in Nat /\ 0 < i /\ n + i \in DOMAIN r /\ t[i] = r[n + i]
  BY DEF Moved
<1>3. \A i \in DOMAIN z :
        \/ i \in DOMAIN b /\ z[i] = b[i] /\ i \in Nat /\ i <= Len(b)
        \/ /\ i - Len(b) \in DOMAIN r /\ z[i] = r[i - Len(b)]
           /\ i \in Nat /\ Len(b) < i /\ i <= Len(b) + n
  BY DEF Moved
<1>4. \A i, j \in DOMAIN t : t[i] \in S /\ t[j] \in S /\ i <= j => m[t[i]] <= m[t[j]]
  <2> SUFFICES ASSUME NEW i \in DOMAIN t, NEW j \in DOMAIN t, t[i] \in S, t[j] \in S, i <= j
               PROVE  m[t[i]] <= m[t[j]]
    OBVIOUS
  <2>1. n + i <= n + j
    BY <1>1, <1>2
  <2> QED
    BY <1>2, <2>1 DEF InOrder
<1>5. InOrder(m, S, b, t, lo, hi)
  BY <1>2, <1>4 DEF InOrder
<1>6. \A i \in DOMAIN z : z[i] \in S => lo <= m[z[i]] /\ m[z[i]] <= hi
  BY <1>3 DEF InOrder
<1>7. \A i, j \in DOMAIN z : z[i] \in S /\ z[j] \in S /\ i <= j => m[z[i]] <= m[z[j]]
  <2> SUFFICES ASSUME NEW i \in DOMAIN z, NEW j \in DOMAIN z, z[i] \in S, z[j] \in S, i <= j
               PROVE  m[z[i]] <= m[z[j]]
    OBVIOUS
  <2>1. CASE i \in DOMAIN b /\ z[i] = b[i]
    <3>1. \/ j \in DOMAIN b /\ z[j] = b[j]
          \/ j - Len(b) \in DOMAIN r /\ z[j] = r[j - Len(b)]
      BY <1>3
    <3> QED
      BY <2>1, <3>1 DEF InOrder
  <2>2. CASE i - Len(b) \in DOMAIN r /\ z[i] = r[i - Len(b)] /\ i \in Nat /\ Len(b) < i
    <3>1. j \in Nat /\ ~(j <= Len(b))
      BY <1>1, <1>3, <2>2
    <3>2. j - Len(b) \in DOMAIN r /\ z[j] = r[j - Len(b)]
      BY <1>3, <3>1
    <3>3. i - Len(b) <= j - Len(b)
      BY <1>1, <2>2, <3>1
    <3> QED
      BY <2>2, <3>2, <3>3 DEF InOrder
  <2> QED
    BY <1>3, <2>1, <2>2
<1>8. \A i \in DOMAIN z, j \in DOMAIN t : z[i] \in S /\ t[j] \in S => m[z[i]] <= m[t[j]]
  <2> SUFFICES ASSUME NEW i \in DOMAIN z, NEW j \in DOMAIN t, z[i] \in S, t[j] \in S
               PROVE  m[z[i]] <= m[t[j]]
    OBVIOUS
  <2>1. CASE i \in DOMAIN b /\ z[i] = b[i]
    BY <1>2, <2>1 DEF InOrder
  <2>2. CASE /\ i - Len(b) \in DOMAIN r /\ z[i] = r[i - Len(b)]
             /\ i \in Nat /\ i <= Len(b) + n
    <3>1. n + j \in DOMAIN r /\ t[j] = r[n + j] /\ i - Len(b) <= n + j
      BY <1>1, <1>2, <2>2
    <3> QED
      BY <2>2, <3>1 DEF InOrder
  <2> QED
    BY <1>3, <2>1, <2>2
<1>9. InOrder(m, S, z, t, lo, hi)
  BY <1>5, <1>6, <1>7, <1>8 DEF InOrder
<1> QED
  BY <1>5, <1>9

-----------------------------------------------------------------------------
(* The inductive invariant.                                                *)

QueueType == log \in Seq(Message) /\ queue \in Seq(Nat)

DeviceType == count \in [Device -> Count] /\ wo \in [Device -> Bit] /\ made \in [Device -> Nat]

SessionType ==
    /\ upsets \in Nat
    /\ pc \in [Device -> {"closed", "recv", "parse", "dead"}]
    /\ sendType \in [Device -> Bit] /\ stray \in [Device -> Bit \union {None}]
    /\ cut \in [Device -> BOOLEAN] /\ place \in [Device -> {"front", "second", "inside"}]
    /\ misled \in [Device -> BOOLEAN]

ReplyType == replies \in [Device -> Seq(SoundReply)] /\ buf \in [Device -> Seq(SoundReply)]

TagType ==
    /\ woPastData \in [Device -> Bit]
    /\ cntPastData \in [Device -> Count] /\ preQty \in [Device -> Count]
    /\ seen \in [Device -> Nat]
    /\ origin \in [Device -> [count : Count, made : Nat]]
    /\ queuedQty \in [Device -> Nat] /\ refusedQty \in [Device -> Nat]
    /\ refusedWo \in [Device -> BOOLEAN]

TypeInv == QueueType /\ DeviceType /\ SessionType /\ ReplyType /\ TagType

\* The last counter compared is the one the next quantity is counted from, and
\* the quantities since the baseline add up to how far it is from there.
BaseInv ==
    \A d \in Device :
        /\ cntPastData[d] = preQty[d]
        /\ preQty[d] # 0 => queuedQty[d] + refusedQty[d] = preQty[d] - origin[d].count

\* No reply on its way tells of less than the counter taken over last.
OrderInv ==
    \A d \in Device : InOrder(Made, SoundReply, buf[d], replies[d], seen[d], made[d])

\* Nor does one tell of a counter that had missed less than the one taken over
\* last, if that is a baseline and was taken from a reply.
MissedOf(d) ==
    pc[d] # "dead" /\ ~misled[d] =>
        \E lo \in Int :
            /\ InOrder(Missed, CountReply, buf[d], replies[d], lo, made[d] - count[d])
            /\ preQty[d] # 0 => lo = seen[d] - preQty[d]

MissedInv == \A d \in Device : MissedOf(d)

CountReport(i) == i \in DOMAIN log /\ log[i].kind = "count"

\* The reports of a counter, whatever they were made from, stand for stretches that end where
\* the next ones begin or before, the last one no later than the counter taken
\* over last.
ReportInv ==
    /\ \A i \in DOMAIN log :
          CountReport(i) => log[i].lo <= log[i].hi /\ log[i].hi <= seen[log[i].dev]
    /\ \A i, j \in DOMAIN log :
          CountReport(i) /\ CountReport(j) /\ i < j /\ log[i].dev = log[j].dev =>
              log[i].hi <= log[j].lo

\* A report tells of no more units than the stretch has that it stands for.
QtyInv ==
    \A i \in DOMAIN log :
        CountReport(i) /\ ~misled[log[i].dev] => log[i].qty <= log[i].hi - log[i].lo

IInv == TypeInv /\ BaseInv /\ OrderInv /\ MissedInv /\ ReportInv /\ QtyInv

LEMMA TypeInvTypeOK ==
    ASSUME TypeInv PROVE TypeOK
<1>1. ASSUME NEW s \in Seq(SoundReply) PROVE s \in Seq(Reply)
  BY SeqMonotonic DEF SoundReply
<1>2. replies \in [Device -> Seq(Reply)] /\ buf \in [Device -> Seq(Reply)]
  BY <1>1 DEF TypeInv, ReplyType
<1> QED
  BY <1>2 DEF TypeOK, TypeInv, QueueType, DeviceType, SessionType, TagType

LEMMA InitSound ==
    ASSUME Init PROVE IInv
<1>1. 0 \in Count /\ <<>> \in Seq(SoundReply) /\ 0 \in Bit
  BY IDCUDriverAssumption DEF Count, Bit
<1>2. TypeInv
  BY <1>1 DEF Init, TypeInv, QueueType, DeviceType, SessionType, ReplyType, TagType, None
<1>3. BaseInv /\ ReportInv /\ QtyInv
  BY DEF Init, BaseInv, ReportInv, QtyInv, CountReport
<1>4. \A m, S : \A n \in Int : InOrder(m, S, <<>>, <<>>, n, n)
  BY DEF InOrder
<1>5. OrderInv
  <2>1. 0 \in Int
    OBVIOUS
  <2> SUFFICES ASSUME NEW d \in Device
               PROVE  InOrder(Made, SoundReply, buf[d], replies[d], seen[d], made[d])
    BY DEF OrderInv
  <2>2. buf[d] = <<>> /\ replies[d] = <<>> /\ seen[d] = 0 /\ made[d] = 0
    BY DEF Init
  <2> QED
    BY <1>4, <2>1, <2>2
<1>6. MissedInv
  <2> SUFFICES ASSUME NEW d \in Device PROVE MissedOf(d)
    BY DEF MissedInv
  <2>1. made[d] - count[d] \in Int /\ preQty[d] = 0 /\ buf[d] = <<>> /\ replies[d] = <<>>
    BY <1>2 DEF Init, TypeInv, DeviceType, Count
  <2> QED
    BY <1>4, <2>1 DEF MissedOf
<1> QED
  BY <1>2, <1>3, <1>5, <1>6 DEF IInv

-----------------------------------------------------------------------------
(* Reports.                                                                *)

LEMMA OfferType ==
    ASSUME QueueType, NEW m \in Message, Offer(m)
    PROVE  QueueType' /\ log' \in {log, Append(log, m)}
<1>1. log \in Seq(Message) /\ queue \in Seq(Nat)
  BY DEF QueueType
<1>2. CASE Len(queue) < QueueCap
  <2>1. log' = Append(log, m) /\ queue' = Append(queue, Len(log) + 1)
    BY <1>2 DEF Offer
  <2>2. log' \in Seq(Message)
    BY <1>1, <2>1
  <2>3. queue' \in Seq(Nat)
    BY <1>1, <2>1
  <2> QED
    BY <2>1, <2>2, <2>3 DEF QueueType
<1>3. CASE ~(Len(queue) < QueueCap)
  BY <1>1, <1>3 DEF QueueType, Offer, queueVars
<1> QED
  BY <1>2, <1>3

LEMMA MessageType ==
    ASSUME NEW m \in Message
    PROVE  m.dev \in Device /\ m.lo \in Nat /\ m.hi \in Nat
  BY DEF Message

LEMMA PrintedType ==
    ASSUME NEW n \in Int PROVE Printed(n) \in Int
  BY IDCUDriverAssumption DEF Printed

\* A report of the input, or a counter that went on, leaves the earlier reports
\* alone.
LEMMA ReportsKept ==
    ASSUME TypeInv, ReportInv, NEW d \in Device, NEW at \in Nat, seen[d] <= at,
           seen' \in {seen, [seen EXCEPT ![d] = at]},
           \/ log' = log
           \/ \E m \in Message : m.kind = "wo" /\ log' = Append(log, m)
    PROVE  ReportInv'
<1>1. log \in Seq(Message) /\ seen \in [Device -> Nat]
  BY DEF TypeInv, QueueType, TagType
<1>2. \A e \in Device : seen[e] \in Nat /\ seen'[e] \in Nat /\ seen[e] <= seen'[e]
  BY <1>1
<1>3. \A i \in DOMAIN log : log[i].dev \in Device /\ log[i].hi \in Nat
  BY <1>1, MessageType
<1>4. ASSUME NEW i \in DOMAIN log', CountReport(i)'
      PROVE  CountReport(i) /\ i \in DOMAIN log /\ log'[i] = log[i]
  <2>1. CASE log' = log
    BY <1>4, <2>1 DEF CountReport
  <2>2. CASE log' # log
    <3>1. PICK m \in Message : m.kind = "wo" /\ log' = Append(log, m)
      BY <2>2
    <3>2. /\ DOMAIN log' = 1 .. Len(log) + 1 /\ DOMAIN log = 1 .. Len(log) /\ Len(log) \in Nat
          /\ \A k \in 1 .. Len(log) : log'[k] = log[k]
          /\ log'[Len(log) + 1] = m
      BY <1>1, <3>1
    <3>3. i \in 1 .. Len(log) + 1 /\ log'[i].kind = "count"
      BY <1>4, <3>2 DEF CountReport
    <3>4. i # Len(log) + 1
      BY <3>1, <3>2, <3>3
    <3>5. i \in DOMAIN log /\ log'[i] = log[i]
      BY <3>2, <3>3, <3>4
    <3> QED
      BY <3>3, <3>5 DEF CountReport
  <2> QED
    BY <2>1, <2>2
<1>5. \A i \in DOMAIN log' :
          CountReport(i)' => log'[i].lo <= log'[i].hi /\ log'[i].hi <= seen'[log'[i].dev]
  BY <1>2, <1>3, <1>4 DEF ReportInv
<1>6. \A i, j \in DOMAIN log' :
          CountReport(i)' /\ CountReport(j)' /\ i < j /\ log'[i].dev = log'[j].dev =>
              log'[i].hi <= log'[j].lo
  BY <1>4 DEF ReportInv
<1> QED
  BY <1>5, <1>6 DEF ReportInv

\* A report of the counter begins where the one before it ended, or later.
LEMMA ReportsExtended ==
    ASSUME TypeInv, ReportInv, NEW d \in Device, NEW at \in Nat, seen[d] <= at,
           seen' = [seen EXCEPT ![d] = at],
           NEW m \in Message, log' = Append(log, m),
           m.dev = d, m.lo = seen[d], m.hi = at
    PROVE  ReportInv'
<1>1. log \in Seq(Message) /\ seen \in [Device -> Nat]
  BY DEF TypeInv, QueueType, TagType
<1>2. /\ \A e \in Device : seen[e] \in Nat /\ seen'[e] \in Nat /\ seen[e] <= seen'[e]
      /\ seen'[d] = at
  BY <1>1
<1>3. \A i \in DOMAIN log : log[i].dev \in Device /\ log[i].hi \in Nat
  BY <1>1, MessageType
<1>4. /\ DOMAIN log' = 1 .. Len(log) + 1 /\ DOMAIN log = 1 .. Len(log) /\ Len(log) \in Nat
      /\ \A i \in 1 .. Len(log) : log'[i] = log[i]
      /\ log'[Len(log) + 1] = m
  BY <1>1
<1>5. ASSUME NEW i \in DOMAIN log', i # Len(log) + 1
      PROVE  i \in DOMAIN log /\ log'[i] = log[i] /\ (CountReport(i)' => CountReport(i))
  BY <1>4, <1>5 DEF CountReport
<1>6. \A i \in DOMAIN log' :
          CountReport(i)' => log'[i].lo <= log'[i].hi /\ log'[i].hi <= seen'[log'[i].dev]
  <2> SUFFICES ASSUME NEW i \in DOMAIN log', CountReport(i)'
               PROVE  log'[i].lo <= log'[i].hi /\ log'[i].hi <= seen'[log'[i].dev]
    OBVIOUS
  <2>1. CASE i = Len(log) + 1
    BY <1>2, <1>4, <2>1
  <2>2. CASE i # Len(log) + 1
    BY <1>2, <1>3, <1>5, <2>2 DEF ReportInv
  <2> QED
    BY <2>1, <2>2
<1>7. \A i, j \in DOMAIN log' :
          CountReport(i)' /\ CountReport(j)' /\ i < j /\ log'[i].dev = log'[j].dev =>
              log'[i].hi <= log'[j].lo
  <2> SUFFICES ASSUME NEW i \in DOMAIN log', NEW j \in DOMAIN log',
                      CountReport(i)', CountReport(j)',
                      i < j, log'[i].dev = log'[j].dev
               PROVE  log'[i].hi <= log'[j].lo
    OBVIOUS
  <2>1. i # Len(log) + 1
    BY <1>4
  <2>2. CASE j = Len(log) + 1
    <3>1. log[i].dev = d /\ log[i].hi <= seen[log[i].dev]
      BY <1>4, <1>5, <2>1, <2>2 DEF ReportInv
    <3> QED
      BY <1>4, <1>5, <2>1, <2>2, <3>1
  <2>3. CASE j # Len(log) + 1
    BY <1>5, <2>1, <2>3 DEF ReportInv
  <2> QED
    BY <2>2, <2>3
<1> QED
  BY <1>6, <1>7 DEF ReportInv

\* A new report tells of no more units than it stands for.
LEMMA QuantitiesKept ==
    ASSUME TypeInv, QtyInv, \A e \in Device : misled[e] => misled'[e],
           \/ log' = log
           \/ \E m \in Message :
                 /\ log' = Append(log, m)
                 /\ m.kind = "count" /\ ~misled'[m.dev] => m.qty <= m.hi - m.lo
    PROVE  QtyInv'
<1>1. log \in Seq(Message)
  BY DEF TypeInv, QueueType
<1>4. \A i \in DOMAIN log : log[i].dev \in Device
  BY <1>1, MessageType
<1>2. CASE log' = log
  BY <1>2, <1>4 DEF QtyInv, CountReport
<1>3. ASSUME NEW m \in Message, log' = Append(log, m),
             m.kind = "count" /\ ~misled'[m.dev] => m.qty <= m.hi - m.lo
      PROVE  QtyInv'
  <2>1. /\ DOMAIN log' = 1 .. Len(log) + 1 /\ DOMAIN log = 1 .. Len(log) /\ Len(log) \in Nat
        /\ \A k \in 1 .. Len(log) : log'[k] = log[k]
        /\ log'[Len(log) + 1] = m
    BY <1>1, <1>3
  <2>2. \A i \in DOMAIN log' : i = Len(log) + 1 \/ (i \in DOMAIN log /\ log'[i] = log[i])
    BY <2>1
  <2> QED
    BY <1>3, <1>4, <2>1, <2>2 DEF QtyInv, CountReport
<1> QED
  BY <1>2, <1>3

-----------------------------------------------------------------------------
(* selectTag_iDCU_IoT.                                                     *)

LEMMA SelectIoSound ==
    ASSUME TypeInv, BaseInv, ReportInv, QtyInv, NEW d \in Device, NEW bit \in Bit,
           SelectIo(d, bit), \A e \in Device : misled[e] => misled'[e]
    PROVE  /\ QueueType' /\ TagType' /\ BaseInv' /\ ReportInv' /\ QtyInv'
           /\ seen' = seen /\ preQty' = preQty
<1> DEFINE m == [dev |-> d, data_type |-> 1, kind |-> "wo", total |-> bit, qty |-> 0,
                 lo |-> 0, hi |-> 0]
<1>1. m \in Message /\ m.kind = "wo"
  BY DEF Message, Bit
<1>2. QueueType /\ TagType
  BY DEF TypeInv
<1>3. /\ IF woPastData[d] # bit
         THEN Offer(m) /\ refusedWo' = [refusedWo EXCEPT ![d] = @ \/ Len(queue) >= QueueCap]
         ELSE UNCHANGED <<queueVars, refusedWo>>
      /\ woPastData' = [woPastData EXCEPT ![d] = bit]
      /\ UNCHANGED <<cntPastData, preQty, seen, origin, queuedQty, refusedQty>>
  BY DEF SelectIo
<1> HIDE DEF m
<1>4. QueueType' /\ log' \in {log, Append(log, m)}
  BY <1>1, <1>2, <1>3, OfferType DEF QueueType, queueVars
<1>5. refusedWo' \in [Device -> BOOLEAN]
  <2>1. CASE woPastData[d] # bit
    <3> DEFINE full == refusedWo[d] \/ Len(queue) >= QueueCap
    <3>1. refusedWo' = [refusedWo EXCEPT ![d] = full]
      BY <1>3, <2>1
    <3>2. full \in BOOLEAN /\ refusedWo \in [Device -> BOOLEAN]
      BY <1>2 DEF TagType
    <3> HIDE DEF full
    <3> QED
      BY <3>1, <3>2, Zenon
  <2>2. CASE ~(woPastData[d] # bit)
    BY <1>2, <1>3, <2>2 DEF TagType
  <2> QED
    BY <2>1, <2>2
<1>6. TagType'
  BY <1>2, <1>3, <1>5 DEF TagType
<1>7. BaseInv'
  BY <1>3 DEF BaseInv
<1>8. seen[d] \in Nat
  BY <1>2 DEF TagType
<1>9. ReportInv'
  BY <1>1, <1>3, <1>4, <1>8, ReportsKept
<1>10. QtyInv'
  BY <1>1, <1>4, QuantitiesKept
<1> QED
  BY <1>3, <1>4, <1>6, <1>7, <1>9, <1>10

LEMMA SelectCountSound ==
    ASSUME TypeInv, BaseInv, ReportInv, QtyInv, NEW d \in Device, NEW c \in Count, NEW at \in Nat,
           seen[d] <= at, SelectCount(d, c, at), \A e \in Device : misled[e] => misled'[e],
           ~misled'[d] /\ preQty[d] # 0 => c - preQty[d] <= at - seen[d]
    PROVE  /\ QueueType' /\ TagType' /\ BaseInv' /\ ReportInv' /\ QtyInv'
           /\ seen' = [seen EXCEPT ![d] = at] /\ preQty' = [preQty EXCEPT ![d] = c]
<1>1. QueueType /\ TagType
  BY DEF TypeInv
<1>2. /\ cntPastData' = [cntPastData EXCEPT ![d] = c]
      /\ preQty' = [preQty EXCEPT ![d] = c]
      /\ seen' = [seen EXCEPT ![d] = at]
      /\ UNCHANGED <<woPastData, refusedWo>>
  BY DEF SelectCount
<1>3. /\ woPastData \in [Device -> Bit]
      /\ cntPastData \in [Device -> Count] /\ preQty \in [Device -> Count]
      /\ seen \in [Device -> Nat]
      /\ origin \in [Device -> [count : Count, made : Nat]]
      /\ queuedQty \in [Device -> Nat] /\ refusedQty \in [Device -> Nat]
      /\ refusedWo \in [Device -> BOOLEAN]
  BY <1>1 DEF TagType
<1>4. Count \subseteq Nat
  BY IDCUDriverAssumption DEF Count
<1>5. CASE SelectBaseline(d, c, at)
  <2>1. /\ origin' = [origin EXCEPT ![d] = [count |-> c, made |-> at]]
        /\ queuedQty' = [queuedQty EXCEPT ![d] = 0]
        /\ refusedQty' = [refusedQty EXCEPT ![d] = 0]
        /\ log' = log /\ queue' = queue
    BY <1>5 DEF SelectBaseline, queueVars
  <2>2. TagType'
    BY <1>2, <1>3, <2>1 DEF TagType
  <2>3. \A e \in Device :
          /\ cntPastData'[e] = preQty'[e]
          /\ preQty'[e] # 0 => queuedQty'[e] + refusedQty'[e] = preQty'[e] - origin'[e].count
    <3> SUFFICES ASSUME NEW e \in Device
                 PROVE  /\ cntPastData'[e] = preQty'[e]
                        /\ preQty'[e] # 0 =>
                             queuedQty'[e] + refusedQty'[e] = preQty'[e] - origin'[e].count
      OBVIOUS
    <3>1. CASE e = d
      <4>1. cntPastData'[e] = c /\ preQty'[e] = c /\ queuedQty'[e] = 0 /\ refusedQty'[e] = 0
        BY <1>2, <1>3, <2>1, <3>1
      <4>2. origin'[e].count = c
        BY <1>3, <2>1, <3>1
      <4> QED
        BY <1>4, <4>1, <4>2
    <3>2. CASE e # d
      BY <1>2, <1>3, <2>1, <3>2 DEF BaseInv
    <3> QED
      BY <3>1, <3>2
  <2>4. BaseInv'
    BY <2>3 DEF BaseInv
  <2>5. ReportInv' /\ QtyInv'
    BY <1>2, <2>1, ReportsKept, QuantitiesKept
  <2> QED
    BY <1>1, <1>2, <2>1, <2>2, <2>4, <2>5 DEF QueueType
<1>6. CASE SelectQty(d, c, at)
  <2> DEFINE qty == c - preQty[d]
             m == [dev |-> d, data_type |-> 1, kind |-> "count", total |-> Printed(c),
                   qty |-> Printed(qty), lo |-> seen[d], hi |-> at]
  <2>1. /\ preQty[d] # 0 /\ preQty[d] <= c
        /\ IF cntPastData[d] # c
           THEN /\ Offer(m)
                /\ IF Len(queue) < QueueCap
                   THEN queuedQty' = [queuedQty EXCEPT ![d] = @ + qty] /\ UNCHANGED refusedQty
                   ELSE refusedQty' = [refusedQty EXCEPT ![d] = @ + qty] /\ UNCHANGED queuedQty
           ELSE UNCHANGED <<queueVars, queuedQty, refusedQty>>
        /\ UNCHANGED origin
    BY <1>6 DEF SelectQty
  <2>2. c \in Nat /\ preQty[d] \in Nat /\ seen[d] \in Nat /\ qty \in Nat
    <3>1. c \in Nat /\ preQty[d] \in Nat /\ seen[d] \in Nat
      BY <1>3, <1>4
    <3> QED
      BY <2>1, <3>1
  <2>3. Printed(c) \in Int /\ Printed(qty) \in Int
    BY <2>2, PrintedType
  <2>4. m \in Message /\ m.dev = d /\ m.lo = seen[d] /\ m.hi = at
    BY <2>2, <2>3 DEF Message
  <2>11. ~misled'[m.dev] => m.qty <= m.hi - m.lo
    <3>1. ~misled'[d] => qty <= at - seen[d]
      BY <2>1
    <3>2. Printed(qty) <= qty
      BY <2>2, IDCUDriverAssumption DEF Printed
    <3>3. qty \in Int /\ at - seen[d] \in Int
      BY <2>2
    <3> HIDE DEF qty
    <3>4. ~misled'[d] => Printed(qty) <= at - seen[d]
      BY <2>3, <3>1, <3>2, <3>3
    <3> QED
      BY <3>4
  <2> HIDE DEF m, qty
  <2>5. QueueType' /\ log' \in {log, Append(log, m)}
    BY <1>1, <2>1, <2>4, OfferType DEF QueueType, queueVars
  <2>6. ReportInv'
    <3>1. CASE log' = log
      BY <1>2, <3>1, ReportsKept
    <3>2. CASE log' = Append(log, m)
      BY <1>2, <2>4, <3>2, ReportsExtended
    <3> QED
      BY <2>5, <3>1, <3>2
  <2>12. QtyInv'
    BY <2>4, <2>5, <2>11, QuantitiesKept
  <2>7. /\ queuedQty' \in [Device -> Nat] /\ refusedQty' \in [Device -> Nat]
        /\ queuedQty'[d] + refusedQty'[d] = queuedQty[d] + refusedQty[d] + qty
        /\ \A e \in Device : e # d => queuedQty'[e] = queuedQty[e] /\ refusedQty'[e] = refusedQty[e]
    <3>1. CASE cntPastData[d] # c /\ Len(queue) < QueueCap
      <4>1. queuedQty' = [queuedQty EXCEPT ![d] = @ + qty] /\ refusedQty' = refusedQty
        BY <2>1, <3>1
      <4>2. queuedQty[d] \in Nat /\ refusedQty[d] \in Nat
        BY <1>3
      <4> QED
        BY <1>3, <2>2, <4>1, <4>2
    <3>2. CASE cntPastData[d] # c /\ ~(Len(queue) < QueueCap)
      <4>1. refusedQty' = [refusedQty EXCEPT ![d] = @ + qty] /\ queuedQty' = queuedQty
        BY <2>1, <3>2
      <4>2. queuedQty[d] \in Nat /\ refusedQty[d] \in Nat
        BY <1>3
      <4> QED
        BY <1>3, <2>2, <4>1, <4>2
    <3>3. CASE cntPastData[d] = c
      <4>1. qty = 0
        BY <2>2, <3>3 DEF BaseInv, qty
      <4> QED
        BY <1>3, <2>1, <3>3, <4>1
    <3> QED
      BY <3>1, <3>2, <3>3
  <2>8. TagType'
    BY <1>2, <1>3, <2>1, <2>7 DEF TagType
  <2>9. \A e \in Device :
          /\ cntPastData'[e] = preQty'[e]
          /\ preQty'[e] # 0 => queuedQty'[e] + refusedQty'[e] = preQty'[e] - origin'[e].count
    <3> SUFFICES ASSUME NEW e \in Device
                 PROVE  /\ cntPastData'[e] = preQty'[e]
                        /\ preQty'[e] # 0 =>
                             queuedQty'[e] + refusedQty'[e] = preQty'[e] - origin'[e].count
      OBVIOUS
    <3>1. CASE e = d
      <4>1. cntPastData'[e] = c /\ preQty'[e] = c /\ origin'[e] = origin[d]
        BY <1>2, <1>3, <2>1, <3>1
      <4>2. queuedQty[d] + refusedQty[d] = preQty[d] - origin[d].count
        BY <2>1 DEF BaseInv
      <4>3. origin[d].count \in Nat
        BY <1>3, <1>4
      <4>4. queuedQty'[e] + refusedQty'[e] = preQty[d] - origin[d].count + qty
        BY <2>7, <3>1, <4>2
      <4> QED
        BY <2>2, <4>1, <4>3, <4>4 DEF qty
    <3>2. CASE e # d
      BY <1>2, <1>3, <2>1, <2>7, <3>2 DEF BaseInv
    <3> QED
      BY <3>1, <3>2
  <2>10. BaseInv'
    BY <2>9 DEF BaseInv
  <2> QED
    BY <1>2, <2>5, <2>6, <2>8, <2>10, <2>12
<1> QED
  BY <1>5, <1>6 DEF SelectCount

\* One reply taken over, or bytes that are none.
LEMMA SelectTagSound ==
    ASSUME TypeInv, BaseInv, ReportInv, QtyInv, NEW d \in Device,
           NEW kind, NEW value \in Count, kind = "io" => value \in Bit, NEW at \in Nat,
           seen[d] <= at, SelectTag(d, kind, value, at),
           \A e \in Device : misled[e] => misled'[e],
           kind = "count" /\ ~misled'[d] /\ preQty[d] # 0 => value - preQty[d] <= at - seen[d]
    PROVE  /\ QueueType' /\ TagType' /\ BaseInv' /\ ReportInv' /\ QtyInv'
           /\ \/ kind # "count" /\ seen' = seen /\ preQty' = preQty
              \/ /\ kind = "count" /\ seen' = [seen EXCEPT ![d] = at]
                 /\ preQty' = [preQty EXCEPT ![d] = value]
<1>1. CASE kind = "io" /\ SelectIo(d, value)
  <2>1. value \in Bit
    BY <1>1
  <2> QED
    BY <1>1, <2>1, SelectIoSound
<1>2. CASE kind = "count" /\ SelectCount(d, value, at)
  BY <1>2, SelectCountSound
<1>3. CASE /\ kind \notin {"io", "count"}
           /\ UNCHANGED <<queueVars, woPastData, cntPastData, preQty, seen, origin, queuedQty,
                          refusedQty, refusedWo>>
  <2>1. /\ log' = log /\ queue' = queue /\ woPastData' = woPastData
        /\ cntPastData' = cntPastData /\ preQty' = preQty /\ seen' = seen /\ origin' = origin
        /\ queuedQty' = queuedQty /\ refusedQty' = refusedQty /\ refusedWo' = refusedWo
    BY <1>3 DEF queueVars
  <2>2. QueueType' /\ TagType' /\ BaseInv' /\ ReportInv'
    BY <2>1 DEF TypeInv, QueueType, TagType, BaseInv, ReportInv, CountReport
  <2>3. QtyInv'
    BY <2>1, QuantitiesKept
  <2> QED
    BY <1>3, <2>1, <2>2, <2>3
<1> QED
  BY <1>1, <1>2, <1>3 DEF SelectTag

-----------------------------------------------------------------------------
(* The steps.                                                              *)

\* Steps that report nothing.
LEMMA TagsKept ==
    ASSUME IInv, UNCHANGED <<queueVars, tagVars>>
    PROVE  /\ QueueType' /\ TagType' /\ BaseInv' /\ ReportInv' /\ QtyInv'
           /\ seen' = seen /\ preQty' = preQty /\ misled' = misled
<1>1. /\ log' = log /\ queue' = queue /\ woPastData' = woPastData /\ cntPastData' = cntPastData
      /\ preQty' = preQty /\ seen' = seen /\ origin' = origin /\ queuedQty' = queuedQty
      /\ refusedQty' = refusedQty /\ refusedWo' = refusedWo /\ misled' = misled
  BY DEF queueVars, tagVars
<1>2. QueueType' /\ TagType'
  BY <1>1 DEF IInv, TypeInv, QueueType, TagType
<1>3. BaseInv'
  BY <1>1 DEF IInv, BaseInv
<1>4. ReportInv'
  BY <1>1 DEF IInv, ReportInv, CountReport
<1>5. QtyInv'
  BY <1>1 DEF IInv, QtyInv, CountReport
<1> QED
  BY <1>1, <1>2, <1>3, <1>4, <1>5

\* Steps of one device leave the replies of the others alone.
LEMMA OrderOfOne ==
    ASSUME OrderInv, NEW d \in Device,
           InOrder(Made, SoundReply, buf'[d], replies'[d], seen'[d], made'[d]),
           \A e \in Device : e # d => /\ buf'[e] = buf[e] /\ replies'[e] = replies[e]
                                      /\ seen'[e] = seen[e] /\ made'[e] = made[e]
    PROVE  OrderInv'
  BY DEF OrderInv

LEMMA MissedOfOne ==
    ASSUME MissedInv, NEW d \in Device, MissedOf(d)',
           \A e \in Device : e # d => /\ buf'[e] = buf[e] /\ replies'[e] = replies[e]
                                      /\ seen'[e] = seen[e] /\ made'[e] = made[e]
                                      /\ count'[e] = count[e] /\ pc'[e] = pc[e]
                                      /\ preQty'[e] = preQty[e] /\ misled'[e] = misled[e]
    PROVE  MissedInv'
<1>1. ASSUME NEW e \in Device PROVE MissedOf(e)'
  <2>1. CASE e = d
    BY <2>1
  <2>2. CASE e # d
    <3>1. MissedOf(e)
      BY DEF MissedInv
    <3> QED
      BY <2>2, <3>1 DEF MissedOf
  <2> QED
    BY <2>1, <2>2
<1> QED
  BY <1>1 DEF MissedInv

\* What a driver that lives knows of the replies under way.
LEMMA MissedSoFar ==
    ASSUME IInv, NEW d \in Device, pc[d] # "dead", ~misled[d]
    PROVE  \E lo \in Int :
               /\ InOrder(Missed, CountReply, buf[d], replies[d], lo, made[d] - count[d])
               /\ preQty[d] # 0 => lo = seen[d] - preQty[d]
  BY DEF IInv, MissedInv, MissedOf

LEMMA DeviceNumbers ==
    ASSUME TypeInv, NEW d \in Device
    PROVE  /\ made[d] - count[d] \in Int /\ made[d] \in Int /\ seen[d] \in Int
           /\ count[d] \in 0 .. 2 * HalfRange - 1 /\ preQty[d] \in Int
<1>1. made[d] \in Nat /\ count[d] \in Count /\ seen[d] \in Nat /\ preQty[d] \in Count
  BY DEF TypeInv, DeviceType, TagType
<1>2. Count \subseteq Int
  BY IDCUDriverAssumption DEF Count
<1> QED
  BY <1>1, <1>2 DEF Count

\* The counter that goes on, or wraps.
LEMMA Successor ==
    ASSUME NEW N \in Nat \ {0}, NEW k \in 0 .. N - 1
    PROVE  (k + 1) % N = IF k + 1 = N THEN 0 ELSE k + 1
<1>1. CASE k + 1 = N
  BY <1>1, SMT
<1>2. CASE k + 1 # N
  BY <1>2, SMT
<1> QED
  BY <1>1, <1>2

LEMMA FlipType ==
    ASSUME NEW b \in Bit PROVE 1 - b \in Bit
  BY DEF Bit

LEMMA DeviceStepSound ==
    ASSUME IInv, NEW d \in Device, DeviceStep(d)
    PROVE  IInv'
<1>1. TypeInv /\ OrderInv /\ UNCHANGED <<queueVars, pc, tcpVars, tagVars>>
  BY DEF IInv, DeviceStep, CountUnit, ResetCounter, ToggleWo
<1>2. /\ replies' = replies /\ sendType' = sendType /\ stray' = stray /\ buf' = buf
      /\ cut' = cut /\ place' = place /\ pc' = pc
  BY <1>1 DEF tcpVars
<1>3. /\ QueueType' /\ TagType' /\ BaseInv' /\ ReportInv' /\ QtyInv'
      /\ seen' = seen /\ preQty' = preQty /\ misled' = misled
  BY <1>1, TagsKept
<1>4. /\ count \in [Device -> Count] /\ wo \in [Device -> Bit] /\ made \in [Device -> Nat]
      /\ upsets \in Nat /\ seen \in [Device -> Nat]
      /\ buf[d] \in Seq(SoundReply) /\ replies[d] \in Seq(SoundReply)
  BY <1>1 DEF TypeInv, DeviceType, SessionType, TagType, ReplyType
<1>7. ASSUME made[d] - count[d] <= made'[d] - count'[d], made'[d] - count'[d] \in Int,
             \A e \in Device : e # d => made'[e] = made[e] /\ count'[e] = count[e]
      PROVE  MissedInv'
  <2>1. ASSUME pc[d] # "dead", ~misled[d]
        PROVE  \E lo \in Int :
                  /\ InOrder(Missed, CountReply, buf[d], replies[d], lo, made'[d] - count'[d])
                  /\ preQty[d] # 0 => lo = seen[d] - preQty[d]
    <3>1. PICK lo \in Int :
                  /\ InOrder(Missed, CountReply, buf[d], replies[d], lo, made[d] - count[d])
                  /\ preQty[d] # 0 => lo = seen[d] - preQty[d]
      BY <2>1, MissedSoFar
    <3>2. CountReply \in SUBSET SoundReply /\ made[d] - count[d] \in Int
      BY <1>1, DeviceNumbers DEF CountReply
    <3>3. InOrder(Missed, CountReply, buf[d], replies[d], lo, made'[d] - count'[d])
      BY <1>4, <1>7, <3>1, <3>2, MeasureType, InOrderHigher
    <3> QED
      BY <3>1, <3>3
  <2>2. MissedOf(d)'
    BY <1>2, <1>3, <2>1 DEF MissedOf
  <2> QED
    BY <1>2, <1>3, <1>7, <2>2, MissedOfOne DEF IInv
<1>5. CASE CountUnit(d)
  <2>1. /\ count' = [count EXCEPT ![d] = (@ + 1) % (2 * HalfRange)]
        /\ made' = [made EXCEPT ![d] = @ + 1]
        /\ wo' = wo /\ upsets' = upsets
    BY <1>5 DEF CountUnit
  <2>2. (count[d] + 1) % (2 * HalfRange) \in Count
    BY SMTT(30), <1>4, IDCUDriverAssumption DEF Count
  <2>3. DeviceType' /\ upsets' \in Nat
    BY <1>4, <2>1, <2>2 DEF DeviceType
  <2>4. InOrder(Made, SoundReply, buf[d], replies[d], seen[d], made[d] + 1)
    <3>1. /\ InOrder(Made, SoundReply, buf[d], replies[d], seen[d], made[d])
          /\ seen[d] \in Int /\ made[d] \in Int /\ made[d] + 1 \in Int /\ made[d] <= made[d] + 1
      BY <1>1, DeviceNumbers DEF OrderInv
    <3> QED
      BY <1>4, <3>1, MeasureType, InOrderHigher
  <2>5. OrderInv'
    BY <1>1, <1>2, <1>3, <1>4, <2>1, <2>4, OrderOfOne
  <2>6. made[d] - count[d] <= made'[d] - count'[d] /\ made'[d] - count'[d] \in Int
    <3>1. made[d] \in Int /\ count[d] \in 0 .. 2 * HalfRange - 1
      BY <1>1, DeviceNumbers
    <3>2. 2 * HalfRange \in Nat \ {0}
      BY IDCUDriverAssumption
    <3>3. count'[d] = (count[d] + 1) % (2 * HalfRange) /\ made'[d] = made[d] + 1
      BY <1>4, <2>1
    <3>4. count'[d] = 0 \/ count'[d] = count[d] + 1
      BY <3>1, <3>2, <3>3, Successor
    <3> QED
      BY <3>1, <3>3, <3>4
  <2>7. MissedInv'
    BY <1>1, <1>2, <1>3, <1>4, <1>7, <2>1, <2>6
  <2> QED
    BY <1>1, <1>2, <1>3, <2>3, <2>5, <2>7 DEF IInv, TypeInv, SessionType, ReplyType
<1>6. CASE ResetCounter(d) \/ ToggleWo(d)
  <2>1. made' = made
    BY <1>6 DEF ResetCounter, ToggleWo
  <2>2. upsets' \in Nat
    BY <1>4, <1>6 DEF ResetCounter, ToggleWo, Upset
  <2>3. DeviceType'
    <3>1. CASE ResetCounter(d)
      <4>1. PICK c \in 0 .. count[d] - 1 : count' = [count EXCEPT ![d] = c]
        BY <3>1 DEF ResetCounter
      <4>2. c \in Count
        BY <1>4, IDCUDriverAssumption DEF Count
      <4>3. wo' = wo
        BY <3>1 DEF ResetCounter
      <4> QED
        BY <1>4, <2>1, <4>1, <4>2, <4>3 DEF DeviceType
    <3>2. CASE ToggleWo(d)
      <4>1. wo' = [wo EXCEPT ![d] = 1 - @] /\ count' = count
        BY <3>2 DEF ToggleWo
      <4>2. 1 - wo[d] \in Bit
        BY <1>4, FlipType
      <4> QED
        BY <1>4, <2>1, <4>1, <4>2 DEF DeviceType
    <3> QED
      BY <1>6, <3>1, <3>2
  <2>4. OrderInv'
    BY <1>1, <1>2, <1>3, <2>1 DEF OrderInv
  <2>5. made[d] - count[d] <= made'[d] - count'[d] /\ made'[d] - count'[d] \in Int
    <3>1. made[d] \in Int /\ count[d] \in Int
      BY <1>1, DeviceNumbers
    <3>2. count'[d] = count[d] \/ (count'[d] \in Int /\ count'[d] < count[d])
      BY <1>4, <1>6, <3>1 DEF ResetCounter, ToggleWo
    <3> QED
      BY <2>1, <3>1, <3>2
  <2>6. \A e \in Device : e # d => count'[e] = count[e]
    BY <1>4, <1>6 DEF ResetCounter, ToggleWo
  <2>7. MissedInv'
    BY <1>7, <2>1, <2>5, <2>6
  <2> QED
    BY <1>1, <1>2, <1>3, <2>2, <2>3, <2>4, <2>7 DEF IInv, TypeInv, SessionType, ReplyType
<1> QED
  BY <1>5, <1>6 DEF DeviceStep

\* Replies b read and r not read are in order as those of d are now.
OrderKept(d, b, r) ==
    /\ InOrder(Made, SoundReply, b, r, seen[d], made[d])
    /\ \A lo \in Int :
          InOrder(Missed, CountReply, buf[d], replies[d], lo, made[d] - count[d]) =>
              InOrder(Missed, CountReply, b, r, lo, made[d] - count[d])

LEMMA OrderSoFar ==
    ASSUME IInv, NEW d \in Device
    PROVE  /\ OrderKept(d, buf[d], replies[d])
           /\ OrderKept(d, <<>>, replies[d])
           /\ OrderKept(d, <<>>, <<>>)
<1>1. InOrder(Made, SoundReply, buf[d], replies[d], seen[d], made[d])
  BY DEF IInv, OrderInv
<1> QED
  BY <1>1, InOrderDropped DEF OrderKept

LEMMA OrderAppended ==
    ASSUME IInv, NEW d \in Device, NEW x \in SoundReply, Made[x] = made[d],
           x \in CountReply => Missed[x] = made[d] - count[d]
    PROVE  OrderKept(d, buf[d], Append(replies[d], x))
<1>1. /\ buf[d] \in Seq(SoundReply) /\ replies[d] \in Seq(SoundReply)
      /\ InOrder(Made, SoundReply, buf[d], replies[d], seen[d], made[d])
  BY DEF IInv, TypeInv, ReplyType, OrderInv
<1>2. /\ made[d] - count[d] \in Int /\ made[d] \in Int /\ seen[d] \in Int
      /\ CountReply \in SUBSET SoundReply
  BY DeviceNumbers DEF IInv, CountReply
<1>3. InOrder(Made, SoundReply, buf[d], Append(replies[d], x), seen[d], made[d])
  BY <1>1, <1>2, MeasureType, InOrderAppend
<1>4. ASSUME NEW lo \in Int,
             InOrder(Missed, CountReply, buf[d], replies[d], lo, made[d] - count[d])
      PROVE  InOrder(Missed, CountReply, buf[d], Append(replies[d], x), lo, made[d] - count[d])
  BY <1>1, <1>2, <1>4, MeasureType, InOrderAppend
<1> QED
  BY <1>3, <1>4 DEF OrderKept

LEMMA OrderRead ==
    ASSUME IInv, NEW d \in Device, NEW n \in 0 .. Len(replies[d]), NEW t, NEW z,
           Moved(buf[d], replies[d], n, t, z)
    PROVE  OrderKept(d, buf[d], t) /\ OrderKept(d, z, t)
<1>1. /\ buf[d] \in Seq(SoundReply) /\ replies[d] \in Seq(SoundReply)
      /\ InOrder(Made, SoundReply, buf[d], replies[d], seen[d], made[d])
  BY DEF IInv, TypeInv, ReplyType, OrderInv
<1>2. /\ made[d] - count[d] \in Int /\ made[d] \in Int /\ seen[d] \in Int
      /\ CountReply \in SUBSET SoundReply
  BY DeviceNumbers DEF IInv, CountReply
<1>3. /\ InOrder(Made, SoundReply, buf[d], t, seen[d], made[d])
      /\ InOrder(Made, SoundReply, z, t, seen[d], made[d])
  BY <1>1, <1>2, MeasureType, InOrderRead
<1>4. ASSUME NEW lo \in Int,
             InOrder(Missed, CountReply, buf[d], replies[d], lo, made[d] - count[d])
      PROVE  /\ InOrder(Missed, CountReply, buf[d], t, lo, made[d] - count[d])
             /\ InOrder(Missed, CountReply, z, t, lo, made[d] - count[d])
  BY <1>1, <1>2, <1>4, MeasureType, InOrderRead
<1> QED
  BY <1>3, <1>4 DEF OrderKept

LEMMA AnswerSound ==
    ASSUME TypeInv, NEW d \in Device, NEW type \in Bit, NEW r \in Answers(d, type)
    PROVE  \A x \in {r, [r EXCEPT !.kind = "bad"]} :
               /\ x \in SoundReply /\ Made[x] = made[d]
               /\ x \in CountReply => Missed[x] = made[d] - count[d]
<1>1. count[d] \in Count /\ wo[d] \in Bit /\ made[d] \in Nat /\ Lookalike \in BOOLEAN
  BY IDCUDriverAssumption DEF TypeInv, DeviceType
<1>2. /\ r \in Reply /\ r.at = made[d] /\ (r.kind = "count" => r.value = count[d])
      /\ r.kind = "io" => r.value \in Bit
  <2>1. CASE type = 0
    <3>1. r = [kind |-> "io", value |-> wo[d], at |-> made[d], mimic |-> FALSE]
      BY <2>1 DEF Answers
    <3> QED
      BY <1>1, <3>1 DEF Reply
  <2>2. CASE type # 0
    <3>1. r \in [kind : {"count"}, value : {count[d]}, at : {made[d]}, mimic : {FALSE, Lookalike}]
      BY <2>2 DEF Answers
    <3> QED
      BY <1>1, <3>1 DEF Reply
  <2> QED
    BY <2>1, <2>2
<1> SUFFICES ASSUME NEW x \in {r, [r EXCEPT !.kind = "bad"]}
             PROVE  /\ x \in SoundReply /\ Made[x] = made[d]
                    /\ x \in CountReply => Missed[x] = made[d] - count[d]
  OBVIOUS
<1>3. x \in SoundReply /\ x.at = made[d] /\ (x.kind = "count" => x.value = count[d])
  BY <1>2 DEF SoundReply, Reply
<1> QED
  BY <1>3 DEF Made, Missed, CountReply

\* Opening and closing a session, requests and reads.
LEMMA SessionStepSound ==
    ASSUME IInv, NEW d \in Device,
           \/ OpenSession(d) \/ CloseSession(d) \/ Poll(d) \/ StrayPoll(d)
           \/ Receive(d) \/ ReceiveTooMuch(d)
    PROVE  IInv'
<1>1. TypeInv /\ OrderInv /\ UNCHANGED <<queueVars, deviceVars, tagVars>>
  BY DEF IInv, OpenSession, CloseSession, Poll, StrayPoll, Receive, ReceiveTooMuch
<1>2. /\ QueueType' /\ TagType' /\ BaseInv' /\ ReportInv' /\ QtyInv'
      /\ seen' = seen /\ preQty' = preQty /\ misled' = misled
  BY <1>1, TagsKept
<1>3. DeviceType' /\ made' = made /\ count' = count
  BY <1>1 DEF TypeInv, DeviceType, deviceVars
<1>4. /\ upsets \in Nat
      /\ pc \in [Device -> {"closed", "recv", "parse", "dead"}]
      /\ sendType \in [Device -> Bit] /\ stray \in [Device -> Bit \union {None}]
      /\ cut \in [Device -> BOOLEAN] /\ place \in [Device -> {"front", "second", "inside"}]
      /\ misled \in [Device -> BOOLEAN] /\ misled' \in [Device -> BOOLEAN]
      /\ replies \in [Device -> Seq(SoundReply)] /\ buf \in [Device -> Seq(SoundReply)]
      /\ made[d] \in Nat /\ seen[d] \in Nat
      /\ buf[d] \in Seq(SoundReply) /\ replies[d] \in Seq(SoundReply)
  BY <1>1, <1>2 DEF TypeInv, SessionType, ReplyType, DeviceType, TagType
<1>5. pc[d] # "dead"
  BY DEF OpenSession, CloseSession, Poll, StrayPoll, Receive, ReceiveTooMuch
<1>6. SUFFICES /\ SessionType' /\ ReplyType'
               /\ OrderKept(d, buf'[d], replies'[d])
               /\ \A e \in Device : e # d => /\ buf'[e] = buf[e] /\ replies'[e] = replies[e]
                                             /\ pc'[e] = pc[e]
  <2>1. OrderInv'
    BY <1>1, <1>2, <1>3, <1>6, OrderOfOne DEF OrderKept
  <2>2. ~misled[d] => \E lo \in Int :
            /\ InOrder(Missed, CountReply, buf'[d], replies'[d], lo, made[d] - count[d])
            /\ preQty[d] # 0 => lo = seen[d] - preQty[d]
    BY <1>5, <1>6, MissedSoFar DEF OrderKept
  <2>3. MissedOf(d)'
    BY <1>2, <1>3, <2>2 DEF MissedOf
  <2>4. MissedInv'
    BY <1>2, <1>3, <1>6, <2>3, MissedOfOne DEF IInv
  <2> QED
    BY <1>2, <1>3, <1>6, <2>1, <2>4 DEF IInv, TypeInv
<1>7. CASE OpenSession(d)
  BY <1>4, <1>7, OrderSoFar DEF OpenSession, SessionType, ReplyType, Bit
<1>8. CASE CloseSession(d)
  <2>1. /\ upsets' = upsets + 1
        /\ pc' = [pc EXCEPT ![d] = "closed"]
        /\ replies' = [replies EXCEPT ![d] = <<>>]
        /\ buf' = [buf EXCEPT ![d] = <<>>]
        /\ cut' = [cut EXCEPT ![d] = FALSE] /\ place' = [place EXCEPT ![d] = "front"]
        /\ sendType' = sendType
    BY <1>8 DEF CloseSession, Upset
  <2>2. PICK t \in {sendType[d], stray[d], None} : stray' = [stray EXCEPT ![d] = t]
    BY <1>8 DEF CloseSession
  <2>3. t \in Bit \union {None}
    BY <1>4
  <2>4. SessionType'
    BY <1>4, <2>1, <2>2, <2>3 DEF SessionType
  <2>5. <<>> \in Seq(SoundReply)
    OBVIOUS
  <2>6. ReplyType'
    BY <1>4, <2>1, <2>5 DEF ReplyType
  <2>7. OrderKept(d, <<>>, <<>>)
    BY OrderSoFar
  <2> QED
    BY <1>4, <2>1, <2>4, <2>6, <2>7
<1>9. CASE Poll(d) \/ StrayPoll(d)
  <2>1. PICK x \in SoundReply :
            /\ Made[x] = made[d] /\ (x \in CountReply => Missed[x] = made[d] - count[d])
            /\ replies' = [replies EXCEPT ![d] = Append(@, x)]
    <3>1. sendType[d] \in Bit /\ (StrayPoll(d) => stray[d] \in Bit)
      BY <1>4 DEF StrayPoll
    <3>2. PICK type \in Bit :
              \E r \in Answers(d, type) : \E x \in {r, [r EXCEPT !.kind = "bad"]} :
                  replies' = [replies EXCEPT ![d] = Append(@, x)]
      BY <1>9, <3>1 DEF Poll, StrayPoll
    <3>5. PICK r \in Answers(d, type) : \E x \in {r, [r EXCEPT !.kind = "bad"]} :
              replies' = [replies EXCEPT ![d] = Append(@, x)]
      BY <3>2
    <3>4. PICK x \in {r, [r EXCEPT !.kind = "bad"]} :
              replies' = [replies EXCEPT ![d] = Append(@, x)]
      BY <3>5
    <3>3. /\ x \in SoundReply /\ Made[x] = made[d]
          /\ x \in CountReply => Missed[x] = made[d] - count[d]
      BY <1>1, AnswerSound
    <3> QED
      BY <3>3, <3>4
  <2>2. buf' = buf /\ cut' = cut /\ place' = place /\ pc' = pc
    BY <1>9 DEF Poll, StrayPoll
  <2>3. upsets' \in Nat
    <3>1. upsets' = upsets \/ upsets' = upsets + 1
      BY <1>9 DEF Poll, StrayPoll, Upset
    <3> QED
      BY <1>4, <3>1
  <2>4. sendType' \in [Device -> Bit] /\ stray' \in [Device -> Bit \union {None}]
    <3>1. CASE Poll(d)
      <4>1. 1 - sendType[d] \in Bit
        BY <1>4, FlipType
      <4> QED
        BY <1>4, <3>1, <4>1 DEF Poll
    <3>2. CASE StrayPoll(d)
      <4>1. stray[d] \in Bit
        BY <1>4, <3>2 DEF StrayPoll
      <4>2. 1 - stray[d] \in Bit
        BY <4>1, FlipType
      <4> QED
        BY <1>4, <3>2, <4>2 DEF StrayPoll
    <3> QED
      BY <1>9, <3>1, <3>2
  <2>5. SessionType'
    BY <1>4, <2>2, <2>3, <2>4 DEF SessionType
  <2>6. Append(replies[d], x) \in Seq(SoundReply)
    BY <1>4
  <2>7. ReplyType'
    BY <1>4, <2>1, <2>2, <2>6 DEF ReplyType
  <2>8. OrderKept(d, buf[d], Append(replies[d], x))
    BY <2>1, OrderAppended
  <2> QED
    BY <1>4, <2>1, <2>2, <2>5, <2>7, <2>8
<1>10. CASE Receive(d)
  <2>1. PICK n \in 0 .. Len(replies[d]), incomplete \in BOOLEAN :
          /\ IF incomplete THEN Upset ELSE UNCHANGED upsets
          /\ buf' = [buf EXCEPT ![d] = @ \o SubSeq(replies[d], 1, n)]
          /\ replies' = [replies EXCEPT ![d] = SubSeq(@, n + 1, Len(@))]
          /\ cut' = [cut EXCEPT ![d] = incomplete]
    BY <1>10 DEF Receive
  <2> DEFINE z == buf[d] \o SubSeq(replies[d], 1, n)
             t == SubSeq(replies[d], n + 1, Len(replies[d]))
  <2>2. z \in Seq(SoundReply) /\ t \in Seq(SoundReply) /\ Moved(buf[d], replies[d], n, t, z)
    BY <1>4, ReadReplies, Zenon
  <2>6. OrderKept(d, z, t)
    BY <2>2, OrderRead, Zenon
  <2>3. buf' = [buf EXCEPT ![d] = z] /\ replies' = [replies EXCEPT ![d] = t]
    BY <2>1
  <2>4. upsets' \in Nat
    BY <1>4, <2>1 DEF Upset
  <2>5. SessionType'
    BY <1>4, <1>10, <2>1, <2>4 DEF Receive, SessionType
  <2> HIDE DEF z, t
  <2>7. \A e \in Device : e # d => pc'[e] = pc[e]
    BY <1>4, <1>10 DEF Receive
  <2> QED
    BY <1>4, <2>2, <2>3, <2>5, <2>6, <2>7 DEF ReplyType
<1>11. CASE ReceiveTooMuch(d)
  <2>1. /\ Len(replies[d]) >= ReadCap
        /\ replies' = [replies EXCEPT ![d] = SubSeq(@, ReadCap + 1, Len(@))]
        /\ upsets' = upsets /\ pc' = pc /\ sendType' = sendType /\ stray' = stray /\ buf' = buf
        /\ cut' = cut /\ place' = place
    BY <1>11 DEF ReceiveTooMuch
  <2> DEFINE t == SubSeq(replies[d], ReadCap + 1, Len(replies[d]))
  <2>2. ReadCap \in 0 .. Len(replies[d])
    BY <1>4, <2>1, IDCUDriverAssumption
  <2>3. /\ t \in Seq(SoundReply)
        /\ Moved(buf[d], replies[d], ReadCap, t, buf[d] \o SubSeq(replies[d], 1, ReadCap))
    BY <1>4, <2>2, ReadReplies, Zenon
  <2>5. OrderKept(d, buf[d], t)
    BY <2>2, <2>3, OrderRead, Zenon
  <2>4. replies' = [replies EXCEPT ![d] = t]
    BY <2>1
  <2> HIDE DEF t
  <2>6. SessionType'
    BY <1>4, <2>1 DEF SessionType
  <2> QED
    BY <1>4, <2>1, <2>3, <2>4, <2>5, <2>6 DEF ReplyType
<1> QED
  BY <1>7, <1>8, <1>9, <1>10, <1>11

LEMMA OneReply ==
    ASSUME NEW s \in Seq(SoundReply), Len(s) = 1 PROVE s # <<>>
  BY EmptySeq

\* What is in order is so as well when only the replies z are left of those read.
StillInOrder(d, z) ==
    \A m, S, lo, hi :
        InOrder(m, S, buf[d], replies[d], lo, hi) => InOrder(m, S, z, replies[d], lo, hi)

\* The first n replies read are dropped.
LEMMA OrderSuffix ==
    ASSUME IInv, NEW d \in Device, NEW n \in 0 .. Len(buf[d])
    PROVE  /\ SubSeq(buf[d], n + 1, Len(buf[d])) \in Seq(SoundReply)
           /\ StillInOrder(d, SubSeq(buf[d], n + 1, Len(buf[d])))
<1> DEFINE b == buf[d]
           z == SubSeq(b, n + 1, Len(b))
<1>1. b \in Seq(SoundReply)
  BY DEF IInv, TypeInv, ReplyType
<1>2. /\ z \in Seq(SoundReply) /\ DOMAIN z = 1 .. Len(b) - n
      /\ \A i \in 1 .. Len(b) - n : z[i] = b[n + i] /\ n + i \in DOMAIN b
  BY <1>1
<1> HIDE DEF b, z
<1>3. \A i \in DOMAIN z : i \in Int /\ z[i] = b[n + i] /\ n + i \in DOMAIN b
  BY <1>2
<1>4. ASSUME NEW m, NEW S, NEW r, NEW lo, NEW hi, InOrder(m, S, b, r, lo, hi)
      PROVE  InOrder(m, S, z, r, lo, hi)
  <2>1. ASSUME NEW i \in DOMAIN z, NEW j \in DOMAIN z, z[i] \in S, z[j] \in S, i <= j
        PROVE  m[z[i]] <= m[z[j]]
    <3>1. n + i <= n + j
      BY <1>3, <2>1
    <3> QED
      BY <1>3, <1>4, <2>1, <3>1 DEF InOrder
  <2>2. /\ \A i \in DOMAIN z : z[i] \in S => lo <= m[z[i]] /\ m[z[i]] <= hi
        /\ \A i \in DOMAIN z, j \in DOMAIN r : z[i] \in S /\ r[j] \in S => m[z[i]] <= m[r[j]]
    BY <1>3, <1>4 DEF InOrder
  <2> QED
    BY <1>4, <2>1, <2>2 DEF InOrder
<1> QED
  BY <1>2, <1>4 DEF StillInOrder, b, z

\* Every way the parser goes on drops some replies at the head of the buffer.
LEMMA ParserDrops ==
    ASSUME IInv, NEW d \in Device, ParseStep(d)
    PROVE  \E z \in Seq(SoundReply) : StillInOrder(d, z) /\ buf' = [buf EXCEPT ![d] = z]
<1>1. /\ buf \in [Device -> Seq(SoundReply)] /\ buf[d] \in Seq(SoundReply)
      /\ StillInOrder(d, buf[d]) /\ StillInOrder(d, <<>>)
      /\ <<>> \in Seq(SoundReply)
  BY InOrderDropped DEF IInv, TypeInv, ReplyType, StillInOrder
<1>2. CASE buf' = buf
  <2>1. buf = [buf EXCEPT ![d] = buf[d]]
    BY <1>1
  <2> QED
    BY <1>1, <1>2, <2>1
<1>3. ASSUME NEW n \in 0 .. Len(buf[d]),
             buf' = [buf EXCEPT ![d] = SubSeq(@, n + 1, Len(@))]
      PROVE  \E z \in Seq(SoundReply) :
                 StillInOrder(d, z) /\ buf' = [buf EXCEPT ![d] = z]
  BY <1>3, OrderSuffix
<1>4. CASE ParseReply(d) \/ MissReply(d)
  <2>1. buf[d] # <<>> /\ buf' = [buf EXCEPT ![d] = Tail(@)]
    <3>1. buf[d] # <<>> \/ Len(buf[d]) > 1
      BY <1>4 DEF ParseReply, MissReply
    <3>2. buf[d] # <<>>
      BY <1>1, <3>1, EmptySeq
    <3> QED
      BY <1>4, <3>2 DEF ParseReply, MissReply
  <2>2. 1 \in 0 .. Len(buf[d]) /\ Tail(buf[d]) = SubSeq(buf[d], 1 + 1, Len(buf[d]))
    BY <1>1, <2>1
  <2> QED
    BY <1>3, <2>1, <2>2
<1>5. CASE RejectBuffer(d) \/ RejectFalseHeader(d)
  <2>1. buf[d] # <<>> /\ DropAll(d)
    BY <1>5 DEF RejectBuffer, RejectFalseHeader, MayShowHeader
  <2>2. CASE cut[d]
    <3>1. buf' = [buf EXCEPT ![d] = <<buf[d][Len(buf[d])]>>]
      BY <2>1, <2>2 DEF DropAll
    <3>2. /\ Len(buf[d]) - 1 \in 0 .. Len(buf[d])
          /\ <<buf[d][Len(buf[d])]>> = SubSeq(buf[d], (Len(buf[d]) - 1) + 1, Len(buf[d]))
      BY <1>1, <2>1
    <3>3. buf' = [buf EXCEPT ![d] = SubSeq(@, (Len(buf[d]) - 1) + 1, Len(@))]
      BY <3>1, <3>2
    <3> QED
      BY <1>3, <3>2, <3>3
  <2>3. CASE ~cut[d]
    <3>1. buf' = [buf EXCEPT ![d] = <<>>]
      BY <2>1, <2>3 DEF DropAll
    <3> QED
      BY <1>1, <3>1
  <2> QED
    BY <2>2, <2>3
<1>6. CASE ParseIncomplete(d) \/ ParseEnds(d)
  BY <1>2, <1>6 DEF ParseIncomplete, ParseEnds, tcpVars
<1>7. CASE TakeFalseHeader(d)
  BY <1>2, <1>3, <1>7 DEF TakeFalseHeader
<1> QED
  BY <1>4, <1>5, <1>6, <1>7 DEF ParseStep

\* What the first reply read tells, and when it was made.
LEMMA HeadSound ==
    ASSUME IInv, NEW d \in Device, buf[d] # <<>>, NEW r, r = Head(buf[d])
    PROVE  /\ r \in SoundReply /\ r.at \in Nat /\ r.value \in Count /\ r.value \in Int
           /\ r.kind = "io" => r.value \in Bit
           /\ seen[d] <= r.at
           /\ InOrder(Made, SoundReply, buf[d], replies[d], r.at, made[d])
           /\ InOrder(Made, SoundReply, Tail(buf[d]), replies[d], r.at, made[d])
           /\ \A lo \in Int :
                /\ r.kind = "count"
                /\ InOrder(Missed, CountReply, buf[d], replies[d], lo, made[d] - count[d])
                => /\ lo <= r.at - r.value
                   /\ InOrder(Missed, CountReply, Tail(buf[d]), replies[d], r.at - r.value,
                              made[d] - count[d])
<1>1. /\ buf[d] \in Seq(SoundReply) /\ replies[d] \in Seq(SoundReply)
      /\ InOrder(Made, SoundReply, buf[d], replies[d], seen[d], made[d])
      /\ made[d] - count[d] \in Int /\ made[d] \in Int /\ seen[d] \in Int
      /\ CountReply \in SUBSET SoundReply /\ SoundReply \in SUBSET SoundReply
  BY DeviceNumbers DEF IInv, TypeInv, ReplyType, OrderInv, CountReply
<1>2. /\ r \in SoundReply /\ seen[d] <= Made[r]
      /\ InOrder(Made, SoundReply, buf[d], replies[d], Made[r], made[d])
      /\ InOrder(Made, SoundReply, Tail(buf[d]), replies[d], Made[r], made[d])
  BY <1>1, MeasureType, InOrderTail
<1>3. /\ r.at \in Nat /\ r.value \in Count /\ (r.kind = "io" => r.value \in Bit)
      /\ r.value \in Int /\ Made[r] = r.at /\ Missed[r] = r.at - r.value
      /\ r.kind = "count" => r \in CountReply
  <2>1. Count \subseteq Int
    BY IDCUDriverAssumption DEF Count
  <2> QED
    BY <1>2, <2>1, SoundReplyType DEF Made, Missed, CountReply
<1>4. ASSUME NEW lo \in Int, r.kind = "count",
             InOrder(Missed, CountReply, buf[d], replies[d], lo, made[d] - count[d])
      PROVE  /\ lo <= Missed[r]
             /\ InOrder(Missed, CountReply, Tail(buf[d]), replies[d], Missed[r],
                        made[d] - count[d])
  BY <1>1, <1>3, <1>4, MeasureType, InOrderTail
<1> QED
  BY <1>2, <1>3, <1>4

\* A counter that is read is further from the one taken over last by at most
\* what was made in between, if no bytes that were no reply were taken for one.
LEMMA QuantityFits ==
    ASSUME IInv, NEW d \in Device, pc[d] # "dead", ~misled[d], buf[d] # <<>>, preQty[d] # 0,
           Head(buf[d]).kind = "count"
    PROVE  Head(buf[d]).value - preQty[d] <= Head(buf[d]).at - seen[d]
<1>1. PICK lo \in Int :
          /\ InOrder(Missed, CountReply, buf[d], replies[d], lo, made[d] - count[d])
          /\ lo = seen[d] - preQty[d]
  BY MissedSoFar
<1>2. /\ Head(buf[d]).at \in Nat /\ Head(buf[d]).value \in Int
      /\ lo <= Head(buf[d]).at - Head(buf[d]).value
  BY <1>1, HeadSound
<1>3. seen[d] \in Int /\ preQty[d] \in Int
  BY DeviceNumbers DEF IInv
<1> QED
  BY <1>1, <1>2, <1>3

LEMMA GarbageType ==
    ASSUME NEW g \in Garbage
    PROVE  g.value \in Count /\ (g.kind = "io" => g.value \in Bit)
<1>1. 0 \in Count /\ Bit \subseteq Count
  BY IDCUDriverAssumption DEF Bit, Count
<1> QED
  BY <1>1 DEF Garbage

\* The parser: a reply or something else taken, a reply missed, what was read
\* dropped, the end of a read.
LEMMA ParseStepSound ==
    ASSUME IInv, NEW d \in Device, ParseStep(d)
    PROVE  IInv'
<1>1. TypeInv /\ OrderInv /\ UNCHANGED <<deviceVars, replies, sendType, stray>>
  BY DEF IInv, ParseStep, ParseReply, MissReply, RejectBuffer, ParseIncomplete, RejectFalseHeader,
         TakeFalseHeader, ParseEnds, DropAll, tcpVars
<1>2. DeviceType' /\ made' = made /\ replies' = replies /\ count' = count
  BY <1>1 DEF TypeInv, DeviceType, deviceVars
<1>3. /\ upsets \in Nat
      /\ pc \in [Device -> {"closed", "recv", "parse", "dead"}]
      /\ sendType \in [Device -> Bit] /\ stray \in [Device -> Bit \union {None}]
      /\ cut \in [Device -> BOOLEAN] /\ place \in [Device -> {"front", "second", "inside"}]
      /\ misled \in [Device -> BOOLEAN]
      /\ replies \in [Device -> Seq(SoundReply)] /\ buf \in [Device -> Seq(SoundReply)]
      /\ seen \in [Device -> Nat] /\ preQty \in [Device -> Count]
      /\ buf[d] \in Seq(SoundReply)
  BY <1>1 DEF TypeInv, SessionType, ReplyType, DeviceType, TagType
<1>4. pc[d] = "parse" /\ pc[d] # "dead"
  BY DEF ParseStep, ParseReply, MissReply, RejectBuffer, ParseIncomplete, RejectFalseHeader,
         TakeFalseHeader, ParseEnds
<1>5. PICK z \in Seq(SoundReply) : StillInOrder(d, z) /\ buf' = [buf EXCEPT ![d] = z]
  BY ParserDrops
<1>17. InOrder(Made, SoundReply, z, replies[d], seen[d], made[d])
  BY <1>1, <1>5 DEF OrderInv, StillInOrder
<1>6. ReplyType'
  BY <1>2, <1>3, <1>5 DEF ReplyType
<1>7. upsets' \in Nat
  BY <1>3 DEF ParseStep, ParseReply, MissReply, RejectBuffer, ParseIncomplete, RejectFalseHeader,
              TakeFalseHeader, ParseEnds, DropAll, Upset
<1>8. \A e \in Device : e # d => pc'[e] = pc[e] /\ buf'[e] = buf[e]
  BY <1>3, <1>5 DEF ParseStep, ParseReply, MissReply, RejectBuffer, ParseIncomplete,
                    RejectFalseHeader, TakeFalseHeader, ParseEnds, DropAll
<1>9. pc' \in [Device -> {"closed", "recv", "parse", "dead"}] /\ cut' \in [Device -> BOOLEAN]
  BY <1>3 DEF ParseStep, ParseReply, MissReply, RejectBuffer, ParseIncomplete, RejectFalseHeader,
              TakeFalseHeader, ParseEnds, DropAll, tcpVars
<1>10. place' \in [Device -> {"front", "second", "inside"}]
  BY <1>3 DEF ParseStep, ParseReply, MissReply, RejectBuffer, ParseIncomplete, RejectFalseHeader,
              TakeFalseHeader, ParseEnds, DropAll, tcpVars
\* Whatever happens, it is enough to look at the tags and at the two orders.
<1>11. ASSUME /\ QueueType' /\ TagType' /\ BaseInv' /\ ReportInv' /\ QtyInv'
              /\ misled' \in [Device -> BOOLEAN]
              /\ \A e \in Device : e # d => /\ seen'[e] = seen[e] /\ preQty'[e] = preQty[e]
                                            /\ misled'[e] = misled[e],
              InOrder(Made, SoundReply, z, replies[d], seen'[d], made[d]),
              \/ pc'[d] = "dead"
              \/ misled'[d]
              \/ \E n \in Int :
                    /\ InOrder(Missed, CountReply, z, replies[d], n, made[d] - count[d])
                    /\ preQty'[d] # 0 => n = seen'[d] - preQty'[d]
       PROVE  IInv'
  <2>1. buf'[d] = z
    BY <1>3, <1>5
  <2>2. OrderInv'
    BY <1>1, <1>2, <1>8, <1>11, <2>1, OrderOfOne
  <2>3. MissedOf(d)'
    BY <1>2, <1>11, <2>1 DEF MissedOf
  <2>4. MissedInv'
    BY <1>2, <1>8, <1>11, <2>3, MissedOfOne DEF IInv
  <2>5. SessionType'
    BY <1>1, <1>3, <1>7, <1>9, <1>10, <1>11 DEF SessionType
  <2> QED
    BY <1>2, <1>6, <1>11, <2>2, <2>4, <2>5 DEF IInv, TypeInv
<1>12. CASE UNCHANGED <<queueVars, tagVars>>
  <2>1. /\ QueueType' /\ TagType' /\ BaseInv' /\ ReportInv' /\ QtyInv'
        /\ seen' = seen /\ preQty' = preQty /\ misled' = misled
    BY <1>12, TagsKept
  <2>3. \/ misled[d]
        \/ \E n \in Int : /\ InOrder(Missed, CountReply, z, replies[d], n, made[d] - count[d])
                          /\ preQty[d] # 0 => n = seen[d] - preQty[d]
    BY <1>4, <1>5, MissedSoFar DEF StillInOrder
  <2> QED
    BY <1>3, <1>11, <1>17, <2>1, <2>3
<1>13. ASSUME NEW kind, NEW value \in Count, kind = "io" => value \in Bit, buf[d] # <<>>,
              SelectTag(d, kind, value, Head(buf[d]).at),
              misled' = misled \/ \E x \in BOOLEAN : misled' = [misled EXCEPT ![d] = misled[d] \/ x],
              misled'[d] \/ (kind = Head(buf[d]).kind /\ value = Head(buf[d]).value)
       PROVE  /\ QueueType' /\ TagType' /\ BaseInv' /\ ReportInv' /\ QtyInv'
              /\ misled' \in [Device -> BOOLEAN]
              /\ \A e \in Device : e # d => /\ seen'[e] = seen[e] /\ preQty'[e] = preQty[e]
                                            /\ misled'[e] = misled[e]
              /\ \/ kind # "count" /\ seen'[d] = seen[d] /\ preQty'[d] = preQty[d]
                 \/ /\ kind = "count" /\ seen'[d] = Head(buf[d]).at /\ preQty'[d] = value
  <2>1. /\ misled' \in [Device -> BOOLEAN]
        /\ \A e \in Device : e # d => misled'[e] = misled[e]
        /\ \A e \in Device : misled[e] => misled'[e]
    <3>1. CASE misled' = misled
      BY <1>3, <3>1
    <3>2. CASE \E x \in BOOLEAN : misled' = [misled EXCEPT ![d] = misled[d] \/ x]
      <4>1. PICK x \in BOOLEAN : misled' = [misled EXCEPT ![d] = misled[d] \/ x]
        BY <3>2
      <4> DEFINE y == misled[d] \/ x
      <4>2. y \in BOOLEAN /\ (misled[d] => y)
        OBVIOUS
      <4> HIDE DEF y
      <4>3. misled' = [misled EXCEPT ![d] = y]
        BY <4>1 DEF y
      <4> QED
        BY <1>3, <4>2, <4>3, Zenon
    <3> QED
      BY <1>13, <3>1, <3>2
  <2>2. Head(buf[d]).at \in Nat /\ seen[d] <= Head(buf[d]).at
    BY <1>13, HeadSound
  <2>3. kind = "count" /\ ~misled'[d] /\ preQty[d] # 0 =>
            value - preQty[d] <= Head(buf[d]).at - seen[d]
    BY <1>4, <1>13, <2>1, QuantityFits
  <2>4. TypeInv /\ BaseInv /\ ReportInv /\ QtyInv
    BY DEF IInv
  <2> DEFINE at == Head(buf[d]).at
  <2>6. at \in Nat /\ seen[d] <= at /\ SelectTag(d, kind, value, at)
    BY <1>13, <2>2
  <2>7. kind = "count" /\ ~misled'[d] /\ preQty[d] # 0 => value - preQty[d] <= at - seen[d]
    BY <2>3
  <2> HIDE DEF at
  <2>5. /\ QueueType' /\ TagType' /\ BaseInv' /\ ReportInv' /\ QtyInv'
        /\ \/ kind # "count" /\ seen' = seen /\ preQty' = preQty
           \/ /\ kind = "count" /\ seen' = [seen EXCEPT ![d] = at]
              /\ preQty' = [preQty EXCEPT ![d] = value]
    <3>1. /\ TypeInv /\ BaseInv /\ ReportInv /\ QtyInv
      BY <2>4
    <3>2. kind = "io" => value \in Bit
      BY <1>13
    <3>3. \A e \in Device : misled[e] => misled'[e]
      BY <2>1
    <3> QED
      BY <2>6, <2>7, <3>1, <3>2, <3>3, SelectTagSound, Zenon
  <2> QED
    BY <1>3, <2>1, <2>5 DEF at
<1>14. CASE ParseReply(d)
  <2> DEFINE r == Head(buf[d])
  <2>1. /\ buf[d] # <<>> /\ z = Tail(buf[d]) /\ misled' = misled
        /\ SelectTag(d, r.kind, r.value, r.at)
    BY <1>3, <1>5, <1>14 DEF ParseReply
  <2>2. /\ r.value \in Count /\ (r.kind = "io" => r.value \in Bit) /\ r.at \in Nat /\ r.value \in Int
        /\ InOrder(Made, SoundReply, z, replies[d], r.at, made[d])
    BY <2>1, HeadSound
  <2>3. /\ QueueType' /\ TagType' /\ BaseInv' /\ ReportInv' /\ QtyInv'
        /\ misled' \in [Device -> BOOLEAN]
        /\ \A e \in Device : e # d => /\ seen'[e] = seen[e] /\ preQty'[e] = preQty[e]
                                      /\ misled'[e] = misled[e]
        /\ \/ r.kind # "count" /\ seen'[d] = seen[d] /\ preQty'[d] = preQty[d]
           \/ /\ r.kind = "count" /\ seen'[d] = r.at /\ preQty'[d] = r.value
    BY <1>13, <2>1, <2>2
  <2>4. InOrder(Made, SoundReply, z, replies[d], seen'[d], made[d])
    BY <1>17, <2>2, <2>3
  <2>5. ASSUME ~misled[d]
        PROVE  \E n \in Int :
                   /\ InOrder(Missed, CountReply, z, replies[d], n, made[d] - count[d])
                   /\ preQty'[d] # 0 => n = seen'[d] - preQty'[d]
    <3>1. PICK lo \in Int :
              /\ InOrder(Missed, CountReply, buf[d], replies[d], lo, made[d] - count[d])
              /\ preQty[d] # 0 => lo = seen[d] - preQty[d]
      BY <1>4, <2>5, MissedSoFar
    <3>2. CASE r.kind # "count"
      BY <1>5, <2>3, <3>1, <3>2 DEF StillInOrder
    <3>3. CASE r.kind = "count"
      <4>1. InOrder(Missed, CountReply, z, replies[d], r.at - r.value, made[d] - count[d])
        BY <2>1, <3>1, <3>3, HeadSound
      <4>2. r.at - r.value \in Int
        BY <2>2
      <4> QED
        BY <2>3, <3>3, <4>1, <4>2
    <3> QED
      BY <3>2, <3>3
  <2> HIDE DEF r
  <2> QED
    BY <1>11, <2>1, <2>3, <2>4, <2>5
<1>15. CASE ParseIncomplete(d) \/ TakeFalseHeader(d)
  <2> DEFINE r == Head(buf[d])
  <2>1. buf[d] # <<>>
    <3>1. buf[d] # <<>> \/ Len(buf[d]) = 1
      BY <1>15 DEF ParseIncomplete, LastIncomplete, TakeFalseHeader, MayShowHeader
    <3> QED
      BY <1>3, <3>1, OneReply
  <2>2. PICK g \in Garbage :
            /\ SelectTag(d, g.kind, g.value, r.at)
            /\ \E x \in BOOLEAN : misled' = [misled EXCEPT ![d] = misled[d] \/ x]
            /\ misled'[d] \/ (g.kind = r.kind /\ g.value = r.value /\ pc'[d] = "dead")
    <3>1. CASE ParseIncomplete(d)
      <4>1. PICK g \in Garbage :
                /\ SelectTag(d, g.kind, g.value, r.at)
                /\ misled' = [misled EXCEPT
                      ![d] = @ \/ g # [kind |-> r.kind, value |-> r.value]]
        BY <3>1 DEF ParseIncomplete
      <4>2. pc'[d] = "dead"
        BY <1>3, <3>1 DEF ParseIncomplete
      <4> DEFINE x == g # [kind |-> r.kind, value |-> r.value]
      <4>3. x \in BOOLEAN /\ misled' = [misled EXCEPT ![d] = misled[d] \/ x]
        BY <4>1
      <4>4. ~x => g.kind = r.kind /\ g.value = r.value
        OBVIOUS
      <4> HIDE DEF x
      <4>5. misled'[d] = (misled[d] \/ x)
        BY <1>3, <4>3, Zenon
      <4> QED
        BY <4>1, <4>2, <4>3, <4>4, <4>5
    <3>2. CASE TakeFalseHeader(d)
      <4>1. PICK g \in Garbage : SelectTag(d, g.kind, g.value, r.at)
        BY <3>2 DEF TakeFalseHeader
      <4>2. misled' = [misled EXCEPT ![d] = TRUE]
        BY <3>2 DEF TakeFalseHeader
      <4>3. misled' = [misled EXCEPT ![d] = misled[d] \/ TRUE] /\ misled'[d]
        BY <1>3, <4>2
      <4> QED
        BY <4>1, <4>3
    <3> QED
      BY <1>15, <3>1, <3>2
  <2>3. g.value \in Count /\ (g.kind = "io" => g.value \in Bit)
    BY GarbageType
  <2>4. /\ QueueType' /\ TagType' /\ BaseInv' /\ ReportInv' /\ QtyInv'
        /\ misled' \in [Device -> BOOLEAN]
        /\ \A e \in Device : e # d => /\ seen'[e] = seen[e] /\ preQty'[e] = preQty[e]
                                      /\ misled'[e] = misled[e]
        /\ seen'[d] = seen[d] \/ seen'[d] = r.at
    BY <1>13, <2>1, <2>2, <2>3
  <2>5. InOrder(Made, SoundReply, z, replies[d], r.at, made[d])
    BY <1>5, <2>1, HeadSound DEF StillInOrder
  <2>6. InOrder(Made, SoundReply, z, replies[d], seen'[d], made[d])
    BY <1>17, <2>4, <2>5
  <2> HIDE DEF r
  <2> QED
    BY <1>11, <2>2, <2>4, <2>6
<1>16. CASE MissReply(d) \/ RejectBuffer(d) \/ RejectFalseHeader(d) \/ ParseEnds(d)
  <2>1. UNCHANGED <<queueVars, tagVars>>
    BY <1>16 DEF MissReply, RejectBuffer, RejectFalseHeader, ParseEnds, DropAll
  <2> QED
    BY <1>12, <2>1
<1> QED
  BY <1>14, <1>15, <1>16 DEF ParseStep

LEMMA StepSound ==
    ASSUME IInv, [Next]_vars
    PROVE  IInv'
<1>1. CASE \E d \in Device : DeviceStep(d) \/ DriverStep(d)
  BY <1>1, DeviceStepSound, SessionStepSound, ParseStepSound DEF DriverStep
<1>2. CASE Consume \/ UNCHANGED vars
  <2>1. log' = log /\ UNCHANGED driverVars
    BY <1>2 DEF Consume, vars, queueVars
  <2>2. queue' \in Seq(Nat)
    <3>1. queue \in Seq(Nat)
      BY DEF IInv, TypeInv, QueueType
    <3>2. queue' = queue \/ (queue # <<>> /\ queue' = Tail(queue))
      <4>1. CASE Consume
        BY <4>1 DEF Consume
      <4>2. CASE UNCHANGED vars
        BY <4>2 DEF vars, queueVars
      <4> QED
        BY <1>2, <4>1, <4>2
    <3> QED
      BY <3>1, <3>2
  <2>3. /\ count' = count /\ wo' = wo /\ made' = made /\ upsets' = upsets /\ pc' = pc
        /\ replies' = replies /\ sendType' = sendType /\ stray' = stray /\ buf' = buf
        /\ cut' = cut /\ place' = place
    BY <2>1 DEF driverVars, deviceVars, tcpVars
  <2>4. /\ woPastData' = woPastData /\ cntPastData' = cntPastData
        /\ preQty' = preQty /\ seen' = seen /\ origin' = origin /\ queuedQty' = queuedQty
        /\ refusedQty' = refusedQty /\ refusedWo' = refusedWo /\ misled' = misled
    BY <2>1 DEF driverVars, tagVars
  <2>5. TypeInv'
    BY <2>1, <2>2, <2>3, <2>4
       DEF IInv, TypeInv, QueueType, DeviceType, SessionType, ReplyType, TagType
  <2>6. BaseInv' /\ OrderInv' /\ ReportInv' /\ QtyInv'
    BY <2>1, <2>3, <2>4 DEF IInv, BaseInv, OrderInv, ReportInv, QtyInv, CountReport
  <2>7. \A d \in Device : MissedOf(d)'
    BY <2>3, <2>4 DEF IInv, MissedInv, MissedOf
  <2> QED
    BY <2>5, <2>6, <2>7 DEF IInv, MissedInv
<1> QED
  BY <1>1, <1>2 DEF Next

-----------------------------------------------------------------------------
(* The theorems.                                                           *)

\* Every variable of the drivers keeps its type: whatever the parser makes of a
\* reply, even one completed with old bytes, preQty and cntPastData stay values
\* of a counter, and no quantity since a baseline is negative.
THEOREM TypeCorrect == Spec => []TypeOK
<1>1. Init => IInv
  BY InitSound
<1>2. IInv /\ [Next]_vars => IInv'
  BY StepSound
<1>3. IInv => TypeOK
  BY TypeInvTypeOK DEF IInv
<1> QED
  BY <1>1, <1>2, <1>3, PTL DEF Spec

\* What selectTag_iDCU_IoT puts on the queue: no unit of a device stands in two
\* reports, and as long as nothing was taken for a reply that is none, none of them
\* claims more units than the device made meanwhile, in whatever order requests,
\* reads, lost sessions, requests of an earlier session's thread, bad, missed and
\* incomplete replies come.
THEOREM ReportedAtMostOnce == Spec => []UnitsReportedOnce
<1>1. Init => IInv
  BY InitSound
<1>2. IInv /\ [Next]_vars => IInv'
  BY StepSound
<1>3. IInv => UnitsReportedOnce
  BY DEF IInv, ReportInv, CountReport, QtyInv, UnitsReportedOnce, CountReports
<1> QED
  BY <1>1, <1>2, <1>3, PTL DEF Spec

\* Because preQty moves on whether msgsnd took the report or not, what was
\* accepted and what was refused since the baseline are together what the
\* counter advanced, with any capacity of the queue.
THEOREM NothingElseIsLost == Spec => []QuantityConserved
<1>1. Init => IInv
  BY InitSound
<1>2. IInv /\ [Next]_vars => IInv'
  BY StepSound
<1>3. IInv => QuantityConserved
  BY DEF IInv, BaseInv, QuantityConserved
<1> QED
  BY <1>1, <1>2, <1>3, PTL DEF Spec

-----------------------------------------------------------------------------
(* The gateway: the steps of the drivers.                                  *)

\* A driver gives a report to msgsnd, which accepts it.
Posts(m) ==
    /\ Len(queue) < QueueCap
    /\ log' = Append(log, m) /\ queue' = Append(queue, Len(log) + 1)

\* What a driver does to the queue and to what it knows of the input.
WoStep(d, bit) ==
    /\ woPastData' = [woPastData EXCEPT ![d] = bit]
    /\ \/ woPastData[d] = bit /\ UNCHANGED <<queueVars, refusedWo>>
       \/ UNCHANGED <<queueVars>> /\ refusedWo' = [refusedWo EXCEPT ![d] = TRUE]
       \/ /\ \E m : m.dev = d /\ m.kind = "wo" /\ m.total = bit /\ Posts(m)
          /\ UNCHANGED refusedWo

CountStep ==
    /\ UNCHANGED <<woPastData, refusedWo>>
    /\ UNCHANGED queueVars \/ \E m : m.kind = "count" /\ Posts(m)

LEMMA SelectIoShape ==
    ASSUME NEW d \in Device, NEW bit, SelectIo(d, bit),
           refusedWo \in [Device -> BOOLEAN], Len(queue) \in Nat
    PROVE  WoStep(d, bit)
<1>1. QueueCap \in Nat
  BY IDCUDriverAssumption
<1>2. woPastData' = [woPastData EXCEPT ![d] = bit]
  BY DEF SelectIo
<1>3. CASE woPastData[d] = bit
  BY <1>2, <1>3 DEF SelectIo, WoStep, queueVars
<1>4. CASE woPastData[d] # bit
  <2> DEFINE m == [dev |-> d, data_type |-> 1, kind |-> "wo", total |-> bit, qty |-> 0,
                   lo |-> 0, hi |-> 0]
  <2>1. /\ Offer(m)
        /\ refusedWo' = [refusedWo EXCEPT ![d] = @ \/ Len(queue) >= QueueCap]
    BY <1>4 DEF SelectIo
  <2>2. m.dev = d /\ m.kind = "wo" /\ m.total = bit
    OBVIOUS
  <2> HIDE DEF m
  <2>3. CASE Len(queue) < QueueCap
    <3>1. Posts(m)
      BY <2>1, <2>3 DEF Offer, Posts
    <3>2. ~(Len(queue) >= QueueCap)
      BY <1>1, <2>3
    <3>3. refusedWo' = refusedWo
      BY <2>1, <3>2
    <3> QED
      BY <1>2, <2>2, <3>1, <3>3 DEF WoStep
  <2>4. CASE ~(Len(queue) < QueueCap)
    <3>1. UNCHANGED queueVars
      BY <2>1, <2>4 DEF Offer, queueVars
    <3>2. Len(queue) >= QueueCap
      BY <1>1, <2>4
    <3>3. refusedWo' = [refusedWo EXCEPT ![d] = TRUE]
      BY <2>1, <3>2
    <3> QED
      BY <1>2, <3>1, <3>3 DEF WoStep
  <2> QED
    BY <2>3, <2>4
<1> QED
  BY <1>3, <1>4

LEMMA SelectCountShape ==
    ASSUME NEW d \in Device, NEW c, NEW at, SelectCount(d, c, at)
    PROVE  CountStep
<1>1. UNCHANGED <<woPastData, refusedWo>>
  BY DEF SelectCount
<1>2. CASE SelectBaseline(d, c, at)
  BY <1>1, <1>2 DEF SelectBaseline, CountStep, queueVars
<1>3. CASE SelectQty(d, c, at)
  <2> DEFINE m == [dev |-> d, data_type |-> 1, kind |-> "count", total |-> Printed(c),
                   qty |-> Printed(c - preQty[d]), lo |-> seen[d], hi |-> at]
  <2>1. Offer(m) \/ UNCHANGED queueVars
    BY <1>3 DEF SelectQty, queueVars
  <2>2. m.kind = "count"
    OBVIOUS
  <2> HIDE DEF m
  <2>3. UNCHANGED queueVars \/ Posts(m)
    BY <2>1 DEF Offer, Posts, queueVars
  <2> QED
    BY <1>1, <2>2, <2>3 DEF CountStep
<1> QED
  BY <1>2, <1>3 DEF SelectCount

\* Only the parser reports.
LEMMA DriverShape ==
    ASSUME NEW d \in Device, DeviceStep(d) \/ DriverStep(d),
           refusedWo \in [Device -> BOOLEAN], Len(queue) \in Nat
    PROVE  CountStep \/ \E bit : WoStep(d, bit)
<1>1. ASSUME NEW kind, NEW value, NEW at, SelectTag(d, kind, value, at)
      PROVE  CountStep \/ \E bit : WoStep(d, bit)
  BY <1>1, SelectIoShape, SelectCountShape DEF SelectTag, CountStep, queueVars
<1>2. CASE ParseReply(d)
  BY <1>1, <1>2 DEF ParseReply
<1>3. CASE ParseIncomplete(d) \/ TakeFalseHeader(d)
  BY <1>1, <1>3 DEF ParseIncomplete, TakeFalseHeader
<1>4. CASE \/ DeviceStep(d) \/ OpenSession(d) \/ CloseSession(d) \/ Poll(d) \/ StrayPoll(d)
           \/ Receive(d) \/ ReceiveTooMuch(d) \/ MissReply(d) \/ RejectBuffer(d)
           \/ RejectFalseHeader(d) \/ ParseEnds(d)
  <2>1. UNCHANGED <<log, queue, woPastData, refusedWo>>
    BY <1>4 DEF DeviceStep, CountUnit, ResetCounter, ToggleWo, OpenSession, CloseSession, Poll,
                StrayPoll, Receive, ReceiveTooMuch, MissReply, RejectBuffer, RejectFalseHeader,
                DropAll, ParseEnds, queueVars, tagVars
  <2> QED
    BY <2>1 DEF CountStep, queueVars
<1> QED
  BY <1>2, <1>3, <1>4 DEF DriverStep, ParseStep

-----------------------------------------------------------------------------
(* tagServer behaves as its module says.                                   *)

LEMMA SameServer ==
    ASSUME Server!ServerStep \/ Server!LinkStep
    PROVE  SP!ServerStep \/ SP!LinkStep
<1>1. Server!Connect => SP!Connect
  BY DEF Server!Connect, SP!Connect, Server!queueVars, SP!queueVars
<1>2. Server!ConnectFails => SP!ConnectFails
  BY DEF Server!ConnectFails, SP!ConnectFails, Server!InitFails, SP!InitFails, Server!CallInit,
         SP!CallInit, Server!queueVars, SP!queueVars
<1>3. Server!OpenDatabase => SP!OpenDatabase
  BY DEF Server!OpenDatabase, SP!OpenDatabase, Server!queueVars, SP!queueVars, Server!linkVars,
         SP!linkVars
<1>4. Server!OpenDatabaseFails => SP!OpenDatabaseFails
  BY DEF Server!OpenDatabaseFails, SP!OpenDatabaseFails, Server!AttemptFails, SP!AttemptFails,
         Server!InitFails, SP!InitFails, Server!CallInit, SP!CallInit, Server!queueVars,
         SP!queueVars
<1>5. Server!SendRegPacket => SP!SendRegPacket
  BY DEF Server!SendRegPacket, SP!SendRegPacket, Server!RegPacket, SP!RegPacket,
         Server!VanishInto, SP!VanishInto, Server!queueVars, SP!queueVars
<1>6. Server!SendRegPacketFails => SP!SendRegPacketFails
  BY DEF Server!SendRegPacketFails, SP!SendRegPacketFails, Server!RegistrationFails,
         SP!RegistrationFails, Server!AttemptFails, SP!AttemptFails, Server!InitFails,
         SP!InitFails, Server!CallInit, SP!CallInit, Server!queueVars, SP!queueVars
<1>7. Server!RegPacketAnswered => SP!RegPacketAnswered
  BY DEF Server!RegPacketAnswered, SP!RegPacketAnswered, Server!Unread, SP!Unread,
         Server!NextPacket, SP!NextPacket, Server!RegCount, SP!RegCount, Server!queueVars,
         SP!queueVars
<1>8. Server!RegPacketTimesOut => SP!RegPacketTimesOut
  BY DEF Server!RegPacketTimesOut, SP!RegPacketTimesOut, Server!RegistrationFails,
         SP!RegistrationFails, Server!AttemptFails, SP!AttemptFails, Server!InitFails,
         SP!InitFails, Server!CallInit, SP!CallInit, Server!queueVars, SP!queueVars
<1>9. Server!NoTransducerRows => SP!NoTransducerRows
  BY DEF Server!NoTransducerRows, SP!NoTransducerRows, Server!Unread, SP!Unread,
         Server!queueVars, SP!queueVars
<1>10. Server!NoTransducerRowsFails => SP!NoTransducerRowsFails
  BY DEF Server!NoTransducerRowsFails, SP!NoTransducerRowsFails, Server!Unread, SP!Unread,
         Server!RegistrationFails, SP!RegistrationFails, Server!AttemptFails, SP!AttemptFails,
         Server!InitFails, SP!InitFails, Server!CallInit, SP!CallInit, Server!queueVars,
         SP!queueVars
<1>11. Server!DiscardAnswers => SP!DiscardAnswers
  BY DEF Server!DiscardAnswers, SP!DiscardAnswers, Server!Unread, SP!Unread, Server!queueVars,
         SP!queueVars
<1>12. Server!QueueEmpty => SP!QueueEmpty
  BY DEF Server!QueueEmpty, SP!QueueEmpty, Server!queueVars, SP!queueVars, Server!linkVars,
         SP!linkVars
<1>13. Server!Dequeue => SP!Dequeue
  BY DEF Server!Dequeue, SP!Dequeue
<1>14. Server!SendReport => SP!SendReport
  BY DEF Server!SendReport, SP!SendReport, Server!ReportPacket, SP!ReportPacket,
         Server!VanishInto, SP!VanishInto, Server!queueVars, SP!queueVars
<1>15. Server!SendReportFails => SP!SendReportFails
  BY DEF Server!SendReportFails, SP!SendReportFails, Server!CallInit, SP!CallInit,
         Server!queueVars, SP!queueVars
<1>16. Server!MiddlewareReads => SP!MiddlewareReads
  BY DEF Server!MiddlewareReads, SP!MiddlewareReads, Server!queueVars, SP!queueVars,
         Server!serverVars, SP!serverVars
<1>17. Server!ConnectionBreaks => SP!ConnectionBreaks
  BY DEF Server!ConnectionBreaks, SP!ConnectionBreaks, Server!Reports, SP!Reports,
         Server!queueVars, SP!queueVars, Server!serverVars, SP!serverVars
<1> QED
  BY <1>1, <1>2, <1>3, <1>4, <1>5, <1>6, <1>7, <1>8,
     <1>9, <1>10, <1>11, <1>12, <1>13, <1>14, <1>15, <1>16, <1>17
     DEF Server!ServerStep, SP!ServerStep, Server!LinkStep, SP!LinkStep

-----------------------------------------------------------------------------
(* The inductive invariant: the parts', and what the reports say of the     *)
(* input, which concerns both.                                             *)

WoReports(d) == {i \in DOMAIN log : log[i].dev = d /\ log[i].kind = "wo"}

\* Unless the queue refused a report of it, the last report of the input has the
\* bit that the driver saw last.
WoInv ==
    \A d \in Device :
        ~refusedWo[d] =>
            \/ WoReports(d) = {} /\ woPastData[d] = 0
            \/ \E i \in WoReports(d) :
                  log[i].total = woPastData[d] /\ \A j \in WoReports(d) : j <= i

GatewayInv == IInv /\ SP!TypeInv /\ SP!IInv /\ WoInv

LEMMA ServerAssumed == SP!TagServerAssumption
  BY IDCUDriverAssumption, GatewayAssumption DEF SP!TagServerAssumption, Message

LEMMA QueueTyped ==
    ASSUME GatewayInv
    PROVE  /\ log \in Seq(Message) /\ queue \in Seq(Nat)
           /\ Len(log) \in Nat /\ Len(queue) \in Nat
           /\ DOMAIN log = 1 .. Len(log)
           /\ refusedWo \in [Device -> BOOLEAN] /\ woPastData \in [Device -> Bit]
  BY DEF GatewayInv, IInv, TypeInv, TagType, SP!TypeInv, SP!QueueType

LEMMA GatewayInitSound == ASSUME GatewayInit PROVE GatewayInv
<1>1. Init
  BY DEF GatewayInit
<1>2. SP!Init
  BY DEF GatewayInit, Server!Init, SP!Init
<1>3. IInv
  BY <1>1, InitSound
<1>4. SP!TypeInv /\ SP!IInv
  BY <1>2, ServerAssumed, SP!InitType, SP!InitIInv
<1>5. WoInv
  BY DEF GatewayInit, Init, WoInv, WoReports
<1> QED
  BY <1>3, <1>4, <1>5 DEF GatewayInv

\* A driver posts a message of the drivers or leaves the queue alone.
LEMMA DriversPost ==
    ASSUME GatewayInv, DriversStep
    PROVE  /\ IInv'
           /\ \E d \in Device : CountStep \/ \E bit : WoStep(d, bit)
           /\ \/ UNCHANGED queueVars
              \/ \E m \in Message : Posts(m)
<1>1. PICK d \in Device : DeviceStep(d) \/ DriverStep(d)
  BY DEF DriversStep
<1>2. IInv'
  <2>1. Next
    BY <1>1 DEF Next
  <2> QED
    BY <2>1, StepSound DEF GatewayInv
<1>3. CountStep \/ \E bit : WoStep(d, bit)
  BY <1>1, DriverShape, QueueTyped
<1>4. UNCHANGED queueVars \/ \E m : Posts(m)
  BY <1>3 DEF CountStep, WoStep, queueVars
<1>5. ASSUME NEW m, Posts(m) PROVE m \in Message
  <2>1. log' \in Seq(Message)
    BY <1>2 DEF IInv, TypeInv, QueueType
  <2>2. log' = Append(log, m) /\ log \in Seq(Message)
    BY <1>5, QueueTyped DEF Posts
  <2>3. Len(log') = Len(log) + 1 /\ log'[Len(log) + 1] = m
    BY <2>2
  <2> QED
    BY <2>1, <2>3, QueueTyped
<1> QED
  BY <1>2, <1>3, <1>4, <1>5

\* For tagServer that is a message put on the queue, or nothing.
LEMMA DriversKeepServer ==
    ASSUME GatewayInv, DriversStep
    PROVE  SP!TypeInv' /\ SP!IInv'
<1>1. UNCHANGED serverVars
  BY DEF DriversStep
<1>2. CASE UNCHANGED queueVars
  <2>1. UNCHANGED SP!vars
    BY <1>1, <1>2 DEF serverVars, queueVars, SP!vars, SP!queueVars, SP!serverVars, SP!linkVars
  <2> QED
    BY <2>1, ServerAssumed, SP!StepType, SP!StepIInv DEF GatewayInv
<1>3. ASSUME NEW m \in Message, Posts(m) PROVE SP!TypeInv' /\ SP!IInv'
  <2>1. SP!Produce
    BY <1>1, <1>3 DEF Posts, serverVars, SP!Produce, SP!Post, SP!serverVars, SP!linkVars
  <2>2. SP!IInv'
    BY <2>1, ServerAssumed, SP!ProduceIInv DEF GatewayInv
  <2>3. SP!QueueType'
    BY <1>3, QueueTyped DEF Posts, SP!QueueType
  <2>4. SP!ServerType' /\ SP!LinkType'
    BY <1>1 DEF serverVars, GatewayInv, SP!TypeInv, SP!ServerType, SP!LinkType
  <2> QED
    BY <2>2, <2>3, <2>4 DEF SP!TypeInv
<1> QED
  BY <1>2, <1>3, DriversPost

\* A report of the input that is put on the queue is the last one of its device;
\* one that the queue refuses is remembered.
LEMMA DriversKeepWo ==
    ASSUME GatewayInv, DriversStep
    PROVE  WoInv'
<1>1. PICK d \in Device : CountStep \/ \E bit : WoStep(d, bit)
  BY DriversPost
<1>2. /\ log \in Seq(Message) /\ Len(log) \in Nat /\ DOMAIN log = 1 .. Len(log)
      /\ refusedWo \in [Device -> BOOLEAN] /\ woPastData \in [Device -> Bit]
  BY QueueTyped
<1> SUFFICES ASSUME NEW e \in Device, ~refusedWo'[e]
             PROVE  \/ WoReports(e)' = {} /\ woPastData'[e] = 0
                    \/ \E i \in WoReports(e)' :
                          /\ log'[i].total = woPastData'[e]
                          /\ \A j \in WoReports(e)' : j <= i
  BY DEF WoInv
<1>3. ASSUME ~refusedWo[e]
      PROVE  \/ WoReports(e) = {} /\ woPastData[e] = 0
             \/ \E i \in WoReports(e) :
                   log[i].total = woPastData[e] /\ \A j \in WoReports(e) : j <= i
  BY <1>3 DEF GatewayInv, WoInv
<1>4. CASE UNCHANGED <<log, woPastData, refusedWo>>
  BY <1>3, <1>4 DEF WoReports
<1>5. ASSUME NEW m, Posts(m)
      PROVE  /\ DOMAIN log' = DOMAIN log \union {Len(log) + 1}
             /\ log'[Len(log) + 1] = m
             /\ \A i \in DOMAIN log : log'[i] = log[i]
  BY <1>2, <1>5 DEF Posts
<1>6. ASSUME NEW m, Posts(m), m.dev # e \/ m.kind # "wo", woPastData'[e] = woPastData[e],
             ~refusedWo[e]
      PROVE  \/ WoReports(e)' = {} /\ woPastData'[e] = 0
             \/ \E i \in WoReports(e)' :
                   log'[i].total = woPastData'[e] /\ \A j \in WoReports(e)' : j <= i
  <2>1. WoReports(e)' = WoReports(e) /\ \A i \in WoReports(e) : log'[i] = log[i]
    BY <1>5, <1>6 DEF WoReports
  <2> QED
    BY <1>3, <1>6, <2>1
<1>7. CASE CountStep
  <2>1. CASE UNCHANGED queueVars
    BY <1>4, <1>7, <2>1 DEF CountStep, queueVars
  <2>2. ASSUME NEW m, m.kind = "count", Posts(m)
        PROVE  \/ WoReports(e)' = {} /\ woPastData'[e] = 0
               \/ \E i \in WoReports(e)' :
                     log'[i].total = woPastData'[e] /\ \A j \in WoReports(e)' : j <= i
    BY <1>6, <1>7, <2>2 DEF CountStep
  <2> QED
    BY <1>7, <2>1, <2>2 DEF CountStep
<1>8. ASSUME NEW bit, WoStep(d, bit)
      PROVE  \/ WoReports(e)' = {} /\ woPastData'[e] = 0
             \/ \E i \in WoReports(e)' :
                   log'[i].total = woPastData'[e] /\ \A j \in WoReports(e)' : j <= i
  <2>1. woPastData' = [woPastData EXCEPT ![d] = bit]
    BY <1>8 DEF WoStep
  <2>2. CASE woPastData[d] = bit /\ UNCHANGED <<queueVars, refusedWo>>
    <3>1. woPastData' = woPastData
      BY <1>2, <2>1, <2>2
    <3> QED
      BY <1>4, <2>2, <3>1 DEF queueVars
  <2>3. CASE UNCHANGED queueVars /\ refusedWo' = [refusedWo EXCEPT ![d] = TRUE]
    <3>1. e # d
      BY <1>2, <2>3
    <3>2. woPastData'[e] = woPastData[e] /\ refusedWo'[e] = refusedWo[e] /\ log' = log
      BY <1>2, <2>1, <2>3, <3>1 DEF queueVars
    <3>3. WoReports(e)' = WoReports(e)
      BY <3>2 DEF WoReports
    <3> QED
      BY <1>3, <3>2, <3>3
  <2>4. ASSUME NEW m, m.dev = d, m.kind = "wo", m.total = bit, Posts(m), UNCHANGED refusedWo
        PROVE  \/ WoReports(e)' = {} /\ woPastData'[e] = 0
               \/ \E i \in WoReports(e)' :
                     log'[i].total = woPastData'[e] /\ \A j \in WoReports(e)' : j <= i
    <3>1. CASE e = d
      <4>1. woPastData'[e] = bit
        BY <1>2, <2>1, <3>1
      <4>2. Len(log) + 1 \in WoReports(e)' /\ log'[Len(log) + 1].total = bit
        BY <1>5, <2>4, <3>1 DEF WoReports
      <4>3. \A j \in WoReports(e)' : j <= Len(log) + 1
        <5>1. WoReports(e)' \subseteq DOMAIN log \union {Len(log) + 1}
          BY <1>5, <2>4 DEF WoReports
        <5> QED
          BY <1>2, <5>1
      <4> QED
        BY <4>1, <4>2, <4>3
    <3>2. CASE e # d
      <4>1. woPastData'[e] = woPastData[e]
        BY <1>2, <2>1, <3>2
      <4> QED
        BY <1>6, <2>4, <3>2, <4>1
    <3> QED
      BY <3>1, <3>2
  <2> QED
    BY <1>8, <2>2, <2>3, <2>4 DEF WoStep
<1> QED
  BY <1>1, <1>7, <1>8

\* For the drivers a step of tagServer takes a message from the queue, or nothing.
LEMMA ServerKeeps ==
    ASSUME GatewayInv, ServerStep
    PROVE  GatewayInv'
<1>1. (SP!ServerStep \/ SP!LinkStep) /\ UNCHANGED driverVars
  BY SameServer DEF ServerStep
<1>2. SP!TypeInv' /\ SP!IInv'
  BY <1>1, ServerAssumed, SP!StepType, SP!StepIInv DEF GatewayInv, SP!Next
<1>3. /\ log' = log
      /\ \/ queue' = queue
         \/ queue # <<>> /\ queue' = Tail(queue)
  BY <1>1 DEF SP!ServerStep, SP!LinkStep, SP!Connect, SP!ConnectFails, SP!OpenDatabase,
     SP!OpenDatabaseFails, SP!SendRegPacket, SP!SendRegPacketFails, SP!RegistrationFails,
     SP!RegPacketAnswered, SP!RegPacketTimesOut, SP!NoTransducerRows, SP!NoTransducerRowsFails,
     SP!DiscardAnswers, SP!QueueEmpty, SP!Dequeue, SP!SendReport, SP!SendReportFails,
     SP!MiddlewareReads, SP!ConnectionBreaks, SP!queueVars
<1>4. [Next]_vars
  BY <1>1, <1>3 DEF Next, Consume, vars, queueVars
<1>5. IInv'
  BY <1>4, StepSound DEF GatewayInv
<1>6. WoInv'
  BY <1>1, <1>3 DEF driverVars, tagVars, GatewayInv, WoInv, WoReports
<1> QED
  BY <1>2, <1>5, <1>6 DEF GatewayInv

LEMMA GatewayStepSound ==
    ASSUME GatewayInv, [GatewayNext]_gatewayVars
    PROVE  GatewayInv'
<1>1. CASE DriversStep
  BY <1>1, DriversPost, DriversKeepServer, DriversKeepWo DEF GatewayInv
<1>2. CASE UNCHANGED gatewayVars
  <2>1. UNCHANGED vars /\ UNCHANGED SP!vars /\ UNCHANGED <<log, woPastData, refusedWo>>
    BY <1>2 DEF gatewayVars, queueVars, driverVars, tagVars, serverVars, vars, SP!vars, SP!queueVars,
                SP!serverVars, SP!linkVars
  <2>2. IInv' /\ SP!TypeInv' /\ SP!IInv'
    BY <2>1, ServerAssumed, StepSound, SP!StepType, SP!StepIInv DEF GatewayInv
  <2>3. WoInv'
    BY <2>1 DEF GatewayInv, WoInv, WoReports
  <2> QED
    BY <2>2, <2>3 DEF GatewayInv
<1> QED
  BY <1>1, <1>2, ServerKeeps DEF GatewayNext

-----------------------------------------------------------------------------
(* The theorems about the gateway.                                         *)

LEMMA GatewayInvariance == GatewaySpec => []GatewayInv
<1>1. GatewayInit => GatewayInv
  BY GatewayInitSound
<1>2. GatewayInv /\ [GatewayNext]_gatewayVars => GatewayInv'
  BY GatewayStepSound
<1> QED
  BY <1>1, <1>2, PTL DEF GatewaySpec

LEMMA ServerSound ==
    ASSUME GatewayInv PROVE Server!EveryReportAccounted /\ Server!DeliveredInOrder
<1>1. SP!EveryReportAccounted /\ SP!DeliveredInOrder
  BY ServerAssumed, SP!IInvAccounts DEF GatewayInv, SP!IInv, SP!OrderInv
<1> QED
  BY <1>1 DEF SP!EveryReportAccounted, Server!EveryReportAccounted, SP!DeliveredInOrder,
              Server!DeliveredInOrder, SP!Pending, Server!Pending, SP!Numbers, Server!Numbers,
              SP!InHand, Server!InHand, SP!Reports, Server!Reports

\* What is proved of the drivers alone and of tagServer alone, each with the
\* other one as an environment, holds of the two together: no unit is reported
\* twice, only a full queue loses quantities, every accepted report is in one
\* place, and the middleware reads them in the order of the queue.
THEOREM PartsSound ==
    GatewaySpec => []( /\ UnitsReportedOnce /\ QuantityConserved
                       /\ Server!EveryReportAccounted /\ Server!DeliveredInOrder )
<1>1. IInv => UnitsReportedOnce /\ QuantityConserved
  BY DEF IInv, ReportInv, CountReport, QtyInv, UnitsReportedOnce, CountReports, BaseInv, QuantityConserved
<1>2. GatewayInv => /\ UnitsReportedOnce /\ QuantityConserved
                    /\ Server!EveryReportAccounted /\ Server!DeliveredInOrder
  BY <1>1, ServerSound DEF GatewayInv
<1> QED
  BY <1>2, GatewayInvariance, PTL

\* What the drivers do is, for tagServer, messages put on the queue one at a
\* time, where there is room: tagServer in the gateway behaves as TagServer says.
THEOREM GatewayServerPart == GatewaySpec => ServerPart
<1> DEFINE Step == \/ Server!ServerStep \/ Server!LinkStep
                   \/ \E i \in DOMAIN log' : Server!Post(log'[i])
<1>1. GatewayInit => Server!Init
  BY DEF GatewayInit
<1>2. ASSUME GatewayInv, [GatewayNext]_gatewayVars PROVE [Step]_<<queueVars, serverVars>>
  <2>1. CASE DriversStep
    <3>1. UNCHANGED serverVars
      BY <2>1 DEF DriversStep
    <3>2. CASE UNCHANGED queueVars
      BY <3>1, <3>2
    <3>3. ASSUME NEW m \in Message, Posts(m) PROVE Step
      <4>1. Server!Post(m)
        BY <3>1, <3>3 DEF Posts, serverVars, Server!Post, Server!serverVars, Server!linkVars
      <4>2. Len(log) + 1 \in DOMAIN log' /\ log'[Len(log) + 1] = m
        BY <1>2, <3>3, QueueTyped DEF Posts
      <4> QED
        BY <4>1, <4>2
    <3> QED
      BY <1>2, <2>1, <3>2, <3>3, DriversPost
  <2>2. CASE ServerStep
    BY <2>2 DEF ServerStep
  <2>3. CASE UNCHANGED gatewayVars
    BY <2>3 DEF gatewayVars
  <2> QED
    BY <1>2, <2>1, <2>2, <2>3 DEF GatewayNext
<1> QED
  BY <1>1, <1>2, GatewayInvariance, PTL DEF GatewaySpec, ServerPart

LEMMA GreatestIs ==
    ASSUME NEW S, NEW k \in S, S \subseteq Nat, \A j \in S : j <= k
    PROVE  Max(S) = k
<1>1. \A j \in S : k >= j
  OBVIOUS
<1>2. \A x \in S : (\A j \in S : x >= j) => x = k
  OBVIOUS
<1> QED
  BY <1>1, <1>2 DEF Max

\* The middleware knows the input of every device as its driver does, unless a
\* report of it was refused, was lost or is under way.
THEOREM WoKnown == GatewaySpec => []WoViewCurrent
<1>1. GatewayInv => WoViewCurrent
  <2> SUFFICES ASSUME GatewayInv, NEW d \in Device, ~refusedWo[d],
                      \A m \in Server!Pending \union lost :
                          ~(log[m].dev = d /\ log[m].kind = "wo")
               PROVE  WoView(d) = woPastData[d]
    BY DEF WoViewCurrent
  <2>1. Server!EveryReportAccounted /\ Server!DeliveredInOrder
    BY ServerSound
  <2>2. /\ DOMAIN log = 1 .. Len(log)
        /\ delivered \in Seq(Nat)
    BY QueueTyped DEF GatewayInv, SP!TypeInv, SP!LinkType
  <2>3. WoReports(d) \subseteq Server!Numbers(delivered)
    BY <2>1, <2>2 DEF WoReports, Server!EveryReportAccounted
  <2>4. \A k \in DOMAIN delivered : delivered[k] \in DOMAIN log
    BY <2>1, <2>2 DEF Server!EveryReportAccounted, Server!Numbers
  <2>5. Arrived(d, "wo") = {k \in DOMAIN delivered : delivered[k] \in WoReports(d)}
    BY <2>4 DEF Arrived, WoReports
  <2>6. CASE WoReports(d) = {}
    <3>1. woPastData[d] = 0
      BY <2>6 DEF GatewayInv, WoInv
    <3>2. Arrived(d, "wo") = {}
      BY <2>5, <2>6
    <3> QED
      BY <3>1, <3>2 DEF WoView
  <2>7. CASE WoReports(d) # {}
    <3>1. PICK i \in WoReports(d) : /\ log[i].total = woPastData[d]
                                    /\ \A j \in WoReports(d) : j <= i
      BY <2>7 DEF GatewayInv, WoInv
    <3>2. PICK k \in DOMAIN delivered : delivered[k] = i
      BY <2>3 DEF Server!Numbers
    <3>3. k \in Arrived(d, "wo") /\ Arrived(d, "wo") \subseteq Nat
      BY <2>2, <2>5, <3>2
    <3>4. ASSUME NEW j \in Arrived(d, "wo") PROVE j <= k
      <4>1. j \in DOMAIN delivered /\ delivered[j] <= delivered[k]
        BY <2>5, <3>1, <3>2
      <4>2. k < j => delivered[k] < delivered[j]
        BY <2>1, <4>1 DEF Server!DeliveredInOrder
      <4>3. j \in Nat /\ k \in Nat /\ delivered[j] \in Nat /\ delivered[k] \in Nat
        BY <2>2, <4>1
      <4> QED
        BY <4>1, <4>2, <4>3
    <3>5. Max(Arrived(d, "wo")) = k
      BY <3>3, <3>4, GreatestIs
    <3> QED
      BY <3>1, <3>2, <3>3, <3>5 DEF WoView, Arrival
  <2> QED
    BY <2>6, <2>7
<1> QED
  BY <1>1, GatewayInvariance, PTL

-----------------------------------------------------------------------------
(* What the middleware is told in all.                                     *)

LEMMA LeastOf ==
    ASSUME NEW T \in SUBSET Nat, T # {}
    PROVE  \E x \in T : \A y \in T : x <= y
<1> DEFINE R == OpToRel(<, Nat)
<1>1. IsWellFoundedOn(R, Nat)
  BY NatLessThanWellFounded
<1>2. \A x, y \in Nat : x < y => <<x, y>> \in R
  BY DEF OpToRel
<1> HIDE DEF R
<1>3. PICK x \in T : \A y \in T : ~(<<y, x>> \in R)
  BY <1>1, WFMin
<1>4. \A y \in T : x \in Nat /\ y \in Nat /\ ~(y < x)
  BY <1>2, <1>3
<1> QED
  BY <1>4

\* g adds up the first k values of q.
AddsUp(g, q, k) ==
    /\ g \in [0 .. k -> Int] /\ g[0] = 0
    /\ \A n \in 1 .. k : g[n] = g[n - 1] + q[n]

LEMMA SumExists ==
    ASSUME NEW L \in Nat, NEW q \in [1 .. L -> Int]
    PROVE  \E g : AddsUp(g, q, L)
<1> DEFINE Missing == {k \in 0 .. L : ~\E g : AddsUp(g, q, k)}
<1> SUFFICES ASSUME Missing # {} PROVE FALSE
  OBVIOUS
<1>1. PICK k \in Missing : \A j \in Missing : k <= j
  <2>1. Missing \in SUBSET Nat
    OBVIOUS
  <2> HIDE DEF Missing
  <2> QED
    BY <2>1, LeastOf
<1>2. CASE k = 0
  <2> DEFINE g == [n \in 0 .. 0 |-> 0]
  <2>1. AddsUp(g, q, 0)
    BY DEF AddsUp
  <2> QED
    BY <1>1, <1>2, <2>1
<1>3. CASE k # 0
  <2>1. k - 1 \in 0 .. L /\ k \in 1 .. L /\ ~(k <= k - 1)
    BY <1>3
  <2>2. k - 1 \notin Missing
    BY <1>1, <2>1
  <2>3. PICK h : AddsUp(h, q, k - 1)
    BY <2>1, <2>2
  <2> DEFINE g == [n \in 0 .. k |-> IF n = k THEN h[k - 1] + q[k] ELSE h[n]]
  <2>4. AddsUp(g, q, k)
    <3>1. g \in [0 .. k -> Int] /\ g[0] = 0
      BY <2>1, <2>3, <1>3 DEF AddsUp
    <3>2. ASSUME NEW n \in 1 .. k PROVE g[n] = g[n - 1] + q[n]
      <4>1. n - 1 \in 0 .. k /\ n - 1 # k /\ n \in 0 .. k /\ g[n - 1] = h[n - 1]
        BY <2>1
      <4>2. CASE n = k
        BY <2>1, <4>1, <4>2
      <4>3. CASE n # k
        <5>1. n \in 1 .. k - 1 /\ g[n] = h[n]
          BY <2>1, <4>3
        <5> QED
          BY <2>3, <4>1, <5>1 DEF AddsUp
      <4> QED
        BY <4>2, <4>3
    <3> QED
      BY <3>1, <3>2 DEF AddsUp
  <2> QED
    BY <1>1, <2>4
<1> QED
  BY <1>2, <1>3

LEMMA TotalIs ==
    ASSUME NEW d, Len(delivered) \in Nat, \A n \in 1 .. Len(delivered) : Told(d, n) \in Int
    PROVE  \E g : /\ AddsUp(g, [n \in 1 .. Len(delivered) |-> Told(d, n)], Len(delivered))
                  /\ TotalTold(d) = g[Len(delivered)]
<1> DEFINE L == Len(delivered)
           q == [n \in 1 .. L |-> Told(d, n)]
           Solves(g) == g = [n \in 0 .. L |-> IF n = 0 THEN 0 ELSE g[n - 1] + Told(d, n)]
           sum == CHOOSE g : Solves(g)
<1>1. TotalTold(d) = sum[L]
  BY DEF TotalTold
<1>2. q \in [1 .. L -> Int]
  OBVIOUS
<1>3. PICK h : AddsUp(h, q, L)
  <2> HIDE DEF q, L
  <2> QED
  BY <1>2, SumExists DEF L
<1>4. Solves(h)
  BY <1>3 DEF AddsUp
<1>5. Solves(sum)
  <2> HIDE DEF Solves
  <2> QED
    BY <1>4
<1>6. \A n \in 0 .. L : sum[n] = h[n]
  <2> DEFINE Differs == {n \in 0 .. L : sum[n] # h[n]}
  <2> SUFFICES ASSUME Differs # {} PROVE FALSE
    OBVIOUS
  <2>1. PICK k \in Differs : \A j \in Differs : k <= j
    <3>1. Differs \in SUBSET Nat
      BY DEF L
    <3> HIDE DEF Differs
    <3> QED
      BY <3>1, LeastOf
  <2>2. /\ sum[k] = IF k = 0 THEN 0 ELSE sum[k - 1] + Told(d, k)
        /\ h[k] = IF k = 0 THEN 0 ELSE h[k - 1] + Told(d, k)
    <3> HIDE DEF sum, L
    <3> QED
      BY <1>4, <1>5, <2>1
  <2>3. k # 0 => k - 1 \in 0 .. L /\ ~(k <= k - 1)
    BY <2>1
  <2>4. k # 0 => sum[k - 1] = h[k - 1]
    <3> HIDE DEF sum, L
    <3> QED
      BY <2>1, <2>3
  <2> HIDE DEF sum, L
  <2> QED
    BY <2>1, <2>2, <2>4
<1>7. L \in 0 .. L
  BY DEF L
<1>8. TotalTold(d) = h[L]
  <2> HIDE DEF sum, L
  <2> QED
    BY <1>1, <1>6, <1>7
<1> QED
  BY <1>3, <1>8

\* The reports the middleware has read of a device tell of stretches that follow
\* one another, and of no more units than these have.
LEMMA ArrivedInOrder ==
    ASSUME GatewayInv, NEW d \in Device, ~misled[d]
    PROVE  /\ Len(delivered) \in Nat /\ made[d] \in Nat
           /\ \A i \in Arrived(d, "count") :
                /\ Arrival(i).qty \in Int /\ Arrival(i).lo \in Nat /\ Arrival(i).hi \in Nat
                /\ Arrival(i).qty <= Arrival(i).hi - Arrival(i).lo /\ Arrival(i).hi <= made[d]
           /\ \A i, j \in Arrived(d, "count") : i < j => Arrival(i).hi <= Arrival(j).lo
<1>1. /\ Server!EveryReportAccounted /\ Server!DeliveredInOrder
      /\ log \in Seq(Message) /\ DOMAIN log = 1 .. Len(log)
      /\ delivered \in Seq(Nat) /\ DOMAIN delivered = 1 .. Len(delivered)
  BY ServerSound, QueueTyped DEF GatewayInv, SP!TypeInv, SP!LinkType
<1>2. /\ made[d] \in Nat /\ seen[d] \in Nat /\ seen[d] <= made[d]
      /\ ReportInv /\ QtyInv
  BY DEF GatewayInv, IInv, TypeInv, DeviceType, TagType, OrderInv, InOrder
<1>3. ASSUME NEW i \in Arrived(d, "count")
      PROVE  /\ delivered[i] \in DOMAIN log /\ CountReport(delivered[i])
             /\ log[delivered[i]] \in Message /\ log[delivered[i]].dev = d
  <2>1. i \in DOMAIN delivered /\ log[delivered[i]].dev = d /\ log[delivered[i]].kind = "count"
    BY <1>3 DEF Arrived
  <2>2. delivered[i] \in DOMAIN log
    BY <1>1, <2>1 DEF Server!EveryReportAccounted, Server!Numbers
  <2>3. log[delivered[i]] \in Message
    BY <1>1, <2>2
  <2> QED
    BY <2>1, <2>2, <2>3 DEF CountReport
<1>4. ASSUME NEW i \in Arrived(d, "count")
      PROVE  /\ Arrival(i).qty \in Int /\ Arrival(i).lo \in Nat /\ Arrival(i).hi \in Nat
             /\ Arrival(i).qty <= Arrival(i).hi - Arrival(i).lo /\ Arrival(i).hi <= made[d]
  <2>1. /\ Arrival(i).qty \in Int /\ Arrival(i).lo \in Nat /\ Arrival(i).hi \in Nat
    BY <1>3 DEF Message, Arrival
  <2>2. Arrival(i).qty <= Arrival(i).hi - Arrival(i).lo
    BY <1>2, <1>3 DEF QtyInv, Arrival
  <2>3. Arrival(i).hi <= seen[d]
    BY <1>2, <1>3 DEF ReportInv, Arrival
  <2> QED
    BY <1>2, <2>1, <2>2, <2>3
<1>5. ASSUME NEW i \in Arrived(d, "count"), NEW j \in Arrived(d, "count"), i < j
      PROVE  Arrival(i).hi <= Arrival(j).lo
  <2>1. delivered[i] < delivered[j]
    BY <1>1, <1>5 DEF Server!DeliveredInOrder, Arrived
  <2> QED
    BY <1>2, <1>3, <2>1 DEF ReportInv, Arrival
<1> QED
  BY <1>1, <1>2, <1>4, <1>5

\* The middleware is never told of more units than a device made, unless its
\* driver took something else than a reply for one: after any number of reports
\* the sum is at most what was made when the last of them was, which is at most
\* where the stretch of the next one begins.
THEOREM MiddlewareRight == GatewaySpec => []MiddlewareNeverOvercounts
<1>1. ASSUME GatewayInv, NEW d \in Device, ~misled[d]
      PROVE  TotalTold(d) <= made[d]
  <2> DEFINE L == Len(delivered)
             C == Arrived(d, "count")
             q == [n \in 1 .. L |-> Told(d, n)]
  <2>1. /\ L \in Nat /\ made[d] \in Nat
        /\ \A i \in C : /\ Arrival(i).qty \in Int /\ Arrival(i).lo \in Nat
                         /\ Arrival(i).hi \in Nat /\ Arrival(i).hi <= made[d]
                         /\ Arrival(i).qty <= Arrival(i).hi - Arrival(i).lo
        /\ \A i, j \in C : i < j => Arrival(i).hi <= Arrival(j).lo
    BY <1>1, ArrivedInOrder
  <2>2. \A n \in 1 .. L : /\ Told(d, n) \in Int /\ q[n] = Told(d, n)
                          /\ n \in C => q[n] = Arrival(n).qty
                          /\ n \notin C => q[n] = 0
    BY <2>1 DEF Told
  <2>3. PICK g : AddsUp(g, q, L) /\ TotalTold(d) = g[L]
    BY <2>1, <2>2, TotalIs
  <2> HIDE DEF L, C, q
  <2>4. /\ \A k \in 0 .. L : g[k] \in Int
        /\ g[0] = 0
        /\ \A k \in 1 .. L : g[k] = g[k - 1] + q[k]
    BY <2>3 DEF AddsUp
  <2> DEFINE Fits(k) == g[k] <= made[d] /\ \A j \in C : k < j => g[k] <= Arrival(j).lo
             Bad == {k \in 0 .. L : ~Fits(k)}
  <2>5. Bad = {}
    <3> SUFFICES ASSUME Bad # {} PROVE FALSE
      OBVIOUS
    <3>1. PICK k \in Bad : \A j \in Bad : k <= j
      <4>1. Bad \in SUBSET Nat
        BY <2>1
      <4> HIDE DEF Bad
      <4> QED
        BY <4>1, LeastOf
    <3>2. k \in 0 .. L /\ ~Fits(k)
      BY <3>1
    <3> HIDE DEF Fits
    <3>3. k # 0
      BY <2>1, <2>4, <3>2 DEF Fits
    <3>4. k \in 1 .. L /\ k - 1 \in 0 .. L /\ ~(k <= k - 1) /\ k - 1 < k
      BY <2>1, <3>2, <3>3
    <3>5. Fits(k - 1)
      BY <3>1, <3>4
    <3>6. /\ g[k - 1] <= made[d] /\ g[k - 1] \in Int /\ g[k] \in Int
          /\ g[k] = g[k - 1] + q[k]
          /\ \A j \in C : k - 1 < j => g[k - 1] <= Arrival(j).lo
      BY <2>4, <3>2, <3>4, <3>5 DEF Fits
    <3>7. CASE k \in C
      <4>1. g[k] <= Arrival(k).hi
        <5>1. q[k] = Arrival(k).qty /\ g[k - 1] <= Arrival(k).lo
          BY <2>2, <3>4, <3>6, <3>7
        <5>2. /\ Arrival(k).qty \in Int /\ Arrival(k).lo \in Nat /\ Arrival(k).hi \in Nat
              /\ Arrival(k).qty <= Arrival(k).hi - Arrival(k).lo
          BY <2>1, <3>7
        <5> QED
          BY <3>6, <5>1, <5>2
      <4>2. Arrival(k).hi \in Nat /\ Arrival(k).hi <= made[d]
        BY <2>1, <3>7
      <4>3. \A j \in C : k < j => Arrival(k).hi <= Arrival(j).lo /\ Arrival(j).lo \in Nat
        BY <2>1, <3>7
      <4> QED
        BY <2>1, <3>2, <3>6, <4>1, <4>2, <4>3 DEF Fits
    <3>8. CASE k \notin C
      <4>1. g[k] = g[k - 1]
        BY <2>2, <3>4, <3>6, <3>8
      <4>2. \A j \in C : j \in Int
        BY <1>1, QueueTyped DEF C, Arrived, GatewayInv, SP!TypeInv, SP!LinkType
      <4>3. \A j \in C : k < j => k - 1 < j
        BY <3>4, <4>2
      <4> QED
        BY <3>2, <3>6, <4>1, <4>3 DEF Fits
    <3> QED
      BY <3>7, <3>8
  <2>6. L \in 0 .. L
    BY <2>1
  <2>7. Fits(L)
    BY <2>5, <2>6
  <2> QED
    BY <2>3, <2>7
<1>2. GatewayInv => MiddlewareNeverOvercounts
  BY <1>1 DEF MiddlewareNeverOvercounts
<1> QED
  BY <1>2, GatewayInvariance, PTL
=============================================================================
