------------------------ MODULE SerialForwarder_proofs ------------------------
(***************************************************************************)
(* Proofs about SerialForwarder: the parser takes every undamaged frame    *)
(* (IntactFramesTaken), and an acknowledgement that is taken is that of    *)
(* the packet just written (AckMeansDelivered), the latter as long as the  *)
(* disturbances and the bytes of the line stay behind the numbers.         *)
(***************************************************************************)
EXTENDS SerialForwarder, SequenceTheorems, TLAPS

-----------------------------------------------------------------------------
(* Bytes and frames.                                                       *)

\* What the mote has to say.
Content == {Report} \union {AckOf(n) : n \in Ack}

\* A byte of the line or of recv.packet.
ByteRec == [byte : Byte \union {"data"}, of : Content \union {<<>>}, part : 0 .. 2, place : 0 .. 4]

\* Undamaged frames are whole: each byte of one has its neighbours.
Framed(s) ==
    \A i \in 1 .. Len(s) :
        /\ s[i].place \in {1, 4} => s[i].byte = "sync"
        /\ s[i].place \in {2, 3} => s[i].byte = "data" /\ s[i].part = s[i].place - 1
        /\ s[i].place \in 1 .. 3 => i < Len(s) /\ s[i + 1].place = s[i].place + 1
        /\ s[i].place = 2 => s[i + 1].of = s[i].of
        /\ s[i].place \in 2 .. 4 /\ i > 1 => s[i - 1].place = s[i].place - 1

LEMMA Successor ==
    ASSUME NEW N \in Nat \ {0}, NEW k \in 0 .. N - 1
    PROVE  (k + 1) % N = IF k + 1 = N THEN 0 ELSE k + 1
<1>1. CASE k + 1 = N
  BY <1>1, SMT
<1>2. CASE k + 1 # N
  BY <1>2, SMT
<1>. QED  BY <1>1, <1>2

\* The first byte of a sequence and those behind it.
LEMMA HeadAndTail ==
    ASSUME NEW S, NEW s \in Seq(S), s # <<>>
    PROVE  /\ Head(s) = s[1] /\ Head(s) \in S
           /\ Tail(s) \in Seq(S) /\ Len(s) \in Nat /\ Len(Tail(s)) = Len(s) - 1 /\ Len(s) > 0
           /\ \A i \in 1 .. Len(Tail(s)) : Tail(s)[i] = s[i + 1]
  BY HeadTailProperties, EmptySeq, LenProperties

LEMMA Joined ==
    ASSUME NEW S, NEW s \in Seq(S), NEW t \in Seq(S)
    PROVE  /\ s \o t \in Seq(S)
           /\ Len(s) \in Nat /\ Len(t) \in Nat /\ Len(s \o t) = Len(s) + Len(t)
           /\ \A i \in 1 .. Len(s) : (s \o t)[i] = s[i]
           /\ \A i \in Len(s) + 1 .. Len(s) + Len(t) : (s \o t)[i] = t[i - Len(s)]
<1>1. Len(s) \in Nat /\ Len(t) \in Nat
  BY LenProperties
<1>2. /\ s \o t \in Seq(S) /\ Len(s \o t) = Len(s) + Len(t)
      /\ \A i \in 1 .. Len(s) + Len(t) :
            (s \o t)[i] = IF i <= Len(s) THEN s[i] ELSE t[i - Len(s)]
  BY ConcatProperties, Zenon
<1>. QED  BY <1>1, <1>2

LEMMA Added ==
    ASSUME NEW S, NEW s \in Seq(S), NEW x \in S
    PROVE  /\ Append(s, x) \in Seq(S) /\ Len(Append(s, x)) = Len(s) + 1 /\ Len(s) \in Nat
           /\ \A i \in 1 .. Len(s) : Append(s, x)[i] = s[i]
           /\ Append(s, x)[Len(s) + 1] = x
  BY AppendProperties, LenProperties

LEMMA FunctionIsSequence ==
    ASSUME NEW S, NEW n \in Nat, NEW g \in [1 .. n -> S]
    PROVE  g \in Seq(S) /\ Len(g) = n
  OBVIOUS

LEMMA FourAreSequence ==
    ASSUME NEW S, NEW g \in [1 .. 4 -> S]
    PROVE  g \in Seq(S) /\ Len(g) = 4
<1>. DEFINE n == 4
<1>1. n \in Nat /\ g \in [1 .. n -> S]
  OBVIOUS
<1>. HIDE DEF n
<1>2. g \in Seq(S) /\ Len(g) = n
  BY <1>1, FunctionIsSequence, Zenon
<1>. QED  BY <1>2 DEF n

LEMMA FrameType ==
    ASSUME NEW c \in Content
    PROVE  /\ Frame(c) \in Seq(ByteRec) /\ Len(Frame(c)) = 4
           /\ Frame(c)[1] = [byte |-> "sync", of |-> <<>>, part |-> 0, place |-> 1]
           /\ Frame(c)[2] = [byte |-> "data", of |-> c, part |-> 1, place |-> 2]
           /\ Frame(c)[3] = [byte |-> "data", of |-> c, part |-> 2, place |-> 3]
           /\ Frame(c)[4] = [byte |-> "sync", of |-> <<>>, part |-> 0, place |-> 4]
<1>. DEFINE a == [Raw("sync") EXCEPT !.place = 1]
            b == [byte |-> "data", of |-> c, part |-> 1, place |-> 2]
            d == [byte |-> "data", of |-> c, part |-> 2, place |-> 3]
            e == [Raw("sync") EXCEPT !.place = 4]
<1>1. /\ a = [byte |-> "sync", of |-> <<>>, part |-> 0, place |-> 1]
      /\ e = [byte |-> "sync", of |-> <<>>, part |-> 0, place |-> 4]
  BY DEF Raw
<1>2. a \in ByteRec /\ b \in ByteRec /\ d \in ByteRec /\ e \in ByteRec
  BY <1>1 DEF ByteRec, Byte
<1>3. Frame(c) = <<a, b, d, e>>
  BY Zenon DEF Frame
<1>. HIDE DEF a, b, d, e
<1>4. <<a, b, d, e>> \in Seq(ByteRec)
  BY <1>2
<1>5. Len(<<a, b, d, e>>) = 4 /\ <<a, b, d, e>>[1] = a /\ <<a, b, d, e>>[2] = b
      /\ <<a, b, d, e>>[3] = d /\ <<a, b, d, e>>[4] = e
  OBVIOUS
<1>. QED  BY <1>1, <1>3, <1>4, <1>5 DEF b, d

-----------------------------------------------------------------------------
(* What the mote adds to the line.                                         *)

\* What a mote that sends c can put on the line: the frame, or stray bytes.
Sendable(c, t) ==
    /\ t \in Seq(ByteRec)
    /\ t = Frame(c) \/ \A i \in 1 .. Len(t) : t[i].place = 0
    /\ \A i \in 1 .. Len(t) : t[i].of \in {c, <<>>}

LEMMA DamagedFrame ==
    ASSUME NEW c \in Content, NEW t \in Damaged(c)
    PROVE  Sendable(c, t) /\ \A i \in 1 .. Len(t) : t[i].place = 0
<1>. DEFINE S == {x \in ByteRec : x.place = 0 /\ x.of \in {c, <<>>}}
            f == Loose(c)
            fr == Frame(c)
<1>1. \A k \in 1 .. 4 : f[k] \in S
  <2>1. /\ fr[1] = [byte |-> "sync", of |-> <<>>, part |-> 0, place |-> 1]
        /\ fr[2] = [byte |-> "data", of |-> c, part |-> 1, place |-> 2]
        /\ fr[3] = [byte |-> "data", of |-> c, part |-> 2, place |-> 3]
        /\ fr[4] = [byte |-> "sync", of |-> <<>>, part |-> 0, place |-> 4]
    BY FrameType, Zenon
  <2>2. \A k \in 1 .. 4 : f[k] = [fr[k] EXCEPT !.place = 0]
    BY DEF Loose
  <2>. HIDE DEF f, fr
  <2>3. /\ f[1] = [byte |-> "sync", of |-> <<>>, part |-> 0, place |-> 0]
        /\ f[2] = [byte |-> "data", of |-> c, part |-> 1, place |-> 0]
        /\ f[3] = [byte |-> "data", of |-> c, part |-> 2, place |-> 0]
        /\ f[4] = [byte |-> "sync", of |-> <<>>, part |-> 0, place |-> 0]
    BY <2>1, <2>2
  <2>4. f[1] \in S /\ f[2] \in S /\ f[3] \in S /\ f[4] \in S
    BY <2>3 DEF ByteRec, Byte
  <2>. QED  BY <2>4
<1>2. \A b \in Byte : Raw(b) \in S
  BY DEF Raw, Byte, ByteRec
<1>3. f \in [1 .. 4 -> S]
  BY <1>1 DEF Loose
<1>. HIDE DEF f, S
<1>4. f \in Seq(S) /\ Len(f) = 4
  BY <1>3, FourAreSequence, Zenon
<1>5. \A k \in 1 .. 4 : SubSeq(f, 1, k - 1) \in Seq(S) /\ SubSeq(f, k + 1, 4) \in Seq(S)
  <2>. SUFFICES ASSUME NEW k \in 1 .. 4
                PROVE  SubSeq(f, 1, k - 1) \in Seq(S) /\ SubSeq(f, k + 1, 4) \in Seq(S)
    OBVIOUS
  <2>1. k - 1 \in Int /\ k + 1 \in Int /\ 1 \in Int /\ 4 \in Int
    OBVIOUS
  <2>2. (\A i \in 1 .. k - 1 : f[i] \in S) /\ (\A i \in k + 1 .. 4 : f[i] \in S)
    BY <1>3
  <2>. QED  BY <2>1, <2>2, SubSeqProperties
<1>6. \A k \in 1 .. 4, b \in Byte : [f EXCEPT ![k] = Raw(b)] \in Seq(S)
  BY <1>2, <1>4, ExceptSeq
<1>7. \A b \in Byte : <<Raw(b)>> \in Seq(S)
  BY <1>2
<1>8. t \in Seq(S)
  <2>1. CASE t = f
    BY <1>4, <2>1
  <2>2. CASE \E k \in 1 .. 4 : t = SubSeq(f, 1, k - 1) \o SubSeq(f, k + 1, 4)
    BY <1>5, <2>2, ConcatProperties
  <2>3. CASE \E k \in 1 .. 4, b \in Byte : t = [f EXCEPT ![k] = Raw(b)]
    BY <1>6, <2>3
  <2>4. CASE \E b \in Byte : t = <<Raw(b)>>
    BY <1>7, <2>4
  <2>5. t \in {f} \union {SubSeq(f, 1, k - 1) \o SubSeq(f, k + 1, 4) : k \in 1 .. 4}
             \union {[f EXCEPT ![k] = Raw(b)] : k \in 1 .. 4, b \in Byte}
             \union {<<Raw(b)>> : b \in Byte}
    BY DEF Damaged, f
  <2>. QED  BY <2>1, <2>2, <2>3, <2>4, <2>5
<1>9. S \subseteq ByteRec
  BY DEF S
<1>10. t \in Seq(ByteRec)
  BY <1>8, <1>9, SeqMonotonic
<1>11. \A i \in 1 .. Len(t) : t[i] \in S
  BY <1>8, ElementOfSeq
<1>. QED  BY <1>10, <1>11 DEF Sendable, S

LEMMA CutOff ==
    ASSUME NEW c \in Content, NEW t, Sendable(c, t), \A i \in 1 .. Len(t) : t[i].place = 0,
           NEW n \in 0 .. Len(t)
    PROVE  Sendable(c, SubSeq(t, 1, n)) /\ Len(SubSeq(t, 1, n)) = n
<1>1. t \in Seq(ByteRec) /\ Len(t) \in Nat
  BY LenProperties DEF Sendable
<1>2. \A i \in 1 .. n : t[i] \in ByteRec
  BY <1>1, ElementOfSeq
<1>3. /\ SubSeq(t, 1, n) \in Seq(ByteRec) /\ Len(SubSeq(t, 1, n)) = n
      /\ \A i \in 1 .. n : SubSeq(t, 1, n)[i] = t[i]
  <2>1. n \in Int /\ 1 \in Int
    BY <1>1
  <2>2. /\ SubSeq(t, 1, n) \in Seq(ByteRec)
        /\ Len(SubSeq(t, 1, n)) = IF 1 <= n THEN n - 1 + 1 ELSE 0
        /\ \A i \in 1 .. n - 1 + 1 : SubSeq(t, 1, n)[i] = t[1 + i - 1]
    BY <1>2, <2>1, SubSeqProperties
  <2>. QED  BY <1>1, <2>2
<1>. QED  BY <1>1, <1>3 DEF Sendable

\* What arrives is what the mote sends, or the part of it for which there is room.
LEMMA Arrival ==
    ASSUME NEW c \in Content, MoteSends(c), line \in Seq(ByteRec), Len(line) <= LineCap
    PROVE  \E t \in Seq(ByteRec) :
               Sendable(c, t) /\ line' = line \o t /\ Len(line') <= LineCap
<1>. USE SerialForwarderAssumption
<1>. DEFINE Found == \E t \in Seq(ByteRec) :
                         Sendable(c, t) /\ line' = line \o t /\ Len(line') <= LineCap
<1>1. Len(line) \in Nat
  BY LenProperties
<1>2. CASE Len(line) + 4 <= LineCap /\ Arrives(Frame(c))
  <2>1. Frame(c) \in Seq(ByteRec) /\ Len(Frame(c)) = 4 /\ Sendable(c, Frame(c))
    <3>. DEFINE fr == Frame(c)
    <3>1. /\ fr \in Seq(ByteRec) /\ Len(fr) = 4
          /\ fr[1] = [byte |-> "sync", of |-> <<>>, part |-> 0, place |-> 1]
          /\ fr[2] = [byte |-> "data", of |-> c, part |-> 1, place |-> 2]
          /\ fr[3] = [byte |-> "data", of |-> c, part |-> 2, place |-> 3]
          /\ fr[4] = [byte |-> "sync", of |-> <<>>, part |-> 0, place |-> 4]
      BY FrameType, Zenon
    <3>2. \A i \in 1 .. Len(fr) : fr[i].of \in {c, <<>>}
      <4>. HIDE DEF fr
      <4>. QED  BY <3>1
    <3>. QED  BY <3>1, <3>2, Zenon DEF Sendable
  <2>2. line' = line \o Frame(c)
    BY <1>2, <2>1 DEF Arrives
  <2>3. Len(line') = Len(line) + 4
    <3>. DEFINE fr == Frame(c)
    <3>1. \A s, r \in Seq(ByteRec) : Len(s \o r) = Len(s) + Len(r)
      BY Joined
    <3>. QED  BY <2>1, <2>2, <3>1
  <2>. QED  BY <1>1, <1>2, <2>1, <2>2, <2>3
<1>3. ASSUME NEW b \in Damaged(c), Arrives(b) PROVE Found
  <2>1. Sendable(c, b)
    BY DamagedFrame
  <2>2. b \in Seq(ByteRec) /\ Len(b) \in Nat
    BY <2>1, LenProperties DEF Sendable
  <2>3. CASE Len(line) + Len(b) <= LineCap
    BY <1>1, <1>3, <2>1, <2>2, <2>3, Joined DEF Arrives
  <2>4. CASE ~(Len(line) + Len(b) <= LineCap)
    <3>. DEFINE n == LineCap - Len(line)
    <3>1. n \in 0 .. Len(b)
      BY <1>1, <2>2, <2>4
    <3>2. \A i \in 1 .. Len(b) : b[i].place = 0
      BY DamagedFrame
    <3>3. Sendable(c, SubSeq(b, 1, n)) /\ Len(SubSeq(b, 1, n)) = n
      BY <2>1, <3>1, <3>2, CutOff
    <3>4. line' = line \o SubSeq(b, 1, n)
      BY <1>3, <2>4 DEF Arrives
    <3>. HIDE DEF n
    <3>5. SubSeq(b, 1, n) \in Seq(ByteRec)
      BY <3>3 DEF Sendable
    <3>6. Len(line') = LineCap
      BY <1>1, <3>1, <3>3, <3>4, <3>5, Joined DEF n
    <3>. DEFINE r == SubSeq(b, 1, n)
    <3>7. r \in Seq(ByteRec) /\ Sendable(c, r) /\ line' = line \o r /\ Len(line') <= LineCap
      BY <3>3, <3>4, <3>5, <3>6
    <3>. HIDE DEF r
    <3>. QED  BY <3>7
  <2>. QED  BY <2>3, <2>4
<1>. QED  BY <1>2, <1>3 DEF MoteSends

LEMMA FramedTail ==
    ASSUME NEW s \in Seq(ByteRec), s # <<>>, Framed(s)
    PROVE  Framed(Tail(s))
<1>. DEFINE t == Tail(s)
<1>1. /\ Len(s) \in Nat /\ Len(t) = Len(s) - 1
      /\ \A i \in 1 .. Len(t) : t[i] = s[i + 1]
  BY HeadAndTail
<1>. HIDE DEF t
<1>2. SUFFICES ASSUME NEW i \in 1 .. Len(t)
               PROVE  /\ t[i].place \in {1, 4} => t[i].byte = "sync"
                      /\ t[i].place \in {2, 3} => t[i].byte = "data" /\ t[i].part = t[i].place - 1
                      /\ t[i].place \in 1 .. 3 => i < Len(t) /\ t[i + 1].place = t[i].place + 1
                      /\ t[i].place = 2 => t[i + 1].of = t[i].of
                      /\ t[i].place \in 2 .. 4 /\ i > 1 => t[i - 1].place = t[i].place - 1
  BY DEF Framed, t
<1>3. i + 1 \in 1 .. Len(s) /\ t[i] = s[i + 1] /\ i \in Nat
  BY <1>1
<1>4. i < Len(t) => t[i + 1] = s[i + 1 + 1]
  BY <1>1
<1>5. i > 1 => t[i - 1] = s[i + 1 - 1]
  BY <1>1
<1>. DEFINE j == i + 1
<1>6. /\ j \in 1 .. Len(s) /\ j > 1 /\ t[i] = s[j]
      /\ j < Len(s) => i < Len(t) /\ t[i + 1] = s[j + 1]
      /\ i > 1 => t[i - 1] = s[j - 1]
  BY <1>1, <1>3, <1>4, <1>5
<1>. HIDE DEF j
<1>7. /\ s[j].place \in {1, 4} => s[j].byte = "sync"
      /\ s[j].place \in {2, 3} => s[j].byte = "data" /\ s[j].part = s[j].place - 1
      /\ s[j].place \in 1 .. 3 => j < Len(s) /\ s[j + 1].place = s[j].place + 1
      /\ s[j].place = 2 => s[j + 1].of = s[j].of
      /\ s[j].place \in 2 .. 4 /\ j > 1 => s[j - 1].place = s[j].place - 1
  BY <1>6 DEF Framed
<1>8. s[j].place = 2 => s[j].place \in 1 .. 3
  OBVIOUS
<1>. QED  BY <1>6, <1>7, <1>8

LEMMA FramedJoined ==
    ASSUME NEW s \in Seq(ByteRec), Framed(s), NEW c \in Content, NEW t, Sendable(c, t)
    PROVE  Framed(s \o t)
<1>. DEFINE u == s \o t
<1>1. t \in Seq(ByteRec)
  BY DEF Sendable
<1>2. /\ Len(s) \in Nat /\ Len(t) \in Nat /\ Len(u) = Len(s) + Len(t)
      /\ \A i \in 1 .. Len(s) : u[i] = s[i]
      /\ \A i \in Len(s) + 1 .. Len(s) + Len(t) : u[i] = t[i - Len(s)]
  BY <1>1, Joined
<1>3. \A i \in 1 .. Len(t) :
        /\ t[i].place \in {1, 4} => t[i].byte = "sync"
        /\ t[i].place \in {2, 3} => t[i].byte = "data" /\ t[i].part = t[i].place - 1
        /\ t[i].place \in 1 .. 3 => i < Len(t) /\ t[i + 1].place = t[i].place + 1
        /\ t[i].place = 2 => t[i + 1].of = t[i].of
        /\ t[i].place \in 2 .. 4 => i > 1 /\ t[i - 1].place = t[i].place - 1
  <2>1. CASE \A i \in 1 .. Len(t) : t[i].place = 0
    BY <2>1
  <2>2. CASE t = Frame(c)
    <3>1. /\ Len(t) = 4
          /\ t[1] = [byte |-> "sync", of |-> <<>>, part |-> 0, place |-> 1]
          /\ t[2] = [byte |-> "data", of |-> c, part |-> 1, place |-> 2]
          /\ t[3] = [byte |-> "data", of |-> c, part |-> 2, place |-> 3]
          /\ t[4] = [byte |-> "sync", of |-> <<>>, part |-> 0, place |-> 4]
      BY <2>2, FrameType, Zenon
    <3>. QED  BY <3>1
  <2>. QED  BY <2>1, <2>2 DEF Sendable
<1>. HIDE DEF u
<1>4. SUFFICES ASSUME NEW i \in 1 .. Len(u)
               PROVE  /\ u[i].place \in {1, 4} => u[i].byte = "sync"
                      /\ u[i].place \in {2, 3} => u[i].byte = "data" /\ u[i].part = u[i].place - 1
                      /\ u[i].place \in 1 .. 3 => i < Len(u) /\ u[i + 1].place = u[i].place + 1
                      /\ u[i].place = 2 => u[i + 1].of = u[i].of
                      /\ u[i].place \in 2 .. 4 /\ i > 1 => u[i - 1].place = u[i].place - 1
  BY DEF Framed, u
<1>5. CASE i <= Len(s)
  <2>1. i \in 1 .. Len(s) /\ u[i] = s[i]
    BY <1>2, <1>5
  <2>2. i > 1 => u[i - 1] = s[i - 1]
    BY <1>2, <2>1
  <2>3. i < Len(s) => u[i + 1] = s[i + 1] /\ i < Len(u)
    BY <1>2, <2>1
  <2>4. /\ s[i].place \in {1, 4} => s[i].byte = "sync"
        /\ s[i].place \in {2, 3} => s[i].byte = "data" /\ s[i].part = s[i].place - 1
        /\ s[i].place \in 1 .. 3 => i < Len(s) /\ s[i + 1].place = s[i].place + 1
        /\ s[i].place = 2 => s[i + 1].of = s[i].of
        /\ s[i].place \in 2 .. 4 /\ i > 1 => s[i - 1].place = s[i].place - 1
    BY <2>1 DEF Framed
  <2>5. s[i].place = 2 => s[i].place \in 1 .. 3
    OBVIOUS
  <2>. QED  BY <2>1, <2>2, <2>3, <2>4, <2>5
<1>6. CASE i > Len(s)
  <2>. DEFINE k == i - Len(s)
  <2>1. /\ k \in 1 .. Len(t) /\ u[i] = t[k] /\ (k > 1 => u[i - 1] = t[k - 1])
        /\ k < Len(t) => u[i + 1] = t[k + 1]
        /\ i < Len(u) <=> k < Len(t)
    <3>1. i \in Nat /\ i \in Len(s) + 1 .. Len(s) + Len(t) /\ k \in 1 .. Len(t)
      BY <1>2, <1>6
    <3>2. k > 1 => i - 1 \in Len(s) + 1 .. Len(s) + Len(t) /\ i - 1 - Len(s) = k - 1
      BY <1>2, <3>1
    <3>3. k < Len(t) => i + 1 \in Len(s) + 1 .. Len(s) + Len(t) /\ i + 1 - Len(s) = k + 1
      BY <1>2, <3>1
    <3>4. i < Len(u) <=> k < Len(t)
      BY <1>2, <3>1
    <3>5. u[i] = t[k]
      BY <1>2, <3>1
    <3>. HIDE DEF k
    <3>6. k > 1 => u[i - 1] = t[k - 1]
      <4>. SUFFICES ASSUME k > 1 PROVE u[i - 1] = t[k - 1]
        OBVIOUS
      <4>1. u[i - 1] = t[i - 1 - Len(s)]
        BY <1>2, <3>2
      <4>. QED  BY <3>2, <4>1
    <3>7. k < Len(t) => u[i + 1] = t[k + 1]
      <4>. SUFFICES ASSUME k < Len(t) PROVE u[i + 1] = t[k + 1]
        OBVIOUS
      <4>1. u[i + 1] = t[i + 1 - Len(s)]
        BY <1>2, <3>3
      <4>. QED  BY <3>3, <4>1
    <3>. QED  BY <3>1, <3>4, <3>5, <3>6, <3>7
  <2>. HIDE DEF k
  <2>2. /\ t[k].place \in {1, 4} => t[k].byte = "sync"
        /\ t[k].place \in {2, 3} => t[k].byte = "data" /\ t[k].part = t[k].place - 1
        /\ t[k].place \in 1 .. 3 => k < Len(t) /\ t[k + 1].place = t[k].place + 1
        /\ t[k].place = 2 => t[k + 1].of = t[k].of
        /\ t[k].place \in 2 .. 4 => k > 1 /\ t[k - 1].place = t[k].place - 1
    BY <1>3, <2>1
  <2>3. t[k].place = 2 => t[k].place \in 1 .. 3
    OBVIOUS
  <2>. QED  BY <2>1, <2>2, <2>3
<1>. QED  BY <1>2, <1>5, <1>6

-----------------------------------------------------------------------------
(* Types of what the parser and the acknowledgements use.                  *)

TypeInv ==
    /\ line \in Seq(ByteRec) /\ Len(line) <= LineCap
    /\ packet \in Seq(ByteRec)
    /\ used \in 0 .. Len(line)
    /\ inSync \in BOOLEAN /\ escaped \in BOOLEAN /\ spoilt \in BOOLEAN /\ junk \in BOOLEAN
    /\ seqno \in Ack /\ owes \in Ack \union {None} /\ upsets \in Nat

LEMMA InitType == ASSUME Init PROVE TypeInv
<1>1. 37 % SeqMod \in Ack
  BY SerialForwarderAssumption DEF Ack
<1>2. <<>> \in Seq(ByteRec) /\ Len(<<>>) = 0
  BY EmptySeq
<1>3. line = <<>> /\ packet = <<>> /\ used = 0 /\ seqno = 37 % SeqMod /\ owes = None /\ upsets = 0
  BY DEF Init
<1>4. inSync \in BOOLEAN /\ escaped \in BOOLEAN /\ spoilt \in BOOLEAN /\ junk \in BOOLEAN
  BY DEF Init
<1>. QED  BY <1>1, <1>2, <1>3, <1>4, SerialForwarderAssumption DEF TypeInv

\* A byte that was read leaves the line.
LEMMA ReadByteType ==
    ASSUME TypeInv, ReadByte, used > 0
    PROVE  /\ line # <<>> /\ Latest \in ByteRec /\ Latest = line[1]
           /\ line' \in Seq(ByteRec) /\ Len(line') = Len(line) - 1 /\ Len(line) > 0
           /\ \A i \in 1 .. Len(line') : line'[i] = line[i + 1]
           /\ Len(line) \in Nat /\ used' \in 0 .. Len(line')
           /\ spoilt' \in BOOLEAN /\ junk' \in BOOLEAN
<1>1. Len(line) \in Nat /\ Len(line) > 0 /\ line # <<>>
  <2>1. Len(line) \in Nat
    BY LenProperties DEF TypeInv
  <2>. QED  BY <2>1, EmptySeq DEF TypeInv
<1>2. line' = Tail(line) /\ Latest = Head(line)
  BY DEF ReadByte, Latest
<1>3. /\ Head(line) = line[1] /\ Head(line) \in ByteRec
      /\ Tail(line) \in Seq(ByteRec) /\ Len(Tail(line)) = Len(line) - 1
      /\ \A i \in 1 .. Len(Tail(line)) : Tail(line)[i] = line[i + 1]
  BY <1>1, HeadAndTail DEF TypeInv
<1>4. used' \in 0 .. Len(line) - 1
  BY <1>1 DEF TypeInv, ReadByte
<1>5. spoilt' \in BOOLEAN
  <2>1. CASE Latest.place = 1
    BY <2>1, Zenon DEF ReadByte, TypeInv
  <2>2. CASE Latest.place # 1
    BY <2>2, Zenon DEF ReadByte, TypeInv
  <2>. QED  BY <2>1, <2>2
<1>6. junk' \in BOOLEAN
  BY Zenon DEF ReadByte, TypeInv
<1>. QED  BY <1>1, <1>2, <1>3, <1>4, <1>5, <1>6

LEMMA ReadType == ASSUME TypeInv, Read PROVE TypeInv'
<1>. USE SerialForwarderAssumption
<1>1. used > 0 /\ ReadByte
  BY DEF Read, SeekSync, TooLong, BadSync, Collect, Refuse, TakeAck, TakePacket,
         ReadByte
<1>2. /\ Latest \in ByteRec
      /\ line' \in Seq(ByteRec) /\ Len(line') = Len(line) - 1
      /\ Len(line) \in Nat /\ used' \in 0 .. Len(line')
      /\ spoilt' \in BOOLEAN /\ junk' \in BOOLEAN
  BY <1>1, ReadByteType
<1>3. packet' \in Seq(ByteRec)
  <2>1. CASE Collect
    <3>1. Raw("bad") \in ByteRec
      BY DEF Raw, ByteRec, Byte
    <3>2. \A x \in ByteRec : Append(packet, x) \in Seq(ByteRec)
      BY Added DEF TypeInv
    <3>. QED  BY <1>2, <2>1, <3>1, <3>2 DEF Collect, TypeInv
  <2>2. CASE ~Collect
    <3>1. packet' \in {packet, <<>>}
      BY <2>2, Zenon DEF Read, SeekSync, TooLong, BadSync, Refuse, TakeAck, TakePacket
    <3>2. <<>> \in Seq(ByteRec)
      BY EmptySeq
    <3>. QED  BY <3>1, <3>2 DEF TypeInv
  <2>. QED  BY <2>1, <2>2
<1>4. inSync' \in BOOLEAN
  BY Zenon DEF Read, SeekSync, TooLong, BadSync, Collect, Refuse, TakeAck, TakePacket, TypeInv
<1>5. escaped' \in BOOLEAN
  BY Zenon DEF Read, SeekSync, TooLong, BadSync, Collect, Refuse, TakeAck, TakePacket, TypeInv
<1>6. seqno' = seqno /\ owes' = owes /\ upsets' = upsets
  BY Zenon DEF Read, SeekSync, TooLong, BadSync, Collect, Refuse, TakeAck, TakePacket,
               ReadByte, Stays
<1>. QED  BY <1>2, <1>3, <1>4, <1>5, <1>6 DEF TypeInv

\* All other steps but those of the mote and of the buffer leave the bytes alone.
LEMMA OtherSteps ==
    ASSUME [Next]_vars
    PROVE  \/ Read \/ FillBuffer \/ MoteSpeaks
           \/ UNCHANGED <<line, parserVars>>
<1>1. CASE UNCHANGED vars
  BY <1>1, Zenon DEF vars
<1>2. CASE Start \/ Expire \/ Unplug
  BY <1>2, Zenon DEF Start, Expire, Unplug
<1>3. CASE Forward
  BY <1>3, Zenon DEF Forward, Select, Greet, SendPlatform, Platform, GreetingEnds, NextClient,
                     RemoveClient, ForwardPacket, SourceWait
<1>4. CASE \E c \in Clients : Connect(c) \/ Say(c) \/ FallSilent(c)
  BY <1>4, Zenon DEF Connect, Say, FallSilent
<1>. QED  BY <1>1, <1>2, <1>3, <1>4 DEF Next

LEMMA SpeaksContent ==
    ASSUME TypeInv, MoteSpeaks
    PROVE  \E c \in Content :
              /\ MoteSends(c)
              /\ c = Report \/ (owes # None /\ c = AckOf(owes))
  BY DEF TypeInv, MoteSpeaks, Content

LEMMA StepType == ASSUME TypeInv, [Next]_vars PROVE TypeInv'
<1>. USE SerialForwarderAssumption
<1>1. CASE Read
  BY <1>1, ReadType
<1>2. CASE FillBuffer
  <2>1. used' \in 1 .. Len(line)
    BY <1>2 DEF FillBuffer
  <2>2. UNCHANGED <<line, inSync, escaped, packet, spoilt, junk, seqno, owes>>
    BY <1>2 DEF FillBuffer, writeVars
  <2>3. upsets' \in {upsets, upsets + 1}
    BY <1>2 DEF FillBuffer, Upset
  <2>4. Len(line) \in Nat
    BY LenProperties DEF TypeInv
  <2>. QED  BY <2>1, <2>2, <2>3, <2>4 DEF TypeInv
<1>3. CASE MoteSpeaks
  <2>1. PICK c \in Content : MoteSends(c)
    BY <1>3, SpeaksContent
  <2>2. PICK t \in Seq(ByteRec) : line' = line \o t /\ Len(line') <= LineCap
    BY <2>1, Arrival DEF TypeInv
  <2>3. line' \in Seq(ByteRec) /\ Len(line') >= Len(line) /\ Len(line) \in Nat
    BY <2>2, Joined DEF TypeInv
  <2>4. UNCHANGED <<used, inSync, escaped, packet, spoilt, junk, seqno>>
    BY <2>1 DEF MoteSends, parserVars, writeVars
  <2>5. owes' \in {owes, None} /\ upsets' \in {upsets, upsets + 1}
    BY <2>1 DEF MoteSends, Upset
  <2>6. Len(line') \in Nat
    BY <2>3, LenProperties
  <2>. QED  BY <2>2, <2>3, <2>4, <2>5, <2>6 DEF TypeInv
<1>4. CASE UNCHANGED <<line, parserVars>> /\ ~FillBuffer /\ ~MoteSpeaks /\ ~Read
  <2>1. UNCHANGED <<line, used, inSync, escaped, packet, spoilt, junk>>
    BY <1>4 DEF parserVars
  <2>2. CASE ForwardPacket
    <3>1. seqno' \in Ack
      BY <2>2, Successor DEF ForwardPacket, TypeInv, Ack
    <3>2. owes' \in {owes, seqno'} /\ upsets' \in {upsets, upsets + 1}
      BY <2>2 DEF ForwardPacket, WriteFrame, WriteFails, Upset
    <3>. QED  BY <2>1, <3>1, <3>2 DEF TypeInv
  <2>3. CASE ~ForwardPacket
    <3>1. seqno' = seqno /\ owes' = owes
      <4>1. CASE UNCHANGED vars
        BY <4>1, Zenon DEF vars, writeVars, moteVars
      <4>2. CASE Start \/ Expire \/ Unplug
        BY <4>2, Zenon DEF Start, Expire, Unplug, writeVars, moteVars
      <4>3. CASE Forward
        BY <1>4, <2>3, <4>3, Zenon DEF Forward, Select, Greet, SendPlatform, Platform, GreetingEnds,
               NextClient, RemoveClient, SourceWait, writeVars, moteVars
      <4>4. CASE \E c \in Clients : Connect(c) \/ Say(c) \/ FallSilent(c)
        BY <4>4, Zenon DEF Connect, Say, FallSilent, writeVars, moteVars
      <4>. QED  BY <1>4, <4>1, <4>2, <4>3, <4>4 DEF Next
    <3>2. upsets' \in {upsets, upsets + 1}
      <4>1. CASE UNCHANGED vars
        BY <4>1, Zenon DEF vars, moteVars
      <4>2. CASE Start \/ Expire \/ Unplug
        BY <4>2, Zenon DEF Start, Expire, Unplug, moteVars, Upset
      <4>3. CASE Forward
        BY <1>4, <2>3, <4>3, Zenon DEF Forward, Select, Greet, SendPlatform, Platform, GreetingEnds,
               NextClient, RemoveClient, SourceWait, moteVars
      <4>4. CASE \E c \in Clients : Connect(c) \/ Say(c) \/ FallSilent(c)
        BY <4>4, Zenon DEF Connect, Say, FallSilent, moteVars, Upset
      <4>. QED  BY <1>4, <4>1, <4>2, <4>3, <4>4 DEF Next
    <3>. QED  BY <2>1, <3>1, <3>2 DEF TypeInv
  <2>. QED  BY <2>2, <2>3
<1>. QED  BY <1>1, <1>2, <1>3, <1>4, OtherSteps

-----------------------------------------------------------------------------
(* The parser.                                                             *)

\* The place of the next byte in its frame, 0 when it is in none.
Place == IF line = <<>> THEN 0 ELSE line[1].place

Clean == inSync /\ ~escaped

\* Inside an undamaged frame the parser holds what it has read of it, unless the
\* first SYNC was taken for something else; then it is out of step to its end.
\* Elsewhere it may hold anything only behind damage.
InsideSound ==
    /\ Place \in 2 .. 4 /\ spoilt => ~inSync
    /\ Place \in 2 .. 4 /\ ~spoilt => Clean
    /\ Place = 2 /\ ~spoilt => packet = <<>>
    /\ Place = 3 /\ ~spoilt => Len(packet) = 1 /\ packet[1].part = 1 /\ packet[1].of = line[1].of
    /\ Place = 4 /\ ~spoilt => Good

OutsideSound ==
    /\ Place \notin 2 .. 4 => ~spoilt
    /\ Place \notin 2 .. 4 /\ ~junk => ~inSync \/ (Clean /\ packet = <<>>)
    /\ spoilt => junk

ParserInv == Framed(line) /\ InsideSound /\ OutsideSound

\* The parser moves on by one byte, and with it the place in the frame.
LEMMA PlaceMoves ==
    ASSUME TypeInv, Framed(line), ReadByte, used > 0
    PROVE  /\ line # <<>> /\ Place = Latest.place /\ Latest = line[1] /\ Place \in 0 .. 4
           /\ Framed(line')
           /\ Place \in 1 .. 3 => Place' = Place + 1
           /\ Place \notin 1 .. 3 => Place' \notin 2 .. 4
           /\ Place = 2 => line'[1].of = line[1].of
           /\ Place \in {1, 4} => Latest.byte = "sync"
           /\ Place \in {2, 3} => Latest.byte = "data" /\ Latest.part = Place - 1
<1>1. /\ line # <<>> /\ Latest \in ByteRec /\ Latest = line[1]
      /\ line' \in Seq(ByteRec) /\ Len(line') = Len(line) - 1 /\ Len(line) > 0
      /\ \A i \in 1 .. Len(line') : line'[i] = line[i + 1]
      /\ Len(line) \in Nat
  BY ReadByteType
<1>2. Place = line[1].place /\ Place \in 0 .. 4
  BY <1>1 DEF Place, ByteRec
<1>3. Framed(line')
  BY <1>1, FramedTail DEF ReadByte, TypeInv
<1>4. line' # <<>> <=> Len(line) > 1
  <2>1. line' = <<>> <=> Len(line') = 0
    BY <1>1, EmptySeq
  <2>. QED  BY <1>1, <2>1
<1>5. Place' = IF line' = <<>> THEN 0 ELSE line'[1].place
  BY DEF Place
<1>6. Len(line) > 1 => line'[1] = line[2]
  BY <1>1
<1>7. Place \in 1 .. 3 => Place' = Place + 1
  BY <1>1, <1>2, <1>4, <1>5, <1>6 DEF Framed
<1>8. Place = 2 => line'[1].of = line[1].of
  <2>. SUFFICES ASSUME Place = 2 PROVE line'[1].of = line[1].of
    OBVIOUS
  <2>1. 1 \in 1 .. Len(line) /\ line[1].place = 2
    BY <1>1, <1>2
  <2>2. Len(line) > 1 /\ line[1 + 1].of = line[1].of
    BY <1>1, <2>1 DEF Framed
  <2>. QED  BY <1>6, <2>2
<1>9. Place \notin 1 .. 3 => Place' \notin 2 .. 4
  <2>. SUFFICES ASSUME Place' \in 2 .. 4 PROVE Place \in 1 .. 3
    OBVIOUS
  <2>1. Len(line) > 1 /\ line[2].place \in 2 .. 4
    BY <1>1, <1>4, <1>5, <1>6
  <2>2. 2 \in 1 .. Len(line)
    BY <1>1, <2>1
  <2>3. line[2 - 1].place = line[2].place - 1
    BY <2>1, <2>2 DEF Framed
  <2>. QED  BY <1>2, <2>1, <2>3
<1>10. /\ Place \in {1, 4} => Latest.byte = "sync"
       /\ Place \in {2, 3} => Latest.byte = "data" /\ Latest.part = Place - 1
  BY <1>1, <1>2 DEF Framed
<1>. QED  BY <1>1, <1>2, <1>3, <1>7, <1>8, <1>9, <1>10

\* What the parser makes of a SYNC.
LEMMA AtSync ==
    ASSUME TypeInv, Read, Latest.byte = "sync"
    PROVE  /\ ~inSync => inSync' /\ ~escaped' /\ packet' = <<>>
           /\ inSync /\ ~escaped /\ Len(packet) < Mtu => inSync' /\ ~escaped' /\ packet' = <<>>
           /\ inSync /\ (escaped \/ Len(packet) >= Mtu) => ~inSync'
<1>1. Len(packet) < Mtu <=> ~(Len(packet) >= Mtu)
  BY LenProperties, SerialForwarderAssumption DEF TypeInv
<1>2. CASE SeekSync
  BY <1>2, Zenon DEF SeekSync
<1>3. CASE TooLong
  BY <1>1, <1>3, Zenon DEF TooLong
<1>4. CASE BadSync
  BY <1>1, <1>4, Zenon DEF BadSync, InFrame
<1>5. CASE Collect
  BY <1>5, Zenon DEF Collect
<1>6. CASE Refuse
  BY <1>1, <1>6, Zenon DEF Refuse, FrameEnds, InFrame
<1>7. CASE TakeAck
  BY <1>1, <1>7, Zenon DEF TakeAck, FrameEnds, InFrame
<1>8. CASE TakePacket
  BY <1>1, <1>8, Zenon DEF TakePacket, FrameEnds, InFrame
<1>. QED  BY <1>2, <1>3, <1>4, <1>5, <1>6, <1>7, <1>8 DEF Read

LEMMA ReadSound == ASSUME TypeInv, ParserInv, Read PROVE ParserInv'
<1>. USE SerialForwarderAssumption
<1>1. used > 0 /\ ReadByte
  BY DEF Read, SeekSync, TooLong, BadSync, Collect, Refuse, TakeAck, TakePacket,
         ReadByte
<1>2. /\ line # <<>> /\ Place = Latest.place /\ Latest = line[1] /\ Place \in 0 .. 4
      /\ Framed(line')
      /\ Place \in 1 .. 3 => Place' = Place + 1
      /\ Place \notin 1 .. 3 => Place' \notin 2 .. 4
      /\ Place = 2 => line'[1].of = line[1].of
      /\ Place \in {1, 4} => Latest.byte = "sync"
      /\ Place \in {2, 3} => Latest.byte = "data" /\ Latest.part = Place - 1
  BY <1>1, PlaceMoves DEF ParserInv
<1>3. /\ spoilt' = IF Place = 1 THEN inSync /\ (escaped \/ Len(packet) >= Mtu)
                   ELSE spoilt /\ Place # 4
      /\ junk' = (Place # 4 /\ (junk \/ Place = 0))
  BY <1>1, <1>2 DEF ReadByte
<1>4. Len(packet) \in Nat /\ Latest \in ByteRec
  BY <1>1, LenProperties, ReadByteType DEF TypeInv
<1>5. CASE Place = 1
  <2>1. Place' = 2 /\ Latest.byte = "sync" /\ ~spoilt
    BY <1>2, <1>5 DEF ParserInv, OutsideSound
  <2>2. spoilt' <=> inSync /\ (escaped \/ Len(packet) >= Mtu)
    BY <1>3, <1>5
  <2>3. CASE spoilt'
    <3>1. ~inSync'
      BY <2>1, <2>2, <2>3, AtSync
    <3>2. junk'
      <4>1. CASE junk
        <5>1. Place # 4
          BY <1>5
        <5>. QED  BY <1>3, <4>1, <5>1, Zenon
      <4>2. CASE ~junk
        <5>1. inSync /\ ~escaped /\ packet = <<>>
          BY <1>5, <2>2, <2>3, <4>2 DEF ParserInv, OutsideSound, Clean
        <5>2. Len(packet) = 0
          BY <5>1, EmptySeq
        <5>. QED  BY <2>2, <2>3, <5>1, <5>2
      <4>. QED  BY <4>1, <4>2
    <3>. QED  BY <1>2, <2>1, <2>3, <3>1, <3>2 DEF ParserInv, InsideSound, OutsideSound
  <2>4. CASE ~spoilt'
    <3>1. inSync' /\ packet' = <<>> /\ ~escaped'
      <4>1. CASE inSync
        <5>1. ~escaped /\ Len(packet) < Mtu
          BY <1>4, <2>2, <2>4, <4>1
        <5>. QED  BY <2>1, <4>1, <5>1, AtSync
      <4>2. CASE ~inSync
        BY <2>1, <4>2, AtSync
      <4>. QED  BY <4>1, <4>2
    <3>. QED  BY <1>2, <2>1, <2>4, <3>1 DEF ParserInv, InsideSound, OutsideSound, Clean
  <2>. QED  BY <2>3, <2>4
<1>6. CASE Place \in {2, 3}
  <2>1. /\ Place' = Place + 1 /\ Latest.byte = "data" /\ Latest.part = Place - 1
        /\ spoilt' = spoilt /\ junk' = junk
    <3>1. Place # 1 /\ Place # 4 /\ Place # 0 /\ Place \in 1 .. 3
      BY <1>6
    <3>2. spoilt' = spoilt
      <4>1. spoilt' = (spoilt /\ Place # 4)
        BY <1>3, <3>1, Zenon
      <4>. QED  BY <3>1, <4>1, Zenon DEF TypeInv
    <3>3. junk' = junk
      BY <1>3, <3>1, Zenon DEF TypeInv
    <3>. QED  BY <1>2, <1>6, <3>1, <3>2, <3>3
  <2>2. CASE spoilt
    <3>1. ~inSync
      BY <1>6, <2>2 DEF ParserInv, InsideSound
    <3>2. ~inSync'
      BY <2>1, <3>1 DEF Read, SeekSync, TooLong, BadSync, Collect, Refuse,
                  TakeAck, TakePacket, InFrame, FrameEnds
    <3>. QED  BY <1>2, <1>6, <2>1, <2>2, <3>2 DEF ParserInv, InsideSound, OutsideSound
  <2>3. CASE ~spoilt
    <3>1. /\ inSync /\ ~escaped
          /\ Len(packet) = Place - 2
      <4>1. Place = 2 => Len(packet) = 0
        BY <2>3, EmptySeq DEF ParserInv, InsideSound
      <4>2. Place = 3 => Len(packet) = 1
        BY <2>3 DEF ParserInv, InsideSound
      <4>3. inSync /\ ~escaped
        BY <1>6, <2>3 DEF ParserInv, InsideSound, Clean
      <4>4. Len(packet) = Place - 2
        <5>1. CASE Place = 2
          BY <4>1, <5>1
        <5>2. CASE Place = 3
          BY <4>2, <5>2
        <5>. QED  BY <1>6, <5>1, <5>2
      <4>. QED  BY <4>3, <4>4
    <3>2. Collect
      BY <1>1, <1>6, <2>1, <3>1 DEF Read, SeekSync, TooLong, BadSync, Refuse,
                  TakeAck, TakePacket, InFrame, FrameEnds
    <3>3. ~escaped' /\ inSync' /\ packet' = Append(packet, Latest)
      BY <2>1, <3>1, <3>2 DEF Collect
    <3>4. /\ Len(packet') = Len(packet) + 1
          /\ \A i \in 1 .. Len(packet) : packet'[i] = packet[i]
          /\ packet'[Len(packet) + 1] = Latest
      BY <1>4, <3>3, Added DEF TypeInv
    <3>5. CASE Place = 2
      <4>1. /\ Len(packet') = 1 /\ packet'[1] = Latest /\ Latest.part = 1
            /\ line'[1].of = Latest.of
        BY <1>2, <2>1, <3>1, <3>4, <3>5
      <4>. QED  BY <1>2, <2>1, <2>3, <3>3, <3>5, <4>1 DEF ParserInv, InsideSound, OutsideSound, Clean
    <3>6. CASE Place = 3
      <4>1. packet[1].part = 1 /\ packet[1].of = Latest.of /\ Len(packet) = 1
        BY <1>2, <2>3, <3>6 DEF ParserInv, InsideSound
      <4>2. /\ Len(packet') = 2 /\ packet'[1] = packet[1] /\ packet'[2] = Latest
            /\ Latest.part = 2
        BY <2>1, <3>4, <3>6, <4>1
      <4>3. Good'
        BY <4>1, <4>2 DEF Good
      <4>. QED  BY <1>2, <2>1, <2>3, <3>3, <3>6, <4>3 DEF ParserInv, InsideSound, OutsideSound, Clean
    <3>. QED  BY <1>6, <3>5, <3>6
  <2>. QED  BY <2>2, <2>3
<1>7. CASE Place = 4
  <2>1. Place' \notin 2 .. 4 /\ Latest.byte = "sync" /\ ~spoilt' /\ ~junk'
    <3>1. Place # 1 /\ Place \notin 1 .. 3 /\ Place \in {1, 4}
      BY <1>7
    <3>2. ~spoilt'
      <4>1. spoilt' = (spoilt /\ Place # 4)
        BY <1>3, <3>1, Zenon
      <4>. QED  BY <1>7, <4>1, Zenon
    <3>3. ~junk'
      BY <1>3, <1>7, Zenon
    <3>. QED  BY <1>2, <3>1, <3>2, <3>3, Zenon
  <2>2. inSync' /\ ~escaped' /\ packet' = <<>>
    <3>1. CASE spoilt
      <4>1. ~inSync
        BY <1>7, <3>1 DEF ParserInv, InsideSound
      <4>. QED  BY <2>1, <4>1, AtSync
    <3>2. CASE ~spoilt
      <4>1. inSync /\ ~escaped /\ Len(packet) = 2
        BY <1>7, <3>2 DEF ParserInv, InsideSound, Clean, Good
      <4>2. Len(packet) < Mtu
        BY <4>1
      <4>. QED  BY <2>1, <4>1, <4>2, AtSync
    <3>. QED  BY <3>1, <3>2
  <2>. QED  BY <1>2, <2>1, <2>2 DEF ParserInv, InsideSound, OutsideSound, Clean
<1>8. CASE Place = 0
  <2>1. Place' \notin 2 .. 4 /\ ~spoilt' /\ junk'
    <3>1. Place # 1 /\ Place # 4 /\ Place \notin 1 .. 3 /\ Place \notin 2 .. 4
      BY <1>8
    <3>2. ~spoilt
      BY <3>1, Zenon DEF ParserInv, OutsideSound
    <3>3. ~spoilt'
      <4>1. spoilt' = (spoilt /\ Place # 4)
        BY <1>3, <3>1, Zenon
      <4>. QED  BY <3>2, <4>1, Zenon
    <3>4. junk'
      BY <1>3, <1>8, <3>1, Zenon
    <3>. QED  BY <1>2, <3>1, <3>3, <3>4, Zenon
  <2>. QED  BY <1>2, <2>1 DEF ParserInv, InsideSound, OutsideSound
<1>. QED  BY <1>2, <1>5, <1>6, <1>7, <1>8

LEMMA ParserSound == ASSUME TypeInv, ParserInv, [Next]_vars PROVE ParserInv'
<1>1. CASE Read
  BY <1>1, ReadSound
<1>2. CASE FillBuffer
  <2>1. UNCHANGED <<line, inSync, escaped, packet, spoilt, junk>>
    BY <1>2 DEF FillBuffer
  <2>. QED  BY <2>1 DEF ParserInv, InsideSound, OutsideSound, Place, Clean, Good
<1>3. CASE MoteSpeaks
  <2>1. PICK c \in Content : MoteSends(c)
    BY <1>3, SpeaksContent
  <2>2. PICK t \in Seq(ByteRec) : Sendable(c, t) /\ line' = line \o t
    BY <2>1, Arrival DEF TypeInv
  <2>3. Framed(line')
    BY <2>2, FramedJoined DEF TypeInv, ParserInv
  <2>4. UNCHANGED <<inSync, escaped, packet, spoilt, junk>>
    BY <2>1 DEF MoteSends, parserVars
  <2>5. CASE line # <<>>
    <3>1. line' # <<>> /\ line'[1] = line[1]
      <4>1. Len(line) > 0 /\ Len(line) \in Nat
        BY <2>5, EmptySeq, LenProperties DEF TypeInv
      <4>2. /\ line' \in Seq(ByteRec) /\ Len(line') = Len(line) + Len(t) /\ Len(t) \in Nat
            /\ \A i \in 1 .. Len(line) : line'[i] = line[i]
        BY <2>2, Joined DEF TypeInv
      <4>3. Len(line') # 0
        BY <4>1, <4>2
      <4>. QED  BY <4>1, <4>2, <4>3, EmptySeq
    <3>2. Place' = Place
      BY <2>5, <3>1 DEF Place
    <3>. QED  BY <2>3, <2>4, <3>1, <3>2 DEF ParserInv, InsideSound, OutsideSound, Clean, Good
  <2>6. CASE line = <<>>
    <3>1. line' = t
      BY <2>2, <2>6, ConcatEmptySeq
    <3>2. Place' \notin 2 .. 4 /\ Place = 0
      <4>1. CASE t = Frame(c)
        <5>1. t[1].place = 1 /\ Len(t) = 4
          <6>1. Len(t) = 4 /\ t[1] = [byte |-> "sync", of |-> <<>>, part |-> 0, place |-> 1]
            BY <4>1, FrameType, Zenon
          <6>. QED  BY <6>1
        <5>. QED  BY <2>6, <3>1, <5>1 DEF Place
      <4>2. CASE \A i \in 1 .. Len(t) : t[i].place = 0
        <5>1. t # <<>> => t[1].place = 0
          BY <4>2, EmptySeq, LenProperties
        <5>. QED  BY <2>6, <3>1, <5>1 DEF Place
      <4>. QED  BY <2>2, <4>1, <4>2 DEF Sendable
    <3>. QED  BY <2>3, <2>4, <3>2 DEF ParserInv, InsideSound, OutsideSound, Clean, Good
  <2>. QED  BY <2>5, <2>6
<1>4. CASE UNCHANGED <<line, parserVars>>
  BY <1>4 DEF parserVars, ParserInv, InsideSound, OutsideSound, Place, Clean, Good
<1>. QED  BY <1>1, <1>2, <1>3, <1>4, OtherSteps

LEMMA InitParser == ASSUME Init PROVE ParserInv
<1>1. line = <<>> /\ Len(<<>>) = 0 /\ ~spoilt /\ ~junk /\ ~inSync
  BY EmptySeq DEF Init
<1>. QED  BY <1>1 DEF ParserInv, Framed, InsideSound, OutsideSound, Place

LEMMA ParserTakes == ASSUME TypeInv, ParserInv PROVE IntactFramesTaken
<1>1. ASSUME used > 0, Latest.place = 4, ~spoilt PROVE FrameEnds /\ Good
  <2>1. Len(line) \in Nat /\ Len(line) > 0
    BY <1>1, LenProperties DEF TypeInv
  <2>2. line # <<>>
    BY <2>1, EmptySeq
  <2>3. Latest = line[1] /\ Place = 4
    BY <1>1, <2>2, HeadAndTail DEF TypeInv, Latest, Place
  <2>4. inSync /\ ~escaped /\ Good
    BY <1>1, <2>3 DEF ParserInv, InsideSound, Clean
  <2>5. Len(packet) < Mtu
    BY <2>4, SerialForwarderAssumption DEF Good
  <2>6. Latest.byte = "sync"
    BY <1>1, <2>1, <2>3 DEF ParserInv, Framed
  <2>. QED  BY <1>1, <2>4, <2>5, <2>6 DEF FrameEnds, InFrame
<1>2. spoilt => junk
  BY DEF ParserInv, OutsideSound
<1>. QED  BY <1>1, <1>2 DEF IntactFramesTaken

LEMMA ParserInvariance == Spec => [](TypeInv /\ ParserInv)
<1>1. Init => TypeInv /\ ParserInv
  BY InitType, InitParser
<1>2. TypeInv /\ ParserInv /\ [Next]_vars => (TypeInv /\ ParserInv)'
  BY StepType, ParserSound
<1>. QED  BY <1>1, <1>2, PTL DEF Spec

\* Whatever the line did before, the parser takes every undamaged frame the first
\* SYNC of which it did not take for something else, and it takes only one that
\* comes directly behind damage for something else (read_and_process).
THEOREM EveryWholeFrameTaken == Spec => []IntactFramesTaken
<1>1. TypeInv /\ ParserInv => IntactFramesTaken
  BY ParserTakes
<1>. QED  BY <1>1, ParserInvariance, PTL

-----------------------------------------------------------------------------
(* Acknowledgements.                                                       *)

\* The disturbances, each of which may leave one acknowledgement behind, and the
\* frames that wait on the line are fewer than the numbers.
Few == 3 * (upsets + 1) + LineCap <= 3 * SeqMod

\* How many writes ago a number was given out, if less than SeqMod ago.
Age(n) == IF n <= seqno THEN seqno - n ELSE seqno - n + SeqMod

\* Bytes of the packet being read that the present write has consumed.
Slack == IF pc = "read" /\ Len(packet) < 3 THEN 3 - Len(packet) ELSE 0

Resting ==
    /\ pc # "read" => packet = <<>>
    /\ pc = "packet" => result = "none"
    /\ result = "acked" => reached

\* What the mote still owes was written at most so many writes ago as there were
\* disturbances.
OwedYoung == pc # "exit" => \A n \in Ack : owes = n => Age(n) <= upsets

\* An acknowledgement on the line is the younger the further back it is: each
\* write that ends takes a frame, and three bytes at least.
LineYoung ==
    pc # "exit" => \A n \in Ack : \A i \in 1 .. Len(line) :
        line[i].of = AckOf(n) => 3 * Age(n) + i <= 3 * upsets + LineCap + Slack

\* While a packet is written that has not reached the mote, nothing anywhere
\* bears its number.
NoImpostor ==
    pc \in {"read", "wait"} /\ ~reached =>
        /\ owes # seqno
        /\ \A i \in 1 .. Len(line) : line[i].of # AckOf(seqno)
        /\ \A i \in 1 .. Len(packet) : packet[i].of # AckOf(seqno)

AckInv == Resting /\ OwedYoung /\ LineYoung /\ NoImpostor

LEMMA InitAck == ASSUME Init PROVE AckInv
<1>1. line = <<>> /\ Len(<<>>) = 0 /\ owes = None /\ pc = "unborn" /\ result = "none" /\ packet = <<>>
  BY EmptySeq DEF Init
<1>2. None \notin Ack
  BY SerialForwarderAssumption
<1>. QED  BY <1>1, <1>2 DEF AckInv, Resting, OwedYoung, LineYoung, NoImpostor

LEMMA AckOfIsOne == \A m, n : AckOf(m) = AckOf(n) => m = n
  BY DEF AckOf

LEMMA ReadAck == ASSUME TypeInv, AckInv, Read PROVE AckInv'
<1>. USE SerialForwarderAssumption
<1>1. used > 0 /\ ReadByte /\ pc = "read"
  BY DEF Read, SeekSync, TooLong, BadSync, Collect, Refuse, TakeAck, TakePacket,
         ReadByte
<1>2. /\ Latest \in ByteRec /\ Latest = line[1]
      /\ Len(line') = Len(line) - 1 /\ Len(line) > 0 /\ Len(line) \in Nat
      /\ \A i \in 1 .. Len(line') : line'[i] = line[i + 1]
  BY <1>1, ReadByteType
<1>3. /\ seqno' = seqno /\ upsets' = upsets /\ reached' = reached /\ owes' = owes
  BY Zenon DEF Read, SeekSync, TooLong, BadSync, Collect, Refuse, TakeAck, TakePacket,
               ReadByte, Stays
<1>4. Len(packet) \in Nat
  BY LenProperties DEF TypeInv
<1>5. \/ packet' = <<>> /\ pc' = "read" /\ result' = result
      \/ packet' = packet /\ pc' = "read" /\ result' = result
      \/ /\ packet' \in {Append(packet, Latest), Append(packet, Raw("bad"))}
         /\ pc' = "read" /\ result' = result
      \/ packet' = <<>> /\ Len(packet) = 2 /\ pc' = "wait" /\ result' = result
      \/ /\ packet' = <<>> /\ Len(packet) = 2 /\ pc' = "clients"
         /\ result' = "acked" /\ packet[1].of = AckOf(seqno)
  BY <1>1, Zenon DEF Read, SeekSync, TooLong, BadSync, Collect, Refuse, TakeAck, TakePacket,
               Stays, Returns, Good
<1>6. Slack' >= Slack - 1 /\ Slack \in Nat /\ Slack' \in Nat
  <2>1. Len(<<>>) = 0
    BY EmptySeq
  <2>2. \A x \in ByteRec : Len(Append(packet, x)) = Len(packet) + 1
    BY Added DEF TypeInv
  <2>3. Raw("bad") \in ByteRec
    BY DEF Raw, ByteRec, Byte
  <2>4. packet' # <<>> => Len(packet') <= Len(packet) + 1 /\ Len(packet') \in Nat /\ pc' = "read"
    BY <1>2, <1>4, <1>5, <2>2, <2>3
  <2>5. packet' = <<>> => Len(packet') = 0
    BY <2>1
  <2>6. Slack = IF Len(packet) < 3 THEN 3 - Len(packet) ELSE 0
    BY <1>1 DEF Slack
  <2>7. Slack' = IF pc' = "read" /\ Len(packet') < 3 THEN 3 - Len(packet') ELSE 0
    BY DEF Slack
  <2>8. CASE packet' = <<>>
    <3>1. pc' = "read" \/ Len(packet) = 2
      BY <1>5
    <3>. QED  BY <1>4, <2>5, <2>6, <2>7, <2>8, <3>1, SMTT(30)
  <2>9. CASE packet' # <<>>
    BY <1>4, <2>4, <2>6, <2>7, <2>9
  <2>. QED  BY <2>8, <2>9
<1>7. LineYoung'
  <2>. SUFFICES ASSUME NEW n \in Ack, NEW i \in 1 .. Len(line'), line'[i].of = AckOf(n)
                PROVE  3 * (Age(n))' + i <= 3 * upsets' + LineCap + Slack'
    BY DEF LineYoung, AckOf
  <2>1. i + 1 \in 1 .. Len(line) /\ line[i + 1].of = AckOf(n) /\ i \in Nat
    BY <1>2
  <2>2. 3 * Age(n) + (i + 1) <= 3 * upsets + LineCap + Slack
    BY <1>1, <2>1 DEF AckInv, LineYoung
  <2>3. (Age(n))' = Age(n) /\ Age(n) \in Int
    BY <1>3 DEF Age, TypeInv, Ack
  <2>4. upsets \in Nat /\ LineCap \in Nat
    BY DEF TypeInv
  <2>. QED  BY <1>3, <1>6, <2>1, <2>2, <2>3, <2>4
<1>8. OwedYoung'
  BY <1>1, <1>3 DEF AckInv, OwedYoung, Age
<1>9. Resting'
  <2>1. 1 \in 1 .. Len(packet) /\ packet[1].of = AckOf(seqno) => reached
    BY <1>1 DEF AckInv, NoImpostor
  <2>2. result' = "acked" => reached
    BY <1>4, <1>5, <2>1 DEF AckInv, Resting
  <2>3. pc' # "read" => packet' = <<>>
    BY <1>5
  <2>4. pc' # "packet"
    BY <1>5
  <2>. QED  BY <1>3, <2>2, <2>3, <2>4 DEF Resting
<1>10. NoImpostor'
  <2>. SUFFICES ASSUME pc' \in {"read", "wait"}, ~reached
                PROVE  /\ owes # seqno
                       /\ \A i \in 1 .. Len(line') : line'[i].of # AckOf(seqno)
                       /\ \A i \in 1 .. Len(packet') : packet'[i].of # AckOf(seqno)
    BY <1>3 DEF NoImpostor, AckOf
  <2>1. /\ owes # seqno
        /\ \A i \in 1 .. Len(line) : line[i].of # AckOf(seqno)
        /\ \A i \in 1 .. Len(packet) : packet[i].of # AckOf(seqno)
    BY <1>1 DEF AckInv, NoImpostor
  <2>2. \A i \in 1 .. Len(line') : line'[i].of # AckOf(seqno)
    BY <1>2, <2>1
  <2>3. Latest.of # AckOf(seqno) /\ Raw("bad").of # AckOf(seqno)
    <3>1. Latest.of # AckOf(seqno)
      BY <1>2, <2>1
    <3>2. Raw("bad").of = <<>> /\ <<>> # AckOf(seqno)
      BY DEF Raw, AckOf
    <3>. QED  BY <3>1, <3>2
  <2>4. \A i \in 1 .. Len(packet') : packet'[i].of # AckOf(seqno)
    <3>1. CASE packet' = <<>>
      BY <3>1, EmptySeq
    <3>2. CASE packet' = packet
      BY <2>1, <3>2
    <3>3. ASSUME NEW x \in {Latest, Raw("bad")}, packet' = Append(packet, x)
          PROVE  \A i \in 1 .. Len(packet') : packet'[i].of # AckOf(seqno)
      <4>1. x \in ByteRec /\ x.of # AckOf(seqno)
        <5>1. Raw("bad") \in ByteRec
          BY DEF Raw, ByteRec, Byte
        <5>. QED  BY <1>2, <2>3, <5>1
      <4>2. /\ Len(packet') = Len(packet) + 1
            /\ \A i \in 1 .. Len(packet) : packet'[i] = packet[i]
            /\ packet'[Len(packet) + 1] = x
        BY <3>3, <4>1, Added DEF TypeInv
      <4>. QED  BY <1>4, <2>1, <4>1, <4>2
    <3>. QED  BY <1>5, <3>1, <3>2, <3>3
  <2>. QED  BY <2>1, <2>2, <2>4
<1>. QED  BY <1>7, <1>8, <1>9, <1>10 DEF AckInv

LEMMA AgeAgain ==
    ASSUME TypeInv, seqno' = (seqno + 1) % SeqMod, NEW n \in Ack
    PROVE  /\ Age(n) \in 0 .. SeqMod - 1
           /\ n = seqno' => Age(n) = SeqMod - 1
           /\ n # seqno' => (Age(n))' = Age(n) + 1
           /\ n = seqno' => (Age(n))' = 0
<1>1. seqno' = IF seqno + 1 = SeqMod THEN 0 ELSE seqno + 1
  BY Successor, SerialForwarderAssumption DEF TypeInv, Ack
<1>2. seqno \in 0 .. SeqMod - 1 /\ n \in 0 .. SeqMod - 1 /\ SeqMod \in Nat \ {0}
  BY SerialForwarderAssumption DEF TypeInv, Ack
<1>3. (Age(n))' = IF n <= seqno' THEN seqno' - n ELSE seqno' - n + SeqMod
  BY DEF Age
<1>. QED  BY <1>1, <1>2, <1>3 DEF Age

LEMMA ForwardAck == ASSUME TypeInv, AckInv, Few, ForwardPacket PROVE AckInv'
<1>. USE SerialForwarderAssumption
<1>1. /\ pc = "packet" /\ result = "none" /\ packet = <<>>
      /\ line' = line /\ packet' = packet /\ result' = result
      /\ seqno' = (seqno + 1) % SeqMod
  BY DEF ForwardPacket, AckInv, Resting, parserVars
<1>2. \/ reached' = TRUE /\ owes' = seqno' /\ upsets' = upsets /\ pc' = "read"
      \/ reached' = FALSE /\ owes' = owes /\ upsets' = upsets + 1 /\ pc' = "read"
      \/ reached' = reached /\ owes' = owes /\ upsets' = upsets /\ pc' = "exit"
  BY DEF ForwardPacket, WriteFrame, WriteFails, Upset
<1>3. \A n \in Ack : /\ Age(n) \in 0 .. SeqMod - 1
                     /\ n = seqno' => Age(n) = SeqMod - 1
                     /\ n # seqno' => (Age(n))' = Age(n) + 1
                     /\ n = seqno' => (Age(n))' = 0
  BY <1>1, AgeAgain
<1>4. seqno' \in Ack /\ upsets \in Nat /\ Len(line) \in Nat
  BY <1>1, Successor, LenProperties DEF TypeInv, Ack
\* A number that is given out again is neither owed nor on the line.
<1>5. owes # seqno'
  <2>. SUFFICES ASSUME owes = seqno' PROVE FALSE
    OBVIOUS
  <2>1. Age(seqno') = SeqMod - 1 /\ Age(seqno') <= upsets
    BY <1>1, <1>3, <1>4 DEF AckInv, OwedYoung
  <2>. QED  BY <1>4, <2>1 DEF Few
<1>6. \A i \in 1 .. Len(line) : line[i].of # AckOf(seqno')
  <2>. SUFFICES ASSUME NEW i \in 1 .. Len(line), line[i].of = AckOf(seqno') PROVE FALSE
    OBVIOUS
  <2>1. 3 * Age(seqno') + i <= 3 * upsets + LineCap + Slack /\ Age(seqno') = SeqMod - 1
    BY <1>1, <1>3, <1>4 DEF AckInv, LineYoung
  <2>2. Slack = 0
    BY <1>1 DEF Slack
  <2>. QED  BY <1>4, <2>1, <2>2 DEF Few
<1>7. OwedYoung'
  <2>. SUFFICES ASSUME NEW n \in Ack, owes' = n, pc' = "read"
                PROVE  (Age(n))' <= upsets'
    BY <1>2 DEF OwedYoung
  <2>1. CASE owes' = seqno' /\ upsets' = upsets
    BY <1>3, <1>4, <2>1
  <2>2. CASE owes' = owes /\ upsets' = upsets + 1
    <3>1. Age(n) <= upsets /\ n # seqno'
      BY <1>1, <1>5, <2>2 DEF AckInv, OwedYoung
    <3>. QED  BY <1>3, <1>4, <2>2, <3>1
  <2>. QED  BY <1>2, <2>1, <2>2
<1>8. LineYoung'
  <2>. SUFFICES ASSUME NEW n \in Ack, NEW i \in 1 .. Len(line), line[i].of = AckOf(n), pc' = "read"
                PROVE  3 * (Age(n))' + i <= 3 * upsets' + LineCap + Slack'
    BY <1>1, <1>2 DEF LineYoung, AckOf
  <2>1. n # seqno'
    BY <1>6
  <2>2. 3 * Age(n) + i <= 3 * upsets + LineCap + Slack
    BY <1>1 DEF AckInv, LineYoung
  <2>3. Slack = 0 /\ Slack' = 3
    <3>1. Len(packet') = 0
      BY <1>1, EmptySeq
    <3>. QED  BY <1>1, <3>1 DEF Slack
  <2>4. upsets' >= upsets /\ upsets' \in Nat
    BY <1>2, <1>4
  <2>5. (Age(n))' = Age(n) + 1 /\ Age(n) \in Int /\ i \in Int
    <3>1. i \in Int
      BY <1>4
    <3>. QED  BY <1>3, <2>1, <3>1
  <2>6. LineCap \in Nat /\ upsets \in Nat
    BY <1>4
  <2>. QED  BY <2>2, <2>3, <2>4, <2>5, <2>6, SMTT(30)
<1>9. NoImpostor'
  <2>1. Len(packet') = 0
    BY <1>1, EmptySeq
  <2>2. ~reached' /\ pc' \in {"read", "wait"} => owes' # seqno'
    BY <1>2, <1>5
  <2>. QED  BY <1>1, <1>6, <2>1, <2>2 DEF NoImpostor, AckOf
<1>10. Resting'
  BY <1>1, <1>2 DEF Resting
<1>. QED  BY <1>7, <1>8, <1>9, <1>10 DEF AckInv

LEMMA SpeaksAck == ASSUME TypeInv, AckInv, MoteSpeaks PROVE AckInv'
<1>. USE SerialForwarderAssumption
<1>1. PICK c \in Content : MoteSends(c) /\ (c = Report \/ (owes # None /\ c = AckOf(owes)))
  BY SpeaksContent
<1>2. PICK t \in Seq(ByteRec) : Sendable(c, t) /\ line' = line \o t /\ Len(line') <= LineCap
  BY <1>1, Arrival DEF TypeInv
<1>3. /\ Len(line) \in Nat /\ Len(t) \in Nat /\ Len(line') = Len(line) + Len(t)
      /\ \A i \in 1 .. Len(line) : line'[i] = line[i]
      /\ \A i \in Len(line) + 1 .. Len(line) + Len(t) : line'[i] = t[i - Len(line)]
  BY <1>2, Joined DEF TypeInv
<1>4. UNCHANGED <<pc, packet, seqno, result, reached>>
  BY <1>1 DEF MoteSends, parserVars, writeVars
<1>5. owes' \in {owes, None} /\ upsets' \in {upsets, upsets + 1} /\ upsets' >= upsets
  BY <1>1 DEF MoteSends, Upset, TypeInv
<1>6. \A n : \A i \in 1 .. Len(line') :
        line'[i].of = AckOf(n) => (i \in 1 .. Len(line) /\ line[i].of = AckOf(n)) \/ owes = n
  <2>. SUFFICES ASSUME NEW n, NEW i \in 1 .. Len(line'), line'[i].of = AckOf(n), i > Len(line)
                PROVE  owes = n
    BY <1>3
  <2>. DEFINE k == i - Len(line)
  <2>1. k \in 1 .. Len(t) /\ line'[i] = t[k]
    <3>1. i \in Len(line) + 1 .. Len(line) + Len(t)
      BY <1>3
    <3>2. line'[i] = t[i - Len(line)]
      BY <1>3, <3>1
    <3>. QED  BY <1>3, <3>1, <3>2
  <2>. HIDE DEF k
  <2>2. t[k].of \in {c, <<>>}
    BY <1>2, <2>1 DEF Sendable
  <2>3. <<>> # AckOf(n) /\ Report # AckOf(n)
    BY DEF AckOf, Report
  <2>. QED  BY <1>1, <2>1, <2>2, <2>3, AckOfIsOne
<1>7. \A n \in Ack : (Age(n))' = Age(n) /\ Age(n) \in Int
  BY <1>4 DEF Age, TypeInv, Ack
<1>8. Slack' = Slack /\ Slack \in Nat
  BY <1>4, LenProperties DEF Slack, TypeInv
<1>13. upsets \in Nat /\ upsets' \in Nat /\ LineCap \in Nat
  BY <1>5 DEF TypeInv
<1>9. LineYoung'
  <2>. SUFFICES ASSUME NEW n \in Ack, NEW i \in 1 .. Len(line'), line'[i].of = AckOf(n), pc # "exit"
                PROVE  3 * Age(n) + i <= 3 * upsets' + LineCap + Slack
    BY <1>4, <1>7, <1>8 DEF LineYoung, AckOf
  <2>1. CASE i \in 1 .. Len(line) /\ line[i].of = AckOf(n)
    <3>1. 3 * Age(n) + i <= 3 * upsets + LineCap + Slack
      BY <2>1 DEF AckInv, LineYoung
    <3>2. Age(n) \in Int /\ i \in Int
      BY <1>3, <1>7
    <3>. QED  BY <1>5, <1>8, <1>13, <3>1, <3>2, SMTT(30)
  <2>2. CASE owes = n
    <3>1. Age(n) <= upsets
      BY <2>2 DEF AckInv, OwedYoung
    <3>2. i <= LineCap /\ i \in Nat
      BY <1>2, <1>3
    <3>3. Age(n) \in Int
      BY <1>7
    <3>. QED  BY <1>5, <1>8, <1>13, <3>1, <3>2, <3>3, SMTT(30)
  <2>. QED  BY <1>6, <2>1, <2>2
<1>10. OwedYoung'
  <2>. SUFFICES ASSUME pc # "exit", NEW n \in Ack, owes' = n PROVE Age(n) <= upsets'
    BY <1>4, <1>7 DEF OwedYoung
  <2>1. owes = n
    BY <1>5
  <2>2. Age(n) <= upsets
    BY <2>1 DEF AckInv, OwedYoung
  <2>. QED  BY <1>5, <1>7, <2>2 DEF TypeInv
<1>11. NoImpostor'
  <2>. SUFFICES ASSUME pc \in {"read", "wait"}, ~reached
                PROVE  /\ owes' # seqno
                       /\ \A i \in 1 .. Len(line') : line'[i].of # AckOf(seqno)
                       /\ \A i \in 1 .. Len(packet) : packet[i].of # AckOf(seqno)
    BY <1>4 DEF NoImpostor, AckOf
  <2>1. /\ owes # seqno
        /\ \A i \in 1 .. Len(line) : line[i].of # AckOf(seqno)
        /\ \A i \in 1 .. Len(packet) : packet[i].of # AckOf(seqno)
    BY DEF AckInv, NoImpostor
  <2>2. owes' # seqno
    BY <1>5, <2>1 DEF TypeInv
  <2>. QED  BY <1>6, <2>1, <2>2
<1>12. Resting'
  BY <1>4 DEF AckInv, Resting
<1>. QED  BY <1>9, <1>10, <1>11, <1>12 DEF AckInv

\* The loop of the forwarder moves on.
LEMMA MovesAck ==
    ASSUME TypeInv, AckInv, UNCHANGED <<line, packet, seqno, owes>>, upsets' >= upsets, upsets' \in Nat,
           pc = "read" => pc' = "read",
           pc' = "packet" => result' = "none",
           result' = "acked" => reached',
           pc' # "exit" => pc # "exit",
           pc' \in {"read", "wait"} => pc \in {"read", "wait"} /\ reached' = reached
    PROVE  AckInv'
<1>. USE SerialForwarderAssumption
<1>1. \A n \in Ack : (Age(n))' = Age(n) /\ Age(n) \in Int
  BY DEF Age, TypeInv, Ack
<1>2. Slack \in Nat /\ Slack' \in Nat /\ Slack' >= Slack
  BY LenProperties DEF Slack, TypeInv
<1>3. Resting'
  BY DEF AckInv, Resting
<1>4. OwedYoung'
  <2>. SUFFICES ASSUME pc' # "exit", NEW n \in Ack, owes = n PROVE Age(n) <= upsets'
    BY <1>1 DEF OwedYoung
  <2>1. Age(n) <= upsets
    BY DEF AckInv, OwedYoung
  <2>. QED  BY <1>1, <2>1 DEF TypeInv
<1>5. LineYoung'
  <2>. SUFFICES ASSUME pc' # "exit", NEW n \in Ack, NEW i \in 1 .. Len(line), line[i].of = AckOf(n)
                PROVE  3 * Age(n) + i <= 3 * upsets' + LineCap + Slack'
    BY <1>1 DEF LineYoung, AckOf
  <2>1. 3 * Age(n) + i <= 3 * upsets + LineCap + Slack
    BY DEF AckInv, LineYoung
  <2>2. i \in Int /\ Age(n) \in Int
    BY <1>1, LenProperties DEF TypeInv
  <2>3. upsets \in Nat /\ upsets' \in Nat /\ LineCap \in Nat
    BY DEF TypeInv
  <2>. QED  BY <1>2, <2>1, <2>2, <2>3, SMTT(30)
<1>6. NoImpostor'
  BY DEF AckInv, NoImpostor, AckOf
<1>. QED  BY <1>3, <1>4, <1>5, <1>6 DEF AckInv

LEMMA StepAck == ASSUME TypeInv, AckInv, Few, [Next]_vars PROVE AckInv'
<1>1. CASE Read
  BY <1>1, ReadAck
<1>2. CASE MoteSpeaks
  BY <1>2, SpeaksAck
<1>3. CASE ForwardPacket
  BY <1>3, ForwardAck
<1>4. CASE /\ FillBuffer \/ UNCHANGED <<line, parserVars>>
           /\ ~Read /\ ~MoteSpeaks /\ ~ForwardPacket
  <2>. DEFINE Moved ==
          /\ UNCHANGED <<line, packet, seqno, owes>>
          /\ upsets' \in {upsets, upsets + 1}
          /\ pc = "read" => pc' = "read"
          /\ pc' = "packet" => result' = "none"
          /\ result' = "acked" => reached'
          /\ pc' # "exit" => pc # "exit"
          /\ pc' \in {"read", "wait"} => pc \in {"read", "wait"} /\ reached' = reached
  <2>1. /\ pc = "packet" => result = "none"
        /\ result = "acked" => reached
    BY DEF AckInv, Resting
  <2>2. SUFFICES Moved
    <3>. SUFFICES ASSUME Moved PROVE AckInv'
      OBVIOUS
    <3>1. upsets' >= upsets /\ upsets' \in Nat
      BY DEF TypeInv
    <3>. QED  BY <3>1, MovesAck
  <2>3. CASE UNCHANGED vars
    BY <2>1, <2>3 DEF vars, parserVars, writeVars, moteVars
  <2>4. CASE FillBuffer
    BY <2>1, <2>4 DEF FillBuffer, writeVars, Upset
  <2>5. CASE Start
    BY <2>1, <2>5 DEF Start, parserVars, writeVars, moteVars
  <2>6. CASE Expire
    BY <2>1, <2>6 DEF Expire, parserVars, moteVars
  <2>7. CASE Unplug
    BY <2>1, <2>7 DEF Unplug, parserVars, writeVars, Upset
  <2>8. CASE \E c \in Clients : Connect(c) \/ Say(c) \/ FallSilent(c)
    BY <2>1, <2>8 DEF Connect, Say, FallSilent, parserVars, writeVars, moteVars, Upset
  <2>9. CASE NextClient
    BY <2>1, <2>9 DEF NextClient, parserVars, moteVars
  <2>10. CASE SourceWait
    BY <2>1, <2>10 DEF SourceWait, Returns, parserVars, moteVars
  <2>11. CASE Select \/ Greet \/ SendPlatform \/ Platform \/ GreetingEnds \/ RemoveClient
    BY <2>1, <2>11 DEF Select, Greet, SendPlatform, Platform, GreetingEnds, RemoveClient,
                       parserVars, writeVars, moteVars
  <2>. QED  BY <1>4, <2>3, <2>4, <2>5, <2>6, <2>7, <2>8, <2>9, <2>10, <2>11 DEF Next, Forward
<1>. QED  BY <1>1, <1>2, <1>3, <1>4, OtherSteps

\* Disturbances only become more.
LEMMA FewBefore == ASSUME TypeInv, [Next]_vars, Few' PROVE Few
<1>1. upsets' \in {upsets, upsets + 1}
  <2>1. CASE UNCHANGED vars \/ Start \/ Expire \/ Unplug
    BY <2>1, Zenon DEF vars, moteVars, Start, Expire, Unplug, Upset
  <2>2. CASE \E c \in Clients : Connect(c) \/ Say(c) \/ FallSilent(c)
    BY <2>2, Zenon DEF Connect, Say, FallSilent, moteVars, Upset
  <2>3. CASE MoteSpeaks
    BY <2>3, Zenon DEF MoteSpeaks, MoteSends, Upset
  <2>4. CASE Read
    BY <2>4, Zenon DEF Read, SeekSync, TooLong, BadSync, Collect, Refuse, TakeAck, TakePacket, ReadByte
  <2>5. CASE ForwardPacket
    BY <2>5, Zenon DEF ForwardPacket, WriteFrame, WriteFails, Upset
  <2>6. CASE FillBuffer
    BY <2>6, Zenon DEF FillBuffer, Upset
  <2>7. CASE Forward /\ ~Read /\ ~ForwardPacket /\ ~FillBuffer
    BY <2>7, Zenon DEF Forward, Select, Greet, SendPlatform, Platform, GreetingEnds, NextClient,
                       RemoveClient, SourceWait, moteVars
  <2>. QED  BY <2>1, <2>2, <2>3, <2>4, <2>5, <2>6, <2>7 DEF Next
<1>2. 3 * (upsets' + 1) + LineCap <= 3 * SeqMod
  BY DEF Few
<1>3. upsets \in Nat /\ upsets' \in Nat /\ upsets <= upsets'
  BY <1>1 DEF TypeInv
<1>4. \A u, v, l, m \in Nat : u <= v /\ 3 * (v + 1) + l <= 3 * m => 3 * (u + 1) + l <= 3 * m
  OBVIOUS
<1>5. LineCap \in Nat /\ SeqMod \in Nat
  BY SerialForwarderAssumption
<1>. QED  BY <1>2, <1>3, <1>4, <1>5 DEF Few

\* A write that returns 0 has reached the mote, as long as the disturbances and the
\* frames that wait on the line are fewer than the numbers: a late acknowledgement
\* of an earlier write is passed over until its number is given out again
\* (write_serial_packet).
THEOREM AcksAreTrue == Spec => [](Few => AckMeansDelivered)
<1>1. Init => TypeInv /\ (Few => AckInv)
  BY InitType, InitAck
<1>2. TypeInv /\ (Few => AckInv) /\ [Next]_vars => (TypeInv /\ (Few => AckInv))'
  <2>. SUFFICES ASSUME TypeInv, Few => AckInv, [Next]_vars
                PROVE  TypeInv' /\ (Few' => AckInv')
    OBVIOUS
  <2>1. TypeInv'
    BY StepType
  <2>2. Few' => AckInv'
    BY FewBefore, StepAck
  <2>. QED  BY <2>1, <2>2
<1>3. TypeInv /\ (Few => AckInv) => (Few => AckMeansDelivered)
  BY DEF AckInv, Resting, AckMeansDelivered
<1>. QED  BY <1>1, <1>2, <1>3, PTL DEF Spec
=============================================================================
