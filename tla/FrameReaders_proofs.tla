------------------------ MODULE FrameReaders_proofs -------------------------
(***************************************************************************)
(* What CommManager, UartManager and PLCS-12 guarantee for any number of   *)
(* frames, any capacity of line, reads, buffer and queue, and any number   *)
(* of disturbances.                                                        *)
(***************************************************************************)
EXTENDS FrameReaders, SequenceTheorems, FiniteSetTheorems, TLAPS

-----------------------------------------------------------------------------
(* The parts on their way: what has been read, and behind it the line.     *)

Stream == buf \o line

Before(a, b) == a[1] < b[1] \/ (a[1] = b[1] /\ a[2] < b[2])

\* The parts of frames are in the order in which they were sent; n frames were.
Sorted(s, n) ==
    /\ \A i, j \in DOMAIN s : i < j /\ s[i] # Noise /\ s[j] # Noise => Before(s[i], s[j])
    /\ \A i \in DOMAIN s : s[i][1] <= n

\* A frame begins here; frame n lies here, whole.
Begins(s, i) == s[i] # Noise /\ s[i][2] = 1

Lies(s, n, i) == \A p \in 1 .. 3 : i + p - 1 \in DOMAIN s /\ s[i + p - 1] = <<n, p>>

\* t is s without the m parts behind the first k.
Cut(t, s, k, m) ==
    /\ k \in Nat /\ m \in Nat /\ k + m <= Len(s)
    /\ Len(t) = Len(s) - m
    /\ \A i \in 1 .. Len(s) - m : t[i] = IF i <= k THEN s[i] ELSE s[i + m]

\* t is s with more behind it.
Grown(t, s) == Len(s) <= Len(t) /\ \A i \in 1 .. Len(s) : t[i] = s[i]

LEMMA PartType ==
    ASSUME NEW x \in Part
    PROVE  /\ x[1] \in Nat /\ x[2] \in 1 .. 3 /\ x = <<x[1], x[2]>> /\ x[1] <= MaxFrames
           /\ x # Noise => x[1] \in 1 .. MaxFrames
  BY FrameReadersAssumption DEF Part, Noise

LEMMA NumberedPart ==
    ASSUME NEW n \in 1 .. MaxFrames, NEW p \in 1 .. 3
    PROVE  <<n, p>> \in Part /\ <<n, p>> # Noise
  BY FrameReadersAssumption DEF Part, Noise

LEMMA Joined ==
    ASSUME NEW S, NEW b \in Seq(S), NEW l \in Seq(S)
    PROVE  /\ b \o l \in Seq(S) /\ Len(b \o l) = Len(b) + Len(l)
           /\ DOMAIN (b \o l) = 1 .. Len(b) + Len(l)
           /\ \A i \in 1 .. Len(b) + Len(l) :
                (b \o l)[i] = IF i <= Len(b) THEN b[i] ELSE l[i - Len(b)]
<1>1. /\ b \o l \in Seq(S) /\ Len(b \o l) = Len(b) + Len(l)
      /\ \A i \in 1 .. Len(b) + Len(l) :
           (b \o l)[i] = IF i <= Len(b) THEN b[i] ELSE l[i - Len(b)]
  BY ConcatProperties, Zenon
<1> DEFINE z == b \o l
<1>2. z \in Seq(S) /\ Len(z) = Len(b) + Len(l)
  BY <1>1
<1> HIDE DEF z
<1>3. DOMAIN z = 1 .. Len(b) + Len(l)
  BY <1>2
<1> QED
  BY <1>1, <1>3 DEF z

LEMMA Prefix ==
    ASSUME NEW S, NEW s \in Seq(S), NEW m \in 1 .. Len(s)
    PROVE  /\ SubSeq(s, 1, m) \in Seq(S) /\ Len(SubSeq(s, 1, m)) = m
           /\ \A i \in 1 .. m : SubSeq(s, 1, m)[i] = s[i]
  OBVIOUS

LEMMA Suffix ==
    ASSUME NEW S, NEW s \in Seq(S), NEW m \in 0 .. Len(s)
    PROVE  /\ SubSeq(s, m + 1, Len(s)) \in Seq(S) /\ Len(SubSeq(s, m + 1, Len(s))) = Len(s) - m
           /\ \A i \in 1 .. Len(s) - m : SubSeq(s, m + 1, Len(s))[i] = s[i + m]
  OBVIOUS

\* Reading does not change what is on its way.
LEMMA ReadSame ==
    ASSUME NEW b \in Seq(Part), NEW l \in Seq(Part), NEW m \in 1 .. Len(l)
    PROVE  (b \o SubSeq(l, 1, m)) \o SubSeq(l, m + 1, Len(l)) = b \o l
<1> DEFINE h == SubSeq(l, 1, m)
           t == SubSeq(l, m + 1, Len(l))
           x == (b \o h) \o t
           y == b \o l
<1>1. h \in Seq(Part) /\ Len(h) = m /\ \A i \in 1 .. m : h[i] = l[i]
  BY Prefix
<1>2. t \in Seq(Part) /\ Len(t) = Len(l) - m /\ \A i \in 1 .. Len(l) - m : t[i] = l[i + m]
  BY m \in 0 .. Len(l), Suffix
<1> HIDE DEF h, t
<1>3. /\ b \o h \in Seq(Part) /\ Len(b \o h) = Len(b) + m
      /\ \A i \in 1 .. Len(b) + m : (b \o h)[i] = IF i <= Len(b) THEN b[i] ELSE h[i - Len(b)]
  BY <1>1, Joined, Zenon
<1> DEFINE bh == b \o h
<1>4. /\ bh \in Seq(Part) /\ Len(bh) = Len(b) + m
      /\ \A i \in 1 .. Len(b) + m : bh[i] = IF i <= Len(b) THEN b[i] ELSE l[i - Len(b)]
  BY <1>1, <1>3
<1> HIDE DEF bh
<1>5. /\ x \in Seq(Part) /\ Len(x) = Len(bh) + Len(t)
      /\ \A i \in 1 .. Len(bh) + Len(t) : x[i] = IF i <= Len(bh) THEN bh[i] ELSE t[i - Len(bh)]
  BY <1>2, <1>4, Joined, Zenon DEF bh
<1>6. /\ y \in Seq(Part) /\ Len(y) = Len(b) + Len(l)
      /\ \A i \in 1 .. Len(b) + Len(l) : y[i] = IF i <= Len(b) THEN b[i] ELSE l[i - Len(b)]
  BY Joined, Zenon
<1> HIDE DEF x, y
<1>7. Len(x) = Len(y)
  BY <1>2, <1>4, <1>5, <1>6
<1>8. ASSUME NEW i \in 1 .. Len(y) PROVE x[i] = y[i]
  <2>0. /\ i \in Int /\ m \in Int /\ Len(b) \in Nat /\ Len(l) \in Nat
        /\ i \in 1 .. Len(b) + Len(l) /\ i \in 1 .. Len(bh) + Len(t)
    BY <1>2, <1>4, <1>6
  <2>1. CASE i <= Len(b) + m
    <3>1. x[i] = bh[i] /\ i \in 1 .. Len(b) + m
      BY <1>4, <1>5, <2>0, <2>1
    <3>2. bh[i] = IF i <= Len(b) THEN b[i] ELSE l[i - Len(b)]
      BY <1>4, <3>1
    <3> QED
      BY <1>6, <2>0, <3>1, <3>2
  <2>2. CASE i > Len(b) + m
    <3>1. i - Len(bh) \in 1 .. Len(l) - m /\ (i - Len(bh)) + m = i - Len(b)
          /\ ~(i <= Len(b)) /\ ~(i <= Len(bh))
      BY <1>4, <2>0, <2>2
    <3>2. x[i] = t[i - Len(bh)]
      BY <1>5, <2>0, <3>1
    <3>3. t[i - Len(bh)] = l[i - Len(b)]
      BY <1>2, <3>1
    <3> QED
      BY <1>6, <2>0, <3>1, <3>2, <3>3
  <2> QED
    BY <2>0, <2>1, <2>2
<1>9. x = y
  BY <1>5, <1>6, <1>7, <1>8, SeqEqual
<1> QED
  BY <1>9 DEF x, y, h, t

LEMMA DropFirst ==
    ASSUME NEW b \in Seq(Part), NEW l \in Seq(Part), NEW m \in 0 .. Len(b)
    PROVE  /\ SubSeq(b, m + 1, Len(b)) \in Seq(Part)
           /\ Len(SubSeq(b, m + 1, Len(b))) = Len(b) - m
           /\ Cut(SubSeq(b, m + 1, Len(b)) \o l, b \o l, 0, m)
<1> DEFINE t == SubSeq(b, m + 1, Len(b))
           x == t \o l
           y == b \o l
<1>1. t \in Seq(Part) /\ Len(t) = Len(b) - m /\ \A i \in 1 .. Len(b) - m : t[i] = b[i + m]
  BY Suffix
<1> HIDE DEF t
<1>2. /\ x \in Seq(Part) /\ Len(x) = Len(t) + Len(l)
      /\ \A i \in 1 .. Len(t) + Len(l) : x[i] = IF i <= Len(t) THEN t[i] ELSE l[i - Len(t)]
  BY <1>1, Joined, Zenon
<1>3. /\ y \in Seq(Part) /\ Len(y) = Len(b) + Len(l)
      /\ \A i \in 1 .. Len(b) + Len(l) : y[i] = IF i <= Len(b) THEN b[i] ELSE l[i - Len(b)]
  BY Joined, Zenon
<1> HIDE DEF x, y
<1>4. m \in Nat /\ m <= Len(b) /\ Len(b) \in Nat /\ Len(l) \in Nat
  OBVIOUS
<1>5. ASSUME NEW i \in 1 .. Len(y) - m PROVE x[i] = y[i + m]
  <2>1. CASE i <= Len(b) - m
    BY <1>1, <1>2, <1>3, <1>4, <2>1
  <2>2. CASE i > Len(b) - m
    <3>1. i - (Len(b) - m) = (i + m) - Len(b) /\ i \in 1 .. Len(t) + Len(l)
          /\ i + m \in 1 .. Len(b) + Len(l)
      BY <1>1, <1>3, <1>4, <2>2
    <3> QED
      BY <1>1, <1>2, <1>3, <1>4, <2>2, <3>1
  <2> QED
    BY <1>3, <1>4, <2>1, <2>2
<1>6. Cut(x, y, 0, m)
  BY <1>1, <1>2, <1>3, <1>4, <1>5 DEF Cut
<1> QED
  BY <1>1, <1>6 DEF x, y, t

LEMMA DropBehind ==
    ASSUME NEW b \in Seq(Part), NEW l \in Seq(Part), NEW m \in 0 .. Len(l)
    PROVE  /\ SubSeq(l, m + 1, Len(l)) \in Seq(Part)
           /\ Len(SubSeq(l, m + 1, Len(l))) = Len(l) - m
           /\ Cut(b \o SubSeq(l, m + 1, Len(l)), b \o l, Len(b), m)
<1> DEFINE t == SubSeq(l, m + 1, Len(l))
           x == b \o t
           y == b \o l
<1>1. t \in Seq(Part) /\ Len(t) = Len(l) - m /\ \A i \in 1 .. Len(l) - m : t[i] = l[i + m]
  BY Suffix
<1> HIDE DEF t
<1>2. /\ x \in Seq(Part) /\ Len(x) = Len(b) + Len(t)
      /\ \A i \in 1 .. Len(b) + Len(t) : x[i] = IF i <= Len(b) THEN b[i] ELSE t[i - Len(b)]
  BY <1>1, Joined, Zenon
<1>3. /\ y \in Seq(Part) /\ Len(y) = Len(b) + Len(l)
      /\ \A i \in 1 .. Len(b) + Len(l) : y[i] = IF i <= Len(b) THEN b[i] ELSE l[i - Len(b)]
  BY Joined, Zenon
<1> HIDE DEF x, y
<1>4. m \in Nat /\ m <= Len(l) /\ Len(b) \in Nat /\ Len(l) \in Nat
  OBVIOUS
<1>5. ASSUME NEW i \in 1 .. Len(y) - m PROVE x[i] = IF i <= Len(b) THEN y[i] ELSE y[i + m]
  <2>1. CASE i <= Len(b)
    BY <1>1, <1>2, <1>3, <1>4, <2>1
  <2>2. CASE i > Len(b)
    <3>1. (i - Len(b)) + m = (i + m) - Len(b) /\ i - Len(b) \in 1 .. Len(l) - m
          /\ i + m \in 1 .. Len(b) + Len(l) /\ ~(i + m <= Len(b)) /\ i \in 1 .. Len(b) + Len(t)
      BY <1>1, <1>3, <1>4, <2>2
    <3>2. x[i] = t[i - Len(b)]
      BY SMTT(30), <1>2, <1>4, <2>2, <3>1
    <3>3. t[i - Len(b)] = l[(i - Len(b)) + m]
      BY <1>1, <3>1
    <3>4. y[i + m] = l[(i + m) - Len(b)]
      BY <1>3, <3>1
    <3>5. l[(i - Len(b)) + m] = l[(i + m) - Len(b)]
      BY <3>1, Zenon
    <3>6. ~(i <= Len(b))
      BY <1>4, <2>2
    <3> QED
      BY <3>2, <3>3, <3>4, <3>5, <3>6
  <2> QED
    BY <1>3, <1>4, <2>1, <2>2
<1>6. Cut(x, y, Len(b), m)
  BY <1>1, <1>2, <1>3, <1>4, <1>5 DEF Cut
<1> QED
  BY <1>1, <1>6 DEF x, y, t

\* The parts of a frame that leave the device.
LEMMA NewParts ==
    ASSUME NEW n \in 1 .. MaxFrames, NEW k \in 2 .. 3
    PROVE  /\ [p \in 1 .. k |-> <<n, p>>] \in Seq(Part) /\ Len([p \in 1 .. k |-> <<n, p>>]) = k
           /\ \A p \in 1 .. k : [q \in 1 .. k |-> <<n, q>>][p] = <<n, p>>
<1>1. \A p \in 1 .. k : <<n, p>> \in Part
  <2>1. \A p \in 1 .. k : p \in 1 .. 3
    OBVIOUS
  <2> QED
    BY <2>1, NumberedPart
<1>2. [p \in 1 .. k |-> <<n, p>>] \in [1 .. k -> Part]
  BY <1>1
<1>3. k \in Nat
  OBVIOUS
<1> QED
  BY <1>2, <1>3

LEMMA GrowBehind ==
    ASSUME NEW b \in Seq(Part), NEW l \in Seq(Part), NEW t \in Seq(Part)
    PROVE  /\ Grown(b \o (l \o t), b \o l)
           /\ Len(b \o (l \o t)) = Len(b \o l) + Len(t)
           /\ \A i \in 1 .. Len(t) : (b \o (l \o t))[Len(b \o l) + i] = t[i]
<1> DEFINE lt == l \o t
           x == b \o lt
           y == b \o l
<1>1. /\ lt \in Seq(Part) /\ Len(lt) = Len(l) + Len(t)
      /\ \A i \in 1 .. Len(l) + Len(t) : lt[i] = IF i <= Len(l) THEN l[i] ELSE t[i - Len(l)]
  BY Joined, Zenon
<1>0. lt \in Seq(Part)
  BY <1>1
<1> HIDE DEF lt
<1>2. /\ x \in Seq(Part) /\ Len(x) = Len(b) + Len(lt)
      /\ \A i \in 1 .. Len(b) + Len(lt) : x[i] = IF i <= Len(b) THEN b[i] ELSE lt[i - Len(b)]
  BY <1>0, Joined, Zenon
<1>3. /\ y \in Seq(Part) /\ Len(y) = Len(b) + Len(l)
      /\ \A i \in 1 .. Len(b) + Len(l) : y[i] = IF i <= Len(b) THEN b[i] ELSE l[i - Len(b)]
  BY Joined, Zenon
<1> HIDE DEF x, y
<1>4. Len(b) \in Nat /\ Len(l) \in Nat /\ Len(t) \in Nat
  OBVIOUS
<1>5. Len(x) = Len(y) + Len(t) /\ Len(y) <= Len(x)
  BY <1>1, <1>2, <1>3, <1>4
<1>6. ASSUME NEW i \in 1 .. Len(y) PROVE x[i] = y[i]
  <2>1. CASE i <= Len(b)
    <3>1. i \in 1 .. Len(b) + Len(lt) /\ i \in 1 .. Len(b) + Len(l)
      BY <1>1, <1>3, <1>4
    <3>2. x[i] = b[i]
      BY <1>2, <2>1, <3>1
    <3> QED
      BY <1>3, <2>1, <3>1, <3>2
  <2>2. CASE i > Len(b)
    <3>1. i - Len(b) \in 1 .. Len(l) /\ i \in 1 .. Len(b) + Len(lt) /\ ~(i <= Len(b))
          /\ i - Len(b) \in 1 .. Len(l) + Len(t) /\ i - Len(b) <= Len(l)
      BY <1>1, <1>3, <1>4, <2>2
    <3>2. x[i] = lt[i - Len(b)]
      BY <1>2, <3>1
    <3>3. lt[i - Len(b)] = l[i - Len(b)]
      BY <1>1, <3>1
    <3> QED
      BY <1>3, <3>1, <3>2, <3>3
  <2> QED
    BY <1>3, <1>4, <2>1, <2>2
<1>7. ASSUME NEW i \in 1 .. Len(t) PROVE x[Len(y) + i] = t[i]
  <2>1. /\ Len(y) + i \in 1 .. Len(b) + Len(lt) /\ ~(Len(y) + i <= Len(b))
        /\ (Len(y) + i) - Len(b) \in 1 .. Len(l) + Len(t)
        /\ ~((Len(y) + i) - Len(b) <= Len(l)) /\ ((Len(y) + i) - Len(b)) - Len(l) = i
    BY <1>1, <1>3, <1>4
  <2>2. x[Len(y) + i] = lt[(Len(y) + i) - Len(b)]
    BY <1>2, <2>1
  <2>3. lt[(Len(y) + i) - Len(b)] = t[i]
    BY <1>1, <2>1
  <2> QED
    BY <2>2, <2>3
<1> QED
  BY <1>5, <1>6, <1>7 DEF Grown, x, y, lt

-----------------------------------------------------------------------------
(* What stays true of the stream when it is cut or grows.                  *)

LEMMA CutFrom ==
    ASSUME NEW s \in Seq(Part), NEW t \in Seq(Part), NEW k, NEW m, Cut(t, s, k, m),
           NEW i \in DOMAIN t
    PROVE  \/ i <= k /\ i \in DOMAIN s /\ t[i] = s[i]
           \/ i > k /\ i + m \in DOMAIN s /\ t[i] = s[i + m]
<1>1. /\ k \in Nat /\ m \in Nat /\ k + m <= Len(s) /\ Len(t) = Len(s) - m /\ Len(s) \in Nat
      /\ DOMAIN t = 1 .. Len(t) /\ DOMAIN s = 1 .. Len(s)
  BY DEF Cut
<1>2. i \in 1 .. Len(s) - m /\ i \in Int
  BY <1>1
<1>3. t[i] = IF i <= k THEN s[i] ELSE s[i + m]
  BY <1>2 DEF Cut
<1>4. CASE i <= k
  BY <1>1, <1>2, <1>3, <1>4
<1>5. CASE i > k
  <2>1. i + m \in DOMAIN s /\ ~(i <= k)
    BY <1>1, <1>2, <1>5
  <2> QED
    BY <1>3, <1>5, <2>1
<1> QED
  BY <1>1, <1>2, <1>4, <1>5

LEMMA CutIn ==
    ASSUME NEW s \in Seq(Part), NEW t \in Seq(Part), NEW k, NEW m, Cut(t, s, k, m)
    PROVE  \A i \in DOMAIN t : \E j \in DOMAIN s : t[i] = s[j]
<1> SUFFICES ASSUME NEW i \in DOMAIN t PROVE \E j \in DOMAIN s : t[i] = s[j]
  OBVIOUS
<1>1. \/ i \in DOMAIN s /\ t[i] = s[i]
      \/ i + m \in DOMAIN s /\ t[i] = s[i + m]
  BY CutFrom
<1> QED
  BY <1>1

LEMMA CutSorted ==
    ASSUME NEW s \in Seq(Part), NEW t \in Seq(Part), NEW k, NEW m, Cut(t, s, k, m),
           NEW n, Sorted(s, n)
    PROVE  Sorted(t, n)
<1>1. ASSUME NEW i \in DOMAIN t PROVE t[i][1] <= n
  BY CutFrom DEF Sorted
<1>2. ASSUME NEW i \in DOMAIN t, NEW j \in DOMAIN t, i < j, t[i] # Noise, t[j] # Noise
      PROVE  Before(t[i], t[j])
  <2>1. PICK f \in DOMAIN s : t[i] = s[f] /\ ((i <= k /\ f = i) \/ (i > k /\ f = i + m))
    BY CutFrom
  <2>2. PICK g \in DOMAIN s : t[j] = s[g] /\ ((j <= k /\ g = j) \/ (j > k /\ g = j + m))
    BY CutFrom
  <2>3. i \in Int /\ j \in Int /\ k \in Nat /\ m \in Nat
    BY DEF Cut
  <2>4. f < g
    BY <1>2, <2>1, <2>2, <2>3
  <2> QED
    BY <1>2, <2>1, <2>2, <2>4 DEF Sorted
<1> QED
  BY <1>1, <1>2 DEF Sorted

LEMMA CutLies ==
    ASSUME NEW s \in Seq(Part), NEW t \in Seq(Part), NEW k, NEW m, Cut(t, s, k, m),
           NEW n, NEW j \in DOMAIN s, Lies(s, n, j), j > k + m
    PROVE  j - m \in DOMAIN t /\ Lies(t, n, j - m)
<1>1. /\ k \in Nat /\ m \in Nat /\ Len(t) = Len(s) - m /\ Len(s) \in Nat
      /\ DOMAIN t = 1 .. Len(t) /\ DOMAIN s = 1 .. Len(s) /\ j \in Int
  BY DEF Cut
<1>2. ASSUME NEW p \in 1 .. 3 PROVE j - m + p - 1 \in DOMAIN t /\ t[j - m + p - 1] = <<n, p>>
  <2>1. j + p - 1 \in DOMAIN s /\ s[j + p - 1] = <<n, p>>
    BY DEF Lies
  <2>0. j + p - 1 \in 1 .. Len(s) /\ p \in Int
    BY <1>1, <2>1
  <2>2. /\ j - m + p - 1 \in 1 .. Len(s) - m /\ ~(j - m + p - 1 <= k)
        /\ (j - m + p - 1) + m = j + p - 1
    <3>1. p \in {1, 2, 3} /\ j + p - 1 >= 1 /\ j + p - 1 <= Len(s)
      BY <1>1, <2>0
    <3>2. j - m + p - 1 >= 1 /\ j - m + p - 1 <= Len(s) - m /\ j - m + p - 1 > k
      BY <1>1, <3>1
    <3> QED
      BY SMTT(30), <1>1, <2>0, <3>2
  <2>3. t[j - m + p - 1] = s[(j - m + p - 1) + m]
    BY <2>2 DEF Cut
  <2> QED
    BY <1>1, <2>1, <2>2, <2>3
<1>3. j - m \in DOMAIN t
  BY <1>1
<1> QED
  BY <1>2, <1>3 DEF Lies

LEMMA GrownLies ==
    ASSUME NEW s \in Seq(Part), NEW t \in Seq(Part), Grown(t, s), NEW n, NEW j \in DOMAIN s,
           Lies(s, n, j)
    PROVE  j \in DOMAIN t /\ Lies(t, n, j)
<1>1. DOMAIN s = 1 .. Len(s) /\ DOMAIN t = 1 .. Len(t) /\ Len(s) \in Nat /\ Len(t) \in Nat
  OBVIOUS
<1>2. \A i \in DOMAIN s : i \in DOMAIN t /\ t[i] = s[i]
  BY <1>1 DEF Grown
<1> QED
  BY <1>2 DEF Lies

\* Whole frames do not overlap, and a frame lies behind those of lower number.
LEMMA Apart ==
    ASSUME NEW s \in Seq(Part), NEW a \in Nat, Sorted(s, a), NEW i \in DOMAIN s,
           NEW m \in 1 .. MaxFrames, Lies(s, m, i), NEW j \in DOMAIN s, Begins(s, j), j > i
    PROVE  j > i + 2 /\ m < s[j][1]
<1>1. i \in Int /\ j \in Int
  OBVIOUS
<1>2. /\ i \in DOMAIN s /\ s[i] = <<m, 1>> /\ i + 1 \in DOMAIN s /\ s[i + 1] = <<m, 2>>
      /\ i + 2 \in DOMAIN s /\ s[i + 2] = <<m, 3>>
  <2>1. i + 1 - 1 = i /\ i + 2 - 1 = i + 1 /\ i + 3 - 1 = i + 2
    BY <1>1
  <2>2. /\ i + 1 - 1 \in DOMAIN s /\ s[i + 1 - 1] = <<m, 1>>
        /\ i + 2 - 1 \in DOMAIN s /\ s[i + 2 - 1] = <<m, 2>>
        /\ i + 3 - 1 \in DOMAIN s /\ s[i + 3 - 1] = <<m, 3>>
    BY 1 \in 1 .. 3, 2 \in 1 .. 3, 3 \in 1 .. 3, Zenon DEF Lies
  <2> QED
    BY <2>1, <2>2
<1>3. s[j][2] = 1 /\ s[j] # Noise
  BY DEF Begins
<1>4. j # i + 1 /\ j # i + 2
  BY <1>2, <1>3
<1>5. j > i + 2
  BY <1>1, <1>4
<1>6. s[i] # Noise
  BY <1>2, NumberedPart
<1>7. Before(s[i], s[j])
  BY <1>3, <1>6 DEF Sorted
<1>8. s[j][1] \in Nat
  BY PartType
<1>9. m < s[j][1]
  BY <1>2, <1>3, <1>7, <1>8 DEF Before
<1> QED
  BY <1>5, <1>9

LEMMA FrameLies ==
    ASSUME NEW b \in Seq(Part), NEW i \in DOMAIN b, FrameAt(b, i)
    PROVE  Lies(b, b[i][1], i) /\ Begins(b, i) /\ b[i][1] \in 1 .. MaxFrames
<1>1. i \in Int /\ Len(b) \in Nat /\ DOMAIN b = 1 .. Len(b)
  OBVIOUS
<1>2. i + 2 <= Len(b) /\ b[i] # Noise /\ \A p \in 1 .. 3 : b[i + p - 1] = <<b[i][1], p>>
  BY DEF FrameAt
<1>3. \A p \in 1 .. 3 : i + p - 1 \in DOMAIN b
  BY <1>1, <1>2
<1>4. b[i + 1 - 1] = <<b[i][1], 1>> /\ i + 1 - 1 = i
  BY <1>1, <1>2
<1> QED
  BY <1>2, <1>3, <1>4, PartType DEF Lies, Begins

LEMMA LyingFrame ==
    ASSUME NEW b \in Seq(Part), NEW i \in DOMAIN b, NEW n \in 1 .. MaxFrames, Lies(b, n, i)
    PROVE  FrameAt(b, i) /\ Begins(b, i) /\ b[i] = <<n, 1>>
<1>1. i \in Int /\ Len(b) \in Nat /\ DOMAIN b = 1 .. Len(b)
  OBVIOUS
<1>2. i + 1 - 1 = i /\ i + 3 - 1 = i + 2
  BY <1>1
<1>3. b[i] = <<n, 1>> /\ i + 2 \in DOMAIN b
  <2>1. b[i + 1 - 1] = <<n, 1>> /\ i + 3 - 1 \in DOMAIN b
    BY 1 \in 1 .. 3, 3 \in 1 .. 3, Zenon DEF Lies
  <2> QED
    BY <1>2, <2>1
<1>4. <<n, 1>> # Noise
  BY 1 \in 1 .. 3, NumberedPart
<1>5. i + 2 <= Len(b)
  BY <1>1, <1>3
<1> QED
  BY <1>3, <1>4, <1>5 DEF Lies, FrameAt, Begins

-----------------------------------------------------------------------------
(* Numbers of frames.                                                      *)

LEMMA NumbersType ==
    ASSUME NEW s \in Seq(Part)
    PROVE  Numbers(s) \subseteq 0 .. MaxFrames
  BY PartType, FrameReadersAssumption DEF Numbers

LEMMA NumbersPart ==
    ASSUME NEW s \in Seq(Part), NEW i \in DOMAIN s
    PROVE  s[i][1] \in Numbers(s)
  BY DEF Numbers

-----------------------------------------------------------------------------
(* Types, and where the program is.                                        *)

PcInv ==
    /\ kind \in Serial => pc # "accept"
    /\ kind = Plc => pc # "loops" /\ remainSize = 0
    /\ pc \notin {"parse", "loops"} => remainSize = 0
    /\ pc \in {"unborn", "accept"} => line = <<>> /\ Numbers(buf) \subseteq hurt
    /\ pc = "parse" /\ at = 1 => remainSize = 0

TypeInv == TypeOK /\ PcInv

Entry == [first : 0 .. MaxFrames, last : 0 .. MaxFrames, odd : BOOLEAN]

LEMMA EntryType ==
    ASSUME NEW f \in 0 .. MaxFrames, NEW l \in 0 .. MaxFrames, NEW o \in BOOLEAN
    PROVE  [first |-> f, last |-> l, odd |-> o] \in Entry
  BY DEF Entry

LEMMA StoreType ==
    ASSUME TypeOK, NEW f \in 0 .. MaxFrames, NEW l \in 0 .. MaxFrames, NEW o \in BOOLEAN,
           Store(f, l, o)
    PROVE  log' \in Seq(Entry) /\ queue' \in 0 .. QueueCap
<1>1. log \in Seq(Entry) /\ queue \in 0 .. QueueCap
  BY DEF TypeOK, Entry
<1>2. log' \in Seq(Entry)
  BY <1>1, EntryType DEF Store
<1>3. queue' \in 0 .. QueueCap
  BY <1>1, FrameReadersAssumption DEF Store
<1> QED
  BY <1>2, <1>3

LEMMA UpsetType ==
    ASSUME TypeOK, Upset
    PROVE  upsets' \in 0 .. MaxUpsets
  BY FrameReadersAssumption DEF Upset, TypeOK

LEMMA InitType == Init => TypeInv
<1> SUFFICES ASSUME Init PROVE TypeInv
  OBVIOUS
<1>1. /\ kind \in Kind /\ pc = "unborn" /\ asked = 0 /\ at \in 1 .. BufferCap + 1
      /\ queue \in 0 .. QueueCap /\ upsets \in 0 .. MaxUpsets
  BY FrameReadersAssumption DEF Init
<1>6. crowded \union split \union hurt \subseteq 0 .. MaxFrames /\ skewed \in BOOLEAN
  BY DEF Init
<1>2. /\ sent \in Seq(Form) /\ Len(sent) <= MaxFrames
      /\ line \in Seq(Part) /\ Len(line) <= LineCap
      /\ buf \in Seq(Part) /\ Len(buf) <= BufferCap
      /\ parsingSize \in 0 .. Len(buf) /\ remainSize \in 0 .. Len(buf)
      /\ log \in Seq([first : 0 .. MaxFrames, last : 0 .. MaxFrames, odd : BOOLEAN])
  BY FrameReadersAssumption DEF Init
<1>3. TypeOK
  BY <1>1, <1>2, <1>6 DEF TypeOK
<1>4. Numbers(buf) = {}
  BY DEF Init, Numbers
<1>5. PcInv
  BY <1>4 DEF Init, PcInv
<1> QED
  BY <1>3, <1>5 DEF TypeInv

LEMMA StartType ==
    ASSUME TypeInv, StartComm \/ StartUart \/ StartPlc \/ Ask \/ Consume
    PROVE  TypeInv'
<1> USE DEF TypeInv, deviceVars, parserVars, history
<1>1. CASE StartComm
  BY <1>1 DEF StartComm, TypeOK, PcInv, Serial, Plc
<1>2. CASE StartUart
  BY <1>2 DEF StartUart, TypeOK, PcInv, Serial, Plc, Uart
<1>3. CASE StartPlc
  <2>1. TypeOK'
    BY <1>3 DEF StartPlc, TypeOK
  <2> QED
    BY <1>3, <2>1 DEF StartPlc, PcInv, Serial, Plc
<1>4. CASE Ask
  BY <1>4 DEF Ask, TypeOK, PcInv
<1>5. CASE Consume
  <2>1. queue' \in 0 .. QueueCap
    BY <1>5, FrameReadersAssumption DEF Consume, TypeOK
  <2>2. TypeOK'
    BY <1>5, <2>1 DEF Consume, TypeOK
  <2> QED
    BY <1>5, <2>2 DEF Consume, PcInv
<1> QED
  BY <1>1, <1>2, <1>3, <1>4, <1>5

LEMMA SessionType ==
    ASSUME TypeInv, Accept \/ CloseSession
    PROVE  TypeInv'
<1> USE DEF TypeInv, deviceVars, parserVars, history
<1>1. CASE Accept
  <2>1. kind = Plc /\ remainSize = 0 /\ line = <<>>
    BY <1>1, FrameReadersAssumption DEF Accept, PcInv, TypeOK
  <2>2. buf' \in Seq(Part) /\ Len(buf') = 0 /\ Len(buf') <= BufferCap
        /\ parsingSize' \in 0 .. Len(buf') /\ remainSize' \in 0 .. Len(buf')
    BY <1>1, <2>1, FrameReadersAssumption DEF Accept
  <2>3. TypeOK'
    BY <1>1, <2>1, <2>2 DEF Accept, TypeOK
  <2>4. PcInv'
    BY <1>1, <2>1 DEF Accept, PcInv, Serial, Plc
  <2> QED
    BY <2>3, <2>4
<1>2. CASE CloseSession
  <2>1. Numbers(line) \subseteq 0 .. MaxFrames /\ Numbers(buf) \subseteq 0 .. MaxFrames
    BY NumbersType DEF TypeOK
  <2>2. upsets' \in 0 .. MaxUpsets
    BY <1>2, UpsetType DEF CloseSession
  <2>3. line' = <<>> /\ Len(<<>>) = 0 /\ <<>> \in Seq(Part) /\ LineCap \in Nat
    BY <1>2, FrameReadersAssumption DEF CloseSession
  <2>4. (crowded \union split \union hurt)' \subseteq 0 .. MaxFrames
    BY <1>2, <2>1 DEF CloseSession, TypeOK
  <2>5. TypeOK'
    BY <1>2, <2>2, <2>3, <2>4 DEF CloseSession, TypeOK
  <2>6. Numbers(buf)' = Numbers(buf)
    BY <1>2 DEF CloseSession, Numbers
  <2>7. PcInv'
    BY <1>2, <2>6 DEF CloseSession, PcInv, Serial, Plc
  <2> QED
    BY <2>5, <2>7
<1> QED
  BY <1>1, <1>2

\* The frame that leaves the device: k of its three parts do.
SendsParts(k) ==
    /\ k \in 2 .. 3
    /\ line' = line \o [p \in 1 .. k |-> <<Len(sent) + 1, p>>]

LEMMA SendShape ==
    ASSUME TypeOK, SendFrame
    PROVE  \E form \in Form :
             /\ sent' = Append(sent, form)
             /\ SendsParts(IF form = "cut" THEN 2 ELSE 3)
             /\ form # "whole" => kind \in Serial
             /\ Len(sent) + 1 \in 1 .. MaxFrames
             /\ upsets' \in 0 .. MaxUpsets /\ asked' \in 0 .. 1
<1>1. PICK form \in Form :
        /\ IF form = "whole" THEN UNCHANGED upsets ELSE kind \in Serial /\ Upset
        /\ sent' = Append(sent, form)
        /\ line' = line \o [p \in 1 .. (IF form = "cut" THEN 2 ELSE 3) |-> <<Len(sent) + 1, p>>]
  BY DEF SendFrame
<1>2. Len(sent) + 1 \in 1 .. MaxFrames
  BY FrameReadersAssumption DEF SendFrame, TypeOK
<1>3. upsets' \in 0 .. MaxUpsets
  BY <1>1, UpsetType DEF TypeOK
<1>4. asked' \in 0 .. 1
  BY DEF SendFrame, TypeOK
<1> QED
  BY <1>1, <1>2, <1>3, <1>4 DEF SendsParts

LEMMA LineType ==
    ASSUME TypeInv, SendFrame \/ MakeNoise
    PROVE  TypeInv'
<1> USE DEF TypeInv, deviceVars, parserVars, history
<1>0. line \in Seq(Part)
  BY DEF TypeOK
<1>1. CASE SendFrame
  <2>1. PICK form \in Form :
             /\ sent' = Append(sent, form)
             /\ SendsParts(IF form = "cut" THEN 2 ELSE 3)
             /\ Len(sent) + 1 \in 1 .. MaxFrames
             /\ upsets' \in 0 .. MaxUpsets /\ asked' \in 0 .. 1
    BY <1>1, SendShape
  <2>2. PICK k \in 2 .. 3 : line' = line \o [p \in 1 .. k |-> <<Len(sent) + 1, p>>]
    BY <2>1 DEF SendsParts
  <2> DEFINE t == [p \in 1 .. k |-> <<Len(sent) + 1, p>>]
  <2>3. t \in Seq(Part) /\ Len(t) = k
    BY <2>1, NewParts
  <2>9. line' = line \o t
    BY <2>2
  <2> HIDE DEF t
  <2>4. line' \in Seq(Part) /\ Len(line') = Len(line) + k
    <3>1. line \o t \in Seq(Part) /\ Len(line \o t) = Len(line) + Len(t)
      BY <1>0, <2>3, Joined, Zenon
    <3> QED
      BY <2>9, <2>3, <3>1
  <2>5. Len(line') <= LineCap
    BY <1>0, <1>1, <2>4, FrameReadersAssumption DEF SendFrame
  <2>6. sent' \in Seq(Form) /\ Len(sent') <= MaxFrames
    BY <2>1 DEF TypeOK
  <2>7. TypeOK'
    BY <1>1, <2>1, <2>4, <2>5, <2>6 DEF SendFrame, TypeOK
  <2>8. PcInv'
    BY <1>1 DEF SendFrame, PcInv
  <2> QED
    BY <2>7, <2>8
<1>2. CASE MakeNoise
  <2>1. Noise \in Part
    BY DEF Part
  <2>2. line' \in Seq(Part) /\ Len(line') = Len(line) + 1
    BY <1>0, <1>2, <2>1 DEF MakeNoise
  <2>3. Len(line') <= LineCap
    BY <1>0, <1>2, <2>2, FrameReadersAssumption DEF MakeNoise
  <2>4. upsets' \in 0 .. MaxUpsets
    BY <1>2, UpsetType DEF MakeNoise
  <2>5. TypeOK'
    BY <1>2, <2>2, <2>3, <2>4 DEF MakeNoise, TypeOK
  <2>6. PcInv'
    BY <1>2 DEF MakeNoise, PcInv
  <2> QED
    BY <2>5, <2>6
<1> QED
  BY <1>1, <1>2

\* What a read leaves.
LEMMA ReadShape ==
    ASSUME TypeInv, Receive
    PROVE  \E n \in 1 .. Len(line) :
             /\ buf' = buf \o SubSeq(line, 1, n)
             /\ line' = SubSeq(line, n + 1, Len(line))
             /\ buf' \in Seq(Part) /\ Len(buf') = Len(buf) + n /\ Len(buf') <= BufferCap
             /\ line' \in Seq(Part) /\ Len(line') = Len(line) - n
             /\ skewed' = (kind = Plc /\ (skewed \/ ~InStep(buf')))
             /\ crowded' = crowded \union IF kind # Plc THEN Behind(buf')
                                          ELSE IF OneFrame(buf') THEN {} ELSE Numbers(buf')
             /\ split' = split \union IF kind = Plc /\ OneFrame(buf') /\ ~TwoReads(buf')
                                      THEN Numbers(buf') ELSE {}
<1> DEFINE parts(n) == buf \o SubSeq(line, 1, n)
<1>1. PICK n \in 1 .. Len(line) :
        /\ Len(parts(n)) <= BufferCap
        /\ buf' = parts(n)
        /\ line' = SubSeq(line, n + 1, Len(line))
        /\ skewed' = (kind = Plc /\ (skewed \/ ~InStep(parts(n))))
        /\ crowded' = crowded \union IF kind # Plc THEN Behind(parts(n))
                                     ELSE IF OneFrame(parts(n)) THEN {} ELSE Numbers(parts(n))
        /\ split' = split \union IF kind = Plc /\ OneFrame(parts(n)) /\ ~TwoReads(parts(n))
                                 THEN Numbers(parts(n)) ELSE {}
  BY DEF Receive
<1>2. buf \in Seq(Part) /\ line \in Seq(Part)
  BY DEF TypeInv, TypeOK
<1>3. SubSeq(line, 1, n) \in Seq(Part) /\ Len(SubSeq(line, 1, n)) = n
  BY <1>2, Prefix
<1>4. parts(n) \in Seq(Part) /\ Len(parts(n)) = Len(buf) + n
  <2> DEFINE h == SubSeq(line, 1, n)
  <2>1. h \in Seq(Part) /\ Len(h) = n
    BY <1>3
  <2> HIDE DEF h
  <2>2. buf \o h \in Seq(Part) /\ Len(buf \o h) = Len(buf) + Len(h)
    BY <1>2, <2>1, Joined, Zenon
  <2> QED
    BY <2>1, <2>2 DEF h
<1>5. line' \in Seq(Part) /\ Len(line') = Len(line) - n
  <2>1. n \in 0 .. Len(line)
    BY <1>2
  <2> QED
    BY <1>1, <1>2, <2>1, Suffix
<1> HIDE DEF parts
<1>6. /\ buf' \in Seq(Part) /\ Len(buf') = Len(buf) + n /\ Len(buf') <= BufferCap
      /\ skewed' = (kind = Plc /\ (skewed \/ ~InStep(buf')))
      /\ crowded' = crowded \union IF kind # Plc THEN Behind(buf')
                                   ELSE IF OneFrame(buf') THEN {} ELSE Numbers(buf')
      /\ split' = split \union IF kind = Plc /\ OneFrame(buf') /\ ~TwoReads(buf')
                               THEN Numbers(buf') ELSE {}
  BY <1>1, <1>4
<1> QED
  BY <1>1, <1>5, <1>6 DEF parts

LEMMA BehindType ==
    ASSUME NEW s \in Seq(Part)
    PROVE  Behind(s) \subseteq 0 .. MaxFrames
<1>1. \A i \in 2 .. Len(s) : i \in DOMAIN s
  OBVIOUS
<1>2. \A i \in 2 .. Len(s) : s[i][1] \in 0 .. MaxFrames
  BY <1>1, PartType, FrameReadersAssumption
<1> QED
  BY <1>2 DEF Behind

LEMMA ReceiveType ==
    ASSUME TypeInv, Receive
    PROVE  TypeInv'
<1> USE DEF TypeInv, deviceVars, parserVars, history
<1>1. PICK n \in 1 .. Len(line) :
             /\ buf' \in Seq(Part) /\ Len(buf') = Len(buf) + n /\ Len(buf') <= BufferCap
             /\ line' \in Seq(Part) /\ Len(line') = Len(line) - n
             /\ skewed' = (kind = Plc /\ (skewed \/ ~InStep(buf')))
             /\ crowded' = crowded \union IF kind # Plc THEN Behind(buf')
                                          ELSE IF OneFrame(buf') THEN {} ELSE Numbers(buf')
             /\ split' = split \union IF kind = Plc /\ OneFrame(buf') /\ ~TwoReads(buf')
                                      THEN Numbers(buf') ELSE {}
  BY ReadShape
<1>2. Numbers(buf') \subseteq 0 .. MaxFrames /\ Behind(buf') \subseteq 0 .. MaxFrames
  BY <1>1, NumbersType, BehindType
<1>3. crowded' \union split' \union hurt' \subseteq 0 .. MaxFrames
  BY <1>1, <1>2 DEF Receive, TypeOK
<1>4. skewed' \in BOOLEAN
  BY <1>1
<1>5. /\ parsingSize' \in 0 .. Len(buf') /\ remainSize' \in 0 .. Len(buf')
      /\ Len(line') <= LineCap /\ at' \in 1 .. BufferCap + 1
  <2>1. parsingSize' = Len(buf) /\ remainSize' = 0 /\ at' = 1
    BY DEF Receive
  <2>2. Len(buf) \in Nat /\ Len(line) \in Nat /\ Len(line) <= LineCap
    BY DEF TypeOK
  <2> QED
    BY <1>1, <2>1, <2>2, FrameReadersAssumption
<1>6. TypeOK'
  BY <1>1, <1>3, <1>4, <1>5 DEF Receive, TypeOK
<1>7. PcInv'
  BY DEF Receive, PcInv
<1> QED
  BY <1>6, <1>7

LEMMA NumbersOfPrefix ==
    ASSUME NEW s \in Seq(Part), NEW m \in 1 .. Len(s)
    PROVE  Numbers(SubSeq(s, 1, m)) \subseteq 0 .. MaxFrames
  BY Prefix, NumbersType

LEMMA ThrowAwayType ==
    ASSUME TypeInv, ReceiveTooMuch \/ Discard
    PROVE  TypeInv'
<1> USE DEF TypeInv, deviceVars, parserVars, history
<1>0. line \in Seq(Part) /\ buf \in Seq(Part) /\ Len(line) <= LineCap
  BY DEF TypeOK
<1>1. CASE ReceiveTooMuch
  <2>1. ReadCap \in 1 .. Len(line) /\ ReadCap \in 0 .. Len(line)
    BY <1>0, <1>1, FrameReadersAssumption DEF ReceiveTooMuch
  <2>2. line' \in Seq(Part) /\ Len(line') = Len(line) - ReadCap
    BY <1>0, <1>1, <2>1, Suffix DEF ReceiveTooMuch
  <2>3. Len(line') <= LineCap
    BY <1>0, <2>1, <2>2, FrameReadersAssumption
  <2>4. hurt' = hurt \union Numbers(SubSeq(line, 1, ReadCap)) \union Numbers(buf)
        /\ crowded' = crowded /\ split' = split
    BY <1>1 DEF ReceiveTooMuch
  <2>5. crowded' \union split' \union hurt' \subseteq 0 .. MaxFrames
    BY <1>0, <2>1, <2>4, NumbersOfPrefix, NumbersType DEF TypeOK
  <2>6. upsets' \in 0 .. MaxUpsets
    BY <1>1, UpsetType DEF ReceiveTooMuch
  <2>7. TypeOK'
    BY <1>1, <2>2, <2>3, <2>5, <2>6 DEF ReceiveTooMuch, TypeOK
  <2>8. PcInv'
    BY <1>1 DEF ReceiveTooMuch, PcInv
  <2> QED
    BY <2>7, <2>8
<1>2. CASE Discard
  <2>1. crowded' \union split' \union hurt' \subseteq 0 .. MaxFrames
    BY <1>0, <1>2, NumbersType DEF Discard, TypeOK
  <2>2. line' = <<>> /\ Len(<<>>) = 0 /\ <<>> \in Seq(Part) /\ LineCap \in Nat
    BY <1>2, FrameReadersAssumption DEF Discard
  <2>3. TypeOK'
    BY <1>2, <2>1, <2>2 DEF Discard, TypeOK
  <2>4. PcInv'
    BY <1>2 DEF Discard, Deaf, PcInv
  <2> QED
    BY <2>3, <2>4
<1> QED
  BY <1>1, <1>2

LEMMA ParsingAt ==
    ASSUME TypeInv, Parsing
    PROVE  /\ buf \in Seq(Part) /\ line \in Seq(Part) /\ at \in DOMAIN buf /\ at \in 1 .. Len(buf)
           /\ Len(buf) \in Nat /\ Len(buf) <= BufferCap /\ BufferCap \in Nat
           /\ kind \in Serial /\ kind # Plc /\ pc = "parse"
<1>1. buf \in Seq(Part) /\ line \in Seq(Part) /\ at \in 1 .. Len(buf) /\ Len(buf) <= BufferCap
  BY FrameReadersAssumption DEF TypeInv, TypeOK, Parsing
<1>2. kind \in Serial /\ kind # Plc /\ pc = "parse"
  BY DEF Parsing, Serial, Plc
<1> QED
  BY <1>1, <1>2, FrameReadersAssumption

LEMMA FrameIn ==
    ASSUME NEW b \in Seq(Part), NEW i \in DOMAIN b, FrameAt(b, i)
    PROVE  i + 2 \in 1 .. Len(b) /\ b[i][1] \in 0 .. MaxFrames /\ b[i][1] \in 1 .. MaxFrames
<1>1. i + 2 <= Len(b)
  BY DEF FrameAt
<1>2. b[i][1] \in 1 .. MaxFrames
  BY FrameLies
<1> QED
  BY <1>1, <1>2, FrameReadersAssumption

LEMMA TakeType ==
    ASSUME TypeInv, TakeFirst \/ TakeByChance
    PROVE  TypeInv'
<1> USE DEF TypeInv, deviceVars, parserVars, history
<1>0. Parsing
  BY DEF TakeFirst, TakeByChance
<1>1. CASE TakeFirst
  <2>1. at = 1 /\ FrameAt(buf, 1) /\ 1 \in DOMAIN buf
    BY <1>0, <1>1, ParsingAt DEF TakeFirst
  <2>2. 1 + 2 \in 1 .. Len(buf) /\ buf[1][1] \in 0 .. MaxFrames
    BY <1>0, <2>1, ParsingAt, FrameIn
  <2>3. Store(buf[1][1], buf[1][1], FALSE)
    BY <1>1 DEF TakeFirst
  <2>4. log' \in Seq(Entry) /\ queue' \in 0 .. QueueCap
    BY <2>2, <2>3, StoreType
  <2>5. at' \in 1 .. BufferCap + 1 /\ remainSize' \in 0 .. Len(buf)
    BY <1>0, <1>1, <2>2, ParsingAt DEF TakeFirst
  <2>6. TypeOK'
    BY <1>1, <2>4, <2>5 DEF TakeFirst, TypeOK, Entry
  <2>7. PcInv'
    BY <1>0, <1>1, ParsingAt DEF TakeFirst, PcInv
  <2> QED
    BY <2>6, <2>7
<1>2. CASE TakeByChance
  <2>1. at > 1 /\ FrameAt(buf, at)
    BY <1>2 DEF TakeByChance
  <2>2. at + 2 \in 1 .. Len(buf) /\ buf[at][1] \in 0 .. MaxFrames
    BY <1>0, <2>1, ParsingAt, FrameIn
  <2>3. Store(buf[at][1], buf[at][1], TRUE)
    BY <1>2 DEF TakeByChance
  <2>4. log' \in Seq(Entry) /\ queue' \in 0 .. QueueCap
    BY <2>2, <2>3, StoreType
  <2>5. at' \in 1 .. BufferCap + 1 /\ remainSize' \in 0 .. Len(buf) /\ at' > 1
    <3>1. \/ at' = at /\ remainSize' = remainSize
          \/ at' = at + 3 /\ remainSize' = at + 2
      BY <1>2 DEF TakeByChance
    <3>2. remainSize \in 0 .. Len(buf)
      BY DEF TypeOK
    <3>3. at \in 1 .. Len(buf) /\ Len(buf) <= BufferCap /\ Len(buf) \in Nat /\ BufferCap \in Nat
      BY <1>0, ParsingAt
    <3> QED
      BY <2>1, <2>2, <3>1, <3>2, <3>3
  <2>6. upsets' \in 0 .. MaxUpsets
    BY <1>2, UpsetType DEF TakeByChance
  <2>7. pc' \in {"parse", "loops"}
    BY <1>0, <1>2, ParsingAt DEF TakeByChance
  <2>8. TypeOK'
    BY <1>2, <2>4, <2>5, <2>6, <2>7 DEF TakeByChance, TypeOK, Entry
  <2>9. PcInv'
    BY <1>0, <1>2, <2>5, <2>7, ParsingAt DEF TakeByChance, PcInv
  <2> QED
    BY <2>8, <2>9
<1> QED
  BY <1>1, <1>2

LEMMA NumbersOfSub ==
    ASSUME NEW s \in Seq(Part), NEW i \in 1 .. Len(s), NEW j \in i .. Len(s)
    PROVE  /\ Numbers(SubSeq(s, i, j)) \subseteq 0 .. MaxFrames
           /\ \A p \in i .. j : s[p][1] \in Numbers(SubSeq(s, i, j))
<1> DEFINE t == SubSeq(s, i, j)
<1>1. t \in Seq(Part) /\ DOMAIN t = 1 .. j - i + 1 /\ \A q \in 1 .. j - i + 1 : t[q] = s[i + q - 1]
  OBVIOUS
<1> HIDE DEF t
<1>2. Numbers(t) \subseteq 0 .. MaxFrames
  BY <1>1, NumbersType
<1>3. ASSUME NEW p \in i .. j PROVE s[p][1] \in Numbers(t)
  <2>1. p - i + 1 \in 1 .. j - i + 1 /\ i + (p - i + 1) - 1 = p
    OBVIOUS
  <2>2. t[p - i + 1] = s[p] /\ p - i + 1 \in DOMAIN t
    BY <1>1, <2>1
  <2> QED
    BY <2>2 DEF Numbers
<1> QED
  BY <1>2, <1>3 DEF t

LEMMA PassType ==
    ASSUME TypeInv, RefuseFrame \/ FalseFrame \/ SkipByte
    PROVE  TypeInv'
<1> USE DEF TypeInv, deviceVars, parserVars, history
<1>0. Parsing
  BY DEF RefuseFrame, FalseFrame, SkipByte
<1>1. CASE RefuseFrame
  <2>1. at + 2 \in 1 .. Len(buf)
    BY <1>0, <1>1, ParsingAt, FrameIn DEF RefuseFrame
  <2>2. at' \in 1 .. BufferCap + 1 /\ remainSize' \in 0 .. Len(buf) /\ at' > 1
    BY <1>0, <1>1, <2>1, ParsingAt DEF RefuseFrame
  <2>3. TypeOK'
    BY <1>1, <2>2 DEF RefuseFrame, TypeOK
  <2>4. PcInv'
    BY <1>0, <1>1, <2>2, ParsingAt DEF RefuseFrame, PcInv
  <2> QED
    BY <2>3, <2>4
<1>2. CASE FalseFrame
  <2>1. PICK end \in at .. Len(buf) :
          /\ at' = end + 1 /\ remainSize' = end
          /\ hurt' = hurt \union Numbers(SubSeq(buf, at, end))
    BY <1>2 DEF FalseFrame
  <2>2. at' \in 1 .. BufferCap + 1 /\ remainSize' \in 0 .. Len(buf) /\ at' > 1
    BY <1>0, <2>1, ParsingAt
  <2>3. Numbers(SubSeq(buf, at, end)) \subseteq 0 .. MaxFrames
    BY <1>0, ParsingAt, NumbersOfSub
  <2>4. crowded' \union split' \union hurt' \subseteq 0 .. MaxFrames
    BY <1>2, <2>1, <2>3 DEF FalseFrame, TypeOK
  <2>5. upsets' \in 0 .. MaxUpsets
    BY <1>2, UpsetType DEF FalseFrame
  <2>6. TypeOK'
    BY <1>2, <2>2, <2>4, <2>5 DEF FalseFrame, TypeOK
  <2>7. PcInv'
    BY <1>0, <1>2, <2>2, ParsingAt DEF FalseFrame, PcInv
  <2> QED
    BY <2>6, <2>7
<1>3. CASE SkipByte
  <2>1. at' \in 1 .. BufferCap + 1 /\ at' > 1
    BY <1>0, <1>3, ParsingAt DEF SkipByte
  <2>2. TypeOK'
    BY <1>3, <2>1 DEF SkipByte, TypeOK
  <2>3. PcInv'
    BY <1>0, <1>3, <2>1, ParsingAt DEF SkipByte, PcInv
  <2> QED
    BY <2>2, <2>3
<1> QED
  BY <1>1, <1>2, <1>3

\* What is left of the buffer when a parser comes to its end.
LEMMA RestShape ==
    ASSUME TypeInv, EndParse \/ PlcKeep
    PROVE  LET m == IF kind = Plc THEN parsingSize ELSE remainSize IN
             /\ m \in 0 .. Len(buf)
             /\ buf' \in Seq(Part) /\ Len(buf') = Len(buf) - m
             /\ buf' = SubSeq(buf, m + 1, Len(buf))
             /\ Cut(buf' \o line, buf \o line, 0, m)
<1>1. buf \in Seq(Part) /\ line \in Seq(Part)
  BY DEF TypeInv, TypeOK
<1> DEFINE m == IF kind = Plc THEN parsingSize ELSE remainSize
<1>2. m \in 0 .. Len(buf)
  BY DEF TypeInv, TypeOK
<1>3. buf' = SubSeq(buf, m + 1, Len(buf))
  BY DEF EndParse, PlcKeep, Serial, Plc
<1> HIDE DEF m
<1>4. /\ buf' \in Seq(Part) /\ Len(buf') = Len(buf) - m
      /\ Cut(buf' \o line, buf \o line, 0, m)
  BY <1>1, <1>2, <1>3, DropFirst
<1> QED
  BY <1>2, <1>3, <1>4 DEF m

LEMMA EndType ==
    ASSUME TypeInv, EndParse \/ PlcKeep
    PROVE  TypeInv'
<1> USE DEF TypeInv, deviceVars, parserVars, history
<1>1. PICK m \in 0 .. Len(buf) : buf' \in Seq(Part) /\ Len(buf') = Len(buf) - m
  BY RestShape
<1>2. /\ Len(buf') <= BufferCap /\ parsingSize' \in 0 .. Len(buf')
      /\ remainSize' \in 0 .. Len(buf') /\ at' \in 1 .. BufferCap + 1
  <2>1. parsingSize' = 0 /\ remainSize' = 0 /\ (at' = at \/ at' = 1)
    BY DEF EndParse, PlcKeep
  <2>2. /\ at \in 1 .. BufferCap + 1 /\ BufferCap \in Nat
        /\ Len(buf) \in Nat /\ Len(buf) <= BufferCap
    BY FrameReadersAssumption DEF TypeOK
  <2> QED
    BY <1>1, <2>1, <2>2
<1>3. TypeOK'
  BY <1>1, <1>2 DEF EndParse, PlcKeep, TypeOK
<1>4. PcInv'
  BY DEF EndParse, PlcKeep, PcInv
<1> QED
  BY <1>3, <1>4

LEMMA PlcTakeType ==
    ASSUME TypeInv, PlcTake
    PROVE  TypeInv'
<1> USE DEF TypeInv, deviceVars, parserVars, history
<1>1. buf \in Seq(Part) /\ Len(buf) = 3
  BY DEF PlcTake, Is237, TypeOK
<1>2. buf[1] \in Part /\ buf[3] \in Part
  BY <1>1
<1>3. buf[1][1] \in 0 .. MaxFrames /\ buf[3][1] \in 0 .. MaxFrames
  BY <1>2, PartType, FrameReadersAssumption
<1>4. skewed \in BOOLEAN /\ Store(buf[1][1], buf[3][1], skewed)
  BY DEF PlcTake, TypeOK
<1>5. log' \in Seq(Entry) /\ queue' \in 0 .. QueueCap
  BY <1>3, <1>4, StoreType
<1>6. buf' \in Seq(Part) /\ Len(buf') = 0
  BY DEF PlcTake
<1>7. /\ Len(buf') <= BufferCap /\ parsingSize' \in 0 .. Len(buf')
      /\ remainSize' \in 0 .. Len(buf') /\ at' \in 1 .. BufferCap + 1
  BY <1>6, FrameReadersAssumption DEF PlcTake
<1>8. skewed' \in BOOLEAN
  BY DEF PlcTake
<1>9. TypeOK'
  BY <1>5, <1>6, <1>7, <1>8 DEF PlcTake, TypeOK, Entry
<1>10. PcInv'
  BY DEF PlcTake, PcInv
<1> QED
  BY <1>9, <1>10

LEMMA StepType == TypeInv /\ [Next]_vars => TypeInv'
<1> SUFFICES ASSUME TypeInv, [Next]_vars PROVE TypeInv'
  OBVIOUS
<1>1. CASE StartComm \/ StartUart \/ StartPlc \/ Ask \/ Consume
  BY <1>1, StartType
<1>2. CASE Accept \/ CloseSession
  BY <1>2, SessionType
<1>3. CASE SendFrame \/ MakeNoise
  BY <1>3, LineType
<1>4. CASE Receive
  BY <1>4, ReceiveType
<1>5. CASE ReceiveTooMuch \/ Discard
  BY <1>5, ThrowAwayType
<1>6. CASE TakeFirst \/ TakeByChance
  BY <1>6, TakeType
<1>7. CASE RefuseFrame \/ FalseFrame \/ SkipByte
  BY <1>7, PassType
<1>8. CASE EndParse \/ PlcKeep
  BY <1>8, EndType
<1>9. CASE PlcTake
  BY <1>9, PlcTakeType
<1>10. CASE UNCHANGED vars
  BY <1>10 DEF vars, deviceVars, parserVars, history, TypeInv, TypeOK, PcInv, Numbers
<1> QED
  BY <1>1, <1>2, <1>3, <1>4, <1>5, <1>6, <1>7, <1>8, <1>9, <1>10 DEF Next, Parse

\* The buffers never hold more than they can, the parser's indices stay inside
\* them, and the queue never holds more than it can: for all three programs.
THEOREM TypeCorrect == Spec => []TypeOK
<1>1. Init => TypeInv
  BY InitType
<1>2. TypeInv /\ [Next]_vars => TypeInv'
  BY StepType
<1>3. TypeInv => TypeOK
  BY DEF TypeInv
<1> QED
  BY <1>1, <1>2, <1>3, PTL DEF Spec

-----------------------------------------------------------------------------
(* What each step does to the stream.                                      *)

LEMMA StreamIs ==
    ASSUME TypeInv
    PROVE  /\ buf \in Seq(Part) /\ line \in Seq(Part) /\ Stream \in Seq(Part)
           /\ Len(Stream) = Len(buf) + Len(line) /\ Len(buf) \in Nat /\ Len(line) \in Nat
           /\ DOMAIN Stream = 1 .. Len(Stream) /\ DOMAIN buf = 1 .. Len(buf)
           /\ DOMAIN line = 1 .. Len(line)
           /\ \A i \in DOMAIN buf : i \in DOMAIN Stream /\ Stream[i] = buf[i]
           /\ \A i \in DOMAIN line : Len(buf) + i \in DOMAIN Stream /\ Stream[Len(buf) + i] = line[i]
           /\ \A i \in DOMAIN Stream :
                \/ i \in DOMAIN buf
                \/ i - Len(buf) \in DOMAIN line /\ Stream[i] = line[i - Len(buf)]
<1>1. buf \in Seq(Part) /\ line \in Seq(Part)
  BY DEF TypeInv, TypeOK
<1>2. /\ Stream \in Seq(Part) /\ Len(Stream) = Len(buf) + Len(line)
      /\ DOMAIN Stream = 1 .. Len(buf) + Len(line)
      /\ \A i \in 1 .. Len(buf) + Len(line) :
           Stream[i] = IF i <= Len(buf) THEN buf[i] ELSE line[i - Len(buf)]
  BY <1>1, Joined, Zenon DEF Stream
<1>3. /\ Len(buf) \in Nat /\ Len(line) \in Nat /\ DOMAIN buf = 1 .. Len(buf)
      /\ DOMAIN line = 1 .. Len(line)
  BY <1>1
<1>4. ASSUME NEW i \in DOMAIN buf PROVE i \in DOMAIN Stream /\ Stream[i] = buf[i]
  <2>1. i \in 1 .. Len(buf) + Len(line) /\ i <= Len(buf)
    BY <1>3
  <2> QED
    BY <1>2, <2>1
<1>5. ASSUME NEW i \in DOMAIN line
      PROVE  Len(buf) + i \in DOMAIN Stream /\ Stream[Len(buf) + i] = line[i]
  <2>1. /\ Len(buf) + i \in 1 .. Len(buf) + Len(line) /\ ~(Len(buf) + i <= Len(buf))
        /\ (Len(buf) + i) - Len(buf) = i
    BY <1>3
  <2>2. Stream[Len(buf) + i] = line[(Len(buf) + i) - Len(buf)]
    BY <1>2, <2>1
  <2> QED
    BY <1>2, <2>1, <2>2
<1>6. ASSUME NEW i \in DOMAIN Stream
      PROVE  \/ i \in DOMAIN buf
             \/ i - Len(buf) \in DOMAIN line /\ Stream[i] = line[i - Len(buf)]
  <2>1. i \in 1 .. Len(buf) + Len(line)
    BY <1>2
  <2>2. CASE i <= Len(buf)
    BY <1>3, <2>1, <2>2
  <2>3. CASE ~(i <= Len(buf))
    <3>1. Stream[i] = line[i - Len(buf)]
      BY <1>2, <2>1, <2>3
    <3>2. i - Len(buf) \in DOMAIN line
      BY <1>3, <2>1, <2>3
    <3> QED
      BY <3>1, <3>2
  <2> QED
    BY <2>2, <2>3
<1>7. DOMAIN Stream = 1 .. Len(Stream)
  BY <1>2
<1> QED
  BY <1>1, <1>2, <1>3, <1>4, <1>5, <1>6, <1>7

LEMMA StreamNext ==
    ASSUME TypeInv'
    PROVE  /\ Stream' \in Seq(Part) /\ Len(Stream') = Len(buf') + Len(line')
           /\ DOMAIN Stream' = 1 .. Len(Stream') /\ DOMAIN buf' = 1 .. Len(buf')
           /\ Len(buf') \in Nat /\ Len(line') \in Nat
           /\ \A i \in DOMAIN buf' : i \in DOMAIN Stream' /\ Stream'[i] = buf'[i]
<1>1. buf' \in Seq(Part) /\ line' \in Seq(Part)
  BY DEF TypeInv, TypeOK
<1>2. /\ Stream' \in Seq(Part) /\ Len(Stream') = Len(buf') + Len(line')
      /\ DOMAIN Stream' = 1 .. Len(buf') + Len(line')
      /\ \A i \in 1 .. Len(buf') + Len(line') :
           Stream'[i] = IF i <= Len(buf') THEN buf'[i] ELSE line'[i - Len(buf')]
  BY <1>1, Joined, Zenon DEF Stream
<1>3. Len(buf') \in Nat /\ Len(line') \in Nat /\ DOMAIN buf' = 1 .. Len(buf')
  BY <1>1
<1>4. ASSUME NEW i \in DOMAIN buf' PROVE i \in DOMAIN Stream' /\ Stream'[i] = buf'[i]
  <2>1. i \in 1 .. Len(buf') + Len(line') /\ i <= Len(buf')
    BY <1>3
  <2> QED
    BY <1>2, <2>1
<1>5. DOMAIN Stream' = 1 .. Len(Stream')
  BY <1>2
<1> QED
  BY <1>2, <1>3, <1>4, <1>5

StreamStays ==
    \/ StartComm \/ StartUart \/ StartPlc \/ Ask \/ Consume \/ Receive
    \/ TakeFirst \/ RefuseFrame \/ TakeByChance \/ FalseFrame \/ SkipByte

LEMMA StreamKept ==
    ASSUME TypeInv, StreamStays
    PROVE  Stream' = Stream /\ sent' = sent /\ kind' = kind
<1>1. CASE Receive
  <2>1. PICK n \in 1 .. Len(line) :
          buf' = buf \o SubSeq(line, 1, n) /\ line' = SubSeq(line, n + 1, Len(line))
    BY <1>1, ReadShape
  <2>2. buf' \o line' = buf \o line
    BY <2>1, ReadSame, StreamIs
  <2> QED
    BY <1>1, <2>2 DEF Receive, Stream
<1>2. CASE StartComm \/ StartUart \/ StartPlc \/ Ask \/ Consume
  BY <1>2 DEF StartComm, StartUart, StartPlc, Ask, Consume, deviceVars, parserVars, Stream
<1>3. CASE TakeFirst \/ RefuseFrame \/ TakeByChance
  BY <1>3 DEF TakeFirst, RefuseFrame, TakeByChance, deviceVars, Stream
<1>4. CASE FalseFrame \/ SkipByte
  BY <1>4 DEF FalseFrame, SkipByte, deviceVars, Stream
<1> QED
  BY <1>1, <1>2, <1>3, <1>4 DEF StreamStays

LEMMA AllGone ==
    ASSUME NEW s \in Seq(Part)
    PROVE  SubSeq(s, Len(s) + 1, Len(s)) = <<>> /\ Len(s) \in 0 .. Len(s)
<1>1. Len(s) \in 0 .. Len(s)
  OBVIOUS
<1>2. SubSeq(s, Len(s) + 1, Len(s)) \in Seq(Part) /\ Len(SubSeq(s, Len(s) + 1, Len(s))) = 0
  BY <1>1, Suffix
<1> QED
  BY <1>1, <1>2, EmptySeq

LEMMA StreamCut ==
    ASSUME TypeInv
    PROVE  /\ CloseSession \/ Discard =>
                Cut(Stream', Stream, Len(buf), Len(line)) /\ sent' = sent /\ kind' = kind
           /\ ReceiveTooMuch =>
                /\ Cut(Stream', Stream, Len(buf), ReadCap) /\ sent' = sent /\ kind' = kind
                /\ ReadCap \in 1 .. Len(line)
           /\ EndParse => Cut(Stream', Stream, 0, remainSize) /\ sent' = sent /\ kind' = kind
           /\ PlcKeep => Cut(Stream', Stream, 0, parsingSize) /\ sent' = sent /\ kind' = kind
           /\ PlcTake \/ Accept => Cut(Stream', Stream, 0, Len(buf)) /\ sent' = sent /\ kind' = kind
<1> USE DEF deviceVars, parserVars
<1>0. buf \in Seq(Part) /\ line \in Seq(Part)
  BY StreamIs
<1>1. ASSUME CloseSession \/ Discard
      PROVE  Cut(Stream', Stream, Len(buf), Len(line)) /\ sent' = sent /\ kind' = kind
  <2>1. line' = SubSeq(line, Len(line) + 1, Len(line)) /\ buf' = buf /\ sent' = sent /\ kind' = kind
    BY <1>0, <1>1, AllGone DEF CloseSession, Discard
  <2> QED
    BY <1>0, <2>1, AllGone, DropBehind DEF Stream
<1>2. ASSUME ReceiveTooMuch
      PROVE  /\ Cut(Stream', Stream, Len(buf), ReadCap) /\ sent' = sent /\ kind' = kind
             /\ ReadCap \in 1 .. Len(line)
  <2>1. line' = SubSeq(line, ReadCap + 1, Len(line)) /\ buf' = buf /\ sent' = sent /\ kind' = kind
    BY <1>2 DEF ReceiveTooMuch
  <2>2. ReadCap \in 1 .. Len(line) /\ ReadCap \in 0 .. Len(line)
    BY <1>0, <1>2, FrameReadersAssumption DEF ReceiveTooMuch
  <2> QED
    BY <1>0, <2>1, <2>2, DropBehind DEF Stream
<1>3. ASSUME EndParse
      PROVE  Cut(Stream', Stream, 0, remainSize) /\ sent' = sent /\ kind' = kind
  <2>1. kind # Plc /\ line' = line /\ sent' = sent /\ kind' = kind
    BY <1>3 DEF EndParse, Serial, Plc
  <2> QED
    BY <1>3, <2>1, RestShape DEF Stream
<1>4. ASSUME PlcKeep
      PROVE  Cut(Stream', Stream, 0, parsingSize) /\ sent' = sent /\ kind' = kind
  <2>1. kind = Plc /\ line' = line /\ sent' = sent /\ kind' = kind
    BY <1>4 DEF PlcKeep
  <2> QED
    BY <1>4, <2>1, RestShape DEF Stream
<1>5. ASSUME PlcTake \/ Accept
      PROVE  Cut(Stream', Stream, 0, Len(buf)) /\ sent' = sent /\ kind' = kind
  <2>1. buf' = SubSeq(buf, Len(buf) + 1, Len(buf)) /\ line' = line /\ sent' = sent /\ kind' = kind
    BY <1>0, <1>5, AllGone DEF PlcTake, Accept
  <2> QED
    BY <1>0, <2>1, AllGone, DropFirst DEF Stream
<1> QED
  BY <1>1, <1>2, <1>3, <1>4, <1>5

LEMMA StreamGrown ==
    ASSUME TypeInv
    PROVE  /\ SendFrame =>
                \E form \in Form, k \in 2 .. 3 :
                    /\ sent' = Append(sent, form) /\ kind' = kind
                    /\ form = "whole" => k = 3
                    /\ form # "whole" => kind \in Serial
                    /\ Len(sent) + 1 \in 1 .. MaxFrames
                    /\ Grown(Stream', Stream) /\ Len(Stream') = Len(Stream) + k
                    /\ \A p \in 1 .. k : Stream'[Len(Stream) + p] = <<Len(sent) + 1, p>>
           /\ MakeNoise =>
                /\ sent' = sent /\ kind' = kind /\ kind \in Serial
                /\ Grown(Stream', Stream) /\ Len(Stream') = Len(Stream) + 1
                /\ Stream'[Len(Stream) + 1] = Noise
<1> USE DEF deviceVars, parserVars
<1>0. buf \in Seq(Part) /\ line \in Seq(Part)
  BY StreamIs
<1>1. ASSUME SendFrame
      PROVE  \E form \in Form, k \in 2 .. 3 :
                    /\ sent' = Append(sent, form) /\ kind' = kind
                    /\ form = "whole" => k = 3
                    /\ form # "whole" => kind \in Serial
                    /\ Len(sent) + 1 \in 1 .. MaxFrames
                    /\ Grown(Stream', Stream) /\ Len(Stream') = Len(Stream) + k
                    /\ \A p \in 1 .. k : Stream'[Len(Stream) + p] = <<Len(sent) + 1, p>>
  <2>1. PICK form \in Form :
             /\ sent' = Append(sent, form)
             /\ SendsParts(IF form = "cut" THEN 2 ELSE 3)
             /\ form # "whole" => kind \in Serial
             /\ Len(sent) + 1 \in 1 .. MaxFrames
    BY <1>1, SendShape DEF TypeInv
  <2> DEFINE k == IF form = "cut" THEN 2 ELSE 3
             t == [p \in 1 .. k |-> <<Len(sent) + 1, p>>]
  <2>2. k \in 2 .. 3 /\ line' = line \o t /\ (form = "whole" => k = 3)
    BY <2>1 DEF SendsParts
  <2> HIDE DEF k
  <2>3. t \in Seq(Part) /\ Len(t) = k /\ \A p \in 1 .. k : t[p] = <<Len(sent) + 1, p>>
    BY <2>1, <2>2, NewParts
  <2> HIDE DEF t
  <2>4. buf' = buf /\ kind' = kind
    BY <1>1 DEF SendFrame
  <2>5. Stream' = buf \o (line \o t)
    BY <2>2, <2>4 DEF Stream
  <2>6. /\ Grown(buf \o (line \o t), buf \o line)
        /\ Len(buf \o (line \o t)) = Len(buf \o line) + Len(t)
        /\ \A i \in 1 .. Len(t) : (buf \o (line \o t))[Len(buf \o line) + i] = t[i]
    BY <1>0, <2>3, GrowBehind, Zenon
  <2>7. /\ Grown(Stream', Stream) /\ Len(Stream') = Len(Stream) + k
        /\ \A i \in 1 .. k : Stream'[Len(Stream) + i] = <<Len(sent) + 1, i>>
    <3>1. /\ Grown(Stream', Stream) /\ Len(Stream') = Len(Stream) + Len(t)
          /\ \A i \in 1 .. Len(t) : Stream'[Len(Stream) + i] = t[i]
      BY <2>5, <2>6, Zenon DEF Stream
    <3> QED
      BY <2>3, <3>1
  <2> QED
    BY <2>1, <2>2, <2>4, <2>7
<1>2. ASSUME MakeNoise
      PROVE  /\ sent' = sent /\ kind' = kind /\ kind \in Serial
             /\ Grown(Stream', Stream) /\ Len(Stream') = Len(Stream) + 1
             /\ Stream'[Len(Stream) + 1] = Noise
  <2> DEFINE t == <<Noise>>
  <2>1. t \in Seq(Part) /\ Len(t) = 1 /\ t[1] = Noise
    BY DEF Part
  <2>2. line' = line \o t
    BY <1>0, <1>2, <2>1 DEF MakeNoise, Part
  <2>3. buf' = buf /\ sent' = sent /\ kind' = kind /\ kind \in Serial
    BY <1>2 DEF MakeNoise
  <2> HIDE DEF t
  <2>4. Stream' = buf \o (line \o t)
    BY <2>2, <2>3 DEF Stream
  <2>5. /\ Grown(buf \o (line \o t), buf \o line)
        /\ Len(buf \o (line \o t)) = Len(buf \o line) + Len(t)
        /\ \A i \in 1 .. Len(t) : (buf \o (line \o t))[Len(buf \o line) + i] = t[i]
    BY <1>0, <2>1, GrowBehind, Zenon
  <2>6. /\ Grown(Stream', Stream) /\ Len(Stream') = Len(Stream) + Len(t)
        /\ \A i \in 1 .. Len(t) : Stream'[Len(Stream) + i] = t[i]
    BY <2>4, <2>5, Zenon DEF Stream
  <2>7. Len(Stream') = Len(Stream) + 1 /\ Stream'[Len(Stream) + 1] = Noise
    BY <2>1, <2>6
  <2> QED
    BY <2>3, <2>6, <2>7
<1> QED
  BY <1>1, <1>2

-----------------------------------------------------------------------------
(* The order of the parts.                                                 *)

StreamInv == Sorted(Stream, Len(sent))

LEMMA SortedGrown ==
    ASSUME NEW s \in Seq(Part), NEW t \in Seq(Part), NEW n \in Nat, Sorted(s, n),
           Grown(t, s), NEW k \in 2 .. 3, Len(t) = Len(s) + k,
           \A p \in 1 .. k : t[Len(s) + p] = <<n + 1, p>>
    PROVE  Sorted(t, n + 1)
<1>1. DOMAIN s = 1 .. Len(s) /\ DOMAIN t = 1 .. Len(t) /\ Len(s) \in Nat /\ Len(t) \in Nat
  OBVIOUS
<1>2. \A i \in DOMAIN s : t[i] = s[i]
  BY <1>1 DEF Grown
<1>3. ASSUME NEW i \in DOMAIN t, i \notin DOMAIN s
      PROVE  i - Len(s) \in 1 .. k /\ t[i] = <<n + 1, i - Len(s)>>
  <2>1. i - Len(s) \in 1 .. k /\ Len(s) + (i - Len(s)) = i
    BY <1>1, <1>3
  <2> QED
    BY <2>1
<1>4. \A i \in DOMAIN s : s[i][1] \in Nat /\ s[i][1] <= n
  BY PartType DEF Sorted
<1>5. \A i \in DOMAIN t : t[i][1] <= n + 1
  BY <1>2, <1>3, <1>4
<1>6. ASSUME NEW i \in DOMAIN t, NEW j \in DOMAIN t, i < j, t[i] # Noise, t[j] # Noise
      PROVE  Before(t[i], t[j])
  <2>1. CASE j \in DOMAIN s
    <3>1. i \in DOMAIN s
      BY <1>1, <1>6, <2>1
    <3> QED
      BY <1>2, <1>6, <2>1, <3>1 DEF Sorted
  <2>2. CASE i \in DOMAIN s /\ j \notin DOMAIN s
    <3>1. t[j][1] = n + 1 /\ t[i][1] \in Nat /\ t[i][1] <= n
      BY <1>2, <1>3, <1>4, <2>2
    <3> QED
      BY <3>1 DEF Before
  <2>3. CASE i \notin DOMAIN s /\ j \notin DOMAIN s
    <3>1. t[i][1] = n + 1 /\ t[j][1] = n + 1 /\ t[i][2] = i - Len(s) /\ t[j][2] = j - Len(s)
      BY SMTT(30), <1>3, <2>3
    <3>2. i - Len(s) < j - Len(s)
      BY <1>1, <1>6
    <3>3. t[i][2] < t[j][2] /\ t[i][1] = t[j][1]
      BY <3>1, <3>2
    <3> QED
      BY <3>3, Zenon DEF Before
  <2> QED
    BY <2>1, <2>2, <2>3
<1> QED
  BY <1>5, <1>6 DEF Sorted

LEMMA SortedNoise ==
    ASSUME NEW s \in Seq(Part), NEW t \in Seq(Part), NEW n \in Nat, Sorted(s, n),
           Grown(t, s), Len(t) = Len(s) + 1, t[Len(s) + 1] = Noise
    PROVE  Sorted(t, n)
<1>1. DOMAIN s = 1 .. Len(s) /\ DOMAIN t = 1 .. Len(t) /\ Len(s) \in Nat /\ Len(t) \in Nat
  OBVIOUS
<1>2. \A i \in DOMAIN s : t[i] = s[i]
  BY <1>1 DEF Grown
<1>3. \A i \in DOMAIN t : i \in DOMAIN s \/ t[i] = Noise
  BY <1>1
<1>4. Noise[1] = 0
  BY DEF Noise
<1>5. \A i \in DOMAIN t : t[i][1] <= n
  BY <1>2, <1>3, <1>4 DEF Sorted
<1> QED
  BY <1>2, <1>3, <1>5 DEF Sorted

LEMMA SentLength == ASSUME TypeInv PROVE sent \in Seq(Form) /\ Len(sent) \in Nat /\ DOMAIN sent = 1 .. Len(sent)
  BY DEF TypeInv, TypeOK

LEMMA StreamSorted ==
    ASSUME TypeInv, TypeInv', StreamInv, [Next]_vars
    PROVE  StreamInv'
<1>0. Stream \in Seq(Part) /\ Stream' \in Seq(Part) /\ Len(sent) \in Nat /\ sent \in Seq(Form)
  BY StreamIs, StreamNext, SentLength
<1>1. CASE StreamStays \/ UNCHANGED vars
  <2>1. Stream' = Stream /\ sent' = sent
    BY <1>1, StreamKept DEF vars, deviceVars, parserVars, Stream
  <2> QED
    BY <2>1 DEF StreamInv
<1>2. CASE \/ CloseSession \/ Discard \/ ReceiveTooMuch \/ EndParse \/ PlcKeep \/ PlcTake \/ Accept
  <2>1. sent' = sent /\ \E k, m : Cut(Stream', Stream, k, m)
    BY <1>2, StreamCut
  <2> QED
    BY <1>0, <2>1, CutSorted DEF StreamInv
<1>3. CASE SendFrame
  <2>1. PICK form \in Form, k \in 2 .. 3 :
          /\ sent' = Append(sent, form)
          /\ Grown(Stream', Stream) /\ Len(Stream') = Len(Stream) + k
          /\ \A p \in 1 .. k : Stream'[Len(Stream) + p] = <<Len(sent) + 1, p>>
    BY <1>3, StreamGrown
  <2>2. Sorted(Stream', Len(sent) + 1)
    BY <1>0, <2>1, SortedGrown DEF StreamInv
  <2>3. Len(sent') = Len(sent) + 1
    BY <1>0, <2>1
  <2> QED
    BY <2>2, <2>3 DEF StreamInv
<1>4. CASE MakeNoise
  <2>1. /\ sent' = sent
        /\ Grown(Stream', Stream) /\ Len(Stream') = Len(Stream) + 1
        /\ Stream'[Len(Stream) + 1] = Noise
    BY <1>4, StreamGrown
  <2>2. Sorted(Stream', Len(sent))
    BY <1>0, <2>1, SortedNoise DEF StreamInv
  <2> QED
    BY <2>1, <2>2 DEF StreamInv
<1> QED
  BY <1>1, <1>2, <1>3, <1>4 DEF Next, Parse, StreamStays

-----------------------------------------------------------------------------
(* The log: what is in it is behind what is still to come.                 *)

LogInv == \A i \in DOMAIN log : log[i].first \in DOMAIN sent /\ log[i].last \in DOMAIN sent

\* Serial programs, except when UartManager is caught in its loop.
Ahead(x) == \A i \in DOMAIN log : log[i].last < x[1]

SerialInv ==
    kind \in Serial =>
        /\ pc # "loops" =>
            \A p \in DOMAIN Stream : p > remainSize /\ Begins(Stream, p) => Ahead(Stream[p])
        /\ pc = "parse" => \A p \in at .. remainSize : ~Begins(buf, p)

\* PLCS-12: its stream has no holes inside a read, and until it gets out of
\* step the buffer holds one frame from its beginning.
PlcInv ==
    kind = Plc =>
        /\ \A n \in DOMAIN sent : sent[n] = "whole"
        /\ \A p \in DOMAIN Stream : Stream[p] # Noise
        /\ ~skewed => /\ \A p \in DOMAIN buf : buf[p][1] = buf[1][1]
                      /\ buf # <<>> => buf[1][2] = 1
                      /\ parsingSize = 0 \/ Len(buf) = 3
        /\ \A p \in DOMAIN Stream, i \in DOMAIN log :
             \/ log[i].last < Stream[p][1]
             \/ log[i].last = Stream[p][1] /\ log[i].odd /\ skewed

OrderInv == TypeInv /\ StreamInv /\ LogInv /\ SerialInv /\ PlcInv /\ SoundInOrder

LEMMA LogType ==
    ASSUME TypeInv
    PROVE  /\ log \in Seq(Entry) /\ DOMAIN log = 1 .. Len(log) /\ Len(log) \in Nat
           /\ \A i \in DOMAIN log : log[i].first \in Nat /\ log[i].last \in Nat /\ log[i].odd \in BOOLEAN
<1>1. log \in Seq(Entry)
  BY DEF TypeInv, TypeOK, Entry
<1>2. \A i \in DOMAIN log : log[i] \in Entry
  BY <1>1
<1>3. \A i \in DOMAIN log : log[i].first \in Nat /\ log[i].last \in Nat /\ log[i].odd \in BOOLEAN
  BY <1>2, FrameReadersAssumption DEF Entry
<1> QED
  BY <1>1, <1>3

LEMMA LogGrows ==
    ASSUME TypeInv, NEW f, NEW l, NEW o, Store(f, l, o)
    PROVE  /\ DOMAIN log' = DOMAIN log \union {Len(log) + 1} /\ Len(log) + 1 \notin DOMAIN log
           /\ \A i \in DOMAIN log : log'[i] = log[i]
           /\ log'[Len(log) + 1].first = f /\ log'[Len(log) + 1].last = l
           /\ log'[Len(log) + 1].odd = o
<1> DEFINE e == [first |-> f, last |-> l, odd |-> o]
<1>1. log' = Append(log, e) /\ log \in Seq(Entry)
  BY LogType DEF Store
<1>2. e.first = f /\ e.last = l /\ e.odd = o
  OBVIOUS
<1> HIDE DEF e
<1>3. DOMAIN log = 1 .. Len(log) /\ Len(log) \in Nat
  BY <1>1
<1>4. DOMAIN log' = 1 .. Len(log) + 1 /\ log'[Len(log) + 1] = e
      /\ \A i \in 1 .. Len(log) : log'[i] = log[i]
  BY <1>1
<1>5. /\ DOMAIN log' = DOMAIN log \union {Len(log) + 1} /\ Len(log) + 1 \notin DOMAIN log
  BY <1>3, <1>4
<1> QED
  BY <1>2, <1>3, <1>4, <1>5

Takes == TakeFirst \/ TakeByChance \/ PlcTake

\* Sending a frame changes nothing of the frames sent before.
LEMMA SentKept ==
    ASSUME TypeInv, [Next]_vars
    PROVE  \A n \in DOMAIN sent : n \in DOMAIN sent' /\ sent'[n] = sent[n]
<1>1. CASE SendFrame
  <2>1. PICK form \in Form : sent' = Append(sent, form)
    BY <1>1, StreamGrown
  <2> QED
    BY <2>1, SentLength
<1>2. CASE ~SendFrame
  <2>1. sent' = sent
    BY <1>2, StreamKept, StreamCut, StreamGrown
    DEF Next, Parse, StreamStays, vars, deviceVars
  <2> QED
    BY <2>1
<1> QED
  BY <1>1, <1>2

LEMMA LogKept ==
    ASSUME TypeInv, [Next]_vars, ~Takes
    PROVE  log' = log
<1> USE DEF history
<1>1. CASE StartComm \/ StartUart \/ StartPlc \/ Ask \/ Consume \/ Accept \/ CloseSession
  BY <1>1 DEF StartComm, StartUart, StartPlc, Ask, Consume, Accept, CloseSession
<1>2. CASE SendFrame \/ MakeNoise \/ Receive \/ ReceiveTooMuch \/ Discard
  BY <1>2 DEF SendFrame, MakeNoise, Receive, ReceiveTooMuch, Discard
<1>3. CASE RefuseFrame \/ FalseFrame \/ SkipByte \/ EndParse \/ PlcKeep
  BY <1>3 DEF RefuseFrame, FalseFrame, SkipByte, EndParse, PlcKeep
<1>4. CASE UNCHANGED vars
  BY <1>4 DEF vars
<1> QED
  BY <1>1, <1>2, <1>3, <1>4 DEF Next, Parse, Takes

LEMMA OrderKept ==
    ASSUME TypeInv, [Next]_vars, ~Takes, LogInv, SoundInOrder
    PROVE  LogInv' /\ SoundInOrder'
<1>1. log' = log
  BY LogKept
<1>2. \A n \in DOMAIN sent : n \in DOMAIN sent' /\ sent'[n] = sent[n]
  BY SentKept
<1>3. LogInv'
  BY <1>1, <1>2 DEF LogInv
<1>4. ASSUME NEW i \in DOMAIN log', ~log'[i].odd
      PROVE  log'[i].first = log'[i].last /\ sent'[log'[i].first] = "whole"
  BY <1>1, <1>2, <1>4 DEF LogInv, SoundInOrder
<1>5. SoundInOrder'
  BY <1>1, <1>4 DEF SoundInOrder
<1> QED
  BY <1>3, <1>5

\* A new entry of the log that is behind what the log tells.
LEMMA OrderTaken ==
    ASSUME TypeInv, LogInv, SoundInOrder, sent' = sent,
           NEW f \in DOMAIN sent, NEW l \in DOMAIN sent, NEW o \in BOOLEAN, Store(f, l, o),
           ~o => f = l /\ sent[f] = "whole",
           \A i \in DOMAIN log : log[i].last < f \/ (log[i].last = f /\ log[i].odd /\ o)
    PROVE  LogInv' /\ SoundInOrder'
<1> DEFINE e == Len(log) + 1
<1>1. /\ DOMAIN log' = DOMAIN log \union {e} /\ e \notin DOMAIN log
      /\ \A i \in DOMAIN log : log'[i] = log[i]
      /\ log'[e].first = f /\ log'[e].last = l /\ log'[e].odd = o
  BY LogGrows
<1>2. DOMAIN log = 1 .. Len(log) /\ Len(log) \in Nat
  BY LogType
<1>3. \A i \in DOMAIN log : \A j \in 1 .. i - 1 : j \in DOMAIN log
  BY <1>2
<1>4. \A j \in 1 .. e - 1 : j \in DOMAIN log
  BY <1>2
<1> HIDE DEF e
<1>5. LogInv'
  BY <1>1 DEF LogInv
<1>6. ASSUME NEW i \in DOMAIN log', ~log'[i].odd
      PROVE  log'[i].first = log'[i].last /\ sent'[log'[i].first] = "whole"
  BY <1>1, <1>6 DEF SoundInOrder
<1>7. ASSUME NEW i \in DOMAIN log', NEW j \in 1 .. i - 1
      PROVE  \/ log'[j].last < log'[i].first
             \/ log'[j].last = log'[i].first /\ log'[i].odd /\ log'[j].odd
  BY <1>1, <1>3, <1>4 DEF SoundInOrder
<1> QED
  BY <1>5, <1>6, <1>7 DEF SoundInOrder

LEMMA SentBehind ==
    ASSUME TypeInv, LogInv
    PROVE  \A i \in DOMAIN log : log[i].last < Len(sent) + 1
  BY SentLength DEF LogInv

\* Steps of the environment, and reads.
LEMMA SerialOutside ==
    ASSUME OrderInv, TypeInv', [Next]_vars, kind \in Serial,
           \/ StartComm \/ StartUart \/ StartPlc \/ Ask \/ Consume \/ UNCHANGED vars
           \/ SendFrame \/ MakeNoise \/ Receive \/ Discard
    PROVE  SerialInv'
<1> USE DEF OrderInv, deviceVars, parserVars
<1>0. /\ DOMAIN Stream = 1 .. Len(Stream) /\ Len(Stream) \in Nat
      /\ DOMAIN Stream' = 1 .. Len(Stream') /\ Len(Stream') \in Nat
  BY StreamIs, StreamNext
<1>1. log' = log
  <2>1. ~Takes
    BY DEF Takes, StartComm, StartUart, StartPlc, Ask, Consume, vars, SendFrame, MakeNoise,
           Receive, Discard, Deaf, TakeFirst, TakeByChance, PlcTake, Parsing, Store
  <2> QED
    BY <2>1, LogKept
<1>2. CASE StartComm \/ StartUart \/ StartPlc \/ Ask \/ Consume \/ UNCHANGED vars
  <2>1. /\ Stream' = Stream /\ kind' = kind /\ buf' = buf /\ at' = at /\ remainSize' = remainSize
        /\ pc' = "loops" <=> pc = "loops"
        /\ pc' = "parse" <=> pc = "parse"
    BY <1>2 DEF StartComm, StartUart, StartPlc, Ask, Consume, vars, Stream
  <2> QED
    BY <1>1, <2>1 DEF SerialInv, Ahead, Begins
<1>3. CASE SendFrame
  <2>1. PICK form \in Form, k \in 2 .. 3 :
          /\ kind' = kind
          /\ Grown(Stream', Stream) /\ Len(Stream') = Len(Stream) + k
          /\ \A p \in 1 .. k : Stream'[Len(Stream) + p] = <<Len(sent) + 1, p>>
    BY <1>3, StreamGrown
  <2>2. pc' = pc /\ buf' = buf /\ at' = at /\ remainSize' = remainSize /\ pc # "loops"
    BY <1>3 DEF SendFrame
  <2>3. ASSUME NEW p \in DOMAIN Stream', p > remainSize, Begins(Stream', p)
        PROVE  \A i \in DOMAIN log : log[i].last < Stream'[p][1]
    <3>1. CASE p \in DOMAIN Stream
      <4>1. Stream'[p] = Stream[p]
        BY <1>0, <2>1, <3>1 DEF Grown
      <4> QED
        BY <2>2, <2>3, <3>1, <4>1 DEF SerialInv, Ahead, Begins
    <3>2. CASE p \notin DOMAIN Stream
      <4>1. p - Len(Stream) \in 1 .. k /\ Len(Stream) + (p - Len(Stream)) = p
        BY <1>0, <2>1, <3>2
      <4>2. Stream'[p][1] = Len(sent) + 1
        BY <2>1, <4>1
      <4> QED
        BY <4>2, SentBehind
    <3> QED
      BY <3>1, <3>2
  <2> QED
    BY <1>1, <2>1, <2>2, <2>3 DEF SerialInv, Ahead, Begins
<1>4. CASE MakeNoise
  <2>1. /\ kind' = kind
        /\ Grown(Stream', Stream) /\ Len(Stream') = Len(Stream) + 1
        /\ Stream'[Len(Stream) + 1] = Noise
    BY <1>4, StreamGrown
  <2>2. pc' = pc /\ buf' = buf /\ at' = at /\ remainSize' = remainSize /\ pc # "loops"
    BY <1>4 DEF MakeNoise
  <2>3. ASSUME NEW p \in DOMAIN Stream', p > remainSize, Begins(Stream', p)
        PROVE  \A i \in DOMAIN log : log[i].last < Stream'[p][1]
    <3>1. p \in DOMAIN Stream
      BY <1>0, <2>1, <2>3 DEF Begins
    <3>2. Stream'[p] = Stream[p]
      BY <1>0, <2>1, <3>1 DEF Grown
    <3> QED
      BY <2>2, <2>3, <3>1, <3>2 DEF SerialInv, Ahead, Begins
  <2> QED
    BY <1>1, <2>1, <2>2, <2>3 DEF SerialInv, Ahead, Begins
<1>5. CASE Receive
  <2>1. Stream' = Stream /\ kind' = kind
    BY <1>5, StreamKept DEF StreamStays
  <2>2. /\ pc = "recv" /\ pc' = "parse" /\ at' = 1 /\ remainSize' = 0
    BY <1>5 DEF Receive
  <2>3. remainSize = 0
    BY <2>2 DEF TypeInv, PcInv
  <2>4. 1 .. 0 = {}
    OBVIOUS
  <2> QED
    BY <1>1, <2>1, <2>2, <2>3, <2>4 DEF SerialInv, Ahead, Begins
<1>6. CASE Discard
  <2>1. Cut(Stream', Stream, Len(buf), Len(line)) /\ kind' = kind
    BY <1>6, StreamCut
  <2>2. pc' = pc /\ pc = "recv" /\ remainSize' = remainSize
    BY <1>6 DEF Discard, Deaf
  <2>3. remainSize = 0
    BY <2>2 DEF TypeInv, PcInv
  <2>4. ASSUME NEW p \in DOMAIN Stream', Begins(Stream', p)
        PROVE  \A i \in DOMAIN log : log[i].last < Stream'[p][1]
    <3>1. PICK q \in DOMAIN Stream : Stream'[p] = Stream[q]
      <4>1. Stream \in Seq(Part) /\ Stream' \in Seq(Part)
        BY StreamIs, StreamNext
      <4>2. \A i \in DOMAIN Stream' : \E j \in DOMAIN Stream : Stream'[i] = Stream[j]
        BY <2>1, <4>1, CutIn
      <4> QED
        BY <4>2
    <3>2. q > remainSize
      BY <1>0, <2>3
    <3> QED
      BY <2>2, <2>4, <3>1, <3>2 DEF SerialInv, Ahead, Begins
  <2> QED
    BY <1>1, <2>1, <2>2, <2>3, <2>4 DEF SerialInv, Ahead, Begins
<1> QED
  BY <1>2, <1>3, <1>4, <1>5, <1>6

\* Where the parser stands, no frame of the log begins any more.
LEMMA ParserAhead ==
    ASSUME OrderInv, Parsing, FrameAt(buf, at)
    PROVE  /\ at > remainSize /\ at \in DOMAIN Stream /\ buf[at] = Stream[at]
           /\ Lies(Stream, buf[at][1], at) /\ Begins(Stream, at)
           /\ buf[at][1] \in 1 .. MaxFrames /\ buf[at][1] \in DOMAIN sent
           /\ Ahead(Stream[at])
           /\ \A p \in DOMAIN Stream : p > at /\ Begins(Stream, p) =>
                p > at + 2 /\ p > remainSize /\ buf[at][1] < Stream[p][1]
<1> USE DEF OrderInv
<1>1. /\ buf \in Seq(Part) /\ at \in DOMAIN buf /\ at \in 1 .. Len(buf) /\ kind \in Serial
      /\ pc = "parse" /\ Len(buf) \in Nat
  BY ParsingAt
<1>2. Lies(buf, buf[at][1], at) /\ Begins(buf, at) /\ buf[at][1] \in 1 .. MaxFrames
  BY <1>1, FrameLies
<1>3. Stream \in Seq(Part) /\ \A i \in DOMAIN buf : i \in DOMAIN Stream /\ Stream[i] = buf[i]
  BY StreamIs
<1>4. remainSize \in 0 .. Len(buf)
  BY DEF TypeInv, TypeOK
<1>5. at > remainSize
  <2>1. at \notin at .. remainSize
    BY <1>1, <1>2 DEF SerialInv
  <2> QED
    BY <1>1, <1>4, <2>1
<1>6. Lies(Stream, buf[at][1], at) /\ Begins(Stream, at)
  BY <1>1, <1>2, <1>3 DEF Lies, Begins
<1>7. Ahead(Stream[at])
  BY <1>1, <1>3, <1>5, <1>6 DEF SerialInv
<1>8. buf[at][1] \in DOMAIN sent
  <2>1. Stream[at][1] <= Len(sent)
    BY <1>1, <1>3 DEF StreamInv, Sorted
  <2> QED
    BY <1>1, <1>2, <1>3, <2>1, SentLength, FrameReadersAssumption
<1>9. ASSUME NEW p \in DOMAIN Stream, p > at, Begins(Stream, p)
      PROVE  p > at + 2 /\ p > remainSize /\ buf[at][1] < Stream[p][1]
  <2>1. p > at + 2 /\ buf[at][1] < Stream[p][1]
    BY <1>1, <1>2, <1>3, <1>6, <1>9, Apart, SentLength DEF StreamInv
  <2>2. p \in Int
    BY <1>3
  <2> QED
    BY <1>1, <1>4, <1>5, <1>9, <2>1, <2>2
<1> QED
  BY <1>1, <1>2, <1>3, <1>5, <1>6, <1>7, <1>8, <1>9

\* A frame is taken.
LEMMA TakeOrder ==
    ASSUME OrderInv, TypeInv', TakeFirst \/ TakeByChance
    PROVE  LogInv' /\ SerialInv' /\ SoundInOrder'
<1> USE DEF OrderInv, deviceVars
<1>1. Parsing /\ FrameAt(buf, at)
  BY DEF TakeFirst, TakeByChance
<1>2. /\ at \in 1 .. Len(buf) /\ kind \in Serial /\ pc = "parse"
  BY <1>1, ParsingAt
<1> DEFINE n == buf[at][1]
<1>3. n \in DOMAIN sent /\ n \in Nat /\ Ahead(Stream[at]) /\ Stream[at] = buf[at]
  BY <1>1, ParserAhead, SentLength
<1>4. PICK o \in BOOLEAN : Store(n, n, o) /\ (~o => sent[n] = "whole")
  BY DEF TakeFirst, TakeByChance
<1>5. Stream' = Stream /\ sent' = sent /\ kind' = kind /\ buf' = buf
  BY StreamKept DEF StreamStays, TakeFirst, TakeByChance
<1>6. \A i \in DOMAIN log : log[i].last < n
  BY <1>3 DEF Ahead
<1>7. /\ DOMAIN log' = DOMAIN log \union {Len(log) + 1}
      /\ \A i \in DOMAIN log : log'[i] = log[i]
      /\ log'[Len(log) + 1].last = n
  BY <1>4, LogGrows
<1>8. LogInv' /\ SoundInOrder'
  BY <1>3, <1>4, <1>5, <1>6, OrderTaken
<1>9. \A p \in DOMAIN Stream : p > at /\ Begins(Stream, p) => p > at + 2 /\ p > remainSize /\ n < Stream[p][1]
  BY <1>1, ParserAhead
<1>10. \A i \in DOMAIN log : log[i].last \in Nat
  BY LogType
<1>11. \A p \in DOMAIN Stream : Stream[p][1] \in Nat /\ p \in Int
  BY PartType, StreamIs
<1> HIDE DEF n
<1>12. ASSUME NEW p \in DOMAIN Stream, p > at, Begins(Stream, p), NEW i \in DOMAIN log'
       PROVE  log'[i].last < Stream[p][1]
  <2>1. n < Stream[p][1]
    BY <1>9, <1>12
  <2>2. CASE i \in DOMAIN log
    BY <1>3, <1>6, <1>7, <1>10, <1>11, <2>1, <2>2
  <2> QED
    BY <1>7, <1>12, <2>1, <2>2
<1>13. CASE TakeFirst
  <2>1. at = 1 /\ (at' = 2 \/ at' = 4) /\ remainSize' = 3 /\ pc' = pc
    BY <1>13 DEF TakeFirst
  <2>2. ASSUME NEW p \in DOMAIN Stream, p > 3, Begins(Stream, p), NEW i \in DOMAIN log'
        PROVE  log'[i].last < Stream[p][1]
    <3>1. p > at
      BY <1>11, <2>1, <2>2
    <3> QED
      BY <1>12, <2>2, <3>1
  <2>3. ASSUME NEW p \in at' .. 3 PROVE ~Begins(buf, p)
    <3>1. SUFFICES ASSUME Begins(buf, p) PROVE FALSE
      OBVIOUS
    <3>2. p \in Int /\ p > at /\ ~(p > at + 2) /\ p \in 2 .. 3
      BY <2>1
    <3>3. 1 + 2 \in 1 .. Len(buf)
      BY <1>1, <2>1, ParsingAt, FrameIn
    <3>4. p \in DOMAIN buf
      BY <1>1, <3>2, <3>3, ParsingAt
    <3>5. p \in DOMAIN Stream /\ Begins(Stream, p)
      BY <3>1, <3>4, StreamIs DEF Begins
    <3> QED
      BY <1>9, <3>2, <3>5
  <2> QED
    BY <1>2, <1>5, <1>8, <2>1, <2>2, <2>3 DEF SerialInv, Ahead, Begins
<1>14. CASE TakeByChance
  <2>1. \/ pc' = "loops"
        \/ at' = at + 3 /\ remainSize' = at + 2
    BY <1>14 DEF TakeByChance
  <2>2. ASSUME NEW p \in DOMAIN Stream, p > at + 2, Begins(Stream, p), NEW i \in DOMAIN log'
        PROVE  log'[i].last < Stream[p][1]
    <3>1. p > at
      BY <1>2, <1>11, <2>2
    <3> QED
      BY <1>12, <2>2, <3>1
  <2>3. (at + 3) .. (at + 2) = {}
    BY <1>2
  <2> QED
    BY <1>2, <1>5, <1>8, <2>1, <2>2, <2>3 DEF SerialInv, Ahead, Begins
<1> QED
  BY <1>13, <1>14

\* A place is passed, or the parser ends.
LEMMA PassOrder ==
    ASSUME OrderInv, TypeInv', RefuseFrame \/ FalseFrame \/ SkipByte \/ EndParse
    PROVE  SerialInv'
<1> USE DEF OrderInv, deviceVars
<1>0. /\ DOMAIN Stream = 1 .. Len(Stream) /\ Len(Stream) \in Nat /\ Len(buf) \in Nat
      /\ DOMAIN buf = 1 .. Len(buf)
  BY StreamIs
<1>1. log' = log /\ kind \in Serial /\ kind' = kind /\ pc = "parse"
  BY DEF RefuseFrame, FalseFrame, SkipByte, EndParse, Parsing
<1>2. CASE RefuseFrame
  <2>1. Parsing /\ FrameAt(buf, at) /\ at' = at + 3 /\ remainSize' = at + 2 /\ pc' = pc
    BY <1>2 DEF RefuseFrame
  <2>2. Stream' = Stream /\ at \in Int
    BY <1>2, <2>1, StreamKept, ParsingAt DEF StreamStays
  <2>3. ASSUME NEW p \in DOMAIN Stream, p > at + 2, Begins(Stream, p)
        PROVE  Ahead(Stream[p])
    <3>1. p > at
      BY <1>0, <2>2, <2>3
    <3>2. p > remainSize
      BY <2>1, <2>3, <3>1, ParserAhead
    <3> QED
      BY <1>1, <2>3, <3>2 DEF SerialInv
  <2>4. (at + 3) .. (at + 2) = {}
    BY <2>2
  <2> QED
    BY <1>1, <2>1, <2>2, <2>3, <2>4 DEF SerialInv, Ahead, Begins
<1>3. CASE FalseFrame
  <2>1. Parsing /\ pc' = pc
    BY <1>3 DEF FalseFrame
  <2>2. PICK end \in at .. Len(buf) : at' = end + 1 /\ remainSize' = end
    BY <1>3 DEF FalseFrame
  <2>3. Stream' = Stream /\ at \in 1 .. Len(buf) /\ remainSize \in 0 .. Len(buf)
    BY <1>3, <2>1, StreamKept, ParsingAt DEF StreamStays, TypeInv, TypeOK
  <2>4. ASSUME NEW p \in DOMAIN Stream, p > end, Begins(Stream, p)
        PROVE  Ahead(Stream[p])
    <3>1. CASE p > remainSize
      BY <1>1, <2>4, <3>1 DEF SerialInv
    <3>2. CASE ~(p > remainSize)
      <4>1. p \in at .. remainSize /\ p \in DOMAIN buf
        BY <1>0, <2>3, <2>4, <3>2
      <4>2. Stream[p] = buf[p]
        BY <4>1, StreamIs
      <4> QED
        BY <1>1, <2>4, <4>1, <4>2 DEF SerialInv, Begins
    <3> QED
      BY <3>1, <3>2
  <2>5. (end + 1) .. end = {}
    OBVIOUS
  <2> QED
    BY <1>1, <2>1, <2>2, <2>3, <2>4, <2>5 DEF SerialInv, Ahead, Begins
<1>4. CASE SkipByte
  <2>1. Parsing /\ at' = at + 1 /\ remainSize' = remainSize /\ pc' = pc /\ buf' = buf
    BY <1>4 DEF SkipByte
  <2>2. Stream' = Stream /\ at \in Int /\ remainSize \in Int
    <3>1. remainSize \in 0 .. Len(buf)
      BY DEF TypeInv, TypeOK
    <3>2. at \in 1 .. Len(buf)
      BY <2>1, ParsingAt
    <3>3. Stream' = Stream
      BY <1>4, StreamKept DEF StreamStays
    <3> QED
      BY <3>1, <3>2, <3>3
  <2>3. \A p \in (at + 1) .. remainSize : p \in at .. remainSize
    BY <2>2
  <2> QED
    BY <1>1, <2>1, <2>2, <2>3 DEF SerialInv, Ahead, Begins
<1>5. CASE EndParse
  <2>1. Cut(Stream', Stream, 0, remainSize)
    BY <1>5, StreamCut
  <2>2. pc' = "recv" /\ remainSize' = 0 /\ remainSize \in Int
    BY <1>5 DEF EndParse, TypeInv, TypeOK
  <2>3. ASSUME NEW p \in DOMAIN Stream', p > 0, Begins(Stream', p)
        PROVE  \A i \in DOMAIN log : log[i].last < Stream'[p][1]
    <3>1. p + remainSize \in DOMAIN Stream /\ Stream'[p] = Stream[p + remainSize]
      BY <2>1, <2>3, CutFrom, StreamIs, StreamNext
    <3>2. p + remainSize > remainSize
      BY <2>2, <2>3, StreamNext
    <3> QED
      BY <1>1, <2>3, <3>1, <3>2 DEF SerialInv, Ahead, Begins
  <2> QED
    BY <1>1, <2>2, <2>3 DEF SerialInv, Ahead, Begins
<1> QED
  BY <1>2, <1>3, <1>4, <1>5

-----------------------------------------------------------------------------
(* PLCS-12.                                                                *)

LEMMA OneNumber ==
    ASSUME NEW s \in Seq(Part), Cardinality(Numbers(s)) = 1
    PROVE  \A p, q \in DOMAIN s : s[p][1] = s[q][1]
<1>1. IsFiniteSet(0 .. MaxFrames)
  BY FS_Interval, FrameReadersAssumption
<1>2. IsFiniteSet(Numbers(s))
  BY <1>1, NumbersType, FS_Subset
<1>3. PICK x : Numbers(s) = {x}
  BY <1>2, FS_Singleton
<1> QED
  BY <1>3, NumbersPart

\* The buffer of a program in step: a frame that is there whole, or its beginning.
LEMMA InStepBuffer ==
    ASSUME OrderInv, kind = Plc, ~skewed
    PROVE  /\ Len(buf) = 3 => FrameAt(buf, 1) /\ buf[1][1] = buf[3][1] /\ Is237
           /\ ~Is237 => parsingSize = 0
<1> USE DEF OrderInv
<1>1. /\ buf \in Seq(Part) /\ DOMAIN buf = 1 .. Len(buf)
      /\ \A i \in DOMAIN buf : i \in DOMAIN Stream /\ Stream[i] = buf[i]
  BY StreamIs
<1>2. /\ \A p \in DOMAIN buf : buf[p][1] = buf[1][1]
      /\ buf # <<>> => buf[1][2] = 1
      /\ parsingSize = 0 \/ Len(buf) = 3
  BY DEF PlcInv
<1>3. ASSUME Len(buf) = 3 PROVE FrameAt(buf, 1) /\ buf[1][1] = buf[3][1] /\ Is237
  <2>1. DOMAIN buf = 1 .. 3 /\ buf # <<>> /\ 1 \in DOMAIN buf /\ 2 \in DOMAIN buf /\ 3 \in DOMAIN buf
    <3>1. DOMAIN buf = 1 .. 3
      BY <1>1, <1>3
    <3>2. 1 \in 1 .. 3 /\ 2 \in 1 .. 3 /\ 3 \in 1 .. 3 /\ DOMAIN (<<>>) = {}
      OBVIOUS
    <3> QED
      BY <3>1, <3>2
  <2>2. /\ buf[1] = <<buf[1][1], buf[1][2]>> /\ buf[2] = <<buf[2][1], buf[2][2]>>
        /\ buf[3] = <<buf[3][1], buf[3][2]>>
        /\ buf[1][1] \in Nat /\ buf[2][2] \in 1 .. 3 /\ buf[3][2] \in 1 .. 3
    <3>1. buf[1] \in Part /\ buf[2] \in Part /\ buf[3] \in Part
      BY <1>1, <2>1
    <3> QED
      BY <3>1, PartType, Zenon
  <2>3. buf[2][1] = buf[1][1] /\ buf[3][1] = buf[1][1] /\ buf[1][2] = 1
    BY <1>2, <2>1
  <2>4. /\ 1 \in DOMAIN Stream /\ 2 \in DOMAIN Stream /\ 3 \in DOMAIN Stream
        /\ Stream[1] = buf[1] /\ Stream[2] = buf[2] /\ Stream[3] = buf[3]
        /\ buf[1] # Noise /\ buf[2] # Noise /\ buf[3] # Noise
    <3>1. \A p \in DOMAIN Stream : Stream[p] # Noise
      BY DEF PlcInv
    <3>2. \A p \in DOMAIN buf : p \in DOMAIN Stream /\ Stream[p] = buf[p] /\ buf[p] # Noise
      BY <1>1, <3>1
    <3> QED
      BY <2>1, <3>2, Zenon
  <2>5. Before(buf[1], buf[2]) /\ Before(buf[2], buf[3])
    BY <2>4 DEF StreamInv, Sorted
  <2>6. buf[2][2] = 2 /\ buf[3][2] = 3
    BY <2>2, <2>3, <2>5 DEF Before
  <2>7. \A p \in 1 .. 3 : buf[1 + p - 1] = <<buf[1][1], p>>
    <3>1. buf[1] = <<buf[1][1], 1>> /\ buf[2] = <<buf[1][1], 2>> /\ buf[3] = <<buf[1][1], 3>>
      BY <2>2, <2>3, <2>6
    <3>2. SUFFICES ASSUME NEW p \in 1 .. 3 PROVE buf[1 + p - 1] = <<buf[1][1], p>>
      OBVIOUS
    <3>3. 1 + p - 1 = p /\ (p = 1 \/ p = 2 \/ p = 3)
      OBVIOUS
    <3> QED
      BY <3>1, <3>3
  <2>8. FrameAt(buf, 1)
    BY <1>3, <2>4, <2>7 DEF FrameAt
  <2>9. {buf[i][2] : i \in DOMAIN buf} = 1 .. 3
    <3>1. \A i \in DOMAIN buf : buf[i][2] \in 1 .. 3
      BY <1>1, PartType
    <3>2. 1 .. 3 = {1, 2, 3}
      OBVIOUS
    <3> QED
      BY <2>1, <2>3, <2>6, <3>1, <3>2
  <2> QED
    BY <1>3, <2>3, <2>8, <2>9 DEF Is237
<1> QED
  BY <1>2, <1>3

\* The parts a step adds to or keeps in the stream.
LEMMA PlcStream ==
    ASSUME OrderInv, TypeInv', [Next]_vars, kind = Plc
    PROVE  /\ kind' = Plc /\ \A n \in DOMAIN sent' : sent'[n] = "whole"
           /\ \A p \in DOMAIN Stream' :
                \/ \E q \in DOMAIN Stream : Stream'[p] = Stream[q]
                \/ SendFrame /\ Stream'[p] # Noise /\ Stream'[p][1] = Len(sent) + 1
<1> USE DEF OrderInv
<1>0. /\ Stream \in Seq(Part) /\ Stream' \in Seq(Part)
      /\ DOMAIN Stream = 1 .. Len(Stream) /\ Len(Stream) \in Nat
      /\ DOMAIN Stream' = 1 .. Len(Stream') /\ Len(Stream') \in Nat
  BY StreamIs, StreamNext
<1>1. CASE StreamStays \/ UNCHANGED vars
  <2>1. Stream' = Stream /\ sent' = sent /\ kind' = kind
    BY <1>1, StreamKept DEF vars, deviceVars, parserVars, Stream
  <2> QED
    BY <2>1 DEF PlcInv
<1>2. CASE \/ CloseSession \/ Discard \/ ReceiveTooMuch \/ EndParse \/ PlcKeep \/ PlcTake \/ Accept
  <2>1. sent' = sent /\ kind' = kind /\ \E k, m : Cut(Stream', Stream, k, m)
    BY <1>2, StreamCut
  <2>2. \A i \in DOMAIN Stream' : \E j \in DOMAIN Stream : Stream'[i] = Stream[j]
    BY <1>0, <2>1, CutIn
  <2> QED
    BY <2>1, <2>2 DEF PlcInv
<1>3. CASE SendFrame
  <2>1. PICK form \in Form, k \in 2 .. 3 :
          /\ sent' = Append(sent, form) /\ kind' = kind
          /\ form # "whole" => kind \in Serial
          /\ Len(sent) + 1 \in 1 .. MaxFrames
          /\ Grown(Stream', Stream) /\ Len(Stream') = Len(Stream) + k
          /\ \A p \in 1 .. k : Stream'[Len(Stream) + p] = <<Len(sent) + 1, p>>
    BY <1>3, StreamGrown
  <2>2. form = "whole"
    BY <2>1 DEF Serial, Plc
  <2>3. \A n \in DOMAIN sent' : sent'[n] = "whole"
    BY <2>1, <2>2, SentLength DEF PlcInv
  <2>4. ASSUME NEW p \in DOMAIN Stream'
        PROVE  \/ \E q \in DOMAIN Stream : Stream'[p] = Stream[q]
               \/ Stream'[p] # Noise /\ Stream'[p][1] = Len(sent) + 1
    <3>1. CASE p \in DOMAIN Stream
      BY <1>0, <2>1, <3>1 DEF Grown
    <3>2. CASE p \notin DOMAIN Stream
      <4>1. p - Len(Stream) \in 1 .. k /\ Len(Stream) + (p - Len(Stream)) = p
        BY <1>0, <2>1, <3>2
      <4>2. Stream'[p] = <<Len(sent) + 1, p - Len(Stream)>>
        BY <2>1, <4>1
      <4>3. Stream'[p][1] = Len(sent) + 1 /\ Len(sent) + 1 # 0
        BY <2>1, <4>2
      <4> QED
        BY <4>3 DEF Noise
    <3> QED
      BY <3>1, <3>2
  <2> QED
    BY <1>3, <2>1, <2>3, <2>4
<1>4. CASE MakeNoise
  BY <1>4 DEF MakeNoise, Serial, Plc
<1> QED
  BY <1>1, <1>2, <1>3, <1>4 DEF Next, Parse, StreamStays

LEMMA PlcParts ==
    ASSUME OrderInv, TypeInv', [Next]_vars, kind = Plc, log' = log,
           skewed => skewed' \/ Stream' = <<>>
    PROVE  /\ \A p \in DOMAIN Stream' : Stream'[p] # Noise
           /\ \A p \in DOMAIN Stream', i \in DOMAIN log' :
                \/ log'[i].last < Stream'[p][1]
                \/ log'[i].last = Stream'[p][1] /\ log'[i].odd /\ skewed'
<1> USE DEF OrderInv
<1>1. ASSUME NEW p \in DOMAIN Stream'
      PROVE  /\ Stream'[p] # Noise
             /\ \A i \in DOMAIN log : \/ log[i].last < Stream'[p][1]
                                      \/ log[i].last = Stream'[p][1] /\ log[i].odd /\ skewed
  <2>1. CASE \E q \in DOMAIN Stream : Stream'[p] = Stream[q]
    BY <2>1 DEF PlcInv
  <2>2. CASE Stream'[p] # Noise /\ Stream'[p][1] = Len(sent) + 1
    BY <2>2, SentBehind
  <2> QED
    BY <2>1, <2>2, PlcStream
<1>2. ASSUME NEW p \in DOMAIN Stream' PROVE Stream' # <<>>
  BY StreamNext
<1> QED
  BY <1>1, <1>2

LEMMA PlcOutside ==
    ASSUME OrderInv, TypeInv', kind = Plc,
           \/ StartComm \/ StartUart \/ StartPlc \/ Ask \/ Consume \/ UNCHANGED vars
           \/ SendFrame \/ Accept \/ CloseSession \/ ReceiveTooMuch
    PROVE  PlcInv'
<1> USE DEF OrderInv, deviceVars, parserVars, history
<1>0. [Next]_vars
  BY DEF Next
<1>1. /\ log' = log
  <2>1. ~Takes
    BY DEF Takes, StartComm, StartUart, StartPlc, Ask, Consume, vars, SendFrame, Accept,
           CloseSession, ReceiveTooMuch, TakeFirst, TakeByChance, PlcTake, Parsing, Store, Serial, Plc
  <2> QED
    BY <1>0, <2>1, LogKept
<1>2. kind' = Plc /\ \A n \in DOMAIN sent' : sent'[n] = "whole"
  BY <1>0, PlcStream
<1>3. CASE Accept
  <2>1. buf' = <<>> /\ parsingSize' = 0 /\ skewed' = FALSE /\ line' = line /\ pc = "accept"
    BY <1>3 DEF Accept
  <2>2. line = <<>>
    BY <2>1 DEF TypeInv, PcInv
  <2>3. Stream' = <<>>
    BY <2>1, <2>2 DEF Stream
  <2>4. /\ \A p \in DOMAIN Stream' : Stream'[p] # Noise
        /\ \A p \in DOMAIN Stream', i \in DOMAIN log' :
                \/ log'[i].last < Stream'[p][1]
                \/ log'[i].last = Stream'[p][1] /\ log'[i].odd /\ skewed'
    BY <1>0, <1>1, <2>3, PlcParts
  <2>5. DOMAIN buf' = {}
    BY <2>1
  <2> QED
    BY <1>2, <2>1, <2>4, <2>5 DEF PlcInv
<1>4. CASE \/ StartComm \/ StartUart \/ StartPlc \/ Ask \/ Consume \/ UNCHANGED vars
           \/ SendFrame \/ CloseSession
  <2>1. /\ buf' = buf /\ parsingSize' = parsingSize /\ skewed' = skewed
    BY <1>4 DEF StartComm, StartUart, StartPlc, Ask, Consume, vars, SendFrame, CloseSession
  <2>2. /\ \A p \in DOMAIN Stream' : Stream'[p] # Noise
        /\ \A p \in DOMAIN Stream', i \in DOMAIN log' :
                \/ log'[i].last < Stream'[p][1]
                \/ log'[i].last = Stream'[p][1] /\ log'[i].odd /\ skewed'
    BY <1>0, <1>1, <2>1, PlcParts
  <2> QED
    BY <1>2, <2>1, <2>2 DEF PlcInv
<1>5. CASE ReceiveTooMuch
  <2>1. buf' = buf /\ skewed' = TRUE
    BY <1>5 DEF ReceiveTooMuch
  <2>2. /\ \A p \in DOMAIN Stream' : Stream'[p] # Noise
        /\ \A p \in DOMAIN Stream', i \in DOMAIN log' :
                \/ log'[i].last < Stream'[p][1]
                \/ log'[i].last = Stream'[p][1] /\ log'[i].odd /\ skewed'
    BY <1>0, <1>1, <2>1, PlcParts
  <2> QED
    BY <1>2, <2>1, <2>2 DEF PlcInv
<1> QED
  BY <1>3, <1>4, <1>5

LEMMA PlcReads ==
    ASSUME OrderInv, TypeInv', kind = Plc, Receive
    PROVE  PlcInv'
<1> USE DEF OrderInv, deviceVars, parserVars, history
<1>0. [Next]_vars
  BY DEF Next
<1>1. log' = log /\ hurt' = hurt /\ parsingSize' = Len(buf)
  BY DEF Receive
<1>2. kind' = Plc /\ \A n \in DOMAIN sent' : sent'[n] = "whole"
  BY <1>0, PlcStream
<1>3. /\ buf' \in Seq(Part)
      /\ skewed' = (skewed \/ ~InStep(buf'))
  BY ReadShape
<1>4. /\ \A p \in DOMAIN Stream' : Stream'[p] # Noise
      /\ \A p \in DOMAIN Stream', i \in DOMAIN log' :
              \/ log'[i].last < Stream'[p][1]
              \/ log'[i].last = Stream'[p][1] /\ log'[i].odd /\ skewed'
  BY <1>0, <1>1, <1>3, PlcParts
<1>5. ASSUME ~skewed'
      PROVE  /\ \A p \in DOMAIN buf' : buf'[p][1] = buf'[1][1]
             /\ buf' # <<>> => buf'[1][2] = 1
             /\ parsingSize' = 0 \/ Len(buf') = 3
  <2>1. InStep(buf')
    BY <1>3, <1>5
  <2>2. buf'[1][2] = 1 /\ Cardinality(Numbers(buf')) = 1 /\ (buf = <<>> \/ Len(buf') = 3)
    BY <2>1 DEF InStep, OneFrame, TwoReads
  <2>3. \A p, q \in DOMAIN buf' : buf'[p][1] = buf'[q][1]
    BY <1>3, <2>2, OneNumber
  <2>4. DOMAIN buf' = 1 .. Len(buf')
    BY <1>3
  <2>5. \A p \in DOMAIN buf' : 1 \in DOMAIN buf'
    BY <1>3, <2>4
  <2>6. buf = <<>> => Len(buf) = 0
    OBVIOUS
  <2> QED
    BY <1>1, <2>2, <2>3, <2>5, <2>6
<1> QED
  BY <1>2, <1>4, <1>5 DEF PlcInv

LEMMA PlcKeeps ==
    ASSUME OrderInv, TypeInv', kind = Plc, PlcKeep
    PROVE  PlcInv'
<1> USE DEF OrderInv, deviceVars, parserVars, history
<1>0. [Next]_vars
  BY DEF Next, Parse
<1>1. /\ log' = log /\ skewed' = skewed /\ parsingSize' = 0
      /\ buf' = SubSeq(buf, parsingSize + 1, Len(buf)) /\ ~Is237
  BY DEF PlcKeep
<1>2. kind' = Plc /\ \A n \in DOMAIN sent' : sent'[n] = "whole"
  BY <1>0, PlcStream
<1>3. /\ \A p \in DOMAIN Stream' : Stream'[p] # Noise
      /\ \A p \in DOMAIN Stream', i \in DOMAIN log' :
              \/ log'[i].last < Stream'[p][1]
              \/ log'[i].last = Stream'[p][1] /\ log'[i].odd /\ skewed'
  BY <1>0, <1>1, PlcParts
<1>4. parsingSize \in 0 .. Len(buf) /\ buf \in Seq(Part)
  BY DEF TypeInv, TypeOK
<1>5. /\ buf' \in Seq(Part) /\ Len(buf') = Len(buf) - parsingSize
      /\ \A i \in 1 .. Len(buf) - parsingSize : buf'[i] = buf[i + parsingSize]
  BY <1>1, <1>4, Suffix
<1>6. ASSUME ~skewed
      PROVE  /\ \A p \in DOMAIN buf' : buf'[p][1] = buf'[1][1]
             /\ buf' # <<>> => buf'[1][2] = 1
  <2>1. parsingSize = 0
    BY <1>1, <1>6, InStepBuffer
  <2>2. Len(buf') = Len(buf) /\ \A i \in 1 .. Len(buf) : buf'[i] = buf[i]
    BY <1>4, <1>5, <2>1
  <2>3. buf' = buf
    BY <1>4, <1>5, <2>2, SeqEqual
  <2> QED
    BY <1>6, <2>3 DEF PlcInv
<1> QED
  BY <1>1, <1>2, <1>3, <1>6 DEF PlcInv

LEMMA PlcTakes ==
    ASSUME OrderInv, TypeInv', kind = Plc, PlcTake
    PROVE  PlcInv' /\ LogInv' /\ SoundInOrder'
<1> USE DEF OrderInv, deviceVars, parserVars, history
<1>0. [Next]_vars
  BY DEF Next, Parse
<1>1. /\ Store(buf[1][1], buf[3][1], skewed) /\ Is237 /\ sent' = sent
      /\ skewed' = (skewed /\ ~FrameAt(buf, 1))
      /\ buf' = <<>> /\ parsingSize' = 0
  BY DEF PlcTake
<1>2. kind' = Plc /\ \A n \in DOMAIN sent' : sent'[n] = "whole"
  BY <1>0, PlcStream
<1>3. /\ buf \in Seq(Part) /\ Stream \in Seq(Part) /\ Len(buf) = 3 /\ DOMAIN buf = 1 .. 3
      /\ \A i \in DOMAIN buf : i \in DOMAIN Stream /\ Stream[i] = buf[i]
  BY <1>1, StreamIs DEF Is237
<1>4. /\ 1 \in DOMAIN Stream /\ 3 \in DOMAIN Stream /\ Stream[1] = buf[1] /\ Stream[3] = buf[3]
      /\ Stream[1] # Noise /\ Stream[3] # Noise
  BY <1>3 DEF PlcInv
<1> DEFINE f == buf[1][1]
           l == buf[3][1]
<1>5. f \in DOMAIN sent /\ l \in DOMAIN sent /\ f \in Nat /\ l \in Nat /\ f <= l
  <2>1. f \in 1 .. MaxFrames /\ l \in 1 .. MaxFrames
    BY <1>3, <1>4, PartType
  <2>2. Stream[1][1] <= Len(sent) /\ Stream[3][1] <= Len(sent)
    BY <1>4 DEF StreamInv, Sorted
  <2>3. Before(Stream[1], Stream[3])
    BY <1>4 DEF StreamInv, Sorted
  <2> QED
    BY <1>4, <2>1, <2>2, <2>3, SentLength, FrameReadersAssumption DEF Before
<1>6. ~skewed => f = l /\ sent[f] = "whole" /\ FrameAt(buf, 1)
  BY <1>3, <1>5, InStepBuffer DEF PlcInv
<1>7. \A i \in DOMAIN log : log[i].last < f \/ (log[i].last = f /\ log[i].odd /\ skewed)
  BY <1>4 DEF PlcInv
<1>8. skewed \in BOOLEAN
  BY DEF TypeInv, TypeOK
<1> HIDE DEF f, l
<1>9. LogInv' /\ SoundInOrder'
  BY <1>1, <1>5, <1>6, <1>7, <1>8, OrderTaken DEF f, l
<1>10. /\ DOMAIN log' = DOMAIN log \union {Len(log) + 1}
       /\ \A i \in DOMAIN log : log'[i] = log[i]
       /\ log'[Len(log) + 1].last = l /\ log'[Len(log) + 1].odd = skewed
  BY <1>1, LogGrows DEF f, l
<1>11. \A i \in DOMAIN log : log[i].last \in Nat
  BY LogType
<1>12. ASSUME NEW p \in DOMAIN Stream'
       PROVE  /\ Stream'[p] # Noise
              /\ \A i \in DOMAIN log' : \/ log'[i].last < Stream'[p][1]
                                        \/ log'[i].last = Stream'[p][1] /\ log'[i].odd /\ skewed'
  <2>1. p + 3 \in DOMAIN Stream /\ Stream'[p] = Stream[p + 3] /\ p > 0
    <3>1. Cut(Stream', Stream, 0, Len(buf))
      BY StreamCut
    <3>2. p > 0 /\ Stream' \in Seq(Part)
      BY StreamNext
    <3> QED
      BY <1>3, <3>1, <3>2, CutFrom
  <2> DEFINE x == Stream[p + 3]
  <2>2. x # Noise /\ x[1] \in Nat /\ x[2] \in 1 .. 3
    BY <1>3, <2>1, PartType DEF PlcInv
  <2>3. Before(Stream[3], x)
    <3>1. 3 < p + 3
      BY <2>1, StreamNext
    <3> QED
      BY <1>4, <2>1, <2>2, <3>1 DEF StreamInv, Sorted
  <2>4. l < x[1] \/ (l = x[1] /\ skewed /\ ~FrameAt(buf, 1))
    <3>1. CASE FrameAt(buf, 1)
      <4>1. buf[3][2] = 3
        <5>1. buf[1 + 3 - 1] = <<buf[1][1], 3>>
          BY <3>1, 3 \in 1 .. 3, Zenon DEF FrameAt
        <5> QED
          BY <5>1
      <4> QED
        BY <1>4, <2>2, <2>3, <4>1 DEF Before, l
    <3>2. CASE ~FrameAt(buf, 1)
      BY <1>4, <1>6, <2>3, <3>2 DEF Before, l
    <3> QED
      BY <3>1, <3>2
  <2> HIDE DEF x
  <2>5. ASSUME NEW i \in DOMAIN log'
        PROVE  \/ log'[i].last < x[1]
               \/ log'[i].last = x[1] /\ log'[i].odd /\ skewed'
    <3>1. CASE i \in DOMAIN log
      <4>1. log'[i] = log[i] /\ log[i].last \in Nat
        BY <1>10, <1>11, <3>1
      <4>2. log[i].last < f \/ (log[i].last = f /\ log[i].odd /\ skewed)
        BY <1>7, <3>1
      <4>3. CASE l < x[1]
        BY <1>5, <2>2, <4>1, <4>2, <4>3
      <4>4. CASE l = x[1] /\ skewed /\ ~FrameAt(buf, 1)
        <5>1. skewed'
          BY <1>1, <4>4
        <5>2. log[i].last < x[1] \/ (log[i].last = x[1] /\ log[i].odd)
          BY <1>5, <2>2, <4>1, <4>2, <4>4
        <5> QED
          BY <4>1, <5>1, <5>2
      <4> QED
        BY <2>4, <4>3, <4>4
    <3>2. CASE i = Len(log) + 1
      BY <1>1, <1>10, <2>4, <3>2
    <3> QED
      BY <1>10, <3>1, <3>2
  <2> QED
    BY <2>1, <2>2, <2>5 DEF x
<1>13. DOMAIN buf' = {}
  BY <1>1
<1>14. PlcInv'
  BY <1>1, <1>2, <1>12, <1>13 DEF PlcInv
<1> QED
  BY <1>9, <1>14

LEMMA OrderStep == OrderInv /\ [Next]_vars => OrderInv'
<1> SUFFICES ASSUME OrderInv, [Next]_vars PROVE OrderInv'
  OBVIOUS
<1> USE DEF OrderInv
<1>1. TypeInv' /\ StreamInv'
  BY StepType, StreamSorted
<1>2. kind' = kind
  BY StreamKept, StreamCut, StreamGrown DEF Next, Parse, StreamStays, vars
<1>3. CASE kind \in Serial
  <2>1. PlcInv'
    BY <1>2, <1>3 DEF PlcInv, Serial, Plc
  <2>2. ~Accept /\ ~CloseSession /\ ~ReceiveTooMuch /\ ~PlcTake /\ ~PlcKeep
    BY <1>3 DEF TypeInv, PcInv, Accept, CloseSession, ReceiveTooMuch, PlcTake, PlcKeep, Serial, Plc
  <2>3. CASE TakeFirst \/ TakeByChance
    BY <1>1, <2>1, <2>3, TakeOrder
  <2>4. CASE ~(TakeFirst \/ TakeByChance)
    <3>1. LogInv' /\ SoundInOrder'
      BY <2>2, <2>4, OrderKept DEF Takes
    <3>2. SerialInv'
      BY <1>1, <1>3, <2>2, <2>4, SerialOutside, PassOrder DEF Next, Parse
    <3> QED
      BY <1>1, <2>1, <3>1, <3>2
  <2> QED
    BY <2>3, <2>4
<1>4. CASE kind = Plc
  <2>1. SerialInv'
    BY <1>2, <1>4 DEF SerialInv, Serial, Plc
  <2>2. ~TakeFirst /\ ~TakeByChance /\ ~RefuseFrame /\ ~FalseFrame /\ ~SkipByte
        /\ ~EndParse /\ ~MakeNoise /\ ~Discard
    BY <1>4 DEF TakeFirst, TakeByChance, RefuseFrame, FalseFrame, SkipByte, EndParse, MakeNoise,
                Discard, Deaf, Parsing, Serial, Plc
  <2>3. CASE PlcTake
    BY <1>1, <1>4, <2>1, <2>3, PlcTakes
  <2>4. CASE ~PlcTake
    <3>1. LogInv' /\ SoundInOrder'
      BY <2>2, <2>4, OrderKept DEF Takes
    <3>2. PlcInv'
      BY <1>1, <1>4, <2>2, <2>4, PlcOutside, PlcReads, PlcKeeps DEF Next, Parse
    <3> QED
      BY <1>1, <2>1, <3>1, <3>2
  <2> QED
    BY <2>3, <2>4
<1> QED
  BY <1>3, <1>4, FrameReadersAssumption DEF TypeInv, TypeOK

LEMMA OrderInit == Init => OrderInv
<1> SUFFICES ASSUME Init PROVE OrderInv
  OBVIOUS
<1>1. TypeInv
  BY InitType
<1>2. DOMAIN Stream = {} /\ DOMAIN log = {} /\ DOMAIN sent = {} /\ DOMAIN buf = {}
  BY DEF Init, Stream
<1>3. StreamInv /\ LogInv /\ SoundInOrder
  BY <1>2 DEF StreamInv, Sorted, LogInv, SoundInOrder
<1>4. SerialInv /\ PlcInv
  BY <1>2 DEF SerialInv, PlcInv, Init
<1> QED
  BY <1>1, <1>3, <1>4 DEF OrderInv

LEMMA AlwaysOrder == Spec => []OrderInv
<1> QED
  BY OrderInit, OrderStep, PTL DEF Spec

\* What CommManager, UartManager and PLCS-12 store or report is one undamaged
\* frame, and frames come once and in the order in which they were sent,
\* unless they shared the buffer or the reads were out of step.
THEOREM SoundOnceInOrder == Spec => []SoundInOrder
<1>1. OrderInv => SoundInOrder
  BY DEF OrderInv
<1> QED
  BY <1>1, AlwaysOrder, PTL

-----------------------------------------------------------------------------
(* Frames that arrived alone.  Until it is logged, such a frame lies in the *)
(* stream, behind what the parser has given up, and a parser that has it    *)
(* whole in the buffer is just in front of it.                              *)

Logged(n) == \E i \in DOMAIN log : log[i].first = n /\ log[i].last = n

Waits(n, j) ==
    /\ Lies(Stream, n, j)
    /\ j > remainSize
    /\ kind \in Serial /\ j + 2 <= Len(buf) => pc = "parse" /\ j = 1 /\ at = 1

Heard(n) == Logged(n) \/ \E j \in DOMAIN Stream : Waits(n, j)

LostInv ==
    \A n \in DOMAIN sent : sent[n] = "whole" /\ n \notin crowded \union split \union hurt => Heard(n)

LEMMA NumbersHere ==
    ASSUME TypeInv, NEW j \in DOMAIN Stream
    PROVE  /\ j \in DOMAIN buf => Stream[j][1] \in Numbers(buf)
           /\ j \notin DOMAIN buf =>
                /\ j - Len(buf) \in DOMAIN line /\ Stream[j] = line[j - Len(buf)]
                /\ Stream[j][1] \in Numbers(line)
           /\ Stream[j][1] \in Numbers(line \o buf)
<1>1. buf \in Seq(Part) /\ line \in Seq(Part) /\ Len(buf) \in Nat /\ Len(line) \in Nat
      /\ DOMAIN buf = 1 .. Len(buf) /\ DOMAIN line = 1 .. Len(line)
  BY StreamIs
<1>2. j \in DOMAIN buf => Stream[j] = buf[j]
  BY StreamIs
<1>3. j \notin DOMAIN buf => j - Len(buf) \in DOMAIN line /\ Stream[j] = line[j - Len(buf)]
  BY StreamIs
<1>4. DOMAIN (line \o buf) = 1 .. Len(line) + Len(buf)
      /\ \A i \in 1 .. Len(line) + Len(buf) :
           (line \o buf)[i] = IF i <= Len(line) THEN line[i] ELSE buf[i - Len(line)]
  BY <1>1, Joined, Zenon
<1> DEFINE z == line \o buf
<1>5. DOMAIN z = 1 .. Len(line) + Len(buf)
      /\ \A i \in 1 .. Len(line) + Len(buf) :
           z[i] = IF i <= Len(line) THEN line[i] ELSE buf[i - Len(line)]
  BY <1>4
<1> HIDE DEF z
<1>6. \E i \in DOMAIN z : Stream[j] = z[i]
  <2>1. CASE j \in DOMAIN buf
    <3>1. Len(line) + j \in 1 .. Len(line) + Len(buf) /\ ~(Len(line) + j <= Len(line))
          /\ (Len(line) + j) - Len(line) = j
      BY <1>1, <2>1
    <3>2. z[Len(line) + j] = buf[(Len(line) + j) - Len(line)]
      BY <1>5, <3>1
    <3>3. z[Len(line) + j] = Stream[j]
      BY <1>2, <2>1, <3>1, <3>2
    <3> QED
      BY <1>5, <3>1, <3>3
  <2>2. CASE j \notin DOMAIN buf
    <3>1. j - Len(buf) \in 1 .. Len(line) + Len(buf) /\ j - Len(buf) <= Len(line)
      BY <1>1, <1>3, <2>2
    <3>2. z[j - Len(buf)] = Stream[j]
      BY <1>3, <1>5, <2>2, <3>1
    <3> QED
      BY <1>5, <3>1, <3>2
  <2> QED
    BY <2>1, <2>2
<1>7. Stream[j][1] \in Numbers(z)
  BY <1>6 DEF Numbers
<1>8. j \in DOMAIN buf => Stream[j][1] \in Numbers(buf)
  BY <1>2 DEF Numbers
<1>9. j \notin DOMAIN buf => Stream[j][1] \in Numbers(line)
  BY <1>3 DEF Numbers
<1> QED
  BY <1>3, <1>7, <1>8, <1>9 DEF z

\* What the place of a waiting frame tells.
LEMMA WaitingFrame ==
    ASSUME TypeInv, NEW n \in DOMAIN sent, NEW j \in DOMAIN Stream, Waits(n, j)
    PROVE  /\ n \in 1 .. MaxFrames /\ j \in Nat /\ j >= 1
           /\ Stream[j] = <<n, 1>> /\ Stream[j][1] = n /\ Begins(Stream, j)
           /\ j + 1 \in DOMAIN Stream /\ Stream[j + 1][1] = n
           /\ j + 2 \in DOMAIN Stream /\ Stream[j + 2][1] = n
           /\ j + 2 <= Len(buf) => FrameAt(buf, j) /\ buf[j] = <<n, 1>> /\ buf[j][1] = n
<1>1. n \in 1 .. MaxFrames
  <2>1. Len(sent) <= MaxFrames
    BY DEF TypeInv, TypeOK
  <2> QED
    BY <2>1, SentLength, FrameReadersAssumption
<1>2. /\ Stream \in Seq(Part) /\ j \in Nat /\ j >= 1 /\ buf \in Seq(Part)
      /\ Len(buf) \in Nat /\ DOMAIN buf = 1 .. Len(buf)
      /\ \A i \in DOMAIN buf : i \in DOMAIN Stream /\ Stream[i] = buf[i]
  BY StreamIs
<1>3. Lies(Stream, n, j)
  BY DEF Waits
<1>4. Begins(Stream, j) /\ Stream[j] = <<n, 1>>
  BY <1>1, <1>2, <1>3, LyingFrame
<1>5. /\ j + 1 \in DOMAIN Stream /\ Stream[j + 1][1] = n
      /\ j + 2 \in DOMAIN Stream /\ Stream[j + 2][1] = n
  <2>1. /\ j + 2 - 1 \in DOMAIN Stream /\ Stream[j + 2 - 1] = <<n, 2>>
        /\ j + 3 - 1 \in DOMAIN Stream /\ Stream[j + 3 - 1] = <<n, 3>>
    BY <1>3, 2 \in 1 .. 3, 3 \in 1 .. 3, Zenon DEF Lies
  <2>2. j + 2 - 1 = j + 1 /\ j + 3 - 1 = j + 2
    BY <1>2
  <2> QED
    BY <2>1, <2>2
<1>6. ASSUME j + 2 <= Len(buf) PROVE FrameAt(buf, j) /\ buf[j] = <<n, 1>>
  <2>1. \A p \in 1 .. 3 : j + p - 1 \in DOMAIN buf
    BY <1>2, <1>6
  <2>2. Lies(buf, n, j)
    BY <1>2, <1>3, <2>1 DEF Lies
  <2>3. j \in DOMAIN buf
    BY <1>2, <1>6
  <2> QED
    BY <1>1, <1>2, <2>2, <2>3, LyingFrame
<1> QED
  BY <1>1, <1>2, <1>4, <1>5, <1>6

LEMMA HistoryGrows ==
    ASSUME TypeInv, [Next]_vars
    PROVE  crowded \subseteq crowded' /\ split \subseteq split' /\ hurt \subseteq hurt'
<1> USE DEF history
<1>1. CASE StartComm \/ StartUart \/ StartPlc \/ Ask \/ Consume \/ Accept \/ CloseSession
  BY <1>1 DEF StartComm, StartUart, StartPlc, Ask, Consume, Accept, CloseSession
<1>2. CASE SendFrame \/ MakeNoise \/ ReceiveTooMuch \/ Discard
  BY <1>2 DEF SendFrame, MakeNoise, ReceiveTooMuch, Discard
<1>3. CASE Receive
  <2>1. crowded \subseteq crowded' /\ split \subseteq split'
    BY <1>3, ReadShape
  <2> QED
    BY <1>3, <2>1 DEF Receive
<1>4. CASE RefuseFrame \/ SkipByte \/ EndParse \/ PlcKeep \/ PlcTake \/ TakeFirst \/ TakeByChance
  BY <1>4 DEF RefuseFrame, SkipByte, EndParse, PlcKeep, PlcTake, TakeFirst, TakeByChance
<1>5. CASE FalseFrame
  <2>1. PICK end \in at .. Len(buf) : hurt' = hurt \union Numbers(SubSeq(buf, at, end))
    BY <1>5 DEF FalseFrame
  <2> QED
    BY <1>5, <2>1 DEF FalseFrame
<1>6. CASE UNCHANGED vars
  BY <1>6 DEF vars
<1> QED
  BY <1>1, <1>2, <1>3, <1>4, <1>5, <1>6 DEF Next, Parse

LEMMA LoggedStays ==
    ASSUME TypeInv, [Next]_vars, NEW n, Logged(n)
    PROVE  Logged(n)'
<1>1. PICK i \in DOMAIN log : log[i].first = n /\ log[i].last = n
  BY DEF Logged
<1>2. i \in DOMAIN log' /\ log'[i] = log[i]
  <2>1. CASE Takes
    <3>1. \E f, l, o : Store(f, l, o)
      BY <2>1 DEF Takes, TakeFirst, TakeByChance, PlcTake
    <3> QED
      BY <3>1, LogGrows
  <2>2. CASE ~Takes
    BY <2>2, LogKept
  <2> QED
    BY <2>1, <2>2
<1> QED
  BY <1>1, <1>2 DEF Logged

LEMMA LoggedNow ==
    ASSUME TypeInv, NEW n, NEW o, Store(n, n, o)
    PROVE  Logged(n)'
  BY LogGrows DEF Logged

\* Steps that leave the stream and the parser alone, and what the device sends.
LEMMA LostStays ==
    ASSUME OrderInv, NEW n \in DOMAIN sent, NEW j \in DOMAIN Stream, Waits(n, j),
           StartComm \/ StartUart \/ StartPlc \/ Ask \/ Consume \/ UNCHANGED vars
    PROVE  Heard(n)'
<1>1. Stream' = Stream /\ kind' = kind /\ remainSize' = remainSize /\ buf' = buf /\ at' = at
  BY DEF StartComm, StartUart, StartPlc, Ask, Consume, vars, deviceVars, parserVars, Stream
<1>2. pc = "parse" => pc' = "parse"
  BY DEF StartComm, StartUart, StartPlc, Ask, Consume, vars
<1> QED
  BY <1>1, <1>2 DEF Waits, Heard, Lies

LEMMA LostGrown ==
    ASSUME OrderInv, TypeInv', NEW n \in DOMAIN sent, NEW j \in DOMAIN Stream, Waits(n, j),
           SendFrame \/ MakeNoise
    PROVE  Heard(n)'
<1> USE DEF OrderInv
<1>1. Grown(Stream', Stream) /\ kind' = kind
  BY StreamGrown
<1>2. Stream \in Seq(Part) /\ Stream' \in Seq(Part)
  BY StreamIs, StreamNext
<1>3. Lies(Stream, n, j)
  BY DEF Waits
<1>4. j \in DOMAIN Stream' /\ Lies(Stream', n, j)
  BY <1>1, <1>2, <1>3, GrownLies
<1>5. buf' = buf /\ remainSize' = remainSize /\ at' = at /\ pc' = pc
  BY DEF SendFrame, MakeNoise, parserVars
<1> QED
  BY <1>1, <1>4, <1>5 DEF Waits, Heard

LEMMA LostSent ==
    ASSUME OrderInv, TypeInv', SendFrame, NEW n \in DOMAIN sent', n \notin DOMAIN sent,
           sent'[n] = "whole"
    PROVE  Heard(n)'
<1> USE DEF OrderInv
<1>1. PICK form \in Form, k \in 2 .. 3 :
        /\ sent' = Append(sent, form)
        /\ form = "whole" => k = 3
        /\ Len(Stream') = Len(Stream) + k
        /\ \A p \in 1 .. k : Stream'[Len(Stream) + p] = <<Len(sent) + 1, p>>
  BY StreamGrown
<1>2. n = Len(sent) + 1 /\ form = "whole" /\ k = 3
  BY <1>1, SentLength
<1>3. /\ Len(Stream) \in Nat /\ Len(Stream) >= Len(buf) /\ Len(buf) \in Nat
      /\ DOMAIN Stream' = 1 .. Len(Stream')
  BY StreamIs, StreamNext
<1>4. remainSize' = remainSize /\ buf' = buf /\ remainSize \in 0 .. Len(buf)
  BY DEF SendFrame, parserVars, TypeInv, TypeOK
<1> DEFINE j == Len(Stream) + 1
<1>5. j \in DOMAIN Stream' /\ j > remainSize' /\ ~(j + 2 <= Len(buf'))
  BY <1>1, <1>2, <1>3, <1>4
<1>6. ASSUME NEW p \in 1 .. 3 PROVE j + p - 1 \in DOMAIN Stream' /\ Stream'[j + p - 1] = <<n, p>>
  <2>1. j + p - 1 = Len(Stream) + p /\ Len(Stream) + p \in DOMAIN Stream'
    BY <1>1, <1>2, <1>3
  <2> QED
    BY <1>1, <1>2, <2>1
<1> HIDE DEF j
<1> QED
  BY <1>5, <1>6 DEF Waits, Heard, Lies

\* A read.  In the buffer of a serial program a frame is complete at its
\* beginning, or it is crowded.
LEMMA LostRead ==
    ASSUME OrderInv, TypeInv', NEW n \in DOMAIN sent, NEW j \in DOMAIN Stream, Waits(n, j),
           Receive, n \notin crowded'
    PROVE  Heard(n)'
<1> USE DEF OrderInv
<1>1. Stream' = Stream /\ kind' = kind
  BY StreamKept DEF StreamStays
<1>2. remainSize' = 0 /\ at' = 1 /\ pc' = "parse"
  BY DEF Receive
<1>3. /\ buf' \in Seq(Part) /\ DOMAIN buf' = 1 .. Len(buf') /\ Len(buf') \in Nat
      /\ \A i \in DOMAIN buf' : i \in DOMAIN Stream' /\ Stream'[i] = buf'[i]
  BY ReadShape, StreamNext
<1>4. n \in 1 .. MaxFrames /\ j \in Nat /\ j >= 1
  BY WaitingFrame
<1>5. Lies(Stream, n, j)
  BY DEF Waits
<1>6. ASSUME kind \in Serial, j + 2 <= Len(buf') PROVE j = 1
  <2>1. \A p \in 1 .. 3 : j + p - 1 \in DOMAIN buf'
    BY <1>3, <1>4, <1>6
  <2>2. Lies(buf', n, j)
    BY <1>1, <1>3, <1>5, <2>1 DEF Lies
  <2>3. j \in DOMAIN buf'
    BY <1>3, <1>4, <1>6
  <2>4. FrameAt(buf', j) /\ buf'[j] = <<n, 1>>
    BY <1>3, <1>4, <2>2, <2>3, LyingFrame
  <2>5. n \notin Behind(buf')
    BY <1>6, ReadShape DEF Serial, Plc
  <2>6. j \notin 2 .. Len(buf')
    BY <2>4, <2>5 DEF Behind
  <2> QED
    BY <1>3, <1>4, <2>3, <2>6
<1> QED
  BY <1>1, <1>2, <1>4, <1>5, <1>6 DEF Waits, Heard

\* What is thrown away.
LEMMA LostSession ==
    ASSUME OrderInv, NEW n \in DOMAIN sent, NEW j \in DOMAIN Stream, Waits(n, j),
           CloseSession \/ Accept, n \notin hurt'
    PROVE  FALSE
<1> USE DEF OrderInv
<1>1. Stream[j][1] = n
  BY WaitingFrame
<1>2. \/ n \in Numbers(buf)
      \/ n \in Numbers(line) /\ j - Len(buf) \in DOMAIN line
  BY <1>1, NumbersHere
<1>3. CASE CloseSession
  BY <1>2, <1>3 DEF CloseSession
<1>4. CASE Accept
  <2>1. line = <<>> /\ Numbers(buf) \subseteq hurt /\ hurt' = hurt
    BY <1>4 DEF Accept, TypeInv, PcInv
  <2> QED
    BY <1>2, <2>1
<1> QED
  BY <1>3, <1>4

LEMMA LostDiscard ==
    ASSUME OrderInv, NEW n \in DOMAIN sent, NEW j \in DOMAIN Stream, Waits(n, j),
           Discard, n \notin hurt'
    PROVE  FALSE
<1> USE DEF OrderInv
<1>1. j + 2 \in DOMAIN Stream /\ Stream[j + 2][1] = n /\ j \in Nat
  BY WaitingFrame
<1>2. n \notin Numbers(line) /\ kind \in Serial /\ pc = "recv"
  BY DEF Discard, Deaf
<1>3. j + 2 \in DOMAIN buf
  BY <1>1, <1>2, NumbersHere
<1>4. j + 2 <= Len(buf)
  BY <1>1, <1>3, StreamIs
<1> QED
  BY <1>2, <1>4 DEF Waits

LEMMA LostTooMuch ==
    ASSUME OrderInv, TypeInv', NEW n \in DOMAIN sent, NEW j \in DOMAIN Stream, Waits(n, j),
           ReceiveTooMuch, n \notin hurt'
    PROVE  Heard(n)'
<1> USE DEF OrderInv
<1>1. /\ Cut(Stream', Stream, Len(buf), ReadCap) /\ kind' = kind
      /\ ReadCap \in 1 .. Len(line)
  BY StreamCut
<1>2. /\ Stream \in Seq(Part) /\ Stream' \in Seq(Part) /\ line \in Seq(Part)
      /\ Len(line) \in Nat /\ DOMAIN line = 1 .. Len(line)
      /\ Len(buf) \in Nat /\ DOMAIN buf = 1 .. Len(buf)
  BY StreamIs, StreamNext
<1>3. /\ n \notin Numbers(buf) /\ n \notin Numbers(SubSeq(line, 1, ReadCap))
      /\ kind = Plc /\ remainSize' = remainSize
  BY DEF ReceiveTooMuch, parserVars
<1>4. Stream[j][1] = n /\ j \in Nat
  BY WaitingFrame
<1>5. j - Len(buf) \in DOMAIN line /\ line[j - Len(buf)][1] = n
  BY <1>3, <1>4, NumbersHere
<1>6. \A p \in 1 .. ReadCap : line[p][1] \in Numbers(SubSeq(line, 1, ReadCap))
  <2>1. 1 \in 1 .. Len(line)
    BY <1>1, <1>2
  <2> QED
    BY <1>1, <1>2, <2>1, NumbersOfSub
<1>7. j - Len(buf) \notin 1 .. ReadCap
  BY <1>3, <1>5, <1>6
<1>8. j > Len(buf) + ReadCap
  BY <1>1, <1>2, <1>4, <1>5, <1>7
<1>9. Lies(Stream, n, j)
  BY DEF Waits
<1>10. j - ReadCap \in DOMAIN Stream' /\ Lies(Stream', n, j - ReadCap)
  BY <1>1, <1>2, <1>8, <1>9, CutLies
<1>11. remainSize' = 0 /\ j - ReadCap > 0
  BY <1>1, <1>2, <1>3, <1>4, <1>8 DEF TypeInv, PcInv
<1>12. kind' \notin Serial
  BY <1>1, <1>3 DEF Serial, Plc
<1> QED
  BY <1>10, <1>11, <1>12 DEF Waits, Heard

\* The parser.
LEMMA LostTaken ==
    ASSUME OrderInv, NEW n \in DOMAIN sent, NEW j \in DOMAIN Stream, Waits(n, j), TakeFirst
    PROVE  Heard(n)'
<1> USE DEF OrderInv
<1>1. /\ Parsing /\ at = 1 /\ FrameAt(buf, at) /\ remainSize' = 3
      /\ Store(buf[1][1], buf[1][1], FALSE)
  BY DEF TakeFirst
<1>2. Stream' = Stream /\ kind' = kind /\ buf' = buf
  BY StreamKept DEF StreamStays, TakeFirst
<1>3. /\ j \in Nat /\ j >= 1 /\ Stream[j] = <<n, 1>> /\ Begins(Stream, j)
      /\ kind \in Serial
  BY <1>1, WaitingFrame, ParsingAt
<1>4. CASE j = 1
  <2>1. buf[1][1] = n
    BY <1>1, <1>3, <1>4, ParserAhead
  <2>2. Store(n, n, FALSE)
    BY <1>1, <2>1
  <2> QED
    BY <2>2, LoggedNow DEF Heard
<1>5. CASE j # 1
  <2>1. j > at
    BY <1>1, <1>3, <1>5
  <2>2. j > at + 2
    BY <1>1, <1>3, <2>1, ParserAhead
  <2>3. j > 3
    BY <1>1, <2>2
  <2>4. ~(j + 2 <= Len(buf))
    BY <1>3, <1>5 DEF Waits
  <2> QED
    BY <1>1, <1>2, <2>3, <2>4 DEF Waits, Heard, Lies
<1> QED
  BY <1>4, <1>5

LEMMA LostPassed ==
    ASSUME OrderInv, NEW n \in DOMAIN sent, NEW j \in DOMAIN Stream, Waits(n, j),
           sent[n] = "whole", RefuseFrame \/ TakeByChance
    PROVE  Heard(n)'
<1> USE DEF OrderInv
<1>1. Parsing /\ FrameAt(buf, at) /\ (at = 1 => sent[buf[1][1]] = "bad")
  <2>1. Parsing /\ FrameAt(buf, at)
    BY DEF RefuseFrame, TakeByChance
  <2>2. at \in 1 .. Len(buf)
    BY <2>1, ParsingAt
  <2>3. CASE RefuseFrame
    BY <2>1, <2>3 DEF RefuseFrame
  <2>4. CASE TakeByChance
    <3>1. at > 1
      BY <2>4 DEF TakeByChance
    <3>2. at # 1
      BY <2>2, <3>1
    <3> QED
      BY <2>1, <3>2
  <2> QED
    BY <2>3, <2>4
<1>2. Stream' = Stream /\ kind' = kind /\ buf' = buf
  BY StreamKept DEF StreamStays, RefuseFrame, TakeByChance
<1>3. remainSize' = at + 2 \/ remainSize' = remainSize
  BY DEF RefuseFrame, TakeByChance
<1>4. /\ j \in Nat /\ Begins(Stream, j)
      /\ j + 2 <= Len(buf) => buf[j][1] = n
      /\ kind \in Serial /\ at \in 1 .. Len(buf) /\ Len(buf) \in Nat /\ buf \in Seq(Part)
  BY <1>1, WaitingFrame, ParsingAt
<1>5. ~(j + 2 <= Len(buf))
  <2>1. SUFFICES ASSUME j + 2 <= Len(buf) PROVE FALSE
    OBVIOUS
  <2>2. j = 1 /\ at = 1
    BY <1>4, <2>1 DEF Waits
  <2> QED
    BY <1>1, <1>4, <2>1, <2>2
<1>6. j > at
  <2>1. at + 2 <= Len(buf)
    BY <1>1 DEF FrameAt
  <2> QED
    BY <1>4, <1>5, <2>1
<1>7. j > at + 2
  BY <1>1, <1>4, <1>6, ParserAhead
<1>8. j > remainSize'
  BY <1>3, <1>7 DEF Waits
<1> QED
  BY <1>2, <1>5, <1>8 DEF Waits, Heard, Lies

LEMMA LostSkipped ==
    ASSUME OrderInv, NEW n \in DOMAIN sent, NEW j \in DOMAIN Stream, Waits(n, j),
           FalseFrame \/ SkipByte, n \notin hurt'
    PROVE  Heard(n)'
<1> USE DEF OrderInv
<1>1. Parsing /\ ~FrameAt(buf, at)
  BY DEF FalseFrame, SkipByte
<1>2. Stream' = Stream /\ kind' = kind /\ buf' = buf
  BY StreamKept DEF StreamStays, FalseFrame, SkipByte
<1>3. /\ j \in Nat /\ j >= 1 /\ Stream[j][1] = n
      /\ j + 1 \in DOMAIN Stream /\ Stream[j + 1][1] = n
      /\ j + 2 <= Len(buf) => FrameAt(buf, j)
  BY WaitingFrame
<1>4. /\ kind \in Serial /\ at \in 1 .. Len(buf) /\ Len(buf) \in Nat /\ buf \in Seq(Part)
      /\ DOMAIN buf = 1 .. Len(buf)
  BY <1>1, ParsingAt
<1>5. ~(j + 2 <= Len(buf))
  BY <1>1, <1>3, <1>4 DEF Waits
<1>6. CASE SkipByte
  <2>1. remainSize' = remainSize
    BY <1>6 DEF SkipByte
  <2> QED
    BY <1>2, <1>5, <2>1 DEF Waits, Heard, Lies
<1>7. CASE FalseFrame
  <2>1. PICK end \in at .. Len(buf) :
            remainSize' = end /\ hurt' = hurt \union Numbers(SubSeq(buf, at, end))
    BY <1>7 DEF FalseFrame
  <2>2. \A p \in at .. end : buf[p][1] # n
    BY <1>4, <2>1, NumbersOfSub
  <2>3. \A p \in DOMAIN buf : Stream[p] = buf[p]
    BY StreamIs
  <2>4. \A p \in at .. end : Stream[p][1] # n
    BY <1>4, <2>1, <2>2, <2>3
  <2>5. j \notin at .. end /\ j + 1 \notin at .. end
    BY <1>3, <2>4
  <2>6. j > end
    BY <1>3, <1>4, <1>5, <2>1, <2>5
  <2> QED
    BY <1>2, <1>5, <2>1, <2>6 DEF Waits, Heard, Lies
<1> QED
  BY <1>6, <1>7

LEMMA LostEnd ==
    ASSUME OrderInv, TypeInv', NEW n \in DOMAIN sent, NEW j \in DOMAIN Stream, Waits(n, j), EndParse
    PROVE  Heard(n)'
<1> USE DEF OrderInv
<1>1. /\ Cut(Stream', Stream, 0, remainSize) /\ kind' = kind
  BY StreamCut
<1>2. /\ Stream \in Seq(Part) /\ Stream' \in Seq(Part) /\ Len(buf) \in Nat
  BY StreamIs, StreamNext
<1>3. kind \in Serial /\ at > Len(buf) /\ remainSize' = 0 /\ buf' = SubSeq(buf, remainSize + 1, Len(buf))
  BY DEF EndParse
<1>4. j \in Nat /\ j >= 1 /\ (j + 2 <= Len(buf) => FrameAt(buf, j))
  BY WaitingFrame
<1>5. ~(j + 2 <= Len(buf))
  BY <1>2, <1>3, <1>4 DEF Waits
<1>6. Lies(Stream, n, j) /\ j > remainSize
  BY DEF Waits
<1>7. remainSize \in 0 .. Len(buf) /\ Len(buf') = Len(buf) - remainSize
  BY <1>3, RestShape DEF TypeInv, TypeOK, Serial, Plc
<1>8. j > 0 + remainSize
  BY <1>2, <1>6, <1>7
<1>9. j - remainSize \in DOMAIN Stream' /\ Lies(Stream', n, j - remainSize)
  BY <1>1, <1>2, <1>6, <1>8, CutLies
<1>10. j - remainSize > 0 /\ ~((j - remainSize) + 2 <= Len(buf'))
  BY <1>2, <1>4, <1>5, <1>6, <1>7
<1> HIDE DEF OrderInv
<1> QED
  BY <1>3, <1>9, <1>10 DEF Waits, Heard

\* PLCS-12 takes a frame by its length, or keeps what the last read has brought.
LEMMA PlcOut ==
    ASSUME OrderInv, TypeInv', NEW n \in DOMAIN sent, NEW j \in DOMAIN Stream, Waits(n, j),
           kind = Plc, NEW m, Cut(Stream', Stream, 0, m), j > m,
           kind' = kind, remainSize' = 0
    PROVE  Heard(n)'
<1> USE DEF OrderInv
<1>1. /\ Stream \in Seq(Part) /\ Stream' \in Seq(Part) /\ m \in Nat
  BY StreamIs, StreamNext DEF Cut
<1>2. j \in Nat
  BY WaitingFrame
<1>3. Lies(Stream, n, j) /\ j > 0 + m
  BY <1>1 DEF Waits
<1>4. j - m \in DOMAIN Stream' /\ Lies(Stream', n, j - m)
  BY <1>1, <1>3, CutLies
<1>5. j - m > remainSize'
  BY <1>1, <1>2
<1>6. kind' \notin Serial
  BY DEF Serial, Plc
<1> HIDE DEF OrderInv
<1> QED
  BY <1>4, <1>5, <1>6 DEF Waits, Heard

\* PLCS-12: different frames in the buffer are crowded, and one that has needed
\* more than two reads is split.
AloneInv ==
    kind = Plc =>
        /\ \A p, q \in DOMAIN buf : buf[p][1] = buf[q][1] \/ buf[p][1] \in crowded
        /\ pc = "parse" => \/ parsingSize = 0
                           \/ Len(buf) = 3
                           \/ Numbers(buf) \subseteq crowded \union split

LEMMA AloneRead ==
    ASSUME TypeInv, kind = Plc, Receive
    PROVE  AloneInv'
<1>1. /\ buf' \in Seq(Part)
      /\ crowded' = crowded \union IF kind # Plc THEN Behind(buf')
                                   ELSE IF OneFrame(buf') THEN {} ELSE Numbers(buf')
      /\ split' = split \union IF kind = Plc /\ OneFrame(buf') /\ ~TwoReads(buf')
                               THEN Numbers(buf') ELSE {}
  BY ReadShape
<1>2. \A p \in DOMAIN buf' : buf'[p][1] \in Numbers(buf')
  BY <1>1, NumbersPart
<1>3. CASE OneFrame(buf')
  <2>1. \A p, q \in DOMAIN buf' : buf'[p][1] = buf'[q][1]
    BY <1>1, <1>3, OneNumber DEF OneFrame
  <2>2. TwoReads(buf') => parsingSize' = 0 \/ Len(buf') = 3
    BY DEF TwoReads, Receive
  <2>3. ~TwoReads(buf') => Numbers(buf') \subseteq split'
    BY <1>1, <1>3
  <2> QED
    BY <2>1, <2>2, <2>3 DEF AloneInv, Numbers
<1>4. CASE ~OneFrame(buf')
  <2>1. Numbers(buf') \subseteq crowded'
    BY <1>1, <1>4
  <2> QED
    BY <1>2, <2>1 DEF AloneInv, Numbers
<1> QED
  BY <1>3, <1>4

LEMMA AloneStep ==
    ASSUME TypeInv, AloneInv, [Next]_vars
    PROVE  AloneInv'
<1> USE DEF history
<1>1. kind' = kind
  BY StreamKept, StreamCut, StreamGrown DEF Next, Parse, StreamStays, vars
<1> SUFFICES ASSUME kind = Plc PROVE AloneInv'
  BY <1>1 DEF AloneInv
<1>2. crowded \subseteq crowded' /\ split \subseteq split'
  BY HistoryGrows
<1>3. CASE Receive
  BY <1>3, AloneRead
<1>4. CASE PlcTake \/ Accept
  <2>1. buf' = <<>> /\ pc' # "parse"
    BY <1>4 DEF PlcTake, Accept
  <2> QED
    BY <2>1 DEF AloneInv
<1>5. CASE PlcKeep
  <2>1. buf' = SubSeq(buf, parsingSize + 1, Len(buf)) /\ pc' # "parse"
    BY <1>5 DEF PlcKeep
  <2>2. parsingSize \in 0 .. Len(buf) /\ buf \in Seq(Part)
    BY DEF TypeInv, TypeOK
  <2>3. /\ buf' \in Seq(Part) /\ Len(buf') = Len(buf) - parsingSize
        /\ \A i \in 1 .. Len(buf) - parsingSize : buf'[i] = buf[i + parsingSize]
    BY <2>1, <2>2, Suffix
  <2>4. \A i \in DOMAIN buf' : i + parsingSize \in DOMAIN buf /\ buf'[i] = buf[i + parsingSize]
    BY <2>2, <2>3
  <2>5. ASSUME NEW p \in DOMAIN buf', NEW q \in DOMAIN buf'
        PROVE  buf'[p][1] = buf'[q][1] \/ buf'[p][1] \in crowded'
    <3>1. PICK x \in DOMAIN buf : buf'[p] = buf[x]
      BY <2>4
    <3>2. PICK y \in DOMAIN buf : buf'[q] = buf[y]
      BY <2>4
    <3> QED
      BY <1>2, <3>1, <3>2 DEF AloneInv
  <2> QED
    BY <2>1, <2>5 DEF AloneInv
<1>6. CASE \/ StartComm \/ StartUart \/ StartPlc \/ Ask \/ Consume \/ UNCHANGED vars
           \/ SendFrame \/ CloseSession \/ ReceiveTooMuch
  <2>1. buf' = buf /\ parsingSize' = parsingSize /\ (pc' = "parse" => pc = "parse")
    BY <1>6 DEF StartComm, StartUart, StartPlc, Ask, Consume, vars, SendFrame, CloseSession,
                ReceiveTooMuch, parserVars
  <2> QED
    BY <1>2, <2>1 DEF AloneInv, Numbers
<1>7. /\ ~TakeFirst /\ ~TakeByChance /\ ~RefuseFrame /\ ~FalseFrame /\ ~SkipByte
      /\ ~EndParse /\ ~MakeNoise /\ ~Discard
  BY DEF TakeFirst, TakeByChance, RefuseFrame, FalseFrame, SkipByte, EndParse, MakeNoise,
         Discard, Deaf, Parsing, Serial, Plc
<1> QED
  BY <1>3, <1>4, <1>5, <1>6, <1>7 DEF Next, Parse

\* A waiting frame of which something is in the buffer is alone there, from its
\* beginning.
LEMMA PlcFront ==
    ASSUME OrderInv, AloneInv, NEW n \in DOMAIN sent, NEW j \in DOMAIN Stream, Waits(n, j),
           kind = Plc, j \in DOMAIN buf, n \notin crowded
    PROVE  /\ j = 1 /\ \A q \in DOMAIN buf : buf[q][1] = n
           /\ n \in Numbers(buf)
           /\ Len(buf) = 3 => Is237 /\ buf[1][1] = n /\ buf[3][1] = n
<1> USE DEF OrderInv
<1>1. /\ buf \in Seq(Part) /\ Stream \in Seq(Part) /\ DOMAIN buf = 1 .. Len(buf)
      /\ \A i \in DOMAIN buf : i \in DOMAIN Stream /\ Stream[i] = buf[i]
  BY StreamIs
<1>2. /\ j \in Nat /\ j >= 1 /\ Stream[j] = <<n, 1>> /\ Stream[j][1] = n
      /\ j + 2 <= Len(buf) => FrameAt(buf, j)
  BY WaitingFrame
<1>3. \A q \in DOMAIN buf : buf[q][1] = n
  <2>1. buf[j][1] = n
    BY <1>1, <1>2
  <2> QED
    BY <2>1 DEF AloneInv
<1>4. j = 1
  <2>1. SUFFICES ASSUME j > 1 PROVE FALSE
    BY <1>2
  <2>2. 1 \in DOMAIN buf /\ 1 \in DOMAIN Stream /\ Stream[1] = buf[1]
    BY <1>1, <2>1
  <2>3. Stream[1][1] = n /\ Stream[1][2] \in 1 .. 3 /\ Stream[1] # Noise /\ Stream[j] # Noise
    BY <1>1, <1>3, <2>2, PartType DEF PlcInv
  <2>4. Before(Stream[1], Stream[j])
    BY <2>1, <2>2, <2>3 DEF StreamInv, Sorted
  <2>5. Stream[j][2] = 1 /\ n \in Nat
    BY <1>2, WaitingFrame
  <2> QED
    BY <1>2, <2>3, <2>4, <2>5 DEF Before
<1>5. n \in Numbers(buf)
  BY <1>3, <1>4 DEF Numbers
<1>6. ASSUME Len(buf) = 3 PROVE Is237 /\ buf[1][1] = n /\ buf[3][1] = n
  <2>1. DOMAIN buf = 1 .. 3 /\ 1 \in 1 .. 3 /\ 3 \in 1 .. 3
    BY <1>1, <1>6
  <2>2. buf[1][1] = n /\ buf[3][1] = n
    BY <1>3, <2>1
  <2>3. FrameAt(buf, 1)
    BY <1>2, <1>4, <1>6
  <2>4. \A p \in 1 .. 3 : buf[p][2] = p
    <3>1. \A p \in 1 .. 3 : buf[1 + p - 1] = <<buf[1][1], p>>
      BY <2>3 DEF FrameAt
    <3>2. \A p \in 1 .. 3 : 1 + p - 1 = p
      OBVIOUS
    <3> QED
      BY <3>1, <3>2
  <2>5. {buf[i][2] : i \in 1 .. 3} = 1 .. 3
    BY <2>4
  <2> QED
    BY <1>6, <2>1, <2>2, <2>5 DEF Is237
<1> QED
  BY <1>3, <1>4, <1>5, <1>6

LEMMA LostPlcTake ==
    ASSUME OrderInv, AloneInv, TypeInv', NEW n \in DOMAIN sent, NEW j \in DOMAIN Stream,
           Waits(n, j), PlcTake, n \notin crowded
    PROVE  Heard(n)'
<1>1. Cut(Stream', Stream, 0, Len(buf)) /\ kind' = kind /\ remainSize' = 0 /\ kind = Plc
  BY StreamCut DEF PlcTake, OrderInv
<1>2. Store(buf[1][1], buf[3][1], skewed) /\ Len(buf) = 3
  BY DEF PlcTake, Is237
<1>3. CASE j \in DOMAIN buf
  <2>1. buf[1][1] = n /\ buf[3][1] = n
    BY <1>1, <1>2, <1>3, PlcFront
  <2>2. Store(n, n, skewed)
    BY <1>2, <2>1
  <2> QED
    BY <2>2, LoggedNow DEF Heard, OrderInv
<1>4. CASE j \notin DOMAIN buf
  <2>1. j > Len(buf)
    BY <1>4, WaitingFrame, StreamIs DEF OrderInv
  <2> QED
    BY <1>1, <2>1, PlcOut
<1> QED
  BY <1>3, <1>4

LEMMA LostPlcKeep ==
    ASSUME OrderInv, AloneInv, TypeInv', NEW n \in DOMAIN sent, NEW j \in DOMAIN Stream,
           Waits(n, j), PlcKeep, n \notin crowded, n \notin split
    PROVE  Heard(n)'
<1>1. /\ Cut(Stream', Stream, 0, parsingSize) /\ kind' = kind /\ remainSize' = 0
      /\ kind = Plc /\ ~Is237 /\ pc = "parse"
  BY StreamCut DEF PlcKeep, OrderInv
<1>2. j \in Nat /\ j >= 1
  BY WaitingFrame DEF OrderInv
<1>3. parsingSize \in 0 .. Len(buf) /\ Len(buf) \in Nat
  BY StreamIs DEF OrderInv, TypeInv, TypeOK
<1>4. j > parsingSize
  <2>1. CASE j \in DOMAIN buf
    <3>1. n \in Numbers(buf) /\ Len(buf) # 3
      BY <1>1, <2>1, PlcFront
    <3>2. parsingSize = 0
      BY <1>1, <3>1 DEF AloneInv
    <3> QED
      BY <1>2, <3>2
  <2>2. CASE j \notin DOMAIN buf
    BY <1>2, <1>3, <2>2, StreamIs DEF OrderInv
  <2> QED
    BY <2>1, <2>2
<1> QED
  BY <1>1, <1>4, PlcOut

LEMMA LostStep == OrderInv /\ AloneInv /\ LostInv /\ [Next]_vars => LostInv'
<1> SUFFICES ASSUME OrderInv, AloneInv, LostInv, [Next]_vars PROVE LostInv'
  OBVIOUS
<1>0. TypeInv /\ TypeInv'
  BY StepType DEF OrderInv
<1>1. crowded \subseteq crowded' /\ split \subseteq split' /\ hurt \subseteq hurt'
  BY <1>0, HistoryGrows
<1> SUFFICES ASSUME NEW n \in DOMAIN sent', sent'[n] = "whole",
                    n \notin (crowded \union split \union hurt)'
             PROVE  Heard(n)'
  BY DEF LostInv
<1>2. /\ n \notin crowded' /\ n \notin hurt'
      /\ n \notin crowded /\ n \notin split /\ n \notin hurt
  BY <1>1
<1>3. CASE n \notin DOMAIN sent
  <2>1. SendFrame
    <3>1. SUFFICES ASSUME ~SendFrame PROVE sent' = sent
      BY <1>3
    <3> QED
      BY <1>0, <3>1, StreamKept, StreamCut, StreamGrown
      DEF Next, Parse, StreamStays, vars, deviceVars
  <2> QED
    BY <1>0, <1>3, <2>1, LostSent
<1>4. CASE n \in DOMAIN sent
  <2>1. sent[n] = "whole"
    BY <1>0, <1>4, SentKept
  <2>2. Heard(n)
    BY <1>2, <1>4, <2>1 DEF LostInv
  <2>3. CASE Logged(n)
    BY <1>0, <2>3, LoggedStays DEF Heard
  <2>4. ASSUME NEW j \in DOMAIN Stream, Waits(n, j) PROVE Heard(n)'
    <3>1. CASE StartComm \/ StartUart \/ StartPlc \/ Ask \/ Consume \/ UNCHANGED vars
      BY <1>4, <2>4, <3>1, LostStays
    <3>2. CASE SendFrame \/ MakeNoise
      BY <1>0, <1>4, <2>4, <3>2, LostGrown
    <3>3. CASE Receive
      BY <1>0, <1>2, <1>4, <2>4, <3>3, LostRead
    <3>4. CASE CloseSession \/ Accept
      BY <1>2, <1>4, <2>4, <3>4, LostSession
    <3>5. CASE Discard
      BY <1>2, <1>4, <2>4, <3>5, LostDiscard
    <3>6. CASE ReceiveTooMuch
      BY <1>0, <1>2, <1>4, <2>4, <3>6, LostTooMuch
    <3>7. CASE TakeFirst
      BY <1>4, <2>4, <3>7, LostTaken
    <3>8. CASE RefuseFrame \/ TakeByChance
      BY <1>4, <2>1, <2>4, <3>8, LostPassed
    <3>9. CASE FalseFrame \/ SkipByte
      BY <1>2, <1>4, <2>4, <3>9, LostSkipped
    <3>10. CASE EndParse
      BY <1>0, <1>4, <2>4, <3>10, LostEnd
    <3>11. CASE PlcTake
      BY <1>0, <1>2, <1>4, <2>4, <3>11, LostPlcTake
    <3>12. CASE PlcKeep
      BY <1>0, <1>2, <1>4, <2>4, <3>12, LostPlcKeep
    <3> QED
      BY <3>1, <3>2, <3>3, <3>4, <3>5, <3>6, <3>7, <3>8, <3>9, <3>10, <3>11, <3>12 DEF Next, Parse
  <2> QED
    BY <2>2, <2>3, <2>4 DEF Heard
<1> QED
  BY <1>3, <1>4

\* With the parser at rest, a frame that waits is still in the line or the buffer.
LEMMA LostMeans == OrderInv /\ LostInv => LostWereCrowdedOrSplit
<1> SUFFICES ASSUME OrderInv, LostInv, pc = "recv", NEW n \in DOMAIN sent, sent[n] = "whole",
                    n \notin Numbers(line \o buf) \union crowded \union split \union hurt
             PROVE  Logged(n)
  BY DEF LostWereCrowdedOrSplit, Logged
<1>1. Heard(n)
  BY DEF LostInv
<1>2. ASSUME NEW j \in DOMAIN Stream, Waits(n, j) PROVE FALSE
  <2>1. Stream[j][1] = n
    BY <1>2, WaitingFrame DEF OrderInv
  <2> QED
    BY <2>1, NumbersHere DEF OrderInv
<1> QED
  BY <1>1, <1>2 DEF Heard

\* A whole frame that has left the line and the buffer of CommManager,
\* UartManager or PLCS-12 was stored or offered to the queue, unless it was
\* thrown away, stood behind something else in the buffer (the serial programs),
\* or shared the buffer with another frame or came in more than two reads
\* (PLCS-12).  So a frame that a serial program gets alone is not lost, however the
\* reads cut it, and of PLCS-12 one that comes alone in a read or two.
THEOREM NothingAloneIsLost == Spec => []LostWereCrowdedOrSplit
<1>1. Init => LostInv /\ AloneInv
  <2> SUFFICES ASSUME Init PROVE LostInv /\ AloneInv
    OBVIOUS
  <2>1. DOMAIN sent = {} /\ DOMAIN buf = {} /\ pc # "parse"
    BY DEF Init
  <2> QED
    BY <2>1 DEF LostInv, AloneInv
<1>2. /\ OrderInv /\ AloneInv /\ LostInv /\ [Next]_vars
      => (OrderInv /\ AloneInv /\ LostInv)'
  BY OrderStep, AloneStep, LostStep DEF OrderInv
<1>3. Init => OrderInv /\ AloneInv /\ LostInv
  BY <1>1, OrderInit
<1> QED
  BY <1>2, <1>3, LostMeans, PTL DEF Spec
=============================================================================
