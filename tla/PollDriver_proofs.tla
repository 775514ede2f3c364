------------------------- MODULE PollDriver_proofs --------------------------
(***************************************************************************)
(* What the drivers of PLCs and meters guarantee for any number of frames, *)
(* any capacity of queue, stream and buffers, and any number of lost       *)
(* sessions and odd frames.                                                *)
(***************************************************************************)
EXTENDS PollDriver, SequenceTheorems, WellFoundedInduction, TLAPS

-----------------------------------------------------------------------------
(* Numbers and sequences.                                                  *)

LEMMA LeastOf ==
    ASSUME NEW T \in SUBSET Nat, T # {}
    PROVE  \E x \in T : \A y \in T : x <= y
<1> DEFINE R == OpToRel(<, Nat)
<1>1. IsWellFoundedOn(R, Nat)
  BY NatLessThanWellFounded
<1>2. \A x, y \in Nat : x < y => <<x, y>> \in R
  BY DEF OpToRel
<1> HIDE DEF R
<1>3. PICK x \in T : \A y \in T : ~(<<y, x>> \in R)
  BY <1>1, WFMin
<1>4. \A y \in T : x \in Nat /\ y \in Nat /\ ~(y < x)
  BY <1>2, <1>3
<1> QED
  BY <1>4

\* What a sequence is from its place k on.
LEMMA SuffixOf ==
    ASSUME NEW S, NEW s \in Seq(S), NEW k \in 1 .. Len(s) + 1
    PROVE  /\ SubSeq(s, k, Len(s)) \in Seq(S)
           /\ Len(SubSeq(s, k, Len(s))) = Len(s) - k + 1
           /\ \A i \in 1 .. Len(s) - k + 1 :
                SubSeq(s, k, Len(s))[i] = s[k - 1 + i] /\ k - 1 + i \in 1 .. Len(s)
  OBVIOUS

-----------------------------------------------------------------------------
(* The parts of frames on their way: b has been read, l has not, and n     *)
(* frames have been sent.                                                  *)

Before(a, b) == a[1] < b[1] \/ (a[1] = b[1] /\ a[2] < b[2])

Follows(a, b) == b = IF a[2] = 3 THEN <<a[1] + 1, 1>> ELSE <<a[1], a[2] + 1>>

\* No part comes twice or before an earlier one.
Ordered(b, l, n) ==
    /\ \A i, j \in DOMAIN b : i < j => Before(b[i], b[j])
    /\ \A i, j \in DOMAIN l : i < j => Before(l[i], l[j])
    /\ \A i \in DOMAIN b, j \in DOMAIN l : Before(b[i], l[j])
    /\ \A i \in DOMAIN b : b[i][1] <= n
    /\ \A i \in DOMAIN l : l[i][1] <= n

\* No part is missing between the first one and the last one sent.
Joined(b, l, n) ==
    /\ \A i \in DOMAIN b : i + 1 \in DOMAIN b => Follows(b[i], b[i + 1])
    /\ \A i \in DOMAIN l : i + 1 \in DOMAIN l => Follows(l[i], l[i + 1])
    /\ b # <<>> /\ l # <<>> => Follows(b[Len(b)], l[1])
    /\ l # <<>> => l[Len(l)] = <<n, 3>>
    /\ l = <<>> /\ b # <<>> => b[Len(b)] = <<n, 3>>

LEMMA PartType ==
    ASSUME NEW x \in Part
    PROVE  x[1] \in 1 .. MaxFrames /\ x[2] \in 1 .. 3 /\ x = <<x[1], x[2]>>
  BY DEF Part

\* The driver gives up the beginning of what it has read.
LEMMA GoOn ==
    ASSUME NEW b \in Seq(Part), NEW l \in Seq(Part), NEW n \in Nat, NEW k \in 1 .. Len(b) + 1
    PROVE  /\ Ordered(b, l, n) => Ordered(SubSeq(b, k, Len(b)), l, n)
           /\ Joined(b, l, n) => Joined(SubSeq(b, k, Len(b)), l, n)
<1> DEFINE s == SubSeq(b, k, Len(b))
<1>1. /\ s \in Seq(Part) /\ Len(s) = Len(b) - k + 1
      /\ \A i \in 1 .. Len(b) - k + 1 : s[i] = b[k - 1 + i] /\ k - 1 + i \in 1 .. Len(b)
  BY SuffixOf
<1> HIDE DEF s
<1>2. /\ k \in Int /\ Len(b) \in Nat /\ DOMAIN s = 1 .. Len(b) - k + 1 /\ DOMAIN b = 1 .. Len(b)
      /\ \A i \in DOMAIN s : i \in Int /\ s[i] = b[k - 1 + i] /\ k - 1 + i \in DOMAIN b
  <2>1. DOMAIN s = 1 .. Len(s)
    BY <1>1
  <2>2. Len(b) \in Nat /\ k \in Int /\ DOMAIN b = 1 .. Len(b)
    OBVIOUS
  <2>3. DOMAIN s = 1 .. Len(b) - k + 1
    BY <1>1, <2>1
  <2>4. \A i \in DOMAIN s : i \in Int /\ i \in 1 .. Len(b) - k + 1
    BY <2>2, <2>3
  <2>5. \A i \in DOMAIN s : i \in Int /\ s[i] = b[k - 1 + i] /\ k - 1 + i \in DOMAIN b
    BY <1>1, <2>2, <2>4
  <2> QED
    BY <2>2, <2>3, <2>5
<1>3. ASSUME Ordered(b, l, n) PROVE Ordered(s, l, n)
  <2>1. \A i, j \in DOMAIN s : i < j => Before(s[i], s[j])
    BY <1>2, <1>3 DEF Ordered
  <2> QED
    BY <1>2, <1>3, <2>1 DEF Ordered
<1>4. ASSUME Joined(b, l, n) PROVE Joined(s, l, n)
  <2>1. ASSUME NEW i \in DOMAIN s, i + 1 \in DOMAIN s PROVE Follows(s[i], s[i + 1])
    <3>1. (k - 1 + i) + 1 = k - 1 + (i + 1)
      BY <1>2
    <3> QED
      BY <1>2, <1>4, <2>1, <3>1 DEF Joined
  <2>2. s # <<>> => b # <<>> /\ s[Len(s)] = b[Len(b)]
    BY <1>1, <1>2
  <2> QED
    BY <1>4, <2>1, <2>2 DEF Joined
<1> QED
  BY <1>3, <1>4 DEF s

\* It reads the first m parts of the line, behind what it has, or throws them
\* away, with or without what it has.
LEMMA TakeUp ==
    ASSUME NEW b \in Seq(Part), NEW l \in Seq(Part), NEW n \in Nat, NEW m \in 1 .. Len(l)
    PROVE  /\ b \o SubSeq(l, 1, m) \in Seq(Part) /\ Len(b \o SubSeq(l, 1, m)) = Len(b) + m
           /\ SubSeq(l, m + 1, Len(l)) \in Seq(Part)
           /\ Len(SubSeq(l, m + 1, Len(l))) <= Len(l)
           /\ Ordered(b, l, n) =>
                /\ Ordered(b \o SubSeq(l, 1, m), SubSeq(l, m + 1, Len(l)), n)
                /\ Ordered(b, SubSeq(l, m + 1, Len(l)), n)
                /\ Ordered(<<>>, SubSeq(l, m + 1, Len(l)), n)
           /\ Joined(b, l, n) =>
                /\ Joined(b \o SubSeq(l, 1, m), SubSeq(l, m + 1, Len(l)), n)
                /\ Joined(<<>>, SubSeq(l, m + 1, Len(l)), n)
<1> DEFINE s == SubSeq(l, 1, m)
           t == SubSeq(l, m + 1, Len(l))
           z == b \o s
<1>1. /\ s \in Seq(Part) /\ Len(s) = m
      /\ \A i \in 1 .. m : s[i] = l[i] /\ i \in DOMAIN l
  OBVIOUS
<1>2. /\ t \in Seq(Part) /\ Len(t) = Len(l) - m /\ DOMAIN t = 1 .. Len(l) - m
      /\ \A i \in 1 .. Len(l) - m : t[i] = l[m + i] /\ m + i \in DOMAIN l
  OBVIOUS
<1> HIDE DEF s, t
<1>3. s \in Seq(Part)
  BY <1>1
<1>4. /\ z \in Seq(Part) /\ Len(z) = Len(b) + Len(s)
      /\ \A i \in 1 .. Len(b) + Len(s) : z[i] = IF i <= Len(b) THEN b[i] ELSE s[i - Len(b)]
  BY <1>3, ConcatProperties, Zenon
<1> HIDE DEF z
<1>5. /\ m \in Int /\ Len(b) \in Nat /\ Len(l) \in Nat
      /\ DOMAIN z = 1 .. Len(b) + m /\ DOMAIN b = 1 .. Len(b) /\ DOMAIN l = 1 .. Len(l)
      /\ Len(z) = Len(b) + m /\ m > 0 /\ m <= Len(l)
  BY <1>1, <1>4
<1>6. \A i \in DOMAIN z : /\ i \in Int
                          /\ \/ i \in DOMAIN b /\ z[i] = b[i]
                             \/ i > Len(b) /\ z[i] = l[i - Len(b)] /\ i - Len(b) \in DOMAIN l
  BY <1>1, <1>4, <1>5
<1>7. \A i \in DOMAIN t : i \in Int /\ i > 0 /\ t[i] = l[m + i] /\ m + i \in DOMAIN l
  BY <1>2
<1>8. ASSUME Ordered(b, l, n) PROVE Ordered(b, t, n) /\ Ordered(<<>>, t, n)
  <2>1. \A i, j \in DOMAIN t : i < j => Before(t[i], t[j])
    BY <1>5, <1>7, <1>8 DEF Ordered
  <2>2. Ordered(b, t, n)
    BY <1>7, <1>8, <2>1 DEF Ordered
  <2> QED
    BY <2>2 DEF Ordered
<1>9. ASSUME Ordered(b, l, n) PROVE Ordered(z, t, n)
  <2>1. \A i \in DOMAIN z : z[i][1] <= n
    BY <1>6, <1>9 DEF Ordered
  <2>2. \A i \in DOMAIN z, j \in DOMAIN t : Before(z[i], t[j])
    <3> SUFFICES ASSUME NEW i \in DOMAIN z, NEW j \in DOMAIN t PROVE Before(z[i], t[j])
      OBVIOUS
    <3>1. i <= Len(b) + m
      BY <1>5
    <3>2. i - Len(b) < m + j
      BY <1>5, <1>6, <1>7, <3>1
    <3> QED
      BY <1>6, <1>7, <1>9, <3>2 DEF Ordered
  <2>3. \A i, j \in DOMAIN z : i < j => Before(z[i], z[j])
    <3> SUFFICES ASSUME NEW i \in DOMAIN z, NEW j \in DOMAIN z, i < j PROVE Before(z[i], z[j])
      OBVIOUS
    <3>1. CASE j \in DOMAIN b /\ z[j] = b[j]
      <4>1. i \in DOMAIN b /\ z[i] = b[i]
        BY <1>5, <1>6, <3>1
      <4> QED
        BY <1>9, <3>1, <4>1 DEF Ordered
    <3>2. CASE j > Len(b) /\ z[j] = l[j - Len(b)] /\ j - Len(b) \in DOMAIN l
      <4>1. i - Len(b) < j - Len(b)
        BY <1>5, <1>6
      <4> QED
        BY <1>6, <1>9, <3>2, <4>1 DEF Ordered
    <3> QED
      BY <1>6, <3>1, <3>2
  <2> QED
    BY <1>8, <1>9, <2>1, <2>2, <2>3 DEF Ordered
<1>10. ASSUME Joined(b, l, n) PROVE Joined(<<>>, t, n)
  <2>1. ASSUME NEW i \in DOMAIN t, i + 1 \in DOMAIN t PROVE Follows(t[i], t[i + 1])
    <3>1. (m + i) + 1 = m + (i + 1)
      BY <1>5, <1>7
    <3> QED
      BY <1>7, <1>10, <2>1, <3>1 DEF Joined
  <2>2. t # <<>> => l # <<>> /\ t[Len(t)] = l[Len(l)]
    BY <1>2, <1>5
  <2> QED
    BY <1>10, <2>1, <2>2 DEF Joined
<1>11. ASSUME Joined(b, l, n) PROVE Joined(z, t, n)
  <2>1. l # <<>> /\ l[Len(l)] = <<n, 3>> /\ (b # <<>> => Follows(b[Len(b)], l[1]))
    BY <1>5, <1>11 DEF Joined
  <2>2. z[Len(z)] = l[m]
    BY <1>1, <1>4, <1>5
  <2>3. ASSUME NEW i \in DOMAIN z, i + 1 \in DOMAIN z PROVE Follows(z[i], z[i + 1])
    <3>1. CASE i + 1 <= Len(b)
      <4>1. i \in DOMAIN b /\ i + 1 \in DOMAIN b /\ z[i] = b[i] /\ z[i + 1] = b[i + 1]
        BY <1>5, <1>6, <2>3, <3>1
      <4> QED
        BY <1>11, <4>1 DEF Joined
    <3>2. CASE i = Len(b)
      <4>1. z[i] = b[Len(b)] /\ z[i + 1] = l[1] /\ b # <<>>
        <5>1. i \in DOMAIN b /\ z[i] = b[i]
          BY <1>5, <1>6, <2>3, <3>2
        <5>2. z[i + 1] = l[(i + 1) - Len(b)] /\ (i + 1) - Len(b) = 1
          BY <1>5, <1>6, <2>3, <3>2
        <5> QED
          BY <3>2, <5>1, <5>2
      <4> QED
        BY <2>1, <4>1
    <3>3. CASE i > Len(b)
      <4>1. /\ z[i] = l[i - Len(b)] /\ z[i + 1] = l[(i + 1) - Len(b)]
            /\ i - Len(b) \in DOMAIN l /\ (i + 1) - Len(b) \in DOMAIN l
            /\ (i - Len(b)) + 1 = (i + 1) - Len(b)
        BY <1>5, <1>6, <2>3, <3>3
      <4> QED
        BY <1>11, <4>1 DEF Joined
    <3> QED
      BY <1>5, <1>6, <2>3, <3>1, <3>2, <3>3
  <2>4. t # <<>> => Follows(z[Len(z)], t[1])
    <3> SUFFICES ASSUME t # <<>> PROVE Follows(z[Len(z)], t[1])
      OBVIOUS
    <3>1. t[1] = l[m + 1] /\ m + 1 \in DOMAIN l /\ m \in DOMAIN l
      BY <1>2, <1>5
    <3> QED
      BY <1>11, <2>2, <3>1 DEF Joined
  <2>5. t = <<>> => m = Len(l)
    BY <1>2, <1>5
  <2> QED
    BY <1>10, <1>11, <2>1, <2>2, <2>3, <2>4, <2>5 DEF Joined
<1>12. z \in Seq(Part) /\ Len(z) = Len(b) + m /\ t \in Seq(Part) /\ Len(t) <= Len(l)
  <2>1. Len(t) = Len(l) - m /\ t \in Seq(Part) /\ z \in Seq(Part)
    BY <1>2, <1>4
  <2> QED
    BY <1>5, <2>1
<1>13. /\ Ordered(b, l, n) => Ordered(z, t, n) /\ Ordered(b, t, n) /\ Ordered(<<>>, t, n)
       /\ Joined(b, l, n) => Joined(z, t, n) /\ Joined(<<>>, t, n)
  BY <1>8, <1>9, <1>10, <1>11
<1> QED
  BY <1>12, <1>13, Zenon DEF s, t, z

\* The device sends a frame.
LEMMA SendThree ==
    ASSUME NEW b \in Seq(Part), NEW l \in Seq(Part), NEW n \in Nat, n < MaxFrames
    PROVE  LET more == l \o [p \in 1 .. 3 |-> <<n + 1, p>>] IN
           /\ more \in Seq(Part) /\ Len(more) = Len(l) + 3
           /\ \A i \in DOMAIN more : more[i][1] = n + 1 \/ (i \in DOMAIN l /\ more[i] = l[i])
           /\ Ordered(b, l, n) => Ordered(b, more, n + 1)
           /\ Joined(b, l, n) => Joined(b, more, n + 1)
<1> DEFINE f == [p \in 1 .. 3 |-> <<n + 1, p>>]
           z == l \o f
<1>1. /\ f \in Seq(Part) /\ Len(f) = 3
      /\ \A p \in 1 .. 3 : f[p] = <<n + 1, p>>
  <2>1. \A p \in 1 .. 3 : <<n + 1, p>> \in Part
    BY PollDriverAssumption DEF Part
  <2>2. f \in Seq(Part) /\ Len(f) = 3
    BY <2>1, IsASeq
  <2> QED
    BY <2>2
<1> HIDE DEF f
<1>2. f \in Seq(Part)
  BY <1>1
<1>3. /\ z \in Seq(Part) /\ Len(z) = Len(l) + Len(f)
      /\ \A i \in 1 .. Len(l) + Len(f) : z[i] = IF i <= Len(l) THEN l[i] ELSE f[i - Len(l)]
  BY <1>2, ConcatProperties, Zenon
<1> HIDE DEF z
<1>4. /\ Len(l) \in Nat /\ DOMAIN z = 1 .. Len(l) + 3 /\ DOMAIN l = 1 .. Len(l) /\ Len(z) = Len(l) + 3
      /\ \A i \in DOMAIN l : z[i] = l[i]
      /\ z[Len(l) + 1] = <<n + 1, 1>> /\ z[Len(l) + 2] = <<n + 1, 2>> /\ z[Len(l) + 3] = <<n + 1, 3>>
  <2>1. /\ Len(l) \in Nat /\ DOMAIN l = 1 .. Len(l) /\ Len(f) = 3
        /\ f[1] = <<n + 1, 1>> /\ f[2] = <<n + 1, 2>> /\ f[3] = <<n + 1, 3>>
    BY <1>1
  <2>2. /\ Len(z) = Len(l) + 3 /\ DOMAIN z = 1 .. Len(l) + 3
        /\ \A i \in 1 .. Len(l) + 3 : z[i] = IF i <= Len(l) THEN l[i] ELSE f[i - Len(l)]
    BY <1>3, <2>1
  <2>3. /\ (Len(l) + 1) - Len(l) = 1 /\ (Len(l) + 2) - Len(l) = 2 /\ (Len(l) + 3) - Len(l) = 3
        /\ ~(Len(l) + 1 <= Len(l)) /\ ~(Len(l) + 2 <= Len(l)) /\ ~(Len(l) + 3 <= Len(l))
        /\ Len(l) + 1 \in 1 .. Len(l) + 3 /\ Len(l) + 2 \in 1 .. Len(l) + 3
        /\ Len(l) + 3 \in 1 .. Len(l) + 3
    BY <2>1
  <2> HIDE DEF f
  <2>4. /\ z[Len(l) + 1] = f[1] /\ z[Len(l) + 2] = f[2] /\ z[Len(l) + 3] = f[3]
    BY <2>2, <2>3
  <2>5. \A i \in DOMAIN l : z[i] = l[i]
    BY <2>1, <2>2
  <2> QED
    BY <2>1, <2>2, <2>4, <2>5
<1>5. \A i \in DOMAIN z : /\ i \in Int
                          /\ \/ i \in DOMAIN l /\ z[i] = l[i]
                             \/ i > Len(l) /\ z[i] = <<n + 1, i - Len(l)>>
  BY <1>4
<1>6. ASSUME Ordered(b, l, n) PROVE Ordered(b, z, n + 1)
  <2>1. /\ \A i \in DOMAIN b : b[i][1] \in Nat /\ b[i][1] <= n
        /\ \A i \in DOMAIN l : l[i][1] \in Nat /\ l[i][1] <= n
    BY <1>6, PartType DEF Ordered
  <2>2. \A i, j \in DOMAIN z : i < j => Before(z[i], z[j])
    <3> SUFFICES ASSUME NEW i \in DOMAIN z, NEW j \in DOMAIN z, i < j PROVE Before(z[i], z[j])
      OBVIOUS
    <3>1. CASE j \in DOMAIN l /\ z[j] = l[j]
      <4>1. i \in DOMAIN l /\ z[i] = l[i]
        BY <1>4, <1>5, <3>1
      <4> QED
        BY <1>6, <3>1, <4>1 DEF Ordered
    <3>2. CASE j > Len(l) /\ z[j] = <<n + 1, j - Len(l)>>
      <4>1. CASE i \in DOMAIN l /\ z[i] = l[i]
        BY <2>1, <3>2, <4>1 DEF Before
      <4>2. CASE i > Len(l) /\ z[i] = <<n + 1, i - Len(l)>>
        BY <1>4, <1>5, <3>2, <4>2 DEF Before
      <4> QED
        BY <1>5, <4>1, <4>2
    <3> QED
      BY <1>5, <3>1, <3>2
  <2>3. \A i \in DOMAIN b, j \in DOMAIN z : Before(b[i], z[j])
    <3> SUFFICES ASSUME NEW i \in DOMAIN b, NEW j \in DOMAIN z PROVE Before(b[i], z[j])
      OBVIOUS
    <3>1. CASE j \in DOMAIN l /\ z[j] = l[j]
      BY <1>6, <3>1 DEF Ordered
    <3>2. CASE j > Len(l) /\ z[j] = <<n + 1, j - Len(l)>>
      BY <2>1, <3>2 DEF Before
    <3> QED
      BY <1>5, <3>1, <3>2
  <2>4. \A i \in DOMAIN z : z[i][1] <= n + 1
    BY <1>5, <2>1
  <2>5. \A i \in DOMAIN b : b[i][1] <= n + 1
    BY <2>1
  <2>6. \A i, j \in DOMAIN b : i < j => Before(b[i], b[j])
    BY <1>6 DEF Ordered
  <2> QED
    BY <2>2, <2>3, <2>4, <2>5, <2>6 DEF Ordered
<1>7. ASSUME Joined(b, l, n) PROVE Joined(b, z, n + 1)
  <2>1. Follows(<<n, 3>>, <<n + 1, 1>>)
    BY DEF Follows
  <2>2. Follows(<<n + 1, 1>>, <<n + 1, 2>>) /\ Follows(<<n + 1, 2>>, <<n + 1, 3>>)
    BY DEF Follows
  <2>3. ASSUME NEW i \in DOMAIN z, i + 1 \in DOMAIN z PROVE Follows(z[i], z[i + 1])
    <3>1. CASE i + 1 <= Len(l)
      <4>1. i \in DOMAIN l /\ i + 1 \in DOMAIN l /\ z[i] = l[i] /\ z[i + 1] = l[i + 1]
        BY <1>4, <1>5, <2>3, <3>1
      <4> QED
        BY <1>7, <4>1 DEF Joined
    <3>2. CASE i = Len(l)
      <4>1. l # <<>> /\ z[i] = l[Len(l)] /\ z[i + 1] = <<n + 1, 1>>
        BY <1>4, <1>5, <2>3, <3>2
      <4> QED
        BY <1>7, <2>1, <4>1 DEF Joined
    <3>3. CASE i = Len(l) + 1 \/ i = Len(l) + 2
      <4>1. (Len(l) + 1) + 1 = Len(l) + 2 /\ (Len(l) + 2) + 1 = Len(l) + 3
        BY <1>4
      <4> QED
        BY <1>4, <2>2, <3>3, <4>1
    <3>4. i \in Int /\ Len(l) \in Int /\ i + 1 <= Len(l) + 3
      BY <1>4, <2>3
    <3>5. i + 1 <= Len(l) \/ i = Len(l) \/ i = Len(l) + 1 \/ i = Len(l) + 2
      BY <3>4
    <3> QED
      BY <3>1, <3>2, <3>3, <3>5
  <2>4. z # <<>> /\ z[Len(z)] = <<n + 1, 3>>
    BY <1>4
  <2>5. b # <<>> => Follows(b[Len(b)], z[1])
    <3>1. CASE l = <<>>
      <4>1. z[1] = <<n + 1, 1>>
        BY <1>4, <3>1
      <4> QED
        BY <1>7, <2>1, <3>1, <4>1 DEF Joined
    <3>2. CASE l # <<>>
      <4>1. z[1] = l[1]
        BY <1>4, <3>2
      <4> QED
        BY <1>7, <3>2, <4>1 DEF Joined
    <3> QED
      BY <3>1, <3>2
  <2>6. \A i \in DOMAIN b : i + 1 \in DOMAIN b => Follows(b[i], b[i + 1])
    BY <1>7 DEF Joined
  <2> QED
    BY <2>3, <2>4, <2>5, <2>6 DEF Joined
<1>8. \A i \in DOMAIN z : z[i][1] = n + 1 \/ (i \in DOMAIN l /\ z[i] = l[i])
  BY <1>5
<1>9. z \in Seq(Part) /\ Len(z) = Len(l) + 3
  BY <1>3, <1>4
<1>10. /\ Ordered(b, l, n) => Ordered(b, z, n + 1)
       /\ Joined(b, l, n) => Joined(b, z, n + 1)
  BY <1>6, <1>7
<1> QED
  BY <1>8, <1>9, <1>10, Zenon DEF z, f

\* The frames that parts belong to, when parts are dropped, read or sent.
LEMMA NumbersType ==
    ASSUME NEW b \in Seq(Part)
    PROVE  Numbers(b) \subseteq 1 .. MaxFrames /\ \A i \in DOMAIN b : b[i][1] \in Numbers(b)
  BY PartType DEF Numbers

LEMMA NumbersGoOn ==
    ASSUME NEW b \in Seq(Part), NEW k \in 1 .. Len(b) + 1
    PROVE  Numbers(SubSeq(b, k, Len(b))) \subseteq Numbers(b)
<1> DEFINE s == SubSeq(b, k, Len(b))
<1>1. /\ s \in Seq(Part) /\ Len(s) = Len(b) - k + 1
      /\ \A i \in 1 .. Len(b) - k + 1 : s[i] = b[k - 1 + i] /\ k - 1 + i \in 1 .. Len(b)
  BY SuffixOf
<1> HIDE DEF s
<1>2. \A i \in DOMAIN s : i \in 1 .. Len(b) - k + 1
  BY <1>1
<1>3. ASSUME NEW i \in DOMAIN s PROVE s[i][1] \in Numbers(b)
  <2>1. k - 1 + i \in DOMAIN b /\ s[i] = b[k - 1 + i]
    BY <1>1, <1>2
  <2> QED
    BY <2>1, NumbersType
<1>4. Numbers(s) \subseteq Numbers(b)
  BY <1>3 DEF Numbers
<1> QED
  BY <1>4 DEF s

LEMMA NumbersTakeUp ==
    ASSUME NEW b \in Seq(Part), NEW l \in Seq(Part), NEW m \in 1 .. Len(l)
    PROVE  /\ Numbers(SubSeq(l, 1, m)) \subseteq Numbers(l)
           /\ Numbers(SubSeq(l, m + 1, Len(l))) \subseteq Numbers(l)
           /\ Numbers(b \o SubSeq(l, 1, m)) \subseteq Numbers(b) \union Numbers(l)
<1> DEFINE s == SubSeq(l, 1, m)
           z == b \o s
<1>1. Numbers(SubSeq(l, m + 1, Len(l))) \subseteq Numbers(l)
  BY NumbersGoOn
<1>2. /\ s \in Seq(Part) /\ Len(s) = m
      /\ \A i \in 1 .. m : s[i] = l[i] /\ i \in DOMAIN l
  OBVIOUS
<1> HIDE DEF s
<1>3. s \in Seq(Part)
  BY <1>2
<1>4. Numbers(s) \subseteq Numbers(l)
  BY <1>2 DEF Numbers
<1>5. /\ z \in Seq(Part) /\ Len(z) = Len(b) + Len(s)
      /\ \A i \in 1 .. Len(b) + Len(s) : z[i] = IF i <= Len(b) THEN b[i] ELSE s[i - Len(b)]
  BY <1>3, ConcatProperties, Zenon
<1> HIDE DEF z
<1>6. \A i \in DOMAIN z : \/ i \in DOMAIN b /\ z[i] = b[i]
                          \/ i - Len(b) \in DOMAIN s /\ z[i] = s[i - Len(b)]
  BY <1>2, <1>5
<1>7. Numbers(z) \subseteq Numbers(b) \union Numbers(s)
  BY <1>6 DEF Numbers
<1> QED
  BY <1>1, <1>4, <1>7 DEF s, z

-----------------------------------------------------------------------------
(* The inductive invariant.                                                *)

OrderInv == Ordered(buf, line, Len(sent))

\* Within a session, nothing is missing unless a read was thrown away; between
\* sessions the line is empty.
HoleInv ==
    /\ pc \in {"recv", "parse"} /\ ~full => Joined(buf, line, Len(sent))
    /\ pc \in {"unborn", "forked", "gone", "closed"} => line = <<>>

\* What is still on its way belongs to later frames than all that was reported.
LogInv ==
    /\ \A i \in DOMAIN log : log[i].first <= log[i].last /\ log[i].last <= Len(sent)
    /\ pc # "dead" =>
          \A i \in DOMAIN log : \A n \in Numbers(buf) \union Numbers(line) : log[i].last < n

IInv == TypeOK /\ OrderInv /\ HoleInv /\ LogInv /\ OnceInOrder /\ WholeFrames

LEMMA InitSound ==
    ASSUME Init PROVE IInv
<1>1. TypeOK
  <2>1. /\ 0 \in 0 .. QueueCap /\ 0 \in 0 .. MaxUpsets /\ 0 <= LineCap /\ 0 <= MaxFrames
        /\ 0 < BufferCap
    BY PollDriverAssumption
  <2>2. <<>> \in Seq(Part) /\ <<>> \in Seq(Form) /\ <<>> \in Seq(Report) /\ Len(<<>>) = 0
    OBVIOUS
  <2>3. /\ sent \in Seq(Form) /\ Len(sent) <= MaxFrames
        /\ line \in Seq(Part) /\ Len(line) <= LineCap
        /\ buf \in Seq(Part) /\ Len(buf) < BufferCap
        /\ log \in Seq(Report)
    BY <2>1, <2>2 DEF Init
  <2>4. /\ kind \in Kind /\ pc = "unborn" /\ asked \in 0 .. 1 /\ skip \in BOOLEAN
        /\ indexCount \in Nat \ {0} /\ queue \in 0 .. QueueCap /\ hurt \subseteq 1 .. MaxFrames
        /\ full \in BOOLEAN /\ upsets \in 0 .. MaxUpsets
    <3>1. /\ kind \in Kind /\ pc = "unborn" /\ asked = 0 /\ skip = FALSE /\ indexCount = 1
          /\ queue = 0 /\ hurt = {} /\ full = FALSE /\ upsets = 0
      BY DEF Init
    <3>2. asked \in 0 .. 1 /\ indexCount \in Nat \ {0}
      BY <3>1
    <3>3. hurt \subseteq 1 .. MaxFrames /\ skip \in BOOLEAN /\ full \in BOOLEAN
      BY <3>1, Zenon
    <3>4. queue \in 0 .. QueueCap /\ upsets \in 0 .. MaxUpsets
      BY <2>1, <3>1, Zenon
    <3> QED
      BY <3>1, <3>2, <3>3, <3>4, Zenon
  <2> QED
    BY <2>3, <2>4 DEF TypeOK
<1>2. OrderInv /\ HoleInv
  BY DEF Init, OrderInv, HoleInv, Ordered
<1>3. LogInv /\ OnceInOrder /\ WholeFrames
  BY DEF Init, LogInv, OnceInOrder, WholeFrames
<1> QED
  BY <1>1, <1>2, <1>3 DEF IInv

LEMMA ReportType ==
    ASSUME NEW r \in Report
    PROVE  r.first \in 1 .. MaxFrames /\ r.last \in 1 .. MaxFrames /\ r.full \in BOOLEAN
  BY DEF Report

\* Steps that report nothing.
LEMMA NoReport ==
    ASSUME IInv, log' = log, pc = "dead" => pc' = "dead",
           Len(sent') \in {Len(sent), Len(sent) + 1},
           Numbers(buf') \union Numbers(line')
               \subseteq Numbers(buf) \union Numbers(line) \union {Len(sent) + 1}
    PROVE  LogInv' /\ OnceInOrder' /\ WholeFrames'
<1>1. log \in Seq(Report) /\ Len(sent) \in Nat
  BY DEF IInv, TypeOK
<1>2. \A i \in DOMAIN log : log[i].last \in Nat /\ log[i].last <= Len(sent)
  BY <1>1, ReportType DEF IInv, LogInv
<1>3. \A i \in DOMAIN log : log[i].last <= Len(sent')
  BY <1>1, <1>2
<1>4. pc' # "dead" => \A i \in DOMAIN log : \A n \in Numbers(buf') \union Numbers(line') :
                          log[i].last < n
  BY <1>1, <1>2 DEF IInv, LogInv
<1>5. LogInv'
  BY <1>3, <1>4 DEF IInv, LogInv
<1> QED
  BY <1>5 DEF IInv, OnceInOrder, WholeFrames

\* Steps that report a frame, and leave only later ones on their way.
LEMMA NextReport ==
    ASSUME IInv, pc # "dead", sent' = sent, buf' \in Seq(Part), line' \in Seq(Part),
           NEW first \in Numbers(buf), NEW last \in 1 .. MaxFrames, NEW accepted \in BOOLEAN,
           first <= last, last <= Len(sent), first # last => full,
           log' = Append(log, NewReport(first, last, accepted)),
           \/ pc' = "dead"
           \/ \A n \in Numbers(buf') \union Numbers(line') : last < n
    PROVE  log' \in Seq(Report) /\ LogInv' /\ OnceInOrder' /\ WholeFrames'
<1> DEFINE r == NewReport(first, last, accepted)
<1>1. /\ log \in Seq(Report) /\ buf \in Seq(Part) /\ Len(sent) \in Nat /\ full \in BOOLEAN
      /\ indexCount \in Nat
  BY DEF IInv, TypeOK
<1>2. first \in 1 .. MaxFrames
  BY <1>1, NumbersType
<1>3. r \in Report /\ r.first = first /\ r.last = last /\ r.full = full
  BY <1>1, <1>2 DEF NewReport, Report
<1> HIDE DEF r
<1>4. log' = Append(log, r)
  BY DEF r
<1>5. /\ log' \in Seq(Report) /\ DOMAIN log' = 1 .. Len(log) + 1 /\ DOMAIN log = 1 .. Len(log)
      /\ Len(log) \in Nat /\ log'[Len(log) + 1] = r
      /\ \A i \in 1 .. Len(log) : log'[i] = log[i]
  BY <1>1, <1>3, <1>4
<1>6. \A i \in DOMAIN log' : i = Len(log) + 1 \/ (i \in DOMAIN log /\ log'[i] = log[i])
  BY <1>5
<1>7. \A i \in DOMAIN log : log[i].last < first /\ log[i].last \in Nat
  BY <1>1, ReportType DEF IInv, LogInv
<1>8. LogInv'
  <2>1. \A i \in DOMAIN log' : log'[i].first <= log'[i].last /\ log'[i].last <= Len(sent')
    BY <1>3, <1>5, <1>6 DEF IInv, LogInv
  <2>2. pc' # "dead" => \A i \in DOMAIN log' : \A n \in Numbers(buf') \union Numbers(line') :
                            log'[i].last < n
    <3> SUFFICES ASSUME NEW i \in DOMAIN log', NEW n \in Numbers(buf') \union Numbers(line'),
                        last < n
                 PROVE  log'[i].last < n
      OBVIOUS
    <3>1. CASE i = Len(log) + 1
      BY <1>3, <1>5, <3>1
    <3>2. CASE i \in DOMAIN log /\ log'[i] = log[i]
      <4>1. last \in Nat /\ first \in Nat /\ log[i].last < first /\ log[i].last \in Nat
        BY <1>2, <1>7, <3>2
      <4>2. n \in Int
        BY NumbersType
      <4> QED
        BY <3>2, <4>1, <4>2
    <3> QED
      BY <1>6, <3>1, <3>2
  <2> QED
    BY <2>1, <2>2 DEF LogInv
<1>9. OnceInOrder'
  <2> SUFFICES ASSUME NEW i \in DOMAIN log', NEW j \in DOMAIN log', i < j
               PROVE  log'[i].last < log'[j].first
    BY DEF OnceInOrder
  <2>1. i \in DOMAIN log /\ log'[i] = log[i]
    BY <1>5, <1>6
  <2> QED
    BY <1>3, <1>5, <1>6, <1>7, <2>1 DEF IInv, OnceInOrder
<1>10. WholeFrames'
  BY <1>3, <1>5, <1>6 DEF IInv, WholeFrames
<1> QED
  BY <1>5, <1>8, <1>9, <1>10

-----------------------------------------------------------------------------
(* The steps.                                                              *)

LEMMA UpsetType ==
    ASSUME upsets \in 0 .. MaxUpsets, Upset
    PROVE  upsets' \in 0 .. MaxUpsets
  BY PollDriverAssumption DEF Upset

\* The start of the process, requests, and the receiver of the queue.
LEMMA SmallStepsSound ==
    ASSUME IInv, Fork \/ Start \/ Ask \/ Consume \/ CrashOnFrame \/ KeepRest \/ MeterEnds
    PROVE  IInv'
<1>1. /\ kind' = kind /\ sent' = sent /\ line' = line /\ buf' = buf /\ log' = log /\ hurt' = hurt
      /\ full' = full /\ upsets' = upsets /\ indexCount' = indexCount
  BY DEF Fork, Start, Ask, Consume, CrashOnFrame, KeepRest, MeterEnds, deviceVars, readVars,
         reportVars
<1>2. /\ pc' \in {"unborn", "forked", "gone", "closed", "recv", "parse", "dead"}
      /\ asked' \in 0 .. 1 /\ skip' \in BOOLEAN /\ queue' \in 0 .. QueueCap
      /\ pc = "dead" => pc' = "dead"
      /\ pc' \in {"recv", "parse"} => pc \in {"recv", "parse"}
      /\ pc' \in {"unborn", "forked", "gone", "closed"} =>
             pc \in {"unborn", "forked", "gone", "closed"}
  <2>1. /\ pc \in {"unborn", "forked", "gone", "closed", "recv", "parse", "dead"}
        /\ asked \in 0 .. 1 /\ skip \in BOOLEAN /\ queue \in 0 .. QueueCap
    BY DEF IInv, TypeOK
  <2>2. CASE Fork \/ Start
    BY <2>1, <2>2 DEF Fork, Start, deviceVars, readVars, reportVars
  <2>3. CASE Ask
    BY <2>1, <2>3 DEF Ask, readVars, reportVars
  <2>4. CASE Consume
    <3>1. queue > 0 /\ queue' = queue - 1 /\ UNCHANGED <<pc, asked, skip>>
      BY <2>4 DEF Consume, deviceVars, readVars
    <3>2. queue' \in 0 .. QueueCap
      BY <2>1, <3>1, PollDriverAssumption
    <3> QED
      BY <2>1, <3>1, <3>2
  <2>5. CASE CrashOnFrame \/ KeepRest
    BY <2>1, <2>5 DEF CrashOnFrame, KeepRest, deviceVars, readVars, reportVars
  <2>6. CASE MeterEnds
    BY <2>1, <2>6 DEF MeterEnds, deviceVars, reportVars
  <2> QED
    BY <2>2, <2>3, <2>4, <2>5, <2>6
<1>3. TypeOK'
  BY <1>1, <1>2 DEF IInv, TypeOK
<1>4. OrderInv' /\ HoleInv'
  BY <1>1, <1>2 DEF IInv, OrderInv, HoleInv
<1>5. LogInv' /\ OnceInOrder' /\ WholeFrames'
  BY <1>1, <1>2, NoReport
<1> QED
  BY <1>3, <1>4, <1>5 DEF IInv

\* A session opens, or ends with all that was on its way.
LEMMA SessionSound ==
    ASSUME IInv, OpenSession \/ Disconnect
    PROVE  IInv'
<1>1. /\ line \in Seq(Part) /\ buf \in Seq(Part) /\ sent \in Seq(Form)
      /\ upsets \in 0 .. MaxUpsets
  BY DEF IInv, TypeOK
<1>2. Ordered(<<>>, line, Len(sent)) /\ Ordered(buf, <<>>, Len(sent))
  BY DEF IInv, OrderInv, Ordered
<1>3. Numbers(<<>>) = {}
  BY DEF Numbers
<1>4. CASE OpenSession
  <2>1. /\ kind' = kind /\ sent' = sent /\ line' = line /\ log' = log /\ hurt' = hurt
        /\ upsets' = upsets /\ asked' = asked /\ queue' = queue /\ indexCount' = indexCount
        /\ buf' = <<>> /\ skip' = FALSE /\ full' = FALSE /\ pc = "closed" /\ pc' = "recv"
    BY <1>4 DEF OpenSession, deviceVars, reportVars
  <2>2. <<>> \in Seq(Part) /\ Len(<<>>) < BufferCap
    BY PollDriverAssumption
  <2>3. TypeOK'
    BY <2>1, <2>2 DEF IInv, TypeOK
  <2>4. line = <<>>
    BY <2>1 DEF IInv, HoleInv
  <2>5. OrderInv' /\ HoleInv'
    BY <1>2, <2>1, <2>4 DEF OrderInv, HoleInv, Joined
  <2>6. LogInv' /\ OnceInOrder' /\ WholeFrames'
    BY <1>3, <2>1, NoReport
  <2> QED
    BY <2>3, <2>5, <2>6 DEF IInv
<1>5. CASE Disconnect
  <2>1. /\ kind' = kind /\ sent' = sent /\ log' = log /\ full' = full
        /\ skip' = skip /\ buf' = buf /\ queue' = queue /\ indexCount' = indexCount
        /\ asked' = 0 /\ line' = <<>> /\ pc = "recv" /\ pc' = "closed"
        /\ upsets < MaxUpsets /\ upsets' = upsets + 1
        /\ hurt' = hurt \union Numbers(line) \union Numbers(buf)
    BY <1>5 DEF Disconnect, Upset, reportVars
  <2>2. /\ <<>> \in Seq(Part) /\ Len(<<>>) <= LineCap
        /\ upsets' \in 0 .. MaxUpsets
    BY <1>1, <2>1, PollDriverAssumption
  <2>3. hurt' \subseteq 1 .. MaxFrames
    BY <1>1, <2>1, NumbersType DEF IInv, TypeOK
  <2>4. TypeOK'
    BY <2>1, <2>2, <2>3 DEF IInv, TypeOK
  <2>5. OrderInv' /\ HoleInv'
    BY <1>2, <2>1 DEF OrderInv, HoleInv
  <2>6. LogInv' /\ OnceInOrder' /\ WholeFrames'
    BY <1>3, <2>1, NoReport
  <2> QED
    BY <2>4, <2>5, <2>6 DEF IInv
<1> QED
  BY <1>4, <1>5

LEMMA SendFrameSound ==
    ASSUME IInv, SendFrame
    PROVE  IInv'
<1> DEFINE more == line \o [p \in 1 .. 3 |-> <<Len(sent) + 1, p>>]
<1>1. /\ line \in Seq(Part) /\ buf \in Seq(Part) /\ sent \in Seq(Form) /\ Len(sent) \in Nat
      /\ upsets \in 0 .. MaxUpsets /\ asked \in 0 .. 1
  BY DEF IInv, TypeOK
<1>2. /\ kind' = kind /\ pc' = pc /\ buf' = buf /\ skip' = skip /\ hurt' = hurt /\ full' = full
      /\ log' = log /\ queue' = queue /\ indexCount' = indexCount
      /\ pc \in {"recv", "parse"} /\ Len(sent) < MaxFrames /\ Len(line) + 3 <= LineCap
      /\ line' = more
      /\ asked' \in {0, asked}
  BY DEF SendFrame, readVars, reportVars
<1>3. /\ more \in Seq(Part) /\ Len(more) = Len(line) + 3
      /\ \A i \in DOMAIN more : more[i][1] = Len(sent) + 1 \/ (i \in DOMAIN line /\ more[i] = line[i])
      /\ Ordered(buf, line, Len(sent)) => Ordered(buf, more, Len(sent) + 1)
      /\ Joined(buf, line, Len(sent)) => Joined(buf, more, Len(sent) + 1)
  BY <1>1, <1>2, SendThree
<1>4. PICK form \in Form : sent' = Append(sent, form)
  BY DEF SendFrame, Form
<1>5. sent' \in Seq(Form) /\ Len(sent') = Len(sent) + 1
  BY <1>1, <1>4
<1>6. upsets' \in 0 .. MaxUpsets
  BY <1>1, UpsetType DEF SendFrame
<1> HIDE DEF more
<1>7. TypeOK'
  <2>1. Len(line') <= LineCap /\ Len(sent') <= MaxFrames /\ asked' \in 0 .. 1
    BY <1>1, <1>2, <1>3, <1>5, PollDriverAssumption
  <2> QED
    BY <1>2, <1>3, <1>5, <1>6, <2>1 DEF IInv, TypeOK
<1>8. OrderInv' /\ HoleInv'
  BY <1>2, <1>3, <1>5 DEF IInv, OrderInv, HoleInv
<1>9. Numbers(more) \subseteq Numbers(line) \union {Len(sent) + 1}
  BY <1>3 DEF Numbers
<1>10. LogInv' /\ OnceInOrder' /\ WholeFrames'
  BY <1>2, <1>5, <1>9, NoReport
<1> QED
  BY <1>7, <1>8, <1>10 DEF IInv

\* A read is kept, or thrown away with or without what was left of earlier ones.
LEMMA ReadsSound ==
    ASSUME IInv, Receive \/ MeterReceive \/ ReceiveTooMuch \/ BufferFull
    PROVE  IInv'
<1>1. /\ line \in Seq(Part) /\ buf \in Seq(Part) /\ hurt \subseteq 1 .. MaxFrames
      /\ upsets \in 0 .. MaxUpsets /\ Len(line) \in Nat /\ Len(buf) \in Nat
  BY DEF IInv, TypeOK
<1>2. /\ kind' = kind /\ asked' = asked /\ sent' = sent /\ log' = log /\ queue' = queue
      /\ indexCount' = indexCount /\ pc = "recv" /\ pc' \in {"recv", "parse", "dead"}
  BY DEF Receive, MeterReceive, ReceiveTooMuch, BufferFull, Read, reportVars
<1>3. ASSUME NEW m \in 1 .. Len(line)
      PROVE  /\ Numbers(SubSeq(line, 1, m)) \subseteq 1 .. MaxFrames
             /\ line[m][1] \in 1 .. MaxFrames
  BY <1>1, NumbersTakeUp, NumbersType, PartType
<1>4. CASE Receive \/ MeterReceive
  <2>1. PICK m \in 1 .. Len(line), h \in SUBSET (1 .. MaxFrames) :
          Read(m) /\ hurt' = hurt \union h
    BY <1>3, <1>4 DEF Receive, MeterReceive
  <2> DEFINE z == buf \o SubSeq(line, 1, m)
             t == SubSeq(line, m + 1, Len(line))
  <2>2. /\ Len(buf) + m < BufferCap /\ buf' = z /\ line' = t /\ skip' = FALSE /\ full' = full
        /\ upsets' = upsets
    BY <2>1 DEF Read
  <2>3. /\ z \in Seq(Part) /\ Len(z) = Len(buf) + m /\ t \in Seq(Part) /\ Len(t) <= Len(line)
        /\ Ordered(buf, line, Len(sent)) => Ordered(z, t, Len(sent))
        /\ Joined(buf, line, Len(sent)) => Joined(z, t, Len(sent))
    <3>1. Len(sent) \in Nat
      BY DEF IInv, TypeOK
    <3> QED
      BY <1>1, <3>1, TakeUp
  <2>4. Numbers(z) \subseteq Numbers(buf) \union Numbers(line) /\ Numbers(t) \subseteq Numbers(line)
    BY <1>1, NumbersTakeUp
  <2> HIDE DEF z, t
  <2>5. hurt' \subseteq 1 .. MaxFrames
    BY <1>1, <1>3, <2>1
  <2>6. TypeOK'
    <3>1. Len(line') <= LineCap /\ Len(buf') < BufferCap
      BY <1>1, <2>2, <2>3, PollDriverAssumption DEF IInv, TypeOK
    <3> QED
      BY <1>2, <2>2, <2>3, <2>5, <3>1 DEF IInv, TypeOK
  <2>7. OrderInv' /\ HoleInv'
    BY <1>2, <2>2, <2>3 DEF IInv, OrderInv, HoleInv
  <2>8. LogInv' /\ OnceInOrder' /\ WholeFrames'
    BY <1>2, <2>2, <2>4, NoReport
  <2> QED
    BY <2>6, <2>7, <2>8 DEF IInv
<1>5. CASE ReceiveTooMuch \/ BufferFull
  <2>1. PICK m \in 1 .. Len(line) :
          /\ hurt' = hurt \union Numbers(SubSeq(line, 1, m)) \union Numbers(buf)
          /\ line' = SubSeq(line, m + 1, Len(line))
          /\ \/ buf' = buf /\ full' = TRUE
             \/ buf' = <<>> /\ full' = full
    <3>1. CASE ReceiveTooMuch
      <4>1. ReadCap \in 1 .. Len(line)
        BY <1>1, <3>1, PollDriverAssumption DEF ReceiveTooMuch
      <4> QED
        BY <3>1, <4>1 DEF ReceiveTooMuch
    <3>2. CASE BufferFull
      BY <3>2 DEF BufferFull
    <3> QED
      BY <1>5, <3>1, <3>2
  <2> DEFINE t == SubSeq(line, m + 1, Len(line))
  <2>2. /\ t \in Seq(Part) /\ Len(t) <= Len(line)
        /\ Ordered(buf, line, Len(sent)) => Ordered(buf, t, Len(sent)) /\ Ordered(<<>>, t, Len(sent))
        /\ Joined(buf, line, Len(sent)) => Joined(<<>>, t, Len(sent))
    <3>1. Len(sent) \in Nat
      BY DEF IInv, TypeOK
    <3> QED
      BY <1>1, <3>1, TakeUp
  <2>3. Numbers(t) \subseteq Numbers(line) /\ Numbers(<<>>) = {}
    BY <1>1, NumbersTakeUp DEF Numbers
  <2>4. hurt' \subseteq 1 .. MaxFrames
    BY <1>1, <1>3, <2>1, NumbersType
  <2> HIDE DEF t
  <2>5. line' = t
    BY <2>1 DEF t
  <2>6. upsets' \in 0 .. MaxUpsets /\ skip' = skip
    BY <1>1, <1>5, UpsetType DEF ReceiveTooMuch, BufferFull
  <2>7. TypeOK'
    <3>1. /\ <<>> \in Seq(Part) /\ Len(<<>>) < BufferCap /\ Len(buf) < BufferCap
          /\ Len(line) <= LineCap /\ LineCap \in Nat
      BY PollDriverAssumption DEF IInv, TypeOK
    <3>2. Len(line') <= LineCap /\ buf' \in Seq(Part) /\ Len(buf') < BufferCap
      <4>1. Len(line') <= LineCap
        BY <1>1, <2>2, <2>5, <3>1
      <4>2. CASE buf' = buf
        BY <1>1, <3>1, <4>1, <4>2
      <4>3. CASE buf' = <<>>
        BY <3>1, <4>1, <4>3, Zenon
      <4> QED
        BY <2>1, <4>2, <4>3
    <3> QED
      BY <1>2, <2>1, <2>2, <2>4, <2>5, <2>6, <3>2 DEF IInv, TypeOK
  <2>8. OrderInv' /\ HoleInv'
    BY <1>2, <2>1, <2>2, <2>5 DEF IInv, OrderInv, HoleInv
  <2>9. LogInv' /\ OnceInOrder' /\ WholeFrames'
    BY <1>2, <2>1, <2>3, <2>5, NoReport
  <2> QED
    BY <2>7, <2>8, <2>9 DEF IInv
<1> QED
  BY <1>4, <1>5

\* The parser goes on somewhere behind, and has reported nothing.
LEMMA DropSound ==
    ASSUME IInv, pc = "parse", pc' \in {"recv", "parse"}, NEW k \in 1 .. Len(buf) + 1,
           buf' = SubSeq(buf, k, Len(buf)), skip' \in BOOLEAN, hurt' \subseteq 1 .. MaxFrames,
           UNCHANGED <<kind, deviceVars, full, reportVars>>
    PROVE  IInv'
<1>1. /\ kind' = kind /\ asked' = asked /\ sent' = sent /\ line' = line /\ upsets' = upsets
      /\ full' = full /\ indexCount' = indexCount /\ queue' = queue /\ log' = log
  BY DEF deviceVars, reportVars
<1>2. /\ buf \in Seq(Part) /\ line \in Seq(Part) /\ Len(sent) \in Nat
      /\ Len(buf) < BufferCap /\ BufferCap \in Nat
  BY PollDriverAssumption DEF IInv, TypeOK
<1>3. /\ Ordered(buf, line, Len(sent)) => Ordered(buf', line, Len(sent))
      /\ Joined(buf, line, Len(sent)) => Joined(buf', line, Len(sent))
  BY <1>2, GoOn
<1>4. Numbers(buf') \subseteq Numbers(buf)
  BY <1>2, NumbersGoOn
<1>5. buf' \in Seq(Part) /\ Len(buf') = Len(buf) - k + 1
  BY <1>2, SuffixOf
<1>6. Len(buf') < BufferCap
  BY <1>2, <1>5
<1>7. TypeOK'
  BY <1>1, <1>5, <1>6 DEF IInv, TypeOK
<1>8. OrderInv' /\ HoleInv'
  BY <1>1, <1>3 DEF IInv, OrderInv, HoleInv
<1>9. LogInv' /\ OnceInOrder' /\ WholeFrames'
  BY <1>1, <1>4, NoReport
<1> QED
  BY <1>7, <1>8, <1>9 DEF IInv

\* Where the parser looks for the next header, it takes the first one.
LEMMA FindSound ==
    ASSUME IInv, FindHeader \/ MeterFind
    PROVE  IInv'
<1>1. /\ buf \in Seq(Part) /\ Len(buf) \in Nat /\ DOMAIN buf = 1 .. Len(buf)
      /\ hurt \subseteq 1 .. MaxFrames /\ skip \in BOOLEAN
  BY DEF IInv, TypeOK
<1>2. /\ pc = "parse" /\ pc' \in {"recv", "parse"} /\ skip' \in BOOLEAN /\ hurt' = hurt
      /\ UNCHANGED <<kind, deviceVars, full, reportVars>>
  BY <1>1 DEF FindHeader, MeterFind
<1>3. SubSeq(buf, Len(buf) + 1, Len(buf)) = <<>>
  BY <1>1
<1>4. \E k \in 1 .. Len(buf) + 1 : buf' = SubSeq(buf, k, Len(buf))
  <2>1. PICK headers \in SUBSET (1 .. Len(buf)) :
          \/ /\ headers # {}
             /\ buf' = SubSeq(buf, CHOOSE i \in headers : \A j \in headers : i <= j, Len(buf))
          \/ buf' = <<>>
          \/ buf # <<>> /\ buf' = <<buf[Len(buf)]>>
    <3>1. CASE FindHeader
      <4> DEFINE headers == {i \in DOMAIN buf : HeaderAt(i)}
      <4>1. headers \in SUBSET (1 .. Len(buf))
        BY <1>1
      <4>2. IF headers # {}
            THEN buf' = SubSeq(buf, CHOOSE i \in headers : \A j \in headers : i <= j, Len(buf))
            ELSE \/ buf' = <<>>
                 \/ buf # <<>> /\ buf' = <<buf[Len(buf)]>>
        BY <3>1 DEF FindHeader
      <4> HIDE DEF headers
      <4> QED
        BY <4>1, <4>2
    <3>2. CASE MeterFind
      <4> DEFINE rest    == IF skip THEN 2 ELSE 1
                 headers == {i \in rest .. Len(buf) - 1 : buf[i][2] = 1 /\ buf[i + 1][2] = 2}
      <4>1. headers \in SUBSET (1 .. Len(buf))
        BY <1>1
      <4>2. IF headers # {}
            THEN buf' = SubSeq(buf, CHOOSE i \in headers : \A j \in headers : i <= j, Len(buf))
            ELSE buf' = <<>>
        BY <3>2 DEF MeterFind
      <4> HIDE DEF headers
      <4> QED
        BY <4>1, <4>2
    <3> QED
      BY <3>1, <3>2
  <2>2. CASE headers # {} /\ buf' = SubSeq(buf, CHOOSE i \in headers : \A j \in headers : i <= j,
                                           Len(buf))
    <3>1. \E i \in headers : \A j \in headers : i <= j
      <4>1. headers \in SUBSET Nat
        BY <1>1
      <4> QED
        BY <2>2, <4>1, LeastOf
    <3> DEFINE k == CHOOSE i \in headers : \A j \in headers : i <= j
    <3>2. k \in headers
      BY <3>1, Zenon
    <3>3. buf' = SubSeq(buf, k, Len(buf))
      BY <2>2
    <3> HIDE DEF k
    <3>4. k \in 1 .. Len(buf) + 1
      BY <1>1, <3>2
    <3> QED
      BY <3>3, <3>4
  <2>3. CASE buf' = <<>>
    <3>1. Len(buf) + 1 \in 1 .. Len(buf) + 1
      BY <1>1
    <3> QED
      BY <1>3, <2>3, <3>1
  <2>4. CASE buf # <<>> /\ buf' = <<buf[Len(buf)]>>
    <3>1. Len(buf) \in Nat \ {0}
      BY <1>1, <2>4, EmptySeq
    <3>2. Len(buf) \in 1 .. Len(buf) + 1
      BY <3>1
    <3> DEFINE tail == SubSeq(buf, Len(buf), Len(buf))
    <3>3. tail \in Seq(Part) /\ Len(tail) = 1 /\ tail[1] = buf[Len(buf)]
      BY <1>1, <3>1
    <3> HIDE DEF tail
    <3>4. tail = <<buf[Len(buf)]>>
      BY <3>3
    <3>5. buf' = tail
      BY <2>4, <3>4
    <3> QED
      BY <3>2, <3>5 DEF tail
  <2> QED
    BY <2>1, <2>2, <2>3, <2>4
<1> QED
  BY <1>1, <1>2, <1>4, DropSound

\* A frame is taken up to the part e, which ends one, and reported or not: what
\* is left belongs to later frames.
LEMMA BehindEnd ==
    ASSUME IInv, NEW e \in DOMAIN buf, buf[e][2] = 3, buf' = SubSeq(buf, e + 1, Len(buf)),
           line' = line
    PROVE  \A n \in Numbers(buf') \union Numbers(line') : buf[e][1] < n
<1>1. buf \in Seq(Part) /\ line \in Seq(Part) /\ Len(buf) \in Nat /\ DOMAIN buf = 1 .. Len(buf)
  BY DEF IInv, TypeOK
<1>2. \A x \in Part : Before(buf[e], x) => buf[e][1] < x[1]
  BY PartType DEF Before
<1>3. ASSUME NEW i \in DOMAIN buf' PROVE buf[e][1] < buf'[i][1]
  <2>1. /\ e + 1 \in 1 .. Len(buf) + 1 /\ e \in Int
    BY <1>1
  <2>2. buf' \in Seq(Part) /\ Len(buf') = Len(buf) - (e + 1) + 1
    BY <1>1, <2>1, SuffixOf
  <2>3. i \in 1 .. Len(buf) - (e + 1) + 1
    BY <2>2
  <2>4. buf'[i] = buf[(e + 1) - 1 + i] /\ (e + 1) - 1 + i \in DOMAIN buf
    BY <1>1, <2>1, <2>3, SuffixOf
  <2>5. e < (e + 1) - 1 + i
    BY <1>1, <2>1, <2>3
  <2>6. Before(buf[e], buf'[i])
    BY <2>4, <2>5 DEF IInv, OrderInv, Ordered
  <2> QED
    BY <1>1, <1>2, <2>4, <2>6
<1>4. ASSUME NEW i \in DOMAIN line PROVE buf[e][1] < line[i][1]
  <2>1. Before(buf[e], line[i]) /\ line[i] \in Part
    BY <1>1 DEF IInv, OrderInv, Ordered
  <2> QED
    BY <1>2, <2>1
<1> QED
  BY <1>3, <1>4 DEF Numbers

\* A report of what was read leaves the order of what is left behind it.
LEMMA TakenSound ==
    ASSUME IInv, pc = "parse", pc' \in {"recv", "parse"}, NEW k \in 1 .. Len(buf) + 1,
           buf' = SubSeq(buf, k, Len(buf)), skip' \in BOOLEAN, hurt' \subseteq 1 .. MaxFrames,
           UNCHANGED <<kind, deviceVars, full>>,
           indexCount' \in Nat \ {0}, queue' \in 0 .. QueueCap,
           log' \in Seq(Report), LogInv', OnceInOrder', WholeFrames'
    PROVE  IInv'
<1>1. /\ kind' = kind /\ asked' = asked /\ sent' = sent /\ line' = line /\ upsets' = upsets
      /\ full' = full
  BY DEF deviceVars
<1>2. /\ buf \in Seq(Part) /\ line \in Seq(Part) /\ Len(sent) \in Nat
      /\ Len(buf) < BufferCap /\ BufferCap \in Nat
  BY PollDriverAssumption DEF IInv, TypeOK
<1>3. /\ Ordered(buf, line, Len(sent)) => Ordered(buf', line, Len(sent))
      /\ Joined(buf, line, Len(sent)) => Joined(buf', line, Len(sent))
  BY <1>2, GoOn
<1>4. buf' \in Seq(Part) /\ Len(buf') = Len(buf) - k + 1
  BY <1>2, SuffixOf
<1>5. Len(buf') < BufferCap
  BY <1>2, <1>4
<1>6. TypeOK'
  BY <1>1, <1>4, <1>5 DEF IInv, TypeOK
<1>7. OrderInv' /\ HoleInv'
  BY <1>1, <1>3 DEF IInv, OrderInv, HoleInv
<1> QED
  BY <1>6, <1>7 DEF IInv

LEMMA TakeFrameSound ==
    ASSUME IInv, TakeFrame
    PROVE  IInv'
<1> DEFINE e == FirstEnd
           first == buf[1][1]
           last == buf[e][1]
<1>1. /\ buf \in Seq(Part) /\ line \in Seq(Part) /\ Len(buf) \in Nat /\ DOMAIN buf = 1 .. Len(buf)
      /\ hurt \subseteq 1 .. MaxFrames /\ skip \in BOOLEAN /\ queue \in 0 .. QueueCap
      /\ indexCount \in Nat \ {0} /\ log \in Seq(Report)
  BY DEF IInv, TypeOK
<1>2. /\ pc = "parse" /\ pc' = pc /\ 1 < Len(buf) /\ buf[1][2] = 1 /\ buf[2][2] = 2 /\ Ends # {}
      /\ buf' = SubSeq(buf, e + 1, Len(buf)) /\ skip' = skip
      /\ UNCHANGED <<kind, deviceVars, full>>
      /\ hurt' \in {hurt, hurt \union {last}}
      /\ \/ UNCHANGED reportVars
         \/ Offer(first, last)
  BY DEF TakeFrame, HeaderAt
<1>3. e \in Ends /\ \A i \in Ends : e <= i
  <2>1. Ends \in SUBSET Nat
    BY <1>1 DEF Ends
  <2>2. \E i \in Ends : \A j \in Ends : i <= j
    BY <1>2, <2>1, LeastOf
  <2> QED
    BY <2>2, Zenon DEF FirstEnd
<1>4. e \in DOMAIN buf /\ buf[e][2] = 3 /\ e \in Int /\ e > 2
  BY <1>1, <1>2, <1>3 DEF Ends
<1> HIDE DEF e
<1>5. /\ first \in 1 .. MaxFrames /\ last \in 1 .. MaxFrames /\ first \in Numbers(buf)
  <2>1. 1 \in DOMAIN buf
    BY <1>1, <1>2
  <2>2. first \in Numbers(buf) /\ last \in Numbers(buf)
    BY <1>1, <1>4, <2>1, NumbersType
  <2> QED
    BY <1>1, <2>2, NumbersType
<1>6. first <= last /\ last <= Len(sent)
  <2>1. Before(buf[1], buf[e]) /\ last <= Len(sent)
    <3>1. 1 \in DOMAIN buf /\ 1 < e
      BY <1>1, <1>2, <1>4
    <3>2. /\ \A i, j \in DOMAIN buf : i < j => Before(buf[i], buf[j])
          /\ \A i \in DOMAIN buf : buf[i][1] <= Len(sent)
      BY DEF IInv, OrderInv, Ordered
    <3> QED
      BY <1>4, <3>1, <3>2
  <2> QED
    BY <1>5, <2>1 DEF Before
<1>7. first # last => full
  <2> SUFFICES ASSUME ~full PROVE first = last
    OBVIOUS
  <2>1. Joined(buf, line, Len(sent))
    BY <1>2 DEF IInv, HoleInv
  <2>2. 1 \in DOMAIN buf /\ 1 + 1 \in DOMAIN buf /\ 2 \in DOMAIN buf /\ 2 + 1 \in DOMAIN buf
    BY <1>1, <1>4
  <2>3. Follows(buf[1], buf[1 + 1]) /\ Follows(buf[2], buf[2 + 1])
    BY <2>1, <2>2 DEF Joined
  <2>4. Follows(buf[1], buf[2]) /\ Follows(buf[2], buf[3]) /\ 3 \in DOMAIN buf
    <3>1. 1 + 1 = 2 /\ 2 + 1 = 3
      OBVIOUS
    <3> QED
      BY <2>2, <2>3, <3>1
  <2>5. buf[2] = <<first, 2>> /\ buf[3] = <<first, 3>>
    BY <1>2, <2>4 DEF Follows
  <2>6. 3 \in Ends
    BY <2>4, <2>5 DEF Ends
  <2>7. e = 3
    BY <1>3, <1>4, <2>6
  <2> QED
    BY <2>5, <2>7
<1>8. /\ e + 1 \in 1 .. Len(buf) + 1
      /\ hurt' \subseteq 1 .. MaxFrames
  BY <1>1, <1>2, <1>4, <1>5
<1>9. CASE UNCHANGED reportVars
  BY <1>1, <1>2, <1>8, <1>9, DropSound
<1>10. CASE Offer(first, last)
  <2>1. (queue < QueueCap) \in BOOLEAN
    OBVIOUS
  <2>2. log' = Append(log, NewReport(first, last, queue < QueueCap))
    BY <1>10 DEF Offer
  <2>3. line' = line /\ sent' = sent
    BY <1>2 DEF deviceVars
  <2>4. \A n \in Numbers(buf') \union Numbers(line') : last < n
    BY <1>2, <1>4, <2>3, BehindEnd
  <2>5. buf' \in Seq(Part) /\ line' \in Seq(Part)
    BY <1>1, <1>2, <1>8, <2>3, SuffixOf
  <2> HIDE DEF first, last
  <2>6. log' \in Seq(Report) /\ LogInv' /\ OnceInOrder' /\ WholeFrames'
    BY <1>2, <1>5, <1>6, <1>7, <2>1, <2>2, <2>3, <2>4, <2>5, NextReport
  <2>7. queue' \in 0 .. QueueCap /\ indexCount' \in Nat \ {0}
    BY <1>1, <1>10, PollDriverAssumption DEF Offer
  <2> QED
    BY <1>1, <1>2, <1>8, <2>6, <2>7, TakenSound
<1> QED
  BY <1>2, <1>9, <1>10

LEMMA MeterTakeSound ==
    ASSUME IInv, MeterTake \/ MeterIncomplete
    PROVE  IInv'
<1> DEFINE first == buf[1][1]
<1>1. /\ buf \in Seq(Part) /\ line \in Seq(Part) /\ Len(buf) \in Nat /\ DOMAIN buf = 1 .. Len(buf)
      /\ hurt \subseteq 1 .. MaxFrames /\ skip \in BOOLEAN /\ queue \in 0 .. QueueCap
      /\ indexCount \in Nat \ {0} /\ log \in Seq(Report)
  BY DEF IInv, TypeOK
<1>2. /\ pc = "parse" /\ Len(buf) >= 2 /\ 1 \in DOMAIN buf /\ hurt' = hurt
      /\ UNCHANGED <<kind, deviceVars, full>>
  BY <1>1 DEF MeterTake, MeterIncomplete, ReplyAt1
<1>3. line' = line /\ sent' = sent
  BY <1>2 DEF deviceVars
<1>4. first \in 1 .. MaxFrames /\ first \in Numbers(buf) /\ first <= Len(sent)
  BY <1>1, <1>2, NumbersType DEF IInv, OrderInv, Ordered
<1>5. first <= first
  BY <1>4
<1>6. CASE MeterTake
  <2>1. /\ Len(buf) >= 3 /\ buf[3][2] = 3 /\ PrintOnly(first)
        /\ buf' = SubSeq(buf, 4, Len(buf)) /\ skip' = TRUE /\ pc' = pc
    BY <1>6 DEF MeterTake, ReplyWhole
  <2>2. log' = Append(log, NewReport(first, first, FALSE)) /\ indexCount' = indexCount /\ queue' = queue
    BY <2>1 DEF PrintOnly
  <2>3. 3 \in DOMAIN buf /\ 3 + 1 = 4 /\ 4 \in 1 .. Len(buf) + 1
    BY <1>1, <2>1
  <2>4. \A n \in Numbers(buf') \union Numbers(line') : buf[3][1] < n
    BY <1>3, <2>1, <2>3, BehindEnd
  <2>5. buf' \in Seq(Part) /\ line' \in Seq(Part)
    BY <1>1, <1>3, <2>1, <2>3, SuffixOf
  <2>6. first <= buf[3][1] /\ buf[3][1] \in Nat
    <3>1. Before(buf[1], buf[3])
      BY <1>2, <2>3 DEF IInv, OrderInv, Ordered
    <3>2. buf[3][1] \in 1 .. MaxFrames
      BY <1>1, <2>3, PartType
    <3> QED
      BY <1>4, <3>1, <3>2 DEF Before
  <2>7. \A n \in Numbers(buf') \union Numbers(line') : first < n
    <3>1. \A n \in Numbers(buf') \union Numbers(line') : n \in Int
      BY <2>5, NumbersType
    <3> QED
      BY <1>4, <2>4, <2>6, <3>1
  <2> HIDE DEF first
  <2>8. log' \in Seq(Report) /\ LogInv' /\ OnceInOrder' /\ WholeFrames'
    BY <1>2, <1>3, <1>4, <1>5, <2>2, <2>5, <2>7, NextReport
  <2> QED
    BY <1>1, <1>2, <2>1, <2>2, <2>3, <2>8, TakenSound
<1>7. CASE MeterIncomplete
  <2>1. CASE buf' = <<>> /\ pc' = "recv" /\ UNCHANGED reportVars
    <3>1. SubSeq(buf, Len(buf) + 1, Len(buf)) = <<>> /\ Len(buf) + 1 \in 1 .. Len(buf) + 1
      BY <1>1
    <3>2. skip' \in BOOLEAN
      BY <1>1, <1>7 DEF MeterIncomplete
    <3> QED
      BY <1>1, <1>2, <2>1, <3>1, <3>2, DropSound
  <2>2. CASE PrintOnly(first) /\ pc' = "dead" /\ UNCHANGED buf
    <3>1. /\ log' = Append(log, NewReport(first, first, FALSE)) /\ indexCount' = indexCount
          /\ queue' = queue /\ buf' = buf /\ skip' = skip
      BY <1>7, <2>2 DEF PrintOnly, MeterIncomplete
    <3> HIDE DEF first
    <3>2. log' \in Seq(Report) /\ LogInv' /\ OnceInOrder' /\ WholeFrames'
      BY <1>1, <1>2, <1>3, <1>4, <1>5, <2>2, <3>1, NextReport
    <3>3. TypeOK'
      BY <1>2, <2>2, <3>1, <3>2 DEF IInv, TypeOK, deviceVars
    <3>4. OrderInv' /\ HoleInv'
      BY <1>3, <2>2, <3>1 DEF IInv, OrderInv, HoleInv
    <3> QED
      BY <3>2, <3>3, <3>4 DEF IInv
  <2> QED
    BY <1>7, <2>1, <2>2 DEF MeterIncomplete
<1> QED
  BY <1>6, <1>7

LEMMA StepSound ==
    ASSUME IInv, [Next]_vars
    PROVE  IInv'
<1>1. CASE Fork \/ Start \/ Ask \/ Consume \/ CrashOnFrame \/ KeepRest \/ MeterEnds
  BY <1>1, SmallStepsSound
<1>2. CASE OpenSession \/ Timeout \/ ReceiveNone
  BY <1>2, SessionSound DEF Timeout, ReceiveNone
<1>3. CASE SendFrame
  BY <1>3, SendFrameSound
<1>4. CASE Receive \/ MeterReceive \/ ReceiveTooMuch \/ BufferFull
  BY <1>4, ReadsSound
<1>5. CASE FindHeader \/ MeterFind
  BY <1>5, FindSound
<1>6. CASE TakeFrame
  BY <1>6, TakeFrameSound
<1>7. CASE MeterTake \/ MeterIncomplete
  BY <1>7, MeterTakeSound
<1>8. CASE UNCHANGED vars
  <2>1. /\ kind' = kind /\ pc' = pc /\ asked' = asked /\ sent' = sent /\ line' = line
        /\ upsets' = upsets /\ buf' = buf /\ skip' = skip /\ hurt' = hurt /\ full' = full
        /\ indexCount' = indexCount /\ queue' = queue /\ log' = log
    BY <1>8 DEF vars, deviceVars, readVars, reportVars
  <2> QED
    BY <2>1 DEF IInv, TypeOK, OrderInv, HoleInv, LogInv, OnceInOrder, WholeFrames
<1> QED
  BY <1>1, <1>2, <1>3, <1>4, <1>5, <1>6, <1>7, <1>8 DEF Next, Parse

-----------------------------------------------------------------------------
(* The theorems.                                                           *)

\* Every variable of the drivers keeps its type and its bound: neither the
\* receive buffer nor the stream nor the queue ever holds more than it can.
THEOREM TypeCorrect == Spec => []TypeOK
<1>1. Init => IInv
  BY InitSound
<1>2. IInv /\ [Next]_vars => IInv'
  BY StepSound
<1>3. IInv => TypeOK
  BY DEF IInv
<1> QED
  BY <1>1, <1>2, <1>3, PTL DEF Spec

\* What selectTag puts on the queue: the fields of a report come from one frame,
\* wherever reads end, unless ParsingReceiveValue went on with a remainder kept
\* from before a read that was thrown away.
THEOREM FramesStayWhole == Spec => []WholeFrames
<1>1. Init => IInv
  BY InitSound
<1>2. IInv /\ [Next]_vars => IInv'
  BY StepSound
<1>3. IInv => WholeFrames
  BY DEF IInv
<1> QED
  BY <1>1, <1>2, <1>3, PTL DEF Spec

\* Kept remainders, thrown away reads and new sessions never make a driver
\* report a frame again, or one behind a later one.
THEOREM ReportedOnceInOrder == Spec => []OnceInOrder
<1>1. Init => IInv
  BY InitSound
<1>2. IInv /\ [Next]_vars => IInv'
  BY StepSound
<1>3. IInv => OnceInOrder
  BY DEF IInv
<1> QED
  BY <1>1, <1>2, <1>3, PTL DEF Spec
=============================================================================
