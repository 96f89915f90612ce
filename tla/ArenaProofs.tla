----------------------------- MODULE ArenaProofs ----------------------------
(***************************************************************************)
(* The memory arena for any number of holders and any sizes: owners never  *)
(* share a byte, none is lost, and first fit over a list that is neither   *)
(* sorted nor coalesced implements RegionAllocator.                        *)
(***************************************************************************)
EXTENDS ArenaProps, SequenceTheorems, WellFoundedInduction, TLAPS

-----------------------------------------------------------------------------
(* Least and greatest numbers, for the two searches *)

Less == {p \in Nat \X Nat : p[1] < p[2]}

\* the order of the numbers is well-founded, as a relation
LEMMA LessWellFounded == IsWellFoundedOn(Less, Nat)
BY NatLessThanWellFounded, Zenon DEF OpToRel, Less

\* a set of numbers has a least element
LEMMA LeastExists ==
  ASSUME NEW T \in SUBSET Nat, T # {}
  PROVE  \E k \in T : \A l \in T : k <= l
<1>1. PICK k \in T : \A l \in T : ~ (<<l, k>> \in Less)
  BY LessWellFounded, WFMin, Zenon
<1>2. ASSUME NEW l \in T PROVE k <= l
  <2>1. ~ (<<l, k>> \in Less)
    BY <1>1
  <2>2. ~ (l < k)
    BY <2>1 DEF Less
  <2> QED BY <2>2
<1> QED BY <1>1, <1>2

\* a bounded set of numbers has a greatest element
LEMMA GreatestExists ==
  ASSUME NEW n \in Nat, NEW T \in SUBSET (0 .. n), T # {}
  PROVE  \E k \in T : \A l \in T : k >= l
<1> DEFINE U == {n - l : l \in T}
<1>1. U \in SUBSET Nat /\ U # {}
  <2>1. ASSUME NEW l \in T PROVE n - l \in Nat
    <3>1. l \in 0 .. n
      OBVIOUS
    <3> QED BY <3>1
  <2> QED BY <2>1
<1>2. PICK u \in U : \A v \in U : u <= v
  <2> HIDE DEF U
  <2> QED BY <1>1, LeastExists
<1>3. PICK k \in T : u = n - k
  BY <1>2
<1>4. ASSUME NEW l \in T PROVE k >= l
  <2>1. u <= n - l
    BY <1>2
  <2> QED BY <1>3, <2>1
<1> QED BY <1>4

-----------------------------------------------------------------------------
(* Lists of regions *)

SegBytes(f) == UNION {Bytes(f[i]) : i \in DOMAIN f}
Disjoint(f) == \A i, j \in DOMAIN f : i # j => Bytes(f[i]) \cap Bytes(f[j]) = {}

\* RemoveAt, element by element
LEMMA RemoveElements ==
  ASSUME NEW S, NEW f \in Seq(S), NEW k \in 1 .. Len(f)
  PROVE  /\ RemoveAt(f, k) \in Seq(S)
         /\ Len(RemoveAt(f, k)) = Len(f) - 1
         /\ \A i \in 1 .. Len(f) - 1 :
              RemoveAt(f, k)[i] = IF i < k THEN f[i] ELSE f[i + 1]
<1> DEFINE a == SubSeq(f, 1, k - 1)
           b == SubSeq(f, k + 1, Len(f))
<1>1. Len(f) \in Nat /\ k \in Nat /\ 1 <= k /\ k <= Len(f)
  BY LenProperties
<1>2. a \in Seq(S) /\ Len(a) = k - 1 /\ \A i \in 1 .. k - 1 : a[i] = f[i]
  <2>1. \A i \in 1 .. k - 1 : f[i] \in S
    BY <1>1
  <2>2. /\ a \in Seq(S)
        /\ Len(a) = IF 1 <= k - 1 THEN k - 1 - 1 + 1 ELSE 0
        /\ \A i \in 1 .. k - 1 - 1 + 1 : a[i] = f[1 + i - 1]
    BY <1>1, <2>1, SubSeqProperties
  <2> QED
    <3> HIDE DEF a
    <3>1. Len(a) = k - 1
      BY <1>1, <2>2
    <3>2. ASSUME NEW i \in 1 .. k - 1 PROVE a[i] = f[i]
      <4>1. i \in 1 .. k - 1 - 1 + 1 /\ 1 + i - 1 = i
        BY <1>1
      <4> QED BY <2>2, <4>1
    <3> QED BY <2>2, <3>1, <3>2
<1>3. b \in Seq(S) /\ Len(b) = Len(f) - k /\ \A i \in 1 .. Len(f) - k : b[i] = f[k + i]
  <2>1. \A i \in k + 1 .. Len(f) : f[i] \in S
    BY <1>1
  <2>2. /\ b \in Seq(S)
        /\ Len(b) = IF k + 1 <= Len(f) THEN Len(f) - (k + 1) + 1 ELSE 0
        /\ \A i \in 1 .. Len(f) - (k + 1) + 1 : b[i] = f[k + 1 + i - 1]
    BY <1>1, <2>1, SubSeqProperties
  <2> QED
    <3> HIDE DEF b
    <3>1. Len(b) = Len(f) - k
      <4>1. (IF k + 1 <= Len(f) THEN Len(f) - (k + 1) + 1 ELSE 0) = Len(f) - k
        BY <1>1
      <4> QED BY <2>2, <4>1
    <3>2. ASSUME NEW i \in 1 .. Len(f) - k PROVE b[i] = f[k + i]
      <4>1. i \in 1 .. Len(f) - (k + 1) + 1 /\ k + 1 + i - 1 = k + i
        BY <1>1
      <4> QED BY <2>2, <4>1
    <3> QED BY <2>2, <3>1, <3>2
<1>4. RemoveAt(f, k) = a \o b
  BY DEF RemoveAt
<1> HIDE DEF a, b
<1>5. /\ a \o b \in Seq(S)
      /\ Len(a \o b) = Len(a) + Len(b)
      /\ \A i \in 1 .. Len(a) + Len(b) :
           (a \o b)[i] = IF i <= Len(a) THEN a[i] ELSE b[i - Len(a)]
  BY <1>2, <1>3, ConcatProperties
<1>6. Len(a) + Len(b) = Len(f) - 1
  BY <1>1, <1>2, <1>3
<1>7. ASSUME NEW i \in 1 .. Len(f) - 1
      PROVE  (a \o b)[i] = IF i < k THEN f[i] ELSE f[i + 1]
  <2>1. (a \o b)[i] = IF i <= k - 1 THEN a[i] ELSE b[i - (k - 1)]
    BY <1>2, <1>5, <1>6
  <2>2. CASE i < k
    BY <1>1, <1>2, <2>1, <2>2
  <2>3. CASE ~ (i < k)
    <3>1. i - (k - 1) \in 1 .. Len(f) - k /\ k + (i - (k - 1)) = i + 1 /\ ~ (i <= k - 1)
      BY <1>1, <2>3
    <3>2. b[i - (k - 1)] = f[i + 1]
      BY <1>3, <3>1
    <3> QED BY <2>1, <2>3, <3>1, <3>2
  <2> QED BY <2>2, <2>3
<1> QED
  BY <1>4, <1>5, <1>6, <1>7

\* Front takes the last element away
LEMMA FrontRemoves ==
  ASSUME NEW S, NEW f \in Seq(S), f # <<>>
  PROVE  Len(f) \in 1 .. Len(f) /\ Front(f) = RemoveAt(f, Len(f))
<1>1. Len(f) \in Nat /\ 1 <= Len(f)
  BY EmptySeq, LenProperties
<1>2. SubSeq(f, Len(f) + 1, Len(f)) = <<>>
  BY <1>1, SubSeqEmpty
<1>3. SubSeq(f, 1, Len(f) - 1) \in Seq(S)
  <2>1. \A i \in 1 .. Len(f) - 1 : f[i] \in S
    BY <1>1
  <2> QED BY <1>1, <2>1, SubSeqProperties
<1>4. SubSeq(f, 1, Len(f) - 1) \o <<>> = SubSeq(f, 1, Len(f) - 1)
  BY <1>3, ConcatEmptySeq
<1> QED
  BY <1>1, <1>2, <1>4 DEF Front, RemoveAt

\* InsertAt, element by element
LEMMA InsertElements ==
  ASSUME NEW S, NEW f \in Seq(S), NEW k \in 1 .. Len(f), NEW e \in S
  PROVE  /\ InsertAt(f, k, e) \in Seq(S)
         /\ Len(InsertAt(f, k, e)) = Len(f) + 1
         /\ InsertAt(f, k, e)[k] = e
         /\ \A i \in 1 .. k - 1 : InsertAt(f, k, e)[i] = f[i]
         /\ \A i \in k .. Len(f) : InsertAt(f, k, e)[i + 1] = f[i]
<1> DEFINE a == SubSeq(f, 1, k - 1)
           b == SubSeq(f, k, Len(f))
           c == a \o <<e>>
<1>1. Len(f) \in Nat /\ k \in Nat /\ 1 <= k /\ k <= Len(f)
  BY LenProperties
<1>2. a \in Seq(S) /\ Len(a) = k - 1 /\ \A i \in 1 .. k - 1 : a[i] = f[i]
  <2>1. \A i \in 1 .. k - 1 : f[i] \in S
    BY <1>1
  <2>2. /\ a \in Seq(S)
        /\ Len(a) = IF 1 <= k - 1 THEN k - 1 - 1 + 1 ELSE 0
        /\ \A i \in 1 .. k - 1 - 1 + 1 : a[i] = f[1 + i - 1]
    BY <1>1, <2>1, SubSeqProperties
  <2> QED
    <3> HIDE DEF a
    <3>1. Len(a) = k - 1
      BY <1>1, <2>2
    <3>2. ASSUME NEW i \in 1 .. k - 1 PROVE a[i] = f[i]
      <4>1. i \in 1 .. k - 1 - 1 + 1 /\ 1 + i - 1 = i
        BY <1>1
      <4> QED BY <2>2, <4>1
    <3> QED BY <2>2, <3>1, <3>2
<1>3. b \in Seq(S) /\ Len(b) = Len(f) - k + 1
      /\ \A i \in 1 .. Len(f) - k + 1 : b[i] = f[k + i - 1]
  <2>1. \A i \in k .. Len(f) : f[i] \in S
    BY <1>1
  <2>2. /\ b \in Seq(S)
        /\ Len(b) = IF k <= Len(f) THEN Len(f) - k + 1 ELSE 0
        /\ \A i \in 1 .. Len(f) - k + 1 : b[i] = f[k + i - 1]
    BY <1>1, <2>1, SubSeqProperties
  <2> QED
    <3> HIDE DEF b
    <3> QED BY <1>1, <2>2
<1>4. InsertAt(f, k, e) = c \o b
  BY DEF InsertAt
<1>5. c \in Seq(S) /\ Len(c) = k /\ c[k] = e /\ \A i \in 1 .. k - 1 : c[i] = f[i]
  <2>1. <<e>> \in Seq(S) /\ Len(<<e>>) = 1 /\ <<e>>[1] = e
    OBVIOUS
  <2> HIDE DEF a
  <2>2. /\ a \o <<e>> \in Seq(S)
        /\ Len(a \o <<e>>) = Len(a) + 1
        /\ \A i \in 1 .. Len(a) + 1 :
             (a \o <<e>>)[i] = IF i <= Len(a) THEN a[i] ELSE <<e>>[i - Len(a)]
    BY <1>2, <2>1, ConcatProperties
  <2>3. Len(a) + 1 = k /\ k \in 1 .. Len(a) + 1 /\ ~ (k <= Len(a)) /\ k - Len(a) = 1
    BY <1>1, <1>2
  <2>4. \A i \in 1 .. k - 1 : i \in 1 .. Len(a) + 1 /\ i <= Len(a)
    BY <1>1, <1>2
  <2> QED BY <1>2, <2>1, <2>2, <2>3, <2>4
<1> HIDE DEF b, c
<1>6. /\ c \o b \in Seq(S)
      /\ Len(c \o b) = Len(c) + Len(b)
      /\ \A i \in 1 .. Len(c) + Len(b) :
           (c \o b)[i] = IF i <= Len(c) THEN c[i] ELSE b[i - Len(c)]
  BY <1>3, <1>5, ConcatProperties
<1>7. Len(c) + Len(b) = Len(f) + 1
  BY <1>1, <1>3, <1>5
<1>8. (c \o b)[k] = e
  <2>1. k \in 1 .. Len(c) + Len(b) /\ k <= Len(c)
    BY <1>1, <1>5, <1>7
  <2> QED BY <1>5, <1>6, <2>1
<1>9. ASSUME NEW i \in 1 .. k - 1 PROVE (c \o b)[i] = f[i]
  <2>1. i \in 1 .. Len(c) + Len(b) /\ i <= Len(c)
    BY <1>1, <1>5, <1>7
  <2> QED BY <1>5, <1>6, <2>1
<1>10. ASSUME NEW i \in k .. Len(f) PROVE (c \o b)[i + 1] = f[i]
  <2>1. i + 1 \in 1 .. Len(c) + Len(b) /\ ~ (i + 1 <= Len(c)) /\ i + 1 - Len(c) = i + 1 - k
    BY <1>1, <1>5, <1>7
  <2>2. i + 1 - k \in 1 .. Len(f) - k + 1 /\ k + (i + 1 - k) - 1 = i
    BY <1>1
  <2>3. b[i + 1 - k] = f[i]
    BY <1>3, <2>2
  <2> QED BY <1>6, <2>1, <2>3
<1> QED
  BY <1>4, <1>6, <1>7, <1>8, <1>9, <1>10
-----------------------------------------------------------------------------
(* What the operations on lists do to the bytes they cover *)

\* a region without a part of its bytes, and with bytes of its own in addition
Without(r, old, part) == part \subseteq Bytes(old) /\ Bytes(r) = Bytes(old) \ part
With(r, old, more) == Bytes(r) = Bytes(old) \cup more

\* a list of disjoint regions with fewer and with more bytes
Loses(g, f, part) == g \in Seq(Region) /\ Disjoint(g) /\ SegBytes(g) = SegBytes(f) \ part
Gains(g, f, more) == g \in Seq(Region) /\ Disjoint(g) /\ SegBytes(g) = SegBytes(f) \cup more
New(more, f) == more \cap SegBytes(f) = {}

\* a region gets bytes of its own in addition
LEMMA GrowList ==
  ASSUME NEW f \in Seq(Region), NEW k \in 1 .. Len(f), NEW r \in Region, NEW more, NEW g,
         g = [f EXCEPT ![k] = r], Disjoint(f), With(r, f[k], more), New(more, f)
  PROVE  Gains(g, f, more)
<1>1. /\ g \in Seq(Region)
      /\ DOMAIN g = DOMAIN f
      /\ g[k] = r
      /\ \A i \in DOMAIN f : i # k => g[i] = f[i]
  OBVIOUS
<1>2. k \in DOMAIN f /\ Bytes(r) = Bytes(f[k]) \cup more
  BY DEF With
<1>3. \A i \in DOMAIN f : Bytes(f[i]) \cap more = {}
  BY DEF SegBytes, New
<1>4. Disjoint(g)
  BY <1>1, <1>2, <1>3 DEF Disjoint
<1>5. SegBytes(g) = SegBytes(f) \cup more
  BY <1>1, <1>2 DEF SegBytes
<1> QED BY <1>1, <1>4, <1>5 DEF Gains

\* a region is replaced by a part of it
LEMMA ShrinkList ==
  ASSUME NEW f \in Seq(Region), NEW k \in 1 .. Len(f), NEW r \in Region, NEW part, NEW g,
         g = [f EXCEPT ![k] = r], Disjoint(f), Without(r, f[k], part)
  PROVE  Loses(g, f, part)
<1>1. /\ g \in Seq(Region)
      /\ DOMAIN g = DOMAIN f
      /\ g[k] = r
      /\ \A i \in DOMAIN f : i # k => g[i] = f[i]
  OBVIOUS
<1>2. k \in DOMAIN f /\ part \subseteq Bytes(f[k]) /\ Bytes(r) = Bytes(f[k]) \ part
  BY DEF Without
<1>3. \A i \in DOMAIN f : i # k => Bytes(f[i]) \cap part = {}
  BY <1>2 DEF Disjoint
<1>4. Disjoint(g)
  BY <1>1, <1>2 DEF Disjoint
<1>5. SegBytes(g) = SegBytes(f) \ part
  BY <1>1, <1>2, <1>3 DEF SegBytes
<1> QED BY <1>1, <1>4, <1>5 DEF Loses

\* a region is taken out of the list
LEMMA RemoveList ==
  ASSUME NEW f \in Seq(Region), NEW k \in 1 .. Len(f), Disjoint(f)
  PROVE  Loses(RemoveAt(f, k), f, Bytes(f[k]))
<1> DEFINE g == RemoveAt(f, k)
           n == Len(f)
           old(i) == IF i < k THEN i ELSE i + 1
<1>1. /\ g \in Seq(Region)
      /\ Len(g) = n - 1
      /\ \A i \in 1 .. n - 1 : g[i] = IF i < k THEN f[i] ELSE f[i + 1]
  BY RemoveElements
<1>2. n \in Nat /\ k \in 1 .. n /\ DOMAIN f = 1 .. n
  OBVIOUS
<1> HIDE DEF g, n
<1>3. DOMAIN g = 1 .. n - 1
  BY <1>1
<1>4. \A i \in 1 .. n - 1 : old(i) \in 1 .. n /\ old(i) # k /\ g[i] = f[old(i)]
  BY <1>1, <1>2
<1>5. \A i, j \in 1 .. n - 1 : i # j => old(i) # old(j)
  BY <1>2
<1>6. \A j \in 1 .. n : j # k => \E i \in 1 .. n - 1 : old(i) = j
  <2> SUFFICES ASSUME NEW j \in 1 .. n, j # k
               PROVE  \E i \in 1 .. n - 1 : old(i) = j
    OBVIOUS
  <2>1. CASE j < k
    <3>1. j \in 1 .. n - 1 /\ old(j) = j
      BY <1>2, <2>1
    <3> QED BY <3>1
  <2>2. CASE ~ (j < k)
    <3>1. j - 1 \in 1 .. n - 1 /\ old(j - 1) = j
      BY <1>2, <2>2
    <3> QED BY <3>1
  <2> QED BY <2>1, <2>2
<1> HIDE DEF old
<1>7. Disjoint(g)
  BY <1>2, <1>3, <1>4, <1>5 DEF Disjoint
<1>8. \A j \in 1 .. n : j # k => Bytes(f[j]) \cap Bytes(f[k]) = {}
  BY <1>2 DEF Disjoint
<1>9. SegBytes(g) = SegBytes(f) \ Bytes(f[k])
  <2>1. ASSUME NEW b \in SegBytes(g)
        PROVE  b \in SegBytes(f) \ Bytes(f[k])
    <3>1. PICK i \in 1 .. n - 1 : b \in Bytes(g[i])
      BY <1>3 DEF SegBytes
    <3>2. old(i) \in 1 .. n /\ old(i) # k /\ b \in Bytes(f[old(i)])
      BY <1>4, <3>1
    <3> QED BY <1>2, <1>8, <3>2 DEF SegBytes
  <2>2. ASSUME NEW b \in SegBytes(f) \ Bytes(f[k])
        PROVE  b \in SegBytes(g)
    <3>1. PICK j \in 1 .. n : b \in Bytes(f[j]) /\ j # k
      BY <1>2 DEF SegBytes
    <3>2. PICK i \in 1 .. n - 1 : old(i) = j
      BY <1>6, <3>1
    <3>3. b \in Bytes(g[i])
      BY <1>4, <3>1, <3>2
    <3> QED BY <1>3, <3>3 DEF SegBytes
  <2> QED BY <2>1, <2>2
<1> QED BY <1>1, <1>7, <1>9 DEF g, Loses

\* a region of new bytes is put into the list
LEMMA InsertList ==
  ASSUME NEW f \in Seq(Region), NEW k \in 1 .. Len(f), NEW r \in Region, Disjoint(f),
         New(Bytes(r), f)
  PROVE  Gains(InsertAt(f, k, r), f, Bytes(r))
<1> DEFINE g == InsertAt(f, k, r)
           n == Len(f)
           from(j) == IF j < k THEN j ELSE j + 1
<1>1. /\ g \in Seq(Region)
      /\ Len(g) = n + 1
      /\ g[k] = r
      /\ \A i \in 1 .. k - 1 : g[i] = f[i]
      /\ \A i \in k .. n : g[i + 1] = f[i]
  BY InsertElements
<1>2. n \in Nat /\ k \in 1 .. n /\ DOMAIN f = 1 .. n
  OBVIOUS
<1> HIDE DEF g, n
<1>3. DOMAIN g = 1 .. n + 1 /\ k \in 1 .. n + 1 /\ g[k] = r
  BY <1>1, <1>2
<1>4. \A j \in 1 .. n : from(j) \in 1 .. n + 1 /\ from(j) # k /\ g[from(j)] = f[j]
  BY <1>1, <1>2
<1>5. \A i \in 1 .. n + 1 : i # k => \E j \in 1 .. n : from(j) = i
  <2> SUFFICES ASSUME NEW i \in 1 .. n + 1, i # k
               PROVE  \E j \in 1 .. n : from(j) = i
    OBVIOUS
  <2>1. CASE i < k
    BY <1>2, <2>1
  <2>2. CASE ~ (i < k)
    <3>1. i - 1 \in 1 .. n /\ from(i - 1) = i
      BY <1>2, <2>2
    <3> QED BY <3>1
  <2> QED BY <2>1, <2>2
<1> HIDE DEF from
<1>6. \A j \in 1 .. n : Bytes(f[j]) \cap Bytes(r) = {}
  BY <1>2 DEF SegBytes, New
<1>7. Disjoint(g)
  <2> SUFFICES ASSUME NEW i \in 1 .. n + 1, NEW j \in 1 .. n + 1, i # j
               PROVE  Bytes(g[i]) \cap Bytes(g[j]) = {}
    BY <1>3 DEF Disjoint
  <2>1. CASE i = k
    <3>1. PICK l \in 1 .. n : from(l) = j
      BY <1>5, <2>1
    <3> QED BY <1>3, <1>4, <1>6, <2>1, <3>1
  <2>2. CASE j = k
    <3>1. PICK l \in 1 .. n : from(l) = i
      BY <1>5, <2>2
    <3> QED BY <1>3, <1>4, <1>6, <2>2, <3>1
  <2>3. CASE i # k /\ j # k
    <3>1. PICK l \in 1 .. n : from(l) = i
      BY <1>5, <2>3
    <3>2. PICK m \in 1 .. n : from(m) = j
      BY <1>5, <2>3
    <3>3. l # m /\ g[i] = f[l] /\ g[j] = f[m]
      BY <1>4, <3>1, <3>2
    <3> QED BY <1>2, <3>3 DEF Disjoint
  <2> QED BY <2>1, <2>2, <2>3
<1>8. SegBytes(g) = SegBytes(f) \cup Bytes(r)
  <2>1. ASSUME NEW b \in SegBytes(g)
        PROVE  b \in SegBytes(f) \cup Bytes(r)
    <3>1. PICK i \in 1 .. n + 1 : b \in Bytes(g[i])
      BY <1>3 DEF SegBytes
    <3>2. CASE i = k
      BY <1>3, <3>1, <3>2
    <3>3. CASE i # k
      <4>1. PICK j \in 1 .. n : from(j) = i
        BY <1>5, <3>3
      <4>2. b \in Bytes(f[j])
        BY <1>4, <3>1, <4>1
      <4> QED BY <1>2, <4>2 DEF SegBytes
    <3> QED BY <3>2, <3>3
  <2>2. ASSUME NEW b \in SegBytes(f)
        PROVE  b \in SegBytes(g)
    <3>1. PICK j \in 1 .. n : b \in Bytes(f[j])
      BY <1>2 DEF SegBytes
    <3>2. from(j) \in 1 .. n + 1 /\ b \in Bytes(g[from(j)])
      BY <1>4, <3>1
    <3> QED BY <1>3, <3>2 DEF SegBytes
  <2>3. Bytes(r) \subseteq SegBytes(g)
    BY <1>3 DEF SegBytes
  <2> QED BY <2>1, <2>2, <2>3
<1> QED BY <1>1, <1>7, <1>8 DEF g, Gains

\* a list of a single region
LEMMA SingleList ==
  ASSUME NEW r \in Region
  PROVE  <<r>> \in Seq(Region) /\ Disjoint(<<r>>) /\ SegBytes(<<r>>) = Bytes(r)
<1>1. <<r>> \in Seq(Region) /\ DOMAIN <<r>> = {1} /\ <<r>>[1] = r
  OBVIOUS
<1> QED BY <1>1 DEF Disjoint, SegBytes

\* the empty list covers nothing
LEMMA EmptyList == SegBytes(<<>>) = {} /\ Disjoint(<<>>)
<1>1. DOMAIN <<>> = {}
  OBVIOUS
<1> QED BY <1>1 DEF Disjoint, SegBytes
-----------------------------------------------------------------------------
(* Bytes of regions *)

\* a region of another size
LEMMA Resized ==
  ASSUME NEW r \in Region, NEW n
  PROVE  [r EXCEPT !.size = n] = Reg(r.start, n)
  BY DEF Region, Reg

\* the bytes of a region up to its end
LEMMA BytesOf ==
  ASSUME NEW r \in Region, NEW e, EndOf(r) = e
  PROVE  Bytes(r) = r.start .. e - 1
  BY DEF Bytes, EndOf, Region

\* the front of a region, and the rest
LEMMA FrontOfRegion ==
  ASSUME NEW r \in Region, NEW n \in Nat, n <= r.size
  PROVE  /\ Reg(r.start, n) \in Region
         /\ Reg(r.start + n, r.size - n) \in Region
         /\ Bytes(Reg(r.start, n)) \subseteq Bytes(r)
         /\ Bytes(Reg(r.start + n, r.size - n)) = Bytes(r) \ Bytes(Reg(r.start, n))
  BY DEF Region, Reg, Bytes

\* ranges that meet
LEMMA RangesMeet ==
  ASSUME NEW a \in Nat, NEW b \in Nat, NEW c \in Nat, a <= b, b <= c
  PROVE  a .. c - 1 = (a .. b - 1) \cup (b .. c - 1)
  OBVIOUS

\* the ends of a range
LEMMA RangeEnds ==
  ASSUME NEW a \in Nat, NEW b \in Nat, a < b
  PROVE  a \in a .. b - 1 /\ b - 1 \in a .. b - 1
  OBVIOUS

\* regions that meet
LEMMA RegionsMeet ==
  ASSUME NEW a \in Region, NEW b \in Region, EndOf(a) = b.start
  PROVE  /\ Reg(a.start, a.size + b.size) \in Region
         /\ Bytes(Reg(a.start, a.size + b.size)) = Bytes(a) \cup Bytes(b)
  BY DEF Region, Reg, Bytes, EndOf

-----------------------------------------------------------------------------
(* The invariant, for a step that hands out a region and one that takes it back *)

AInv == TypeOK /\ NoSharedBytes /\ FreeListDisjoint /\ EveryByteAccounted

\* a holder gets a region of free or new bytes
LEMMA TakeKeeps ==
  ASSUME AInv, NEW s \in Slots, NEW q \in Region,
         ptr[s] = NoPtr, ptr' = [ptr EXCEPT ![s] = q],
         Loses(free', free, Bytes(q)),
         size' \in size .. MaxBytes,
         Bytes(q) \subseteq SegBytes(free) \cup (size .. size' - 1),
         size .. size' - 1 \subseteq Bytes(q),
         allowResize' \in BOOLEAN, refused' \subseteq Slots, nulled' \in BOOLEAN,
         crashed' \in BOOLEAN
  PROVE  AInv'
<1>1. /\ q # NoPtr
      /\ ptr \in [Slots -> Region \cup {NoPtr}]
      /\ ptr'[s] = q
      /\ \A t \in Slots : t # s => ptr'[t] = ptr[t]
      /\ Holders' = Holders \cup {s}
      /\ s \notin Holders
  BY PointerAssumption DEF AInv, TypeOK, Holders
<1>2. OwnedBytes' = OwnedBytes \cup Bytes(q)
  <2>1. ASSUME NEW b \in OwnedBytes'
        PROVE  b \in OwnedBytes \cup Bytes(q)
    <3>1. PICK t \in Holders' : b \in Bytes(ptr'[t])
      BY DEF OwnedBytes, Bytes
    <3> QED BY <1>1, <3>1 DEF OwnedBytes, Holders
  <2>2. ASSUME NEW b \in OwnedBytes
        PROVE  b \in OwnedBytes'
    <3>1. PICK t \in Holders : b \in Bytes(ptr[t])
      BY DEF OwnedBytes
    <3>2. t \in Holders' /\ ptr'[t] = ptr[t]
      BY <1>1 DEF Holders
    <3> QED BY <3>1, <3>2 DEF OwnedBytes, Bytes
  <2>3. Bytes(q) \subseteq OwnedBytes'
    BY <1>1 DEF OwnedBytes, Bytes
  <2> QED BY <2>1, <2>2, <2>3
<1>3. /\ FreeBytes = SegBytes(free)
      /\ FreeBytes' = SegBytes(free) \ Bytes(q)
      /\ Disjoint(free') /\ free' \in Seq(Region)
  BY DEF FreeBytes, SegBytes, Bytes, Loses
<1>4. /\ SegBytes(free) \cap OwnedBytes = {}
      /\ SegBytes(free) \cup OwnedBytes = 0 .. size - 1
      /\ size \in Nat /\ size' \in Nat
  BY <1>3, ArenaAssumption DEF AInv, FreeListDisjoint, EveryByteAccounted, TypeOK
<1>5. Bytes(q) \cap OwnedBytes = {}
  <2>1. ASSUME NEW b \in size .. size' - 1 PROVE b \notin 0 .. size - 1
    BY <1>4
  <2> QED BY <1>4, <2>1
<1>6. TypeOK'
  BY <1>1, <1>3, <1>4, ArenaAssumption DEF AInv, TypeOK
<1>7. NoSharedBytes'
  <2> SUFFICES ASSUME NEW t \in Holders', NEW u \in Holders', t # u
               PROVE  Bytes(ptr'[t]) \cap Bytes(ptr'[u]) = {}
    BY DEF NoSharedBytes, Bytes
  <2>1. \A v \in Holders : Bytes(ptr[v]) \subseteq OwnedBytes
    BY DEF OwnedBytes
  <2>2. CASE t = s
    BY <1>1, <1>5, <2>1, <2>2 DEF Holders
  <2>3. CASE u = s
    BY <1>1, <1>5, <2>1, <2>3 DEF Holders
  <2>4. CASE t # s /\ u # s
    BY <1>1, <2>4 DEF AInv, NoSharedBytes, Holders
  <2> QED BY <2>2, <2>3, <2>4
<1>8. FreeListDisjoint'
  <2>1. FreeBytes' \cap OwnedBytes' = {}
    BY <1>2, <1>3, <1>4, <1>5
  <2> QED BY <1>3, <2>1 DEF FreeListDisjoint, Disjoint, Bytes
<1>9. EveryByteAccounted'
  <2>1. (0 .. size - 1) \cup (size .. size' - 1) = 0 .. size' - 1
    BY <1>4
  <2>2. FreeBytes' \cup OwnedBytes' = (0 .. size - 1) \cup (size .. size' - 1)
    BY <1>2, <1>3, <1>4
  <2> QED BY <2>1, <2>2 DEF EveryByteAccounted
<1> QED BY <1>6, <1>7, <1>8, <1>9 DEF AInv

\* a holder's region goes back to the list, or the holder forgets an empty one
LEMMA GiveKeeps ==
  ASSUME AInv, NEW s \in Slots, ptr[s] # NoPtr, ptr' = [ptr EXCEPT ![s] = NoPtr],
         Gains(free', free, Bytes(ptr[s])),
         size' = size, allowResize' \in BOOLEAN, refused' \subseteq Slots,
         nulled' \in BOOLEAN, crashed' \in BOOLEAN
  PROVE  AInv'
<1>1. /\ ptr \in [Slots -> Region \cup {NoPtr}]
      /\ ptr'[s] = NoPtr
      /\ \A t \in Slots : t # s => ptr'[t] = ptr[t]
      /\ Holders' = Holders \ {s}
      /\ s \in Holders
  BY DEF AInv, TypeOK, Holders
<1>2. \A t \in Holders : t # s => Bytes(ptr[t]) \cap Bytes(ptr[s]) = {}
  BY <1>1 DEF AInv, NoSharedBytes
<1>3. OwnedBytes' = OwnedBytes \ Bytes(ptr[s])
  <2>1. ASSUME NEW b \in OwnedBytes'
        PROVE  b \in OwnedBytes \ Bytes(ptr[s])
    <3>1. PICK t \in Holders' : b \in Bytes(ptr'[t])
      BY DEF OwnedBytes, Bytes
    <3>2. t \in Holders /\ t # s /\ b \in Bytes(ptr[t])
      BY <1>1, <3>1 DEF Holders
    <3> QED BY <1>2, <3>2 DEF OwnedBytes
  <2>2. ASSUME NEW b \in OwnedBytes \ Bytes(ptr[s])
        PROVE  b \in OwnedBytes'
    <3>1. PICK t \in Holders : b \in Bytes(ptr[t])
      BY DEF OwnedBytes
    <3>2. t \in Holders' /\ ptr'[t] = ptr[t]
      BY <1>1, <3>1 DEF Holders
    <3> QED BY <3>1, <3>2 DEF OwnedBytes, Bytes
  <2> QED BY <2>1, <2>2
<1>4. Bytes(ptr[s]) \subseteq OwnedBytes
  BY <1>1 DEF OwnedBytes
<1>5. /\ FreeBytes = SegBytes(free)
      /\ FreeBytes' = SegBytes(free) \cup Bytes(ptr[s])
      /\ Disjoint(free') /\ free' \in Seq(Region)
  BY DEF FreeBytes, SegBytes, Bytes, Gains
<1>6. /\ SegBytes(free) \cap OwnedBytes = {}
      /\ SegBytes(free) \cup OwnedBytes = 0 .. size - 1
  BY <1>5 DEF AInv, FreeListDisjoint, EveryByteAccounted
<1>7. TypeOK'
  BY <1>1, <1>5 DEF AInv, TypeOK
<1>8. NoSharedBytes'
  <2> SUFFICES ASSUME NEW t \in Holders', NEW u \in Holders', t # u
               PROVE  Bytes(ptr'[t]) \cap Bytes(ptr'[u]) = {}
    BY DEF NoSharedBytes, Bytes
  <2>1. t \in Holders /\ u \in Holders /\ ptr'[t] = ptr[t] /\ ptr'[u] = ptr[u]
    BY <1>1 DEF Holders
  <2> QED BY <2>1 DEF AInv, NoSharedBytes
<1>9. FreeListDisjoint'
  <2>1. FreeBytes' \cap OwnedBytes' = {}
    BY <1>3, <1>5, <1>6
  <2> QED BY <1>5, <2>1 DEF FreeListDisjoint, Disjoint, Bytes
<1>10. EveryByteAccounted'
  BY <1>3, <1>4, <1>5, <1>6 DEF EveryByteAccounted
<1> QED BY <1>7, <1>8, <1>9, <1>10 DEF AInv
-----------------------------------------------------------------------------
(* allocate *)

\* what every successful allocation does; the abstract step is read off it
Takes(s, n) ==
  \E q \in Region :
    /\ q.size = n
    /\ ptr[s] = NoPtr
    /\ ptr' = [ptr EXCEPT ![s] = q]
    /\ Loses(free', free, Bytes(q))
    /\ size' \in size .. MaxBytes
    /\ Bytes(q) \subseteq SegBytes(free) \cup (size .. size' - 1)
    /\ size .. size' - 1 \subseteq Bytes(q)

\* the first region that is large enough is cut at its front
LEMMA FirstFitTakes ==
  ASSUME AInv, NEW s \in Slots, NEW n \in Requests, ptr[s] = NoPtr, AllocateFirstFit(s, n)
  PROVE  Takes(s, n)
<1> DEFINE i == CHOOSE k \in Fits(n) : \A l \in Fits(n) : k <= l
           q == Reg(free[i].start, n)
           rest == Reg(free[i].start + n, free[i].size - n)
<1>1. free \in Seq(Region) /\ Disjoint(free) /\ n \in Nat /\ size \in 0 .. MaxBytes
  BY ArenaAssumption DEF AInv, TypeOK, FreeListDisjoint, Disjoint
<1>2. i \in Fits(n)
  <2>1. Fits(n) \in SUBSET Nat /\ Fits(n) # {}
    BY <1>1 DEF Fits, AllocateFirstFit
  <2>2. \E k \in Fits(n) : \A l \in Fits(n) : k <= l
    BY <2>1, LeastExists
  <2> QED BY <2>2
<1>3. /\ ptr' = [ptr EXCEPT ![s] = q]
      /\ free' = IF free[i].size = n THEN RemoveAt(free, i) ELSE [free EXCEPT ![i] = rest]
      /\ size' = size
  BY DEF AllocateFirstFit, Reg
<1> HIDE DEF i
<1>4. i \in 1 .. Len(free) /\ free[i] \in Region /\ n <= free[i].size
  <2>1. i \in DOMAIN free /\ free[i].size >= n
    BY <1>2 DEF Fits
  <2>2. i \in 1 .. Len(free) /\ free[i] \in Region
    BY <1>1, <2>1
  <2>3. free[i].size \in Nat
    BY <2>2 DEF Region
  <2> QED BY <1>1, <2>1, <2>2, <2>3
<1>5. /\ q \in Region /\ rest \in Region
      /\ Bytes(q) \subseteq Bytes(free[i])
      /\ Without(rest, free[i], Bytes(q))
  BY <1>1, <1>4, FrontOfRegion DEF Without
<1>6. q.size = n
  BY DEF Reg
<1>7. free[i].size = n => q = free[i]
  BY <1>4 DEF Reg, Region
<1> HIDE DEF q, rest
<1>8. Loses(free', free, Bytes(q))
  <2>1. CASE free[i].size = n
    <3>1. free' = RemoveAt(free, i) /\ q = free[i]
      BY <1>3, <1>7, <2>1
    <3> QED BY <1>1, <1>4, <3>1, RemoveList
  <2>2. CASE free[i].size # n
    <3>1. free' = [free EXCEPT ![i] = rest]
      BY <1>3, <2>2
    <3> QED BY <1>1, <1>4, <1>5, <3>1, ShrinkList
  <2> QED BY <2>1, <2>2
<1>9. Bytes(free[i]) \subseteq SegBytes(free)
  BY <1>1, <1>4 DEF SegBytes
<1>10. size' \in size .. MaxBytes /\ size .. size' - 1 = {}
  BY <1>1, <1>3, ArenaAssumption
<1> QED
  BY <1>3, <1>5, <1>6, <1>8, <1>9, <1>10 DEF Takes

\* the region at the end of the vector reaches the end of the arena, which grows
LEMMA ExtendTakes ==
  ASSUME AInv, NEW s \in Slots, NEW n \in Requests, ptr[s] = NoPtr, AllocateExtend(s, n),
         ~ (crashed' /\ UNCHANGED <<size, ptr, free>>)
  PROVE  Takes(s, n)
<1> DEFINE k == Len(free)
           q == Reg(free[k].start, n)
<1>1. free \in Seq(Region) /\ Disjoint(free) /\ n \in Nat /\ size \in 0 .. MaxBytes
  BY ArenaAssumption DEF AInv, TypeOK, FreeListDisjoint, Disjoint
<1>2. /\ free # <<>>
      /\ EndOf(free[k]) = size
      /\ size + n - free[k].size <= MaxBytes
      /\ size' = size + n - free[k].size
      /\ ptr' = [ptr EXCEPT ![s] = q]
      /\ free' = Front(free)
      /\ Fits(n) = {}
  BY DEF AllocateExtend, LastReachesEnd, Last
<1>3. k \in 1 .. Len(free) /\ Front(free) = RemoveAt(free, k)
  BY <1>1, <1>2, FrontRemoves
<1> HIDE DEF k
<1>4. free[k] \in Region /\ free[k].size < n
  <2>1. free[k] \in Region /\ k \in DOMAIN free
    BY <1>1, <1>3
  <2>2. ~ (free[k].size >= n)
    BY <1>2, <2>1 DEF Fits
  <2> QED BY <1>1, <2>1, <2>2 DEF Region
<1>5. q \in Region /\ q.size = n
  BY <1>1, <1>4 DEF Reg, Region
<1>6. Bytes(q) = Bytes(free[k]) \cup (size .. size' - 1)
  <2>1. /\ free[k].start \in Nat /\ free[k].size \in Nat
        /\ size' = free[k].start + n /\ size = free[k].start + free[k].size
    BY <1>1, <1>2, <1>4 DEF Region, EndOf
  <2>2. q.start = free[k].start /\ q.size = n
    BY DEF Reg
  <2> HIDE DEF q
  <2>3. Bytes(q) = free[k].start .. size' - 1 /\ Bytes(free[k]) = free[k].start .. size - 1
    <3>1. EndOf(q) = size' /\ EndOf(free[k]) = size
      BY <1>2, <2>1, <2>2 DEF EndOf
    <3>2. Bytes(q) = q.start .. size' - 1 /\ Bytes(free[k]) = free[k].start .. size - 1
      BY <1>4, <1>5, <3>1, BytesOf
    <3> QED BY <2>2, <3>2
  <2>4. free[k].start <= size /\ size <= size' /\ size \in Nat /\ size' \in Nat
    BY <1>1, <1>4, <2>1
  <2> QED BY <2>1, <2>3, <2>4, RangesMeet
<1>7. size' \in size .. MaxBytes
  BY <1>1, <1>2, <1>4, ArenaAssumption DEF Region
<1> HIDE DEF q
<1>8. Loses(free', free, Bytes(free[k]))
  BY <1>1, <1>2, <1>3, RemoveList
<1>9. Bytes(free[k]) \subseteq SegBytes(free)
  BY <1>1, <1>3 DEF SegBytes
<1>10. SegBytes(free) \cap (size .. size' - 1) = {}
  <2>1. SegBytes(free) \subseteq 0 .. size - 1
    BY DEF AInv, EveryByteAccounted, FreeBytes, SegBytes
  <2>2. ASSUME NEW b \in size .. size' - 1 PROVE b \notin 0 .. size - 1
    BY <1>1, <1>7
  <2> QED BY <2>1, <2>2
<1>11. Loses(free', free, Bytes(q))
  BY <1>6, <1>8, <1>10 DEF Loses
<1>12. /\ Bytes(q) \subseteq SegBytes(free) \cup (size .. size' - 1)
       /\ size .. size' - 1 \subseteq Bytes(q)
  BY <1>6, <1>9
<1> QED
  BY <1>2, <1>5, <1>7, <1>8, <1>11, <1>12 DEF Takes

\* the whole region is new
LEMMA AtEndTakes ==
  ASSUME AInv, NEW s \in Slots, NEW n \in Requests, ptr[s] = NoPtr, AllocateAtEnd(s, n)
  PROVE  Takes(s, n)
<1> DEFINE q == Reg(size, n)
<1>1. free \in Seq(Region) /\ Disjoint(free) /\ n \in Nat /\ size \in Nat
  BY ArenaAssumption DEF AInv, TypeOK, FreeListDisjoint, Disjoint
<1>2. /\ size' = size + n
      /\ size + n <= MaxBytes
      /\ ptr' = [ptr EXCEPT ![s] = q]
      /\ free' = free
  BY DEF AllocateAtEnd
<1>3. q \in Region /\ q.size = n /\ Bytes(q) = size .. size' - 1
  BY <1>1, <1>2 DEF Reg, Region, Bytes
<1>4. size' \in size .. MaxBytes
  BY <1>1, <1>2, ArenaAssumption
<1> HIDE DEF q
<1>5. SegBytes(free) \cap (size .. size' - 1) = {}
  <2>1. SegBytes(free) \subseteq 0 .. size - 1
    BY DEF AInv, EveryByteAccounted, FreeBytes, SegBytes
  <2>2. ASSUME NEW b \in size .. size' - 1 PROVE b \notin 0 .. size - 1
    BY <1>1
  <2> QED BY <2>1, <2>2
<1>6. SegBytes(free) = SegBytes(free) \ Bytes(q)
  BY <1>3, <1>5
<1> QED
  BY <1>1, <1>2, <1>3, <1>4, <1>6 DEF Takes, Loses

\* the null pointer has no bytes
LEMMA FailsTakes ==
  ASSUME AInv, NEW s \in Slots, NEW n \in Requests, ptr[s] = NoPtr, AllocateFails(s, n)
  PROVE  Takes(s, 0)
<1> DEFINE q == Reg(0, 0)
<1>1. free \in Seq(Region) /\ Disjoint(free) /\ size \in 0 .. MaxBytes
  BY DEF AInv, TypeOK, FreeListDisjoint, Disjoint
<1>2. ptr' = [ptr EXCEPT ![s] = q] /\ free' = free /\ size' = size
  BY DEF AllocateFails
<1>3. q \in Region /\ q.size = 0 /\ Bytes(q) = {}
  BY DEF Reg, Region, Bytes
<1>4. size' \in size .. MaxBytes /\ size .. size' - 1 = {}
  BY <1>1, <1>2, ArenaAssumption
<1> HIDE DEF q
<1> QED
  BY <1>1, <1>2, <1>3, <1>4 DEF Takes, Loses

\* an allocation takes a region, or crashes without a change
LEMMA AllocateTakes ==
  ASSUME AInv, NEW s \in Slots, NEW n \in Requests, Allocate(s, n)
  PROVE  \/ Takes(s, n) \/ Takes(s, 0)
         \/ UNCHANGED <<size, ptr, free>>
<1>1. ptr[s] = NoPtr
  BY DEF Allocate
<1>2. CASE AllocateFirstFit(s, n)
  BY <1>1, <1>2, FirstFitTakes
<1>3. CASE AllocateFails(s, n)
  BY <1>1, <1>3, FailsTakes
<1>4. CASE AllocateExtend(s, n)
  <2>1. CASE crashed' /\ UNCHANGED <<size, ptr, free>>
    BY <2>1
  <2>2. CASE ~ (crashed' /\ UNCHANGED <<size, ptr, free>>)
    BY <1>1, <1>4, <2>2, ExtendTakes
  <2> QED BY <2>1, <2>2
<1>5. CASE AllocateAtEnd(s, n)
  BY <1>1, <1>5, AtEndTakes
<1> QED BY <1>2, <1>3, <1>4, <1>5 DEF Allocate
-----------------------------------------------------------------------------
(* release *)

\* the search of release() ends inside the list
LEMMA InsertIndexInList ==
  ASSUME free \in Seq(Region), free # <<>>, NEW p
  PROVE  InsertIndex(p) \in 1 .. Len(free)
<1> DEFINE gaps == {i \in 1 .. Len(free) - 1 :
                      free[i].start < p.start /\ EndOf(p) <= free[i + 1].start}
<1>1. Len(free) \in Nat /\ 1 <= Len(free)
  BY EmptySeq
<1>2. InsertIndex(p) = IF gaps = {} THEN 1 ELSE CHOOSE i \in gaps : \A j \in gaps : i >= j
  BY DEF InsertIndex
<1>3. gaps \in SUBSET (0 .. Len(free)) /\ gaps \subseteq 1 .. Len(free)
  BY <1>1
<1> HIDE DEF gaps
<1>4. CASE gaps = {}
  BY <1>1, <1>2, <1>4
<1>5. CASE gaps # {}
  <2>1. \E k \in gaps : \A l \in gaps : k >= l
    BY <1>1, <1>3, <1>5, GreatestExists
  <2>2. (CHOOSE i \in gaps : \A j \in gaps : i >= j) \in gaps
    BY <2>1
  <2> QED BY <1>2, <1>3, <1>5, <2>2
<1> QED BY <1>4, <1>5

\* whatever neighbours the insertion index names, the list gets the bytes of
\* the region and stays disjoint
LEMMA FreeWithGains ==
  ASSUME free \in Seq(Region), Disjoint(free), NEW p \in Region, New(Bytes(p), free)
  PROVE  Gains(FreeWith(p), free, Bytes(p))
<1> DEFINE k == InsertIndex(p)
           grown == EndOf(p) - free[k].start
           Before == EndOf(free[k]) = p.start
           After == k < Len(free) /\ EndOf(p) = free[k + 1].start
<1>1. CASE free = <<>>
  <2>1. FreeWith(p) = <<p>>
    BY <1>1 DEF FreeWith
  <2>2. SegBytes(free) = {}
    BY <1>1, EmptyList
  <2> QED BY <2>1, <2>2, SingleList DEF Gains
<1>2. CASE free # <<>>
  <2>1. k \in 1 .. Len(free) /\ free[k] \in Region /\ Len(free) \in Nat
    BY <1>2, InsertIndexInList
  <2>2. After => k + 1 \in 1 .. Len(free) /\ free[k + 1] \in Region
    BY <2>1
  <2>3. FreeWith(p) =
          IF Before
          THEN IF After
               THEN RemoveAt([free EXCEPT ![k].size = grown + free[k + 1].size], k + 1)
               ELSE [free EXCEPT ![k].size = grown]
          ELSE IF After
               THEN [free EXCEPT ![k + 1] = Reg(p.start, @.size + p.size)]
               ELSE InsertAt(free, k, p)
    BY <1>2 DEF FreeWith
  <2> HIDE DEF k
  <2>4. CASE Before /\ After
    <3> DEFINE next == free[k + 1]
               m == Reg(p.start, p.size + next.size)
               r == Reg(free[k].start, free[k].size + m.size)
               f == RemoveAt(free, k + 1)
               g == FreeWith(p)
    <3>1. next \in Region /\ k + 1 \in 1 .. Len(free)
      BY <2>2, <2>4
    <3>2. m \in Region /\ Bytes(m) = Bytes(p) \cup Bytes(next)
      BY <2>4, <3>1, RegionsMeet
    <3>3. r \in Region /\ With(r, free[k], Bytes(m))
      <4>1. EndOf(free[k]) = m.start
        BY <2>4 DEF Reg
      <4> QED BY <2>1, <3>2, <4>1, RegionsMeet DEF With
    <3>4. g = RemoveAt([free EXCEPT ![k] = r], k + 1)
      <4>1. [free[k] EXCEPT !.size = grown + next.size] = r
        <5>1. [free[k] EXCEPT !.size = grown + next.size] = Reg(free[k].start, grown + next.size)
          BY <2>1, Resized
        <5>2. grown + next.size = free[k].size + (p.size + next.size)
          <6>1. grown = free[k].size + p.size
            <7>1. /\ free[k].start \in Nat /\ free[k].size \in Nat
                  /\ p.start \in Nat /\ p.size \in Nat
              BY <2>1 DEF Region
            <7>2. free[k].start + free[k].size = p.start
              BY <2>4 DEF EndOf
            <7>3. grown = (p.start + p.size) - free[k].start
              BY DEF EndOf
            <7> HIDE DEF grown
            <7> QED BY <7>1, <7>2, <7>3
          <6>2. next.size \in Nat /\ p.size \in Nat /\ free[k].size \in Nat
            BY <2>1, <3>1 DEF Region
          <6> HIDE DEF next, grown
          <6> QED BY <6>1, <6>2
        <5>3. m.size = p.size + next.size
          BY DEF Reg
        <5> QED BY <5>1, <5>2, <5>3
      <4>2. g = RemoveAt([free EXCEPT ![k] = [free[k] EXCEPT !.size = grown + next.size]], k + 1)
        BY <2>1, <2>3, <2>4
      <4> QED BY <4>1, <4>2
    <3>5. Loses(f, free, Bytes(next))
      BY <3>1, RemoveList
    <3>6. /\ f \in Seq(Region)
          /\ Len(f) = Len(free) - 1
          /\ \A i \in 1 .. Len(free) - 1 : f[i] = IF i < k + 1 THEN free[i] ELSE free[i + 1]
      BY <3>1, RemoveElements
    <3> HIDE DEF f, g, r, m, next
    <3>7. k \in 1 .. Len(f) /\ f[k] = free[k]
      BY <2>1, <3>1, <3>6
    <3>8. g = [f EXCEPT ![k] = r]
      <4> DEFINE e == [free EXCEPT ![k] = r]
      <4>1. e \in Seq(Region) /\ Len(e) = Len(free) /\ k + 1 \in 1 .. Len(e)
            /\ \A i \in 1 .. Len(free) : e[i] = IF i = k THEN r ELSE free[i]
        BY <2>1, <3>1, <3>3
      <4> HIDE DEF e
      <4>2. /\ g \in Seq(Region)
            /\ Len(g) = Len(e) - 1
            /\ \A i \in 1 .. Len(e) - 1 : g[i] = IF i < k + 1 THEN e[i] ELSE e[i + 1]
        <5>1. g = RemoveAt(e, k + 1)
          BY <3>4 DEF e
        <5> QED BY <4>1, <5>1, RemoveElements
      <4>3. /\ [f EXCEPT ![k] = r] \in Seq(Region)
            /\ Len([f EXCEPT ![k] = r]) = Len(f)
            /\ \A i \in 1 .. Len(f) : [f EXCEPT ![k] = r][i] = IF i = k THEN r ELSE f[i]
        BY <3>3, <3>6, <3>7
      <4>4. ASSUME NEW i \in 1 .. Len(g) PROVE g[i] = [f EXCEPT ![k] = r][i]
        <5>1. i \in 1 .. Len(free) - 1 /\ i \in 1 .. Len(free) /\ i + 1 \in 1 .. Len(free)
          BY <2>1, <4>1, <4>2
        <5>2. [f EXCEPT ![k] = r][i] = IF i = k THEN r ELSE f[i]
          BY <3>6, <4>3, <5>1
        <5>3. g[i] = IF i < k + 1 THEN e[i] ELSE e[i + 1]
          BY <4>1, <4>2, <5>1
        <5>4. CASE i = k
          BY <2>1, <4>1, <5>1, <5>2, <5>3, <5>4
        <5>5. CASE i # k /\ i < k + 1
          BY <2>1, <3>6, <4>1, <5>1, <5>2, <5>3, <5>5
        <5>6. CASE ~ (i < k + 1)
          <6>1. i + 1 # k /\ i # k
            BY <2>1, <5>6
          <6> QED BY <3>6, <4>1, <5>1, <5>2, <5>3, <5>6, <6>1
        <5> QED BY <5>4, <5>5, <5>6
      <4> QED
        <5>1. Len(g) = Len([f EXCEPT ![k] = r])
          BY <3>6, <4>1, <4>2, <4>3
        <5> QED BY <4>2, <4>3, <4>4, <5>1, SeqEqual
    <3>9. New(Bytes(m), f)
      BY <3>2, <3>5 DEF New, Loses
    <3>10. Disjoint(f) /\ With(r, f[k], Bytes(m))
      BY <3>3, <3>5, <3>7 DEF Loses
    <3>11. Gains(g, f, Bytes(m))
      BY <3>3, <3>6, <3>7, <3>8, <3>9, <3>10, GrowList
    <3>12. Bytes(next) \subseteq SegBytes(free)
      BY <3>1 DEF SegBytes, next
    <3>13. Gains(g, free, Bytes(p))
      BY <3>2, <3>5, <3>11, <3>12 DEF Gains, Loses
    <3> QED BY <3>13 DEF g
  <2>5. CASE Before /\ ~After
    <3> DEFINE r == Reg(free[k].start, free[k].size + p.size)
    <3>1. r \in Region /\ With(r, free[k], Bytes(p))
      BY <2>1, <2>5, RegionsMeet DEF With
    <3>2. FreeWith(p) = [free EXCEPT ![k] = r]
      <4>1. [free[k] EXCEPT !.size = grown] = r
        <5>1. [free[k] EXCEPT !.size = grown] = Reg(free[k].start, grown)
          BY <2>1, Resized
        <5>2. grown = free[k].size + p.size
          BY <2>1, <2>5 DEF Region, EndOf
        <5> QED BY <5>1, <5>2
      <4>2. FreeWith(p) = [free EXCEPT ![k] = [free[k] EXCEPT !.size = grown]]
        BY <2>1, <2>3, <2>5
      <4> QED BY <4>1, <4>2
    <3> HIDE DEF r
    <3> QED BY <2>1, <3>1, <3>2, GrowList
  <2>6. CASE ~Before /\ After
    <3> DEFINE r == Reg(p.start, p.size + free[k + 1].size)
    <3>1. r \in Region /\ With(r, free[k + 1], Bytes(p))
      BY <2>2, <2>6, RegionsMeet DEF With
    <3>2. FreeWith(p) = [free EXCEPT ![k + 1] = r]
      <4>1. Reg(p.start, free[k + 1].size + p.size) = r
        BY <2>2, <2>6 DEF Region, Reg
      <4>2. FreeWith(p) = [free EXCEPT ![k + 1] = Reg(p.start, free[k + 1].size + p.size)]
        BY <2>2, <2>3, <2>6
      <4> QED BY <4>1, <4>2
    <3> HIDE DEF r
    <3> QED BY <2>2, <2>6, <3>1, <3>2, GrowList
  <2>7. CASE ~Before /\ ~After
    <3>1. FreeWith(p) = InsertAt(free, k, p)
      BY <2>3, <2>7
    <3> QED BY <2>1, <3>1, InsertList
  <2> QED BY <2>4, <2>5, <2>6, <2>7
<1> QED BY <1>1, <1>2
\* an owner's bytes are no bytes of the list
LEMMA OwnedIsNew ==
  ASSUME AInv, NEW s \in Slots, ptr[s] # NoPtr
  PROVE  ptr[s] \in Region /\ New(Bytes(ptr[s]), free)
<1>1. ptr[s] \in Region /\ s \in Holders
  BY DEF AInv, TypeOK, Holders
<1>2. Bytes(ptr[s]) \subseteq OwnedBytes
  BY <1>1 DEF OwnedBytes
<1>3. SegBytes(free) \cap OwnedBytes = {}
  BY DEF AInv, FreeListDisjoint, FreeBytes, SegBytes
<1> QED BY <1>1, <1>2, <1>3 DEF New

\* what a release that succeeds and a dropped null pointer do
Gives(s) ==
  /\ ptr[s] # NoPtr
  /\ ptr' = [ptr EXCEPT ![s] = NoPtr]
  /\ Gains(free', free, Bytes(ptr[s]))
  /\ size' = size

\* release() gives the region back, or changes nothing
LEMMA ReleaseGives ==
  ASSUME AInv, NEW s \in Slots, Release(s)
  PROVE  Gives(s) \/ UNCHANGED <<size, ptr, free>>
<1>1. CASE ReleaseRefused(s)
  BY <1>1 DEF ReleaseRefused
<1>2. CASE ReleaseDone(s)
  <2>1. /\ free \in Seq(Region) /\ Disjoint(free)
        /\ ptr[s] \in Region /\ New(Bytes(ptr[s]), free)
    BY OwnedIsNew DEF AInv, TypeOK, FreeListDisjoint, Disjoint, Release
  <2>2. Gains(FreeWith(ptr[s]), free, Bytes(ptr[s]))
    BY <2>1, FreeWithGains
  <2> QED BY <1>2, <2>2 DEF Gives, ReleaseDone, Release
<1> QED BY <1>1, <1>2 DEF Release

\* a null pointer that is forgotten had no bytes
LEMMA DropGives ==
  ASSUME AInv, NEW s \in Slots, DropNull(s)
  PROVE  Gives(s)
<1>1. ptr[s] # NoPtr /\ Bytes(ptr[s]) = {}
  BY PointerAssumption DEF DropNull, Reg, Region, Bytes
<1>2. Gains(free, free, Bytes(ptr[s]))
  BY <1>1 DEF Gains, AInv, TypeOK, FreeListDisjoint, Disjoint
<1> QED BY <1>1, <1>2 DEF Gives, DropNull

-----------------------------------------------------------------------------
(* The invariant *)

\* an arena starts with its bytes in a single free region
LEMMA InitAInv == ArenaInit => AInv
<1> SUFFICES ASSUME ArenaInit
             PROVE  AInv
  OBVIOUS
<1> DEFINE r == Reg(0, StartSize)
<1>1. r \in Region /\ Bytes(r) = 0 .. StartSize - 1
  BY ArenaAssumption DEF Reg, Region, Bytes
<1>2. free = <<r>> /\ size = StartSize /\ ptr = [s \in Slots |-> NoPtr]
  BY DEF ArenaInit
<1> HIDE DEF r
<1>3. free \in Seq(Region) /\ Disjoint(free) /\ SegBytes(free) = Bytes(r)
  BY <1>1, <1>2, SingleList
<1>4. Holders = {} /\ OwnedBytes = {}
  <2>1. Holders = {}
    BY <1>2 DEF Holders
  <2> QED BY <2>1 DEF OwnedBytes
<1>5. FreeBytes = 0 .. StartSize - 1
  BY <1>1, <1>3 DEF FreeBytes, SegBytes
<1>6. TypeOK
  BY <1>2, <1>3, ArenaAssumption DEF ArenaInit, TypeOK
<1> QED
  BY <1>2, <1>3, <1>4, <1>5, <1>6
  DEF AInv, NoSharedBytes, FreeListDisjoint, Disjoint, EveryByteAccounted

\* the rest of the state keeps its types
LEMMA FlagsKept ==
  ASSUME AInv, ArenaNext
  PROVE  /\ allowResize' \in BOOLEAN /\ refused' \subseteq Slots
         /\ nulled' \in BOOLEAN /\ crashed' \in BOOLEAN
<1> USE DEF AInv, TypeOK
<1>1. ASSUME NEW s \in Slots, Release(s) \/ DropNull(s)
      PROVE  /\ allowResize' \in BOOLEAN /\ refused' \subseteq Slots
             /\ nulled' \in BOOLEAN /\ crashed' \in BOOLEAN
  BY <1>1 DEF Release, ReleaseRefused, ReleaseDone, DropNull
<1>2. ASSUME NEW s \in Slots, NEW n \in Requests, Allocate(s, n)
      PROVE  /\ allowResize' \in BOOLEAN /\ refused' \subseteq Slots
             /\ nulled' \in BOOLEAN /\ crashed' \in BOOLEAN
  BY <1>2 DEF Allocate, AllocateFirstFit, AllocateFails, AllocateExtend, AllocateAtEnd
<1>3. CASE SetResizable \/ ArenaFinished
  BY <1>3 DEF SetResizable, ArenaFinished, arenaVars
<1> QED BY <1>1, <1>2, <1>3 DEF ArenaNext

\* the three things a step can do with regions
LEMMA StepKinds ==
  ASSUME AInv, ArenaNext
  PROVE  \/ \E s \in Slots : \/ Gives(s) \/ Takes(s, 0)
                             \/ \E n \in Requests : Takes(s, n)
         \/ UNCHANGED <<size, ptr, free>>
<1>1. ASSUME NEW s \in Slots, Release(s) \/ DropNull(s)
      PROVE  Gives(s) \/ UNCHANGED <<size, ptr, free>>
  BY <1>1, ReleaseGives, DropGives
<1>2. ASSUME NEW s \in Slots, NEW n \in Requests, Allocate(s, n)
      PROVE  Takes(s, n) \/ Takes(s, 0) \/ UNCHANGED <<size, ptr, free>>
  BY <1>2, AllocateTakes
<1>3. CASE SetResizable \/ ArenaFinished
  BY <1>3 DEF SetResizable, ArenaFinished, arenaVars
<1> QED BY <1>1, <1>2, <1>3 DEF ArenaNext

\* a step that leaves the regions alone
LEMMA KeepsRegions ==
  ASSUME AInv, UNCHANGED <<size, ptr, free>>,
         allowResize' \in BOOLEAN, refused' \subseteq Slots,
         nulled' \in BOOLEAN, crashed' \in BOOLEAN
  PROVE  AInv'
<1>1. TypeOK'
  BY DEF AInv, TypeOK
<1>2. NoSharedBytes' /\ FreeListDisjoint' /\ EveryByteAccounted'
  BY DEF AInv, NoSharedBytes, FreeListDisjoint, EveryByteAccounted, Holders, FreeBytes,
         OwnedBytes, Bytes
<1> QED BY <1>1, <1>2 DEF AInv

\* every step keeps the invariant
LEMMA NextAInv == AInv /\ [ArenaNext]_arenaVars => AInv'
<1> SUFFICES ASSUME AInv, [ArenaNext]_arenaVars
             PROVE  AInv'
  OBVIOUS
<1>1. CASE ArenaNext
  <2>1. /\ allowResize' \in BOOLEAN /\ refused' \subseteq Slots
        /\ nulled' \in BOOLEAN /\ crashed' \in BOOLEAN
    BY <1>1, FlagsKept
  <2>2. ASSUME NEW s \in Slots, Gives(s)
        PROVE  AInv'
    BY <2>1, <2>2, GiveKeeps DEF Gives
  <2>3. ASSUME NEW s \in Slots, NEW n, Takes(s, n)
        PROVE  AInv'
    BY <2>1, <2>3, TakeKeeps DEF Takes
  <2>4. CASE UNCHANGED <<size, ptr, free>>
    BY <2>1, <2>4, KeepsRegions
  <2> QED BY <1>1, <2>2, <2>3, <2>4, StepKinds
<1>2. CASE UNCHANGED arenaVars
  BY <1>2, KeepsRegions DEF arenaVars, AInv, TypeOK
<1> QED BY <1>1, <1>2

\* The invariant of the arena: types, owners and list disjoint, every byte
\* accounted for, for any number of holders and any sizes.
THEOREM ArenaInvariant == ArenaSpec => []AInv
<1>1. ArenaInit => AInv
  BY InitAInv
<1>2. AInv /\ [ArenaNext]_arenaVars => AInv'
  BY NextAInv
<1> QED BY <1>1, <1>2, PTL DEF ArenaSpec

\* Two meshes never own a byte together (allocate(), release()).
THEOREM OwnersApart == ArenaSpec => []NoSharedBytes
<1>1. AInv => NoSharedBytes
  BY DEF AInv
<1> QED BY <1>1, ArenaInvariant, PTL

\* The free list holds each free byte once and no byte of an owner, in whatever
\* order release() left it, and every byte of the arena is free or owned, growth
\* included.
THEOREM FreeAndHeld == ArenaSpec => []FreeAndHeldDivide
<1>1. AInv => FreeAndHeldDivide
  BY DEF AInv, FreeAndHeldDivide
<1> QED BY <1>1, ArenaInvariant, PTL

\* The type invariant of the arena.
THEOREM ArenaTypes == ArenaSpec => []TypeOK
<1>1. AInv => TypeOK
  BY DEF AInv
<1> QED BY <1>1, ArenaInvariant, PTL
-----------------------------------------------------------------------------
(* The refinement *)

Owned == [s \in Slots |-> IF ptr[s] = NoPtr THEN {} ELSE Bytes(ptr[s])]

\* the mapping, spelled out
LEMMA AbstractAllocate ==
  ASSUME NEW s \in Slots, NEW n,
         Owned[s] = {},
         size' \in size .. size + n,
         \E start \in 0 .. size :
           /\ start .. start + n - 1 \subseteq FreeBytes \cup (size .. size' - 1)
           /\ size' = size \/ size' = start + n
           /\ Owned' = [Owned EXCEPT ![s] = start .. start + n - 1]
           /\ FreeBytes' = FreeBytes \ (start .. start + n - 1)
  PROVE  Abstract!AAllocate(s, n)
  BY DEF Abstract!AAllocate, Abstract!Block, Owned

\* the abstract step that gives bytes back
LEMMA AbstractRelease ==
  ASSUME NEW s \in Slots, Owned[s] # {}, FreeBytes' = FreeBytes \cup Owned[s],
         Owned' = [Owned EXCEPT ![s] = {}], size' = size
  PROVE  Abstract!ARelease(s)
  BY DEF Abstract!ARelease, Owned

\* a step of the arena that the abstract allocator does not see
LEMMA AbstractStutter ==
  ASSUME UNCHANGED <<size, FreeBytes, Owned>>
  PROVE  UNCHANGED Abstract!avars
  BY DEF Abstract!avars, Owned
\* an allocation is an allocation of the abstract arena, or nothing if it is of
\* no bytes
LEMMA TakesRefines ==
  ASSUME AInv, NEW s \in Slots, NEW n \in Nat, Takes(s, n)
  PROVE  (n # 0 /\ Abstract!AAllocate(s, n)) \/ UNCHANGED Abstract!avars
<1>1. PICK q \in Region :
        /\ q.size = n
        /\ ptr[s] = NoPtr
        /\ ptr' = [ptr EXCEPT ![s] = q]
        /\ Loses(free', free, Bytes(q))
        /\ size' \in size .. MaxBytes
        /\ Bytes(q) \subseteq SegBytes(free) \cup (size .. size' - 1)
        /\ size .. size' - 1 \subseteq Bytes(q)
  BY DEF Takes
<1>2. /\ ptr \in [Slots -> Region \cup {NoPtr}]
      /\ size \in Nat /\ size' \in Nat /\ size <= size'
      /\ q # NoPtr /\ q.start \in Nat
      /\ SegBytes(free) \subseteq 0 .. size - 1
  <2>1. SegBytes(free) \subseteq 0 .. size - 1
    BY DEF AInv, EveryByteAccounted, FreeBytes, SegBytes
  <2> QED BY <1>1, <2>1, PointerAssumption, ArenaAssumption DEF AInv, TypeOK, Region
<1>3. FreeBytes = SegBytes(free) /\ FreeBytes' = SegBytes(free) \ Bytes(q)
  BY <1>1 DEF FreeBytes, SegBytes, Bytes, Loses
<1>4. Owned[s] = {} /\ Owned' = [Owned EXCEPT ![s] = Bytes(q)]
  <2>1. Owned[s] = {}
    BY <1>1 DEF Owned
  <2>2. \A t \in Slots : Owned'[t] = IF t = s THEN Bytes(q) ELSE Owned[t]
    BY <1>1, <1>2 DEF Owned, Bytes
  <2> QED BY <2>1, <2>2 DEF Owned
<1>5. Bytes(q) = q.start .. q.start + n - 1
  BY <1>1, <1>2 DEF Bytes
<1>6. CASE n = 0
  <2>1. Bytes(q) = {}
    BY <1>2, <1>5, <1>6
  <2>2. size' = size
    <3>1. size .. size' - 1 = {}
      BY <1>1, <2>1
    <3>2. ~ (size < size')
      <4> SUFFICES ASSUME size < size' PROVE FALSE
        OBVIOUS
      <4>1. size \in size .. size' - 1
        BY <1>2, RangeEnds
      <4> QED BY <3>1, <4>1
    <3> QED BY <1>2, <3>2
  <2>3. Owned' = Owned
    BY <1>4, <2>1 DEF Owned
  <2> QED BY <1>3, <2>1, <2>2, <2>3, AbstractStutter
<1>7. CASE n # 0
  <2>1. q.start \in Bytes(q) /\ q.start + n - 1 \in Bytes(q)
    BY <1>2, <1>5, <1>7
  <2>2. q.start + n <= size'
    <3>1. q.start + n - 1 \in (0 .. size - 1) \cup (size .. size' - 1)
      BY <1>1, <1>2, <2>1
    <3> QED BY <1>2, <3>1
  <2>3. CASE size' = size
    <3>1. q.start \in 0 .. size /\ size' \in size .. size + n
      BY <1>2, <2>2, <2>3
    <3> QED BY <1>1, <1>3, <1>4, <1>5, <1>7, <2>3, <3>1, AbstractAllocate
  <2>4. CASE size' # size
    <3>1. size \in Bytes(q) /\ size' - 1 \in Bytes(q)
      <4>1. size < size'
        BY <1>2, <2>4
      <4>2. size \in size .. size' - 1 /\ size' - 1 \in size .. size' - 1
        BY <1>2, <4>1, RangeEnds
      <4> QED BY <1>1, <4>2
    <3>2. q.start <= size /\ size' <= q.start + n
      BY <1>2, <1>5, <3>1
    <3>3. q.start \in 0 .. size /\ size' \in size .. size + n /\ size' = q.start + n
      BY <1>2, <2>2, <3>2
    <3> QED BY <1>1, <1>3, <1>4, <1>5, <1>7, <3>3, AbstractAllocate
  <2> QED BY <2>3, <2>4
<1> QED BY <1>6, <1>7

\* so is what a slot gives back
LEMMA GivesRefines ==
  ASSUME AInv, NEW s \in Slots, Gives(s)
  PROVE  Abstract!ARelease(s) \/ UNCHANGED Abstract!avars
<1>1. ptr \in [Slots -> Region \cup {NoPtr}] /\ size' = size
  BY DEF AInv, TypeOK, Gives
<1>2. Owned[s] = Bytes(ptr[s])
  BY DEF Owned, Gives
<1>3. Owned' = [Owned EXCEPT ![s] = {}]
  <2>1. \A t \in Slots : Owned'[t] = IF t = s THEN {} ELSE Owned[t]
    BY <1>1 DEF Owned, Bytes, Gives
  <2> QED BY <2>1 DEF Owned
<1>4. FreeBytes' = FreeBytes \cup Owned[s]
  BY <1>2 DEF FreeBytes, SegBytes, Bytes, Gains, Gives
<1>5. CASE Owned[s] = {}
  <2>1. Owned' = Owned
    BY <1>3, <1>5 DEF Owned
  <2> QED BY <1>1, <1>4, <1>5, <2>1, AbstractStutter
<1>6. CASE Owned[s] # {}
  BY <1>1, <1>3, <1>4, <1>6, AbstractRelease
<1> QED BY <1>5, <1>6

\* the initial states map to initial states
LEMMA InitRefines == ArenaInit => Abstract!AInit
<1> SUFFICES ASSUME ArenaInit
             PROVE  Abstract!AInit
  OBVIOUS
<1>1. size \in Nat /\ size = StartSize /\ ptr = [s \in Slots |-> NoPtr]
  BY ArenaAssumption DEF ArenaInit
<1>2. OwnedBytes = {} /\ FreeBytes \cup OwnedBytes = 0 .. size - 1
  <2>1. Holders = {}
    BY <1>1 DEF Holders
  <2> QED BY <2>1, InitAInv DEF OwnedBytes, AInv, EveryByteAccounted
<1>3. [s \in Slots |-> IF ptr[s] = NoPtr THEN {} ELSE Bytes(ptr[s])] = [s \in Slots |-> {}]
  BY <1>1
<1> QED BY <1>1, <1>2, <1>3 DEF Abstract!AInit

\* every step maps to an abstract step or a stutter
LEMMA NextRefines == AInv /\ [ArenaNext]_arenaVars => [Abstract!ANext]_(Abstract!avars)
<1> SUFFICES ASSUME AInv, [ArenaNext]_arenaVars
             PROVE  Abstract!ANext \/ UNCHANGED Abstract!avars
  OBVIOUS
<1>1. ASSUME NEW s \in Slots, Gives(s)
      PROVE  Abstract!ANext \/ UNCHANGED Abstract!avars
  BY <1>1, GivesRefines DEF Abstract!ANext
<1>2. ASSUME NEW s \in Slots, NEW n \in Requests \cup {0}, Takes(s, n)
      PROVE  Abstract!ANext \/ UNCHANGED Abstract!avars
  <2>1. n \in Nat
    BY ArenaAssumption
  <2>2. (n # 0 /\ Abstract!AAllocate(s, n)) \/ UNCHANGED Abstract!avars
    BY <1>2, <2>1, TakesRefines
  <2>3. CASE n # 0 /\ Abstract!AAllocate(s, n)
    <3>1. n \in Requests
      BY <2>3
    <3> QED BY <2>3, <3>1 DEF Abstract!ANext
  <2> QED BY <2>2, <2>3
<1>3. CASE UNCHANGED <<size, ptr, free>>
  <2>1. UNCHANGED <<size, FreeBytes, Owned>>
    BY <1>3 DEF FreeBytes, Owned, Bytes
  <2> QED BY <2>1, AbstractStutter
<1>4. CASE UNCHANGED arenaVars
  BY <1>3, <1>4 DEF arenaVars
<1> QED BY <1>1, <1>2, <1>3, <1>4, StepKinds

\* The arena implements the abstract allocator: first fit over a list that is
\* neither sorted nor coalesced hands out and takes back bytes as it promises.
THEOREM Implements == ArenaSpec => Refinement
<1>1. ArenaInit => Abstract!AInit
  BY InitRefines
<1>2. AInv /\ [ArenaNext]_arenaVars => [Abstract!ANext]_(Abstract!avars)
  BY NextRefines
<1>3. ArenaSpec => Abstract!AInit /\ [][Abstract!ANext]_(Abstract!avars)
  BY <1>1, <1>2, ArenaInvariant, PTL DEF ArenaSpec
<1> QED BY <1>3 DEF Refinement, Abstract!ASpec
-----------------------------------------------------------------------------
(* No release is refused *)

Positive(f) == \A i \in DOMAIN f : f[i].size > 0

\* segments have bytes, except the one an arena without any starts with
Solid == Positive(free) \/ (free = <<Reg(0, 0)>> /\ size = 0)

RInv == AInv /\ (nulled \/ (refused = {} /\ Solid))

\* replacing a segment by one with bytes
LEMMA PositiveExcept ==
  ASSUME NEW f \in Seq(Region), NEW k \in 1 .. Len(f), NEW r \in Region, NEW g,
         g = [f EXCEPT ![k] = r], Positive(f), r.size > 0
  PROVE  g \in Seq(Region) /\ Len(g) = Len(f) /\ Positive(g)
<1>1. /\ g \in Seq(Region)
      /\ Len(g) = Len(f)
      /\ DOMAIN g = DOMAIN f
      /\ \A i \in DOMAIN f : g[i] = IF i = k THEN r ELSE f[i]
  OBVIOUS
<1> QED BY <1>1 DEF Positive

\* taking a segment out
LEMMA PositiveRemove ==
  ASSUME NEW f \in Seq(Region), NEW k \in 1 .. Len(f), Positive(f)
  PROVE  Positive(RemoveAt(f, k))
<1> DEFINE g == RemoveAt(f, k)
           n == Len(f)
<1>1. /\ g \in Seq(Region)
      /\ Len(g) = n - 1
      /\ \A i \in 1 .. n - 1 : g[i] = IF i < k THEN f[i] ELSE f[i + 1]
  BY RemoveElements
<1>2. n \in Nat /\ k \in 1 .. n /\ DOMAIN f = 1 .. n /\ DOMAIN g = 1 .. n - 1
  BY <1>1
<1> HIDE DEF g, n
<1>3. ASSUME NEW i \in 1 .. n - 1 PROVE g[i].size > 0
  <2>1. CASE i < k
    <3>1. i \in 1 .. n /\ g[i] = f[i]
      BY <1>1, <1>2, <2>1
    <3> QED BY <1>2, <3>1 DEF Positive
  <2>2. CASE ~ (i < k)
    <3>1. i + 1 \in 1 .. n /\ g[i] = f[i + 1]
      BY <1>1, <1>2, <2>2
    <3> QED BY <1>2, <3>1 DEF Positive
  <2> QED BY <2>1, <2>2
<1> QED BY <1>2, <1>3 DEF Positive, g

\* putting a segment with bytes in
LEMMA PositiveInsert ==
  ASSUME NEW f \in Seq(Region), NEW k \in 1 .. Len(f), NEW r \in Region, Positive(f),
         r.size > 0
  PROVE  Positive(InsertAt(f, k, r))
<1> DEFINE g == InsertAt(f, k, r)
           n == Len(f)
<1>1. /\ g \in Seq(Region)
      /\ Len(g) = n + 1
      /\ g[k] = r
      /\ \A i \in 1 .. k - 1 : g[i] = f[i]
      /\ \A i \in k .. n : g[i + 1] = f[i]
  BY InsertElements
<1>2. n \in Nat /\ k \in 1 .. n /\ DOMAIN f = 1 .. n
  OBVIOUS
<1> HIDE DEF g, n
<1>3. DOMAIN g = 1 .. n + 1
  BY <1>1, <1>2
<1>4. ASSUME NEW i \in 1 .. n + 1 PROVE g[i].size > 0
  <2>1. CASE i < k
    BY <1>1, <1>2, <2>1 DEF Positive
  <2>2. CASE i = k
    BY <1>1, <2>2
  <2>3. CASE i > k
    <3>1. i - 1 \in k .. n /\ i - 1 \in 1 .. n /\ (i - 1) + 1 = i
      BY <1>2, <2>3
    <3>2. g[i] = f[i - 1]
      BY <1>1, <3>1
    <3> QED BY <1>2, <3>1, <3>2 DEF Positive
  <2> QED BY <1>2, <2>1, <2>2, <2>3
<1> QED BY <1>3, <1>4 DEF Positive, g

\* a region with bytes gives segments with bytes, wherever release() puts it
LEMMA FreeWithPositive ==
  ASSUME free \in Seq(Region), Positive(free), NEW p \in Region, p.size > 0
  PROVE  Positive(FreeWith(p))
<1> DEFINE k == InsertIndex(p)
           grown == EndOf(p) - free[k].start
           Before == EndOf(free[k]) = p.start
           After == k < Len(free) /\ EndOf(p) = free[k + 1].start
<1>1. CASE free = <<>>
  <2>1. FreeWith(p) = <<p>>
    BY <1>1 DEF FreeWith
  <2> QED BY <2>1 DEF Positive
<1>2. CASE free # <<>>
  <2>1. k \in 1 .. Len(free) /\ free[k] \in Region /\ Len(free) \in Nat
    BY <1>2, InsertIndexInList
  <2>2. After => k + 1 \in 1 .. Len(free) /\ free[k + 1] \in Region
    BY <2>1
  <2>3. FreeWith(p) =
          IF Before
          THEN IF After
               THEN RemoveAt([free EXCEPT ![k].size = grown + free[k + 1].size], k + 1)
               ELSE [free EXCEPT ![k].size = grown]
          ELSE IF After
               THEN [free EXCEPT ![k + 1] = Reg(p.start, @.size + p.size)]
               ELSE InsertAt(free, k, p)
    BY <1>2 DEF FreeWith
  <2>4. p.start \in Nat /\ p.size \in Nat /\ free[k].start \in Nat /\ free[k].size \in Nat
    BY <2>1 DEF Region
  <2> HIDE DEF k
  <2>5. CASE Before
    <3>1. grown \in Nat /\ grown > 0
      <4>1. grown = free[k].size + p.size
        BY <2>4, <2>5 DEF EndOf
      <4> HIDE DEF grown
      <4> QED BY <2>4, <4>1
    <3> HIDE DEF grown
    <3>2. CASE After
      <4> DEFINE n == grown + free[k + 1].size
                 r == [free[k] EXCEPT !.size = n]
                 g == [free EXCEPT ![k] = r]
      <4>1. n \in Nat /\ n > 0
        BY <2>2, <3>1, <3>2 DEF Region
      <4>2. FreeWith(p) = RemoveAt(g, k + 1)
        BY <2>1, <2>3, <2>5, <3>2
      <4> HIDE DEF n
      <4>3. r \in Region /\ r.size > 0
        BY <2>1, <4>1, Resized DEF Region, Reg
      <4> HIDE DEF r
      <4>4. g \in Seq(Region) /\ Len(g) = Len(free) /\ Positive(g)
        BY <2>1, <4>3, PositiveExcept
      <4> HIDE DEF g
      <4> QED BY <2>2, <3>2, <4>2, <4>4, PositiveRemove
    <3>3. CASE ~After
      <4> DEFINE r == [free[k] EXCEPT !.size = grown]
      <4>1. FreeWith(p) = [free EXCEPT ![k] = r]
        BY <2>1, <2>3, <2>5, <3>3
      <4>2. r \in Region /\ r.size > 0
        BY <2>1, <3>1, Resized DEF Region, Reg
      <4> HIDE DEF r
      <4> QED BY <2>1, <4>1, <4>2, PositiveExcept
    <3> QED BY <3>2, <3>3
  <2>6. CASE ~Before /\ After
    <3> DEFINE r == Reg(p.start, free[k + 1].size + p.size)
    <3>1. FreeWith(p) = [free EXCEPT ![k + 1] = r]
      BY <2>2, <2>3, <2>6
    <3>2. r \in Region /\ r.size > 0
      BY <2>2, <2>4, <2>6 DEF Region, Reg
    <3> HIDE DEF r
    <3> QED BY <2>2, <2>6, <3>1, <3>2, PositiveExcept
  <2>7. CASE ~Before /\ ~After
    <3>1. FreeWith(p) = InsertAt(free, k, p)
      BY <2>3, <2>7
    <3> QED BY <2>1, <3>1, PositiveInsert
  <2> QED BY <2>5, <2>6, <2>7
<1> QED BY <1>1, <1>2
\* an allocation takes a segment or cuts it short, but leaves it bytes
LEMMA FirstFitSolid ==
  ASSUME AInv, Solid, NEW s \in Slots, NEW n \in Requests, AllocateFirstFit(s, n)
  PROVE  Solid'
<1> DEFINE i == CHOOSE k \in Fits(n) : \A l \in Fits(n) : k <= l
           rest == Reg(free[i].start + n, free[i].size - n)
<1>1. free \in Seq(Region) /\ n \in Nat
  BY ArenaAssumption DEF AInv, TypeOK
<1>2. i \in Fits(n)
  <2>1. Fits(n) \in SUBSET Nat /\ Fits(n) # {}
    BY <1>1 DEF Fits, AllocateFirstFit
  <2>2. \E k \in Fits(n) : \A l \in Fits(n) : k <= l
    BY <2>1, LeastExists
  <2> QED BY <2>2
<1>3. /\ free' = IF free[i].size = n THEN RemoveAt(free, i) ELSE [free EXCEPT ![i] = rest]
      /\ size' = size
  BY DEF AllocateFirstFit, Reg
<1> HIDE DEF i
<1>4. i \in 1 .. Len(free) /\ free[i] \in Region /\ free[i].size >= n
  <2>1. i \in DOMAIN free /\ free[i].size >= n
    BY <1>2 DEF Fits
  <2> QED BY <1>1, <2>1
<1>5. CASE free[i].size = n
  <2>1. free' = RemoveAt(free, i)
    BY <1>3, <1>5
  <2>2. CASE Positive(free)
    BY <1>1, <1>4, <2>1, <2>2, PositiveRemove DEF Solid, Positive
  <2>3. CASE free = <<Reg(0, 0)>>
    <3>1. Len(free) = 1
      BY <2>3
    <3>2. /\ RemoveAt(free, i) \in Seq(Region)
          /\ Len(RemoveAt(free, i)) = Len(free) - 1
      BY <1>1, <1>4, RemoveElements
    <3>3. free' = <<>>
      BY <2>1, <3>1, <3>2, EmptySeq
    <3> QED BY <3>3 DEF Solid, Positive
  <2> QED BY <2>2, <2>3 DEF Solid
<1>6. CASE free[i].size # n
  <2>1. free' = [free EXCEPT ![i] = rest]
    BY <1>3, <1>6
  <2>2. free[i].start \in Nat /\ free[i].size \in Nat /\ free[i].size > 0
    BY <1>1, <1>4, <1>6 DEF Region
  <2>3. rest \in Region /\ rest.size > 0
    BY <1>1, <1>4, <1>6, <2>2 DEF Region, Reg
  <2> HIDE DEF rest
  <2>4. CASE Positive(free)
    BY <1>1, <1>4, <2>1, <2>3, <2>4, PositiveExcept DEF Solid, Positive
  <2>5. CASE free = <<Reg(0, 0)>>
    <3>1. i = 1 /\ free[i].size = 0
      BY <1>4, <2>5 DEF Reg
    <3> QED BY <2>2, <3>1
  <2> QED BY <2>4, <2>5 DEF Solid
<1> QED BY <1>5, <1>6

\* the segment at the end of the vector goes, and with it the empty one
LEMMA ExtendSolid ==
  ASSUME AInv, Solid, NEW s \in Slots, NEW n \in Requests, AllocateExtend(s, n)
  PROVE  Solid'
<1>1. free \in Seq(Region) /\ free # <<>>
  BY DEF AInv, TypeOK, AllocateExtend, LastReachesEnd
<1>2. CASE UNCHANGED <<size, free>>
  BY <1>2 DEF Solid, Positive
<1>3. CASE free' = Front(free)
  <2>1. Len(free) \in 1 .. Len(free) /\ free' = RemoveAt(free, Len(free))
    BY <1>1, <1>3, FrontRemoves
  <2>2. CASE Positive(free)
    BY <1>1, <2>1, <2>2, PositiveRemove DEF Solid, Positive
  <2>3. CASE free = <<Reg(0, 0)>>
    <3>1. Len(free) = 1
      BY <2>3
    <3>2. free' \in Seq(Region) /\ Len(free') = 0
      BY <1>1, <2>1, <3>1, RemoveElements
    <3>3. free' = <<>>
      BY <3>2, EmptySeq
    <3> QED BY <3>3 DEF Solid, Positive
  <2> QED BY <2>2, <2>3 DEF Solid
<1> QED BY <1>2, <1>3 DEF AllocateExtend

\* an arena grows by a whole region only if its empty segment is no more
LEMMA AtEndSolid ==
  ASSUME AInv, Solid, NEW s \in Slots, NEW n \in Requests, AllocateAtEnd(s, n)
  PROVE  Solid'
<1>1. free' = free /\ ~ LastReachesEnd
  BY DEF AllocateAtEnd
<1>2. CASE Positive(free)
  BY <1>1, <1>2 DEF Solid, Positive
<1>3. CASE free = <<Reg(0, 0)>> /\ size = 0
  <2>1. Last(free) = Reg(0, 0) /\ free # <<>>
    BY <1>3 DEF Last
  <2>2. LastReachesEnd
    BY <1>3, <2>1 DEF LastReachesEnd, EndOf, Reg
  <2> QED BY <1>1, <2>2
<1> QED BY <1>2, <1>3 DEF Solid

\* an allocation leaves segments with bytes
LEMMA AllocateSolid ==
  ASSUME AInv, Solid, NEW s \in Slots, NEW n \in Requests, Allocate(s, n)
  PROVE  Solid' /\ refused' = refused /\ nulled' = nulled
<1>1. refused' = refused /\ nulled' = nulled
  BY DEF Allocate, AllocateFirstFit, AllocateFails, AllocateExtend, AllocateAtEnd
<1>2. CASE AllocateFails(s, n)
  BY <1>2 DEF AllocateFails, Solid, Positive
<1> QED BY <1>1, <1>2, FirstFitSolid, ExtendSolid, AtEndSolid DEF Allocate

\* regions without a common byte are apart, if both have bytes
LEMMA ApartIfDisjoint ==
  ASSUME NEW a \in Region, NEW b \in Region, a.size > 0, b.size > 0,
         Bytes(a) \cap Bytes(b) = {}
  PROVE  Apart(a, b)
<1>1. /\ a.start \in Nat /\ a.size \in Nat /\ b.start \in Nat /\ b.size \in Nat
      /\ EndOf(a) = a.start + a.size /\ EndOf(b) = b.start + b.size
  BY DEF Region, EndOf
<1>2. /\ a.start \in Bytes(b) => a.start \in Bytes(a)
      /\ b.start \in Bytes(a) => b.start \in Bytes(b)
  BY <1>1 DEF Bytes
<1>3. a.start \notin Bytes(b) /\ b.start \notin Bytes(a)
  BY <1>2
<1>4. /\ ~ (b.start <= a.start /\ a.start < EndOf(b))
      /\ ~ (a.start <= b.start /\ b.start < EndOf(a))
  BY <1>1, <1>3 DEF Bytes
<1> QED BY <1>1, <1>4 DEF Apart

\* a region with bytes is not refused, and comes back as segments with bytes
LEMMA ReleaseSolid ==
  ASSUME AInv, Solid, NEW s \in Slots, Release(s), ptr[s].size # 0
  PROVE  Solid' /\ refused' = refused
<1> DEFINE p == ptr[s]
<1>1. p \in Region /\ New(Bytes(p), free) /\ free \in Seq(Region) /\ s \in Holders
  BY OwnedIsNew DEF AInv, TypeOK, Release, Holders
<1>2. p.size > 0 /\ p.start \in Nat /\ p.size \in Nat
  BY <1>1 DEF Region
<1>3. p.start \in 0 .. size - 1
  <2>1. p.start \in Bytes(p)
    BY <1>2 DEF Bytes
  <2>2. p.start \in OwnedBytes
    BY <1>1, <2>1 DEF OwnedBytes
  <2> QED BY <2>2 DEF AInv, EveryByteAccounted
<1>4. Positive(free)
  BY <1>3 DEF Solid
<1> HIDE DEF p
<1>5. ~ Collides(p)
  <2> SUFFICES ASSUME NEW i \in DOMAIN free
               PROVE  Apart(free[i], p)
    BY DEF Collides
  <2>1. free[i] \in Region /\ free[i].size > 0
    BY <1>1, <1>4 DEF Positive
  <2>2. Bytes(free[i]) \cap Bytes(p) = {}
    BY <1>1 DEF New, SegBytes
  <2> QED BY <1>1, <1>2, <2>1, <2>2, ApartIfDisjoint
<1>6. free' = FreeWith(p) /\ refused' = refused
  BY <1>5 DEF Release, ReleaseRefused, ReleaseDone, p
<1>7. Positive(FreeWith(p))
  BY <1>1, <1>2, <1>4, FreeWithPositive
<1> QED BY <1>6, <1>7 DEF Solid, Positive

\* an arena starts with all its bytes in one segment
LEMMA InitRInv == ArenaInit => RInv
<1> SUFFICES ASSUME ArenaInit
             PROVE  RInv
  OBVIOUS
<1>1. free = <<Reg(0, StartSize)>> /\ size = StartSize /\ refused = {}
  BY DEF ArenaInit
<1>2. CASE StartSize = 0
  BY <1>1, <1>2, InitAInv DEF RInv, Solid
<1>3. CASE StartSize # 0
  <2>1. StartSize > 0
    BY <1>3, ArenaAssumption
  <2>2. Positive(free)
    BY <1>1, <2>1 DEF Positive, Reg
  <2> QED BY <1>1, <2>2, InitAInv DEF RInv, Solid
<1> QED BY <1>2, <1>3

\* every step keeps the segments solid, until a null pointer is released
LEMMA NextRInv == RInv /\ [ArenaNext]_arenaVars => RInv'
<1> SUFFICES ASSUME RInv, [ArenaNext]_arenaVars
             PROVE  RInv'
  OBVIOUS
<1>1. AInv /\ AInv'
  BY NextAInv DEF RInv
<1>2. CASE nulled
  <2>1. nulled'
    BY <1>2 DEF ArenaNext, Release, DropNull, Allocate, AllocateFirstFit, AllocateFails,
                AllocateExtend, AllocateAtEnd, SetResizable, ArenaFinished, arenaVars
  <2> QED BY <1>1, <2>1 DEF RInv
<1>3. CASE refused = {} /\ Solid
  <2>1. ASSUME NEW s \in Slots, Release(s)
        PROVE  RInv'
    <3>1. CASE ptr[s].size = 0
      <4>1. nulled'
        BY <2>1, <3>1 DEF Release
      <4> QED BY <1>1, <4>1 DEF RInv
    <3>2. CASE ptr[s].size # 0
      BY <1>1, <1>3, <2>1, <3>2, ReleaseSolid DEF RInv
    <3> QED BY <3>1, <3>2
  <2>2. ASSUME NEW s \in Slots, NEW n \in Requests, Allocate(s, n)
        PROVE  RInv'
    BY <1>1, <1>3, <2>2, AllocateSolid DEF RInv
  <2>3. ASSUME NEW s \in Slots, DropNull(s)
        PROVE  RInv'
    BY <1>1, <1>3, <2>3 DEF DropNull, RInv, Solid, Positive
  <2>4. CASE SetResizable \/ ArenaFinished \/ UNCHANGED arenaVars
    BY <1>1, <1>3, <2>4 DEF SetResizable, ArenaFinished, arenaVars, RInv, Solid, Positive
  <2> QED BY <2>1, <2>2, <2>3, <2>4 DEF ArenaNext
<1> QED BY <1>2, <1>3 DEF RInv

\* release() refuses no region that is released once, for any holders and sizes,
\* until a null pointer has been released.
THEOREM NeverRefused == ArenaSpec => []ReleaseSucceeds
<1>1. RInv => ReleaseSucceeds
  BY DEF RInv, ReleaseSucceeds
<1> QED BY <1>1, InitRInv, NextRInv, PTL DEF ArenaSpec
=============================================================================
