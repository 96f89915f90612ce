------------------------- MODULE RenderObjectProofs -------------------------
(***************************************************************************)
(* Proofs about the handles of render objects, for any number of           *)
(* Renderers and any field widths that the created handles fit.            *)
(*                                                                         *)
(* While every handle came from create(), what the handles of the living   *)
(* Renderers and the free list say of the indices is inductive only        *)
(* together: create() takes its index from the list, so that no Renderer   *)
(* holds it needs that free indices are not held; destroy() puts it back,  *)
(* so that it is not there yet needs the same; and that destroy() accepts  *)
(* the handle needs that living handles have the current version, which    *)
(* the destruction of another Renderer leaves alone only because the       *)
(* indices of living Renderers differ.                                     *)
(***************************************************************************)
EXTENDS RenderObjectProps, SequenceTheorems, TLAPS

\* The fields of a handle have room for every index create() may return, and
\* for the version it starts with (22 and 10 bits in the code).
FieldsFit ==
  /\ 2 ^ IndexBits \in Nat
  /\ 2 ^ VersionBits \in Nat
  /\ MaxCreates + 1 <= 2 ^ IndexBits
  /\ 1 < 2 ^ VersionBits

-----------------------------------------------------------------------------
(* Compression *)

\* division rounds down
LEMMA DivBounds ==
  ASSUME NEW a \in Nat, NEW d \in Nat, d > 0
  PROVE  /\ a \div d \in Nat
         /\ d * (a \div d) <= a
         /\ a < d * (a \div d) + d
  BY Z3

\* a number below the divisor is its own remainder
LEMMA ModSmall ==
  ASSUME NEW a \in Nat, NEW d \in Nat, a < d
  PROVE  a % d = a
  BY Z3

\* a remainder is below the divisor
LEMMA ModRange ==
  ASSUME NEW a \in Nat, NEW d \in Nat, d > 0
  PROVE  a % d \in 0 .. d - 1 /\ a % d <= a
  BY Z3

\* A component below 1.0 is restored up to one step of the 16-bit scale
\* (compressFloat(), decompressFloat()), whatever the unit.
THEOREM RoundTrip ==
  ASSUME NEW n \in -Unit .. Unit - 1
  PROVE  /\ CompressFloat(n) \in Nat /\ CompressFloat(n) <= UINT16_MAX
         /\ Restores(CompressFloat(n), n)
<1> DEFINE a == (n + Unit) * UINT16_MAX
           d == 2 * Unit
           c == a \div d
<1>1. Unit \in Nat /\ Unit > 0
  BY UnitAssumption
<1>2. n + Unit \in Nat /\ n + Unit < d /\ d \in Nat /\ d > 0
  BY <1>1
<1>3. (n + Unit) % d = n + Unit
  <2> HIDE DEF d
  <2> QED BY <1>2, ModSmall
<1>4. a \in Nat
  BY <1>2 DEF UINT16_MAX
<1>5. c \in Nat /\ d * c <= a /\ a < d * c + d
  <2> HIDE DEF a, d
  <2> QED BY <1>2, <1>4, DivBounds
<1>6. CompressFloat(n) = c
  BY <1>3 DEF CompressFloat
<1>7. c <= UINT16_MAX
  <2>1. a <= d * UINT16_MAX
    BY <1>2 DEF UINT16_MAX
  <2>2. d * c <= d * UINT16_MAX
    <3> HIDE DEF c, a, d
    <3> QED BY <1>2, <1>4, <1>5, <2>1 DEF UINT16_MAX
  <2> HIDE DEF c, d
  <2> QED BY <1>2, <1>5, <2>2 DEF UINT16_MAX
<1>8. Restores(c, n)
  <2>1. n * UINT16_MAX - DecompressFloat(c) * Unit = a - d * c
    <3> HIDE DEF c
    <3> QED BY <1>1, <1>5 DEF DecompressFloat, UINT16_MAX
  <2>2. a - d * c \in 0 .. d - 1
    <3> HIDE DEF c, a, d
    <3> QED BY <1>2, <1>4, <1>5
  <2> QED BY <2>1, <2>2 DEF Restores
<1> HIDE DEF a, c, d
<1>9. CompressFloat(n) \in Nat /\ CompressFloat(n) <= UINT16_MAX
  BY <1>5, <1>6, <1>7
<1>10. Restores(CompressFloat(n), n)
  BY <1>6, <1>8, Zenon
<1> QED
  BY <1>9, <1>10

\* 1.0 itself is stored as 0, which stands for -1.0 (fmod(1.0, 1) is 0).
THEOREM OneIsLost == CompressFloat(Unit) = 0
<1>1. Unit \in Nat /\ Unit > 0
  BY UnitAssumption
<1>2. (Unit + Unit) % (2 * Unit) = 0
  BY <1>1, Z3
<1> QED
  BY <1>1, <1>2, Z3 DEF CompressFloat, UINT16_MAX

-----------------------------------------------------------------------------
(* Handles *)

\* the types of the handles
TypeOK ==
  /\ versions \in Seq(Versions)
  /\ freeList \in Seq(Indices)
  /\ alive \subseteq Renderers
  /\ handle \in [Renderers -> Handle]
  /\ creates \in 0 .. MaxCreates
  /\ foreign \in BOOLEAN

\* an index is used up per handle at most, one may have been there before
OnePerCreate == Len(versions) <= creates + 1

\* the free list holds indices that exist, each once
FreeExist == \A i \in DOMAIN freeList : freeList[i] < Len(versions)
FreeOnce  == \A i, j \in DOMAIN freeList : freeList[i] = freeList[j] => i = j

\* living handles are valid, and their indices differ from each other and from
\* the free ones
HeldValid  == \A r \in alive : IsValid(handle[r])
HeldOnce   == \A r, s \in alive : handle[r].idx = handle[s].idx => r = s
HeldNotFree == \A r \in alive : \A i \in DOMAIN freeList : freeList[i] # handle[r].idx

\* an index that is neither free nor held is 0 with the version 0
NoneLost ==
  \A k \in 0 .. Len(versions) - 1 :
    \/ \E i \in DOMAIN freeList : freeList[i] = k
    \/ \E r \in alive : handle[r].idx = k
    \/ k = 0 /\ versions[1] = 0

Handles == OnePerCreate /\ FreeExist /\ FreeOnce /\ HeldValid /\ HeldOnce /\ HeldNotFree /\ NoneLost

HInv == foreign \in BOOLEAN /\ (foreign \/ (TypeOK /\ Handles))

\* a fresh system, or one whose only index is free
LEMMA InitHInv == FieldsFit /\ Init => HInv
<1> SUFFICES ASSUME FieldsFit, Init
             PROVE  HInv
  OBVIOUS
<1> USE DEF FieldsFit, Versions, Indices, Handle, Zero
<1>1. PICK n \in Lives :
        /\ versions = IF n = 0 THEN <<>> ELSE <<(1 + n) % 2 ^ VersionBits>>
        /\ freeList = IF n = 0 THEN <<>> ELSE <<0>>
  BY DEF Init
<1>2. n \in Nat
  BY <1>1, HandleAssumption
<1>3. (1 + n) % 2 ^ VersionBits \in Versions
  BY <1>2, ModRange
<1>4. 0 \in Indices /\ 0 \in Versions
  BY HandleAssumption
<1>5. TypeOK
  <2>1. versions \in Seq(Versions) /\ freeList \in Seq(Indices)
    <3>1. CASE n = 0
      BY <1>1, <3>1
    <3>2. CASE n # 0
      <4> HIDE DEF Versions, Indices
      <4> QED BY <1>1, <1>3, <1>4, <3>2
    <3> QED BY <3>1, <3>2
  <2>2. handle \in [Renderers -> Handle] /\ creates \in 0 .. MaxCreates
    BY <1>4, HandleAssumption DEF Init
  <2> QED
    BY <2>1, <2>2 DEF Init, TypeOK
<1>6. ASSUME n = 0 PROVE Handles
  <2>1. versions = <<>> /\ freeList = <<>> /\ alive = {} /\ creates = 0
    BY <1>1, <1>6 DEF Init
  <2>2. Len(versions) = 0 /\ DOMAIN freeList = {} /\ 0 .. Len(versions) - 1 = {}
    BY <2>1
  <2> QED
    BY <2>1, <2>2 DEF Handles, OnePerCreate, FreeExist, FreeOnce, HeldValid, HeldOnce,
                      HeldNotFree, NoneLost
<1>7. ASSUME n # 0 PROVE Handles
  <2>1. Len(versions) = 1 /\ freeList = <<0>> /\ alive = {} /\ creates = 0
    BY <1>1, <1>7 DEF Init
  <2>2. DOMAIN freeList = {1} /\ freeList[1] = 0 /\ 0 .. Len(versions) - 1 = {0}
    BY <2>1
  <2> QED
    BY <2>1, <2>2 DEF Handles, OnePerCreate, FreeExist, FreeOnce, HeldValid, HeldOnce,
                      HeldNotFree, NoneLost
<1>8. Handles
  BY <1>6, <1>7
<1> QED
  BY <1>5, <1>8 DEF HInv, TypeOK

\* create() takes the last index of the free list, which shrinks by it
LEMMA ReusedFacts ==
  ASSUME FieldsFit, TypeOK, FreeExist, NEW r \in Renderers, CreateReused(r),
         NEW n, n = Len(freeList), NEW k, k = freeList[n]
  PROVE  /\ n \in Nat /\ n # 0 /\ k \in Indices /\ k \in Nat /\ k < Len(versions)
         /\ freeList' \in Seq(Indices)
         /\ Len(freeList') = n - 1
         /\ \A i \in 1 .. n - 1 : freeList'[i] = freeList[i]
         /\ handle' = [handle EXCEPT ![r] = [idx |-> k, ver |-> versions[k + 1]]]
         /\ handle' \in [Renderers -> Handle]
         /\ versions' = versions /\ transforms' = transforms
<1> USE DEF TypeOK
<1>1. n \in Nat /\ n # 0 /\ k \in Indices
  BY DEF CreateReused
<1>2. /\ freeList' \in Seq(Indices)
      /\ Len(freeList') = n - 1
      /\ \A i \in 1 .. n - 1 : freeList'[i] = freeList[i]
  <2>1. freeList' = SubSeq(freeList, 1, n - 1)
    BY DEF CreateReused, Front
  <2>2. \A i \in 1 .. n - 1 : freeList[i] \in Indices
    BY <1>1
  <2>3. /\ SubSeq(freeList, 1, n - 1) \in Seq(Indices)
        /\ Len(SubSeq(freeList, 1, n - 1)) = IF 1 <= n - 1 THEN n - 1 - 1 + 1 ELSE 0
        /\ \A i \in 1 .. n - 1 - 1 + 1 : SubSeq(freeList, 1, n - 1)[i] = freeList[1 + i - 1]
    BY <1>1, <2>2, SubSeqProperties
  <2>4. \A i \in 1 .. n - 1 : 1 + i - 1 = i /\ i \in 1 .. n - 1 - 1 + 1
    BY <1>1
  <2>5. (IF 1 <= n - 1 THEN n - 1 - 1 + 1 ELSE 0) = n - 1
    BY <1>1
  <2> QED
    BY <2>1, <2>3, <2>4, <2>5
<1>3. k < Len(versions) /\ k \in Nat
  BY <1>1, HandleAssumption DEF FreeExist, Indices
<1>4. /\ handle' = [handle EXCEPT ![r] = [idx |-> k, ver |-> versions[k + 1]]]
      /\ versions' = versions /\ transforms' = transforms
  BY DEF CreateReused, Last, VersionAt
<1>5. versions[k + 1] \in Versions
  BY <1>3
<1>6. handle' \in [Renderers -> Handle]
  BY <1>1, <1>4, <1>5 DEF Handle
<1> QED
  BY <1>1, <1>2, <1>3, <1>4, <1>6

\* create() with an index from the free list
LEMMA ReusedInv ==
  ASSUME FieldsFit, TypeOK, Handles, NEW r \in Renderers \ alive,
         creates < MaxCreates, CreateReused(r),
         alive' = alive \cup {r}, creates' = creates + 1, foreign' \in BOOLEAN
  PROVE  TypeOK' /\ Handles'
<1> USE DEF TypeOK
<1> DEFINE n == Len(freeList)
           k == freeList[n]
<1>0. FreeExist
  BY DEF Handles
<1>1. n \in Nat /\ n # 0 /\ k \in Indices
  BY <1>0, ReusedFacts
<1>2. /\ freeList' \in Seq(Indices)
      /\ Len(freeList') = n - 1
      /\ \A i \in 1 .. n - 1 : freeList'[i] = freeList[i]
  BY <1>0, ReusedFacts
<1>3. k < Len(versions) /\ k \in Nat
  BY <1>0, ReusedFacts
<1>4. /\ handle' = [handle EXCEPT ![r] = [idx |-> k, ver |-> versions[k + 1]]]
      /\ handle' \in [Renderers -> Handle]
      /\ versions' = versions
  BY <1>0, ReusedFacts
<1>6. TypeOK'
  BY <1>2, <1>4, HandleAssumption
<1>7. /\ handle'[r].idx = k
      /\ handle'[r].ver = versions[k + 1]
      /\ \A s \in alive : s # r /\ handle'[s] = handle[s]
  BY <1>4
<1>8. OnePerCreate' /\ FreeExist' /\ FreeOnce'
  <2>1. DOMAIN freeList' = 1 .. n - 1
    BY <1>1, <1>2
  <2>2. \A i \in 1 .. n - 1 : i \in DOMAIN freeList
    BY <1>1
  <2>3. FreeExist'
    BY <1>2, <1>4, <2>1, <2>2 DEF Handles, FreeExist
  <2>4. FreeOnce'
    BY <1>2, <2>1, <2>2 DEF Handles, FreeOnce
  <2>5. OnePerCreate'
    BY <1>4, HandleAssumption DEF Handles, OnePerCreate
  <2> QED
    BY <2>3, <2>4, <2>5
<1>9. HeldValid'
  BY <1>3, <1>4, <1>7 DEF Handles, HeldValid, IsValid, VersionAt
<1>10. HeldOnce'
  BY <1>1, <1>7 DEF Handles, HeldOnce, HeldNotFree
<1>11. HeldNotFree'
  BY <1>1, <1>2, <1>7 DEF Handles, FreeOnce, HeldNotFree
<1>12. NoneLost'
  <2> SUFFICES ASSUME NEW j \in 0 .. Len(versions) - 1
               PROVE  \/ \E i \in DOMAIN freeList' : freeList'[i] = j
                      \/ \E s \in alive' : handle'[s].idx = j
                      \/ j = 0 /\ versions[1] = 0
    BY <1>4 DEF NoneLost
  <2>1. CASE j = k
    BY <1>7, <2>1
  <2>2. CASE \E i \in DOMAIN freeList : freeList[i] = j /\ j # k
    <3>1. PICK i \in 1 .. n : freeList[i] = j /\ j # k
      BY <2>2
    <3>2. i # n /\ i \in 1 .. n - 1
      BY <1>1, <3>1
    <3> QED BY <1>1, <1>2, <3>1, <3>2
  <2>3. CASE \E s \in alive : handle[s].idx = j
    BY <1>7, <2>3
  <2> HIDE DEF n, k
  <2> QED
    BY <2>1, <2>2, <2>3 DEF Handles, NoneLost
<1> QED
  BY <1>6, <1>8, <1>9, <1>10, <1>11, <1>12 DEF Handles

\* create() with a new index, the one behind the last
LEMMA NewFacts ==
  ASSUME FieldsFit, TypeOK, OnePerCreate, creates < MaxCreates,
         NEW r \in Renderers, CreateNew(r), NEW n \in Nat, n = Len(versions)
  PROVE  /\ n < 2 ^ IndexBits
         /\ versions' \in Seq(Versions)
         /\ Len(versions') = n + 1
         /\ \A i \in 1 .. n : versions'[i] = versions[i]
         /\ versions'[n + 1] = 1
         /\ handle' = [handle EXCEPT ![r] = [idx |-> n, ver |-> 1]]
         /\ handle' \in [Renderers -> Handle]
         /\ freeList = <<>> /\ freeList' = <<>>
<1> USE DEF TypeOK
<1>1. n \in Nat /\ n < 2 ^ IndexBits /\ n % 2 ^ IndexBits = n
  <2>1. n \in Nat /\ n < 2 ^ IndexBits
    BY HandleAssumption DEF FieldsFit, OnePerCreate
  <2> QED
    BY <2>1, ModSmall DEF FieldsFit
<1>2. n \in Indices /\ 1 \in Versions
  BY <1>1 DEF FieldsFit, Indices, Versions
<1>3. /\ versions' \in Seq(Versions)
      /\ Len(versions') = n + 1
      /\ \A i \in 1 .. n : versions'[i] = versions[i]
      /\ versions'[n + 1] = 1
  BY <1>2, AppendProperties DEF CreateNew
<1>4. /\ handle' = [handle EXCEPT ![r] = [idx |-> n, ver |-> 1]]
      /\ freeList = <<>> /\ freeList' = <<>>
  BY <1>1 DEF CreateNew
<1>5. handle' \in [Renderers -> Handle]
  BY <1>2, <1>4 DEF Handle
<1> QED
  BY <1>1, <1>3, <1>4, <1>5

\* create() with a new index, which fits its bit field
LEMMA NewInv ==
  ASSUME FieldsFit, TypeOK, Handles, NEW r \in Renderers \ alive,
         creates < MaxCreates, CreateNew(r),
         alive' = alive \cup {r}, creates' = creates + 1, foreign' \in BOOLEAN
  PROVE  TypeOK' /\ Handles'
<1> DEFINE n == Len(versions)
<1>0. OnePerCreate
  BY DEF Handles
<1>1. n \in Nat
  BY DEF TypeOK
<1>3. /\ versions' \in Seq(Versions)
      /\ Len(versions') = n + 1
      /\ \A i \in 1 .. n : versions'[i] = versions[i]
      /\ versions'[n + 1] = 1
  BY <1>0, <1>1, NewFacts
<1>4. /\ handle' = [handle EXCEPT ![r] = [idx |-> n, ver |-> 1]]
      /\ handle' \in [Renderers -> Handle]
      /\ freeList = <<>> /\ freeList' = <<>>
  BY <1>0, <1>1, NewFacts
<1> USE DEF TypeOK
<1>5. TypeOK'
  BY <1>3, <1>4, HandleAssumption
<1>6. /\ handle'[r].idx = n
      /\ handle'[r].ver = 1
      /\ \A s \in alive : s # r /\ handle'[s] = handle[s] /\ handle[s].idx < n
  BY <1>4 DEF Handles, HeldValid, IsValid
<1>7. \A s \in alive : handle[s].idx \in Nat
  BY HandleAssumption DEF Handle, Indices
<1>8. OnePerCreate' /\ FreeExist' /\ FreeOnce' /\ HeldNotFree'
  BY <1>1, <1>3, <1>4, HandleAssumption DEF Handles, OnePerCreate, FreeExist, FreeOnce, HeldNotFree
<1>9. HeldValid'
  <2> SUFFICES ASSUME NEW s \in alive'
               PROVE  IsValid(handle[s])'
    BY DEF HeldValid
  <2>1. CASE s = r
    BY <1>1, <1>3, <1>6, <2>1 DEF IsValid, VersionAt
  <2>2. CASE s # r
    <3>1. s \in alive /\ handle[s].idx \in Nat /\ handle[s].idx < n /\ handle'[s] = handle[s]
      BY <1>6, <1>7, <2>2
    <3>2. handle[s].ver = versions[handle[s].idx + 1]
      BY <3>1 DEF Handles, HeldValid, IsValid, VersionAt
    <3>3. versions'[handle[s].idx + 1] = versions[handle[s].idx + 1]
      <4>1. handle[s].idx + 1 \in 1 .. n
        BY <1>1, <3>1
      <4> HIDE DEF n
      <4> QED BY <1>3, <4>1
    <3>4. handle[s].idx < Len(versions')
      BY <1>1, <1>3, <3>1
    <3> QED
      BY <3>1, <3>2, <3>3, <3>4 DEF IsValid, VersionAt
  <2> QED
    BY <2>1, <2>2
<1>10. HeldOnce'
  BY <1>1, <1>6, <1>7 DEF Handles, HeldOnce
<1>11. NoneLost'
  <2> SUFFICES ASSUME NEW j \in 0 .. n
               PROVE  \/ \E s \in alive' : handle'[s].idx = j
                      \/ j = 0 /\ versions'[1] = 0
    BY <1>1, <1>3 DEF NoneLost
  <2>1. CASE j = n
    BY <1>6, <2>1
  <2>2. CASE j # n
    BY <1>1, <1>3, <1>4, <1>6, <2>2 DEF Handles, NoneLost
  <2> QED
    BY <2>1, <2>2
<1> QED
  BY <1>5, <1>8, <1>9, <1>10, <1>11 DEF Handles

\* destroy() with a valid handle: its version moves on, its index is free
LEMMA DestroyFacts ==
  ASSUME FieldsFit, TypeOK, NEW h \in Handle, IsValid(h), DestroyHandle(h)
  PROVE  /\ versions' = [versions EXCEPT ![h.idx + 1] = (@ + 1) % 2 ^ VersionBits]
         /\ versions' \in Seq(Versions)
         /\ Len(versions') = Len(versions)
         /\ \A j \in 1 .. Len(versions) : j # h.idx + 1 => versions'[j] = versions[j]
         /\ versions'[h.idx + 1] = (versions[h.idx + 1] + 1) % 2 ^ VersionBits
         /\ freeList' \in Seq(Indices)
         /\ Len(freeList') = Len(freeList) + 1
         /\ \A i \in 1 .. Len(freeList) : freeList'[i] = freeList[i]
         /\ freeList'[Len(freeList) + 1] = h.idx
<1> USE DEF TypeOK
<1> DEFINE k == h.idx
           n == Len(versions)
<1>1. k \in Nat /\ k \in Indices /\ k < n /\ n \in Nat
  BY HandleAssumption DEF IsValid, Handle, Indices
<1>2. /\ versions' = [versions EXCEPT ![k + 1] = (@ + 1) % 2 ^ VersionBits]
      /\ freeList' = Append(freeList, k)
  BY DEF DestroyHandle
<1>3. (versions[k + 1] + 1) % 2 ^ VersionBits \in Versions
  <2>1. versions[k + 1] \in Versions
    BY <1>1
  <2>2. versions[k + 1] + 1 \in Nat /\ 2 ^ VersionBits \in Nat /\ 2 ^ VersionBits > 0
    BY <2>1 DEF Versions, FieldsFit
  <2>3. (versions[k + 1] + 1) % 2 ^ VersionBits \in 0 .. 2 ^ VersionBits - 1
    BY <2>2, ModRange
  <2> QED
    BY <2>3 DEF Versions
<1>4. /\ versions' \in Seq(Versions)
      /\ Len(versions') = n
      /\ \A j \in 1 .. n : j # k + 1 => versions'[j] = versions[j]
  BY <1>1, <1>2, <1>3, ExceptSeq
<1>5. versions'[k + 1] = (versions[k + 1] + 1) % 2 ^ VersionBits
  BY <1>1, <1>2
<1>6. /\ freeList' \in Seq(Indices)
      /\ Len(freeList') = Len(freeList) + 1
      /\ \A i \in 1 .. Len(freeList) : freeList'[i] = freeList[i]
      /\ freeList'[Len(freeList) + 1] = k
  BY <1>1, <1>2, AppendProperties
<1> QED
  BY <1>2, <1>4, <1>5, <1>6

\* a destroyed handle's index is free and its version newer
LEMMA DestructInv ==
  ASSUME FieldsFit, TypeOK, Handles, NEW r \in alive, Destruct(r)
  PROVE  TypeOK' /\ Handles'
<1> USE DEF TypeOK
<1> DEFINE h == handle[r]
           k == handle[r].idx
           n == Len(versions)
<1>1. r \in Renderers /\ h \in Handle /\ k \in Nat /\ k \in Indices /\ k < n /\ n \in Nat
  BY HandleAssumption DEF Handles, HeldValid, IsValid, Handle, Indices
<1>2. /\ alive' = alive \ {r}
      /\ handle' = [handle EXCEPT ![r] = Zero]
      /\ creates' = creates /\ foreign' = foreign
  BY DEF Destruct
<1>3. \A s \in alive' : s \in alive /\ s # r /\ handle'[s] = handle[s] /\ handle[s].idx # k
  BY <1>1, <1>2 DEF Handles, HeldOnce
<1>4. 0 \in Indices /\ 0 \in Versions /\ Zero \in Handle
  BY DEF FieldsFit, Indices, Versions, Handle, Zero
<1>5. CASE h = Zero
  <2>1. versions' = versions /\ freeList' = freeList
    BY <1>5 DEF Destruct
  <2>2. k = 0 /\ versions[1] = 0
    BY <1>5 DEF Zero, Handles, HeldValid, IsValid, VersionAt
  <2>3. TypeOK'
    BY <1>1, <1>2, <1>4, <2>1
  <2>4. OnePerCreate' /\ FreeExist' /\ FreeOnce'
    BY <1>2, <2>1 DEF Handles, OnePerCreate, FreeExist, FreeOnce
  <2>5. HeldValid' /\ HeldOnce' /\ HeldNotFree'
    BY <1>3, <2>1 DEF Handles, HeldValid, HeldOnce, HeldNotFree, IsValid, VersionAt
  <2>6. NoneLost'
    BY <1>3, <1>2, <2>1, <2>2 DEF Handles, NoneLost
  <2> QED
    BY <2>3, <2>4, <2>5, <2>6 DEF Handles
<1>6. CASE h # Zero
  <2>1. IsValid(h)
    BY DEF Handles, HeldValid
  <2>2. DestroyHandle(h)
    BY <1>6 DEF Destruct
  <2>4. /\ versions' \in Seq(Versions)
        /\ Len(versions') = n
        /\ \A j \in 1 .. n : j # k + 1 => versions'[j] = versions[j]
    BY <1>1, <2>1, <2>2, DestroyFacts
  <2>5. /\ freeList' \in Seq(Indices)
        /\ Len(freeList') = Len(freeList) + 1
        /\ \A i \in 1 .. Len(freeList) : freeList'[i] = freeList[i]
        /\ freeList'[Len(freeList) + 1] = k
    BY <1>1, <2>1, <2>2, DestroyFacts
  <2>6. TypeOK'
    BY <1>1, <1>2, <1>4, <2>4, <2>5
  <2>7. \A i \in 1 .. Len(freeList) : freeList[i] # k
    BY DEF Handles, HeldNotFree
  <2>8. OnePerCreate' /\ FreeExist' /\ FreeOnce'
    <3> DEFINE m == Len(freeList)
    <3>1. m \in Nat /\ DOMAIN freeList = 1 .. m /\ DOMAIN freeList' = 1 .. m + 1
      BY <2>5
    <3>2. \A i \in 1 .. m + 1 : i \in 1 .. m \/ i = m + 1
      BY <3>1
    <3>3. OnePerCreate'
      BY <1>2, <2>4 DEF Handles, OnePerCreate
    <3> HIDE DEF m, k
    <3>4. FreeExist'
      BY <1>1, <2>4, <2>5, <3>1, <3>2 DEF Handles, FreeExist, m
    <3>5. FreeOnce'
      BY <2>5, <2>7, <3>1, <3>2 DEF Handles, FreeOnce, m
    <3> QED
      BY <3>3, <3>4, <3>5
  <2>9. \A s \in alive' : handle[s].idx \in 0 .. n - 1
    BY <1>1, <1>3, HandleAssumption DEF Handles, HeldValid, IsValid, Handle, Indices
  <2>10. HeldValid' /\ HeldOnce'
    <3>1. HeldOnce'
      BY <1>3 DEF Handles, HeldOnce
    <3>2. ASSUME NEW s \in alive'
          PROVE  IsValid(handle[s])'
      <4>1. handle[s].idx + 1 \in 1 .. n /\ handle[s].idx + 1 # k + 1
        BY <1>1, <1>3, <2>9
      <4>2. versions'[handle[s].idx + 1] = versions[handle[s].idx + 1]
        BY <2>4, <4>1
      <4>3. IsValid(handle[s])
        BY <1>3 DEF Handles, HeldValid
      <4> QED
        BY <1>3, <2>4, <4>2, <4>3 DEF IsValid, VersionAt
    <3> QED
      BY <3>1, <3>2 DEF HeldValid
  <2>11. HeldNotFree'
    BY <1>3, <2>5 DEF Handles, HeldNotFree
  <2>12. NoneLost'
    <3> SUFFICES ASSUME NEW j \in 0 .. n - 1
                 PROVE  \/ \E i \in DOMAIN freeList' : freeList'[i] = j
                        \/ \E s \in alive' : handle'[s].idx = j
                        \/ j = 0 /\ versions'[1] = 0
      BY <2>4 DEF NoneLost
    <3>1. CASE j = k
      BY <2>5, <3>1
    <3>2. CASE j # k /\ \E i \in DOMAIN freeList : freeList[i] = j
      BY <2>5, <3>2
    <3>3. CASE j # k /\ \E s \in alive : handle[s].idx = j
      BY <1>2, <1>3, <3>3
    <3>4. CASE j # k /\ j = 0 /\ versions[1] = 0
      BY <1>1, <2>4, <3>4
    <3> QED
      BY <3>1, <3>2, <3>3, <3>4 DEF Handles, NoneLost
  <2> QED
    BY <2>6, <2>8, <2>10, <2>11, <2>12 DEF Handles
<1> QED
  BY <1>5, <1>6

\* steps that leave the handles alone
LEMMA KeepsHandles ==
  ASSUME TypeOK, Handles,
         UNCHANGED <<versions, freeList, alive, handle, creates, foreign>>
  PROVE  TypeOK' /\ Handles'
  BY DEF TypeOK, Handles, OnePerCreate, FreeExist, FreeOnce, HeldValid, HeldOnce, HeldNotFree,
         NoneLost, IsValid, VersionAt

\* every step keeps the invariant
LEMMA NextHInv == FieldsFit /\ HInv /\ [Next]_vars => HInv'
<1> SUFFICES ASSUME FieldsFit, HInv, [Next]_vars
             PROVE  HInv'
  OBVIOUS
<1>1. foreign' \in BOOLEAN /\ (foreign => foreign')
  BY DEF HInv, Next, vars, Construct, ConstructDefault, Copy, SetObject, Reupload, Destruct, Finished
<1>2. SUFFICES ASSUME ~foreign, ~foreign'
               PROVE  TypeOK' /\ Handles'
  BY <1>1 DEF HInv
<1>3. TypeOK /\ Handles
  BY <1>2 DEF HInv
<1>4. ASSUME NEW r \in Renderers, Construct(r)
      PROVE  TypeOK' /\ Handles'
  BY <1>1, <1>3, <1>4, ReusedInv, NewInv DEF Construct
<1>5. ASSUME NEW r \in Renderers, Destruct(r)
      PROVE  TypeOK' /\ Handles'
  BY <1>3, <1>5, DestructInv DEF Destruct
<1>6. ASSUME NEW r \in Renderers, NEW rot \in Rotations, SetObject(r, rot) \/ Reupload(r, rot)
      PROVE  TypeOK' /\ Handles'
  BY <1>3, <1>6, KeepsHandles DEF SetObject, Reupload
<1>7. CASE Finished \/ UNCHANGED vars
  BY <1>3, <1>7, KeepsHandles DEF Finished, vars
<1>8. ASSUME NEW r \in Renderers, NEW c \in Renderers, ConstructDefault(r) \/ Copy(r, c)
      PROVE  FALSE
  BY <1>2, <1>8 DEF ConstructDefault, Copy
<1> QED
  BY <1>4, <1>5, <1>6, <1>7, <1>8 DEF Next

\* Free and held indices partition the ones that exist, but for a lost 0, as
\* long as every handle came from create(): any number of Renderers.
THEOREM HandlesInvariant ==
  ASSUME FieldsFit
  PROVE  Spec => []HInv
<1>1. Init => HInv
  BY InitHInv
<1>2. HInv /\ [Next]_vars => HInv'
  BY NextHInv
<1> QED
  BY <1>1, <1>2, PTL DEF Spec

\* Renderers that are alive together hold valid handles with different indices.
THEOREM LiveDiffer ==
  ASSUME FieldsFit
  PROVE  Spec => []LiveHandlesDiffer
<1>1. HInv => LiveHandlesDiffer
  BY DEF HInv, LiveHandlesDiffer, Handles, HeldValid, HeldOnce
<1> QED
  BY <1>1, HandlesInvariant, PTL

\* An index is free or held, and only 0 is ever lost, at a wrap of its version.
THEOREM FreeOrHeld ==
  ASSUME FieldsFit
  PROVE  Spec => []IndexFreeOrHeld
<1>1. HInv => IndexFreeOrHeld
  <2> SUFFICES ASSUME TypeOK, Handles
               PROVE  /\ FreeOnce
                      /\ FreeIndices \cap HeldIndices = {}
                      /\ (0 .. Len(versions) - 1) \ (FreeIndices \cup HeldIndices) \subseteq Unreturned
    BY DEF HInv, IndexFreeOrHeld, FreeOnce
  <2>1. FreeIndices \cap HeldIndices = {}
    BY DEF Handles, HeldNotFree, FreeIndices, HeldIndices
  <2>2. ASSUME NEW k \in 0 .. Len(versions) - 1, k \notin FreeIndices, k \notin HeldIndices
        PROVE  k \in Unreturned
    <3>1. k = 0 /\ versions[1] = 0
      BY <2>2 DEF Handles, NoneLost, FreeIndices, HeldIndices
    <3>2. versions # <<>>
      BY <2>2, <3>1 DEF TypeOK
    <3> QED
      BY <3>1, <3>2 DEF Unreturned, VersionAt
  <2> QED
    BY <2>1, <2>2 DEF Handles
<1> QED
  BY <1>1, HandlesInvariant, PTL

\* The two together: an index that exists belongs to one living Renderer, is free
\* once, or is the 0 that a wrap lost.
THEOREM HandlesOwn ==
  ASSUME FieldsFit
  PROVE  Spec => []HandlesAreOwn
<1> QED
  BY LiveDiffer, FreeOrHeld, PTL DEF HandlesAreOwn

\* As long as every handle came from create(), indices, versions and the free
\* list fit their bit fields.
THEOREM HandleTypes ==
  ASSUME FieldsFit
  PROVE  Spec => [](foreign \/ TypeOK)
<1>1. HInv => foreign \/ TypeOK
  BY DEF HInv
<1> QED
  BY <1>1, HandlesInvariant, PTL

-----------------------------------------------------------------------------
(* Copies and default constructed Renderers                                *)
(*                                                                         *)
(* Once Renderers are copied, HInv says nothing.  What is left is about the *)
(* age of a handle: how often its index was destroyed since create()       *)
(* returned it.  Each time needs a create() of its own, so that as long as *)
(* fewer handles are created than there are versions the version of a free *)
(* index has not come back to one that some copy still holds.              *)

\* the version of h's index is d steps ahead of h's, round the wrap at most once
Behind(h, d) ==
  \/ versions[h.idx + 1] = h.ver + d
  \/ versions[h.idx + 1] = h.ver + d - 2 ^ VersionBits

IsFree(i) == \E j \in DOMAIN freeList : freeList[j] = i

\* a free index is at least one step ahead; one that is not has used at least
\* one create() more
Aged(h) ==
  /\ h.idx < Len(versions)
  /\ \E d \in 0 .. creates : /\ Behind(h, d)
                             /\ IsFree(h.idx) => d # 0
                             /\ d = creates => IsFree(h.idx)

\* a handle is 0 or ages; a Renderer that is not constructed has the handle 0
HandlesAge ==
  \A r \in Renderers, h \in Handle \ {Zero} : handle[r] = h => r \in alive /\ Aged(h)

FInv == TypeOK /\ OnePerCreate /\ FreeExist /\ FreeOnce /\ HandlesAge

\* a copy lives only as long as its version has not come round
VersionsLast == MaxCreates < 2 ^ VersionBits

LEMMA InitFInv == FieldsFit /\ Init => FInv
<1> SUFFICES ASSUME FieldsFit, Init
             PROVE  FInv
  OBVIOUS
<1>1. HInv /\ ~foreign
  BY InitHInv DEF Init
<1>2. \A r \in Renderers : handle[r] = Zero
  BY DEF Init
<1> QED
  BY <1>1, <1>2 DEF HInv, Handles, FInv, HandlesAge

\* the index of a valid handle other than 0 is not free
LEMMA ValidIsHeld ==
  ASSUME FieldsFit, VersionsLast, TypeOK, NEW h \in Handle, Aged(h), IsValid(h)
  PROVE  ~IsFree(h.idx)
<1>1. PICK d \in 0 .. creates : Behind(h, d) /\ (IsFree(h.idx) => d # 0)
  BY DEF Aged
<1>2. versions[h.idx + 1] = h.ver /\ h.ver \in Nat
  BY DEF IsValid, VersionAt, Handle, Versions, FieldsFit
<1>3. creates \in Nat /\ creates < 2 ^ VersionBits /\ 2 ^ VersionBits \in Nat
  BY HandleAssumption DEF TypeOK, VersionsLast, FieldsFit
<1>4. d = 0
  BY <1>1, <1>2, <1>3 DEF Behind
<1> QED
  BY <1>1, <1>4

\* a handle keeps its age when its index keeps its version and stays free or not
LEMMA StaysAged ==
  ASSUME NEW h, Aged(h), creates' = creates, h.idx < Len(versions'),
         versions'[h.idx + 1] = versions[h.idx + 1],
         IsFree(h.idx)' <=> IsFree(h.idx)
  PROVE  Aged(h)'
  BY DEF Aged, Behind

\* an index that is created is not free, and every handle a create() older
LEMMA CreatedAge ==
  ASSUME TypeOK, creates' = creates + 1, NEW h, Aged(h), h.idx < Len(versions'),
         versions'[h.idx + 1] = versions[h.idx + 1],
         IsFree(h.idx)' => IsFree(h.idx)
  PROVE  Aged(h)'
<1>1. PICK d \in 0 .. creates : Behind(h, d) /\ (IsFree(h.idx) => d # 0)
  BY DEF Aged
<1>2. creates \in Nat /\ d \in 0 .. creates' /\ d # creates'
  BY HandleAssumption DEF TypeOK
<1>3. Behind(h, d)'
  BY <1>1 DEF Behind
<1> QED
  BY <1>1, <1>2, <1>3 DEF Aged

\* what create() returns is new
LEMMA NewbornAge ==
  ASSUME creates \in Nat, creates' = creates + 1, NEW h \in [idx : Nat, ver : Nat],
         h.idx < Len(versions'), versions'[h.idx + 1] = h.ver, ~IsFree(h.idx)'
  PROVE  Aged(h)'
<1>1. 0 \in 0 .. creates' /\ 0 # creates'
  OBVIOUS
<1>2. Behind(h, 0)'
  BY DEF Behind
<1> QED
  BY <1>1, <1>2 DEF Aged

\* create() with an index from the free list
LEMMA ReusedFInv ==
  ASSUME FieldsFit, FInv, NEW r \in Renderers \ alive, creates < MaxCreates, CreateReused(r),
         alive' = alive \cup {r}, creates' = creates + 1, foreign' = foreign
  PROVE  FInv'
<1> DEFINE n == Len(freeList)
           k == freeList[n]
<1>0. TypeOK /\ FreeExist /\ FreeOnce /\ OnePerCreate
  BY DEF FInv
<1>1. n \in Nat /\ n # 0 /\ k \in Indices /\ k \in Nat /\ k < Len(versions)
  BY <1>0, ReusedFacts
<1>2. /\ freeList' \in Seq(Indices)
      /\ Len(freeList') = n - 1
      /\ \A i \in 1 .. n - 1 : freeList'[i] = freeList[i]
  BY <1>0, ReusedFacts
<1>3. /\ handle' = [handle EXCEPT ![r] = [idx |-> k, ver |-> versions[k + 1]]]
      /\ handle' \in [Renderers -> Handle]
      /\ versions' = versions
  BY <1>0, ReusedFacts
<1>4. handle \in [Renderers -> Handle] /\ creates \in Nat /\ creates' \in 0 .. MaxCreates
  BY <1>0, HandleAssumption DEF TypeOK
<1>5. TypeOK'
  BY <1>0, <1>2, <1>3, <1>4 DEF TypeOK
<1>6. DOMAIN freeList = 1 .. n /\ DOMAIN freeList' = 1 .. n - 1
  BY <1>0, <1>2 DEF TypeOK
<1>7. \A i \in DOMAIN freeList' : i \in DOMAIN freeList /\ i # n /\ freeList'[i] = freeList[i]
  <2> HIDE DEF n
  <2> QED BY <1>1, <1>2, <1>6
<1>8. FreeExist' /\ FreeOnce' /\ OnePerCreate'
  <2>1. FreeExist' /\ FreeOnce'
    BY <1>0, <1>3, <1>7 DEF FreeExist, FreeOnce
  <2>2. OnePerCreate'
    BY <1>0, <1>3, <1>4 DEF OnePerCreate, TypeOK
  <2> QED
    BY <2>1, <2>2
<1>9. \A i \in Indices : IsFree(i)' => IsFree(i)
  BY <1>7 DEF IsFree
<1>10. \A j \in DOMAIN freeList' : freeList'[j] # k
  <2> n \in DOMAIN freeList
    BY <1>1, <1>6
  <2> QED
    BY <1>0, <1>7 DEF FreeOnce
<1>11. ASSUME NEW s \in Renderers, NEW h \in Handle \ {Zero}, handle'[s] = h
       PROVE  s \in alive' /\ Aged(h)'
  <2>0. h \in [idx : Nat, ver : Nat] /\ h.idx \in Indices
    BY HandleAssumption DEF Handle, Indices, Versions
  <2>1. CASE s = r
    <3>1. h = [idx |-> k, ver |-> versions[k + 1]]
      BY <1>3, <1>4, <1>11, <2>1
    <3> HIDE DEF k
    <3>2. h.idx = k /\ h.ver = versions'[k + 1]
      BY <1>3, <3>1
    <3>3. ~IsFree(h.idx)' /\ h.idx < Len(versions')
      BY <1>1, <1>3, <1>10, <3>2 DEF IsFree
    <3>4. Aged(h)'
      BY <1>4, <2>0, <3>2, <3>3, NewbornAge
    <3> QED
      BY <2>1, <3>4
  <2>2. CASE s # r
    <3>1. handle[s] = h
      BY <1>3, <1>4, <1>11, <2>2
    <3>2. s \in alive /\ Aged(h)
      BY <1>11, <3>1 DEF FInv, HandlesAge
    <3>3. h.idx < Len(versions') /\ (IsFree(h.idx)' => IsFree(h.idx)) /\ versions' = versions
      BY <1>3, <1>9, <2>0, <3>2 DEF Aged
    <3>4. Aged(h)'
      BY <1>0, <3>2, <3>3, CreatedAge
    <3> QED
      BY <3>2, <3>4
  <2> QED
    BY <2>1, <2>2
<1>12. HandlesAge'
  BY <1>11 DEF HandlesAge
<1> QED
  BY <1>5, <1>8, <1>12 DEF FInv

\* create() with a new index
LEMMA NewFInv ==
  ASSUME FieldsFit, FInv, NEW r \in Renderers \ alive, creates < MaxCreates, CreateNew(r),
         alive' = alive \cup {r}, creates' = creates + 1, foreign' = foreign
  PROVE  FInv'
<1>0. TypeOK /\ OnePerCreate
  BY DEF FInv
<1>n. PICK n \in Nat : n = Len(versions)
  BY <1>0 DEF TypeOK
<1>1. r \in Renderers
  OBVIOUS
<1>2. /\ n < 2 ^ IndexBits
      /\ versions' \in Seq(Versions)
      /\ Len(versions') = n + 1
      /\ \A i \in 1 .. n : versions'[i] = versions[i]
      /\ versions'[n + 1] = 1
  BY <1>0, <1>n, <1>1, NewFacts
<1>3. /\ handle' = [handle EXCEPT ![r] = [idx |-> n, ver |-> 1]]
      /\ handle' \in [Renderers -> Handle]
      /\ freeList = <<>> /\ freeList' = <<>>
  BY <1>0, <1>n, <1>1, NewFacts
<1>4. creates \in Nat /\ creates' \in 0 .. MaxCreates
  BY <1>0, HandleAssumption DEF TypeOK
<1>5. TypeOK' /\ FreeExist' /\ FreeOnce' /\ OnePerCreate'
  <2>1. TypeOK'
    BY <1>0, <1>2, <1>3, <1>4 DEF TypeOK
  <2>2. FreeExist' /\ FreeOnce'
    BY <1>3 DEF FreeExist, FreeOnce
  <2>3. OnePerCreate'
    BY <1>0, <1>n, <1>2, <1>4 DEF OnePerCreate
  <2> QED
    BY <2>1, <2>2, <2>3
<1>6. ASSUME NEW s \in Renderers, NEW h \in Handle \ {Zero}, handle'[s] = h
      PROVE  s \in alive' /\ Aged(h)'
  <2>0. h \in [idx : Nat, ver : Nat] /\ ~IsFree(h.idx)'
    BY <1>3, HandleAssumption DEF Handle, Indices, Versions, IsFree
  <2>1. CASE s = r
    <3>1. h.idx = n /\ h.ver = 1
      BY <1>0, <1>3, <1>6, <2>1 DEF TypeOK
    <3>2. Aged(h)'
      BY <1>2, <1>4, <2>0, <3>1, NewbornAge
    <3> QED
      BY <2>1, <3>2
  <2>2. CASE s # r
    <3>1. handle[s] = h
      BY <1>0, <1>3, <1>6, <2>2 DEF TypeOK
    <3>2. s \in alive /\ Aged(h)
      BY <1>6, <3>1 DEF FInv, HandlesAge
    <3>3. h.idx < Len(versions') /\ versions'[h.idx + 1] = versions[h.idx + 1]
      <4>1. h.idx + 1 \in 1 .. n /\ h.idx < n + 1
        BY <1>n, <2>0, <3>2 DEF Aged
      <4> QED
        BY <1>2, <4>1
    <3>4. Aged(h)'
      BY <1>0, <2>0, <3>2, <3>3, CreatedAge
    <3> QED
      BY <3>2, <3>4
  <2> QED
    BY <2>1, <2>2
<1>7. HandlesAge'
  BY <1>6 DEF HandlesAge
<1> QED
  BY <1>5, <1>7 DEF FInv

\* destroy() makes the handles of its index one step older, once: the index was
\* held and is free now
LEMMA DestroyFInv ==
  ASSUME FieldsFit, VersionsLast, FInv, NEW r \in alive, Destruct(r),
         handle[r] # Zero, IsValid(handle[r])
  PROVE  FInv'
<1>0. TypeOK /\ OnePerCreate /\ FreeExist /\ FreeOnce /\ HandlesAge
  BY DEF FInv
<1>1. PICK g \in Handle \ {Zero} : g = handle[r]
  BY <1>0 DEF TypeOK
<1> DEFINE M == 2 ^ VersionBits
<1>2. M \in Nat /\ creates \in Nat /\ creates < M /\ M > 0
  BY <1>0, HandleAssumption DEF TypeOK, VersionsLast, FieldsFit
<1>3. /\ alive' = alive \ {r}
      /\ handle' = [handle EXCEPT ![r] = Zero]
      /\ creates' = creates /\ foreign' = foreign
      /\ DestroyHandle(g)
      /\ r \in Renderers
  BY <1>0, <1>1 DEF Destruct, TypeOK
<1>4. IsValid(g) /\ Aged(g)
  BY <1>0, <1>1, <1>3 DEF HandlesAge
<1>5. ~IsFree(g.idx)
  BY <1>0, <1>4, ValidIsHeld
<1>6. /\ versions' \in Seq(Versions)
      /\ Len(versions') = Len(versions)
      /\ \A j \in 1 .. Len(versions) : j # g.idx + 1 => versions'[j] = versions[j]
      /\ versions'[g.idx + 1] = (versions[g.idx + 1] + 1) % M
  BY <1>0, <1>3, <1>4, DestroyFacts
<1>7. /\ freeList' \in Seq(Indices)
      /\ Len(freeList') = Len(freeList) + 1
      /\ \A i \in 1 .. Len(freeList) : freeList'[i] = freeList[i]
      /\ freeList'[Len(freeList) + 1] = g.idx
  BY <1>0, <1>3, <1>4, DestroyFacts
<1>8. TypeOK'
  <2>1. Zero \in Handle
    BY HandleAssumption DEF FieldsFit, Zero, Handle, Indices, Versions
  <2> QED
    BY <1>0, <1>3, <1>6, <1>7, <2>1 DEF TypeOK
<1>9. PICK m \in Nat : m = Len(freeList)
  BY <1>0 DEF TypeOK
<1>10. /\ DOMAIN freeList = 1 .. m /\ DOMAIN freeList' = 1 .. m + 1
       /\ \A i \in 1 .. m + 1 : i \in 1 .. m \/ i = m + 1
  BY <1>0, <1>7, <1>9 DEF TypeOK
<1>11. g.idx < Len(versions)
  BY <1>4 DEF Aged
<1>12. FreeExist' /\ FreeOnce' /\ OnePerCreate'
  <2>1. OnePerCreate'
    BY <1>0, <1>3, <1>6 DEF OnePerCreate
  <2>2. FreeExist'
    BY <1>0, <1>6, <1>7, <1>9, <1>10, <1>11 DEF FreeExist
  <2>3. FreeOnce'
    BY <1>0, <1>5, <1>7, <1>9, <1>10 DEF FreeOnce, IsFree
  <2> QED
    BY <2>1, <2>2, <2>3
<1>13. IsFree(g.idx)' /\ \A i \in Indices : i # g.idx => (IsFree(i)' <=> IsFree(i))
  <2>1. m + 1 \in DOMAIN freeList' /\ \A i \in 1 .. m : i \in DOMAIN freeList'
    BY <1>10
  <2> QED
    BY <1>7, <1>9, <1>10, <2>1 DEF IsFree
<1>14. ASSUME NEW s \in Renderers, NEW h \in Handle \ {Zero}, handle'[s] = h
       PROVE  s \in alive' /\ Aged(h)'
  <2>1. s # r /\ handle[s] = h /\ s \in alive /\ Aged(h)
    BY <1>0, <1>3, <1>14 DEF TypeOK, HandlesAge
  <2>2. h.idx \in Indices /\ h.idx \in Nat /\ h.ver \in Nat /\ h.ver < M
    BY <1>2, HandleAssumption DEF Handle, Indices, Versions
  <2>3. CASE h.idx # g.idx
    <3>1. h.idx < Len(versions) /\ g.idx \in Nat
      BY <2>1, HandleAssumption DEF Aged, Handle, Indices
    <3>2. h.idx + 1 \in 1 .. Len(versions) /\ h.idx + 1 # g.idx + 1
      BY <1>0, <2>2, <2>3, <3>1 DEF TypeOK
    <3>3. versions'[h.idx + 1] = versions[h.idx + 1] /\ h.idx < Len(versions')
      BY <1>6, <3>1, <3>2
    <3>4. Aged(h)'
      BY <1>3, <1>13, <2>1, <2>2, <2>3, <3>3, StaysAged
    <3> QED
      BY <1>3, <2>1, <3>4
  <2>4. CASE h.idx = g.idx
    <3>1. PICK d \in 0 .. creates : Behind(h, d) /\ (d = creates => IsFree(h.idx))
      BY <2>1 DEF Aged
    <3>2. d + 1 \in 0 .. creates /\ d \in Nat
      BY <1>2, <1>5, <2>4, <3>1
    <3>3. PICK v \in Nat : v = versions[h.idx + 1] /\ v < M
      BY <1>0, <1>2, <1>11, <2>2, <2>4 DEF TypeOK, Versions
    <3>4. versions'[h.idx + 1] = (v + 1) % M
      BY <1>6, <2>4, <3>3
    <3>5. v = h.ver + d \/ v = h.ver + d - M
      BY <3>1, <3>3 DEF Behind
    <3>6. (v + 1) % M = h.ver + (d + 1) \/ (v + 1) % M = h.ver + (d + 1) - M
      <4> HIDE DEF M
      <4>1. CASE v + 1 < M
        <5>1. (v + 1) % M = v + 1
          BY <1>2, <4>1, ModSmall
        <5> QED
          BY <1>2, <2>2, <3>2, <3>5, <5>1
      <4>2. CASE v + 1 = M
        <5>1. (v + 1) % M = 0
          BY <1>2, <4>2, Z3
        <5>2. v = h.ver + d
          BY <1>2, <2>2, <3>2, <3>5, <4>2
        <5> QED
          BY <1>2, <2>2, <3>2, <4>2, <5>1, <5>2
      <4> QED
        BY <1>2, <3>3, <4>1, <4>2
    <3>7. Behind(h, d + 1)'
      BY <3>4, <3>6 DEF Behind
    <3>8. d + 1 # 0
      BY <3>2
    <3>9. Aged(h)'
      BY <1>3, <1>6, <1>11, <1>13, <2>4, <3>2, <3>7, <3>8 DEF Aged
    <3> QED
      BY <1>3, <2>1, <3>9
  <2> QED
    BY <2>3, <2>4
<1>15. HandlesAge'
  BY <1>14 DEF HandlesAge
<1> QED
  BY <1>8, <1>12, <1>15 DEF FInv

\* the operations that leave the indices alone only hand handles on or drop them
LEMMA HandsOnFInv ==
  ASSUME FieldsFit, FInv, UNCHANGED <<versions, freeList, creates>>, foreign' \in BOOLEAN,
         alive' \subseteq Renderers, handle' \in [Renderers -> Handle],
         \A s \in Renderers : \/ handle'[s] = Zero
                              \/ /\ s \in alive'
                                 /\ \E t \in Renderers : handle'[s] = handle[t]
  PROVE  FInv'
<1>1. TypeOK' /\ OnePerCreate' /\ FreeExist' /\ FreeOnce'
  BY DEF FInv, TypeOK, OnePerCreate, FreeExist, FreeOnce
<1>2. ASSUME NEW s \in Renderers, NEW h \in Handle \ {Zero}, handle'[s] = h
      PROVE  s \in alive' /\ Aged(h)'
  <2>1. s \in alive' /\ \E t \in Renderers : h = handle[t]
    BY <1>2
  <2>2. Aged(h)
    BY <2>1 DEF FInv, HandlesAge
  <2>3. h.idx < Len(versions') /\ versions' = versions /\ freeList' = freeList
    BY <2>2 DEF Aged
  <2>4. IsFree(h.idx)' <=> IsFree(h.idx)
    BY <2>3 DEF IsFree
  <2> QED
    BY <2>1, <2>2, <2>3, <2>4, StaysAged
<1> QED
  BY <1>1, <1>2 DEF FInv, HandlesAge

\* every step keeps the ages
LEMMA NextFInv == FieldsFit /\ VersionsLast /\ FInv /\ [Next]_vars => FInv'
<1> SUFFICES ASSUME FieldsFit, VersionsLast, FInv, [Next]_vars
             PROVE  FInv'
  OBVIOUS
<1>0. /\ alive \subseteq Renderers /\ handle \in [Renderers -> Handle] /\ foreign \in BOOLEAN
      /\ \A s \in Renderers : handle[s] # Zero => s \in alive
  BY DEF FInv, TypeOK, HandlesAge
<1>1. Zero \in Handle
  BY HandleAssumption DEF FieldsFit, Zero, Handle, Indices, Versions
<1>2. ASSUME NEW r \in Renderers, Construct(r)
      PROVE  FInv'
  BY <1>2, ReusedFInv, NewFInv DEF Construct
<1>3. ASSUME NEW r \in Renderers, ConstructDefault(r)
      PROVE  FInv'
  BY <1>0, <1>3, HandsOnFInv DEF ConstructDefault
<1>4. ASSUME NEW r \in Renderers, NEW c \in Renderers, Copy(r, c)
      PROVE  FInv'
  <2>1. /\ alive' = alive \cup {c} /\ handle' = [handle EXCEPT ![c] = handle[r]]
        /\ UNCHANGED <<versions, freeList, creates>> /\ foreign' \in BOOLEAN
    BY <1>4 DEF Copy
  <2>2. handle' \in [Renderers -> Handle]
    BY <1>0, <2>1
  <2>3. ASSUME NEW s \in Renderers
        PROVE  \/ handle'[s] = Zero
               \/ s \in alive' /\ \E t \in Renderers : handle'[s] = handle[t]
    BY <1>0, <2>1
  <2> QED
    BY <1>0, <2>1, <2>2, <2>3, HandsOnFInv
<1>5. ASSUME NEW r \in Renderers, Destruct(r)
      PROVE  FInv'
  <2>1. CASE handle[r] # Zero /\ IsValid(handle[r])
    BY <1>5, <2>1, DestroyFInv DEF Destruct
  <2>2. CASE handle[r] = Zero \/ ~IsValid(handle[r])
    <3>1. /\ UNCHANGED <<versions, freeList, creates, foreign>>
          /\ alive' = alive \ {r} /\ handle' = [handle EXCEPT ![r] = Zero]
      BY <1>5, <2>2 DEF Destruct, DestroyHandle
    <3>2. handle' \in [Renderers -> Handle]
      BY <1>0, <1>1, <3>1
    <3>3. ASSUME NEW s \in Renderers
          PROVE  \/ handle'[s] = Zero
                 \/ s \in alive' /\ \E t \in Renderers : handle'[s] = handle[t]
      BY <1>0, <3>1
    <3> QED
      BY <1>0, <3>1, <3>2, <3>3, HandsOnFInv
  <2> QED
    BY <2>1, <2>2
<1>6. CASE UNCHANGED <<versions, freeList, alive, handle, creates, foreign>>
  BY <1>0, <1>6, HandsOnFInv
<1>7. ASSUME NEW r \in Renderers, NEW rot \in Rotations, SetObject(r, rot) \/ Reupload(r, rot)
      PROVE  FInv'
  BY <1>6, <1>7 DEF SetObject, Reupload
<1>8. CASE Finished \/ UNCHANGED vars
  BY <1>6, <1>8 DEF Finished, vars
<1> QED
  BY <1>2, <1>3, <1>4, <1>5, <1>7, <1>8 DEF Next

\* A Renderer that is copied any number of times frees its index once, and no
\* living Renderer could free an index that is free: for any number of Renderers,
\* while fewer handles are created than there are versions (destroy()).
THEOREM FreesOnce ==
  ASSUME FieldsFit, VersionsLast
  PROVE  Spec => []FreedOnce
<1>1. Init => FInv
  BY InitFInv
<1>2. FInv /\ [Next]_vars => FInv'
  BY NextFInv
<1>3. FInv => FreedOnce
  <2> SUFFICES ASSUME FInv, NEW r \in alive, handle[r] # Zero, IsValid(handle[r])
               PROVE  handle[r].idx \notin FreeIndices
    BY DEF FInv, FreedOnce, FreeOnce
  <2>1. PICK h \in Handle \ {Zero} : h = handle[r]
    BY DEF FInv, TypeOK
  <2>2. Aged(h) /\ IsValid(h)
    BY <2>1 DEF FInv, TypeOK, HandlesAge
  <2>3. ~IsFree(h.idx)
    BY <2>2, ValidIsHeld DEF FInv
  <2> QED
    BY <2>1, <2>3 DEF IsFree, FreeIndices
<1> QED
  BY <1>1, <1>2, <1>3, PTL DEF Spec

-----------------------------------------------------------------------------
(* The transform buffer                                                    *)
(*                                                                         *)
(* It has an entry for each index; the entry of a Renderer stays its own    *)
(* because no other living Renderer has its index.                         *)

Written == {Compressed(rot, v) : rot \in Rotation, v \in Versions}
Entry   == [owner : Renderers \cup {NoOne}, data : Written \cup {Blank.data}]

EntriesFit == transforms \in Seq(Entry) /\ Len(transforms) = Len(versions)

\* what the entry of a Renderer with an object holds
Uploaded(r) == [owner |-> r, data |-> Compressed(sent[r], StoredVersion(handle[r]))]

Own ==
  /\ EntriesFit
  /\ attached \subseteq alive
  /\ sent \in [Renderers -> Rotation]
  /\ \A r \in attached : transforms[handle[r].idx + 1] = Uploaded(r)

TInv == HInv /\ (foreign \/ Own)

\* the fields that the constructor of CompressedTransform fills in
LEMMA CompressedFields ==
  ASSUME NEW rot, NEW v
  PROVE  /\ Compressed(rot, v).positive = (rot.w > 0)
         /\ Compressed(rot, v).quat = CompressFloat(rot.i)
  BY Zenon DEF Compressed

LEMMA InitOwn == FieldsFit /\ Init => Own
<1> SUFFICES ASSUME FieldsFit, Init
             PROVE  Own
  OBVIOUS
<1>1. PICK n \in Lives :
        /\ versions = IF n = 0 THEN <<>> ELSE <<(1 + n) % 2 ^ VersionBits>>
        /\ transforms = IF n = 0 THEN <<>> ELSE <<Blank>>
  BY DEF Init
<1>2. Blank \in Entry
  BY DEF Blank, Entry
<1>3. EntriesFit
  <2>1. CASE n = 0
    BY <1>1, <2>1 DEF EntriesFit
  <2>2. CASE n # 0
    <3>1. transforms = <<Blank>> /\ Len(versions) = 1
      BY <1>1, <2>2
    <3> QED
      BY <1>2, <3>1 DEF EntriesFit
  <2> QED
    BY <2>1, <2>2
<1>4. attached = {} /\ alive = {}
  BY DEF Init
<1>5. sent \in [Renderers -> Rotation]
  BY UnitAssumption DEF Init, Upright, Rotation
<1> QED
  BY <1>3, <1>4, <1>5 DEF Own

\* setObject() and reupload() write the Renderer's own entry and no other's
LEMMA WriteOwn ==
  ASSUME FieldsFit, TypeOK, Handles, Own,
         NEW r \in alive, NEW rot \in Rotations, WriteTransform(r, rot),
         attached' = attached \cup {r}, UNCHANGED <<versions, alive, handle>>
  PROVE  Own'
<1>1. r \in Renderers /\ rot \in Rotation
  BY HandleAssumption DEF TypeOK
<1>2. PICK h \in Handle : h = handle[r]
  BY <1>1 DEF TypeOK
<1>3. h.idx \in Nat /\ h.idx < Len(versions)
  BY <1>2, HandleAssumption DEF Handles, HeldValid, IsValid, Handle, Indices
<1>4. Compressed(rot, StoredVersion(h)) \in Written
  <2>1. StoredVersion(h) \in Versions
    BY <1>3, ModRange DEF StoredVersion, Versions, FieldsFit
  <2> QED
    BY <1>1, <2>1 DEF Written
<1> DEFINE entry == [owner |-> r, data |-> Compressed(rot, StoredVersion(h))]
<1>5. entry \in Entry
  BY <1>1, <1>4 DEF Entry
<1>6. /\ transforms' = [transforms EXCEPT ![h.idx + 1] = entry]
      /\ sent' = [sent EXCEPT ![r] = rot]
  BY <1>2 DEF WriteTransform
<1> HIDE DEF entry
<1>7. /\ transforms' \in Seq(Entry) /\ Len(transforms') = Len(transforms)
      /\ transforms'[h.idx + 1] = entry
      /\ \A i \in 1 .. Len(transforms) : i # h.idx + 1 => transforms'[i] = transforms[i]
  <2>1. h.idx + 1 \in 1 .. Len(transforms) /\ transforms \in Seq(Entry)
    BY <1>3 DEF Own, EntriesFit
  <2> QED
    BY <1>5, <1>6, <2>1, ExceptSeq
<1>8. EntriesFit' /\ attached' \subseteq alive' /\ sent' \in [Renderers -> Rotation]
  BY <1>1, <1>6, <1>7 DEF Own, EntriesFit
<1>9. ASSUME NEW s \in attached'
      PROVE  transforms'[handle[s].idx + 1] = Uploaded(s)'
  <2>1. CASE s = r
    <3>1. sent'[s] = rot /\ handle'[s] = h
      BY <1>1, <1>2, <1>6, <2>1 DEF Own
    <3> QED
      BY <1>2, <1>7, <2>1, <3>1 DEF Uploaded, StoredVersion, entry
  <2>2. CASE s # r
    <3>1. s \in attached /\ s \in alive /\ s \in Renderers /\ sent'[s] = sent[s]
      BY <1>6, <2>2 DEF Own, TypeOK
    <3>2. PICK g \in Handle : g = handle[s]
      BY <3>1 DEF TypeOK
    <3>3. g.idx \in Nat /\ g.idx < Len(versions) /\ g.idx # h.idx
      BY <1>2, <2>2, <3>1, <3>2, HandleAssumption
         DEF Handles, HeldValid, HeldOnce, IsValid, Handle, Indices
    <3>4. g.idx + 1 \in 1 .. Len(transforms) /\ g.idx + 1 # h.idx + 1
      BY <1>3, <3>3 DEF Own, EntriesFit
    <3>5. transforms'[g.idx + 1] = transforms[g.idx + 1]
      BY <1>7, <3>4
    <3> QED
      BY <3>1, <3>2, <3>5 DEF Own, Uploaded, StoredVersion
  <2> QED
    BY <2>1, <2>2
<1> QED
  BY <1>8, <1>9 DEF Own

\* a new entry at the end of the buffer, or a new owner of a free index, changes
\* no other's
LEMMA ConstructOwn ==
  ASSUME FieldsFit, TypeOK, Handles, Own, NEW r \in Renderers, Construct(r)
  PROVE  Own'
<1>1. /\ r \notin alive /\ creates < MaxCreates
      /\ alive' = alive \cup {r} /\ attached' = attached /\ sent' = sent
  BY DEF Construct
<1>2. FreeExist /\ OnePerCreate
  BY DEF Handles
<1>3. /\ EntriesFit'
      /\ \A i \in 1 .. Len(versions) : transforms'[i] = transforms[i]
      /\ \A s \in Renderers : s # r => handle'[s] = handle[s]
  <2>1. CASE CreateReused(r)
    <3>1. /\ versions' = versions /\ transforms' = transforms
          /\ \A s \in Renderers : s # r => handle'[s] = handle[s]
      BY <2>1 DEF CreateReused, TypeOK
    <3> QED
      BY <3>1 DEF Own, EntriesFit
  <2>2. CASE CreateNew(r)
    <3>1. versions' = Append(versions, 1) /\ transforms' = Append(transforms, Blank)
      BY <2>2 DEF CreateNew
    <3>2. \A s \in Renderers : s # r => handle'[s] = handle[s]
      BY <2>2 DEF CreateNew, TypeOK
    <3>3. Blank \in Entry
      BY DEF Blank, Entry
    <3>4. Len(versions') = Len(versions) + 1
      BY <3>1 DEF TypeOK
    <3>5. /\ transforms' \in Seq(Entry) /\ Len(transforms') = Len(transforms) + 1
          /\ \A i \in 1 .. Len(transforms) : transforms'[i] = transforms[i]
      <4> transforms \in Seq(Entry)
        BY DEF Own, EntriesFit
      <4> QED BY <3>1, <3>3, AppendProperties
    <3> QED
      BY <3>2, <3>4, <3>5 DEF Own, EntriesFit
  <2> QED
    BY <2>1, <2>2 DEF Construct
<1>4. ASSUME NEW s \in attached'
      PROVE  transforms'[handle'[s].idx + 1] = Uploaded(s)'
  <2>1. s \in attached /\ s \in alive /\ s \in Renderers /\ s # r
    BY <1>1 DEF Own, TypeOK
  <2>2. PICK g \in Handle : g = handle[s] /\ g = handle'[s]
    BY <1>3, <2>1 DEF TypeOK
  <2>3. g.idx + 1 \in 1 .. Len(versions)
    <3>1. g.idx < Len(versions)
      BY <2>1, <2>2 DEF Handles, HeldValid, IsValid
    <3>2. g.idx \in Nat /\ Len(versions) \in Nat
      BY HandleAssumption DEF TypeOK, Handle, Indices
    <3> QED
      BY <3>1, <3>2
  <2>4. transforms'[g.idx + 1] = transforms[g.idx + 1]
    BY <1>3, <2>3
  <2> QED
    BY <1>1, <2>1, <2>2, <2>4 DEF Own, Uploaded, StoredVersion
<1> QED
  BY <1>1, <1>3, <1>4 DEF Own

\* a destroyed Renderer leaves its entry behind
LEMMA DestructOwn ==
  ASSUME TypeOK, Handles, Own, FieldsFit, NEW r \in alive, Destruct(r)
  PROVE  Own'
<1>1. /\ transforms' = transforms
      /\ alive' = alive \ {r} /\ attached' = attached \ {r}
      /\ handle' = [handle EXCEPT ![r] = Zero]
      /\ sent' = [sent EXCEPT ![r] = Upright]
      /\ r \in Renderers
  BY DEF Destruct, TypeOK
<1>2. Len(versions') = Len(versions)
  <2>1. CASE handle[r] = Zero \/ ~IsValid(handle[r])
    BY <2>1 DEF Destruct, DestroyHandle
  <2>2. CASE handle[r] # Zero /\ IsValid(handle[r])
    <3>1. DestroyHandle(handle[r]) /\ handle[r] \in Handle
      BY <1>1, <2>2 DEF Destruct, TypeOK
    <3> QED
      BY <2>2, <3>1, DestroyFacts
  <2> QED
    BY <2>1, <2>2
<1>3. sent' \in [Renderers -> Rotation]
  BY <1>1, UnitAssumption DEF Own, Upright, Rotation
<1>4. \A s \in attached' : /\ s \in attached
                           /\ handle'[s] = handle[s] /\ sent'[s] = sent[s]
  BY <1>1 DEF Own, TypeOK
<1> QED
  BY <1>1, <1>2, <1>3, <1>4 DEF Own, EntriesFit, Uploaded, StoredVersion

\* every step keeps the entries
LEMMA NextTInv == FieldsFit /\ TInv /\ [Next]_vars => TInv'
<1> SUFFICES ASSUME FieldsFit, TInv, [Next]_vars
             PROVE  TInv'
  OBVIOUS
<1>1. HInv' /\ (foreign => foreign')
  BY NextHInv
     DEF TInv, Next, vars, Construct, ConstructDefault, Copy, SetObject, Reupload, Destruct, Finished
<1>2. SUFFICES ASSUME ~foreign, ~foreign'
               PROVE  Own'
  BY <1>1 DEF TInv
<1>3. TypeOK /\ Handles /\ Own
  BY <1>2 DEF TInv, HInv
<1>4. ASSUME NEW r \in Renderers, Construct(r)
      PROVE  Own'
  BY <1>3, <1>4, ConstructOwn
<1>5. ASSUME NEW r \in Renderers, Destruct(r)
      PROVE  Own'
  BY <1>3, <1>5, DestructOwn DEF Destruct
<1>6. ASSUME NEW r \in Renderers, NEW rot \in Rotations, SetObject(r, rot) \/ Reupload(r, rot)
      PROVE  Own'
  <2>1. r \in alive /\ attached' = attached \cup {r} /\ WriteTransform(r, rot)
    BY <1>6 DEF SetObject, Reupload
  <2>2. UNCHANGED <<versions, alive, handle>>
    BY <1>6 DEF SetObject, Reupload
  <2> QED
    BY <1>3, <2>1, <2>2, WriteOwn
<1>7. CASE Finished \/ UNCHANGED vars
  <2>1. UNCHANGED vars
    BY <1>7 DEF Finished
  <2> QED
    BY <1>3, <2>1 DEF vars, Own, EntriesFit, Uploaded, StoredVersion
<1>8. ASSUME NEW r \in Renderers, NEW c \in Renderers, ConstructDefault(r) \/ Copy(r, c)
      PROVE  FALSE
  BY <1>2, <1>8 DEF ConstructDefault, Copy
<1> QED
  BY <1>4, <1>5, <1>6, <1>7, <1>8 DEF Next

\* The entry of a Renderer with an object is its own, and gives its rotation
\* back up to a step, unless it is 1.0 (setObject(), reupload(),
\* decompressFloat()): for any number of Renderers and any scale.
THEOREM EntriesAreOwn ==
  ASSUME FieldsFit
  PROVE  Spec => []TransformIsOwn
<1>1. Init => TInv
  BY InitHInv, InitOwn DEF TInv
<1>2. TInv /\ [Next]_vars => TInv'
  BY NextTInv
<1>3. TInv => TransformIsOwn
  <2> SUFFICES ASSUME Own, TypeOK, NEW r \in attached
               PROVE  LET entry == transforms[handle[r].idx + 1]
                      IN /\ entry.owner = r
                         /\ entry.data.positive = (sent[r].w > 0)
                         /\ sent[r].i < Unit => Restores(entry.data.quat, sent[r].i)
    BY DEF TInv, HInv, TransformIsOwn
  <2>1. r \in Renderers /\ transforms[handle[r].idx + 1] = Uploaded(r)
    BY DEF Own, TypeOK
  <2>2. PICK rot \in Rotation : rot = sent[r]
    BY <2>1 DEF Own
  <2> DEFINE u == Uploaded(r)
  <2>3. u.owner = r /\ u.data = Compressed(rot, StoredVersion(handle[r]))
    BY <2>2 DEF Uploaded
  <2>4. u.data.positive = (rot.w > 0) /\ u.data.quat = CompressFloat(rot.i)
    <3> HIDE DEF u
    <3> QED BY <2>3, CompressedFields, Zenon
  <2>5. rot.i < Unit => Restores(CompressFloat(rot.i), rot.i)
    <3> SUFFICES ASSUME rot.i < Unit
                 PROVE  Restores(CompressFloat(rot.i), rot.i)
      OBVIOUS
    <3>1. rot.i \in -Unit .. Unit - 1
      BY UnitAssumption DEF Rotation
    <3> QED
      BY <3>1, RoundTrip
  <2> HIDE DEF u
  <2>6. u = transforms[handle[r].idx + 1]
    BY <2>1 DEF u
  <2> QED
    BY <2>2, <2>3, <2>4, <2>5, <2>6, Zenon
<1> QED
  BY <1>1, <1>2, <1>3, PTL DEF Spec
=============================================================================
