----------------------------- MODULE FrameProofs ----------------------------
(***************************************************************************)
(* Proofs about what a frame is drawn with, for every camera (Camera) and  *)
(* every pipeline of commands (DrawState): update() misses no change, and  *)
(* each command finds what it means bound.  Then about what a frame draws, *)
(* for every scene and list of stages (FrameCommands): the scene, whole    *)
(* and once.                                                               *)
(***************************************************************************)
EXTENDS FrameProps, DrawProps, Camera, FiniteSetTheorems,
        SequenceTheorems, WellFoundedInduction, TLAPS

-----------------------------------------------------------------------------
(* The camera *)

\* While no update is required the buffer has the matrices for what update()
\* remembers of the object and the target: the setters cannot have changed a
\* word since, only the world outside.
RememberedIsUploaded ==
  ~requiresUpdate =>
    \E p \in Values, a \in Aspects :
      known = <<p, a>> /\ buffer = Matrices(type, words, p, a)

\* The conjunction that the steps preserve.
CameraInv == CameraTypes /\ RememberedIsUploaded /\ OwnParameters

\* Both constructors ask for an update.
LEMMA CameraStarts == CameraInit => CameraInv
<1> SUFFICES ASSUME CameraInit PROVE CameraInv
  OBVIOUS
<1> QED
  BY DEF CameraInit, CameraInv, CameraTypes, RememberedIsUploaded, OwnParameters

\* What a setter stores is a parameter, and the flag tells when it is a new one.
LEMMA StoreKeepsTypes ==
  ASSUME CameraInv, NEW w \in [1 .. 3 -> Values], NEW t \in Types,
         NEW params \in [1 .. 3 -> Values], Store(w), Asked(t, params)
  PROVE  CameraTypes' /\ RememberedIsUploaded'
<1>1. CameraTypes'
  <2>1. asked' \in [1 .. 3 -> Values] /\ mixed' \in BOOLEAN
    BY DEF Asked, CameraInv, CameraTypes
  <2> QED
    BY <2>1 DEF Store, CameraInv, CameraTypes, outside
<1>2. RememberedIsUploaded'
  <2> SUFFICES ASSUME ~requiresUpdate'
               PROVE  \E p \in Values, a \in Aspects :
                        known' = <<p, a>> /\ buffer' = Matrices(type', words', p, a)
    BY DEF RememberedIsUploaded, Matrices
  <2>1. ~requiresUpdate /\ words' = words
    BY DEF Store, CameraInv, CameraTypes
  <2>2. PICK p \in Values, a \in Aspects :
          known = <<p, a>> /\ buffer = Matrices(type, words, p, a)
    BY <2>1 DEF CameraInv, RememberedIsUploaded
  <2> QED
    BY <2>1, <2>2 DEF Store
<1> QED
  BY <1>1, <1>2

\* A step keeps the invariant.
LEMMA CameraSteps == CameraInv /\ [CameraNext]_cameraVars => CameraInv'
<1> SUFFICES ASSUME CameraInv, [CameraNext]_cameraVars PROVE CameraInv'
  OBVIOUS
<1> USE CameraAssumption
<1>1. CASE SetObject
  BY <1>1 DEF SetObject, CameraInv, CameraTypes, RememberedIsUploaded, OwnParameters,
              history, outside
<1>2. ASSUME NEW v \in Values, NEW i \in 1 .. 3, SetPlane(i, v)
      PROVE  CameraInv'
  <2> DEFINE w == [words EXCEPT ![i] = v]
             params == [asked EXCEPT ![i] = v]
  <2>1. w \in [1 .. 3 -> Values] /\ params \in [1 .. 3 -> Values] /\ "perspective" \in Types
    BY DEF CameraInv, CameraTypes, Types
  <2>2. Store(w) /\ Asked("perspective", params)
    BY <1>2 DEF SetPlane
  <2>3. CameraTypes' /\ RememberedIsUploaded'
    BY <2>1, <2>2, StoreKeepsTypes
  <2>4. OwnParameters'
    BY <2>2 DEF CameraInv, OwnParameters, Store, Asked
  <2> QED
    BY <2>3, <2>4 DEF CameraInv
<1>3. ASSUME NEW scale \in [1 .. 3 -> Values], SetScale(scale)
      PROVE  CameraInv'
  <2>1. Store(scale) /\ Asked("orthographic", scale) /\ "orthographic" \in Types
    BY <1>3 DEF SetScale, Types
  <2>2. CameraTypes' /\ RememberedIsUploaded'
    BY <2>1, StoreKeepsTypes
  <2>3. OwnParameters'
    BY <2>1 DEF CameraInv, OwnParameters, Store, Asked
  <2> QED
    BY <2>2, <2>3 DEF CameraInv
<1>4. ASSUME NEW t \in Types, SetType(t)
      PROVE  CameraInv'
  <2>1. Initial(t) \in [1 .. 3 -> Values]
    BY DEF Initial, CameraAssumption
  <2> QED
    BY <1>4, <2>1 DEF SetType, CameraInv, CameraTypes, RememberedIsUploaded,
                      OwnParameters, outside
<1>5. CASE Outside
  BY <1>5 DEF Outside, CameraInv, CameraTypes, RememberedIsUploaded, OwnParameters,
              history, Matrices
<1>6. CASE Update
  <2>1. CASE Outdated
    <3>1. /\ known' = <<place, extent>>
          /\ buffer' = Matrices(type, words, place, extent)
          /\ obj /\ requiresUpdate' = FALSE
          /\ UNCHANGED <<type, words, obj, place, extent, asked, mixed>>
      BY <1>6, <2>1 DEF Update, outside, history
    <3>2. buffer' # Unset
      BY <3>1 DEF Matrices, Unset
    <3>3. CameraTypes' /\ OwnParameters'
      BY <3>1, <3>2 DEF CameraInv, CameraTypes, OwnParameters
    <3>4. RememberedIsUploaded'
      BY <3>1 DEF RememberedIsUploaded, CameraInv, CameraTypes, Matrices
    <3> QED
      BY <3>3, <3>4 DEF CameraInv
  <2>2. CASE ~Outdated
    BY <1>6, <2>2 DEF Update, CameraInv, CameraTypes, RememberedIsUploaded,
                      OwnParameters, outside, history, Matrices
  <2> QED
    BY <2>1, <2>2
<1>7. CASE UNCHANGED cameraVars
  BY <1>7 DEF cameraVars, CameraInv, CameraTypes, RememberedIsUploaded, OwnParameters,
              outside, history, Matrices
<1> QED
  BY <1>1, <1>2, <1>3, <1>4, <1>5, <1>6, <1>7 DEF CameraNext

\* The flag and what is remembered together miss no change.
LEMMA RememberedIsCurrent == CameraInv => CameraIsCurrent
<1> SUFFICES ASSUME CameraInv, obj, ~Outdated
             PROVE  buffer = Matrices(type, words, place, extent)
  BY DEF CameraIsCurrent, EarlyReturnIsCurrent, CameraInv
<1>1. ~requiresUpdate /\ known = <<place, extent>>
  BY DEF Outdated
<1>2. PICK p \in Values, a \in Aspects :
        known = <<p, a>> /\ buffer = Matrices(type, words, p, a)
  BY <1>1 DEF CameraInv, RememberedIsUploaded
<1> QED
  BY <1>1, <1>2

\* The types of a camera hold, and an update that is not required was made.
THEOREM CameraKeepsTypes == CameraSpec => []CameraTypes
<1>1. CameraInv => CameraTypes
  BY DEF CameraInv
<1> QED
  BY <1>1, CameraStarts, CameraSteps, PTL DEF CameraSpec

\* Camera.cpp, update(): an early return leaves the matrices of the present
\* parameters, object and target in the buffer, and the parameters are those the
\* camera was given.
THEOREM CameraStaysCurrent == CameraSpec => []CameraIsCurrent
<1> QED
  BY CameraStarts, CameraSteps, RememberedIsCurrent, PTL DEF CameraSpec

-----------------------------------------------------------------------------
(* The loop over the buffers of a material or compute object *)

\* A set of numbers that has 0, and with a number below n its successor, has all
\* numbers up to n.
LEMMA UpTo ==
  ASSUME NEW n \in Nat, NEW T, 0 \in T, \A i \in 0 .. n - 1 : i \in T => i + 1 \in T
  PROVE  \A i \in 0 .. n : i \in T
<1> DEFINE Less == {q \in Nat \X Nat : q[1] < q[2]}
           Rest == {i \in 0 .. n : i \notin T}
<1>1. IsWellFoundedOn(Less, Nat)
  BY NatLessThanWellFounded, Zenon DEF OpToRel
<1>2. SUFFICES ASSUME Rest # {} PROVE FALSE
  OBVIOUS
<1>3. PICK k \in Rest : \A l \in Rest : ~ (<<l, k>> \in Less)
  <2>1. Rest \subseteq Nat
    OBVIOUS
  <2> HIDE DEF Less, Rest
  <2> QED BY <1>1, <1>2, <2>1, WFMin, Zenon
<1>4. k \in 0 .. n /\ k \notin T /\ k # 0
  BY <1>3
<1>5. k - 1 \in 0 .. n - 1 /\ k - 1 \in 0 .. n /\ k - 1 < k /\ (k - 1) + 1 = k
  BY <1>4
<1>6. <<k - 1, k>> \in Less
  BY <1>4, <1>5
<1>7. k - 1 \in T
  <2>1. k - 1 \notin Rest
    BY <1>3, <1>6
  <2> QED BY <1>5, <2>1
<1> QED BY <1>4, <1>5, <1>7

\* The rounds of the loop over the buffers, one after the other.
Rounds(f, n, start, list) ==
  f = [i \in 0 .. n |-> IF i = 0 THEN start ELSE BindNext(f[i - 1], list[i])]

LEMMA RoundsExist ==
  ASSUME NEW n \in Nat, NEW start, NEW list
  PROVE  \E f : Rounds(f, n, start, list)
<1> DEFINE T == {m \in 0 .. n : \E f : Rounds(f, m, start, list)}
<1>1. 0 \in T
  <2> DEFINE f == [i \in 0 .. 0 |-> start]
  <2>1. Rounds(f, 0, start, list)
    BY DEF Rounds
  <2> QED BY <2>1
<1>2. ASSUME NEW m \in 0 .. n - 1, m \in T PROVE m + 1 \in T
  <2>1. PICK f : Rounds(f, m, start, list)
    BY <1>2
  <2> DEFINE g == [i \in 0 .. m + 1 |-> IF i = m + 1 THEN BindNext(f[m], list[m + 1]) ELSE f[i]]
             h == [i \in 0 .. m + 1 |-> IF i = 0 THEN start ELSE BindNext(g[i - 1], list[i])]
  <2>2. ASSUME NEW i \in 0 .. m + 1 PROVE g[i] = h[i]
    <3>1. CASE i = m + 1
      <4>1. m \in 0 .. m + 1 /\ m # m + 1 /\ i - 1 = m /\ i # 0
        BY <3>1
      <4>2. g[m] = f[m]
        BY <4>1
      <4> QED BY <3>1, <4>1, <4>2
    <3>2. CASE i # m + 1 /\ i # 0
      <4>1. i \in 0 .. m /\ i - 1 \in 0 .. m + 1 /\ i - 1 # m + 1
        BY <3>2
      <4>2. g[i] = f[i] /\ g[i - 1] = f[i - 1]
        BY <3>2, <4>1
      <4>3. f[i] = BindNext(f[i - 1], list[i])
        BY <2>1, <3>2, <4>1 DEF Rounds
      <4> QED BY <3>2, <4>2, <4>3
    <3>3. CASE i = 0
      <4>1. f[0] = start
        BY <2>1 DEF Rounds
      <4> QED BY <3>3, <4>1
    <3> QED BY <3>1, <3>2, <3>3
  <2>3. g = h
    BY <2>2
  <2>4. Rounds(g, m + 1, start, list)
    BY <2>3 DEF Rounds
  <2> QED BY <2>4
<1>3. \A m \in 0 .. n : m \in T
  <2> HIDE DEF T
  <2> QED BY <1>1, <1>2, UpTo
<1> QED BY <1>3

\* BindBuffers() is what the last round leaves.
LEMMA LastRound ==
  ASSUME NEW slots, NEW list, Len(list) \in Nat
  PROVE  \E f : /\ Rounds(f, Len(list), [slots |-> slots, next |-> [kind \in Kinds |-> 0]], list)
                /\ BindBuffers(slots, list) = f[Len(list)].slots
<1> DEFINE start == [slots |-> slots, next |-> [kind \in Kinds |-> 0]]
           c == CHOOSE f : Rounds(f, Len(list), start, list)
<1>1. Rounds(c, Len(list), start, list)
  <2> HIDE DEF start
  <2> QED BY RoundsExist
<1>2. BindBuffers(slots, list) = c[Len(list)].slots
  BY DEF BindBuffers, Rounds
<1> QED BY <1>1, <1>2

\* The buffers of a kind among the first i of a list: the counter of the kind.
Earlier(list, i, kind) == {j \in 1 .. i : list[j].kind = kind}

IsBufferList(list) ==
  /\ IsList(list)
  /\ \A i \in DOMAIN list : list[i].kind \in Kinds
  /\ \A k \in Kinds : Cardinality({i \in DOMAIN list : list[i].kind = k}) <= Slots

LEMMA EarlierIsFinite ==
  ASSUME NEW list, NEW i \in Nat, NEW k
  PROVE  IsFiniteSet(Earlier(list, i, k)) /\ Cardinality(Earlier(list, i, k)) \in Nat
<1>1. IsFiniteSet(1 .. i)
  BY FS_Interval
<1>2. Earlier(list, i, k) \subseteq 1 .. i
  BY DEF Earlier
<1> QED BY <1>1, <1>2, FS_Subset, FS_CardinalityType

\* Each round counts its buffer, and no other.
LEMMA CounterSteps ==
  ASSUME NEW list, NEW i \in Nat, NEW k
  PROVE  Cardinality(Earlier(list, i + 1, k)) =
           Cardinality(Earlier(list, i, k)) + IF list[i + 1].kind = k THEN 1 ELSE 0
<1>1. CASE list[i + 1].kind = k
  <2>1. Earlier(list, i + 1, k) = Earlier(list, i, k) \cup {i + 1}
    BY <1>1 DEF Earlier
  <2>2. i + 1 \notin Earlier(list, i, k)
    BY DEF Earlier
  <2>3. IsFiniteSet(Earlier(list, i, k))
    BY EarlierIsFinite
  <2>4. Cardinality(Earlier(list, i, k) \cup {i + 1}) = Cardinality(Earlier(list, i, k)) + 1
    BY <2>2, <2>3, FS_AddElement
  <2> QED BY <1>1, <2>1, <2>4
<1>2. CASE list[i + 1].kind # k
  <2>1. Earlier(list, i + 1, k) = Earlier(list, i, k)
    BY <1>2 DEF Earlier
  <2>2. Cardinality(Earlier(list, i, k)) \in Nat
    BY EarlierIsFinite
  <2> QED BY <1>2, <2>1, <2>2
<1> QED BY <1>1, <1>2

\* The slots of a list: by the counter, within the binding points, and different.
LEMMA MeantSlots ==
  ASSUME NEW list, IsBufferList(list), NEW i \in 1 .. Len(list)
  PROVE  /\ MeantSlot(list, i) = <<list[i].kind, Cardinality(Earlier(list, i - 1, list[i].kind))>>
         /\ MeantSlot(list, i) \in Kinds \X (0 .. Slots - 1)
         /\ \A j \in 1 .. i - 1 : MeantSlot(list, j) # MeantSlot(list, i)
<1> DEFINE k == list[i].kind
           c(n) == Cardinality(Earlier(list, n, k))
<1>1. Len(list) \in Nat /\ DOMAIN list = 1 .. Len(list) /\ i - 1 \in Nat /\ (i - 1) + 1 = i
  BY DEF IsBufferList, IsList
<1>2. MeantSlot(list, i) = <<k, c(i - 1)>>
  BY DEF MeantSlot, Earlier
<1>3. k \in Kinds
  BY <1>1 DEF IsBufferList
<1>4. c(i) = c(i - 1) + 1 /\ c(i - 1) \in Nat
  <2>1. Cardinality(Earlier(list, (i - 1) + 1, k)) =
          Cardinality(Earlier(list, i - 1, k)) + IF list[(i - 1) + 1].kind = k THEN 1 ELSE 0
    BY <1>1, CounterSteps
  <2>2. c(i - 1) \in Nat
    BY <1>1, EarlierIsFinite
  <2> QED BY <1>1, <2>1, <2>2
<1>5. c(i) <= Slots /\ c(i) \in Nat
  <2>1. Earlier(list, i, k) \subseteq Earlier(list, Len(list), k)
    BY <1>1 DEF Earlier
  <2>2. IsFiniteSet(Earlier(list, Len(list), k)) /\ c(Len(list)) \in Nat /\ c(i) \in Nat
    BY <1>1, EarlierIsFinite
  <2>3. c(i) <= c(Len(list))
    BY <2>1, <2>2, FS_Subset
  <2>4. Earlier(list, Len(list), k) = {j \in DOMAIN list : list[j].kind = k}
    BY <1>1 DEF Earlier
  <2>5. c(Len(list)) <= Slots
    BY <1>3, <2>4 DEF IsBufferList
  <2>6. Slots \in Nat
    BY DrawAssumption DEF DrawAssumption
  <2> HIDE DEF c
  <2> QED BY <2>2, <2>3, <2>5, <2>6
<1>6. MeantSlot(list, i) \in Kinds \X (0 .. Slots - 1)
  <2>1. Slots \in Nat
    BY DrawAssumption DEF DrawAssumption
  <2> HIDE DEF c, k
  <2>2. c(i - 1) \in 0 .. Slots - 1
    BY <1>4, <1>5, <2>1
  <2> QED BY <1>2, <1>3, <2>2
<1>7. ASSUME NEW j \in 1 .. i - 1, MeantSlot(list, j) = MeantSlot(list, i)
      PROVE  FALSE
  <2>1. list[j].kind = k /\ Cardinality(Earlier(list, j - 1, k)) = c(i - 1)
    BY <1>2, <1>7 DEF MeantSlot, Earlier
  <2>2. /\ Earlier(list, j - 1, k) \subseteq Earlier(list, i - 1, k)
        /\ j \in Earlier(list, i - 1, k) /\ j \notin Earlier(list, j - 1, k)
    BY <1>1, <2>1 DEF Earlier
  <2>3. IsFiniteSet(Earlier(list, i - 1, k))
    BY <1>1, EarlierIsFinite
  <2>4. c(j - 1) <= c(i - 1) /\ c(j - 1) # c(i - 1)
    <3>1. Earlier(list, j - 1, k) # Earlier(list, i - 1, k)
      BY <2>2
    <3> HIDE DEF k
    <3> QED BY <2>2, <2>3, <3>1, FS_Subset
  <2>5. c(j - 1) \in Nat /\ c(i - 1) \in Nat
    <3>1. j - 1 \in Nat
      BY <1>1
    <3> QED BY <1>1, <3>1, EarlierIsFinite
  <2> HIDE DEF c
  <2> QED BY <2>4, <2>5, <2>1 DEF c
<1> QED BY <1>2, <1>6, <1>7

\* After i rounds the counters have their values, the first i buffers are at
\* their slots, and the other slots have what they had.
BoundSoFar(s, i, slots, list) ==
  /\ s.next = [k \in Kinds |-> Cardinality(Earlier(list, i, k))]
  /\ DOMAIN s.slots = DOMAIN slots
  /\ \A j \in 1 .. i :
       list[j].buffer # Skip => s.slots[MeantSlot(list, j)] = Name(list[j].buffer)
  /\ \A x \in DOMAIN slots :
       (\A j \in 1 .. i : MeantSlot(list, j) = x => list[j].buffer = Skip) => s.slots[x] = slots[x]

LEMMA RoundBindsNext ==
  ASSUME NEW slots, NEW list, NEW s, NEW i \in Nat, i < Len(list), IsBufferList(list),
         DOMAIN slots = Kinds \X (0 .. Slots - 1), BoundSoFar(s, i, slots, list)
  PROVE  BoundSoFar(BindNext(s, list[i + 1]), i + 1, slots, list)
<1> DEFINE b == list[i + 1]
           r == BindNext(s, b)
           x == MeantSlot(list, i + 1)
<1>1. Len(list) \in Nat /\ DOMAIN list = 1 .. Len(list) /\ i + 1 \in 1 .. Len(list) /\ (i + 1) - 1 = i
  BY DEF IsBufferList, IsList
<1>2. b.kind \in Kinds
  BY <1>1 DEF IsBufferList
<1>3. /\ x = <<b.kind, Cardinality(Earlier(list, i, b.kind))>>
      /\ x \in DOMAIN slots
      /\ \A j \in 1 .. i : MeantSlot(list, j) # x
  BY <1>1, MeantSlots
<1>4. x = <<b.kind, s.next[b.kind]>>
  BY <1>2, <1>3 DEF BoundSoFar
<1>5. r.slots = IF b.buffer = Skip THEN s.slots ELSE [s.slots EXCEPT ![x] = Name(b.buffer)]
  BY <1>4 DEF BindNext
<1>6. r.next = [k \in Kinds |-> Cardinality(Earlier(list, i + 1, k))]
  <2>1. r.next = [s.next EXCEPT ![b.kind] = @ + 1]
    BY DEF BindNext
  <2>2. ASSUME NEW k \in Kinds PROVE r.next[k] = Cardinality(Earlier(list, i + 1, k))
    <3>1. Cardinality(Earlier(list, i + 1, k)) =
            Cardinality(Earlier(list, i, k)) + IF b.kind = k THEN 1 ELSE 0
      BY CounterSteps
    <3>2. Cardinality(Earlier(list, i, k)) \in Nat
      BY EarlierIsFinite
    <3>3. s.next[k] = Cardinality(Earlier(list, i, k)) /\ DOMAIN s.next = Kinds
      BY DEF BoundSoFar
    <3> QED BY <2>1, <3>1, <3>2, <3>3
  <2>3. r.next = [k \in Kinds |-> r.next[k]]
    BY <2>1 DEF BoundSoFar
  <2> QED BY <2>2, <2>3
<1> HIDE DEF r, x
<1>7. DOMAIN r.slots = DOMAIN slots /\ DOMAIN s.slots = DOMAIN slots
  BY <1>5 DEF BoundSoFar
<1>8. ASSUME NEW j \in 1 .. i + 1, list[j].buffer # Skip
      PROVE  r.slots[MeantSlot(list, j)] = Name(list[j].buffer)
  <2>1. CASE j = i + 1
    BY <1>3, <1>5, <1>7, <1>8, <2>1 DEF x
  <2>2. CASE j # i + 1
    <3>1. j \in 1 .. i
      BY <2>2
    <3>2. s.slots[MeantSlot(list, j)] = Name(list[j].buffer) /\ MeantSlot(list, j) # x
      BY <1>3, <1>8, <3>1 DEF BoundSoFar
    <3>3. MeantSlot(list, j) \in DOMAIN slots
      BY <1>1, <3>1, MeantSlots
    <3> QED BY <1>5, <1>7, <3>2, <3>3
  <2> QED BY <2>1, <2>2
<1>9. ASSUME NEW y \in DOMAIN slots,
             \A j \in 1 .. i + 1 : MeantSlot(list, j) = y => list[j].buffer = Skip
      PROVE  r.slots[y] = slots[y]
  <2>1. s.slots[y] = slots[y]
    BY <1>9 DEF BoundSoFar
  <2>2. i + 1 \in 1 .. i + 1
    OBVIOUS
  <2>3. x = y => b.buffer = Skip
    BY <1>9, <2>2 DEF x
  <2> QED BY <1>5, <1>7, <2>1, <2>3
<1> QED BY <1>6, <1>7, <1>8, <1>9 DEF BoundSoFar, r

\* Each buffer of a list is at its slot, the other slots have what they had.
BoundBy(bound, slots, list) ==
  /\ DOMAIN bound = DOMAIN slots
  /\ \A i \in DOMAIN list :
       list[i].buffer # Skip => bound[MeantSlot(list, i)] = Name(list[i].buffer)
  /\ \A x \in DOMAIN slots :
       (\A i \in DOMAIN list : MeantSlot(list, i) = x => list[i].buffer = Skip)
       => bound[x] = slots[x]

\* __bindMaterial, Command_DispatchCompute: the counters of the two kinds lead each
\* buffer to its slot, no later one takes it, and a marker leaves what is there.
LEMMA BuffersAreBound ==
  ASSUME NEW slots, NEW list, IsBufferList(list), DOMAIN slots = Kinds \X (0 .. Slots - 1)
  PROVE  BoundBy(BindBuffers(slots, list), slots, list)
<1> DEFINE start == [slots |-> slots, next |-> [kind \in Kinds |-> 0]]
           n == Len(list)
<1>1. n \in Nat /\ DOMAIN list = 1 .. n
  BY DEF IsBufferList, IsList
<1>2. PICK f : Rounds(f, n, start, list) /\ BindBuffers(slots, list) = f[n].slots
  BY <1>1, LastRound
<1> DEFINE T == {i \in 0 .. n : BoundSoFar(f[i], i, slots, list)}
<1>3. 0 \in T
  <2>1. f[0] = start
    BY <1>1, <1>2 DEF Rounds
  <2>2. ASSUME NEW k \in Kinds PROVE Cardinality(Earlier(list, 0, k)) = 0
    <3>1. Earlier(list, 0, k) = {}
      BY DEF Earlier
    <3> QED BY <3>1, FS_EmptySet
  <2>3. start.next = [k \in Kinds |-> Cardinality(Earlier(list, 0, k))]
    BY <2>2
  <2>4. BoundSoFar(start, 0, slots, list)
    BY <2>3 DEF BoundSoFar
  <2> QED BY <1>1, <2>1, <2>4
<1>4. ASSUME NEW i \in 0 .. n - 1, i \in T PROVE i + 1 \in T
  <2>1. i \in Nat /\ i < Len(list) /\ i + 1 \in 0 .. n /\ i + 1 # 0 /\ (i + 1) - 1 = i
    BY <1>1
  <2>2. f[i + 1] = BindNext(f[i], list[i + 1])
    BY <1>2, <2>1 DEF Rounds
  <2>3. BoundSoFar(f[i], i, slots, list)
    BY <1>4
  <2>4. BoundSoFar(BindNext(f[i], list[i + 1]), i + 1, slots, list)
    BY <2>1, <2>3, RoundBindsNext
  <2> QED BY <2>1, <2>2, <2>4
<1>5. n \in T
  <2> HIDE DEF T, n
  <2>1. \A i \in 0 .. n : i \in T
    BY <1>1, <1>3, <1>4, UpTo
  <2> QED BY <1>1, <2>1
<1>6. BoundSoFar(f[n], n, slots, list)
  BY <1>5
<1> QED BY <1>1, <1>2, <1>6 DEF BoundSoFar, BoundBy

-----------------------------------------------------------------------------
(* The context *)

Fields == {"target", "viewport", "program", "vao", "units", "slots", "caps"}

IsContext(g) ==
  /\ DOMAIN g = Fields
  /\ DOMAIN g.units = 1 .. Units
  /\ DOMAIN g.slots = Kinds \X (0 .. Slots - 1)

\* Bound(), of any context
BoundIn(g, o) ==
  /\ g.program = Object[o].program
  /\ \A u \in DOMAIN Object[o].textures : g.units[u] = Name(Object[o].textures[u])
  /\ \A i \in DOMAIN Object[o].buffers :
       Object[o].buffers[i].buffer # Skip =>
         g.slots[MeantSlot(Object[o].buffers, i)] = Name(Object[o].buffers[i].buffer)

\* What BindObject() sets is o's, and what o leaves free is left alone.
LEMMA ObjectIsBound ==
  ASSUME NEW g, IsContext(g), NEW o \in DOMAIN Object, NEW h, h = BindObject(g, o)
  PROVE  /\ IsContext(h) /\ BoundIn(h, o)
         /\ h.target = g.target /\ h.viewport = g.viewport /\ h.vao = g.vao /\ h.caps = g.caps
         /\ \A S \in SUBSET DOMAIN g.slots :
              LeavesFree(o, S) => \A x \in S : h.slots[x] = g.slots[x]
<1> DEFINE list == Object[o].buffers
           tex == Object[o].textures
<1>1. IsBufferList(list) /\ IsList(tex) /\ Len(tex) <= Units /\ Units \in Nat
  <2>1. Units \in Nat /\ IsList(tex) /\ Len(tex) <= Units
    BY DrawAssumption DEF DrawAssumption
  <2>2. IsBufferList(list)
    BY DrawAssumption, Zenon DEF DrawAssumption, IsBufferList
  <2> QED BY <2>1, <2>2
<1>2. /\ DOMAIN h = Fields
      /\ h.program = Object[o].program
      /\ h.units = BindTextures(g.units, tex)
      /\ h.slots = BindBuffers(g.slots, list)
      /\ h.target = g.target /\ h.viewport = g.viewport /\ h.vao = g.vao /\ h.caps = g.caps
  BY DEF BindObject, IsContext, Fields
<1>3. BoundBy(h.slots, g.slots, list)
  <2>1. DOMAIN g.slots = Kinds \X (0 .. Slots - 1)
    BY DEF IsContext
  <2>2. BoundBy(BindBuffers(g.slots, list), g.slots, list)
    BY <1>1, <2>1, BuffersAreBound
  <2> QED BY <1>2, <2>2
<1>4. DOMAIN h.units = 1 .. Units /\ \A u \in DOMAIN tex : h.units[u] = Name(tex[u])
  <2>1. DOMAIN g.units = 1 .. Units
    BY DEF IsContext
  <2>2. \A u \in DOMAIN tex : u \in 1 .. Units /\ u <= Len(tex)
    BY <1>1 DEF IsList
  <2> HIDE DEF tex
  <2> QED BY <1>2, <2>1, <2>2 DEF BindTextures
<1>5. IsContext(h) /\ BoundIn(h, o)
  BY <1>2, <1>3, <1>4 DEF IsContext, BoundIn, BoundBy
<1>6. ASSUME NEW S \in SUBSET DOMAIN g.slots, LeavesFree(o, S), NEW x \in S
      PROVE  h.slots[x] = g.slots[x]
  <2>1. \A i \in DOMAIN list : MeantSlot(list, i) = x => list[i].buffer = Skip
    BY <1>6 DEF LeavesFree
  <2> QED BY <1>3, <1>6, <2>1 DEF BoundBy
<1> QED BY <1>2, <1>5, <1>6

\* A material adds its vertex array and its settings.
LEMMA MaterialIsBound ==
  ASSUME NEW g, IsContext(g), NEW m \in Materials, NEW h, h = BindMaterial(g, m)
  PROVE  /\ IsContext(h) /\ BoundIn(h, m) /\ h.vao = m /\ h.caps = settings[m]
         /\ h.target = g.target /\ h.viewport = g.viewport
         /\ \A S \in SUBSET DOMAIN g.slots :
              LeavesFree(m, S) => \A x \in S : h.slots[x] = g.slots[x]
<1>1. m \in DOMAIN Object
  BY DrawAssumption DEF DrawAssumption
<1>2. PICK b : b = BindObject(g, m)
  OBVIOUS
<1>3. /\ IsContext(b) /\ BoundIn(b, m)
      /\ b.target = g.target /\ b.viewport = g.viewport
      /\ \A S \in SUBSET DOMAIN g.slots :
           LeavesFree(m, S) => \A x \in S : b.slots[x] = g.slots[x]
  BY <1>1, <1>2, ObjectIsBound
<1>4. h = [b EXCEPT !.vao = m, !.caps = settings[m]]
  BY <1>2 DEF BindMaterial
<1>5. /\ DOMAIN h = Fields /\ h.vao = m /\ h.caps = settings[m]
      /\ h.program = b.program /\ h.units = b.units /\ h.slots = b.slots
      /\ h.target = b.target /\ h.viewport = b.viewport
  BY <1>3, <1>4 DEF IsContext, Fields
<1> QED BY <1>3, <1>5 DEF IsContext, BoundIn

\* The bindings of a batch exist.
LEMMA BatchIsBound ==
  ASSUME NEW g, IsContext(g), NEW c, NEW h, h = BindBatch(g, c)
  PROVE  /\ IsContext(h)
         /\ h.target = g.target /\ h.viewport = g.viewport
         /\ h.slots[<<"uniform", 0>>] = Name(c.camera)
         /\ h.slots[<<"storage", 0>>] = c.batch
         /\ h.slots[<<"storage", 1>>] = c.draws
         /\ ForShader \subseteq DOMAIN h.slots /\ ForDraw \subseteq DOMAIN h.slots
<1>1. {<<"uniform", 0>>, <<"storage", 0>>, <<"storage", 1>>} \subseteq Kinds \X (0 .. Slots - 1)
  <2>1. Slots \in Nat /\ Slots >= 2
    BY DrawAssumption DEF DrawAssumption
  <2>2. 0 \in 0 .. Slots - 1 /\ 1 \in 0 .. Slots - 1
    BY <2>1
  <2> QED BY <2>2 DEF Kinds
<1>2. /\ DOMAIN h = Fields /\ h.target = g.target /\ h.viewport = g.viewport /\ h.units = g.units
      /\ h.slots = [g.slots EXCEPT ![<<"uniform", 0>>] = Name(c.camera),
                                   ![<<"storage", 0>>] = c.batch,
                                   ![<<"storage", 1>>] = c.draws]
  BY DEF BindBatch, IsContext, Fields
<1>3. /\ DOMAIN h.slots = DOMAIN g.slots
      /\ h.slots[<<"uniform", 0>>] = Name(c.camera)
      /\ h.slots[<<"storage", 0>>] = c.batch
      /\ h.slots[<<"storage", 1>>] = c.draws
  BY <1>1, <1>2 DEF IsContext
<1> QED BY <1>1, <1>2, <1>3 DEF IsContext, ForShader, ForDraw

-----------------------------------------------------------------------------
(* The invariant of the bindings *)

\* a resize waits for the next frame
ResizeIsTaken == dpc # "idle" => ~didResize

\* nothing but scenes sets the target, nothing but they and a resize the viewport
WindowIsAimedAt ==
  OnlyWindow => gl.target = "window" /\ (didResize \/ gl.viewport = winSize)

\* the material of a bind, which the mesh after it draws with
MaterialIsSet ==
  Executed({"bind", "mesh", "scene"}) =>
    /\ BoundIn(gl, DrawnMaterial)
    /\ gl.vao = DrawnMaterial
    /\ gl.caps = settings[DrawnMaterial]

SceneIsAimedAt ==
  dpc = "shader" =>
    /\ dat <= Len(pipeline)
    /\ gl.target = Target[Current.camera]
    /\ gl.viewport = IF gl.target = "window" THEN winSize ELSE 0

\* while the shaders of a batch run: the last of them, and what it left alone
ShaderIsSet ==
  dpc = "shader" /\ ds > 1 =>
    LET s == Current.shaders[ds - 1] IN
    /\ BoundIn(gl, s)
    /\ LeavesFree(s, ForDraw) => /\ gl.slots[<<"uniform", 0>>] = Name(Current.camera)
                                 /\ gl.slots[<<"storage", 0>>] = Current.batch
    /\ LeavesFree(s, ForShader) => gl.slots[<<"storage", 1>>] = Current.draws

DrawInv ==
  /\ DrawTypes /\ IsContext(gl)
  /\ ResizeIsTaken /\ WindowIsAimedAt /\ MaterialIsSet
  /\ SceneIsAimedAt /\ ShaderIsSet /\ SceneDrawsUseTheirCamera

LEMMA DrawStarts == DrawInit => DrawInv
<1> SUFFICES ASSUME DrawInit PROVE DrawInv
  OBVIOUS
<1>1. /\ gl.target = "window" /\ gl.viewport = 1 /\ gl.caps = {"write"} /\ IsContext(gl)
      /\ winSize = 1 /\ dpc = "idle" /\ dat = 1 /\ ds = 1 /\ drawChanges = 0 /\ turn = 0
      /\ didResize = TRUE /\ pipeline \in Pipelines
      /\ settings = [m \in Materials |-> {"test", "write", "cull"}]
  BY DEF DrawInit, IsContext, Fields
<1>2. Len(pipeline) \in Nat /\ MaxSize \in Nat /\ MaxSize >= 1 /\ MaxDrawChanges \in Nat
  BY <1>1, DrawAssumption DEF DrawAssumption, IsList
<1>3. settings \in [Materials -> SUBSET MaterialSettings] /\ gl.caps \subseteq MaterialSettings
  BY <1>1 DEF MaterialSettings
<1>4. DrawTypes
  <2>1. 1 \in 1 .. MaxSize /\ 1 \in 0 .. MaxSize /\ 1 \in 1 .. Len(pipeline) + 1 /\ 0 \in 0 .. MaxDrawChanges
    BY <1>2
  <2> QED BY <1>1, <1>3, <2>1 DEF DrawTypes, IsContext
<1> QED
  BY <1>1, <1>4 DEF DrawInv, ResizeIsTaken, WindowIsAimedAt, MaterialIsSet, SceneIsAimedAt,
                    ShaderIsSet, SceneDrawsUseTheirCamera, Executed

\* the current command is one
LEMMA CurrentIsCommand ==
  ASSUME DrawTypes, dat <= Len(pipeline)
  PROVE  /\ dat \in DOMAIN pipeline /\ IsCommand(Current) /\ Len(pipeline) \in Nat
         /\ dat + 1 \in 1 .. Len(pipeline) + 1 /\ dat + 1 > 1 /\ (dat + 1) - 1 = dat
         /\ Current.kind = "mesh" => dat > 1 /\ pipeline[dat - 1].kind = "bind"
<1>1. pipeline \in Pipelines /\ dat \in 1 .. Len(pipeline) + 1
  BY DEF DrawTypes
<1>2. IsList(pipeline)
  BY <1>1, DrawAssumption DEF DrawAssumption
<1>3. dat \in DOMAIN pipeline /\ Len(pipeline) \in Nat
  BY <1>1, <1>2 DEF IsList
<1> QED BY <1>1, <1>3, DrawAssumption DEF DrawAssumption, Current

\* Between two frames no command has been executed.
LEMMA IdleKeepsBindings ==
  ASSUME DrawInv,
         \/ Tick
         \/ \E m \in Materials, s \in SUBSET MaterialSettings : SetSettings(m, s)
         \/ \E s \in 1 .. MaxSize : Resize(s)
         \/ BeginFrame
         \/ EndDraws
  PROVE  DrawInv'
<1> USE DEF DrawInv
<1>1. /\ pipeline' = pipeline /\ dpc \in {"idle", "next"}
      /\ dpc' # "shader" /\ (dpc' = "next" => dat' = 1)
      /\ ds' = ds
  BY DEF Tick, SetSettings, Resize, BeginFrame, EndDraws, world
<1>2. /\ gl' = gl \/ (didResize /\ gl' = [gl EXCEPT !.viewport = winSize])
      /\ dpc' # "idle" => ~didResize'
      /\ (didResize' \/ gl'.viewport = winSize') \/ ~(didResize \/ gl.viewport = winSize)
  BY DEF Tick, SetSettings, Resize, BeginFrame, EndDraws, world, DrawTypes, ResizeIsTaken,
         IsContext, Fields
<1>3. /\ DOMAIN gl' = Fields /\ gl'.target = gl.target /\ gl'.units = gl.units
      /\ gl'.slots = gl.slots /\ gl'.caps = gl.caps
      /\ gl'.viewport \in {gl.viewport, winSize}
  BY <1>2 DEF IsContext, Fields
<1>4. IsContext(gl')
  BY <1>3 DEF IsContext
<1>5. DrawTypes'
  <2>1. gl'.viewport \in 0 .. MaxSize
    BY <1>3 DEF DrawTypes
  <2>2. settings' \in [Materials -> SUBSET MaterialSettings]
    <3>1. ASSUME NEW m \in Materials, NEW s \in SUBSET MaterialSettings, SetSettings(m, s)
          PROVE  settings' \in [Materials -> SUBSET MaterialSettings]
      BY <3>1 DEF SetSettings, DrawTypes
    <3>2. CASE UNCHANGED settings
      BY <3>2 DEF DrawTypes
    <3> QED BY <3>1, <3>2 DEF Tick, Resize, BeginFrame, EndDraws, world
  <2>6. turn' \in {0, 1} /\ winSize' \in 1 .. MaxSize /\ didResize' \in BOOLEAN
    <3>1. turn' \in {turn, 1 - turn}
      BY DEF Tick, SetSettings, Resize, BeginFrame, EndDraws, world
    <3>2. winSize' \in 1 .. MaxSize
      BY DEF Tick, SetSettings, Resize, BeginFrame, EndDraws, world, DrawTypes
    <3>3. didResize' \in {didResize, TRUE, FALSE}
      BY DEF Tick, SetSettings, Resize, BeginFrame, EndDraws, world
    <3>4. didResize \in BOOLEAN
      BY DEF DrawTypes
    <3>5. didResize' \in BOOLEAN
      BY <3>3, <3>4, Zenon
    <3>6. turn' \in {0, 1}
      BY <3>1 DEF DrawTypes
    <3> QED BY <3>2, <3>5, <3>6, Zenon
  <2>7. dpc' \in {"idle", "next"}
    BY DEF Tick, SetSettings, Resize, BeginFrame, EndDraws, DrawTypes
  <2>3. drawChanges' \in 0 .. MaxDrawChanges
    <3>1. MaxDrawChanges \in Nat
      BY DrawAssumption DEF DrawAssumption
    <3> QED
      BY <3>1 DEF Tick, SetSettings, Resize, BeginFrame, EndDraws, world, DrawTypes
  <2>4. dat' \in 1 .. Len(pipeline') + 1
    <3>1. dat' \in {1, dat} /\ pipeline \in Pipelines /\ dat \in 1 .. Len(pipeline) + 1
      BY DEF Tick, SetSettings, Resize, BeginFrame, EndDraws, world, DrawTypes
    <3>2. Len(pipeline) \in Nat
      BY <3>1, DrawAssumption DEF DrawAssumption, IsList
    <3> QED BY <1>1, <3>1, <3>2
  <2>5. ds' = 1
    BY <1>1 DEF DrawTypes
  <2> QED BY <1>1, <1>3, <2>1, <2>2, <2>3, <2>4, <2>5, <2>6, <2>7 DEF DrawTypes, IsContext
<1>6. WindowIsAimedAt'
  BY <1>1, <1>2, <1>3 DEF WindowIsAimedAt, OnlyWindow
<1>7. /\ ResizeIsTaken' /\ MaterialIsSet' /\ SceneIsAimedAt' /\ ShaderIsSet'
      /\ SceneDrawsUseTheirCamera'
  <2>1. ~ (dpc' = "next" /\ dat' > 1)
    BY <1>1
  <2> QED BY <1>1, <1>2, <2>1 DEF ResizeIsTaken, MaterialIsSet, SceneIsAimedAt, ShaderIsSet,
                                  SceneDrawsUseTheirCamera, Executed
<1> QED BY <1>4, <1>5, <1>6, <1>7

\* What every step within a command leaves alone.
LEMMA WithinFrame ==
  ASSUME DrawInv, dpc # "idle", UNCHANGED <<world, didResize>>, dpc' \in {"next", "shader"},
         IsContext(gl'), gl'.target = gl.target, gl'.viewport = gl.viewport
  PROVE  ResizeIsTaken' /\ WindowIsAimedAt'
<1> QED
  BY DEF DrawInv, world, ResizeIsTaken, WindowIsAimedAt, OnlyWindow

LEMMA CommandTypes ==
  ASSUME DrawInv, dat <= Len(pipeline), UNCHANGED <<world, didResize>>, NextCommand,
         IsContext(gl'), gl'.target = gl.target, gl'.viewport = gl.viewport,
         gl'.caps \subseteq MaterialSettings
  PROVE  /\ DrawTypes'
         /\ dat' > 1 /\ dat' - 1 = dat /\ pipeline' = pipeline /\ turn' = turn
         /\ settings' = settings /\ winSize' = winSize
         /\ LastCmd' = Current
<1>1. dat' = dat + 1 /\ dpc' = "next" /\ ds' = 1
  BY DEF NextCommand
<1>2. pipeline' = pipeline /\ settings' = settings /\ turn' = turn /\ winSize' = winSize
      /\ drawChanges' = drawChanges /\ didResize' = didResize
  BY DEF world
<1>3. dat + 1 \in 1 .. Len(pipeline) + 1 /\ dat + 1 > 1 /\ (dat + 1) - 1 = dat
  BY CurrentIsCommand DEF DrawInv
<1>4. DrawTypes'
  BY <1>1, <1>2, <1>3 DEF DrawInv, DrawTypes, IsContext
<1>5. LastCmd' = Current
  BY <1>1, <1>2, <1>3 DEF LastCmd, Current
<1> QED BY <1>1, <1>2, <1>3, <1>4, <1>5

\* Command_BindMaterial, Command_DrawMesh: the mesh finds what the bind before it set.
LEMMA BindKeepsBindings ==
  ASSUME DrawInv, Bind
  PROVE  DrawInv'
<1> USE DEF DrawInv
<1>1. /\ dpc = "next" /\ dat <= Len(pipeline) /\ Current.kind = "bind"
      /\ gl' = BindMaterial(gl, Current.material) /\ NextCommand
      /\ UNCHANGED <<world, didResize>>
  BY DEF Bind, Ready
<1>2. Current.material \in Materials
  BY <1>1, CurrentIsCommand DEF IsCommand
<1>3. PICK h, m : h = gl' /\ m = Current.material
  OBVIOUS
<1>4. /\ IsContext(h) /\ BoundIn(h, m) /\ h.vao = m /\ h.caps = settings[m]
      /\ h.target = gl.target /\ h.viewport = gl.viewport
  BY <1>1, <1>2, <1>3, MaterialIsBound
<1>5. settings[m] \subseteq MaterialSettings
  BY <1>2, <1>3 DEF DrawTypes
<1>6. /\ DrawTypes' /\ dat' > 1 /\ dat' - 1 = dat /\ pipeline' = pipeline
      /\ turn' = turn /\ settings' = settings /\ LastCmd' = Current
  BY <1>1, <1>3, <1>4, <1>5, CommandTypes
<1>7. ResizeIsTaken' /\ WindowIsAimedAt'
  BY <1>1, <1>3, <1>4, WithinFrame DEF NextCommand
<1>8. MaterialIsSet'
  <2>1. DrawnMaterial' = m
    BY <1>1, <1>3, <1>6 DEF DrawnMaterial
  <2>2. BoundIn(h, m)'
    BY <1>4, <1>6 DEF BoundIn, Name
  <2> QED BY <1>3, <1>4, <1>6, <2>1, <2>2 DEF MaterialIsSet, BoundIn
<1>9. SceneIsAimedAt' /\ ShaderIsSet' /\ SceneDrawsUseTheirCamera'
  BY <1>1, <1>6 DEF SceneIsAimedAt, ShaderIsSet, SceneDrawsUseTheirCamera, Executed,
                    NextCommand, LastCmd
<1> QED BY <1>3, <1>4, <1>6, <1>7, <1>8, <1>9

LEMMA MeshKeepsBindings ==
  ASSUME DrawInv, DrawMesh
  PROVE  DrawInv'
<1> USE DEF DrawInv
<1>1. /\ dpc = "next" /\ dat <= Len(pipeline) /\ Current.kind = "mesh"
      /\ gl' = gl /\ NextCommand /\ UNCHANGED <<world, didResize>>
  BY DEF DrawMesh, Ready
<1>2. dat > 1 /\ pipeline[dat - 1].kind = "bind"
  BY <1>1, CurrentIsCommand
<1>3. /\ DrawTypes' /\ dat' > 1 /\ dat' - 1 = dat /\ pipeline' = pipeline
      /\ turn' = turn /\ settings' = settings /\ LastCmd' = Current
  <2>1. gl.caps \subseteq MaterialSettings
    BY DEF DrawTypes
  <2> QED BY <1>1, <2>1, CommandTypes
<1>4. ResizeIsTaken' /\ WindowIsAimedAt'
  BY <1>1, WithinFrame DEF NextCommand
<1>5. MaterialIsSet'
  <2>1. DrawnMaterial' = pipeline[dat - 1].material
    <3>1. dat' - 2 = dat - 1
      BY <1>1, <1>3 DEF NextCommand, DrawTypes
    <3> QED BY <1>1, <1>3, <3>1 DEF DrawnMaterial
  <2>2. DrawnMaterial = pipeline[dat - 1].material
    BY <1>2 DEF DrawnMaterial, LastCmd
  <2>3. /\ BoundIn(gl, DrawnMaterial)
        /\ gl.vao = DrawnMaterial /\ gl.caps = settings[DrawnMaterial]
    BY <1>1, <1>2 DEF MaterialIsSet, Executed
  <2>4. PICK m : m = DrawnMaterial
    OBVIOUS
  <2>5. BoundIn(gl, m)'
    BY <1>1, <1>3, <2>3, <2>4 DEF BoundIn, Name
  <2> QED BY <1>1, <1>3, <2>1, <2>2, <2>3, <2>4, <2>5 DEF MaterialIsSet, BoundIn
<1>6. SceneIsAimedAt' /\ ShaderIsSet' /\ SceneDrawsUseTheirCamera'
  BY <1>1, <1>3 DEF SceneIsAimedAt, ShaderIsSet, SceneDrawsUseTheirCamera, Executed,
                    NextCommand, LastCmd
<1> QED BY <1>1, <1>3, <1>4, <1>5, <1>6

\* Command_DispatchCompute binds over what single meshes and scenes need, but none is
\* drawn before its own commands.
LEMMA DispatchKeepsBindings ==
  ASSUME DrawInv, DispatchCompute
  PROVE  DrawInv'
<1> USE DEF DrawInv
<1>1. /\ dpc = "next" /\ dat <= Len(pipeline) /\ Current.kind = "dispatch"
      /\ gl' = BindObject(gl, Current.compute) /\ NextCommand
      /\ UNCHANGED <<world, didResize>>
  BY DEF DispatchCompute, Ready
<1>2. Current.compute \in DOMAIN Object
  BY <1>1, CurrentIsCommand DEF IsCommand
<1>3. PICK h, o : h = gl' /\ o = Current.compute
  OBVIOUS
<1>4. IsContext(h) /\ h.target = gl.target /\ h.viewport = gl.viewport /\ h.caps = gl.caps
  BY <1>1, <1>2, <1>3, ObjectIsBound
<1>5. h.caps \subseteq MaterialSettings
  BY <1>4 DEF DrawTypes
<1>6. /\ DrawTypes' /\ dat' > 1 /\ dat' - 1 = dat /\ pipeline' = pipeline /\ LastCmd' = Current
  BY <1>1, <1>3, <1>4, <1>5, CommandTypes
<1>7. ResizeIsTaken' /\ WindowIsAimedAt'
  BY <1>1, <1>3, <1>4, WithinFrame DEF NextCommand
<1>8. /\ MaterialIsSet' /\ SceneIsAimedAt' /\ ShaderIsSet' /\ SceneDrawsUseTheirCamera'
  BY <1>1, <1>6 DEF MaterialIsSet, SceneIsAimedAt, ShaderIsSet, SceneDrawsUseTheirCamera,
                    Executed, NextCommand, LastCmd
<1> QED BY <1>3, <1>4, <1>6, <1>7, <1>8

\* Command_DrawMeshesIndirect sets its target before anything else.
LEMMA AimKeepsBindings ==
  ASSUME DrawInv, Aim
  PROVE  DrawInv'
<1> USE DEF DrawInv
<1> DEFINE target == Target[Current.camera]
<1>1. /\ dpc = "next" /\ dat <= Len(pipeline) /\ Current.kind = "scene"
      /\ gl' = [gl EXCEPT !.target = target, !.viewport = IF target = "window" THEN winSize ELSE 0]
      /\ dpc' = "shader" /\ UNCHANGED <<world, didResize, dat, ds>>
  BY DEF Aim, Ready
<1>2. /\ dat \in DOMAIN pipeline /\ Current.camera \in DOMAIN Target
      /\ Len(Current.shaders) \in Nat
  BY <1>1, CurrentIsCommand DEF IsCommand
<1>3. target \in {"window", "framebuffer"}
  BY <1>2, DrawAssumption DEF DrawAssumption
<1>4. /\ IsContext(gl') /\ gl'.target = target
      /\ gl'.viewport = (IF target = "window" THEN winSize ELSE 0)
      /\ gl'.units = gl.units /\ gl'.slots = gl.slots /\ gl'.caps = gl.caps
  BY <1>1 DEF IsContext, Fields
<1>5. /\ pipeline' = pipeline /\ settings' = settings /\ turn' = turn /\ winSize' = winSize
      /\ drawChanges' = drawChanges /\ didResize' = didResize /\ dat' = dat /\ ds' = ds
      /\ Current' = Current
  BY <1>1 DEF world, Current
<1>6. ds = 1
  BY <1>1 DEF DrawTypes
<1>7. gl'.viewport \in 0 .. MaxSize
  <2>1. MaxSize \in Nat
    BY DrawAssumption DEF DrawAssumption
  <2> QED BY <1>4, <2>1 DEF DrawTypes
<1>8. DrawTypes'
  <2>1. Current'.kind = "scene" /\ ds' \in 1 .. Len(Current'.shaders) + 1
    BY <1>1, <1>2, <1>5, <1>6
  <2> QED BY <1>1, <1>3, <1>4, <1>5, <1>7, <2>1 DEF DrawTypes, IsContext
<1>9. ResizeIsTaken' /\ MaterialIsSet' /\ ShaderIsSet' /\ SceneDrawsUseTheirCamera'
  BY <1>1, <1>5, <1>6 DEF ResizeIsTaken, MaterialIsSet, ShaderIsSet, SceneDrawsUseTheirCamera,
                          Executed
<1>10. WindowIsAimedAt'
  BY <1>1, <1>2, <1>4, <1>5 DEF WindowIsAimedAt, OnlyWindow, Current
<1>11. SceneIsAimedAt'
  BY <1>1, <1>4, <1>5 DEF SceneIsAimedAt
<1> QED BY <1>4, <1>8, <1>9, <1>10, <1>11

\* ... gives each batch shader the bindings of the batch, and leaves those that it
\* does not take ...
LEMMA ShaderKeepsBindings ==
  ASSUME DrawInv, BatchShader
  PROVE  DrawInv'
<1> USE DEF DrawInv
<1>1. /\ dpc = "shader" /\ ds <= Len(Current.shaders)
      /\ gl' = BindObject(BindBatch(gl, Current), Current.shaders[ds])
      /\ ds' = ds + 1 /\ UNCHANGED <<world, didResize, dpc, dat>>
  BY DEF BatchShader
<1>2. /\ pipeline' = pipeline /\ settings' = settings /\ turn' = turn /\ winSize' = winSize
      /\ drawChanges' = drawChanges /\ didResize' = didResize /\ dat' = dat /\ dpc' = dpc
      /\ Current' = Current
  BY <1>1 DEF world, Current
<1>3. Current.kind = "scene" /\ ds \in 1 .. Len(Current.shaders) + 1
  BY <1>1 DEF DrawTypes
<1>4. Current.shaders \in Seq(DOMAIN Object) /\ dat <= Len(pipeline)
  <2>1. dat <= Len(pipeline)
    BY <1>1 DEF SceneIsAimedAt
  <2> QED BY <1>3, <2>1, CurrentIsCommand DEF IsCommand
<1>5. /\ ds + 1 \in 1 .. Len(Current.shaders) + 1 /\ (ds + 1) - 1 = ds
      /\ Current.shaders[ds] \in DOMAIN Object
  BY <1>1, <1>3, <1>4
<1>6. PICK b, h, o, c : /\ b = BindBatch(gl, c) /\ h = gl' /\ o = Current.shaders[ds]
                        /\ c = Current
  OBVIOUS
<1>7. /\ IsContext(b) /\ b.target = gl.target /\ b.viewport = gl.viewport
      /\ b.slots[<<"uniform", 0>>] = Name(c.camera)
      /\ b.slots[<<"storage", 0>>] = c.batch
      /\ b.slots[<<"storage", 1>>] = c.draws
      /\ ForShader \subseteq DOMAIN b.slots /\ ForDraw \subseteq DOMAIN b.slots
  BY <1>6, BatchIsBound
<1>8. /\ IsContext(h) /\ BoundIn(h, o)
      /\ h.target = b.target /\ h.viewport = b.viewport /\ h.caps = b.caps
      /\ \A S \in SUBSET DOMAIN b.slots :
           LeavesFree(o, S) => \A x \in S : h.slots[x] = b.slots[x]
  BY <1>1, <1>5, <1>6, <1>7, ObjectIsBound
<1>9. b.caps = gl.caps
  BY <1>6 DEF BindBatch, IsContext, Fields
<1>10. DrawTypes'
  <2>1. Current'.kind = "scene" /\ ds' \in 1 .. Len(Current'.shaders) + 1
    BY <1>1, <1>2, <1>3, <1>5
  <2> QED BY <1>1, <1>2, <1>6, <1>7, <1>8, <1>9, <2>1 DEF DrawTypes, IsContext
<1>11. ResizeIsTaken' /\ WindowIsAimedAt'
  BY <1>1, <1>2, <1>6, <1>7, <1>8, WithinFrame
<1>12. MaterialIsSet' /\ SceneDrawsUseTheirCamera' /\ SceneIsAimedAt'
  BY <1>1, <1>2, <1>4, <1>6, <1>7, <1>8 DEF MaterialIsSet, SceneDrawsUseTheirCamera, SceneIsAimedAt,
                                      Executed
<1>13. ShaderIsSet'
  <2>1. Current'.shaders[ds' - 1] = o
    BY <1>1, <1>2, <1>5, <1>6
  <2>2. LeavesFree(o, ForDraw) => /\ h.slots[<<"uniform", 0>>] = Name(c.camera)
                                  /\ h.slots[<<"storage", 0>>] = c.batch
    BY <1>7, <1>8 DEF ForDraw
  <2>3. LeavesFree(o, ForShader) => h.slots[<<"storage", 1>>] = c.draws
    BY <1>7, <1>8 DEF ForShader
  <2>4. BoundIn(h, o)' /\ Name(c.camera)' = Name(c.camera)
    BY <1>2, <1>8 DEF BoundIn, Name
  <2> QED
    BY <1>2, <1>6, <2>1, <2>2, <2>3, <2>4 DEF ShaderIsSet, BoundIn, LeavesFree
<1> QED BY <1>6, <1>8, <1>10, <1>11, <1>12, <1>13

\* ... and the draw finds its material, and the camera and the batch if the material
\* leaves them free.
LEMMA DrawKeepsBindings ==
  ASSUME DrawInv, DrawBatch
  PROVE  DrawInv'
<1> USE DEF DrawInv
<1>1. /\ dpc = "shader" /\ ds > Len(Current.shaders)
      /\ gl' = BindMaterial(gl, Current.material) /\ NextCommand
      /\ UNCHANGED <<world, didResize>>
  BY DEF DrawBatch
<1>2. Current.kind = "scene" /\ ds \in 1 .. Len(Current.shaders) + 1
  BY <1>1 DEF DrawTypes
<1>3. dat <= Len(pipeline)
  BY <1>1 DEF SceneIsAimedAt
<1>4. Current.material \in Materials /\ Current.shaders \in Seq(DOMAIN Object)
  BY <1>2, <1>3, CurrentIsCommand DEF IsCommand
<1>5. PICK h, m, c : h = gl' /\ m = c.material /\ c = Current
  OBVIOUS
<1>6. /\ IsContext(h) /\ BoundIn(h, m) /\ h.vao = m /\ h.caps = settings[m]
      /\ h.target = gl.target /\ h.viewport = gl.viewport
      /\ \A S \in SUBSET DOMAIN gl.slots :
           LeavesFree(m, S) => \A x \in S : h.slots[x] = gl.slots[x]
  BY <1>1, <1>4, <1>5, MaterialIsBound
<1>7. settings[m] \subseteq MaterialSettings
  BY <1>4, <1>5 DEF DrawTypes
<1>8. /\ DrawTypes' /\ dat' > 1 /\ dat' - 1 = dat /\ pipeline' = pipeline
      /\ turn' = turn /\ settings' = settings /\ winSize' = winSize /\ LastCmd' = c
  BY <1>1, <1>3, <1>5, <1>6, <1>7, CommandTypes
<1>9. ResizeIsTaken' /\ WindowIsAimedAt'
  BY <1>1, <1>5, <1>6, WithinFrame DEF NextCommand
<1>10. MaterialIsSet'
  <2>1. DrawnMaterial' = m
    BY <1>2, <1>5, <1>8 DEF DrawnMaterial
  <2>2. BoundIn(h, m)'
    BY <1>6, <1>8 DEF BoundIn, Name
  <2> QED BY <1>5, <1>6, <1>8, <2>1, <2>2 DEF MaterialIsSet, BoundIn
<1>11. SceneIsAimedAt' /\ ShaderIsSet'
  BY <1>1 DEF SceneIsAimedAt, ShaderIsSet, NextCommand
<1>12. SceneDrawsUseTheirCamera'
  <2>1. gl.target = Target[c.camera] /\ gl.viewport = IF gl.target = "window" THEN winSize ELSE 0
    BY <1>1, <1>5 DEF SceneIsAimedAt
  <2>2. ASSUME c.shaders # <<>>, LeavesFree(m, ForDraw),
               \A i \in DOMAIN c.shaders : LeavesFree(c.shaders[i], ForDraw)
        PROVE  /\ h.slots[<<"uniform", 0>>] = Name(c.camera)
               /\ h.slots[<<"storage", 0>>] = c.batch
    <3>1. ds > 1 /\ ds - 1 \in DOMAIN c.shaders
      BY <1>1, <1>2, <1>4, <1>5, <2>2
    <3>2. /\ gl.slots[<<"uniform", 0>>] = Name(c.camera)
          /\ gl.slots[<<"storage", 0>>] = c.batch
      BY <1>1, <1>5, <2>2, <3>1 DEF ShaderIsSet
    <3>3. ForDraw \subseteq DOMAIN gl.slots
      <4>1. Slots \in Nat /\ Slots >= 2
        BY DrawAssumption DEF DrawAssumption
      <4>2. 0 \in 0 .. Slots - 1
        BY <4>1
      <4> QED BY <4>2 DEF ForDraw, IsContext, Kinds
    <3> QED BY <1>6, <2>2, <3>2, <3>3 DEF ForDraw
  <2>3. Name(c.camera)' = Name(c.camera)
    BY <1>8 DEF Name
  <2> QED
    BY <1>5, <1>6, <1>8, <2>1, <2>2, <2>3 DEF SceneDrawsUseTheirCamera, LeavesFree
<1> QED BY <1>5, <1>6, <1>8, <1>9, <1>10, <1>11, <1>12

LEMMA DrawSteps == DrawInv /\ [DrawNext]_drawVars => DrawInv'
<1> SUFFICES ASSUME DrawInv, [DrawNext]_drawVars PROVE DrawInv'
  OBVIOUS
<1>1. CASE UNCHANGED drawVars
  <2>1. UNCHANGED <<pipeline, settings, turn, winSize, drawChanges, didResize, gl, dpc, dat, ds>>
    BY <1>1 DEF drawVars, world
  <2>2. DrawTypes' /\ IsContext(gl')
    BY <2>1 DEF DrawInv, DrawTypes, IsContext, Current
  <2>3. ResizeIsTaken' /\ WindowIsAimedAt' /\ SceneIsAimedAt'
    BY <2>1 DEF DrawInv, ResizeIsTaken, WindowIsAimedAt, OnlyWindow, SceneIsAimedAt, Current
  <2>4. MaterialIsSet'
    BY <2>1 DEF DrawInv, MaterialIsSet, BoundIn, Executed, DrawnMaterial, LastCmd, Name
  <2>5. ShaderIsSet'
    BY <2>1 DEF DrawInv, ShaderIsSet, BoundIn, LeavesFree, Current, Name
  <2>6. SceneDrawsUseTheirCamera'
    BY <2>1 DEF DrawInv, SceneDrawsUseTheirCamera, LeavesFree, Executed, LastCmd, Name
  <2> QED BY <2>2, <2>3, <2>4, <2>5, <2>6 DEF DrawInv
<1> QED
  BY <1>1, IdleKeepsBindings, BindKeepsBindings, MeshKeepsBindings, DispatchKeepsBindings,
     AimKeepsBindings, ShaderKeepsBindings, DrawKeepsBindings DEF DrawNext

\* The variables keep their types, for every pipeline and order of commands.
THEOREM DrawKeepsTypes == DrawSpec => []DrawTypes
<1>1. DrawInv => DrawTypes
  BY DEF DrawInv
<1> QED
  BY <1>1, DrawStarts, DrawSteps, PTL DEF DrawSpec

\* What commands draw or dispatch finds its own program, data, settings and target
\* bound, for every pipeline, in every frame.
THEOREM BindingsStayOwn == DrawSpec => []BindingsAreOwn
<1>1. DrawInv => BindingsAreOwn
  <2> SUFFICES ASSUME DrawInv PROVE BindingsAreOwn
    OBVIOUS
  <2>1. DrawsUseTheirMaterial
    BY DEF DrawInv, MaterialIsSet, DrawsUseTheirMaterial, Executed, BoundIn, Bound
  <2>2. ShadersSeeTheirBatch
    <3> SUFFICES ASSUME dpc = "shader", ds > 1, NEW s, s = Current.shaders[ds - 1]
                 PROVE  /\ Bound(s)
                        /\ LeavesFree(s, ForShader) =>
                             /\ gl.slots[<<"uniform", 0>>] = Name(Current.camera)
                             /\ gl.slots[<<"storage", 0>>] = Current.batch
                             /\ gl.slots[<<"storage", 1>>] = Current.draws
      BY DEF ShadersSeeTheirBatch
    <3>1. LeavesFree(s, ForShader) => LeavesFree(s, ForDraw)
      BY DEF LeavesFree, ForShader
    <3>2. Bound(s) <=> BoundIn(gl, s)
      BY DEF Bound, BoundIn
    <3> QED BY <3>1, <3>2 DEF DrawInv, ShaderIsSet
  <2>3. MeshesFillTheWindow
    BY DEF DrawInv, MeshesFillTheWindow, WindowIsAimedAt, ResizeIsTaken, Executed
  <2> QED BY <2>1, <2>2, <2>3 DEF DrawInv, BindingsAreOwn
<1> QED
  BY <1>1, DrawStarts, DrawSteps, PTL DEF DrawSpec

-----------------------------------------------------------------------------
(* What a frame draws: sequences and bijections *)

\* A sequence, of whatever.
IsSeq(s) == \E S : s \in Seq(S)

\* SMT knows the length and the domain of a sequence.
LEMMA SeqFacts ==
  ASSUME NEW s, IsSeq(s)
  PROVE  Len(s) \in Nat /\ DOMAIN s = 1 .. Len(s)
BY DEF IsSeq

\* A function on 1 .. n is a sequence.
LEMMA FunctionIsSeq ==
  ASSUME NEW n \in Nat, NEW S, NEW f \in [1 .. n -> S]
  PROVE  f \in Seq(S) /\ IsSeq(f) /\ Len(f) = n
<1>1. f \in Seq(S)
  BY SeqDef, Zenon
<1>2. Len(f) \in Nat /\ DOMAIN f = 1 .. Len(f) /\ DOMAIN f = 1 .. n
  BY <1>1
<1>3. Len(f) = n
  BY <1>2
<1> QED BY <1>1, <1>3, Zenon DEF IsSeq

\* A bijection between S and T.
OneToOne(f, S, T) ==
  /\ f \in [S -> T]
  /\ \A a, b \in S : f[a] = f[b] => a = b
  /\ \A t \in T : \E s \in S : f[s] = t

\* The places of all elements of the first n sequences.
Places(seqs, n) == UNION {{i} \X DOMAIN seqs[i] : i \in 1 .. n}

\* pos[x] is where the x-th element of flat comes from.
ComesFrom(pos, flat, seqs, n) ==
  /\ OneToOne(pos, DOMAIN flat, Places(seqs, n))
  /\ \A x \in DOMAIN flat : flat[x] = seqs[pos[x][1]][pos[x][2]]

\* The rounds of FlattenSeq.
Flat(f, n, seqs) ==
  f = [i \in 1 .. n |-> IF i = 1 THEN seqs[i] ELSE f[i - 1] \o seqs[i]]

\* The rounds exist.
LEMMA FlatExists ==
  ASSUME NEW n \in Nat, NEW seqs
  PROVE  \E f : Flat(f, n, seqs)
<1> DEFINE T == {m \in 0 .. n : \E f : Flat(f, m, seqs)}
<1>1. 0 \in T
  <2> DEFINE f == [i \in 1 .. 0 |-> 0]
  <2>1. Flat(f, 0, seqs)
    BY DEF Flat
  <2> QED BY <2>1
<1>2. ASSUME NEW m \in 0 .. n - 1, m \in T PROVE m + 1 \in T
  <2>1. PICK f : Flat(f, m, seqs)
    BY <1>2
  <2> DEFINE new == IF m = 0 THEN seqs[1] ELSE f[m] \o seqs[m + 1]
             g == [i \in 1 .. m + 1 |-> IF i = m + 1 THEN new ELSE f[i]]
             h == [i \in 1 .. m + 1 |-> IF i = 1 THEN seqs[i] ELSE g[i - 1] \o seqs[i]]
  <2>2. ASSUME NEW i \in 1 .. m + 1 PROVE g[i] = h[i]
    <3>1. CASE i = m + 1 /\ m # 0
      <4>1. m \in 1 .. m + 1 /\ m # m + 1 /\ i - 1 = m /\ i # 1
        BY <3>1
      <4>2. g[m] = f[m]
        BY <4>1
      <4> QED BY <3>1, <4>1, <4>2
    <3>2. CASE i # m + 1 /\ i # 1
      <4>1. i \in 1 .. m /\ i - 1 \in 1 .. m + 1 /\ i - 1 # m + 1
        BY <3>2
      <4>2. g[i] = f[i] /\ g[i - 1] = f[i - 1]
        BY <3>2, <4>1
      <4>3. f[i] = f[i - 1] \o seqs[i]
        BY <2>1, <3>2, <4>1 DEF Flat
      <4> QED BY <3>2, <4>2, <4>3
    <3>3. CASE i = 1 /\ m # 0
      <4>1. 1 \in 1 .. m /\ 1 # m + 1
        BY <3>3
      <4>2. f[1] = seqs[1]
        BY <2>1, <4>1 DEF Flat
      <4> QED BY <3>3, <4>1, <4>2
    <3>4. CASE m = 0
      BY <3>4
    <3> QED BY <3>1, <3>2, <3>3, <3>4
  <2>3. g = h
    BY <2>2
  <2>4. Flat(g, m + 1, seqs)
    BY <2>3 DEF Flat
  <2> QED BY <2>4
<1>3. \A m \in 0 .. n : m \in T
  <2> HIDE DEF T
  <2> QED BY <1>1, <1>2, UpTo
<1> QED BY <1>3

\* n + m numbers, of which the last m stand for i.
LEMMA OneMoreBlock ==
  ASSUME NEW n \in Nat, NEW m \in Nat, NEW T, NEW f, OneToOne(f, 1 .. n, T),
         NEW i, \A t \in T : t[1] # i
  PROVE  OneToOne([x \in 1 .. n + m |-> IF x <= n THEN f[x] ELSE <<i, x - n>>],
                  1 .. n + m, T \cup ({i} \X (1 .. m)))
<1> DEFINE p == [x \in 1 .. n + m |-> IF x <= n THEN f[x] ELSE <<i, x - n>>]
           B == {i} \X (1 .. m)
<1>1. ASSUME NEW x \in 1 .. n + m
      PROVE  /\ x <= n => p[x] = f[x] /\ f[x] \in T /\ x \in 1 .. n
             /\ ~(x <= n) => p[x] = <<i, x - n>> /\ x - n \in 1 .. m /\ <<i, x - n>> \in B
  <2>1. CASE x <= n
    <3>1. x \in 1 .. n
      BY <2>1
    <3> QED BY <2>1, <3>1 DEF OneToOne
  <2>2. CASE ~(x <= n)
    <3>1. x - n \in 1 .. m
      BY <2>2
    <3> QED BY <2>2, <3>1
  <2> QED BY <2>1, <2>2
<1>2. p \in [1 .. n + m -> T \cup B]
  <2> SUFFICES ASSUME NEW x \in 1 .. n + m PROVE p[x] \in T \cup B
    OBVIOUS
  <2> HIDE DEF p, B
  <2> QED BY <1>1
<1>3. ASSUME NEW x \in 1 .. n + m, NEW y \in 1 .. n + m, p[x] = p[y] PROVE x = y
  <2> HIDE DEF p, B
  <2>1. CASE x <= n /\ y <= n
    BY <1>1, <1>3, <2>1 DEF OneToOne
  <2>2. CASE ~(x <= n) /\ ~(y <= n)
    <3>1. <<i, x - n>> = <<i, y - n>>
      BY <1>1, <1>3, <2>2
    <3>2. x - n = y - n
      BY <3>1
    <3> QED BY <3>2
  <2>3. CASE x <= n /\ ~(y <= n)
    <3>1. p[x][1] # i /\ p[y] = <<i, y - n>>
      BY <1>1, <2>3
    <3> QED BY <1>3, <3>1
  <2>4. CASE ~(x <= n) /\ y <= n
    <3>1. p[y][1] # i /\ p[x] = <<i, x - n>>
      BY <1>1, <2>4
    <3> QED BY <1>3, <3>1
  <2> QED BY <2>1, <2>2, <2>3, <2>4
<1>4. ASSUME NEW t \in T \cup B PROVE \E x \in 1 .. n + m : p[x] = t
  <2>1. CASE t \in T
    <3>1. PICK x \in 1 .. n : f[x] = t
      BY <2>1 DEF OneToOne
    <3> QED BY <3>1
  <2>2. CASE t \in B
    <3>1. PICK k \in 1 .. m : t = <<i, k>>
      BY <2>2
    <3>2. n + k \in 1 .. n + m /\ ~(n + k <= n) /\ (n + k) - n = k
      OBVIOUS
    <3>3. p[n + k] = t
      BY <3>1, <3>2
    <3> QED BY <3>2, <3>3
  <2> QED BY <2>1, <2>2
<1> HIDE DEF p
<1> QED BY <1>2, <1>3, <1>4 DEF OneToOne, p

\* One more sequence: its elements come after the others.
LEMMA OneMore ==
  ASSUME NEW S, NEW seqs, NEW n \in Nat, NEW flat \in Seq(S), NEW pos,
         ComesFrom(pos, flat, seqs, n), seqs[n + 1] \in Seq(S)
  PROVE  \E p : ComesFrom(p, flat \o seqs[n + 1], seqs, n + 1)
<1> DEFINE new == seqs[n + 1]
           all == flat \o new
           l == Len(flat)
           m == Len(new)
           p == [x \in 1 .. l + m |-> IF x <= l THEN pos[x] ELSE <<n + 1, x - l>>]
<1>1. /\ l \in Nat /\ DOMAIN flat = 1 .. l
      /\ m \in Nat /\ DOMAIN new = 1 .. m
      /\ DOMAIN all = 1 .. l + m
  OBVIOUS
<1>2. ASSUME NEW x \in DOMAIN all PROVE all[x] = IF x <= l THEN flat[x] ELSE new[x - l]
  BY <1>1, ConcatProperties
<1>3. OneToOne(pos, 1 .. l, Places(seqs, n))
  BY <1>1 DEF ComesFrom
<1>4. \A t \in Places(seqs, n) : t[1] # n + 1
  BY DEF Places
<1>5. Places(seqs, n + 1) = Places(seqs, n) \cup ({n + 1} \X (1 .. m))
  <2>1. 1 .. n + 1 = (1 .. n) \cup {n + 1}
    OBVIOUS
  <2> QED BY <1>1, <2>1 DEF Places
<1> HIDE DEF all, l, m, new
<1>6. OneToOne(p, DOMAIN all, Places(seqs, n + 1))
  <2> DEFINE T == Places(seqs, n)
             i == n + 1
  <2>1. l \in Nat /\ m \in Nat /\ OneToOne(pos, 1 .. l, T) /\ \A t \in T : t[1] # i
    BY <1>1, <1>3, <1>4
  <2> HIDE DEF T, i
  <2>2. OneToOne([x \in 1 .. l + m |-> IF x <= l THEN pos[x] ELSE <<i, x - l>>],
                 1 .. l + m, T \cup ({i} \X (1 .. m)))
    BY <2>1, OneMoreBlock
  <2> QED BY <1>1, <1>5, <2>2 DEF T, i
<1>7. ASSUME NEW x \in DOMAIN all PROVE all[x] = seqs[p[x][1]][p[x][2]]
  <2>1. CASE x <= l
    <3>1. x \in DOMAIN flat /\ p[x] = pos[x]
      BY <1>1, <2>1
    <3> HIDE DEF p
    <3> QED BY <1>2, <2>1, <3>1 DEF ComesFrom
  <2>2. CASE ~(x <= l)
    <3>1. p[x] = <<n + 1, x - l>> /\ all[x] = new[x - l]
      BY <1>1, <1>2, <2>2
    <3> HIDE DEF p
    <3> QED BY <3>1 DEF new
  <2> QED BY <2>1, <2>2
<1>8. ComesFrom(p, all, seqs, n + 1)
  <2> HIDE DEF p
  <2> QED BY <1>6, <1>7 DEF ComesFrom
<1> QED BY <1>8 DEF all, new

\* FlattenSeq has the elements of all sequences and no others.
LEMMA FlattenIsWhole ==
  ASSUME NEW S, NEW seqs \in Seq(Seq(S))
  PROVE  /\ FlattenSeq(seqs) \in Seq(S)
         /\ \E pos : ComesFrom(pos, FlattenSeq(seqs), seqs, Len(seqs))
<1>1. Len(seqs) \in Nat /\ \A i \in 1 .. Len(seqs) : seqs[i] \in Seq(S)
  OBVIOUS
<1>2. CASE Len(seqs) = 0
  <2>1. seqs = <<>> /\ FlattenSeq(seqs) = seqs
    BY <1>2 DEF FlattenSeq
  <2>2. FlattenSeq(seqs) \in Seq(S)
    BY <2>1, EmptySeq, Zenon
  <2>3. DOMAIN FlattenSeq(seqs) = {} /\ Places(seqs, Len(seqs)) = {}
    BY <1>2, <2>1 DEF Places
  <2>4. ComesFrom([x \in {} |-> 0], FlattenSeq(seqs), seqs, Len(seqs))
    BY <2>3 DEF ComesFrom, OneToOne
  <2> QED BY <2>2, <2>4
<1>3. CASE Len(seqs) # 0
  <2> DEFINE f == CHOOSE f : Flat(f, Len(seqs), seqs)
             T == {n \in 0 .. Len(seqs) :
                    n > 0 => f[n] \in Seq(S) /\ \E pos : ComesFrom(pos, f[n], seqs, n)}
  <2>1. Flat(f, Len(seqs), seqs)
    BY <1>1, FlatExists
  <2>2. FlattenSeq(seqs) = f[Len(seqs)]
    BY <1>3 DEF FlattenSeq, Flat
  <2> HIDE DEF f
  <2>3. 0 \in T
    BY <1>1
  <2>4. ASSUME NEW n \in 0 .. Len(seqs) - 1, n \in T PROVE n + 1 \in T
    <3>1. n \in Nat /\ n + 1 \in 1 .. Len(seqs) /\ (n + 1) - 1 = n
      BY <1>1
    <3>2. CASE n = 0
      <4>1. f[1] = seqs[1] /\ seqs[1] \in Seq(S)
        BY <1>1, <2>1, <3>1, <3>2 DEF Flat
      <4>2. ComesFrom([x \in DOMAIN seqs[1] |-> <<1, x>>], f[1], seqs, 1)
        <5> DEFINE p == [x \in DOMAIN seqs[1] |-> <<1, x>>]
        <5>1. Places(seqs, 1) = {1} \X DOMAIN seqs[1]
          BY DEF Places
        <5>2. OneToOne(p, DOMAIN f[1], Places(seqs, 1))
          BY <4>1, <5>1 DEF OneToOne
        <5>3. \A x \in DOMAIN f[1] : f[1][x] = seqs[p[x][1]][p[x][2]]
          BY <4>1
        <5> QED BY <5>2, <5>3 DEF ComesFrom
      <4> QED BY <3>1, <3>2, <4>1, <4>2
    <3>3. CASE n # 0
      <4>1. f[n + 1] = f[n] \o seqs[n + 1] /\ seqs[n + 1] \in Seq(S)
        <5>1. n + 1 # 1
          BY <3>1, <3>3
        <5>2. f[n + 1] = f[(n + 1) - 1] \o seqs[n + 1]
          BY <2>1, <3>1, <5>1 DEF Flat
        <5>3. seqs[n + 1] \in Seq(S)
          BY <1>1, <3>1
        <5> QED BY <3>1, <5>2, <5>3
      <4>2. PICK pos : f[n] \in Seq(S) /\ ComesFrom(pos, f[n], seqs, n)
        BY <2>4, <3>1, <3>3
      <4>3. \E p : ComesFrom(p, f[n] \o seqs[n + 1], seqs, n + 1)
        BY <3>1, <4>1, <4>2, OneMore
      <4>4. f[n + 1] \in Seq(S)
        BY <4>1, <4>2, ConcatProperties
      <4>5. n + 1 \in 0 .. Len(seqs)
        BY <1>1, <3>1
      <4>6. \E p : ComesFrom(p, f[n + 1], seqs, n + 1)
        BY <4>1, <4>3
      <4> QED BY <4>4, <4>5, <4>6
    <3> QED BY <3>2, <3>3
  <2>5. \A n \in 0 .. Len(seqs) : n \in T
    <3> HIDE DEF T
    <3> QED BY <1>1, <2>3, <2>4, UpTo
  <2>6. Len(seqs) \in T
    BY <1>1, <2>5
  <2> QED BY <1>1, <1>3, <2>2, <2>6
<1> QED BY <1>1, <1>2, <1>3

\* The order of a finite set in a sequence has each element once.
LEMMA OrdersAreWhole ==
  ASSUME NEW S, IsFiniteSet(S), NEW f \in [1 .. Cardinality(S) -> S],
         \A i, j \in 1 .. Cardinality(S) : f[i] = f[j] => i = j
  PROVE  Cardinality(S) \in Nat /\ OneToOne(f, 1 .. Cardinality(S), S)
<1> DEFINE n == Cardinality(S)
<1>1. n \in Nat
  BY FS_CardinalityType
<1>2. IsFiniteSet(1 .. n) /\ Cardinality(1 .. n) = n
  BY <1>1, FS_Interval
<1>3. f \in Injection(1 .. n, S)
  BY DEF Injection, IsInjective
<1>4. f \in Surjection(1 .. n, S)
  <2> HIDE DEF n
  <2> QED BY <1>2, <1>3, FS_Injection DEF n
<1> QED BY <1>1, <1>4 DEF OneToOne, Surjection

\* SetToSeq() has each element of a finite set once.
LEMMA SetToSeqIsWhole ==
  ASSUME NEW S, IsFiniteSet(S)
  PROVE  /\ Cardinality(S) \in Nat
         /\ OneToOne(SetToSeq(S), 1 .. Cardinality(S), S)
<1>1. Cardinality(S) \in Nat /\ ExistsBijection(1 .. Cardinality(S), S)
  BY FS_CardinalityType
<1>2. PICK f \in [1 .. Cardinality(S) -> S] : IsInjective(f)
  BY <1>1 DEF ExistsBijection, Bijection, Injection
<1>3. SetToSeq(S) \in [1 .. Cardinality(S) -> S] /\ IsInjective(SetToSeq(S))
  BY <1>2 DEF SetToSeq
<1> HIDE DEF SetToSeq
<1>4. \A i, j \in 1 .. Cardinality(S) : SetToSeq(S)[i] = SetToSeq(S)[j] => i = j
  BY <1>3 DEF IsInjective
<1> QED BY <1>3, <1>4, OrdersAreWhole

\* A bounded set of naturals has a largest.
LEMMA MaxIsLargest ==
  ASSUME NEW S \in SUBSET Nat, NEW n \in Nat, \A s \in S : s <= n, S # {}
  PROVE  Max(S) \in S /\ \A s \in S : s <= Max(S)
<1> DEFINE Above == {q \in Nat \X Nat : q[1] < q[2]}
           Bounds == {b \in 0 .. n : \A s \in S : s <= b}
<1>1. IsWellFoundedOn(Above, Nat)
  BY NatLessThanWellFounded, Zenon DEF OpToRel
<1>2. n \in Bounds /\ Bounds \subseteq Nat
  OBVIOUS
<1>3. PICK m \in Bounds : \A b \in Bounds : ~ (<<b, m>> \in Above)
  <2> HIDE DEF Above, Bounds
  <2> QED BY <1>1, <1>2, WFMin, Zenon
<1>4. m \in Nat /\ m <= n /\ \A s \in S : s <= m
  OBVIOUS
<1>5. m \in S
  <2>1. SUFFICES ASSUME m \notin S PROVE FALSE
    OBVIOUS
  <2>2. PICK s \in S : TRUE
    OBVIOUS
  <2>3. \A t \in S : t \in Nat /\ t <= m - 1
    BY <1>4, <2>1
  <2>4. m - 1 \in 0 .. n
    BY <1>4, <2>2, <2>3
  <2>5. m - 1 \in Bounds /\ <<m - 1, m>> \in Above
    BY <1>4, <2>3, <2>4
  <2> QED BY <1>3, <2>5
<1>6. \E x \in S : \A y \in S : x >= y
  BY <1>4, <1>5
<1>7. Max(S) \in S /\ \A y \in S : Max(S) >= y
  BY <1>6 DEF Max
<1> QED BY <1>7

-----------------------------------------------------------------------------
(* What a compilation makes *)

\* The elements of a renderer are a sequence of records.
LEMMA ObjectsAreLists ==
  ASSUME NEW r \in Renderers
  PROVE  /\ IsSeq(Objs[r])
         /\ \A k \in DOMAIN Objs[r] :
              Objs[r][k] = [mesh |-> Objs[r][k].mesh, material |-> Objs[r][k].material]
<1> DEFINE S == {[mesh |-> e.mesh, material |-> e.material] : e \in ToSet(Objs[r])}
<1>1. Objs[r] \in Seq(S)
  BY FrameAssumption DEF FrameAssumption
<1>2. ASSUME NEW k \in DOMAIN Objs[r]
      PROVE  Objs[r][k] = [mesh |-> Objs[r][k].mesh, material |-> Objs[r][k].material]
  <2>1. Objs[r][k] \in S
    BY <1>1
  <2>2. PICK e : Objs[r][k] = [mesh |-> e.mesh, material |-> e.material]
    BY <2>1
  <2> QED BY <2>2
<1> QED BY <1>1, <1>2 DEF IsSeq

\* An element and the piece it stands for.
Stands(e, p) ==
  e = [handle   |-> p[1],
       mesh     |-> Objs[p[1]][p[2]].mesh,
       material |-> Objs[p[1]][p[2]].material]

\* The list of elements has each piece of the scene once.
LEMMA ElementsAreThePieces ==
  ASSUME NEW S \in SUBSET Renderers, NEW order \in SetToSeqs(S)
  PROVE  /\ IsSeq(Elements(order))
         /\ \E e : /\ OneToOne(e, DOMAIN Elements(order), Pieces(S))
                   /\ \A n \in DOMAIN Elements(order) : Stands(Elements(order)[n], e[n])
<1> DEFINE Elem(r, k) == [handle   |-> r,
                          mesh     |-> Objs[r][k].mesh,
                          material |-> Objs[r][k].material]
           All == UNION {{Elem(r, k) : k \in DOMAIN Objs[r]} : r \in S}
           c == Cardinality(S)
           lists == [i \in DOMAIN order |->
                      [k \in DOMAIN Objs[order[i]] |-> Elem(order[i], k)]]
           flat == FlattenSeq(lists)
<1>1. IsFiniteSet(S)
  BY FS_Subset, FrameAssumption DEF FrameAssumption
<1>2. order \in [1 .. c -> S] /\ \A i, j \in 1 .. c : order[i] = order[j] => i = j
  BY DEF SetToSeqs
<1>3. c \in Nat /\ OneToOne(order, 1 .. c, S)
  <2> HIDE DEF c
  <2> QED BY <1>1, <1>2, OrdersAreWhole DEF c
<1>4. Elements(order) = flat
  BY DEF Elements
<1>5. ASSUME NEW i \in 1 .. c PROVE lists[i] \in Seq(All)
  <2>1. order[i] \in S /\ order[i] \in Renderers
    BY <1>2
  <2>2. Len(Objs[order[i]]) \in Nat /\ DOMAIN Objs[order[i]] = 1 .. Len(Objs[order[i]])
    BY <2>1, ObjectsAreLists, SeqFacts
  <2>3. lists[i] \in [1 .. Len(Objs[order[i]]) -> All]
    BY <1>2, <2>1, <2>2
  <2> HIDE DEF lists, All
  <2> QED BY <2>2, <2>3, FunctionIsSeq
<1>6. lists \in Seq(Seq(All)) /\ Len(lists) = c
  <2>1. lists \in [1 .. c -> Seq(All)]
    <3>1. DOMAIN order = 1 .. c
      BY <1>2
    <3> HIDE DEF All, Elem
    <3> QED BY <1>5, <3>1
  <2> HIDE DEF lists, All, c
  <2> QED BY <1>3, <2>1, FunctionIsSeq
<1>7. PICK pos : flat \in Seq(All) /\ ComesFrom(pos, flat, lists, c)
  <2> HIDE DEF lists, All, c
  <2> QED BY <1>6, FlattenIsWhole
<1>8. ASSUME NEW i \in 1 .. c
      PROVE  /\ DOMAIN lists[i] = DOMAIN Objs[order[i]]
             /\ \A k \in DOMAIN Objs[order[i]] : lists[i][k] = Elem(order[i], k)
  BY <1>2
<1> DEFINE e == [n \in DOMAIN flat |-> <<order[pos[n][1]], pos[n][2]>>]
<1> HIDE DEF flat, lists, c, All, Elem
<1>9. ASSUME NEW n \in DOMAIN flat
      PROVE  /\ pos[n] = <<pos[n][1], pos[n][2]>> /\ pos[n][1] \in 1 .. c
             /\ order[pos[n][1]] \in S
             /\ pos[n][2] \in DOMAIN Objs[order[pos[n][1]]]
             /\ flat[n] = Elem(order[pos[n][1]], pos[n][2])
             /\ e[n] = <<order[pos[n][1]], pos[n][2]>>
  <2>1. pos[n] \in Places(lists, c) /\ flat[n] = lists[pos[n][1]][pos[n][2]]
    BY <1>7 DEF ComesFrom, OneToOne
  <2>2. PICK i \in 1 .. c : \E k \in DOMAIN lists[i] : pos[n] = <<i, k>>
    BY <2>1 DEF Places
  <2> QED BY <1>2, <1>8, <2>1, <2>2
<1>10. OneToOne(e, DOMAIN flat, Pieces(S))
  <2>1. ASSUME NEW n \in DOMAIN flat PROVE e[n] \in Pieces(S)
    BY <1>9 DEF Pieces
  <2>2. ASSUME NEW a \in DOMAIN flat, NEW b \in DOMAIN flat, e[a] = e[b] PROVE a = b
    <3>1. order[pos[a][1]] = order[pos[b][1]] /\ pos[a][2] = pos[b][2]
      <4> HIDE DEF e
      <4> QED BY <1>9, <2>2
    <3>2. pos[a][1] = pos[b][1]
      BY <1>2, <1>9, <3>1
    <3>3. pos[a] = <<pos[a][1], pos[a][2]>> /\ pos[b] = <<pos[b][1], pos[b][2]>>
      BY <1>9
    <3>4. pos[a] = pos[b]
      BY <3>1, <3>2, <3>3
    <3> QED BY <1>7, <3>4 DEF ComesFrom, OneToOne
  <2>3. ASSUME NEW t \in Pieces(S) PROVE \E n \in DOMAIN flat : e[n] = t
    <3>1. PICK r \in S : t \in {r} \X DOMAIN Objs[r]
      BY DEF Pieces
    <3>2. PICK k \in DOMAIN Objs[r] : t = <<r, k>>
      BY <3>1
    <3>3. PICK i \in 1 .. c : order[i] = r
      BY <1>3 DEF OneToOne
    <3>4. <<i, k>> \in Places(lists, c)
      BY <1>8, <3>3 DEF Places
    <3>5. PICK n \in DOMAIN flat : pos[n] = <<i, k>>
      BY <1>7, <3>4 DEF ComesFrom, OneToOne
    <3> QED BY <1>9, <3>2, <3>3, <3>5
  <2> QED BY <2>1, <2>2, <2>3 DEF OneToOne
<1>11. ASSUME NEW n \in DOMAIN flat PROVE Stands(flat[n], e[n])
  <2>1. flat[n] = Elem(e[n][1], e[n][2])
    <3> HIDE DEF e
    <3> QED BY <1>9
  <2> QED BY <2>1 DEF Stands, Elem
<1>12. IsSeq(flat)
  BY <1>7 DEF IsSeq
<1> QED BY <1>4, <1>10, <1>11, <1>12

\* A batch has each element of its material once.
LEMMA BatchIsWhole ==
  ASSUME NEW elements, IsSeq(elements), NEW m
  PROVE  /\ IsSeq(Batch(m, elements))
         /\ \E b : /\ OneToOne(b, DOMAIN Batch(m, elements),
                               {n \in DOMAIN elements : elements[n].material = m})
                   /\ \A j \in DOMAIN Batch(m, elements) :
                        Batch(m, elements)[j] = Pair(elements[b[j]])
<1> DEFINE All == {Pair(elements[n]) : n \in DOMAIN elements}
           Own == {n \in DOMAIN elements : elements[n].material = m}
           lists == [n \in DOMAIN elements |->
                      IF elements[n].material = m THEN <<Pair(elements[n])>> ELSE <<>>]
           flat == FlattenSeq(lists)
           c == Len(elements)
<1>1. c \in Nat /\ DOMAIN elements = 1 .. c
  BY SeqFacts
<1>2. Batch(m, elements) = flat
  BY DEF Batch
<1>3. ASSUME NEW n \in 1 .. c
      PROVE  /\ lists[n] \in Seq(All)
             /\ DOMAIN lists[n] = IF n \in Own THEN {1} ELSE {}
             /\ n \in Own => lists[n][1] = Pair(elements[n])
  <2>1. CASE elements[n].material = m
    <3>1. lists[n] = <<Pair(elements[n])>> /\ Pair(elements[n]) \in All /\ n \in Own
      BY <1>1, <2>1
    <3> HIDE DEF lists, All, Own
    <3> QED BY <3>1
  <2>2. CASE elements[n].material # m
    <3>1. lists[n] = <<>> /\ n \notin Own
      BY <1>1, <2>2
    <3>2. lists[n] \in Seq(All) /\ DOMAIN lists[n] = {}
      <4> HIDE DEF lists, All, Own
      <4> QED BY <3>1
    <3> QED BY <3>1, <3>2
  <2> QED BY <2>1, <2>2
<1>4. lists \in Seq(Seq(All)) /\ Len(lists) = c
  <2>1. lists \in [1 .. c -> Seq(All)]
    <3> HIDE DEF All, Own
    <3> QED BY <1>1, <1>3
  <2> HIDE DEF lists, All, c
  <2> QED BY <1>1, <2>1, FunctionIsSeq
<1>5. PICK pos : flat \in Seq(All) /\ ComesFrom(pos, flat, lists, c)
  <2> HIDE DEF lists, All, c
  <2> QED BY <1>4, FlattenIsWhole
<1> DEFINE b == [j \in DOMAIN flat |-> pos[j][1]]
<1> HIDE DEF flat, lists, c, All
<1>6. ASSUME NEW j \in DOMAIN flat
      PROVE  /\ pos[j] = <<b[j], 1>> /\ b[j] \in Own
             /\ flat[j] = Pair(elements[b[j]])
  <2>1. pos[j] \in Places(lists, c) /\ flat[j] = lists[pos[j][1]][pos[j][2]]
    BY <1>5 DEF ComesFrom, OneToOne
  <2>2. PICK i \in 1 .. c : \E k \in DOMAIN lists[i] : pos[j] = <<i, k>>
    BY <2>1 DEF Places
  <2>3. i \in Own /\ pos[j] = <<i, 1>>
    <3> HIDE DEF Own
    <3> QED BY <1>3, <2>2
  <2> HIDE DEF Own
  <2> QED BY <1>3, <2>1, <2>3
<1>7. OneToOne(b, DOMAIN flat, Own)
  <2>1. b \in [DOMAIN flat -> Own]
    <3> HIDE DEF Own
    <3> QED BY <1>6
  <2> HIDE DEF b
  <2>2. ASSUME NEW x \in DOMAIN flat, NEW y \in DOMAIN flat, b[x] = b[y] PROVE x = y
    <3>1. pos[x] = pos[y]
      BY <1>6, <2>2
    <3> QED BY <1>5, <3>1 DEF ComesFrom, OneToOne
  <2>3. ASSUME NEW n \in Own PROVE \E j \in DOMAIN flat : b[j] = n
    <3>1. n \in 1 .. c
      BY <1>1
    <3>2. <<n, 1>> \in Places(lists, c)
      BY <1>3, <3>1 DEF Places
    <3>3. PICK j \in DOMAIN flat : pos[j] = <<n, 1>>
      BY <1>5, <3>2 DEF ComesFrom, OneToOne
    <3>4. <<b[j], 1>> = <<n, 1>>
      BY <1>6, <3>3
    <3> QED BY <3>4
  <2> QED BY <2>1, <2>2, <2>3 DEF OneToOne
<1>8. IsSeq(flat)
  BY <1>5 DEF IsSeq
<1> HIDE DEF b
<1> QED BY <1>2, <1>6, <1>7, <1>8

\* The places in batches.
InBatches(batches) == UNION {{k} \X DOMAIN batches[k].list : k \in DOMAIN batches}

\* The batches have each element once, in the batch of its material.
LEMMA BatchesAreWhole ==
  ASSUME NEW elements, IsSeq(elements), NEW batches, batches = Batches(elements)
  PROVE  /\ IsSeq(batches)
         /\ \A k \in DOMAIN batches :
              /\ IsSeq(batches[k].list)
              /\ Len(batches[k].list) <= Len(elements)
         /\ \E g : /\ OneToOne(g, InBatches(batches), DOMAIN elements)
                   /\ \A x \in InBatches(batches) :
                        /\ batches[x[1]].list[x[2]] = Pair(elements[g[x]])
                        /\ batches[x[1]].material = elements[g[x]].material
<1> DEFINE Mats == {elements[n].material : n \in DOMAIN elements}
           mats == SetToSeq(Mats)
           c == Cardinality(Mats)
           Own(m) == {n \in DOMAIN elements : elements[n].material = m}
           Fits(k, b) == /\ OneToOne(b, DOMAIN batches[k].list, Own(mats[k]))
                         /\ \A j \in DOMAIN batches[k].list :
                              batches[k].list[j] = Pair(elements[b[j]])
<1>1. Len(elements) \in Nat /\ DOMAIN elements = 1 .. Len(elements)
  BY SeqFacts
<1>2. IsFiniteSet(DOMAIN elements) /\ Cardinality(DOMAIN elements) = Len(elements)
  <2> DEFINE l == Len(elements)
  <2>1. l \in Nat /\ DOMAIN elements = 1 .. l
    BY <1>1
  <2> HIDE DEF l
  <2>2. IsFiniteSet(1 .. l) /\ Cardinality(1 .. l) = l
    BY <2>1, FS_Interval
  <2> QED BY <2>1, <2>2 DEF l
<1>3. IsFiniteSet(Mats)
  <2> DEFINE f == [n \in DOMAIN elements |-> elements[n].material]
  <2>1. f \in Surjection(DOMAIN elements, Mats)
    BY DEF Surjection
  <2> HIDE DEF f, Mats
  <2> QED BY <1>2, <2>1, FS_Surjection
<1>4. c \in Nat /\ OneToOne(mats, 1 .. c, Mats)
  <2> HIDE DEF Mats
  <2> QED BY <1>3, SetToSeqIsWhole
<1>5. DOMAIN mats = 1 .. c
  BY <1>4 DEF OneToOne
<1>6. batches = [k \in 1 .. c |-> [material |-> mats[k], list |-> Batch(mats[k], elements)]]
  BY <1>5 DEF Batches
<1> HIDE DEF mats, Mats, c
<1>7. DOMAIN batches = 1 .. c /\ IsSeq(batches)
  <2> DEFINE B == {batches[k] : k \in 1 .. c}
  <2>1. batches \in [1 .. c -> B]
    BY <1>6
  <2> HIDE DEF B
  <2> QED BY <1>4, <2>1, FunctionIsSeq
<1>8. ASSUME NEW k \in DOMAIN batches
      PROVE  /\ batches[k].material = mats[k] /\ batches[k].list = Batch(mats[k], elements)
             /\ IsSeq(batches[k].list)
             /\ \E b : Fits(k, b)
  <2>1. batches[k].material = mats[k] /\ batches[k].list = Batch(mats[k], elements)
    BY <1>6, <1>7
  <2> QED BY <2>1, BatchIsWhole
<1>9. ASSUME NEW k \in DOMAIN batches PROVE Len(batches[k].list) <= Len(elements)
  <2>1. PICK b : Fits(k, b)
    BY <1>8
  <2>2. DOMAIN batches[k].list = 1 .. Len(batches[k].list) /\ Len(batches[k].list) \in Nat
    BY <1>8, SeqFacts
  <2>3. b \in Injection(DOMAIN batches[k].list, DOMAIN elements)
    BY <2>1 DEF OneToOne, Injection, IsInjective
  <2>4. Cardinality(DOMAIN batches[k].list) <= Len(elements)
    BY <1>2, <2>3, FS_Injection
  <2> DEFINE size == Len(batches[k].list)
  <2>5. size \in Nat /\ DOMAIN batches[k].list = 1 .. size
    BY <2>2
  <2>6. Cardinality(1 .. size) <= Len(elements)
    BY <2>4, <2>5
  <2>7. size <= Len(elements)
    <3> HIDE DEF size
    <3>1. Cardinality(1 .. size) = size
      BY <2>5, FS_Interval
    <3> QED BY <2>6, <3>1
  <2> QED BY <2>7
<1> DEFINE own == [k \in DOMAIN batches |-> CHOOSE b : Fits(k, b)]
           g == [x \in InBatches(batches) |-> own[x[1]][x[2]]]
<1>10. ASSUME NEW k \in DOMAIN batches PROVE Fits(k, own[k])
  <2> HIDE DEF Fits
  <2> QED BY <1>8
<1> HIDE DEF own
<1>11. ASSUME NEW x \in InBatches(batches)
       PROVE  /\ x[1] \in DOMAIN batches /\ x[2] \in DOMAIN batches[x[1]].list
              /\ x = <<x[1], x[2]>> /\ g[x] = own[x[1]][x[2]]
              /\ g[x] \in DOMAIN elements
              /\ elements[g[x]].material = mats[x[1]]
              /\ batches[x[1]].list[x[2]] = Pair(elements[g[x]])
  <2>1. PICK k \in DOMAIN batches : x \in {k} \X DOMAIN batches[k].list
    BY DEF InBatches
  <2>2. x[1] = k /\ x[2] \in DOMAIN batches[k].list /\ x = <<x[1], x[2]>>
    BY <2>1
  <2>3. own[k][x[2]] \in Own(mats[k]) /\ batches[k].list[x[2]] = Pair(elements[own[k][x[2]]])
    BY <1>10, <2>2 DEF OneToOne
  <2>4. g[x] = own[k][x[2]]
    BY <2>2
  <2> QED BY <2>2, <2>3, <2>4
<1>12. OneToOne(g, InBatches(batches), DOMAIN elements)
  <2>1. g \in [InBatches(batches) -> DOMAIN elements]
    BY <1>11
  <2> HIDE DEF g
  <2>2. ASSUME NEW x \in InBatches(batches), NEW y \in InBatches(batches), g[x] = g[y] PROVE x = y
    <3>1. mats[x[1]] = mats[y[1]]
      BY <1>11, <2>2
    <3>2. x[1] = y[1]
      BY <1>4, <1>7, <1>11, <3>1 DEF OneToOne
    <3>3. OneToOne(own[x[1]], DOMAIN batches[x[1]].list, Own(mats[x[1]]))
      BY <1>10, <1>11
    <3>4. own[x[1]][x[2]] = own[x[1]][y[2]]
      BY <1>11, <2>2, <3>2
    <3>5. x[2] \in DOMAIN batches[x[1]].list /\ y[2] \in DOMAIN batches[x[1]].list
      BY <1>11, <3>2
    <3>6. x[2] = y[2]
      BY <3>3, <3>4, <3>5 DEF OneToOne
    <3>7. x = <<x[1], x[2]>> /\ y = <<y[1], y[2]>>
      BY <1>11
    <3> QED BY <3>2, <3>6, <3>7
  <2>3. ASSUME NEW n \in DOMAIN elements PROVE \E x \in InBatches(batches) : g[x] = n
    <3>1. elements[n].material \in Mats
      BY DEF Mats
    <3>2. PICK k \in 1 .. c : mats[k] = elements[n].material
      BY <1>4, <3>1 DEF OneToOne
    <3>3. n \in Own(mats[k])
      BY <3>2
    <3>4. PICK j \in DOMAIN batches[k].list : own[k][j] = n
      BY <1>7, <1>10, <3>3 DEF OneToOne
    <3>5. <<k, j>> \in InBatches(batches)
      BY <1>7 DEF InBatches
    <3> QED BY <1>11, <3>4, <3>5
  <2> QED BY <2>1, <2>2, <2>3 DEF OneToOne
<1>13. \A x \in InBatches(batches) :
         /\ batches[x[1]].list[x[2]] = Pair(elements[g[x]])
         /\ batches[x[1]].material = elements[g[x]].material
  <2> HIDE DEF g
  <2> QED BY <1>8, <1>11
<1> HIDE DEF g
<1> QED BY <1>7, <1>8, <1>9, <1>12, <1>13

\* The draw buffer is as long as the longest batch.
LEMMA MaxMeshCountFits ==
  ASSUME NEW batches, NEW n \in Nat,
         \A k \in DOMAIN batches : IsSeq(batches[k].list) /\ Len(batches[k].list) <= n
  PROVE  /\ MaxMeshCount(batches) \in Nat
         /\ \A k \in DOMAIN batches : Len(batches[k].list) <= MaxMeshCount(batches)
<1> DEFINE S == {0} \cup {Len(batches[k].list) : k \in DOMAIN batches}
<1>1. S \subseteq Nat /\ \A s \in S : s <= n
  BY SeqFacts
<1>2. S # {} /\ MaxMeshCount(batches) = Max(S)
  BY DEF MaxMeshCount
<1>3. \A k \in DOMAIN batches : Len(batches[k].list) \in S
  OBVIOUS
<1> HIDE DEF S
<1>4. Max(S) \in S /\ \A s \in S : s <= Max(S)
  BY <1>1, <1>2, MaxIsLargest
<1> QED BY <1>1, <1>2, <1>3, <1>4

\* A bijection after another.
LEMMA Composed ==
  ASSUME NEW S, NEW T, NEW U, NEW f, NEW g, OneToOne(f, S, T), OneToOne(g, T, U)
  PROVE  OneToOne([x \in S |-> g[f[x]]], S, U)
<1> DEFINE h == [x \in S |-> g[f[x]]]
<1>1. \A x \in S : f[x] \in T /\ g[f[x]] \in U /\ h[x] = g[f[x]]
  BY DEF OneToOne
<1>2. \A a, b \in S : h[a] = h[b] => a = b
  <2> SUFFICES ASSUME NEW a \in S, NEW b \in S, h[a] = h[b] PROVE a = b
    OBVIOUS
  <2>1. g[f[a]] = g[f[b]]
    BY <1>1
  <2>2. f[a] = f[b]
    BY <1>1, <2>1 DEF OneToOne
  <2> QED BY <2>2 DEF OneToOne
<1>3. \A u \in U : \E x \in S : h[x] = u
  <2> SUFFICES ASSUME NEW u \in U PROVE \E x \in S : h[x] = u
    OBVIOUS
  <2>1. PICK t \in T : g[t] = u
    BY DEF OneToOne
  <2>2. PICK x \in S : f[x] = t
    BY DEF OneToOne
  <2> QED BY <1>1, <2>1, <2>2
<1>4. h \in [S -> U]
  BY <1>1
<1> QED BY <1>2, <1>3, <1>4 DEF OneToOne

\* What a stage is compiled to.
LEMMA StageCommandShapes ==
  ASSUME NEW i \in DOMAIN Stages, NEW batches, IsSeq(batches)
  PROVE  /\ IsSeq(StageCommands(i, batches))
         /\ \A k \in DOMAIN StageCommands(i, batches) :
              LET c == StageCommands(i, batches)[k] IN
              /\ c.kind \in {"scene", "barrier", "blit", "clear"}
              /\ c.kind = "scene" => Stages[i] = "scene"
              /\ c.kind \in {"blit", "clear"} => c.fbo = fbo
         /\ Stages[i] = "scene" =>
              /\ DOMAIN StageCommands(i, batches) = DOMAIN batches
              /\ \A k \in DOMAIN batches :
                   StageCommands(i, batches)[k] =
                     [kind |-> "scene", stage |-> i, material |-> batches[k].material,
                      count |-> Len(batches[k].list), batch |-> <<i, k>>, draw |-> i]
<1> DEFINE cs == StageCommands(i, batches)
<1>1. Stages[i] \in {"scene", "barrier", "blit", "clear"}
  BY FrameAssumption DEF FrameAssumption
<1>2. CASE Stages[i] = "scene"
  <2> DEFINE S == {cs[k] : k \in DOMAIN batches}
  <2>1. cs = [k \in DOMAIN batches |->
               [kind |-> "scene", stage |-> i, material |-> batches[k].material,
                count |-> Len(batches[k].list), batch |-> <<i, k>>, draw |-> i]]
    BY <1>2 DEF StageCommands, DrawSceneCommands, BufferName
  <2>2. Len(batches) \in Nat /\ DOMAIN batches = 1 .. Len(batches)
    BY SeqFacts
  <2>3. cs \in [1 .. Len(batches) -> S]
    BY <2>1, <2>2
  <2>4. IsSeq(cs)
    <3> HIDE DEF cs, S
    <3> QED BY <2>2, <2>3, FunctionIsSeq
  <2> HIDE DEF cs
  <2> QED BY <1>2, <2>1, <2>4 DEF cs
<1>3. CASE Stages[i] = "barrier"
  <2>1. cs = <<[kind |-> "barrier"]>>
    BY <1>3 DEF StageCommands
  <2> HIDE DEF cs
  <2>2. cs \in Seq({[kind |-> "barrier"]}) /\ DOMAIN cs = {1} /\ cs[1].kind = "barrier"
    BY <2>1
  <2> QED BY <1>3, <2>2 DEF IsSeq, cs
<1>4. CASE Stages[i] = "blit"
  <2> DEFINE c == BlitCommand(i)
  <2>1. cs = <<c>> /\ c.kind = "blit" /\ c.fbo = fbo
    BY <1>4 DEF StageCommands, BlitCommand
  <2> HIDE DEF cs, c
  <2>2. cs \in Seq({c}) /\ DOMAIN cs = {1} /\ cs[1] = c
    BY <2>1
  <2> QED BY <1>4, <2>1, <2>2 DEF IsSeq, cs
<1>5. CASE Stages[i] = "clear"
  <2> DEFINE c == ClearCommand(i)
  <2>1. cs = <<c>> /\ c.kind = "clear" /\ c.fbo = fbo
    BY <1>5 DEF StageCommands, ClearCommand
  <2> HIDE DEF cs, c
  <2>2. cs \in Seq({c}) /\ DOMAIN cs = {1} /\ cs[1] = c
    BY <2>1
  <2> QED BY <1>5, <2>1, <2>2 DEF IsSeq, cs
<1> QED BY <1>1, <1>2, <1>3, <1>4, <1>5

\* A scene command of cs finds its buffers in bb and db, and room for its calls.
SceneCommand(c, bb, db) ==
  /\ c.stage \in SceneStages
  /\ c.count \in Nat
  /\ c.batch \in DOMAIN bb
  /\ IsSeq(bb[c.batch])
  /\ Len(bb[c.batch]) = c.count
  /\ c.draw \in DOMAIN db
  /\ IsSeq(db[c.draw])
  /\ c.count <= Len(db[c.draw])

IsScene(cs, i) == cs[i].kind = "scene"

\* The commands cs over the buffers bb and db and the framebuffer name.
Orderly(cs, bb, db, name) ==
  /\ IsSeq(cs)
  /\ \A i \in DOMAIN cs :
       /\ cs[i].kind \in {"scene", "barrier", "blit", "clear"}
       /\ IsScene(cs, i) => SceneCommand(cs[i], bb, db)
       /\ cs[i].kind \in {"blit", "clear"} => cs[i].fbo = name
  /\ \A i, j \in DOMAIN cs :
       IsScene(cs, i) /\ IsScene(cs, j) /\ cs[i].batch = cs[j].batch => i = j

\* The draw calls of the commands, and of one stage.
Calls(cs) == UNION {{i} \X (1 .. cs[i].count) : i \in {n \in DOMAIN cs : IsScene(cs, n)}}

CallsOf(cs, s) == {x \in Calls(cs) : cs[x[1]].stage = s}

\* A draw call x shows the piece p.
Shows(cs, bb, x, p) ==
  /\ cs[x[1]].material = Objs[p[1]][p[2]].material
  /\ bb[cs[x[1]].batch][x[2]] = [handle |-> p[1], mesh |-> Objs[p[1]][p[2]].mesh]

\* Every stage has one draw call for each piece of the scene S.
Complete(cs, bb, S) ==
  \A s \in SceneStages :
    \E phi : /\ OneToOne(phi, CallsOf(cs, s), Pieces(S))
             /\ \A x \in CallsOf(cs, s) : Shows(cs, bb, x, phi[x])

\* pos[c] is the stage that command c comes from, and its place among the commands
\* of the stage.
Compiles(pos, cs, batches) ==
  /\ \A c \in DOMAIN cs :
       /\ pos[c] = <<pos[c][1], pos[c][2]>>
       /\ pos[c][1] \in DOMAIN Stages
       /\ pos[c][2] \in DOMAIN StageCommands(pos[c][1], batches)
       /\ cs[c] = StageCommands(pos[c][1], batches)[pos[c][2]]
  /\ \A a, b \in DOMAIN cs : pos[a] = pos[b] => a = b
  /\ \A i \in DOMAIN Stages : \A k \in DOMAIN StageCommands(i, batches) :
       \E c \in DOMAIN cs : pos[c] = <<i, k>>

\* What the stages are compiled to, command by command.
LEMMA CommandsOfStages ==
  ASSUME NEW batches, IsSeq(batches), NEW cs,
         cs = FlattenSeq([i \in DOMAIN Stages |-> StageCommands(i, batches)])
  PROVE  IsSeq(cs) /\ \E pos : Compiles(pos, cs, batches)
<1> DEFINE lists == [i \in DOMAIN Stages |-> StageCommands(i, batches)]
           All == UNION {{lists[i][k] : k \in DOMAIN lists[i]} : i \in DOMAIN Stages}
           n == Len(Stages)
<1>1. n \in Nat /\ DOMAIN Stages = 1 .. n
  BY FrameAssumption DEF FrameAssumption
<1>2. ASSUME NEW i \in 1 .. n PROVE lists[i] \in Seq(All)
  <2> DEFINE s == lists[i]
  <2>1. IsSeq(s)
    BY <1>1, StageCommandShapes
  <2>2. \A k \in DOMAIN s : s[k] \in All
    <3> HIDE DEF lists
    <3> QED BY <1>1
  <2> HIDE DEF s, All
  <2>3. Len(s) \in Nat /\ DOMAIN s = 1 .. Len(s)
    BY <2>1, SeqFacts
  <2>4. s \in [1 .. Len(s) -> All]
    <3>1. PICK S : s \in Seq(S)
      BY <2>1 DEF IsSeq
    <3>2. s \in [1 .. Len(s) -> S]
      BY <3>1
    <3> QED BY <2>2, <2>3, <3>2
  <2> QED BY <2>3, <2>4, FunctionIsSeq DEF s
<1>3. lists \in [1 .. n -> Seq(All)]
  <2>1. DOMAIN lists = 1 .. n
    BY <1>1
  <2> HIDE DEF All, n
  <2> QED BY <1>1, <1>2
<1>4. \A i \in DOMAIN Stages : lists[i] = StageCommands(i, batches)
  OBVIOUS
<1>5. cs = FlattenSeq(lists)
  OBVIOUS
<1> HIDE DEF lists, All, n
<1>6. lists \in Seq(Seq(All)) /\ Len(lists) = n
  BY <1>1, <1>3, FunctionIsSeq
<1>7. PICK pos : cs \in Seq(All) /\ ComesFrom(pos, cs, lists, n)
  BY <1>5, <1>6, FlattenIsWhole
<1>8. ASSUME NEW c \in DOMAIN cs
      PROVE  /\ pos[c] = <<pos[c][1], pos[c][2]>>
             /\ pos[c][1] \in DOMAIN Stages
             /\ pos[c][2] \in DOMAIN StageCommands(pos[c][1], batches)
             /\ cs[c] = StageCommands(pos[c][1], batches)[pos[c][2]]
  <2>1. pos[c] \in Places(lists, n) /\ cs[c] = lists[pos[c][1]][pos[c][2]]
    BY <1>7 DEF ComesFrom, OneToOne
  <2>2. PICK i \in 1 .. n : \E k \in DOMAIN lists[i] : pos[c] = <<i, k>>
    BY <2>1 DEF Places
  <2> QED BY <1>1, <1>4, <2>1, <2>2
<1>9. \A a, b \in DOMAIN cs : pos[a] = pos[b] => a = b
  BY <1>7 DEF ComesFrom, OneToOne
<1>10. ASSUME NEW i \in DOMAIN Stages, NEW k \in DOMAIN StageCommands(i, batches)
       PROVE  \E c \in DOMAIN cs : pos[c] = <<i, k>>
  <2>1. <<i, k>> \in Places(lists, n)
    BY <1>1, <1>4 DEF Places
  <2> QED BY <1>7, <2>1 DEF ComesFrom, OneToOne
<1>11. Compiles(pos, cs, batches)
  BY <1>8, <1>9, <1>10 DEF Compiles
<1>12. IsSeq(cs)
  BY <1>7 DEF IsSeq
<1> QED BY <1>11, <1>12

\* What Compile() makes of some batches.
IsCompiled(cs, bb, db, batches) ==
  /\ cs = FlattenSeq([i \in DOMAIN Stages |-> StageCommands(i, batches)])
  /\ bb = [n \in {BufferName(i, k) : i \in SceneStages, k \in DOMAIN batches} |->
            batches[n[2]].list]
  /\ db = [i \in SceneStages |-> [k \in 1 .. MaxMeshCount(batches) |-> Unwritten]]

\* The commands are in order, and every stage shows every piece of the scene.
LEMMA CompilationIsWhole ==
  ASSUME NEW S \in SUBSET Renderers, NEW order \in SetToSeqs(S),
         NEW batches, batches = Batches(Elements(order)),
         NEW cs, NEW bb, NEW db, IsCompiled(cs, bb, db, batches)
  PROVE  Orderly(cs, bb, db, fbo) /\ Complete(cs, bb, S)
<1> USE DEF IsCompiled
<1> DEFINE elements == Elements(order)
           max == MaxMeshCount(batches)
<1>1. PICK e : /\ IsSeq(elements)
               /\ OneToOne(e, DOMAIN elements, Pieces(S))
               /\ \A n \in DOMAIN elements : Stands(elements[n], e[n])
  <2> HIDE DEF elements
  <2> QED BY ElementsAreThePieces DEF elements
<1> HIDE DEF elements
<1>2. /\ IsSeq(batches)
      /\ \A k \in DOMAIN batches :
           IsSeq(batches[k].list) /\ Len(batches[k].list) <= Len(elements)
  BY <1>1, BatchesAreWhole DEF elements
<1>3. PICK g : /\ OneToOne(g, InBatches(batches), DOMAIN elements)
               /\ \A x \in InBatches(batches) :
                    /\ batches[x[1]].list[x[2]] = Pair(elements[g[x]])
                    /\ batches[x[1]].material = elements[g[x]].material
  BY <1>1, BatchesAreWhole DEF elements
<1>4. max \in Nat /\ \A k \in DOMAIN batches : Len(batches[k].list) <= max
  <2>1. Len(elements) \in Nat
    BY <1>1, SeqFacts
  <2> QED BY <1>2, <2>1, MaxMeshCountFits
<1> HIDE DEF max
<1>5. PICK pos : IsSeq(cs) /\ Compiles(pos, cs, batches)
  BY <1>2, CommandsOfStages
<1> USE DEF Compiles
<1> DEFINE st(c) == pos[c][1]
           ba(c) == pos[c][2]
<1>6. ASSUME NEW c \in DOMAIN cs
      PROVE  /\ cs[c].kind \in {"scene", "barrier", "blit", "clear"}
             /\ IsScene(cs, c) => st(c) \in SceneStages
             /\ cs[c].kind \in {"blit", "clear"} => cs[c].fbo = fbo
  BY <1>2, <1>5, StageCommandShapes DEF IsScene, SceneStages
<1>7. ASSUME NEW c \in DOMAIN cs, IsScene(cs, c)
      PROVE  /\ st(c) \in SceneStages
             /\ ba(c) \in DOMAIN batches
             /\ cs[c].stage = st(c) /\ cs[c].draw = st(c) /\ cs[c].batch = <<st(c), ba(c)>>
             /\ cs[c].count = Len(batches[ba(c)].list)
             /\ cs[c].material = batches[ba(c)].material
  <2>1. st(c) \in SceneStages /\ st(c) \in DOMAIN Stages /\ Stages[st(c)] = "scene"
    BY <1>6, <1>7 DEF SceneStages
  <2>2. ba(c) \in DOMAIN batches
    BY <1>2, <1>5, <2>1, StageCommandShapes
  <2>3. cs[c] = [kind |-> "scene", stage |-> st(c), material |-> batches[ba(c)].material,
                 count |-> Len(batches[ba(c)].list), batch |-> <<st(c), ba(c)>>, draw |-> st(c)]
    BY <1>2, <1>5, <2>1, <2>2, StageCommandShapes
  <2> QED BY <2>1, <2>2, <2>3
<1>8. ASSUME NEW i \in SceneStages, NEW k \in DOMAIN batches
      PROVE  /\ <<i, k>> \in DOMAIN bb /\ bb[<<i, k>>] = batches[k].list
             /\ \E c \in DOMAIN cs : IsScene(cs, c) /\ pos[c] = <<i, k>>
  <2>1. <<i, k>> \in DOMAIN bb /\ bb[<<i, k>>] = batches[k].list
    BY DEF BufferName
  <2>2. i \in DOMAIN Stages /\ Stages[i] = "scene"
    BY DEF SceneStages
  <2>3. k \in DOMAIN StageCommands(i, batches) /\ StageCommands(i, batches)[k].kind = "scene"
    <3>1. /\ DOMAIN StageCommands(i, batches) = DOMAIN batches
          /\ StageCommands(i, batches)[k] =
               [kind |-> "scene", stage |-> i, material |-> batches[k].material,
                count |-> Len(batches[k].list), batch |-> <<i, k>>, draw |-> i]
      BY <1>2, <2>2, StageCommandShapes
    <3> QED BY <3>1
  <2>4. PICK c \in DOMAIN cs : pos[c] = <<i, k>>
    BY <1>5, <2>2, <2>3
  <2>5. cs[c] = StageCommands(i, batches)[k]
    BY <1>5, <2>4
  <2> QED BY <2>1, <2>3, <2>4, <2>5 DEF IsScene
<1>9. ASSUME NEW i \in SceneStages PROVE i \in DOMAIN db /\ IsSeq(db[i]) /\ Len(db[i]) = max
  <2>1. db[i] \in [1 .. max -> {Unwritten}]
    BY DEF max
  <2>2. IsSeq(db[i]) /\ Len(db[i]) = max
    BY <1>4, <2>1, FunctionIsSeq
  <2> QED BY <2>2
<1> HIDE DEF st, ba
<1>10. Orderly(cs, bb, db, fbo)
  <2>1. ASSUME NEW c \in DOMAIN cs, IsScene(cs, c) PROVE SceneCommand(cs[c], bb, db)
    <3>1. Len(batches[ba(c)].list) \in Nat
      BY <1>2, <1>7, <2>1, SeqFacts
    <3>2. ba(c) \in DOMAIN batches /\ st(c) \in SceneStages
      BY <1>7, <2>1
    <3>3. cs[c].stage = st(c) /\ cs[c].draw = st(c) /\ cs[c].batch = <<st(c), ba(c)>>
      BY <1>7, <2>1
    <3>4. cs[c].count = Len(batches[ba(c)].list)
      BY <1>7, <2>1
    <3>5. cs[c].batch \in DOMAIN bb /\ bb[cs[c].batch] = batches[ba(c)].list
      BY <1>8, <3>2, <3>3
    <3>6. IsSeq(batches[ba(c)].list) /\ Len(batches[ba(c)].list) <= max
      BY <1>2, <1>4, <3>2
    <3>7. cs[c].draw \in DOMAIN db /\ IsSeq(db[cs[c].draw]) /\ Len(db[cs[c].draw]) = max
      BY <1>9, <3>2, <3>3
    <3> QED BY <3>1, <3>2, <3>3, <3>4, <3>5, <3>6, <3>7 DEF SceneCommand
  <2>2. ASSUME NEW c \in DOMAIN cs, NEW d \in DOMAIN cs,
               IsScene(cs, c), IsScene(cs, d), cs[c].batch = cs[d].batch
        PROVE  c = d
    <3>1. st(c) = st(d) /\ ba(c) = ba(d)
      BY <1>7, <2>2
    <3>2. pos[c] = pos[d]
      BY <1>5, <3>1 DEF st, ba
    <3> QED BY <1>5, <3>2
  <2> QED BY <1>5, <1>6, <2>1, <2>2 DEF Orderly
<1>11. Complete(cs, bb, S)
  <2> SUFFICES ASSUME NEW s \in SceneStages
               PROVE  \E phi : /\ OneToOne(phi, CallsOf(cs, s), Pieces(S))
                               /\ \A x \in CallsOf(cs, s) : Shows(cs, bb, x, phi[x])
    BY DEF Complete
  <2> DEFINE h == [x \in CallsOf(cs, s) |-> <<ba(x[1]), x[2]>>]
             m == [x \in CallsOf(cs, s) |-> g[h[x]]]
             phi == [x \in CallsOf(cs, s) |-> e[m[x]]]
  <2>1. ASSUME NEW x \in CallsOf(cs, s)
        PROVE  /\ x = <<x[1], x[2]>> /\ x[1] \in DOMAIN cs /\ IsScene(cs, x[1])
               /\ x[2] \in 1 .. cs[x[1]].count
               /\ cs[x[1]].stage = s /\ pos[x[1]] = <<s, ba(x[1])>>
               /\ ba(x[1]) \in DOMAIN batches
               /\ x[2] \in DOMAIN batches[ba(x[1])].list
               /\ h[x] = <<ba(x[1]), x[2]>> /\ h[x] \in InBatches(batches)
    <3>1. PICK i \in {n \in DOMAIN cs : IsScene(cs, n)} : x \in {i} \X (1 .. cs[i].count)
      BY DEF CallsOf, Calls
    <3>2. /\ x = <<x[1], x[2]>> /\ x[1] = i /\ x[2] \in 1 .. cs[i].count
          /\ cs[i].stage = s /\ IsScene(cs, i)
      BY <3>1 DEF CallsOf
    <3>3. st(i) = s /\ ba(i) \in DOMAIN batches /\ cs[i].count = Len(batches[ba(i)].list)
      BY <1>7, <3>2
    <3>4. pos[i] = <<s, ba(i)>>
      BY <1>5, <3>3 DEF st, ba
    <3>5. x[2] \in DOMAIN batches[ba(i)].list
      BY <1>2, <3>2, <3>3, SeqFacts
    <3>6. <<ba(i), x[2]>> \in InBatches(batches)
      BY <3>3, <3>5 DEF InBatches
    <3> QED BY <3>2, <3>3, <3>4, <3>5, <3>6
  <2>2. OneToOne(h, CallsOf(cs, s), InBatches(batches))
    <3>1. h \in [CallsOf(cs, s) -> InBatches(batches)]
      BY <2>1
    <3> HIDE DEF h
    <3>2. ASSUME NEW x \in CallsOf(cs, s), NEW y \in CallsOf(cs, s), h[x] = h[y] PROVE x = y
      <4>1. ba(x[1]) = ba(y[1]) /\ x[2] = y[2]
        BY <2>1, <3>2
      <4>2. pos[x[1]] = pos[y[1]] /\ x[1] \in DOMAIN cs /\ y[1] \in DOMAIN cs
        BY <2>1, <4>1
      <4>3. x[1] = y[1]
        BY <1>5, <4>2
      <4>4. x = <<x[1], x[2]>> /\ y = <<y[1], y[2]>>
        BY <2>1
      <4> QED BY <4>1, <4>3, <4>4
    <3>3. ASSUME NEW t \in InBatches(batches) PROVE \E x \in CallsOf(cs, s) : h[x] = t
      <4>1. PICK k \in DOMAIN batches : t \in {k} \X DOMAIN batches[k].list
        BY DEF InBatches
      <4>2. PICK j \in DOMAIN batches[k].list : t = <<k, j>>
        BY <4>1
      <4>3. PICK c \in DOMAIN cs : IsScene(cs, c) /\ pos[c] = <<s, k>>
        BY <1>8
      <4>4. st(c) = s /\ ba(c) = k
        BY <4>3 DEF st, ba
      <4>5. j \in 1 .. cs[c].count /\ cs[c].stage = s
        BY <1>2, <1>7, <4>3, <4>4, SeqFacts
      <4>6. <<c, j>> \in CallsOf(cs, s)
        <5>1. <<c, j>> \in Calls(cs)
          <6>1. c \in {n \in DOMAIN cs : IsScene(cs, n)}
            BY <4>3
          <6>2. <<c, j>> \in {c} \X (1 .. cs[c].count)
            BY <4>5
          <6> QED BY <6>1, <6>2 DEF Calls
        <5> QED BY <4>5, <5>1 DEF CallsOf
      <4>7. h[<<c, j>>] = <<k, j>>
        BY <2>1, <4>4, <4>6
      <4> QED BY <4>2, <4>6, <4>7
    <3> QED BY <3>1, <3>2, <3>3 DEF OneToOne
  <2> HIDE DEF h
  <2>3. OneToOne(m, CallsOf(cs, s), DOMAIN elements)
    BY <1>3, <2>2, Composed
  <2>4. \A x \in CallsOf(cs, s) : m[x] = g[h[x]] /\ m[x] \in DOMAIN elements
    BY <2>3 DEF OneToOne
  <2> HIDE DEF m
  <2>5. OneToOne(phi, CallsOf(cs, s), Pieces(S))
    BY <1>1, <2>3, Composed
  <2>6. ASSUME NEW x \in CallsOf(cs, s) PROVE Shows(cs, bb, x, phi[x])
    <3>1. phi[x] = e[m[x]]
      OBVIOUS
    <3> HIDE DEF phi
    <3>2. Stands(elements[m[x]], phi[x])
      BY <1>1, <2>4, <3>1
    <3>3. /\ batches[ba(x[1])].list[x[2]] = Pair(elements[m[x]])
          /\ batches[ba(x[1])].material = elements[m[x]].material
      <4>1. h[x][1] = ba(x[1]) /\ h[x][2] = x[2] /\ h[x] \in InBatches(batches)
        BY <2>1
      <4> QED BY <1>3, <2>4, <4>1
    <3>4. cs[x[1]].material = batches[ba(x[1])].material /\ cs[x[1]].batch = <<s, ba(x[1])>>
      <4>1. st(x[1]) = s
        BY <1>7, <2>1
      <4> QED BY <1>7, <2>1, <4>1
    <3>5. bb[cs[x[1]].batch] = batches[ba(x[1])].list
      BY <1>8, <2>1, <3>4
    <3> QED BY <3>2, <3>3, <3>4, <3>5 DEF Shows, Stands, Pair
  <2> HIDE DEF phi
  <2> QED BY <2>5, <2>6
<1> QED BY <1>10, <1>11

\* b has the entries of a, and each is as long as it was.
KeepsSizes(a, b) ==
  /\ DOMAIN b = DOMAIN a
  /\ \A n \in DOMAIN a : IsSeq(a[n]) => IsSeq(b[n]) /\ Len(b[n]) = Len(a[n])

\* A write that lands changes calls, never how many there are.
LEMMA LandedKeepsSizes ==
  ASSUME NEW db, NEW w
  PROVE  KeepsSizes(db, Landed(db, w))
<1> DEFINE l == Landed(db, w)
<1>1. DOMAIN l = DOMAIN db
  BY DEF Landed
<1>2. ASSUME NEW n \in DOMAIN db, IsSeq(db[n])
      PROVE  IsSeq(l[n]) /\ Len(l[n]) = Len(db[n])
  <2>1. CASE n # w.draw
    <3>1. l[n] = db[n]
      BY <2>1 DEF Landed
    <3> QED BY <1>2, <3>1
  <2>2. CASE n = w.draw
    <3> DEFINE S == {l[n][k] : k \in DOMAIN db[n]}
    <3>1. l[n] = [k \in DOMAIN db[n] |->
                   IF k \in DOMAIN w.calls THEN w.calls[k] ELSE db[n][k]]
      BY <2>2 DEF Landed
    <3>2. Len(db[n]) \in Nat /\ DOMAIN db[n] = 1 .. Len(db[n])
      BY <1>2, SeqFacts
    <3>3. l[n] \in [1 .. Len(db[n]) -> S]
      BY <3>1, <3>2
    <3> HIDE DEF S, l
    <3> QED BY <3>2, <3>3, FunctionIsSeq
  <2> QED BY <2>1, <2>2
<1> QED BY <1>1, <1>2 DEF KeepsSizes

\* Sizes that are kept twice are kept.
LEMMA SizesAreKept ==
  ASSUME NEW a, NEW b, NEW c, KeepsSizes(a, b), KeepsSizes(b, c)
  PROVE  KeepsSizes(a, c)
BY DEF KeepsSizes

\* The writes landed one after the other.
Landings(f, n, db, ws) ==
  f = [i \in 0 .. n |-> IF i = 0 THEN db ELSE Landed(f[i - 1], ws[i])]

\* They exist.
LEMMA LandingsExist ==
  ASSUME NEW n \in Nat, NEW db, NEW ws
  PROVE  \E f : Landings(f, n, db, ws)
<1> DEFINE T == {m \in 0 .. n : \E f : Landings(f, m, db, ws)}
<1>1. 0 \in T
  <2> DEFINE f == [i \in 0 .. 0 |-> db]
  <2>1. Landings(f, 0, db, ws)
    BY DEF Landings
  <2> QED BY <2>1
<1>2. ASSUME NEW m \in 0 .. n - 1, m \in T PROVE m + 1 \in T
  <2>1. PICK f : Landings(f, m, db, ws)
    BY <1>2
  <2> DEFINE g == [i \in 0 .. m + 1 |-> IF i = m + 1 THEN Landed(f[m], ws[m + 1]) ELSE f[i]]
             h == [i \in 0 .. m + 1 |-> IF i = 0 THEN db ELSE Landed(g[i - 1], ws[i])]
  <2>2. ASSUME NEW i \in 0 .. m + 1 PROVE g[i] = h[i]
    <3>1. CASE i = m + 1
      <4>1. m \in 0 .. m + 1 /\ m # m + 1 /\ i - 1 = m /\ i # 0
        BY <3>1
      <4>2. g[m] = f[m]
        BY <4>1
      <4> QED BY <3>1, <4>1, <4>2
    <3>2. CASE i # m + 1 /\ i # 0
      <4>1. i \in 0 .. m /\ i - 1 \in 0 .. m + 1 /\ i - 1 # m + 1
        BY <3>2
      <4>2. g[i] = f[i] /\ g[i - 1] = f[i - 1]
        BY <3>2, <4>1
      <4>3. f[i] = Landed(f[i - 1], ws[i])
        BY <2>1, <3>2, <4>1 DEF Landings
      <4> QED BY <3>2, <4>2, <4>3
    <3>3. CASE i = 0
      <4>1. f[0] = db
        BY <2>1 DEF Landings
      <4> QED BY <3>3, <4>1
    <3> QED BY <3>1, <3>2, <3>3
  <2>3. g = h
    BY <2>2
  <2>4. Landings(g, m + 1, db, ws)
    BY <2>3 DEF Landings
  <2> QED BY <2>4
<1>3. \A m \in 0 .. n : m \in T
  <2> HIDE DEF T
  <2> QED BY <1>1, <1>2, UpTo
<1> QED BY <1>3

\* ... and so do all of them together.
LEMMA AllLandedKeepsSizes ==
  ASSUME IsSeq(inflight)
  PROVE  KeepsSizes(drawBuf, AllLanded)
<1> DEFINE n == Len(inflight)
           f == CHOOSE f : Landings(f, n, drawBuf, inflight)
           T == {i \in 0 .. n : KeepsSizes(drawBuf, f[i])}
<1>1. n \in Nat
  BY SeqFacts
<1>2. Landings(f, n, drawBuf, inflight)
  <2> HIDE DEF n
  <2> QED BY <1>1, LandingsExist
<1>3. AllLanded = f[n]
  BY DEF AllLanded, Landings
<1> HIDE DEF f, n
<1>4. 0 \in T
  <2>1. f[0] = drawBuf
    BY <1>1, <1>2 DEF Landings
  <2> QED BY <1>1, <2>1 DEF KeepsSizes
<1>5. ASSUME NEW i \in 0 .. n - 1, i \in T PROVE i + 1 \in T
  <2>1. f[i + 1] = Landed(f[i], inflight[i + 1])
    <3>1. i + 1 \in 0 .. n /\ i + 1 # 0 /\ (i + 1) - 1 = i
      BY <1>1
    <3>2. f[i + 1] = Landed(f[(i + 1) - 1], inflight[i + 1])
      BY <1>2, <3>1 DEF Landings
    <3> QED BY <3>1, <3>2
  <2>2. KeepsSizes(f[i], f[i + 1])
    BY <2>1, LandedKeepsSizes
  <2>3. KeepsSizes(drawBuf, f[i + 1])
    BY <1>5, <2>2, SizesAreKept
  <2> QED BY <1>1, <2>3
<1>6. \A i \in 0 .. n : i \in T
  <2> HIDE DEF T
  <2> QED BY <1>1, <1>4, <1>5, UpTo
<1> QED BY <1>1, <1>3, <1>6

\* The work groups cover the batch.
LEMMA EveryObjectIsInvoked ==
  ASSUME NEW n \in Nat, NEW k \in 1 .. n
  PROVE  k \in Invocations(n)
<1>1. Group \in Nat /\ Group > 0
  BY FrameAssumption DEF FrameAssumption
<1> DEFINE q == (n + Group - 1) \div Group
           r == (n + Group - 1) % Group
<1>2. n + Group - 1 \in Nat
  BY <1>1
<1>3. q \in Int /\ r \in 0 .. Group - 1 /\ n + Group - 1 = Group * q + r
  BY <1>1, <1>2
<1>4. Group * q \in Int
  BY <1>1, <1>3
<1>5. n <= Group * q
  <2> HIDE DEF q, r
  <2> QED BY <1>1, <1>3, <1>4
<1> HIDE DEF q
<1>6. k \in 1 .. Group * q /\ ~(k - 1 > n)
  BY <1>4, <1>5
<1> QED BY <1>6 DEF Invocations, q

\* Commands that are in order stay so while no draw buffer changes its size.
LEMMA OrderlyWithSizes ==
  ASSUME NEW cs, NEW bb, NEW db, NEW name, Orderly(cs, bb, db, name),
         NEW new, KeepsSizes(db, new)
  PROVE  Orderly(cs, bb, new, name)
<1>1. \A i \in DOMAIN cs : IsScene(cs, i) => SceneCommand(cs[i], bb, new)
  BY DEF Orderly, SceneCommand, KeepsSizes
<1> QED BY <1>1 DEF Orderly

\* The draw calls of the commands before i.
Drawn(cs, i) == {x \in Calls(cs) : x[1] < i}

\* What a frame has of the draw call x; its mesh too if the draw call has landed.
DrawsCall(cs, bb, f, x, landed) ==
  /\ f.stage = cs[x[1]].stage
  /\ f.material = cs[x[1]].material
  /\ f.handle = bb[cs[x[1]].batch][x[2]].handle
  /\ f.meant = bb[cs[x[1]].batch][x[2]].mesh
  /\ landed => f.mesh = f.meant

\* The frame fr has the draw calls of the commands before i, each once.
Follows(cs, bb, fr, i, landed) ==
  \E psi : /\ OneToOne(psi, DOMAIN fr, Drawn(cs, i))
           /\ \A n \in DOMAIN fr : DrawsCall(cs, bb, fr[n], psi[n], landed)

FrameTypes ==
  /\ rerecord \in BOOLEAN
  /\ lazy \in BOOLEAN
  /\ attached \subseteq Renderers
  /\ compiled.scene \subseteq Renderers
  /\ fbo \in 1 .. MaxFbos
  /\ todo \in BOOLEAN
  /\ fresh \in BOOLEAN
  /\ pc \in {"idle", "next", "draw"}
  /\ IsSeq(inflight) /\ Len(inflight) <= MaxInflight
  /\ IsSeq(frame)
  /\ IsSeq(ops)
  /\ at \in Nat \ {0}
  /\ records \in 0 .. MaxRecords
  /\ changes \in 0 .. MaxChanges

\* Between record() and play() there are no commands; play() is within them.
Within ==
  /\ todo => cmds = <<>> /\ pc = "idle"
  /\ ~todo => at <= Len(cmds) + 1

CommandsAreOrderly == Orderly(cmds, batchBuf, drawBuf, compiled.fbo)

CommandsAreComplete == ~todo => Complete(cmds, batchBuf, compiled.scene)

FrameFollows == ~todo => Follows(cmds, batchBuf, frame, at, ~lazy)

\* A draw finds the draw calls of its own batch, unless GL may land them later.
DrawIsReady ==
  /\ ~lazy => inflight = <<>>
  /\ pc = "draw" =>
       /\ at \in DOMAIN cmds
       /\ IsScene(cmds, at)
       /\ ~lazy => \A k \in 1 .. Cmd.count :
                     drawBuf[Cmd.draw][k] = batchBuf[Cmd.batch][k].mesh

\* What was executed has the name that the commands were compiled with.
NamesAreCompiled ==
  pc # "idle" =>
    /\ \A i \in DOMAIN ops : ops[i].fbo = compiled.fbo
    /\ fresh \/ rerecord => compiled.fbo = fbo

\* The conjunction that the steps preserve.
FrameInv ==
  /\ FrameTypes
  /\ Within
  /\ CommandsAreOrderly
  /\ CommandsAreComplete
  /\ FrameFollows
  /\ DrawIsReady
  /\ NamesAreCompiled

\* Without commands nothing is to be drawn.
LEMMA NoCommands ==
  ASSUME NEW bb, NEW db, NEW name
  PROVE  Orderly(<<>>, bb, db, name) /\ Calls(<<>>) = {}
<1>1. <<>> \in Seq({}) /\ DOMAIN <<>> = {}
  BY EmptySeq
<1>2. IsSeq(<<>>)
  BY <1>1 DEF IsSeq
<1> QED BY <1>1, <1>2 DEF Orderly, Calls

\* ... and before the first command nothing is drawn.
LEMMA NothingDrawn ==
  ASSUME NEW cs, IsSeq(cs), NEW bb, NEW landed
  PROVE  Drawn(cs, 1) = {} /\ Follows(cs, bb, <<>>, 1, landed)
<1>1. Drawn(cs, 1) = {}
  BY SeqFacts DEF Drawn, Calls
<1>2. DOMAIN <<>> = {}
  OBVIOUS
<1>3. OneToOne([x \in {} |-> 0], DOMAIN <<>>, Drawn(cs, 1))
  BY <1>1, <1>2 DEF OneToOne
<1> QED BY <1>1, <1>2, <1>3 DEF Follows

\* The initial state.
LEMMA FrameStarts == Init => FrameInv
<1> SUFFICES ASSUME Init PROVE FrameInv
  OBVIOUS
<1> USE DEF Init
<1>1. <<>> \in Seq({}) /\ Len(<<>>) = 0
  BY EmptySeq
<1>2. IsSeq(<<>>)
  BY <1>1 DEF IsSeq
<1>3. /\ MaxFbos \in Nat /\ MaxFbos >= 1 /\ MaxRecords \in Nat /\ MaxChanges \in Nat
      /\ MaxInflight \in Nat /\ Laziness \subseteq BOOLEAN
  BY FrameAssumption DEF FrameAssumption
<1>4. FrameTypes
  <2>1. compiled.scene = {} /\ lazy \in BOOLEAN /\ Len(inflight) <= MaxInflight
    BY <1>1, <1>3
  <2>2. fbo \in 1 .. MaxFbos /\ records \in 0 .. MaxRecords /\ changes \in 0 .. MaxChanges
    BY <1>3
  <2>3. IsSeq(inflight) /\ IsSeq(frame) /\ IsSeq(ops)
    BY <1>2
  <2>4. todo \in BOOLEAN /\ fresh \in BOOLEAN
    OBVIOUS
  <2> QED BY <2>1, <2>2, <2>3, <2>4 DEF FrameTypes
<1>5. Within /\ DrawIsReady /\ NamesAreCompiled
  BY <1>1 DEF Within, DrawIsReady, NamesAreCompiled
<1>6. CommandsAreOrderly
  BY NoCommands DEF CommandsAreOrderly
<1>7. CommandsAreComplete
  <2>1. Pieces({}) = {}
    BY DEF Pieces
  <2>2. ASSUME NEW s \in SceneStages
        PROVE  \E phi : /\ OneToOne(phi, CallsOf(<<>>, s), Pieces({}))
                        /\ \A x \in CallsOf(<<>>, s) : Shows(<<>>, <<>>, x, phi[x])
    <3>1. CallsOf(<<>>, s) = {}
      BY NoCommands DEF CallsOf
    <3>2. OneToOne([x \in {} |-> 0], CallsOf(<<>>, s), Pieces({}))
      BY <2>1, <3>1 DEF OneToOne
    <3> QED BY <3>1, <3>2
  <2> QED BY <2>2 DEF CommandsAreComplete, Complete
<1>8. FrameFollows
  BY <1>2, NothingDrawn DEF FrameFollows
<1> QED BY <1>4, <1>5, <1>6, <1>7, <1>8 DEF FrameInv

\* What the application does touches no command that a frame has drawn.
LEMMA ApplicationKeepsFrame ==
  ASSUME FrameInv, Application
  PROVE  FrameInv'
<1> USE DEF FrameInv
<1>0. /\ MaxFbos \in Nat /\ MaxRecords \in Nat /\ MaxChanges \in Nat
  BY FrameAssumption DEF FrameAssumption
<1>1. ASSUME NEW r \in Renderers, Attach(r) \/ Detach(r) PROVE FrameInv'
  <2>1. /\ pc = "idle" /\ changes < MaxChanges /\ changes' = changes + 1
        /\ attached' \subseteq attached \cup {r}
        /\ UNCHANGED <<rerecord, lazy, fbo, todo, cmds, batchBuf, drawBuf, inflight, pc, at,
                       frame, ops, fresh, compiled, records>>
    BY <1>1 DEF Attach, Detach, Change, mode, bufs, hist
  <2>2. FrameTypes'
    BY <1>0, <2>1 DEF FrameTypes
  <2>3. Within' /\ DrawIsReady' /\ NamesAreCompiled'
    BY <2>1 DEF Within, DrawIsReady, NamesAreCompiled, Cmd
  <2>4. CommandsAreOrderly' /\ CommandsAreComplete' /\ FrameFollows'
    BY <2>1 DEF CommandsAreOrderly, CommandsAreComplete, FrameFollows
  <2> QED BY <2>2, <2>3, <2>4
<1>2. CASE RecreateFramebuffer
  <2>1. /\ pc = "idle" /\ fbo < MaxFbos /\ fbo' = fbo + 1
        /\ UNCHANGED <<rerecord, lazy, attached, changes, todo, cmds, batchBuf, drawBuf,
                       inflight, pc, at, frame, ops, fresh, compiled, records>>
    BY <1>2 DEF RecreateFramebuffer, mode, scene, bufs, hist
  <2>2. FrameTypes'
    BY <1>0, <2>1 DEF FrameTypes
  <2>3. Within' /\ DrawIsReady' /\ NamesAreCompiled'
    BY <2>1 DEF Within, DrawIsReady, NamesAreCompiled, Cmd
  <2>4. CommandsAreOrderly' /\ CommandsAreComplete' /\ FrameFollows'
    BY <2>1 DEF CommandsAreOrderly, CommandsAreComplete, FrameFollows
  <2> QED BY <2>2, <2>3, <2>4
<1>3. CASE Record
  <2>1. /\ pc = "idle" /\ records < MaxRecords /\ records' = records + 1
        /\ todo' = TRUE /\ cmds' = <<>>
        /\ UNCHANGED <<rerecord, lazy, attached, changes, fbo, batchBuf, drawBuf,
                       inflight, pc, at, frame, ops, fresh, compiled>>
    BY <1>3 DEF Record, mode, scene, bufs, hist
  <2>2. FrameTypes'
    BY <1>0, <2>1 DEF FrameTypes
  <2>3. Within' /\ DrawIsReady' /\ NamesAreCompiled'
    BY <2>1 DEF Within, DrawIsReady, NamesAreCompiled
  <2>4. CommandsAreOrderly'
    BY <2>1, NoCommands DEF CommandsAreOrderly
  <2>5. CommandsAreComplete' /\ FrameFollows'
    BY <2>1 DEF CommandsAreComplete, FrameFollows
  <2> QED BY <2>2, <2>3, <2>4, <2>5
<1> QED BY <1>1, <1>2, <1>3 DEF Application

\* play() begins its frame with nothing drawn, and with new commands if record()
\* has left its list.
LEMMA PlayKeepsFrame ==
  ASSUME FrameInv, Play
  PROVE  FrameInv'
<1> USE DEF FrameInv
<1>1. /\ MayPlay /\ todo' = FALSE /\ fresh' = todo /\ frame' = <<>> /\ ops' = <<>>
      /\ at' = 1 /\ pc' = "next"
      /\ UNCHANGED <<rerecord, lazy, attached, changes, fbo, inflight, records>>
      /\ IF todo THEN \E order \in SetToSeqs(attached) : Compile(order)
                 ELSE UNCHANGED <<cmds, batchBuf, drawBuf, compiled>>
  BY DEF Play, mode, scene, bufs
<1>2. <<>> \in Seq({}) /\ IsSeq(<<>>) /\ DOMAIN <<>> = {}
  BY EmptySeq DEF IsSeq
<1>3. /\ Orderly(cmds', batchBuf', drawBuf', compiled'.fbo)
      /\ Complete(cmds', batchBuf', compiled'.scene)
      /\ compiled'.scene \subseteq Renderers
      /\ fresh' \/ rerecord' => compiled'.fbo = fbo'
  <2>1. CASE todo
    <3>1. PICK order \in SetToSeqs(attached) : Compile(order)
      BY <1>1, <2>1
    <3> DEFINE batches == Batches(Elements(order))
               flat == FlattenSeq([i \in DOMAIN Stages |-> StageCommands(i, batches)])
    <3>2. /\ cmds' = cmds \o flat
          /\ batchBuf' = [n \in {BufferName(i, k) : i \in SceneStages, k \in DOMAIN batches} |->
                           batches[n[2]].list]
          /\ drawBuf' = [i \in SceneStages |->
                          [k \in 1 .. MaxMeshCount(batches) |-> Unwritten]]
          /\ compiled' = [scene |-> attached, fbo |-> fbo]
      BY <3>1 DEF Compile
    <3>3. PICK bb, db, b, cs, S :
            b = batches /\ cs = flat /\ bb = batchBuf' /\ db = drawBuf' /\ S = attached
      OBVIOUS
    <3>4. Orderly(cs, bb, db, fbo) /\ Complete(cs, bb, attached)
      <4>1. S \in SUBSET Renderers /\ order \in SetToSeqs(S)
        BY <3>3 DEF FrameTypes
      <4>2. b = Batches(Elements(order)) /\ IsCompiled(cs, bb, db, b)
        BY <3>2, <3>3 DEF IsCompiled
      <4>3. Orderly(cs, bb, db, fbo) /\ Complete(cs, bb, S)
        <5> HIDE DEF batches, flat
        <5> QED BY <4>1, <4>2, CompilationIsWhole
      <4> QED BY <3>3, <4>3
    <3>5. cmds' = cs
      <4>1. IsSeq(cs)
        BY <3>4 DEF Orderly
      <4>2. cmds = <<>>
        BY <2>1 DEF Within
      <4>3. PICK R : cs \in Seq(R)
        BY <4>1 DEF IsSeq
      <4>4. <<>> \o cs = cs
        BY <4>3, ConcatEmptySeq
      <4> HIDE DEF batches, flat
      <4> QED BY <3>2, <3>3, <4>2, <4>4
    <3>6. compiled'.fbo = fbo /\ compiled'.scene = attached
      BY <3>2
    <3> HIDE DEF batches, flat
    <3> QED BY <1>1, <3>3, <3>4, <3>5, <3>6 DEF FrameTypes
  <2>2. CASE ~todo
    <3>1. UNCHANGED <<cmds, batchBuf, drawBuf, compiled, fbo, rerecord>> /\ fresh' = FALSE
      BY <1>1, <2>2 DEF FrameTypes
    <3>2. rerecord => compiled.fbo = fbo
      BY <1>1, <2>2 DEF MayPlay
    <3> QED BY <2>2, <3>1, <3>2 DEF CommandsAreOrderly, CommandsAreComplete, FrameTypes
  <2> QED BY <2>1, <2>2
<1>4. IsSeq(cmds') /\ Len(cmds') \in Nat
  BY <1>3, SeqFacts DEF Orderly
<1>5. FrameTypes'
  <2>1. IsSeq(inflight)' /\ (Len(inflight) <= MaxInflight)' /\ IsSeq(frame)' /\ IsSeq(ops)'
    BY <1>1, <1>2 DEF FrameTypes
  <2>2. (todo \in BOOLEAN)' /\ (fresh \in BOOLEAN)'
    BY <1>1 DEF FrameTypes
  <2> QED BY <1>1, <1>3, <2>1, <2>2 DEF FrameTypes
<1>6. Within' /\ NamesAreCompiled'
  BY <1>1, <1>2, <1>3, <1>4 DEF Within, NamesAreCompiled
<1>7. DrawIsReady'
  BY <1>1 DEF DrawIsReady
<1>8. CommandsAreOrderly' /\ CommandsAreComplete'
  BY <1>1, <1>3 DEF CommandsAreOrderly, CommandsAreComplete
<1>9. FrameFollows'
  BY <1>1, <1>4, NothingDrawn DEF FrameFollows
<1> QED BY <1>5, <1>6, <1>7, <1>8, <1>9

\* The batch shader writes what the draw of its batch reads, unless GL lands it later.
LEMMA DispatchKeepsFrame ==
  ASSUME FrameInv, Dispatch
  PROVE  FrameInv'
<1> USE DEF FrameInv
<1> DEFINE objects == batchBuf[Cmd.batch]
           w == [draw  |-> Cmd.draw,
                 calls |-> [k \in Invocations(Len(objects)) |->
                              IF k \in DOMAIN objects THEN objects[k].mesh ELSE Beyond]]
<1>1. /\ pc = "next" /\ at <= Len(cmds) /\ Cmd.kind = "scene" /\ Len(inflight) < MaxInflight
      /\ IF lazy
         THEN inflight' = Append(inflight, w) /\ UNCHANGED drawBuf
         ELSE drawBuf' = Landed(drawBuf, w) /\ UNCHANGED inflight
      /\ pc' = "draw"
      /\ UNCHANGED <<rerecord, lazy, attached, changes, fbo, todo, cmds, batchBuf, at,
                     frame, ops, fresh, compiled, records>>
  BY DEF Dispatch, mode, scene, hist
<1>2. IsSeq(cmds) /\ Len(cmds) \in Nat /\ DOMAIN cmds = 1 .. Len(cmds)
  BY SeqFacts DEF CommandsAreOrderly, Orderly
<1>3. at \in DOMAIN cmds /\ IsScene(cmds, at)
  BY <1>1, <1>2 DEF FrameTypes, IsScene, Cmd
<1>4. SceneCommand(Cmd, batchBuf, drawBuf)
  BY <1>3 DEF CommandsAreOrderly, Orderly, Cmd
<1>5. KeepsSizes(drawBuf, drawBuf')
  <2>1. CASE lazy
    BY <1>1, <2>1 DEF KeepsSizes
  <2>2. CASE ~lazy
    <3> HIDE DEF w
    <3> QED BY <1>1, <2>2, LandedKeepsSizes
  <2> QED BY <2>1, <2>2
<1>6. IsSeq(inflight)' /\ (Len(inflight) <= MaxInflight)'
  <2>1. CASE lazy
    <3> HIDE DEF w
    <3>1. PICK S : inflight \in Seq(S)
      BY DEF FrameTypes, IsSeq
    <3>2. inflight \in Seq(S \cup {w})
      BY <3>1, SeqMonotonic
    <3>3. inflight' = Append(inflight, w)
      BY <1>1, <2>1
    <3>4. inflight' \in Seq(S \cup {w}) /\ Len(inflight') = Len(inflight) + 1
      BY <3>2, <3>3
    <3>5. IsSeq(inflight')
      BY <3>4 DEF IsSeq
    <3>6. Len(inflight) \in Nat /\ MaxInflight \in Nat
      BY <3>1, FrameAssumption DEF FrameAssumption
    <3>7. Len(inflight') <= MaxInflight
      BY <1>1, <3>4, <3>6
    <3> QED BY <3>5, <3>7
  <2>2. CASE ~lazy
    BY <1>1, <2>2 DEF FrameTypes
  <2> QED BY <2>1, <2>2
<1>7. FrameTypes'
  BY <1>1, <1>6 DEF FrameTypes
<1>8. Within' /\ NamesAreCompiled'
  BY <1>1 DEF Within, NamesAreCompiled
<1>9. CommandsAreOrderly'
  BY <1>1, <1>5, OrderlyWithSizes DEF CommandsAreOrderly
<1>10. CommandsAreComplete' /\ FrameFollows'
  BY <1>1 DEF CommandsAreComplete, FrameFollows
<1>11. DrawIsReady'
  <2>1. (~lazy => inflight = <<>>)'
    BY <1>1 DEF DrawIsReady, FrameTypes
  <2>2. ASSUME ~lazy, NEW k \in 1 .. Cmd.count
        PROVE  Landed(drawBuf, w)[Cmd.draw][k] = batchBuf[Cmd.batch][k].mesh
    <3>1. /\ Cmd.count \in Nat /\ Len(objects) = Cmd.count /\ DOMAIN objects = 1 .. Cmd.count
      BY <1>4, SeqFacts DEF SceneCommand
    <3>2. Cmd.draw \in DOMAIN drawBuf /\ k \in DOMAIN drawBuf[Cmd.draw]
      <4>1. IsSeq(drawBuf[Cmd.draw]) /\ Cmd.count <= Len(drawBuf[Cmd.draw])
        BY <1>4 DEF SceneCommand
      <4>2. DOMAIN drawBuf[Cmd.draw] = 1 .. Len(drawBuf[Cmd.draw]) /\ Len(drawBuf[Cmd.draw]) \in Nat
        BY <4>1, SeqFacts
      <4> QED BY <1>4, <3>1, <4>1, <4>2 DEF SceneCommand
    <3>3. k \in Invocations(Len(objects))
      BY <3>1, EveryObjectIsInvoked
    <3>4. w.draw = Cmd.draw /\ k \in DOMAIN w.calls /\ w.calls[k] = objects[k].mesh
      BY <3>1, <3>3
    <3> HIDE DEF w, objects
    <3>5. Landed(drawBuf, w)[Cmd.draw] =
            [j \in DOMAIN drawBuf[Cmd.draw] |->
              IF j \in DOMAIN w.calls THEN w.calls[j] ELSE drawBuf[Cmd.draw][j]]
      BY <3>2, <3>4 DEF Landed
    <3> QED BY <3>2, <3>4, <3>5 DEF objects
  <2>3. Cmd' = Cmd
    BY <1>1 DEF Cmd
  <2>4. (~lazy => \A k \in 1 .. Cmd.count :
                    drawBuf[Cmd.draw][k] = batchBuf[Cmd.batch][k].mesh)'
    <3>1. CASE lazy
      BY <1>1, <3>1
    <3>2. CASE ~lazy
      <4> HIDE DEF w
      <4> QED BY <1>1, <2>2, <2>3, <3>2
    <3> QED BY <3>1, <3>2
  <2> QED BY <1>1, <1>3, <2>1, <2>4 DEF DrawIsReady
<1> QED BY <1>7, <1>8, <1>9, <1>10, <1>11

\* Writes that land later change no sizes.
LEMMA LandKeepsFrame ==
  ASSUME FrameInv, Land
  PROVE  FrameInv'
<1> USE DEF FrameInv
<1>1. /\ inflight # <<>> /\ drawBuf' = Landed(drawBuf, Head(inflight))
      /\ inflight' = Tail(inflight)
      /\ UNCHANGED <<rerecord, lazy, attached, changes, fbo, todo, cmds, batchBuf, pc, at,
                     frame, ops, fresh, compiled, records>>
  BY DEF Land, mode, scene, hist
<1>2. IsSeq(inflight)' /\ (Len(inflight) <= MaxInflight)'
  <2>1. PICK S : inflight \in Seq(S)
    BY DEF FrameTypes, IsSeq
  <2>2. Tail(inflight) \in Seq(S) /\ Len(Tail(inflight)) = Len(inflight) - 1
    BY <1>1, <2>1, HeadTailProperties
  <2>3. IsSeq(Tail(inflight))
    BY <2>2 DEF IsSeq
  <2>4. Len(inflight) \in Nat /\ Len(inflight) <= MaxInflight /\ MaxInflight \in Nat
    BY <2>1, FrameAssumption DEF FrameAssumption, FrameTypes
  <2> QED BY <1>1, <2>2, <2>3, <2>4
<1>3. FrameTypes'
  BY <1>1, <1>2 DEF FrameTypes
<1>4. Within' /\ NamesAreCompiled'
  BY <1>1 DEF Within, NamesAreCompiled
<1>5. CommandsAreOrderly'
  <2>1. KeepsSizes(drawBuf, drawBuf')
    BY <1>1, LandedKeepsSizes
  <2> QED BY <1>1, <2>1, OrderlyWithSizes DEF CommandsAreOrderly
<1>6. CommandsAreComplete' /\ FrameFollows'
  BY <1>1 DEF CommandsAreComplete, FrameFollows
<1>7. DrawIsReady'
  <2>1. lazy
    BY <1>1 DEF DrawIsReady
  <2> QED BY <1>1, <2>1 DEF DrawIsReady, Cmd
<1> QED BY <1>3, <1>4, <1>5, <1>6, <1>7

\* A command that is no scene command draws no call.
LEMMA NothingMoreDrawn ==
  ASSUME NEW cs, IsSeq(cs), NEW i \in DOMAIN cs, ~IsScene(cs, i)
  PROVE  Drawn(cs, i + 1) = Drawn(cs, i)
<1>1. \A x \in Calls(cs) : x[1] \in DOMAIN cs /\ x[1] # i
  BY DEF Calls
<1>2. DOMAIN cs = 1 .. Len(cs) /\ Len(cs) \in Nat
  BY SeqFacts
<1>3. \A x \in Calls(cs) : x[1] < i + 1 <=> x[1] < i
  BY <1>1, <1>2
<1> QED BY <1>3 DEF Drawn

\* A scene command draws the calls of its batch.
LEMMA BatchIsDrawn ==
  ASSUME NEW cs, IsSeq(cs), NEW i \in DOMAIN cs, IsScene(cs, i)
  PROVE  Drawn(cs, i + 1) = Drawn(cs, i) \cup ({i} \X (1 .. cs[i].count))
<1> DEFINE B == {i} \X (1 .. cs[i].count)
<1>1. DOMAIN cs = 1 .. Len(cs) /\ Len(cs) \in Nat
  BY SeqFacts
<1>2. B \subseteq Calls(cs) /\ \A x \in B : x[1] = i
  BY DEF Calls
<1>3. ASSUME NEW x \in Calls(cs) PROVE x[1] \in DOMAIN cs /\ (x[1] = i => x \in B)
  <2>1. PICK n \in {n \in DOMAIN cs : IsScene(cs, n)} : x \in {n} \X (1 .. cs[n].count)
    BY DEF Calls
  <2> QED BY <2>1
<1> HIDE DEF B
<1>4. \A x \in Calls(cs) : x[1] < i + 1 <=> x[1] < i \/ x[1] = i
  BY <1>1, <1>3
<1>5. \A x \in B : x[1] < i + 1
  BY <1>1, <1>2
<1>6. Drawn(cs, i + 1) = Drawn(cs, i) \cup B
  BY <1>2, <1>3, <1>4, <1>5 DEF Drawn
<1> QED BY <1>6 DEF B

\* The draw adds each call of its batch, with the mesh the shader has found for it.
LEMMA DrawKeepsFrame ==
  ASSUME FrameInv, Draw
  PROVE  FrameInv'
<1> USE DEF FrameInv
<1> DEFINE Call(k) == [stage    |-> Cmd.stage,
                       material |-> Cmd.material,
                       handle   |-> batchBuf[Cmd.batch][k].handle,
                       meant    |-> batchBuf[Cmd.batch][k].mesh,
                       mesh     |-> drawBuf[Cmd.draw][k]]
           m == Cmd.count
           new == [k \in 1 .. m |-> Call(k)]
<1>1. /\ pc = "draw" /\ frame' = frame \o new /\ at' = at + 1 /\ pc' = "next"
      /\ UNCHANGED <<rerecord, lazy, attached, changes, fbo, todo, cmds, batchBuf, drawBuf,
                     inflight, ops, fresh, compiled, records>>
  BY DEF Draw, mode, scene, bufs, hist
<1>2. IsSeq(cmds) /\ Len(cmds) \in Nat /\ DOMAIN cmds = 1 .. Len(cmds)
  BY SeqFacts DEF CommandsAreOrderly, Orderly
<1>3. at \in DOMAIN cmds /\ IsScene(cmds, at)
  BY <1>1 DEF DrawIsReady
<1>4. m \in Nat
  BY <1>3 DEF CommandsAreOrderly, Orderly, Cmd, SceneCommand
<1>5. ~todo
  BY <1>1 DEF Within
<1> DEFINE N == {Call(k) : k \in 1 .. m}
<1>6. PICK S : frame \in Seq(S)
  BY DEF FrameTypes, IsSeq
<1> DEFINE l == Len(frame)
<1>7. new \in Seq(N) /\ Len(new) = m
  <2>1. new \in [1 .. m -> N]
    OBVIOUS
  <2> HIDE DEF new, N, m
  <2> QED BY <1>4, <2>1, FunctionIsSeq
<1>8. \A k \in 1 .. m : new[k] = Call(k)
  OBVIOUS
<1> HIDE DEF new, N, m, Call
<1>9. /\ frame \o new \in Seq(S \cup N) /\ l \in Nat /\ DOMAIN frame = 1 .. l
      /\ DOMAIN (frame \o new) = 1 .. l + m
      /\ \A x \in 1 .. l + m :
           (frame \o new)[x] = IF x <= l THEN frame[x] ELSE new[x - l]
  <2>1. frame \in Seq(S \cup N) /\ new \in Seq(S \cup N)
    BY <1>6, <1>7, SeqMonotonic
  <2>2. l \in Nat /\ DOMAIN frame = 1 .. l
    BY <1>6
  <2>3. /\ frame \o new \in Seq(S \cup N) /\ Len(frame \o new) = l + m
        /\ \A x \in 1 .. l + m :
             (frame \o new)[x] = IF x <= l THEN frame[x] ELSE new[x - l]
    BY <1>7, <2>1, ConcatProperties
  <2>4. DOMAIN (frame \o new) = 1 .. l + m
    BY <2>3
  <2> QED BY <2>2, <2>3, <2>4
<1>10. IsSeq(frame')
  BY <1>1, <1>9 DEF IsSeq
<1>11. FrameTypes'
  BY <1>1, <1>10 DEF FrameTypes
<1>12. Within'
  BY <1>1, <1>2, <1>3, <1>5 DEF Within
<1>13. CommandsAreOrderly' /\ CommandsAreComplete' /\ DrawIsReady' /\ NamesAreCompiled'
  BY <1>1 DEF CommandsAreOrderly, CommandsAreComplete, DrawIsReady, NamesAreCompiled
<1>14. FrameFollows'
  <2>1. PICK psi : /\ OneToOne(psi, 1 .. l, Drawn(cmds, at))
                   /\ \A n \in 1 .. l : DrawsCall(cmds, batchBuf, frame[n], psi[n], ~lazy)
    BY <1>5, <1>9 DEF FrameFollows, Follows
  <2> DEFINE p == [x \in 1 .. l + m |-> IF x <= l THEN psi[x] ELSE <<at, x - l>>]
  <2>2. OneToOne(p, 1 .. l + m, Drawn(cmds, at + 1))
    <3>1. \A t \in Drawn(cmds, at) : t[1] # at
      BY DEF Drawn, FrameTypes
    <3>2. Drawn(cmds, at + 1) = Drawn(cmds, at) \cup ({at} \X (1 .. m))
      BY <1>2, <1>3, BatchIsDrawn DEF m, Cmd
    <3>3. PICK i, T : i = at /\ T = Drawn(cmds, at)
      OBVIOUS
    <3>4. /\ l \in Nat /\ m \in Nat /\ OneToOne(psi, 1 .. l, T) /\ \A t \in T : t[1] # i
      BY <1>4, <1>9, <2>1, <3>1, <3>3
    <3> HIDE DEF l
    <3>5. OneToOne([x \in 1 .. l + m |-> IF x <= l THEN psi[x] ELSE <<i, x - l>>],
                   1 .. l + m, T \cup ({i} \X (1 .. m)))
      BY <3>4, OneMoreBlock
    <3> QED BY <3>2, <3>3, <3>5
  <2>3. ASSUME NEW x \in 1 .. l + m
        PROVE  DrawsCall(cmds, batchBuf, (frame \o new)[x], p[x], ~lazy)
    <3>1. CASE x <= l
      <4>1. x \in 1 .. l /\ (frame \o new)[x] = frame[x] /\ p[x] = psi[x]
        BY <1>9, <3>1
      <4> QED BY <2>1, <4>1
    <3>2. CASE ~(x <= l)
      <4>1. x - l \in 1 .. m /\ (frame \o new)[x] = new[x - l] /\ p[x] = <<at, x - l>>
        BY <1>4, <1>9, <3>2
      <4>2. (frame \o new)[x] = Call(x - l)
        BY <1>8, <4>1
      <4>3. ~lazy => drawBuf[Cmd.draw][x - l] = batchBuf[Cmd.batch][x - l].mesh
        BY <1>1, <4>1 DEF DrawIsReady, m
      <4>4. PICK k : k = x - l
        OBVIOUS
      <4> HIDE DEF p
      <4>5. p[x][1] = at /\ p[x][2] = k
        BY <4>1, <4>4
      <4> QED BY <4>2, <4>3, <4>4, <4>5 DEF DrawsCall, Call, Cmd
    <3> QED BY <3>1, <3>2
  <2>4. Follows(cmds, batchBuf, frame \o new, at + 1, ~lazy)
    <3> HIDE DEF p
    <3> QED BY <1>9, <2>2, <2>3 DEF Follows
  <2> QED BY <1>1, <2>4 DEF FrameFollows
<1> QED BY <1>11, <1>12, <1>13, <1>14

\* A barrier lands the writes and draws nothing.
LEMMA BarrierKeepsFrame ==
  ASSUME FrameInv, Barrier
  PROVE  FrameInv'
<1> USE DEF FrameInv
<1>1. /\ pc = "next" /\ at <= Len(cmds) /\ Cmd.kind = "barrier"
      /\ drawBuf' = AllLanded /\ inflight' = <<>> /\ at' = at + 1
      /\ UNCHANGED <<rerecord, lazy, attached, changes, fbo, todo, cmds, batchBuf, pc,
                     frame, ops, fresh, compiled, records>>
  BY DEF Barrier, mode, scene, hist
<1>2. IsSeq(cmds) /\ Len(cmds) \in Nat /\ DOMAIN cmds = 1 .. Len(cmds)
  BY SeqFacts DEF CommandsAreOrderly, Orderly
<1>3. at \in DOMAIN cmds /\ ~IsScene(cmds, at)
  BY <1>1, <1>2 DEF FrameTypes, IsScene, Cmd
<1>4. IsSeq(inflight)' /\ (Len(inflight) <= MaxInflight)'
  <2>1. <<>> \in Seq({}) /\ Len(<<>>) = 0 /\ MaxInflight \in Nat
    BY EmptySeq, FrameAssumption DEF FrameAssumption
  <2>2. IsSeq(<<>>)
    BY <2>1 DEF IsSeq
  <2> QED BY <1>1, <2>1, <2>2
<1>5. FrameTypes'
  BY <1>1, <1>4 DEF FrameTypes
<1>6. Within' /\ NamesAreCompiled' /\ DrawIsReady'
  BY <1>1, <1>2, <1>3 DEF Within, NamesAreCompiled, DrawIsReady
<1>7. CommandsAreOrderly'
  <2>1. KeepsSizes(drawBuf, drawBuf')
    BY <1>1, AllLandedKeepsSizes DEF FrameTypes
  <2> QED BY <1>1, <2>1, OrderlyWithSizes DEF CommandsAreOrderly
<1>8. CommandsAreComplete'
  BY <1>1 DEF CommandsAreComplete
<1>9. FrameFollows'
  <2>1. Drawn(cmds, at + 1) = Drawn(cmds, at)
    BY <1>2, <1>3, NothingMoreDrawn
  <2> QED BY <1>1, <2>1 DEF FrameFollows, Follows
<1> QED BY <1>5, <1>6, <1>7, <1>8, <1>9

\* A blit or a clear uses the name of its command.
LEMMA BlitOrClearKeepsFrame ==
  ASSUME FrameInv, BlitOrClear
  PROVE  FrameInv'
<1> USE DEF FrameInv
<1>1. /\ pc = "next" /\ at <= Len(cmds) /\ Cmd.kind \in {"blit", "clear"}
      /\ ops' = Append(ops, Cmd) /\ at' = at + 1
      /\ UNCHANGED <<rerecord, lazy, attached, changes, fbo, todo, cmds, batchBuf, drawBuf,
                     inflight, pc, frame, fresh, compiled, records>>
  BY DEF BlitOrClear, mode, scene, bufs, hist
<1>2. IsSeq(cmds) /\ Len(cmds) \in Nat /\ DOMAIN cmds = 1 .. Len(cmds)
  BY SeqFacts DEF CommandsAreOrderly, Orderly
<1>3. at \in DOMAIN cmds /\ ~IsScene(cmds, at)
  BY <1>1, <1>2 DEF FrameTypes, IsScene, Cmd
<1>4. Cmd.fbo = compiled.fbo
  BY <1>1, <1>3 DEF CommandsAreOrderly, Orderly, Cmd
<1>5. /\ IsSeq(ops')
      /\ \A i \in DOMAIN ops' : ops'[i].fbo = compiled.fbo
  <2>1. PICK S : ops \in Seq(S)
    BY DEF FrameTypes, IsSeq
  <2>2. PICK c : c = Cmd
    OBVIOUS
  <2>3. ops \in Seq(S \cup {c})
    BY <2>1, SeqMonotonic
  <2>4. /\ Append(ops, c) \in Seq(S \cup {c}) /\ Len(Append(ops, c)) = Len(ops) + 1
        /\ Len(ops) \in Nat /\ DOMAIN ops = 1 .. Len(ops)
        /\ \A i \in 1 .. Len(ops) + 1 : Append(ops, c)[i] = IF i <= Len(ops) THEN ops[i] ELSE c
    BY <2>3
  <2>5. IsSeq(Append(ops, c)) /\ DOMAIN Append(ops, c) = 1 .. Len(ops) + 1
    BY <2>4 DEF IsSeq
  <2>6. \A i \in DOMAIN ops : ops[i].fbo = compiled.fbo
    BY <1>1 DEF NamesAreCompiled
  <2>7. \A i \in DOMAIN Append(ops, c) : Append(ops, c)[i].fbo = compiled.fbo
    BY <1>4, <2>2, <2>4, <2>5, <2>6
  <2> QED BY <1>1, <2>2, <2>5, <2>7
<1>6. FrameTypes'
  BY <1>1, <1>5 DEF FrameTypes
<1>7. Within' /\ DrawIsReady'
  BY <1>1, <1>2, <1>3 DEF Within, DrawIsReady
<1>8. NamesAreCompiled'
  BY <1>1, <1>5 DEF NamesAreCompiled
<1>9. CommandsAreOrderly' /\ CommandsAreComplete'
  BY <1>1 DEF CommandsAreOrderly, CommandsAreComplete
<1>10. FrameFollows'
  <2>1. Drawn(cmds, at + 1) = Drawn(cmds, at)
    BY <1>2, <1>3, NothingMoreDrawn
  <2> QED BY <1>1, <2>1 DEF FrameFollows, Follows
<1> QED BY <1>6, <1>7, <1>8, <1>9, <1>10

\* The end of a frame changes only where play() is.
LEMMA EndKeepsFrame ==
  ASSUME FrameInv, EndFrame
  PROVE  FrameInv'
<1> USE DEF FrameInv
<1>1. /\ pc = "next" /\ pc' = "idle"
      /\ UNCHANGED <<rerecord, lazy, attached, changes, fbo, todo, cmds, batchBuf, drawBuf,
                     inflight, at, frame, ops, fresh, compiled, records>>
  BY DEF EndFrame, mode, scene, bufs, hist
<1>2. FrameTypes'
  BY <1>1 DEF FrameTypes
<1>3. Within' /\ DrawIsReady' /\ NamesAreCompiled'
  BY <1>1 DEF Within, DrawIsReady, NamesAreCompiled
<1>4. CommandsAreOrderly' /\ CommandsAreComplete' /\ FrameFollows'
  BY <1>1 DEF CommandsAreOrderly, CommandsAreComplete, FrameFollows
<1> QED BY <1>2, <1>3, <1>4

\* Every step preserves the invariant.
LEMMA FrameSteps == FrameInv /\ [Next]_vars => FrameInv'
<1> SUFFICES ASSUME FrameInv, [Next]_vars PROVE FrameInv'
  OBVIOUS
<1>1. CASE UNCHANGED vars
  <2>1. UNCHANGED <<rerecord, lazy, attached, changes, fbo, todo, cmds, batchBuf, drawBuf,
                    inflight, pc, at, frame, ops, fresh, compiled, records>>
    BY <1>1 DEF vars, mode, scene, bufs, hist
  <2>2. FrameTypes'
    BY <2>1 DEF FrameInv, FrameTypes
  <2>3. Within' /\ DrawIsReady' /\ NamesAreCompiled'
    BY <2>1 DEF FrameInv, Within, DrawIsReady, NamesAreCompiled, Cmd
  <2>4. CommandsAreOrderly' /\ CommandsAreComplete' /\ FrameFollows'
    BY <2>1 DEF FrameInv, CommandsAreOrderly, CommandsAreComplete, FrameFollows
  <2> QED BY <2>2, <2>3, <2>4 DEF FrameInv
<1> QED
  BY <1>1, ApplicationKeepsFrame, PlayKeepsFrame, DispatchKeepsFrame, LandKeepsFrame,
     DrawKeepsFrame, BarrierKeepsFrame, BlitOrClearKeepsFrame, EndKeepsFrame
  DEF Next, Execute

\* The variables keep their types, and commands name buffers that exist.
THEOREM FrameKeepsTypes == Spec => []TypeOK
<1>1. FrameInv => TypeOK
  <2> SUFFICES ASSUME FrameInv PROVE TypeOK
    OBVIOUS
  <2>1. \A i \in DOMAIN cmds : cmds[i].kind = "scene" =>
          cmds[i].batch \in DOMAIN batchBuf /\ cmds[i].draw \in DOMAIN drawBuf
    BY DEF FrameInv, CommandsAreOrderly, Orderly, IsScene, SceneCommand
  <2>2. at \in 1 .. Len(cmds) + 1 \/ pc = "idle"
    <3>1. Len(cmds) \in Nat
      BY SeqFacts DEF FrameInv, CommandsAreOrderly, Orderly
    <3> QED BY <3>1 DEF FrameInv, Within, FrameTypes
  <2> QED BY <2>1, <2>2 DEF FrameInv, FrameTypes, TypeOK
<1> QED
  BY <1>1, FrameStarts, FrameSteps, PTL DEF Spec

\* No command reads past its batch or its draw buffer, none shares its batch with
\* another, and blits and clears name the living framebuffer, for any stages,
\* scene and order of record(), play() and re-creation.
THEOREM CommandsAlwaysFit == Spec => []CommandsFit
<1>1. FrameInv => CommandsFit
  <2> SUFFICES ASSUME FrameInv PROVE CommandsFit
    OBVIOUS
  <2>1. BatchesFit
    BY DEF FrameInv, CommandsAreOrderly, Orderly, IsScene, SceneCommand, BatchesFit
  <2>2. TargetsLive
    BY DEF FrameInv, NamesAreCompiled, TargetsLive
  <2> QED BY <2>1, <2>2 DEF CommandsFit
<1> QED
  BY <1>1, FrameStarts, FrameSteps, PTL DEF Spec

-----------------------------------------------------------------------------
(* What a finished frame shows *)

\* A bijection on the part of S whose values have a property.
LEMMA PartOf ==
  ASSUME NEW S, NEW T, NEW f, OneToOne(f, S, T), NEW A \in SUBSET S, NEW B \in SUBSET T,
         \A x \in S : x \in A <=> f[x] \in B
  PROVE  OneToOne([x \in A |-> f[x]], A, B)
<1> DEFINE g == [x \in A |-> f[x]]
<1>1. g \in [A -> B]
  OBVIOUS
<1>2. \A x, y \in A : g[x] = g[y] => x = y
  BY DEF OneToOne
<1>3. \A t \in B : \E x \in A : g[x] = t
  BY DEF OneToOne
<1> HIDE DEF g
<1> QED BY <1>1, <1>2, <1>3 DEF OneToOne, g

\* Sets with a bijection between them have as many elements.
LEMMA SameSize ==
  ASSUME NEW S, NEW T, NEW f, OneToOne(f, S, T), IsFiniteSet(S)
  PROVE  Cardinality(S) = Cardinality(T)
<1>1. f \in Bijection(S, T)
  BY DEF OneToOne, Bijection, Injection, Surjection, IsInjective
<1>2. ExistsBijection(S, T)
  BY <1>1 DEF ExistsBijection
<1> QED BY <1>2, FS_Bijection

\* What the frame has of stage s are the pieces of the scene.
LEMMA StageShowsThePieces ==
  ASSUME FrameInv, FrameDone, NEW s \in SceneStages
  PROVE  LET part == {n \in DOMAIN frame : frame[n].stage = s} IN
         /\ IsFiniteSet(part)
         /\ \E theta :
              /\ OneToOne(theta, part, Pieces(compiled.scene))
              /\ \A n \in part :
                   /\ frame[n].handle = theta[n][1]
                   /\ frame[n].material = Objs[theta[n][1]][theta[n][2]].material
                   /\ frame[n].meant = Objs[theta[n][1]][theta[n][2]].mesh
                   /\ ~lazy => frame[n].mesh = frame[n].meant
<1> USE DEF FrameInv
<1> DEFINE part == {n \in DOMAIN frame : frame[n].stage = s}
<1>1. IsSeq(cmds) /\ Len(cmds) \in Nat /\ DOMAIN cmds = 1 .. Len(cmds)
  BY SeqFacts DEF CommandsAreOrderly, Orderly
<1>2. ~todo
  <2>1. cmds # <<>>
    BY <1>1, EmptySeq DEF FrameDone
  <2> QED BY <2>1 DEF Within
<1>3. IsFiniteSet(part)
  <2>1. Len(frame) \in Nat /\ DOMAIN frame = 1 .. Len(frame)
    BY SeqFacts DEF FrameTypes
  <2>2. IsFiniteSet(1 .. Len(frame))
    BY <2>1, FS_Interval
  <2>3. part \subseteq 1 .. Len(frame)
    BY <2>1
  <2> HIDE DEF part
  <2> QED BY <2>2, <2>3, FS_Subset
<1>4. Drawn(cmds, at) = Calls(cmds)
  <2>1. \A x \in Calls(cmds) : x[1] \in DOMAIN cmds
    BY DEF Calls
  <2> QED BY <1>1, <2>1 DEF Drawn, FrameDone
<1>5. PICK psi : /\ OneToOne(psi, DOMAIN frame, Calls(cmds))
                 /\ \A n \in DOMAIN frame : DrawsCall(cmds, batchBuf, frame[n], psi[n], ~lazy)
  BY <1>2, <1>4 DEF FrameFollows, Follows
<1>6. PICK phi : /\ OneToOne(phi, CallsOf(cmds, s), Pieces(compiled.scene))
                 /\ \A x \in CallsOf(cmds, s) : Shows(cmds, batchBuf, x, phi[x])
  BY <1>2 DEF CommandsAreComplete, Complete
<1> DEFINE p == [n \in part |-> psi[n]]
           theta == [n \in part |-> phi[p[n]]]
<1>7. \A n \in DOMAIN frame : n \in part <=> psi[n] \in CallsOf(cmds, s)
  BY <1>5 DEF CallsOf, OneToOne, DrawsCall
<1>8. part \subseteq DOMAIN frame /\ CallsOf(cmds, s) \subseteq Calls(cmds)
  BY DEF CallsOf
<1>9. ASSUME NEW n \in part PROVE p[n] = psi[n] /\ theta[n] = phi[psi[n]]
  OBVIOUS
<1> HIDE DEF part
<1>10. OneToOne(p, part, CallsOf(cmds, s))
  BY <1>5, <1>7, <1>8, PartOf
<1> HIDE DEF p
<1>11. OneToOne(theta, part, Pieces(compiled.scene))
  BY <1>6, <1>10, Composed
<1> HIDE DEF theta
<1>12. ASSUME NEW n \in part
       PROVE  /\ frame[n].handle = theta[n][1]
              /\ frame[n].material = Objs[theta[n][1]][theta[n][2]].material
              /\ frame[n].meant = Objs[theta[n][1]][theta[n][2]].mesh
              /\ ~lazy => frame[n].mesh = frame[n].meant
  <2>1. DrawsCall(cmds, batchBuf, frame[n], psi[n], ~lazy)
    BY <1>5, <1>8
  <2>2. Shows(cmds, batchBuf, psi[n], theta[n])
    BY <1>6, <1>7, <1>8, <1>9
  <2> QED BY <2>1, <2>2 DEF DrawsCall, Shows
<1>13. \E t : /\ OneToOne(t, part, Pieces(compiled.scene))
              /\ \A n \in part :
                   /\ frame[n].handle = t[n][1]
                   /\ frame[n].material = Objs[t[n][1]][t[n][2]].material
                   /\ frame[n].meant = Objs[t[n][1]][t[n][2]].mesh
                   /\ ~lazy => frame[n].mesh = frame[n].meant
  BY <1>11, <1>12
<1> QED BY <1>3, <1>13 DEF part

\* Every finished frame shows each mesh of the compiled scene in each scene stage as
\* often as its renderer has it, and nothing else, for any renderers, meshes,
\* materials, stages and size of the work groups of the batch shader.
THEOREM FrameAlwaysShowsTheScene == Spec => []FrameShowsTheScene
<1>1. FrameInv => FrameShowsTheScene
  <2> SUFFICES ASSUME FrameInv, FrameDone, NEW s \in SceneStages
               PROVE  /\ \A r \in compiled.scene : \A k \in DOMAIN Objs[r] :
                           LET x == [handle |-> r, mesh |-> Objs[r][k].mesh,
                                     material |-> Objs[r][k].material]
                           IN Times(s, x) = Wanted(x)
                      /\ Cardinality({i \in DOMAIN frame : frame[i].stage = s})
                           = Cardinality(Pieces(compiled.scene))
    BY DEF FrameShowsTheScene
  <2> DEFINE part == {n \in DOMAIN frame : frame[n].stage = s}
  <2>1. IsFiniteSet(part)
    BY StageShowsThePieces
  <2>2. PICK theta :
          /\ OneToOne(theta, part, Pieces(compiled.scene))
          /\ \A n \in part :
               /\ frame[n].handle = theta[n][1]
               /\ frame[n].material = Objs[theta[n][1]][theta[n][2]].material
               /\ frame[n].meant = Objs[theta[n][1]][theta[n][2]].mesh
               /\ ~lazy => frame[n].mesh = frame[n].meant
    BY StageShowsThePieces
  <2>3. Cardinality(part) = Cardinality(Pieces(compiled.scene))
    <3> HIDE DEF part
    <3> QED BY <2>1, <2>2, SameSize
  <2>4. ASSUME NEW r \in compiled.scene, NEW k \in DOMAIN Objs[r], NEW x,
               x = [handle |-> r, mesh |-> Objs[r][k].mesh, material |-> Objs[r][k].material]
        PROVE  Times(s, x) = Wanted(x)
    <3> DEFINE A == {n \in part :
                      [handle |-> frame[n].handle, material |-> frame[n].material,
                       mesh |-> IF lazy THEN frame[n].meant ELSE frame[n].mesh] = x}
               W == {j \in DOMAIN Objs[r] :
                      Objs[r][j] = [mesh |-> x.mesh, material |-> x.material]}
               P == {p \in Pieces(compiled.scene) : p[1] = r /\ p[2] \in W}
               a == [n \in A |-> theta[n]]
               b == [p \in P |-> p[2]]
    <3>1. x.handle = r
      BY <2>4
    <3>2. Times(s, x) = Cardinality(A)
      <4>1. A = {i \in DOMAIN frame :
                  /\ frame[i].stage = s
                  /\ [handle |-> frame[i].handle, material |-> frame[i].material,
                      mesh |-> IF lazy THEN frame[i].meant ELSE frame[i].mesh] = x}
        OBVIOUS
      <4> HIDE DEF A
      <4> QED BY <4>1 DEF Times
    <3>3. Wanted(x) = Cardinality(W)
      BY <3>1 DEF Wanted
    <3>4. r \in Renderers
      BY DEF FrameInv, FrameTypes
    <3>5. \A j \in DOMAIN Objs[r] :
            Objs[r][j] = [mesh |-> Objs[r][j].mesh, material |-> Objs[r][j].material]
      BY <3>4, ObjectsAreLists
    <3>6. \A j \in DOMAIN Objs[r] :
            j \in W <=> Objs[r][j].mesh = x.mesh /\ Objs[r][j].material = x.material
      BY <3>5
    <3>7. ASSUME NEW n \in part PROVE n \in A <=> theta[n] \in P
      <4>1. /\ frame[n].handle = theta[n][1]
            /\ frame[n].material = Objs[theta[n][1]][theta[n][2]].material
            /\ (IF lazy THEN frame[n].meant ELSE frame[n].mesh)
                  = Objs[theta[n][1]][theta[n][2]].mesh
        BY <2>2
      <4>2. n \in A <=> /\ theta[n][1] = r
                        /\ Objs[theta[n][1]][theta[n][2]].material = x.material
                        /\ Objs[theta[n][1]][theta[n][2]].mesh = x.mesh
        BY <2>4, <4>1
      <4>3. theta[n] \in Pieces(compiled.scene)
        BY <2>2 DEF OneToOne
      <4>4. theta[n][2] \in DOMAIN Objs[theta[n][1]]
        BY <4>3 DEF Pieces
      <4> HIDE DEF A, W
      <4> QED BY <3>6, <4>2, <4>3, <4>4
    <3>8. OneToOne(a, A, P)
      <4>1. A \subseteq part /\ P \subseteq Pieces(compiled.scene)
        OBVIOUS
      <4> HIDE DEF part, A, P
      <4> QED BY <2>2, <3>7, <4>1, PartOf
    <3>9. OneToOne(b, P, W)
      <4>1. b \in [P -> W]
        OBVIOUS
      <4>2. ASSUME NEW p \in P PROVE p = <<r, p[2]>>
        <5>1. p \in Pieces(compiled.scene) /\ p[1] = r
          OBVIOUS
        <5>2. p = <<p[1], p[2]>>
          BY <5>1 DEF Pieces
        <5> QED BY <5>1, <5>2
      <4>3. \A p, q \in P : b[p] = b[q] => p = q
        BY <4>2
      <4>4. ASSUME NEW j \in W PROVE \E p \in P : b[p] = j
        <5>1. <<r, j>> \in Pieces(compiled.scene)
          BY DEF Pieces
        <5>2. <<r, j>> \in P
          BY <5>1
        <5>3. b[<<r, j>>] = j
          BY <5>2
        <5> QED BY <5>2, <5>3
      <4> HIDE DEF b, P, W
      <4> QED BY <4>1, <4>3, <4>4 DEF OneToOne
    <3>10. IsFiniteSet(A)
      <4>1. A \subseteq part
        OBVIOUS
      <4> HIDE DEF A, part
      <4> QED BY <2>1, <4>1, FS_Subset
    <3> HIDE DEF a, b, A, P, W
    <3>11. OneToOne([n \in A |-> b[a[n]]], A, W)
      BY <3>8, <3>9, Composed
    <3>12. Cardinality(A) = Cardinality(W)
      BY <3>10, <3>11, SameSize
    <3> QED BY <3>2, <3>3, <3>12
  <2> QED BY <2>3, <2>4
<1> QED
  BY <1>1, FrameStarts, FrameSteps, PTL DEF Spec
=============================================================================
