----------------------------- MODULE CycleProofs ----------------------------
(***************************************************************************)
(* Cycle buffers for any number of copies, sizes and writes: with a GPU    *)
(* that keeps up the copies agree and the frames do not go back; under one *)
(* that lags the next copy is fresh, given more copies than frames in      *)
(* flight; and as long as the size stays every copy that is written is     *)
(* mapped.  Then their lives, for any number of buffers that are made and  *)
(* destroyed (CycleLifetime).                                              *)
(***************************************************************************)
EXTENDS CycleProps, CycleLifetime, FiniteSetTheorems, FunctionTheorems,
        SequenceTheorems, TLAPS

-----------------------------------------------------------------------------
(* The invariant *)

\* the types of the variables
TypeOK ==
  /\ used \in Nat \ {0}
  /\ lag \in Nat
  /\ resizes \in BOOLEAN
  /\ serial \in BOOLEAN
  /\ size \in Nat
  /\ version \in Nat
  /\ gpuBuff \in Backends
  /\ seen \in [Backends -> Nat]
  /\ bsize \in [Backends -> Nat]
  /\ mapped \in [Backends -> BOOLEAN]
  /\ fence \in [Backends -> BOOLEAN]
  /\ storage \in [Backends -> Nat]
  /\ content \in [Backends -> Nat]
  /\ step \in {"tick", "update", "draw"}

\* no copy is ahead of the CPU
Behind == \A i \in Backends : seen[i] <= version /\ content[i] <= version

\* a GPU that keeps up has at most the commands of one frame to do
Drained ==
  pending \in IF step = "tick"
              THEN {<<>>, <<DrawCmd(gpuBuff)>>, <<FenceCmd(gpuBuff), DrawCmd(gpuBuff)>>}
              ELSE {<<>>, <<FenceCmd(gpuBuff)>>}

\* the copies that are not in use were written by the last tick
Agree ==
  \A i, j \in Backends \ {gpuBuff} : /\ seen[i] = seen[j]
                                     /\ seen[i] >= seen[gpuBuff]

Calm == lag = 0 /\ serial /\ ~resizes

\* storage has the size of the buffer and bytes that were seen; a frame shows
\* the copy in use, the others have at least its bytes
Forward ==
  /\ \A i \in Backends : storage[i] # 0 => bsize[i] = size
  /\ \A i \in Backends : content[i] >= seen[i]
  /\ \A i \in Backends : shown <= content[i]
  /\ step = "update" => \A i \in Backends \ {gpuBuff} : content[i] = version
  /\ step # "tick" \/ pending # <<>> => \A i \in Backends : content[gpuBuff] <= content[i]
  /\ shown \in Nat

CInv ==
  /\ TypeOK
  /\ Behind
  /\ lag = 0 => Drained /\ Agree
  /\ Calm => Forward

\* copies start empty and unwritten
LEMMA InitCInv == Init => CInv
<1> SUFFICES ASSUME Init
             PROVE  CInv
  OBVIOUS
<1> USE CycleAssumption
<1>1. TypeOK
  BY DEF Init, TypeOK, Backends
<1>2. Behind
  BY DEF Init, Behind
<1>3. Drained /\ Agree
  <2>1. Drained
    BY DEF Init, Drained
  <2>2. gpuBuff \in Backends /\ seen = [i \in Backends |-> 0]
    BY <1>1 DEF Init, TypeOK
  <2>3. Agree
    BY <2>2 DEF Agree
  <2> QED BY <2>1, <2>3
<1>4. Forward
  BY DEF Init, Forward
<1> QED BY <1>1, <1>2, <1>3, <1>4 DEF CInv

-----------------------------------------------------------------------------
(* Synchronising some copies *)

\* what update() does to the copies in S
LEMMA ReallocatedCopies ==
  ASSUME TypeOK, NEW S \in SUBSET Backends, Reallocated(S)
  PROVE  /\ bsize' \in [Backends -> Nat]
         /\ storage' \in [Backends -> Nat]
         /\ mapped' \in [Backends -> BOOLEAN]
         /\ \A i \in Backends : /\ bsize'[i] = IF i \in S THEN size ELSE bsize[i]
                                /\ storage'[i] = IF i \in S /\ storage[i] = 0
                                                 THEN size ELSE storage[i]
BY DEF TypeOK, Reallocated

\* what syncing does to the copies in S: afterwards they have seen the newest
\* version, and those hold it whose storage has the size of the buffer
LEMMA Synchronised ==
  ASSUME TypeOK, Behind, NEW S \in SUBSET Backends, Sync(S)
  PROVE  /\ seen' \in [Backends -> Nat]
         /\ content' \in [Backends -> Nat]
         /\ bsize' \in [Backends -> Nat]
         /\ storage' \in [Backends -> Nat]
         /\ mapped' \in [Backends -> BOOLEAN]
         /\ \A i \in Backends :
              /\ seen'[i] = IF i \in S THEN version ELSE seen[i]
              /\ content'[i] \in {content[i], version}
              /\ bsize'[i] \in {bsize[i], size}
              /\ storage'[i] \in {storage[i], size}
              /\ (storage[i] # 0 => bsize[i] = size) =>
                   /\ storage'[i] # 0 => bsize'[i] = size
                   /\ content[i] >= seen[i] => content'[i] >= seen'[i]
<1> DEFINE copying == {i \in S : Copies(i)}
           growing == {i \in S : Reallocates(i)}
<1>1. growing \in SUBSET Backends /\ Reallocated(growing)
  BY DEF Sync
<1>2. /\ seen' = [i \in Backends |-> IF i \in S THEN version ELSE seen[i]]
      /\ content' = [i \in Backends |->
                       IF i \in copying \/ (i \in growing /\ storage[i] = 0)
                       THEN version ELSE content[i]]
  BY DEF Sync
<1>3. \A i \in Backends :
        /\ i \in copying <=> i \in S /\ seen[i] # version /\ bsize[i] = size
        /\ i \in growing <=> i \in S /\ seen[i] # version /\ bsize[i] # size
  BY DEF Copies, Reallocates, Stale
<1> HIDE DEF copying, growing
<1>4. seen' \in [Backends -> Nat] /\ content' \in [Backends -> Nat]
  BY <1>2 DEF TypeOK
<1>5. ASSUME NEW i \in Backends
      PROVE  /\ bsize'[i] = IF i \in growing THEN size ELSE bsize[i]
             /\ storage'[i] = IF i \in growing /\ storage[i] = 0 THEN size ELSE storage[i]
  BY <1>1, ReallocatedCopies
<1>6. ASSUME NEW i \in Backends
      PROVE  /\ seen'[i] = IF i \in S THEN version ELSE seen[i]
             /\ content'[i] \in {content[i], version}
             /\ bsize'[i] \in {bsize[i], size}
             /\ storage'[i] \in {storage[i], size}
             /\ (storage[i] # 0 => bsize[i] = size) =>
                  /\ storage'[i] # 0 => bsize'[i] = size
                  /\ content[i] >= seen[i] => content'[i] >= seen'[i]
  <2>1. /\ seen'[i] = IF i \in S THEN version ELSE seen[i]
        /\ content'[i] = IF i \in copying \/ (i \in growing /\ storage[i] = 0)
                         THEN version ELSE content[i]
    BY <1>2
  <2>2. /\ seen[i] <= version
        /\ seen[i] \in Nat /\ content[i] \in Nat /\ version \in Nat
    BY DEF Behind, TypeOK
  <2>3. content[i] >= seen[i] /\ (storage[i] # 0 => bsize[i] = size)
          => content'[i] >= seen'[i]
    BY <1>3, <2>1, <2>2
  <2> QED BY <1>3, <1>5, <2>1, <2>3
<1> QED BY <1>1, <1>4, <1>6, ReallocatedCopies
-----------------------------------------------------------------------------
(* The client *)

\* a newer version in the CPU copy leaves the copies of the GPU as they are
LEMMA WriteCInv ==
  ASSUME CInv, Write
  PROVE  CInv'
<1> USE DEF Write, CInv, mode, back, gl
<1>1. TypeOK'
  BY DEF TypeOK, Backends
<1>2. Behind'
  <2> SUFFICES ASSUME NEW i \in Backends
               PROVE  seen[i] <= version + 1 /\ content[i] <= version + 1
    BY DEF Behind, Backends
  <2>1. seen[i] \in Nat /\ content[i] \in Nat /\ version \in Nat
    BY DEF TypeOK
  <2> QED BY <2>1 DEF Behind
<1>3. lag' = 0 => Drained' /\ Agree'
  BY DEF Drained, Agree, Backends
<1>4. Calm' => Forward'
  BY DEF Calm, Forward, Backends, Called
<1> QED BY <1>1, <1>2, <1>3, <1>4

\* another size matters to a calm buffer never
LEMMA SizeCInv ==
  ASSUME CInv, NEW n \in Sizes, Resize(n) \/ SetOtherSize(n)
  PROVE  CInv'
<1> USE DEF Resize, SetOtherSize, CInv, mode, back, gl
<1>1. TypeOK'
  <2>1. size' \in Nat
    BY CycleAssumption DEF TypeOK, Sizes
  <2> QED BY <2>1 DEF TypeOK, Backends
<1>2. Behind'
  BY DEF Behind, Backends
<1>3. lag' = 0 => Drained' /\ Agree'
  BY DEF Drained, Agree, Backends
<1>4. ~ Calm'
  BY DEF Calm
<1> QED BY <1>1, <1>2, <1>3, <1>4

-----------------------------------------------------------------------------
(* The tick *)

\* the next index is an index
LEMMA NextIndex ==
  ASSUME NEW k \in Nat, NEW n \in Nat \ {0}
  PROVE  (k + 1) % n \in 0 .. n - 1
BY Z3

\* when no draw is pending, a GPU that keeps up has nothing to do
LEMMA NothingPending ==
  ASSUME TypeOK, Drained, step = "tick", PendingDraws <= 0
  PROVE  pending = <<>>
<1> DEFINE D == {n \in DOMAIN pending : pending[n].op = "draw"}
<1>1. pending \in {<<>>, <<DrawCmd(gpuBuff)>>, <<FenceCmd(gpuBuff), DrawCmd(gpuBuff)>>}
  BY DEF Drained
<1>2. Len(pending) \in Nat /\ DOMAIN pending = 1 .. Len(pending)
  <2>1. CASE pending = <<>>
    BY <2>1
  <2>2. CASE pending = <<DrawCmd(gpuBuff)>>
    BY <2>2
  <2>3. CASE pending = <<FenceCmd(gpuBuff), DrawCmd(gpuBuff)>>
    BY <2>3
  <2> QED BY <1>1, <2>1, <2>2, <2>3
<1>3. IsFiniteSet(D)
  <2>1. IsFiniteSet(1 .. Len(pending)) /\ D \subseteq 1 .. Len(pending)
    BY <1>2, FS_Interval
  <2> QED BY <2>1, FS_Subset
<1>4. Cardinality(D) \in Nat /\ Cardinality(D) <= 0
  BY <1>3, FS_CardinalityType DEF PendingDraws
<1>5. D = {}
  BY <1>3, <1>4, FS_EmptySet
<1>6. CASE pending = <<DrawCmd(gpuBuff)>>
  <2>1. 1 \in D
    BY <1>6 DEF DrawCmd
  <2> QED BY <1>5, <2>1
<1>7. CASE pending = <<FenceCmd(gpuBuff), DrawCmd(gpuBuff)>>
  <2>1. 2 \in D
    BY <1>7 DEF DrawCmd
  <2> QED BY <1>5, <2>1
<1> QED BY <1>1, <1>6, <1>7

\* the next copy is handed out and some others sync: all, if the GPU keeps up
Advances(k, S) ==
  /\ gpuBuff' = k
  /\ fence' \in [Backends -> BOOLEAN]
  /\ Sync(S)
  /\ lag = 0 => /\ Backends \ {k} \subseteq S
                /\ pending' \in {<<>>, <<FenceCmd(k)>>}

\* what a tick does
LEMMA TickAdvances ==
  ASSUME CInv, Tick
  PROVE  \E k \in Backends : \E S \in SUBSET Backends : Advances(k, S)
<1>1. lag = 0 => pending = <<>>
  <2>1. step = "tick" /\ (lag = 0 => PendingDraws <= 0)
    BY DEF Tick
  <2> QED BY <2>1, NothingPending DEF CInv
<1>2. CASE TickSingle
  <2>1. gpuBuff \in Backends /\ fence \in [Backends -> BOOLEAN]
    BY DEF CInv, TypeOK
  <2>2. Advances(gpuBuff, Backends)
    BY <1>1, <1>2, <2>1 DEF TickSingle, Advances
  <2> QED BY <2>1, <2>2
<1>3. CASE TickCycle
  <2> DEFINE k == (gpuBuff + 1) % used
             S == {i \in Backends \ {k} : Polls(i)}
  <2>1. k \in Backends
    <3>1. gpuBuff \in Nat /\ used \in Nat \ {0}
      BY DEF CInv, TypeOK, Backends
    <3> QED BY <3>1, NextIndex DEF Backends
  <2>2. /\ gpuBuff' = k
        /\ Sync(S)
        /\ fence' = [i \in Backends |-> i = k \/ (fence[i] /\ i \notin S)]
        /\ pending' = Fenced(k)
    BY <1>3 DEF TickCycle
  <2> HIDE DEF k
  <2>3. fence' \in [Backends -> BOOLEAN]
    BY <2>2
  <2>4. ASSUME lag = 0
        PROVE  Backends \ {k} \subseteq S /\ pending' \in {<<>>, <<FenceCmd(k)>>}
    <3>1. pending = <<>>
      BY <1>1, <2>4
    <3>2. \A i : Polls(i)
      BY <3>1 DEF Polls, Signaled, Contains
    <3>3. [n \in DOMAIN pending |->
             IF pending[n] = FenceCmd(k) THEN Deleted ELSE pending[n]] = <<>>
      BY <3>1
    <3>4. Fenced(k) = <<FenceCmd(k)>>
      BY <3>3 DEF Fenced
    <3> QED BY <2>2, <3>2, <3>4
  <2>5. Advances(k, S)
    BY <2>2, <2>3, <2>4 DEF Advances
  <2> QED BY <2>1, <2>5
<1> QED BY <1>2, <1>3 DEF Tick

\* a tick brings the other copies up to date
LEMMA TickCInv ==
  ASSUME CInv, Tick
  PROVE  CInv'
<1>1. PICK k \in Backends : \E T \in SUBSET Backends : Advances(k, T)
  BY TickAdvances
<1>2. PICK S \in SUBSET Backends : Advances(k, S)
  BY <1>1
<1>3. /\ UNCHANGED <<used, lag, resizes, serial, size, version, shown>>
      /\ step = "tick" /\ step' = "update"
      /\ Backends' = Backends
  BY DEF Tick, mode, cpu, Backends
<1>4. gpuBuff' = k /\ fence' \in [Backends -> BOOLEAN] /\ Sync(S)
  BY <1>2 DEF Advances
<1>5. TypeOK /\ Behind
  BY DEF CInv
<1>6. /\ seen' \in [Backends -> Nat]
      /\ content' \in [Backends -> Nat]
      /\ bsize' \in [Backends -> Nat]
      /\ storage' \in [Backends -> Nat]
      /\ mapped' \in [Backends -> BOOLEAN]
  BY <1>4, <1>5, Synchronised
<1>7. ASSUME NEW i \in Backends
      PROVE  /\ seen'[i] = IF i \in S THEN version ELSE seen[i]
             /\ content'[i] \in {content[i], version}
             /\ (storage[i] # 0 => bsize[i] = size) =>
                  /\ storage'[i] # 0 => bsize'[i] = size
                  /\ content[i] >= seen[i] => content'[i] >= seen'[i]
  BY <1>4, <1>5, Synchronised
<1>8. TypeOK'
  BY <1>3, <1>4, <1>5, <1>6 DEF TypeOK
<1>9. ASSUME NEW i \in Backends
      PROVE  /\ seen'[i] <= version /\ content'[i] <= version
             /\ seen'[i] \in Nat /\ content'[i] \in Nat
             /\ content[i] <= content'[i]
  <2>1. /\ seen[i] <= version /\ content[i] <= version
        /\ seen[i] \in Nat /\ content[i] \in Nat /\ version \in Nat
    BY <1>5 DEF Behind, TypeOK
  <2> QED BY <1>7, <2>1
<1>10. Behind'
  BY <1>3, <1>7, <1>9 DEF Behind
<1>11. ASSUME lag = 0, NEW i \in Backends \ {k} PROVE seen'[i] = version
  <2>1. i \in S
    BY <1>2, <1>11 DEF Advances
  <2> QED BY <1>7, <2>1
<1>12. lag' = 0 => Drained' /\ Agree'
  <2> SUFFICES ASSUME lag = 0
               PROVE  Drained' /\ Agree'
    BY <1>3
  <2>1. Drained'
    BY <1>2, <1>3, <1>4 DEF Advances, Drained, FenceCmd, DrawCmd
  <2>2. Agree'
    BY <1>3, <1>4, <1>9, <1>11 DEF Agree
  <2> QED BY <2>1, <2>2
<1>13. Calm' => Forward'
  <2> SUFFICES ASSUME Calm
               PROVE  Forward'
    BY <1>3 DEF Calm
  <2>1. Forward /\ lag = 0
    BY DEF CInv, Calm
  <2>2. ASSUME NEW i \in Backends
        PROVE  /\ storage'[i] # 0 => bsize'[i] = size
               /\ content'[i] >= seen'[i]
               /\ shown <= content'[i]
    <3>1. /\ storage[i] # 0 => bsize[i] = size
          /\ content[i] >= seen[i]
          /\ shown <= content[i] /\ shown \in Nat
      BY <2>1 DEF Forward
    <3>2. content[i] \in Nat
      BY <1>5 DEF TypeOK
    <3> QED BY <1>7, <1>9, <3>1, <3>2
  <2>3. ASSUME NEW i \in Backends \ {k} PROVE content'[i] = version
    <3>1. seen'[i] = version /\ version \in Nat
      BY <1>5, <1>11, <2>1 DEF TypeOK
    <3> QED BY <1>9, <2>2, <3>1
  <2>4. ASSUME NEW i \in Backends PROVE content'[k] <= content'[i]
    <3>1. content'[k] <= version /\ content'[k] \in Nat
      BY <1>9
    <3>2. CASE i = k
      BY <3>1, <3>2
    <3>3. CASE i # k
      BY <2>3, <3>1, <3>3
    <3> QED BY <3>2, <3>3
  <2> QED BY <1>3, <1>4, <2>1, <2>2, <2>3, <2>4 DEF Forward
<1> QED BY <1>8, <1>10, <1>12, <1>13 DEF CInv

-----------------------------------------------------------------------------
(* The rest of the frame *)

\* the first update writes the newest bytes, though it does not mark them seen
LEMMA OnUpdateCInv ==
  ASSUME CInv, OnUpdate
  PROVE  CInv'
<1> DEFINE G == {i \in update : bsize[i] # size} \cap Backends
<1>1. TypeOK /\ Behind
  BY DEF CInv
<1>2. /\ UNCHANGED <<used, lag, resizes, serial, size, version, gpuBuff, seen, fence,
                     pending, shown>>
      /\ step = "update" /\ step' = "draw"
      /\ Backends' = Backends
  BY DEF OnUpdate, mode, cpu, Backends
<1>3. /\ Reallocated(G)
      /\ content' = [i \in Backends |->
                       IF i \in G /\ storage[i] = 0 THEN version ELSE content[i]]
  BY DEF OnUpdate, Reallocated
<1>4. \A i \in Backends : i \in G => bsize[i] # size
  OBVIOUS
<1>5. G \in SUBSET Backends
  OBVIOUS
<1> HIDE DEF G
<1>6. /\ bsize' \in [Backends -> Nat]
      /\ storage' \in [Backends -> Nat]
      /\ mapped' \in [Backends -> BOOLEAN]
  BY <1>1, <1>3, <1>5, ReallocatedCopies
<1>7. content' \in [Backends -> Nat]
  BY <1>1, <1>3 DEF TypeOK
<1>8. TypeOK'
  BY <1>1, <1>2, <1>6, <1>7 DEF TypeOK
<1>9. ASSUME NEW i \in Backends
      PROVE  /\ bsize'[i] = IF i \in G THEN size ELSE bsize[i]
             /\ storage'[i] = IF i \in G /\ storage[i] = 0 THEN size ELSE storage[i]
  BY <1>1, <1>3, <1>5, ReallocatedCopies
<1>10. ASSUME NEW i \in Backends
       PROVE  /\ seen[i] <= version
              /\ content'[i] \in {content[i], version}
              /\ content[i] <= content'[i]
              /\ content'[i] <= version
              /\ i \in G /\ storage[i] = 0 => content'[i] = version
              /\ seen[i] \in Nat /\ content[i] \in Nat /\ version \in Nat
  <2>1. /\ seen[i] <= version /\ content[i] <= version
        /\ seen[i] \in Nat /\ content[i] \in Nat /\ version \in Nat
    BY <1>1 DEF Behind, TypeOK
  <2>2. content'[i] = IF i \in G /\ storage[i] = 0 THEN version ELSE content[i]
    BY <1>3
  <2>3. content'[i] \in {content[i], version} /\ content[i] <= content'[i]
        /\ content'[i] <= version
    BY <2>1, <2>2
  <2> QED BY <2>1, <2>2, <2>3
<1>11. Behind'
  BY <1>2, <1>10 DEF Behind
<1>12. lag' = 0 => Drained' /\ Agree'
  BY <1>2 DEF CInv, Drained, Agree, FenceCmd
<1>13. Calm' => Forward'
  <2> SUFFICES ASSUME Calm
               PROVE  Forward'
    BY <1>2 DEF Calm
  <2>1. Forward
    BY DEF CInv
  <2>2. ASSUME NEW i \in Backends
        PROVE  /\ storage'[i] # 0 => bsize'[i] = size
               /\ content'[i] >= seen[i]
               /\ shown <= content'[i]
               /\ i # gpuBuff => content'[i] = version
    <3>1. /\ storage[i] # 0 => bsize[i] = size
          /\ content[i] >= seen[i]
          /\ shown <= content[i] /\ shown \in Nat
          /\ i # gpuBuff => content[i] = version
      BY <1>2, <2>1 DEF Forward
    <3>2. /\ content[i] \in Nat /\ seen[i] \in Nat /\ version \in Nat
          /\ content[i] <= content'[i]
          /\ content'[i] \in {content[i], version}
      BY <1>10
    <3>3. storage'[i] # 0 => bsize'[i] = size
      BY <1>9, <3>1
    <3> QED BY <3>1, <3>2, <3>3
  <2>3. ASSUME NEW i \in Backends PROVE content'[gpuBuff] <= content'[i]
    <3>1. gpuBuff \in Backends
      BY <1>1 DEF TypeOK
    <3>2. content'[gpuBuff] <= version /\ content'[gpuBuff] \in Nat
      BY <1>7, <1>10, <3>1
    <3>3. CASE i = gpuBuff
      BY <3>2, <3>3
    <3>4. CASE i # gpuBuff
      BY <2>2, <3>2, <3>4
    <3> QED BY <3>3, <3>4
  <2> QED BY <1>2, <2>1, <2>2, <2>3 DEF Forward
<1> QED BY <1>8, <1>11, <1>12, <1>13 DEF CInv

\* appending to a list of none and of one
LEMMA AppendToShort ==
  ASSUME NEW d, NEW f
  PROVE  Append(<<>>, d) = <<d>> /\ Append(<<f>>, d) = <<f, d>>
<1>1. Append(<<>>, d) = <<d>>
  OBVIOUS
<1>2. Append(<<f>>, d) = <<f, d>>
  <2> DEFINE a == Append(<<f>>, d)
             b == <<f, d>>
  <2>1. <<f>> \in Seq({f, d}) /\ Len(<<f>>) = 1
    OBVIOUS
  <2>2. a \in Seq({f, d}) /\ Len(a) = 2 /\ a[1] = f /\ a[2] = d
    BY <2>1, AppendProperties
  <2>3. b \in Seq({f, d}) /\ Len(b) = 2 /\ b[1] = f /\ b[2] = d
    OBVIOUS
  <2> HIDE DEF a, b
  <2>4. \A i \in 1 .. Len(a) : a[i] = b[i]
    BY <2>2, <2>3
  <2>5. a = b
    BY <2>2, <2>3, <2>4, SeqEqual
  <2> QED BY <2>5 DEF a, b
<1> QED BY <1>1, <1>2

\* a frame reads the copy in use
LEMMA DrawCInv ==
  ASSUME CInv, Draw
  PROVE  CInv'
<1>1. /\ UNCHANGED <<mode, cpu, gpuBuff, back, update, gl, crashed, shown>>
      /\ step = "draw" /\ step' = "tick"
      /\ pending' = Append(pending, DrawCmd(gpuBuff))
  BY DEF Draw
<1>2. TypeOK'
  BY <1>1 DEF CInv, TypeOK, Backends, mode, cpu, back, gl
<1>3. Behind'
  BY <1>1 DEF CInv, Behind, Backends, mode, cpu, back, gl
<1>4. lag' = 0 => Drained' /\ Agree'
  <2> SUFFICES ASSUME lag = 0
               PROVE  Drained' /\ Agree'
    BY <1>1 DEF mode
  <2>1. Agree'
    BY <1>1 DEF CInv, Agree, Backends, mode, back
  <2>2. pending \in {<<>>, <<FenceCmd(gpuBuff)>>}
    BY <1>1 DEF CInv, Drained
  <2>3. pending' \in {<<DrawCmd(gpuBuff)>>, <<FenceCmd(gpuBuff), DrawCmd(gpuBuff)>>}
    <3> DEFINE d == DrawCmd(gpuBuff)
               f == FenceCmd(gpuBuff)
    <3>1. pending' = Append(pending, d) /\ pending \in {<<>>, <<f>>}
      BY <1>1, <2>2
    <3> HIDE DEF d, f
    <3>2. Append(<<>>, d) = <<d>> /\ Append(<<f>>, d) = <<f, d>>
      BY AppendToShort
    <3> QED BY <3>1, <3>2 DEF d, f
  <2>4. Drained'
    BY <1>1, <2>3 DEF Drained, FenceCmd, DrawCmd
  <2> QED BY <2>1, <2>4
<1>5. Calm' => Forward'
  BY <1>1 DEF CInv, Calm, Forward, Backends, mode, cpu, back, gl
<1> QED BY <1>2, <1>3, <1>4, <1>5 DEF CInv

\* the frame that is drawn shows the copy in use
LEMMA DrawnFrame ==
  ASSUME CInv, Execute, lag = 0
  PROVE  /\ pending' \in {<<>>, <<DrawCmd(gpuBuff)>>}
         /\ pending' # <<>> => step = "tick"
         /\ shown' \in {shown, content[gpuBuff]}
<1>1. pending # <<>> /\ pending' = Tail(pending)
  BY DEF Execute
<1>2. shown' = IF Head(pending).op = "draw" THEN content[Head(pending).arg] ELSE shown
  BY DEF Execute
<1>3. CASE pending = <<DrawCmd(gpuBuff)>>
  <2>1. Head(pending) = DrawCmd(gpuBuff) /\ Tail(pending) = <<>>
    BY <1>3
  <2> QED BY <1>1, <1>2, <2>1 DEF DrawCmd
<1>4. CASE step = "tick" /\ pending = <<FenceCmd(gpuBuff), DrawCmd(gpuBuff)>>
  <2>1. Head(pending) = FenceCmd(gpuBuff) /\ Tail(pending) = <<DrawCmd(gpuBuff)>>
    BY <1>4
  <2> QED BY <1>1, <1>2, <1>4, <2>1 DEF FenceCmd
<1>5. CASE pending = <<FenceCmd(gpuBuff)>>
  <2>1. Head(pending) = FenceCmd(gpuBuff) /\ Tail(pending) = <<>>
    BY <1>5
  <2> QED BY <1>1, <1>2, <2>1 DEF FenceCmd
<1> QED BY <1>1, <1>3, <1>4, <1>5 DEF CInv, Drained

\* the GPU goes on
LEMMA ExecuteCInv ==
  ASSUME CInv, Execute
  PROVE  CInv'
<1>1. UNCHANGED <<mode, cpu, gpuBuff, back, update, gl, crashed, step>> /\ pending # <<>>
  BY DEF Execute
<1>2. TypeOK'
  BY <1>1 DEF CInv, TypeOK, Backends, mode, cpu, back, gl
<1>3. Behind'
  BY <1>1 DEF CInv, Behind, Backends, mode, cpu, back, gl
<1>4. lag' = 0 => Drained' /\ Agree'
  <2> SUFFICES ASSUME lag = 0
               PROVE  Drained' /\ Agree'
    BY <1>1 DEF mode
  <2>1. Agree'
    BY <1>1 DEF CInv, Agree, Backends, mode, back
  <2>2. Drained'
    BY <1>1, DrawnFrame DEF Drained, DrawCmd, FenceCmd
  <2> QED BY <2>1, <2>2
<1>5. Calm' => Forward'
  <2> SUFFICES ASSUME Calm
               PROVE  Forward'
    BY <1>1 DEF Calm, mode
  <2>1. Forward /\ gpuBuff \in Backends /\ content \in [Backends -> Nat]
    BY DEF CInv, TypeOK
  <2>2. \A i \in Backends : content[gpuBuff] <= content[i]
    BY <1>1, <2>1 DEF Forward
  <2>3. shown' \in {shown, content[gpuBuff]}
    BY DrawnFrame DEF Calm
  <2>4. shown' \in Nat /\ \A i \in Backends : shown' <= content[i]
    BY <2>1, <2>2, <2>3 DEF Forward
  <2> QED BY <1>1, <2>1, <2>2, <2>4 DEF Forward, Backends, mode, cpu, back, gl
<1> QED BY <1>2, <1>3, <1>4, <1>5 DEF CInv

\* nothing changes
LEMMA StutterCInv ==
  ASSUME CInv, UNCHANGED vars
  PROVE  CInv'
<1>1. TypeOK' /\ Behind'
  BY DEF CInv, TypeOK, Behind, Backends, vars, mode, cpu, back, gl
<1>2. lag' = 0 => Drained' /\ Agree'
  BY DEF CInv, Drained, Agree, Backends, vars, mode, cpu, back, gl
<1>3. Calm' => Forward'
  BY DEF CInv, Calm, Forward, Backends, vars, mode, cpu, back, gl
<1> QED BY <1>1, <1>2, <1>3 DEF CInv

-----------------------------------------------------------------------------
(* The theorems *)

\* every step keeps the invariant
LEMMA NextCInv == CInv /\ [Next]_vars => CInv'
<1> SUFFICES ASSUME CInv, [Next]_vars
             PROVE  CInv'
  OBVIOUS
<1>1. CASE Write
  BY <1>1, WriteCInv
<1>2. ASSUME NEW n \in Sizes, Resize(n) \/ SetOtherSize(n)
      PROVE  CInv'
  BY <1>2, SizeCInv
<1>3. CASE MainStep
  BY <1>3, TickCInv, OnUpdateCInv, DrawCInv DEF MainStep
<1>4. CASE Execute
  BY <1>4, ExecuteCInv
<1>5. CASE Finished \/ UNCHANGED vars
  BY <1>5, StutterCInv DEF Finished
<1> QED BY <1>1, <1>2, <1>3, <1>4, <1>5 DEF Next

\* The invariant of the cycle buffers, for any number of copies.
THEOREM CycleInvariant == Spec => []CInv
BY InitCInv, NextCInv, PTL DEF Spec

\* The variables keep their types.
THEOREM CycleTypes == Spec => []TypeOK
<1>1. CInv => TypeOK
  BY DEF CInv
<1> QED BY <1>1, CycleInvariant, PTL

\* With a GPU that keeps up the copies that are not in use agree.
THEOREM CopiesAgree == Spec => []BackendsAgree
<1>1. CInv => BackendsAgree
  BY DEF CInv, Agree, BackendsAgree
<1> QED BY <1>1, CycleInvariant, PTL

\* With a GPU that keeps up, writes between the frames and a size that stays, no
\* frame shows older data than the one before it.
THEOREM FramesForward == Spec => ShownMovesForward
<1>1. CInv /\ [Next]_vars => [Calm => shown' >= shown]_vars
  <2> SUFFICES ASSUME CInv, Next, Calm
               PROVE  shown' >= shown
    OBVIOUS
  <2>1. Forward /\ shown \in Nat /\ gpuBuff \in Backends /\ content[gpuBuff] \in Nat
    BY DEF CInv, TypeOK, Forward
  <2>2. CASE Execute
    <3>1. shown' \in {shown, content[gpuBuff]}
      BY <2>2, DrawnFrame DEF Calm
    <3>2. shown <= content[gpuBuff]
      BY <2>1 DEF Forward
    <3> QED BY <2>1, <3>1, <3>2
  <2>3. CASE ~ Execute
    <3>1. shown' = shown
      BY <2>3 DEF Next, MainStep, Write, Resize, SetOtherSize, Tick, OnUpdate, Draw,
                  Finished, vars
    <3> QED BY <2>1, <3>1
  <2> QED BY <2>2, <2>3
<1>2. Spec => [][Calm => shown' >= shown]_vars
  BY <1>1, CycleInvariant, PTL DEF Spec
<1> QED BY <1>2 DEF ShownMovesForward, Calm
-----------------------------------------------------------------------------
(* A GPU that lags.  A fence lies before the draws of its copy and of all that *)
(* were handed out after it, so as long as one is pending, they all are.      *)

\* how many ticks ago a copy was handed out
Age(i) == IF i <= gpuBuff THEN gpuBuff - i ELSE gpuBuff - i + used

Commands == {DrawCmd(i) : i \in Backends} \cup {FenceCmd(i) : i \in Backends} \cup {Deleted}

\* behind a fence are the draws of all copies since, but for the one of this frame
DrawsFollowFence ==
  \A n \in DOMAIN pending : \A i, j \in Backends :
    (pending[n] = FenceCmd(i) /\ Age(j) <= Age(i) /\ (j # gpuBuff \/ step = "tick"))
      => \E m \in DOMAIN pending : m > n /\ pending[m] = DrawCmd(j)

OrderInv == CInv /\ pending \in Seq(Commands) /\ DrawsFollowFence

\* the index that follows another one
LEMMA NextWraps ==
  ASSUME NEW n \in Nat \ {0}, NEW k \in 0 .. n - 1
  PROVE  (k + 1) % n = IF k + 1 = n THEN 0 ELSE k + 1
<1>1. CASE k + 1 = n
  BY <1>1, Z3
<1>2. CASE k + 1 # n
  <2>1. k + 1 \in 0 .. n - 1
    BY <1>2
  <2> QED
    BY <1>2, <2>1, Z3
<1> QED
  BY <1>1, <1>2

\* the commands are told apart by their operation and their copy
LEMMA CommandsDiffer ==
  \A i, j : /\ FenceCmd(i) # DrawCmd(j)
            /\ FenceCmd(i) # Deleted /\ DrawCmd(i) # Deleted
            /\ FenceCmd(i) = FenceCmd(j) => i = j
            /\ DrawCmd(i) = DrawCmd(j) => i = j
BY DEF FenceCmd, DrawCmd, Deleted

\* a tick puts the new fence last and takes the old one of the copy away
LEMMA FencedCommands ==
  ASSUME pending \in Seq(Commands), NEW k \in Backends
  PROVE  /\ Fenced(k) \in Seq(Commands)
         /\ DOMAIN Fenced(k) = 1 .. Len(pending) + 1
         /\ DOMAIN pending = 1 .. Len(pending) /\ Len(pending) \in Nat
         /\ Fenced(k)[Len(pending) + 1] = FenceCmd(k)
         /\ \A n \in 1 .. Len(pending) :
              Fenced(k)[n] = IF pending[n] = FenceCmd(k) THEN Deleted ELSE pending[n]
<1> DEFINE polled == [n \in DOMAIN pending |->
                        IF pending[n] = FenceCmd(k) THEN Deleted ELSE pending[n]]
<1>1. DOMAIN pending = 1 .. Len(pending) /\ Len(pending) \in Nat
  BY LenProperties
<1>2. \A n \in 1 .. Len(pending) : pending[n] \in Commands
  BY <1>1, ElementOfSeq
<1>3. polled \in [1 .. Len(pending) -> Commands]
  BY <1>1, <1>2 DEF Commands
<1>4. polled \in Seq(Commands) /\ Len(polled) = Len(pending)
  BY <1>1, <1>3, SeqDef, LenProperties
<1>5. Fenced(k) = Append(polled, FenceCmd(k)) /\ FenceCmd(k) \in Commands
  BY DEF Fenced, Commands
<1>6. \A n \in 1 .. Len(pending) :
        polled[n] = IF pending[n] = FenceCmd(k) THEN Deleted ELSE pending[n]
  BY <1>1
<1> HIDE DEF polled
<1>7. /\ Append(polled, FenceCmd(k)) \in Seq(Commands)
      /\ DOMAIN Append(polled, FenceCmd(k)) = 1 .. Len(pending) + 1
      /\ Append(polled, FenceCmd(k))[Len(pending) + 1] = FenceCmd(k)
      /\ \A n \in 1 .. Len(pending) : Append(polled, FenceCmd(k))[n] = polled[n]
  BY <1>1, <1>4, <1>5, AppendProperties, LenProperties
<1> QED
  BY <1>1, <1>5, <1>6, <1>7

\* a tick makes the other copies one tick older
LEMMA Ageing ==
  ASSUME TypeOK, used > 1, gpuBuff' = (gpuBuff + 1) % used, used' = used,
         NEW i \in Backends
  PROVE  /\ (gpuBuff + 1) % used \in Backends
         /\ Age(i)' = IF i = gpuBuff' THEN 0 ELSE Age(i) + 1
         /\ Age(i) \in 0 .. used - 1
<1>1. used \in Nat \ {0} /\ gpuBuff \in 0 .. used - 1 /\ i \in 0 .. used - 1
  BY DEF TypeOK, Backends
<1>2. gpuBuff' = IF gpuBuff + 1 = used THEN 0 ELSE gpuBuff + 1
  BY <1>1, NextWraps
<1> QED
  BY <1>1, <1>2 DEF Age, Backends

LEMMA TickOrder ==
  ASSUME OrderInv, Tick
  PROVE  pending' \in Seq(Commands)' /\ DrawsFollowFence'
<1>1. TypeOK /\ pending \in Seq(Commands) /\ DrawsFollowFence
  BY DEF OrderInv, CInv
<1>2. /\ UNCHANGED used /\ step = "tick" /\ step' = "update"
      /\ Backends' = Backends /\ Commands' = Commands
  BY DEF Tick, mode, Backends, Commands
<1>3. CASE TickSingle
  <2>1. pending' = pending /\ gpuBuff' = gpuBuff /\ used = 1
    BY <1>3 DEF TickSingle
  <2>2. \A j \in Backends : j = gpuBuff
    BY <1>1, <2>1 DEF TypeOK, Backends
  <2> QED
    BY <1>1, <1>2, <2>1, <2>2 DEF DrawsFollowFence
<1>4. CASE TickCycle
  <2> DEFINE k == (gpuBuff + 1) % used
  <2>1. gpuBuff' = k /\ pending' = Fenced(k) /\ used > 1
    BY <1>1, <1>4 DEF TickCycle, TypeOK
  <2>2. \A i \in Backends : Age(i)' = (IF i = k THEN 0 ELSE Age(i) + 1) /\ Age(i) \in 0 .. used - 1
    BY <1>1, <1>2, <2>1, Ageing
  <2>3. k \in Backends
    BY <1>1, <1>2, <2>1, Ageing DEF TypeOK
  <2> HIDE DEF k
  <2>4. /\ pending' \in Seq(Commands)
        /\ DOMAIN pending' = 1 .. Len(pending) + 1
        /\ DOMAIN pending = 1 .. Len(pending) /\ Len(pending) \in Nat
        /\ pending'[Len(pending) + 1] = FenceCmd(k)
        /\ \A n \in 1 .. Len(pending) :
             pending'[n] = IF pending[n] = FenceCmd(k) THEN Deleted ELSE pending[n]
    BY <1>1, <2>1, <2>3, FencedCommands
  <2>5. ASSUME NEW n \in DOMAIN pending', NEW i \in Backends, NEW j \in Backends,
               pending'[n] = FenceCmd(i), Age(j)' <= Age(i)', j # k
        PROVE  \E m \in DOMAIN pending' : m > n /\ pending'[m] = DrawCmd(j)
    <3>1. i # k
      BY <2>2, <2>5
    <3>2. n \in DOMAIN pending /\ pending[n] = FenceCmd(i)
      BY <2>4, <2>5, <3>1, CommandsDiffer
    <3>3. Age(j) <= Age(i)
      BY <2>2, <2>5, <3>1
    <3>4. PICK m \in DOMAIN pending : m > n /\ pending[m] = DrawCmd(j)
      BY <1>1, <1>2, <3>2, <3>3 DEF DrawsFollowFence
    <3> QED
      BY <2>4, <3>4, CommandsDiffer
  <2> QED
    BY <1>2, <2>1, <2>4, <2>5 DEF DrawsFollowFence
<1> QED
  BY <1>3, <1>4 DEF Tick

\* the draw of a frame is behind all the fences
LEMMA DrawOrder ==
  ASSUME OrderInv, Draw
  PROVE  pending' \in Seq(Commands)' /\ DrawsFollowFence'
<1>1. /\ UNCHANGED <<used, gpuBuff>> /\ step' = "tick"
      /\ Backends' = Backends /\ Commands' = Commands
      /\ pending' = Append(pending, DrawCmd(gpuBuff))
  BY DEF Draw, mode, Backends, Commands
<1>2. TypeOK /\ pending \in Seq(Commands) /\ DrawsFollowFence /\ DrawCmd(gpuBuff) \in Commands
  BY DEF OrderInv, CInv, TypeOK, Commands
<1>3. /\ pending' \in Seq(Commands)
      /\ DOMAIN pending' = 1 .. Len(pending) + 1
      /\ DOMAIN pending = 1 .. Len(pending) /\ Len(pending) \in Nat
      /\ pending'[Len(pending) + 1] = DrawCmd(gpuBuff)
      /\ \A n \in 1 .. Len(pending) : pending'[n] = pending[n]
  BY <1>1, <1>2, AppendProperties, LenProperties
<1>4. ASSUME NEW n \in DOMAIN pending', NEW i \in Backends, NEW j \in Backends,
             pending'[n] = FenceCmd(i), Age(j) <= Age(i)
      PROVE  \E m \in DOMAIN pending' : m > n /\ pending'[m] = DrawCmd(j)
  <2>1. n \in DOMAIN pending /\ pending[n] = FenceCmd(i)
    BY <1>3, <1>4, CommandsDiffer
  <2>2. CASE j = gpuBuff
    BY <1>3, <2>1, <2>2
  <2>3. CASE j # gpuBuff
    <3>1. PICK m \in DOMAIN pending : m > n /\ pending[m] = DrawCmd(j)
      BY <1>2, <1>4, <2>1, <2>3 DEF DrawsFollowFence
    <3> QED
      BY <1>3, <3>1
  <2> QED
    BY <2>2, <2>3
<1>5. \A i \in Backends : Age(i)' = Age(i)
  BY <1>1 DEF Age
<1> QED
  BY <1>1, <1>3, <1>4, <1>5 DEF DrawsFollowFence

\* what is left keeps its order
LEMMA ExecuteOrder ==
  ASSUME OrderInv, Execute
  PROVE  pending' \in Seq(Commands)' /\ DrawsFollowFence'
<1>1. /\ UNCHANGED <<used, gpuBuff, step>>
      /\ Backends' = Backends /\ Commands' = Commands
      /\ pending # <<>> /\ pending' = Tail(pending)
  BY DEF Execute, mode, Backends, Commands
<1>2. pending \in Seq(Commands) /\ DrawsFollowFence
  BY DEF OrderInv
<1>3. /\ pending' \in Seq(Commands)
      /\ DOMAIN pending' = 1 .. Len(pending) - 1
      /\ DOMAIN pending = 1 .. Len(pending) /\ Len(pending) \in Nat
      /\ \A n \in 1 .. Len(pending) - 1 : pending'[n] = pending[n + 1]
  BY <1>1, <1>2, HeadTailProperties, LenProperties
<1>4. ASSUME NEW n \in DOMAIN pending', NEW i \in Backends, NEW j \in Backends,
             pending'[n] = FenceCmd(i), Age(j) <= Age(i), j # gpuBuff \/ step = "tick"
      PROVE  \E m \in DOMAIN pending' : m > n /\ pending'[m] = DrawCmd(j)
  <2>1. n + 1 \in DOMAIN pending /\ pending[n + 1] = FenceCmd(i)
    BY <1>3, <1>4
  <2>2. PICK m \in DOMAIN pending : m > n + 1 /\ pending[m] = DrawCmd(j)
    BY <1>2, <1>4, <2>1 DEF DrawsFollowFence
  <2>3. m - 1 \in DOMAIN pending' /\ m - 1 > n /\ pending'[m - 1] = DrawCmd(j)
    BY <1>3, <1>4, <2>2
  <2> QED
    BY <2>3
<1>5. \A i \in Backends : Age(i)' = Age(i)
  BY <1>1 DEF Age
<1> QED
  BY <1>1, <1>3, <1>4, <1>5 DEF DrawsFollowFence

\* every step keeps the order
LEMMA NextOrder == OrderInv /\ [Next]_vars => OrderInv'
<1> SUFFICES ASSUME OrderInv, [Next]_vars
             PROVE  pending' \in Seq(Commands)' /\ DrawsFollowFence'
  BY NextCInv DEF OrderInv
<1>1. Tick \/ Draw \/ Execute => pending' \in Seq(Commands)' /\ DrawsFollowFence'
  BY TickOrder, DrawOrder, ExecuteOrder
<1>2. ASSUME UNCHANGED <<used, gpuBuff, pending>>, step' = step \/ (step = "update" /\ step' = "draw")
      PROVE  pending' \in Seq(Commands)' /\ DrawsFollowFence'
  <2>1. /\ Backends' = Backends /\ Commands' = Commands
        /\ \A i : Age(i)' = Age(i)
    BY <1>2 DEF Backends, Commands, Age
  <2> QED
    BY <1>2, <2>1 DEF OrderInv, DrawsFollowFence
<1>3. Write \/ (\E n \in Sizes : Resize(n) \/ SetOtherSize(n)) \/ Finished \/ UNCHANGED vars
        => UNCHANGED <<used, gpuBuff, pending, step>>
  BY DEF Write, Resize, SetOtherSize, Finished, vars, mode
<1>4. OnUpdate => UNCHANGED <<used, gpuBuff, pending>> /\ step = "update" /\ step' = "draw"
  BY DEF OnUpdate, mode
<1> QED
  BY <1>1, <1>2, <1>3, <1>4 DEF Next, MainStep

\* copies whose draws are all pending are no more than the draws that are
LEMMA DrawsCount ==
  ASSUME TypeOK, pending \in Seq(Commands), NEW k \in Backends,
         \A j \in Backends \ {k} : \E m \in DOMAIN pending : pending[m] = DrawCmd(j)
  PROVE  PendingDraws \in Nat /\ used - 1 <= PendingDraws
<1> DEFINE D == {n \in DOMAIN pending : pending[n].op = "draw"}
           S == Backends \ {k}
           f == [j \in S |-> CHOOSE m \in D : pending[m] = DrawCmd(j)]
<1>1. used \in Nat \ {0} /\ Len(pending) \in Nat /\ DOMAIN pending = 1 .. Len(pending)
  BY LenProperties DEF TypeOK
<1>2. IsFiniteSet(D)
  <2>1. IsFiniteSet(1 .. Len(pending)) /\ D \subseteq 1 .. Len(pending)
    BY <1>1, FS_Interval
  <2> QED BY <2>1, FS_Subset
<1>3. \A j \in S : f[j] \in D /\ pending[f[j]] = DrawCmd(j)
  <2> SUFFICES ASSUME NEW j \in S
               PROVE  f[j] \in D /\ pending[f[j]] = DrawCmd(j)
    OBVIOUS
  <2>1. \E m \in D : pending[m] = DrawCmd(j)
    BY DEF DrawCmd
  <2> QED
    BY <2>1
<1>4. f \in [S -> D]
  BY <1>3
<1> HIDE DEF f, D
<1>5. f \in Injection(S, D)
  BY <1>3, <1>4, CommandsDiffer, Fun_IsInj
<1>6. Cardinality(S) <= Cardinality(D) /\ Cardinality(D) \in Nat
  BY <1>2, <1>5, FS_Injection, FS_CardinalityType
<1>7. Cardinality(S) = used - 1
  <2>1. IsFiniteSet(Backends) /\ Cardinality(Backends) = used
    BY <1>1, FS_Interval DEF Backends
  <2> QED
    BY <2>1, FS_RemoveElement
<1>8. PendingDraws = Cardinality(D)
  BY DEF PendingDraws, D
<1> QED
  BY <1>6, <1>7, <1>8

\* the fence of the copy that is next has been reached
LEMMA NextIsPolled ==
  ASSUME OrderInv, step = "tick", PendingDraws <= lag, used > lag + 1,
         NEW k \in Backends, NEW n \in Backends,
         k = (gpuBuff + 1) % used, n = (k + 1) % used
  PROVE  n # k /\ Polls(n)
<1>1. TypeOK /\ pending \in Seq(Commands) /\ DrawsFollowFence
  BY DEF OrderInv, CInv
<1>2. used \in Nat \ {0} /\ lag \in Nat /\ used > 1 /\ gpuBuff \in 0 .. used - 1
  BY <1>1 DEF TypeOK, Backends
<1>3. /\ k = IF gpuBuff + 1 = used THEN 0 ELSE gpuBuff + 1
      /\ n = IF k + 1 = used THEN 0 ELSE k + 1
  BY <1>2, NextWraps DEF Backends
<1>4. n # k
  BY <1>2, <1>3
<1>5. \A j \in Backends \ {k} : Age(j) <= Age(n)
  BY <1>2, <1>3 DEF Age, Backends
<1>6. ~ \E p \in DOMAIN pending : pending[p] = FenceCmd(n)
  <2> SUFFICES ASSUME NEW p \in DOMAIN pending, pending[p] = FenceCmd(n)
               PROVE  FALSE
    OBVIOUS
  <2>1. \A j \in Backends \ {k} : \E m \in DOMAIN pending : pending[m] = DrawCmd(j)
    BY <1>1, <1>5 DEF DrawsFollowFence
  <2>2. PendingDraws \in Nat /\ used - 1 <= PendingDraws
    BY <1>1, <2>1, DrawsCount
  <2> QED
    BY <1>2, <2>2
<1>7. Polls(n)
  BY <1>1, <1>6, LenProperties DEF Polls, Signaled, Contains
<1> QED
  BY <1>4, <1>7

\* A frame reads data that is at most one tick old, for any number of copies that
\* is greater than the frames in flight (tick(), syncCPU(), markInUse()).
THEOREM NextCopyIsFresh == Spec => NextIsFresh
<1>1. Init => OrderInv
  BY InitCInv, EmptySeq DEF Init, OrderInv, DrawsFollowFence
<1>2. OrderInv /\ [Next]_vars =>
        [(step = "tick" /\ step' = "update" /\ used > lag + 1)
           => seen'[(gpuBuff' + 1) % used] = version]_vars
  <2> SUFFICES ASSUME OrderInv, Next, step = "tick", step' = "update", used > lag + 1
               PROVE  seen'[(gpuBuff' + 1) % used] = version
    BY DEF vars
  <2>1. Tick
    BY DEF Next, MainStep, Write, Resize, SetOtherSize, OnUpdate, Draw, Execute, Finished, vars
  <2>2. TypeOK /\ used \in Nat \ {0} /\ used > 1 /\ gpuBuff \in Nat
    BY DEF OrderInv, CInv, TypeOK, Backends
  <2> DEFINE k == (gpuBuff + 1) % used
             n == (k + 1) % used
             others == {i \in Backends \ {k} : Polls(i)}
  <2>3. PendingDraws <= lag /\ gpuBuff' = k /\ Sync(others)
    BY <2>1, <2>2 DEF Tick, TickSingle, TickCycle
  <2>4. k \in Backends
    BY <2>2, NextIndex DEF Backends
  <2>5. n \in Backends
    BY <2>2, <2>4, NextIndex DEF Backends
  <2>6. n # k /\ Polls(n)
    BY <2>3, <2>4, <2>5, NextIsPolled
  <2>7. n \in others
    BY <2>5, <2>6
  <2> HIDE DEF k, n, others
  <2>8. seen'[n] = version
    BY <2>3, <2>5, <2>7 DEF Sync
  <2> QED
    BY <2>3, <2>8 DEF n
<1> QED
  BY <1>1, <1>2, NextOrder, PTL DEF Spec, NextIsFresh

-----------------------------------------------------------------------------
(* A size that stays *)

\* a copy is new, or it has storage of the size of the buffer, mapped
FixedCopies ==
  ~resizes => /\ ~crashed
              /\ \A i \in Backends : \/ bsize[i] = 0 /\ storage[i] = 0
                                     \/ bsize[i] = size /\ mapped[i]

\* What is reallocated while the size stays was new, so GL maps it.
LEMMA ReallocatedFixed ==
  ASSUME TypeOK, FixedCopies, ~resizes, NEW S \in SUBSET Backends,
         \A i \in S : bsize[i] # size, Reallocated(S), UNCHANGED <<used, resizes, size>>,
         ~crashed'
  PROVE  FixedCopies'
<1> SUFFICES ASSUME NEW i \in Backends
             PROVE  (bsize[i] = 0 /\ storage[i] = 0)' \/ (bsize[i] = size /\ mapped[i])'
  BY DEF FixedCopies, Backends
<1>1. size \in Nat /\ bsize[i] \in Nat /\ storage[i] \in Nat
  BY DEF TypeOK
<1>2. CASE i \in S
  <2>1. bsize[i] = 0 /\ storage[i] = 0 /\ size > 0
    BY <1>1, <1>2 DEF FixedCopies
  <2>2. bsize'[i] = size /\ mapped'[i] = (storage[i] = 0 /\ size > 0)
    BY <1>2 DEF Reallocated
  <2> QED
    BY <2>1, <2>2
<1>3. CASE i \notin S
  <2>1. bsize'[i] = bsize[i] /\ storage'[i] = storage[i] /\ mapped'[i] = mapped[i]
    BY <1>3 DEF Reallocated
  <2> QED
    BY <2>1 DEF FixedCopies
<1> QED
  BY <1>2, <1>3

\* Every step keeps the copies of a buffer of a fixed size mapped.
LEMMA NextFixed == CInv /\ FixedCopies /\ [Next]_vars => FixedCopies'
<1> SUFFICES ASSUME CInv, FixedCopies, [Next]_vars
             PROVE  FixedCopies'
  OBVIOUS
<1>1. TypeOK /\ resizes' = resizes /\ used' = used
  BY DEF CInv, Next, MainStep, Write, Resize, SetOtherSize, Tick, OnUpdate, Draw, Execute,
         Finished, vars, mode
<1>2. CASE Tick
  <2>1. PICK S \in SUBSET Backends : Sync(S)
    BY <1>2 DEF Tick, TickSingle, TickCycle
  <2> DEFINE growing == {i \in S : Reallocates(i)}
  <2>2. Reallocated(growing) /\ growing \in SUBSET Backends
    BY <2>1 DEF Sync
  <2>3. \A i \in growing : bsize[i] # size
    BY DEF Reallocates
  <2> HIDE DEF growing
  <2>4. size' = size
    BY <1>2 DEF Tick, cpu
  <2>5. ASSUME ~resizes PROVE ~crashed'
    <3>1. \A i \in Backends : Copies(i) => mapped[i] \/ ~(size > 0)
      BY <1>1, <2>5 DEF Copies, FixedCopies, TypeOK
    <3> QED
      BY <2>1, <3>1 DEF Sync
  <2>6. CASE resizes
    BY <1>1, <2>6 DEF FixedCopies
  <2>7. CASE ~resizes
    BY <1>1, <2>2, <2>3, <2>4, <2>5, <2>7, ReallocatedFixed
  <2> QED
    BY <2>6, <2>7
<1>3. CASE OnUpdate
  <2> DEFINE growing == {i \in update : bsize[i] # size}
  <2>1. Reallocated(growing) /\ size' = size /\ crashed' = crashed
    BY <1>3 DEF OnUpdate, cpu
  <2>2. Reallocated(growing \cap Backends)
    BY <2>1 DEF Reallocated
  <2>3. \A i \in growing : bsize[i] # size
    OBVIOUS
  <2> HIDE DEF growing
  <2>4. CASE resizes
    BY <1>1, <2>4 DEF FixedCopies
  <2>5. CASE ~resizes
    <3>1. ~crashed'
      BY <2>1, <2>5 DEF FixedCopies
    <3> DEFINE S == growing \cap Backends
    <3>2. Reallocated(S) /\ S \in SUBSET Backends /\ \A i \in S : bsize[i] # size
      BY <2>2, <2>3
    <3> HIDE DEF S
    <3> QED
      BY <1>1, <2>1, <2>5, <3>1, <3>2, ReallocatedFixed
  <2> QED
    BY <2>4, <2>5
<1>4. CASE \E n \in Sizes : Resize(n) \/ SetOtherSize(n)
  BY <1>1, <1>4 DEF Resize, SetOtherSize, FixedCopies
<1>5. CASE Write \/ Draw \/ Execute \/ Finished \/ UNCHANGED vars
  <2>1. UNCHANGED <<resizes, used, size, crashed, bsize, storage, mapped>>
    BY <1>5 DEF Write, Draw, Execute, Finished, vars, mode, cpu, back, gl
  <2> QED
    BY <2>1 DEF FixedCopies, Backends
<1> QED
  BY <1>2, <1>3, <1>4, <1>5 DEF Next, MainStep

\* As long as the size stays, no tick copies through a null mapping, for any number
\* of copies and writes before and after the first tick (syncCPU(), update()).
THEOREM FixedCopiesAreMapped == Spec => []CopiesAreMapped
<1>1. Init => FixedCopies
  BY DEF Init, FixedCopies
<1>2. FixedCopies => CopiesAreMapped
  BY DEF FixedCopies, CopiesAreMapped
<1> QED
  BY <1>1, <1>2, NextFixed, CycleInvariant, PTL DEF Spec

-----------------------------------------------------------------------------
(* The lives of cycle buffers *)

\* Which backends a buffer has while it is made, used and destroyed: they come in
\* the order of their index and go in the same order.
BackendsFollowLife ==
  \A b \in Buffers :
    LET mine == living \cap BackendsOf(b)
    IN  /\ life[b] \in {"unborn", "dead"} => mine = {}
        /\ life[b] = "backends" => \E k \in 0 .. Used[b] - 1 : mine = {b} \X (1 .. k)
        /\ life[b] \in {"register", "alive", "erase"} => BackendsOf(b) \subseteq living
        /\ life[b] = "delete" => \E k \in 1 .. Used[b] : mine = {b} \X (k .. Used[b])

\* A buffer is in s_buffers between the two steps that hold s_mtx for it.
ListFollowsLife == \A n \in DOMAIN buffers : life[buffers[n]] \in {"alive", "erase"}

ListedOnce == \A m, n \in DOMAIN buffers : m # n => buffers[m] # buffers[n]

\* The conjunction that the steps preserve.
LifeInv == LifeTypes /\ BackendsFollowLife /\ ListFollowsLife /\ ListedOnce

BackendsFromTo(b, j, k) == {b} \X (j .. k)

\* The number of backends with an index from j to k.
LEMMA CountBackends ==
  ASSUME NEW b, NEW j \in Int, NEW k \in Int
  PROVE  Cardinality(BackendsFromTo(b, j, k)) = IF j > k THEN 0 ELSE k - j + 1
<1>1. IsFiniteSet(j .. k) /\ Cardinality(j .. k) = IF j > k THEN 0 ELSE k - j + 1
  BY FS_Interval
<1>2. IsFiniteSet({b}) /\ Cardinality({b}) = 1
  BY FS_Singleton
<1>3. Cardinality({b} \X (j .. k)) = Cardinality({b}) * Cardinality(j .. k)
  BY <1>1, <1>2, FS_Product
<1>4. Cardinality(j .. k) \in Int
  BY <1>1
<1> QED
  BY <1>1, <1>2, <1>3, <1>4 DEF BackendsFromTo

\* What is removed from a list that has it once leaves the others in their order.
LEMMA RemoveFirstOfDistinct ==
  ASSUME NEW S, NEW s \in Seq(S), NEW p \in 1 .. Len(s),
         \A m, n \in DOMAIN s : m # n => s[m] # s[n]
  PROVE  LET r == RemoveFirst(s, s[p])
         IN  /\ r \in Seq(S)
             /\ Len(r) = Len(s) - 1
             /\ \A i \in 1 .. Len(r) : r[i] = IF i < p THEN s[i] ELSE s[i + 1]
<1> DEFINE before == SubSeq(s, 1, p - 1)
           after == SubSeq(s, p + 1, Len(s))
<1>1. DOMAIN s = 1 .. Len(s) /\ Len(s) \in Nat /\ \A i \in 1 .. Len(s) : s[i] \in S
  BY LenProperties, ElementOfSeq
<1>2. {i \in 1 .. Len(s) : s[i] = s[p]} = {p}
  BY <1>1
<1>3. SelectInSeq(s, LAMBDA v : v = s[p]) = p
  <2>1. Min({p}) = p
    BY DEF Min
  <2> QED
    BY <1>2, <2>1 DEF SelectInSeq
<1>4. RemoveFirst(s, s[p]) = before \o after
  BY <1>3 DEF RemoveFirst, RemoveAt
<1>5. /\ before \in Seq(S) /\ Len(before) = p - 1
      /\ \A i \in 1 .. p - 1 : before[i] = s[i]
  <2>1. /\ before \in Seq(S)
        /\ Len(before) = IF 1 <= p - 1 THEN (p - 1) - 1 + 1 ELSE 0
        /\ \A i \in 1 .. (p - 1) - 1 + 1 : before[i] = s[1 + i - 1]
    BY <1>1, SubSeqProperties
  <2> QED
    BY <2>1, <1>1
<1>6. /\ after \in Seq(S) /\ Len(after) = Len(s) - p
      /\ \A i \in 1 .. Len(s) - p : after[i] = s[p + i]
  <2>1. /\ after \in Seq(S)
        /\ Len(after) = IF p + 1 <= Len(s) THEN Len(s) - (p + 1) + 1 ELSE 0
        /\ \A i \in 1 .. Len(s) - (p + 1) + 1 : after[i] = s[(p + 1) + i - 1]
    BY <1>1, SubSeqProperties
  <2> QED
    BY <2>1, <1>1
<1>7. /\ before \o after \in Seq(S)
      /\ Len(before \o after) = Len(before) + Len(after)
      /\ \A i \in 1 .. Len(before) + Len(after) : (before \o after)[i] =
           IF i <= Len(before) THEN before[i] ELSE after[i - Len(before)]
  BY <1>5, <1>6, ConcatProperties
<1> HIDE DEF before, after
<1>8. Len(before \o after) = Len(s) - 1
  BY <1>1, <1>5, <1>6, <1>7
<1>9. ASSUME NEW i \in 1 .. Len(s) - 1
      PROVE  (before \o after)[i] = IF i < p THEN s[i] ELSE s[i + 1]
  <2>1. i \in 1 .. Len(before) + Len(after)
    BY <1>1, <1>5, <1>6
  <2>2. CASE i < p
    BY <1>1, <1>5, <1>7, <2>1, <2>2
  <2>3. CASE ~(i < p)
    <3>1. i - (p - 1) \in 1 .. Len(s) - p /\ p + (i - (p - 1)) = i + 1
      BY <1>1, <2>3
    <3> QED
      BY <1>1, <1>5, <1>6, <1>7, <2>1, <2>3, <3>1
  <2> QED
    BY <2>2, <2>3
<1> QED
  BY <1>4, <1>7, <1>8, <1>9

\* Nothing has been made at the start.
LEMMA LifeStarts == LifeInit => LifeInv
<1> SUFFICES ASSUME LifeInit PROVE LifeInv
  OBVIOUS
<1>1. buffers = <<>> /\ DOMAIN buffers = {}
  BY DEF LifeInit
<1>2. LifeTypes
  BY EmptySeq DEF LifeInit, LifeTypes
<1> QED
  BY <1>1, <1>2 DEF LifeInit, LifeInv, BackendsFollowLife, ListFollowsLife, ListedOnce

\* A step that is no client's, or that makes and deletes no backend, keeps what
\* the lives of the others say of theirs.
LEMMA OtherLives ==
  ASSUME LifeInv, NEW b \in Buffers, NEW from, NEW to, Advance(b, from, to)
  PROVE  /\ life[b] = from
         /\ \A c \in Buffers : life'[c] = IF c = b THEN to ELSE life[c]
         /\ life' \in [Buffers -> {life[c] : c \in Buffers} \cup {to}]
BY DEF LifeInv, LifeTypes, Advance

\* Who is in s_buffers is a buffer that is made and not yet taken out.
LEMMA ListedAreBuffers ==
  ASSUME LifeInv
  PROVE  \A n \in DOMAIN buffers : buffers[n] \in Buffers /\ life[buffers[n]] \in {"alive", "erase"}
BY LenProperties, ElementOfSeq DEF LifeInv, LifeTypes, ListFollowsLife

\* The backend that is made next completes the first ones.
LEMMA MakeBackendSteps ==
  ASSUME LifeInv, NEW b \in Buffers, MakeBackend(b)
  PROVE  LifeInv'
<1> USE LifetimeAssumption
<1> DEFINE mine == living \cap BackendsOf(b)
           i == Cardinality(mine) + 1
           to == IF i = Used[b] THEN "register" ELSE "backends"
<1>1. Advance(b, "backends", to) /\ UNCHANGED <<buffers, loop, index, touchedDeleted, named>>
  BY DEF MakeBackend
<1>2. living' = living \cup {<<b, i>>} /\ updateQueue' = Append(updateQueue, <<b, i>>)
      /\ loop # "update"
  BY DEF MakeBackend
<1>3. life[b] = "backends" /\ \A c \in Buffers : life'[c] = IF c = b THEN to ELSE life[c]
  BY <1>1, OtherLives
<1>4. PICK k \in 0 .. Used[b] - 1 : mine = {b} \X (1 .. k)
  BY <1>3 DEF LifeInv, BackendsFollowLife
<1>5. Used[b] \in Nat \ {0} /\ k \in Int /\ i = k + 1
  <2>1. Used[b] \in Nat \ {0} /\ k \in Nat
    OBVIOUS
  <2>2. Cardinality(BackendsFromTo(b, 1, k)) = k
    BY <2>1, CountBackends
  <2>3. mine = BackendsFromTo(b, 1, k)
    BY <1>4 DEF BackendsFromTo
  <2> HIDE DEF mine
  <2>4. Cardinality(mine) = k
    BY <2>2, <2>3, Zenon
  <2> QED
    BY <2>1, <2>4
<1>6. <<b, i>> \in BackendsOf(b)
  BY <1>5 DEF BackendsOf
<1> HIDE DEF mine, i
<1>7. LifeTypes'
  <2>1. life' \in [Buffers -> {"unborn", "backends", "register", "alive", "erase",
                             "delete", "dead"}]
    BY <1>1 DEF Advance, LifeInv, LifeTypes
  <2>2. living' \subseteq UNION {BackendsOf(c) : c \in Buffers}
    BY <1>2, <1>6 DEF LifeInv, LifeTypes
  <2>3. updateQueue' \in Seq(UNION {BackendsOf(c) : c \in Buffers})
    BY <1>2, <1>6 DEF LifeInv, LifeTypes
  <2> QED
    BY <1>1, <1>2, <2>1, <2>2, <2>3 DEF LifeInv, LifeTypes
<1>8. BackendsFollowLife'
  <2> SUFFICES ASSUME NEW c \in Buffers
               PROVE  LET now == living' \cap BackendsOf(c)
                      IN  /\ life'[c] \in {"unborn", "dead"} => now = {}
                          /\ life'[c] = "backends" => \E n \in 0 .. Used[c] - 1 : now = {c} \X (1 .. n)
                          /\ life'[c] \in {"register", "alive", "erase"} => BackendsOf(c) \subseteq living'
                          /\ life'[c] = "delete" => \E n \in 1 .. Used[c] : now = {c} \X (n .. Used[c])
    BY DEF BackendsFollowLife, BackendsOf
  <2>1. CASE c # b
    <3>1. living' \cap BackendsOf(c) = living \cap BackendsOf(c)
      BY <1>2, <2>1 DEF BackendsOf
    <3> QED
      BY <1>2, <1>3, <2>1, <3>1 DEF LifeInv, BackendsFollowLife
  <2>2. CASE c = b
    <3>1. living' \cap BackendsOf(b) = {b} \X (1 .. k + 1)
      <4>1. {b} \X (1 .. k + 1) = ({b} \X (1 .. k)) \cup {<<b, k + 1>>}
        BY <1>5
      <4> QED
        BY <1>2, <1>4, <1>5, <1>6, <4>1 DEF mine
    <3>2. CASE i = Used[b]
      <4>1. life'[b] = "register" /\ BackendsOf(b) = {b} \X (1 .. k + 1)
        BY <1>3, <1>5, <3>2 DEF BackendsOf
      <4> QED
        BY <2>2, <3>1, <4>1
    <3>3. CASE i # Used[b]
      <4>1. life'[b] = "backends" /\ k + 1 \in 0 .. Used[b] - 1
        BY <1>3, <1>4, <1>5, <3>3
      <4> QED
        BY <2>2, <3>1, <4>1
    <3> QED
      BY <3>2, <3>3
  <2> QED
    BY <2>1, <2>2
<1>9. ListFollowsLife'
  <2>1. \A n \in DOMAIN buffers : buffers[n] \in Buffers /\ buffers[n] # b
    BY <1>3, ListedAreBuffers
  <2> QED
    BY <1>1, <1>3, <2>1 DEF LifeInv, ListFollowsLife
<1> QED
  BY <1>1, <1>7, <1>8, <1>9 DEF LifeInv, ListedOnce

\* The backend that is deleted next is the first of those that are left.
LEMMA DeleteBackendSteps ==
  ASSUME LifeInv, NEW b \in Buffers, DeleteBackend(b)
  PROVE  LifeInv'
<1> USE LifetimeAssumption
<1> DEFINE mine == living \cap BackendsOf(b)
           i == Used[b] - Cardinality(mine) + 1
           to == IF i = Used[b] THEN "dead" ELSE "delete"
<1>1. /\ Advance(b, "delete", to)
      /\ UNCHANGED <<buffers, updateQueue, loop, index, touchedDeleted, named>>
      /\ living' = living \ {<<b, i>>}
  BY DEF DeleteBackend
<1>2. life[b] = "delete" /\ \A c \in Buffers : life'[c] = IF c = b THEN to ELSE life[c]
  BY <1>1, OtherLives
<1>3. PICK k \in 1 .. Used[b] : mine = {b} \X (k .. Used[b])
  BY <1>2 DEF LifeInv, BackendsFollowLife
<1>4. Used[b] \in Nat \ {0} /\ k \in Int /\ i = k
  <2>1. Used[b] \in Nat \ {0} /\ k \in 1 .. Used[b]
    OBVIOUS
  <2>2. Cardinality(BackendsFromTo(b, k, Used[b])) = Used[b] - k + 1
    BY <2>1, CountBackends
  <2>3. mine = BackendsFromTo(b, k, Used[b])
    BY <1>3 DEF BackendsFromTo
  <2> HIDE DEF mine
  <2>4. Cardinality(mine) = Used[b] - k + 1
    BY <2>2, <2>3, Zenon
  <2> QED
    BY <2>1, <2>4
<1> HIDE DEF mine, i
<1>5. LifeTypes'
  <2>1. life' \in [Buffers -> {"unborn", "backends", "register", "alive", "erase",
                             "delete", "dead"}]
    BY <1>1 DEF Advance, LifeInv, LifeTypes
  <2> QED
    BY <1>1, <2>1 DEF LifeInv, LifeTypes
<1>6. BackendsFollowLife'
  <2> SUFFICES ASSUME NEW c \in Buffers
               PROVE  LET now == living' \cap BackendsOf(c)
                      IN  /\ life'[c] \in {"unborn", "dead"} => now = {}
                          /\ life'[c] = "backends" => \E n \in 0 .. Used[c] - 1 : now = {c} \X (1 .. n)
                          /\ life'[c] \in {"register", "alive", "erase"} => BackendsOf(c) \subseteq living'
                          /\ life'[c] = "delete" => \E n \in 1 .. Used[c] : now = {c} \X (n .. Used[c])
    BY DEF BackendsFollowLife, BackendsOf
  <2>1. CASE c # b
    <3>1. living' \cap BackendsOf(c) = living \cap BackendsOf(c)
      BY <1>1, <2>1 DEF BackendsOf
    <3>2. BackendsOf(c) \subseteq living => BackendsOf(c) \subseteq living'
      BY <3>1
    <3> QED
      BY <1>2, <2>1, <3>1, <3>2 DEF LifeInv, BackendsFollowLife
  <2>2. CASE c = b
    <3>1. living' \cap BackendsOf(b) = {b} \X (k + 1 .. Used[b])
      <4>1. ({b} \X (k .. Used[b])) \ {<<b, k>>} = {b} \X (k + 1 .. Used[b])
        BY <1>4
      <4> QED
        BY <1>1, <1>3, <1>4, <4>1 DEF mine
    <3>2. CASE i = Used[b]
      <4>1. life'[b] = "dead" /\ k + 1 .. Used[b] = {}
        BY <1>2, <1>4, <3>2
      <4> QED
        BY <2>2, <3>1, <4>1
    <3>3. CASE i # Used[b]
      <4>1. life'[b] = "delete" /\ k + 1 \in 1 .. Used[b]
        BY <1>2, <1>3, <1>4, <3>3
      <4> QED
        BY <2>2, <3>1, <4>1
    <3> QED
      BY <3>2, <3>3
  <2> QED
    BY <2>1, <2>2
<1>7. ListFollowsLife'
  <2>1. \A n \in DOMAIN buffers : buffers[n] \in Buffers /\ buffers[n] # b
    BY <1>2, ListedAreBuffers
  <2> QED
    BY <1>1, <1>2, <2>1 DEF LifeInv, ListFollowsLife
<1> QED
  BY <1>1, <1>5, <1>6, <1>7 DEF LifeInv, ListedOnce

\* A step that neither makes nor deletes backends: a life goes on within the ones
\* that have all of theirs, or with none made yet.
LEMMA SameBackends ==
  ASSUME LifeInv, NEW b \in Buffers, NEW from, NEW to, Advance(b, from, to),
         UNCHANGED living,
         \/ from = "unborn" /\ to = "backends"
         \/ from \in {"register", "alive", "erase"} /\ to \in {"alive", "erase"}
         \/ from = "erase" /\ to = "delete"
  PROVE  BackendsFollowLife' /\ life' \in [Buffers -> {"unborn", "backends", "register",
                                      "alive", "erase", "delete", "dead"}]
<1> USE LifetimeAssumption
<1>1. life[b] = from /\ \A c \in Buffers : life'[c] = IF c = b THEN to ELSE life[c]
  BY OtherLives
<1>2. life' \in [Buffers -> {"unborn", "backends", "register", "alive", "erase",
                           "delete", "dead"}]
  BY DEF Advance, LifeInv, LifeTypes
<1>3. BackendsFollowLife'
  <2> SUFFICES ASSUME NEW c \in Buffers
               PROVE  LET mine == living \cap BackendsOf(c)
                      IN  /\ life'[c] \in {"unborn", "dead"} => mine = {}
                          /\ life'[c] = "backends" => \E n \in 0 .. Used[c] - 1 : mine = {c} \X (1 .. n)
                          /\ life'[c] \in {"register", "alive", "erase"} => BackendsOf(c) \subseteq living
                          /\ life'[c] = "delete" => \E n \in 1 .. Used[c] : mine = {c} \X (n .. Used[c])
    BY DEF BackendsFollowLife, BackendsOf
  <2>1. CASE c # b
    BY <1>1, <2>1 DEF LifeInv, BackendsFollowLife
  <2>2. CASE c = b /\ from = "unborn" /\ to = "backends"
    <3>1. 1 .. 0 = {} /\ 0 \in 0 .. Used[b] - 1
      OBVIOUS
    <3>2. living \cap BackendsOf(b) = {b} \X (1 .. 0)
      BY <1>1, <2>2, <3>1 DEF LifeInv, BackendsFollowLife
    <3> QED
      BY <1>1, <2>2, <3>1, <3>2
  <2>3. CASE c = b /\ from \in {"register", "alive", "erase"} /\ to \in {"alive", "erase"}
    BY <1>1, <2>3 DEF LifeInv, BackendsFollowLife
  <2>4. CASE c = b /\ from = "erase" /\ to = "delete"
    <3>1. BackendsOf(b) \subseteq living /\ 1 \in 1 .. Used[b]
      BY <1>1, <2>4 DEF LifeInv, BackendsFollowLife
    <3>2. living \cap BackendsOf(b) = {b} \X (1 .. Used[b])
      BY <3>1 DEF BackendsOf
    <3> QED
      BY <1>1, <2>4, <3>1, <3>2
  <2> QED
    BY <2>1, <2>2, <2>3, <2>4
<1> QED
  BY <1>2, <1>3

\* A buffer joins the list when it is whole and leaves it while it still is.
LEMMA ClientSteps ==
  ASSUME LifeInv, NEW b \in Buffers, Client(b)
  PROVE  LifeInv'
<1>0. \A n \in DOMAIN buffers : buffers[n] \in Buffers /\ life[buffers[n]] \in {"alive", "erase"}
  BY ListedAreBuffers
<1>1. CASE Construct(b)
  <2>1. /\ Advance(b, "unborn", "backends")
        /\ UNCHANGED <<living, buffers, updateQueue, named, loop, index, touchedDeleted>>
    BY <1>1 DEF Construct
  <2>2. BackendsFollowLife' /\ life' \in [Buffers -> {"unborn", "backends", "register",
                                      "alive", "erase", "delete", "dead"}]
    BY <2>1, SameBackends
  <2>3. life[b] = "unborn" /\ \A c \in Buffers : life'[c] = IF c = b THEN "backends" ELSE life[c]
    BY <2>1, OtherLives
  <2>4. ListFollowsLife'
    BY <1>0, <2>1, <2>3 DEF ListFollowsLife
  <2> QED
    BY <2>1, <2>2, <2>4 DEF LifeInv, LifeTypes, ListedOnce
<1>2. CASE MakeBackend(b)
  BY <1>2, MakeBackendSteps
<1>3. CASE Register(b)
  <2>1. /\ Advance(b, "register", "alive") /\ loop # "tick" /\ buffers' = Append(buffers, b)
        /\ UNCHANGED <<living, updateQueue, named, loop, index, touchedDeleted>>
    BY <1>3 DEF Register
  <2>2. BackendsFollowLife' /\ life' \in [Buffers -> {"unborn", "backends", "register",
                                      "alive", "erase", "delete", "dead"}]
    BY <2>1, SameBackends
  <2>3. life[b] = "register" /\ \A c \in Buffers : life'[c] = IF c = b THEN "alive" ELSE life[c]
    BY <2>1, OtherLives
  <2>4. /\ buffers' \in Seq(Buffers) /\ DOMAIN buffers' = 1 .. Len(buffers) + 1
        /\ DOMAIN buffers = 1 .. Len(buffers) /\ Len(buffers) \in Nat
        /\ \A n \in 1 .. Len(buffers) : buffers'[n] = buffers[n]
        /\ buffers'[Len(buffers) + 1] = b
    BY <2>1, AppendProperties DEF LifeInv, LifeTypes
  <2>5. ListFollowsLife' /\ ListedOnce'
    BY <1>0, <2>3, <2>4 DEF ListFollowsLife, ListedOnce, LifeInv
  <2> QED
    BY <2>1, <2>2, <2>4, <2>5 DEF LifeInv, LifeTypes
<1>4. CASE DestroyBuffer(b)
  <2>1. /\ Advance(b, "alive", "erase")
        /\ UNCHANGED <<living, buffers, updateQueue, named, loop, index, touchedDeleted>>
    BY <1>4 DEF DestroyBuffer
  <2>2. BackendsFollowLife' /\ life' \in [Buffers -> {"unborn", "backends", "register",
                                      "alive", "erase", "delete", "dead"}]
    BY <2>1, SameBackends
  <2>3. \A c \in Buffers : life'[c] = IF c = b THEN "erase" ELSE life[c]
    BY <2>1, OtherLives
  <2>4. ListFollowsLife'
    BY <1>0, <2>1, <2>3 DEF ListFollowsLife
  <2> QED
    BY <2>1, <2>2, <2>4 DEF LifeInv, LifeTypes, ListedOnce
<1>5. CASE Erase(b)
  <2>1. /\ Advance(b, "erase", "delete") /\ loop # "tick" /\ buffers' = RemoveFirst(buffers, b)
        /\ UNCHANGED <<living, updateQueue, named, loop, index, touchedDeleted>>
    BY <1>5 DEF Erase
  <2>2. BackendsFollowLife' /\ life' \in [Buffers -> {"unborn", "backends", "register",
                                      "alive", "erase", "delete", "dead"}]
    BY <2>1, SameBackends
  <2>3. life[b] = "erase" /\ \A c \in Buffers : life'[c] = IF c = b THEN "delete" ELSE life[c]
    BY <2>1, OtherLives
  <2>4. /\ buffers \in Seq(Buffers) /\ DOMAIN buffers = 1 .. Len(buffers) /\ Len(buffers) \in Nat
        /\ \A m, n \in DOMAIN buffers : m # n => buffers[m] # buffers[n]
    BY LenProperties DEF LifeInv, LifeTypes, ListedOnce
  <2>5. CASE \E n \in DOMAIN buffers : buffers[n] = b
    <3>1. PICK p \in 1 .. Len(buffers) : buffers[p] = b
      BY <2>4, <2>5
    <3>2. /\ buffers' \in Seq(Buffers) /\ Len(buffers') = Len(buffers) - 1
          /\ \A n \in 1 .. Len(buffers') : buffers'[n] = IF n < p THEN buffers[n] ELSE buffers[n + 1]
      BY <2>1, <2>4, <3>1, RemoveFirstOfDistinct
    <3>3. DOMAIN buffers' = 1 .. Len(buffers) - 1
      BY <3>2, LenProperties
    <3>4. \A n \in DOMAIN buffers' : \E m \in DOMAIN buffers :
            m # p /\ m = (IF n < p THEN n ELSE n + 1) /\ buffers'[n] = buffers[m]
      BY <2>4, <3>2, <3>3
    <3>5. ListedOnce'
      BY <2>4, <3>3, <3>4 DEF ListedOnce
    <3>6. ListFollowsLife'
      BY <1>0, <2>3, <2>4, <3>1, <3>4 DEF ListFollowsLife
    <3> QED
      BY <2>1, <2>2, <3>2, <3>5, <3>6 DEF LifeInv, LifeTypes
  <2>6. CASE ~ \E n \in DOMAIN buffers : buffers[n] = b
    <3>1. buffers' = buffers
      BY <2>1, <2>4, <2>6 DEF RemoveFirst
    <3>2. ListFollowsLife'
      BY <1>0, <2>3, <2>6, <3>1 DEF ListFollowsLife
    <3> QED
      BY <2>1, <2>2, <3>1, <3>2 DEF LifeInv, LifeTypes, ListedOnce
  <2> QED
    BY <2>5, <2>6
<1>6. CASE DeleteBackend(b)
  BY <1>6, DeleteBackendSteps
<1> QED
  BY <1>1, <1>2, <1>3, <1>4, <1>5, <1>6 DEF Client

\* The loops of the main thread walk lists that nobody may change meanwhile.
LEMMA MainThreadSteps ==
  ASSUME LifeInv, MainThread
  PROVE  LifeInv'
<1>0. Len(buffers) \in Nat /\ Len(updateQueue) \in Nat
  BY DEF LifeInv, LifeTypes
<1>1. UNCHANGED <<life, living, buffers>>
  BY DEF MainThread, BeginTick, TickNext, BeginUpdate, UpdateNext, EndUpdate
<1>2. BackendsFollowLife' /\ ListFollowsLife' /\ ListedOnce'
  BY <1>1 DEF LifeInv, BackendsFollowLife, BackendsOf, ListFollowsLife, ListedOnce
<1>3. CASE BeginTick
  BY <1>0, <1>2, <1>3 DEF BeginTick, LifeInv, LifeTypes
<1>4. CASE TickNext
  <2>1. named' \subseteq UNION {BackendsOf(b) : b \in Buffers}
    BY <1>4 DEF TickNext, LifeInv, LifeTypes
  <2>2. index' = index + 1 /\ index' \in 1 .. Len(buffers) + 1 /\ loop = "tick"
    BY <1>0, <1>4 DEF TickNext, LifeInv, LifeTypes
  <2>3. touchedDeleted' \in BOOLEAN /\ UNCHANGED <<life, living, buffers, updateQueue, loop>>
    BY <1>4 DEF TickNext
  <2> QED
    BY <1>2, <2>1, <2>2, <2>3 DEF LifeInv, LifeTypes
<1>5. CASE BeginUpdate
  BY <1>0, <1>2, <1>5 DEF BeginUpdate, LifeInv, LifeTypes
<1>6. CASE UpdateNext
  <2>1. updateQueue[index] \in UNION {BackendsOf(b) : b \in Buffers}
    BY <1>0, <1>6, ElementOfSeq DEF UpdateNext, LifeInv, LifeTypes
  <2>2. named' \subseteq UNION {BackendsOf(b) : b \in Buffers} /\ touchedDeleted' \in BOOLEAN
    BY <1>6, <2>1 DEF UpdateNext, LifeInv, LifeTypes
  <2>3. index' = index + 1 /\ index' \in 1 .. Len(updateQueue) + 1 /\ loop = "update"
    BY <1>0, <1>6 DEF UpdateNext, LifeInv, LifeTypes
  <2>4. UNCHANGED <<life, living, buffers, updateQueue, loop>>
    BY <1>6 DEF UpdateNext
  <2> QED
    BY <1>2, <2>2, <2>3, <2>4 DEF LifeInv, LifeTypes
<1>7. CASE EndUpdate
  BY <1>2, <1>7, EmptySeq DEF EndUpdate, LifeInv, LifeTypes
<1> QED
  BY <1>3, <1>4, <1>5, <1>6, <1>7 DEF MainThread

\* A step keeps the invariant.
LEMMA LifeSteps == LifeInv /\ [LifeNext]_lifeVars => LifeInv'
<1> SUFFICES ASSUME LifeInv, [LifeNext]_lifeVars PROVE LifeInv'
  OBVIOUS
<1>1. ASSUME NEW b \in Buffers, Client(b) PROVE LifeInv'
  BY <1>1, ClientSteps
<1>2. CASE MainThread
  BY <1>2, MainThreadSteps
<1>3. CASE UNCHANGED lifeVars
  BY <1>3 DEF lifeVars, LifeInv, LifeTypes, BackendsFollowLife, BackendsOf, ListFollowsLife,
              ListedOnce
<1> QED
  BY <1>1, <1>2, <1>3 DEF LifeNext, Touched

\* The types hold, and the loops stay within the lists they walk.
THEOREM LifeKeepsTypes == LifeSpec => []LifeTypes
<1>1. LifeInv => LifeTypes
  BY DEF LifeInv
<1> QED
  BY <1>1, LifeStarts, LifeSteps, PTL DEF LifeSpec

\* API_CycleBuffer.cpp: what tick() finds in s_buffers is there once and has all
\* its backends, for any number of buffers and backends.
THEOREM RegisteredStaysWhole == LifeSpec => []RegisteredIsWhole
<1>1. LifeInv => RegisteredIsWhole
  <2> SUFFICES ASSUME LifeInv PROVE RegisteredIsWhole
    OBVIOUS
  <2>1. \A n \in DOMAIN buffers : BackendsOf(buffers[n]) \subseteq living
    BY ListedAreBuffers DEF LifeInv, BackendsFollowLife
  <2> QED
    BY <2>1 DEF RegisteredIsWhole, LifeInv, ListedOnce
<1> QED
  BY <1>1, LifeStarts, LifeSteps, PTL DEF LifeSpec

\* API_CycleBuffer.cpp, tick(): the loop over s_buffers never comes to a deleted
\* backend, only the one over m_updateQueue may, whose entries nobody takes out.
TickTouchesLiving == touchedDeleted => loop = "update"

THEOREM TickStaysSafe == LifeSpec => []TickTouchesLiving
<1>1. LifeInit => TickTouchesLiving
  BY DEF LifeInit, TickTouchesLiving
<1>2. LifeInv /\ TickTouchesLiving /\ [LifeNext]_lifeVars => TickTouchesLiving'
  <2> SUFFICES ASSUME LifeInv, TickTouchesLiving, [LifeNext]_lifeVars, touchedDeleted'
               PROVE  loop' = "update"
    BY DEF TickTouchesLiving
  <2>1. ASSUME NEW b \in Buffers, Client(b) PROVE loop' = "update"
    BY <2>1 DEF Client, Construct, MakeBackend, Register, DestroyBuffer, Erase, DeleteBackend,
                Advance
  <2>2. CASE TickNext
    <3>1. index \in DOMAIN buffers
      BY <2>2 DEF TickNext, LifeInv, LifeTypes
    <3>2. BackendsOf(buffers[index]) \subseteq living
      BY <3>1, ListedAreBuffers DEF LifeInv, BackendsFollowLife
    <3> QED
      BY <2>2, <3>2 DEF TickNext
  <2>3. CASE UpdateNext
    BY <2>3 DEF UpdateNext
  <2>4. CASE BeginTick \/ BeginUpdate \/ EndUpdate
    BY <2>4 DEF BeginTick, BeginUpdate, EndUpdate
  <2>5. CASE UNCHANGED lifeVars
    BY <2>5 DEF lifeVars, TickTouchesLiving
  <2> QED
    BY <2>1, <2>2, <2>3, <2>4, <2>5 DEF LifeNext, MainThread, Touched
<1> QED
  BY <1>1, <1>2, LifeStarts, LifeSteps, PTL DEF LifeSpec

=============================================================================
