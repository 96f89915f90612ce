------------------------- MODULE BufferQueueProofs -------------------------
(***************************************************************************)
(* Proofs about the upload queue, for any number of buffers and writers.   *)
(*                                                                         *)
(* A writer that waits for the tick (pc = "push") holds the m_dataMtx of   *)
(* its buffer and found m_queued clear.  Only the holder of m_dataMtx sets *)
(* the flag, so it is still clear; the queue holds exactly the buffers     *)
(* whose flag is set, so the tick is not about to lock that buffer.        *)
(*                                                                         *)
(* On one thread nothing is left behind (SerialIsCurrent): calls and tick  *)
(* take turns.  On many, whoever is waited for goes on (WaitedForMoves).   *)
(***************************************************************************)
EXTENDS BufferQueueProps, TLAPS

\* a writer inside a call holds the m_dataMtx of its buffer
HoldsData ==
  \A w \in Writers : IF pc[w] = "idle" THEN target[w] = Null
                     ELSE target[w] \in Buffers /\ dataMtx[target[w]] = w

\* a writer that waits for m_mutex found m_queued clear, and it still is
StillUnqueued == \A w \in Writers : pc[w] = "push" => ~queued[target[w]]

\* the tick holds m_mutex throughout and stays inside the queue
TickHolds ==
  /\ (mutex = Null) <=> (tpc = "idle")
  /\ tpc = "idle" => at = 1
  /\ tpc \in {"upload", "unmark"} => at <= Len(queue)

\* the two parts of QueueMatchesFlags
QueuedOnce == \A i, j \in DOMAIN queue : queue[i] = queue[j] => i = j
FlagMatchesQueue ==
  \A b \in Buffers :
    queued[b] <=> \E i \in DOMAIN queue :
                    queue[i] = b /\ (tpc # "idle" => i >= at)

IInv ==
  /\ TypeOK
  /\ HoldsData
  /\ StillUnqueued
  /\ TickHolds
  /\ FlagMatchesQueue
  /\ QueuedOnce

-----------------------------------------------------------------------------

\* The initial state satisfies the inductive invariant.
LEMMA InitInv == Init => IInv
<1> SUFFICES ASSUME Init PROVE IInv
  OBVIOUS
<1> USE BufferAssumption, SizeAssumption, TickAssumption DEF Init
<1>1. queue \in Seq(Buffers) /\ Len(queue) = 0 /\ DOMAIN queue = {}
  OBVIOUS
<1>2. 0 \in Sizes /\ LoadedSize \in Sizes /\ 0 \in 0 .. MaxWrites
  BY DEF Sizes
<1>3. TypeOK
  <2>1. /\ size \in [Buffers -> Sizes]
        /\ currSize \in [Buffers -> Sizes]
        /\ storage \in [Buffers -> Sizes]
    <3>1. [b \in Buffers |-> IF b \in Loaded THEN LoadedSize ELSE 0] \in [Buffers -> Sizes]
      BY <1>2
    <3> QED
      BY <3>1
  <2>2. /\ alloc \in [Buffers -> Sizes \cup {None}]
        /\ version \in [Buffers -> 0 .. MaxWrites]
        /\ sent \in [Buffers -> 0 .. MaxWrites]
    BY <1>2
  <2>3. /\ queued \in [Buffers -> BOOLEAN]
        /\ mapped \in [Buffers -> BOOLEAN]
        /\ dataMtx \in [Buffers -> Writers \cup {Null}]
        /\ pc \in [Writers -> {"idle", "queue", "push"}]
        /\ target \in [Writers -> Buffers \cup {Null}]
    OBVIOUS
  <2>4. at \in 1 .. Len(queue) + 1
    BY <1>1
  <2> QED
    BY <1>1, <2>1, <2>2, <2>3, <2>4 DEF TypeOK
<1>4. HoldsData /\ StillUnqueued /\ TickHolds
  BY DEF HoldsData, StillUnqueued, TickHolds
<1>5. FlagMatchesQueue /\ QueuedOnce
  BY <1>1 DEF FlagMatchesQueue, QueuedOnce
<1> QED
  BY <1>3, <1>4, <1>5 DEF IInv

\* What Set, Write, Resize and Append2 have in common.
LEMMA StartShape ==
  ASSUME IInv, NEW w \in Writers, Start(w)
  PROVE  \E b \in Buffers : /\ Enter(w, b)
                            /\ size' \in [Buffers -> Sizes]
                            /\ alloc' \in [Buffers -> Sizes \cup {None}]
<1>1. PICK b \in Buffers :
        \/ Write(w, b)
        \/ \E n \in Requests : Set(w, b, n) \/ Resize(w, b, n) \/ Append2(w, b, n)
  BY DEF Start
<1>2. size \in [Buffers -> Sizes] /\ alloc \in [Buffers -> Sizes \cup {None}]
  BY DEF IInv, TypeOK
<1>3. Requests \subseteq Sizes
  BY SizeAssumption DEF Sizes
<1>4. CASE Write(w, b)
  BY <1>2, <1>4 DEF Write
<1>5. ASSUME NEW n \in Requests, Set(w, b, n) \/ Resize(w, b, n) \/ Append2(w, b, n)
      PROVE  /\ Enter(w, b)
             /\ size' \in [Buffers -> Sizes]
             /\ alloc' \in [Buffers -> Sizes \cup {None}]
  <2>1. CASE Set(w, b, n)
    <3>1. alloc' \in [Buffers -> Sizes \cup {None}]
      BY <1>2, <1>3, <2>1 DEF Set
    <3> QED
      BY <1>2, <1>3, <2>1, <3>1 DEF Set
  <2>2. CASE Resize(w, b, n) \/ Append2(w, b, n)
    BY <1>2, <1>3, <2>2 DEF Resize, Append2, Reallocate
  <2> QED
    BY <1>5, <2>1, <2>2
<1> QED
  BY <1>1, <1>4, <1>5

\* Entering a call takes a free m_dataMtx and leaves the queue alone.
LEMMA EnterInv ==
  ASSUME IInv, NEW w \in Writers, NEW b \in Buffers, Enter(w, b),
         size' \in [Buffers -> Sizes], alloc' \in [Buffers -> Sizes \cup {None}]
  PROVE  IInv'
<1> USE BufferAssumption DEF IInv, mode, Enter, gl, link, tk
<1>1. TypeOK'
  <2>1. version' \in [Buffers -> 0 .. MaxWrites]
    BY DEF TypeOK
  <2>2. /\ dataMtx' \in [Buffers -> Writers \cup {Null}]
        /\ pc' \in [Writers -> {"idle", "queue", "push"}]
        /\ target' \in [Writers -> Buffers \cup {Null}]
    BY DEF TypeOK
  <2> QED
    BY <2>1, <2>2 DEF TypeOK
<1>2. HoldsData'
  BY DEF HoldsData, TypeOK
<1>3. StillUnqueued'
  BY DEF StillUnqueued, HoldsData, TypeOK
<1>4. TickHolds' /\ FlagMatchesQueue' /\ QueuedOnce'
  BY DEF TickHolds, FlagMatchesQueue, QueuedOnce
<1> QED
  BY <1>1, <1>2, <1>3, <1>4

\* The test of m_queued either ends the call or leaves the flag clear.
LEMMA TestQueuedInv ==
  ASSUME IInv, NEW w \in Writers, TestQueued(w)
  PROVE  IInv'
<1> USE BufferAssumption DEF IInv, mode, TestQueued, data, gl, link, tk
<1>1. TypeOK'
  BY DEF TypeOK
<1>2. HoldsData'
  BY DEF HoldsData, TypeOK
<1>3. StillUnqueued'
  <2> SUFFICES ASSUME NEW u \in Writers, pc'[u] = "push"
               PROVE  ~queued[target'[u]]
    BY DEF StillUnqueued
  <2>1. CASE u = w
    BY <2>1 DEF TypeOK
  <2>2. CASE u # w
    BY <2>2 DEF StillUnqueued, TypeOK
  <2> QED
    BY <2>1, <2>2
<1>4. TickHolds' /\ FlagMatchesQueue' /\ QueuedOnce'
  BY DEF TickHolds, FlagMatchesQueue, QueuedOnce
<1> QED
  BY <1>1, <1>2, <1>3, <1>4

\* A push happens between ticks, and the buffer is not in the queue yet.
LEMMA PushInv ==
  ASSUME IInv, NEW w \in Writers, Push(w)
  PROVE  IInv'
<1> USE BufferAssumption DEF IInv, mode, Push, data, gl, tk
<1> DEFINE b == target[w]
<1>1. b \in Buffers /\ dataMtx[b] = w /\ ~queued[b] /\ tpc = "idle" /\ at = 1
  BY DEF HoldsData, StillUnqueued, TickHolds
<1>2. \A i \in DOMAIN queue : queue[i] # b
  BY <1>1 DEF FlagMatchesQueue
<1>3. /\ queue \in Seq(Buffers)
      /\ queue' = Append(queue, b)
      /\ queue' \in Seq(Buffers)
      /\ Len(queue') = Len(queue) + 1
      /\ DOMAIN queue' = 1 .. Len(queue) + 1
      /\ DOMAIN queue = 1 .. Len(queue)
      /\ queue'[Len(queue) + 1] = b
      /\ \A i \in DOMAIN queue : queue'[i] = queue[i]
  BY <1>1 DEF TypeOK
<1>4. TypeOK'
  BY <1>1, <1>3 DEF TypeOK
<1>5. HoldsData'
  BY <1>1 DEF HoldsData, TypeOK
<1>6. StillUnqueued'
  BY <1>1 DEF StillUnqueued, HoldsData, TypeOK
<1>7. TickHolds'
  BY <1>1 DEF TickHolds
<1>8. FlagMatchesQueue'
  BY <1>1, <1>3 DEF FlagMatchesQueue, TypeOK
<1>9. QueuedOnce'
  BY <1>2, <1>3 DEF QueuedOnce
<1> QED
  BY <1>4, <1>5, <1>6, <1>7, <1>8, <1>9

\* The steps of the tick that do not clear a flag.
LEMMA TickInv ==
  ASSUME IInv, BeginTick \/ TestSize \/ Upload \/ EndTick
  PROVE  IInv'
<1> USE BufferAssumption, TickAssumption DEF IInv, mode, data, gl, link, wr
<1>1. CASE BeginTick
  <2> USE <1>1 DEF BeginTick
  <2>1. TypeOK' /\ TickHolds'
    BY DEF TypeOK, TickHolds, Tick
  <2>2. HoldsData' /\ StillUnqueued' /\ QueuedOnce'
    BY DEF HoldsData, StillUnqueued, QueuedOnce
  <2>3. FlagMatchesQueue'
    BY DEF FlagMatchesQueue, TickHolds, TypeOK
  <2> QED
    BY <2>1, <2>2, <2>3
<1>2. CASE TestSize
  <2> USE <1>2 DEF TestSize
  <2>1. TypeOK' /\ TickHolds'
    BY DEF TypeOK, TickHolds
  <2>2. HoldsData' /\ StillUnqueued' /\ QueuedOnce' /\ FlagMatchesQueue'
    BY DEF HoldsData, StillUnqueued, QueuedOnce, FlagMatchesQueue
  <2> QED
    BY <2>1, <2>2
<1>3. CASE Upload
  <2> USE <1>3 DEF Upload
  <2>1. queue[at] \in Buffers
    BY DEF TypeOK, TickHolds
  <2>2. sent' \in [Buffers -> 0 .. MaxWrites]
    <3>1. CASE size[queue[at]] # currSize[queue[at]]
      BY <2>1, <3>1 DEF TypeOK
    <3>2. CASE size[queue[at]] = currSize[queue[at]]
      BY <2>1, <3>2 DEF TypeOK
    <3> QED
      BY <3>1, <3>2
  <2>3. TypeOK'
    <3>1. /\ storage' \in [Buffers -> Sizes]
          /\ currSize' \in [Buffers -> Sizes]
      <4>1. size[queue[at]] \in Sizes /\ storage[queue[at]] \in Sizes
        BY <2>1 DEF TypeOK
      <4>2. CASE size[queue[at]] # currSize[queue[at]]
        BY <2>1, <4>1, <4>2 DEF TypeOK
      <4>3. CASE size[queue[at]] = currSize[queue[at]]
        BY <4>3 DEF TypeOK
      <4> QED
        BY <4>2, <4>3
    <3>2. mapped' \in [Buffers -> BOOLEAN] /\ crashed' \in BOOLEAN
      <4>1. Creates(queue[at]) \in BOOLEAN
        BY DEF Creates
      <4>2. CASE size[queue[at]] # currSize[queue[at]]
        <5>1. /\ mapped' = [mapped EXCEPT ![queue[at]] = Creates(queue[at])]
              /\ crashed' = FALSE
          BY <4>2
        <5>2. mapped \in [Buffers -> BOOLEAN]
          BY DEF TypeOK
        <5> HIDE <1>3 DEF Upload
        <5>3. mapped' \in [Buffers -> BOOLEAN]
          BY <4>1, <5>1, <5>2, Zenon
        <5> QED
          BY <5>1, <5>3
      <4>3. CASE size[queue[at]] = currSize[queue[at]]
        BY <4>3 DEF TypeOK
      <4> QED
        BY <4>2, <4>3
    <3> QED
      BY <2>2, <3>1, <3>2 DEF TypeOK
  <2>4. TickHolds' /\ HoldsData' /\ StillUnqueued' /\ QueuedOnce' /\ FlagMatchesQueue'
    BY DEF TickHolds, HoldsData, StillUnqueued, QueuedOnce, FlagMatchesQueue
  <2> QED
    BY <2>2, <2>3, <2>4
<1>4. CASE EndTick
  <2> USE <1>4 DEF EndTick
  <2>1. TypeOK' /\ TickHolds'
    BY DEF TypeOK, TickHolds
  <2>2. \A b \in Buffers : ~queued[b]
    BY DEF FlagMatchesQueue, TypeOK
  <2>3. HoldsData' /\ StillUnqueued' /\ QueuedOnce'
    BY DEF HoldsData, StillUnqueued, QueuedOnce
  <2>4. FlagMatchesQueue'
    BY <2>2 DEF FlagMatchesQueue
  <2> QED
    BY <2>1, <2>3, <2>4
<1> QED
  BY <1>1, <1>2, <1>3, <1>4

\* Clearing the flag and moving on keeps the flags and the rest of the queue
\* in agreement, because the queue names a buffer once.
LEMMA UnmarkInv ==
  ASSUME IInv, Unmark
  PROVE  IInv'
<1> USE BufferAssumption DEF IInv, mode, Unmark, data, gl, wr
<1>1. queue[at] \in Buffers /\ at \in DOMAIN queue /\ tpc # "idle"
  BY DEF TypeOK, TickHolds
<1>2. TypeOK' /\ TickHolds'
  BY <1>1 DEF TypeOK, TickHolds
<1>3. HoldsData' /\ QueuedOnce'
  BY DEF HoldsData, QueuedOnce
<1>4. StillUnqueued'
  BY <1>1 DEF StillUnqueued, HoldsData, TypeOK
<1>5. FlagMatchesQueue'
  BY <1>1 DEF FlagMatchesQueue, QueuedOnce, TypeOK
<1> QED
  BY <1>2, <1>3, <1>4, <1>5

\* Every step preserves the inductive invariant.
LEMMA NextInv == IInv /\ [Next]_vars => IInv'
<1> SUFFICES ASSUME IInv, [Next]_vars PROVE IInv'
  OBVIOUS
<1>1. ASSUME NEW w \in Writers, Start(w) PROVE IInv'
  BY <1>1, StartShape, EnterInv
<1>2. ASSUME NEW w \in Writers, Continue(w) PROVE IInv'
  BY <1>2, TestQueuedInv, PushInv DEF Continue
<1>3. CASE TickStep
  BY <1>3, TickInv, UnmarkInv DEF TickStep
<1>4. CASE Finished \/ UNCHANGED vars
  BY <1>4 DEF Finished, vars, mode, data, gl, link, wr, tk, IInv, TypeOK, HoldsData,
              StillUnqueued, TickHolds, FlagMatchesQueue, QueuedOnce
<1> QED
  BY <1>1, <1>2, <1>3, <1>4 DEF Next

\* The inductive invariant holds in every reachable state.
THEOREM Invariance == Spec => []IInv
<1>1. Init => IInv
  BY InitInv
<1>2. IInv /\ [Next]_vars => IInv'
  BY NextInv
<1> QED
  BY <1>1, <1>2, PTL DEF Spec

-----------------------------------------------------------------------------

\* The variables keep their types (every operation of API::Buffer and tick).
THEOREM TypeCorrect == Spec => []TypeOK
<1>1. IInv => TypeOK
  BY DEF IInv
<1> QED
  BY <1>1, Invariance, PTL

\* The tick never waits for a buffer whose writer waits for the tick, for any
\* number of buffers and threads (queueUpdate() and tick() nest their two
\* mutexes in opposite orders).
THEOREM LocksNeverCycle == Spec => []NoLockCycle
<1>1. IInv => NoLockCycle
  BY DEF IInv, NoLockCycle, TickHolds, HoldsData, StillUnqueued, FlagMatchesQueue,
         TypeOK
<1> QED
  BY <1>1, Invariance, PTL

\* No buffer is in the queue twice, and the flag of a buffer says whether the
\* tick still has it to do (queueUpdate(), tick()).
THEOREM QueueIsASet == Spec => []QueueMatchesFlags
<1>1. IInv => QueueMatchesFlags
  BY DEF IInv, QueueMatchesFlags, QueuedOnce, FlagMatchesQueue
<1> QED
  BY <1>1, Invariance, PTL

-----------------------------------------------------------------------------
(* Buffers of a fixed size: the storage and its mapping come in one upload.  *)

\* what update() remembers of b is what GL has of it, and of the size of b
MappedAsSized(b) ==
  /\ currSize[b] = 0 \/ currSize[b] = size[b]
  /\ storage[b] = currSize[b]
  /\ mapped[b] <=> currSize[b] > 0

FixedInv ==
  ~growth => /\ \A b \in Buffers : MappedAsSized(b)
             /\ crashed => \E b \in Buffers : alloc[b] = None

\* An upload of a buffer of a fixed size either makes its storage and maps it, or
\* finds it mapped.
LEMMA UploadFixed ==
  ASSUME IInv, FixedInv, Upload, ~growth
  PROVE  FixedInv'
<1> DEFINE c == queue[at]
<1>1. /\ c \in Buffers
      /\ size[c] \in Nat /\ currSize[c] \in Nat
      /\ MappedAsSized(c)
  BY DEF IInv, TypeOK, TickHolds, Upload, FixedInv, Sizes
<1>2. size \in [Buffers -> Sizes] /\ alloc' = alloc /\ size' = size
  BY DEF IInv, TypeOK, Upload, data
<1>3. CASE size[c] # currSize[c]
  <2>1. currSize[c] = 0 /\ storage[c] = 0 /\ size[c] > 0 /\ Creates(c)
    BY <1>1, <1>3 DEF MappedAsSized, Creates
  <2>2. /\ storage' = [storage EXCEPT ![c] = size[c]]
        /\ mapped' = [mapped EXCEPT ![c] = TRUE]
        /\ currSize' = [currSize EXCEPT ![c] = size[c]]
        /\ crashed' = FALSE
    BY <1>3, <2>1 DEF Upload
  <2>3. ASSUME NEW b \in Buffers PROVE MappedAsSized(b)'
    <3>1. CASE b = c
      BY <1>1, <1>2, <2>1, <2>2, <3>1 DEF MappedAsSized, IInv, TypeOK
    <3>2. CASE b # c
      BY <1>2, <2>2, <3>2 DEF MappedAsSized, IInv, TypeOK, FixedInv
    <3> QED
      BY <3>1, <3>2
  <2> QED
    BY <2>2, <2>3 DEF FixedInv
<1>4. CASE size[c] = currSize[c]
  <2>1. UNCHANGED <<storage, mapped, currSize>> /\ crashed' = (size[c] > 0 /\ ~Copies(c))
    BY <1>4 DEF Upload
  <2>2. \A b \in Buffers : MappedAsSized(b)'
    BY <1>2, <2>1 DEF MappedAsSized, FixedInv
  <2>3. crashed' => alloc'[c] = None
    BY <1>1, <1>2, <1>4, <2>1 DEF MappedAsSized, Copies
  <2> QED
    BY <1>1, <2>2, <2>3 DEF FixedInv
<1> QED
  BY <1>3, <1>4

\* Every step keeps the mappings of buffers of a fixed size.
LEMMA NextFixed ==
  ASSUME IInv, FixedInv, [Next]_vars
  PROVE  FixedInv'
<1>1. growth' = growth
  <2>1. ASSUME NEW w \in Writers, Start(w) PROVE growth' = growth
    BY <2>1, StartShape DEF Enter, mode
  <2>2. ASSUME NEW w \in Writers, Continue(w) PROVE growth' = growth
    BY <2>2 DEF Continue, TestQueued, Push, mode
  <2>3. TickStep => growth' = growth
    BY DEF TickStep, BeginTick, TestSize, Upload, Unmark, EndTick, mode
  <2>4. Finished \/ UNCHANGED vars => growth' = growth
    BY DEF Finished, vars, mode
  <2> QED
    BY <2>1, <2>2, <2>3, <2>4 DEF Next
<1> SUFFICES ASSUME ~growth PROVE FixedInv'
  BY <1>1 DEF FixedInv
<1>2. ASSUME NEW w \in Writers, Start(w) PROVE FixedInv'
  <2>1. PICK b \in Buffers : Write(w, b) \/ \E n \in Requests : Set(w, b, n)
    BY <1>2 DEF Start, Resize, Append2, Reallocate
  <2>2. /\ UNCHANGED gl /\ ~crashed
        /\ \A c \in Buffers : size'[c] = size[c] \/ size[c] = 0
    <3>1. size \in [Buffers -> Sizes]
      BY DEF IInv, TypeOK
    <3>2. CASE Write(w, b)
      BY <3>1, <3>2 DEF Write, Enter
    <3>3. ASSUME NEW n \in Requests, Set(w, b, n)
          PROVE  UNCHANGED gl /\ ~crashed /\ \A c \in Buffers : size'[c] = size[c] \/ size[c] = 0
      BY <3>1, <3>3 DEF Set, Enter, MaySize
    <3> QED
      BY <2>1, <3>2, <3>3
  <2>3. ASSUME NEW c \in Buffers PROVE MappedAsSized(c)'
    BY <2>2 DEF MappedAsSized, FixedInv, gl
  <2> QED
    BY <2>2, <2>3 DEF FixedInv, gl
<1>3. ASSUME NEW w \in Writers, Continue(w) PROVE UNCHANGED <<data, gl>>
  BY <1>3 DEF Continue, TestQueued, Push
<1>4. BeginTick \/ TestSize \/ Unmark \/ EndTick => UNCHANGED <<data, gl>>
  BY DEF BeginTick, TestSize, Unmark, EndTick
<1>5. Finished \/ UNCHANGED vars => UNCHANGED <<data, gl>>
  BY DEF Finished, vars
<1>6. UNCHANGED <<data, gl>> => FixedInv'
  BY DEF FixedInv, MappedAsSized, data, gl
<1> QED
  BY <1>2, <1>3, <1>4, <1>5, <1>6, UploadFixed DEF Next, TickStep

\* The mappings of buffers of a fixed size hold in every reachable state.
LEMMA AlwaysFixed == Spec => []FixedInv
<1>1. Init => FixedInv
  BY SizeAssumption DEF Init, FixedInv, MappedAsSized
<1>2. IInv /\ FixedInv /\ [Next]_vars => FixedInv'
  BY NextFixed
<1> QED
  BY <1>1, <1>2, Invariance, PTL DEF Spec

\* As long as sizes stay and every buffer was given data, no upload copies through
\* a null pointer, for any number of buffers and threads (update(), whose test of
\* m_size is outside m_dataMtx).
THEOREM FixedSizesKeepMappings == Spec => []MappingsLast
<1>1. FixedInv => MappingsLast
  BY DEF FixedInv, MappingsLast
<1> QED
  BY <1>1, AlwaysFixed, PTL

-----------------------------------------------------------------------------
(* Writers on the ticking thread: a write that has returned is queued or has *)
(* been uploaded.  The tick clears a flag some steps after it has uploaded,   *)
(* and with such writers nothing comes between the two.                       *)

\* a writer is inside a call for b
InCall(b) == \E w \in Writers : pc[w] # "idle" /\ target[w] = b

\* GL has the bytes of b, or b got another size and GL refused it
UpToDate(b) == size[b] = 0 \/ sent[b] = version[b] \/ (growth /\ ~mapped[b])

\* the calls and the tick take turns
TakeTurns == tpc = "idle" \/ \A w \in Writers : pc[w] = "idle"

\* every buffer is accounted for, and the flag the tick is about to clear is not
\* needed any more, unless the upload has crashed
Accounted ==
  /\ \A b \in Buffers : InCall(b) \/ queued[b] \/ UpToDate(b)
  /\ tpc = "unmark" => UpToDate(queue[at]) \/ crashed

SerialInv == serial => TakeTurns /\ Accounted

\* A call accounts for its buffer from its first step to its last.
LEMMA WriterAccounts ==
  ASSUME IInv, serial, TakeTurns, Accounted, NEW w \in Writers, Start(w) \/ Continue(w)
  PROVE  TakeTurns' /\ Accounted'
<1> USE BufferAssumption
<1>1. CASE Start(w)
  <2>1. PICK b \in Buffers : /\ Enter(w, b)
                             /\ \A c \in Buffers \ {b} : size'[c] = size[c]
    <3>1. PICK b \in Buffers :
            Write(w, b) \/ \E n \in Requests : Set(w, b, n) \/ Resize(w, b, n) \/ Append2(w, b, n)
      BY <1>1 DEF Start
    <3>2. size \in [Buffers -> Sizes]
      BY DEF IInv, TypeOK
    <3> QED
      BY <3>1, <3>2 DEF Write, Set, Resize, Append2, Reallocate
  <2>2. /\ tpc = "idle" /\ tpc' = tpc
        /\ pc' = [pc EXCEPT ![w] = "queue"] /\ target' = [target EXCEPT ![w] = b]
        /\ version' = [version EXCEPT ![b] = @ + 1]
        /\ UNCHANGED <<growth, mapped, sent, queued>>
        /\ pc[w] = "idle"
    BY <2>1 DEF Enter, mode, gl, link, tk
  <2>3. InCall(b)'
    BY <2>2 DEF InCall, IInv, TypeOK
  <2>4. ASSUME NEW c \in Buffers, c # b PROVE (InCall(c) \/ queued[c] \/ UpToDate(c))'
    <3>1. InCall(c) => InCall(c)'
      BY <2>2 DEF InCall, IInv, TypeOK
    <3>2. UpToDate(c) => UpToDate(c)'
      BY <2>1, <2>2, <2>4 DEF UpToDate, IInv, TypeOK
    <3> QED
      BY <2>2, <3>1, <3>2 DEF Accounted
  <2> QED
    BY <2>2, <2>3, <2>4 DEF TakeTurns, Accounted
<1>2. CASE Continue(w)
  <2>1. /\ UNCHANGED <<growth, mapped, size, version, sent, tpc>>
        /\ pc[w] # "idle" /\ target[w] \in Buffers
        /\ \A c \in Buffers : queued[c] => queued'[c]
        /\ \A u \in Writers \ {w} : pc'[u] = pc[u] /\ target'[u] = target[u]
        /\ \/ pc'[w] # "idle" /\ target'[w] = target[w]
           \/ queued'[target[w]]
    <3>1. /\ pc[w] # "idle" /\ target[w] \in Buffers
          /\ pc \in [Writers -> {"idle", "queue", "push"}]
          /\ target \in [Writers -> Buffers \cup {Null}]
          /\ queued \in [Buffers -> BOOLEAN]
      BY <1>2 DEF Continue, TestQueued, Push, IInv, HoldsData, TypeOK
    <3>2. CASE TestQueued(w)
      <4>1. UNCHANGED <<growth, mapped, size, version, sent, tpc, queued>>
        BY <3>2 DEF TestQueued, mode, data, gl, link, tk
      <4>2. CASE queued[target[w]]
        BY <3>1, <3>2, <4>1, <4>2 DEF TestQueued
      <4>3. CASE ~queued[target[w]]
        BY <3>1, <3>2, <4>1, <4>3 DEF TestQueued
      <4> QED
        BY <4>2, <4>3
    <3>3. CASE Push(w)
      BY <3>1, <3>3 DEF Push, mode, data, gl, tk
    <3> QED
      BY <1>2, <3>2, <3>3 DEF Continue
  <2>2. tpc = "idle" /\ tpc' = "idle"
    BY <2>1 DEF TakeTurns
  <2>3. ASSUME NEW c \in Buffers PROVE (InCall(c) \/ queued[c] \/ UpToDate(c))'
    <3>1. UpToDate(c) => UpToDate(c)'
      BY <2>1 DEF UpToDate
    <3>2. InCall(c) => InCall(c)' \/ queued'[c]
      BY <2>1 DEF InCall
    <3> QED
      BY <2>1, <3>1, <3>2 DEF Accounted
  <2> QED
    BY <2>2, <2>3 DEF TakeTurns, Accounted
<1> QED
  BY <1>1, <1>2

\* The tick clears the flag of a buffer it has just uploaded or found empty.
LEMMA TickAccounts ==
  ASSUME IInv, FixedInv, serial, TakeTurns, Accounted, TickStep
  PROVE  TakeTurns' /\ Accounted'
<1>1. /\ UNCHANGED <<growth, size, version, pc, target>>
      /\ \A w \in Writers : pc[w] = "idle"
  <2>1. UNCHANGED <<growth, size, version, pc, target>>
    BY DEF TickStep, BeginTick, TestSize, Upload, Unmark, EndTick, mode, data, wr
  <2>2. CASE BeginTick
    BY <2>1, <2>2 DEF BeginTick
  <2>3. CASE ~ BeginTick
    BY <2>1, <2>3 DEF TickStep, TestSize, Upload, Unmark, EndTick, TakeTurns
  <2> QED
    BY <2>1, <2>2, <2>3
<1>2. TakeTurns'
  BY <1>1 DEF TakeTurns
<1>3. \A b \in Buffers : ~InCall(b) /\ (queued[b] \/ UpToDate(b))
  BY <1>1 DEF InCall, Accounted
<1>4. tpc \in {"upload", "unmark"} => queue[at] \in Buffers
  BY DEF IInv, TypeOK, TickHolds
<1>5. CASE BeginTick \/ EndTick
  <2>1. UNCHANGED <<growth, mapped, size, version, sent, queued>> /\ tpc' # "unmark"
    BY <1>5 DEF BeginTick, EndTick, mode, data, gl
  <2> QED
    BY <1>2, <1>3, <2>1 DEF Accounted, UpToDate
<1>6. CASE TestSize
  <2>1. /\ UNCHANGED <<growth, mapped, size, version, sent, queued, queue, at>>
        /\ tpc' = "unmark" => size[queue[at]] = 0
    BY <1>6 DEF TestSize, mode, data, gl, link
  <2> QED
    BY <1>2, <1>3, <2>1 DEF Accounted, UpToDate
<1>7. CASE Upload
  <2> DEFINE c == queue[at]
  <2>1. /\ c \in Buffers /\ UNCHANGED <<queue, at, queued>>
        /\ size[c] \in Nat /\ currSize[c] \in Nat
    BY <1>4, <1>7 DEF Upload, link, IInv, TypeOK, Sizes
  <2>2. /\ \A b \in Buffers \ {c} : sent'[b] = sent[b] /\ mapped'[b] = mapped[b]
        /\ sent'[c] = sent[c] \/ sent'[c] = version[c]
    <3>1. CASE size[c] # currSize[c]
      BY <1>7, <2>1, <3>1 DEF Upload, IInv, TypeOK
    <3>2. CASE size[c] = currSize[c]
      BY <1>7, <2>1, <3>2 DEF Upload, IInv, TypeOK
    <3> QED
      BY <3>1, <3>2
  <2>3. UpToDate(c)' \/ crashed'
    <3>1. CASE size[c] # currSize[c] /\ Creates(c)
      <4>1. sent'[c] = version[c]
        BY <1>7, <2>1, <3>1 DEF Upload, IInv, TypeOK
      <4> QED
        BY <1>1, <2>1, <4>1 DEF UpToDate
    <3>2. CASE size[c] # currSize[c] /\ ~Creates(c)
      <4>1. mapped'[c] = FALSE
        BY <1>7, <2>1, <3>2 DEF Upload, IInv, TypeOK
      <4>2. growth \/ size[c] = 0
        BY <2>1, <3>2 DEF FixedInv, MappedAsSized, Creates
      <4> QED
        BY <1>1, <2>1, <4>1, <4>2 DEF UpToDate
    <3>3. CASE size[c] = currSize[c]
      <4>1. CASE Copies(c)
        <5>1. sent'[c] = version[c]
          BY <1>7, <2>1, <3>3, <4>1 DEF Upload, IInv, TypeOK
        <5> QED
          BY <1>1, <2>1, <5>1 DEF UpToDate
      <4>2. CASE ~Copies(c)
        <5>1. crashed' = (size[c] > 0 /\ ~Copies(c))
          BY <1>7, <3>3 DEF Upload
        <5>2. CASE size[c] = 0
          BY <1>1, <2>1, <5>2 DEF UpToDate
        <5>3. CASE size[c] > 0
          BY <4>2, <5>1, <5>3
        <5> QED
          BY <2>1, <5>2, <5>3
      <4> QED
        BY <4>1, <4>2
    <3> QED
      BY <3>1, <3>2, <3>3
  <2>4. queued[c]
    BY <1>7, <2>1 DEF Upload, IInv, FlagMatchesQueue, TickHolds, TypeOK
  <2>5. ASSUME NEW b \in Buffers PROVE (queued[b] \/ UpToDate(b))'
    BY <1>1, <1>3, <2>1, <2>2, <2>4 DEF UpToDate
  <2> QED
    BY <1>2, <2>1, <2>3, <2>5 DEF Accounted
<1>8. CASE Unmark
  <2>1. /\ queue[at] \in Buffers /\ UpToDate(queue[at])
        /\ queued' = [queued EXCEPT ![queue[at]] = FALSE]
        /\ tpc' = "next" /\ UNCHANGED <<sent, mapped>>
    BY <1>4, <1>8 DEF Unmark, Accounted, gl
  <2>2. \A b \in Buffers : b # queue[at] => queued'[b] = queued[b]
    BY <2>1 DEF IInv, TypeOK
  <2> QED
    BY <1>1, <1>2, <1>3, <2>1, <2>2 DEF Accounted, UpToDate
<1> QED
  BY <1>5, <1>6, <1>7, <1>8 DEF TickStep

\* With the writers on the ticking thread nothing that was written is left behind
\* between two calls, for any number of buffers and writers: it is queued, it is in
\* GL, or its buffer got another size and GL refused the new storage, which has
\* taken the mapping away (queueUpdate(), update(), tick()).
THEOREM NothingLeftBehind == Spec => []SerialIsCurrent
<1>1. Init => SerialInv
  BY DEF Init, SerialInv, TakeTurns, Accounted, InCall, UpToDate
<1>2. IInv /\ FixedInv /\ SerialInv /\ [Next]_vars => SerialInv'
  <2> SUFFICES ASSUME IInv, FixedInv, SerialInv, [Next]_vars, serial' PROVE TakeTurns' /\ Accounted'
    BY DEF SerialInv
  <2>1. serial /\ TakeTurns /\ Accounted
    <3>1. ASSUME NEW w \in Writers, Start(w) PROVE serial' = serial
      BY <3>1, StartShape DEF Enter, mode
    <3>2. ASSUME NEW w \in Writers, Continue(w) PROVE serial' = serial
      BY <3>2 DEF Continue, TestQueued, Push, mode
    <3>3. TickStep => serial' = serial
      BY DEF TickStep, BeginTick, TestSize, Upload, Unmark, EndTick, mode
    <3>4. Finished \/ UNCHANGED vars => serial' = serial
      BY DEF Finished, vars, mode
    <3>5. serial' = serial
      BY <3>1, <3>2, <3>3, <3>4 DEF Next
    <3> QED
      BY <3>5 DEF SerialInv
  <2>2. CASE \E w \in Writers : Start(w) \/ Continue(w)
    BY <2>1, <2>2, WriterAccounts
  <2>3. CASE TickStep
    BY <2>1, <2>3, TickAccounts
  <2>4. CASE Finished \/ UNCHANGED vars
    BY <2>1, <2>4 DEF Finished, vars, mode, data, gl, link, wr, tk, TakeTurns, Accounted, InCall, UpToDate
  <2> QED
    BY <2>2, <2>3, <2>4 DEF Next
<1>3. SerialInv => SerialIsCurrent
  BY DEF SerialInv, SerialIsCurrent, Accounted, InCall, UpToDate
<1> QED
  BY <1>1, <1>2, <1>3, Invariance, AlwaysFixed, PTL DEF Spec

-----------------------------------------------------------------------------
(* The two mutexes: whoever is waited for goes on.                           *)

\* a locked m_dataMtx is held by a writer that is inside a call for its buffer
HeldByCaller ==
  \A b \in Buffers : \A w \in Writers :
    dataMtx[b] = w => pc[w] # "idle" /\ target[w] = b

\* the writer has the mutex it needs next
WriterMoves(w) == pc[w] = "queue" \/ (pc[w] = "push" /\ mutex = Null)

\* so has the tick
TickMoves == tpc \in {"next", "unmark"} \/ (tpc = "upload" /\ dataMtx[queue[at]] = Null)

\* The tick can go on, or the writer it waits for can; and a writer that waits for
\* m_mutex waits for a tick that is going on.
WaitedForMoves ==
  /\ tpc # "idle" => TickMoves \/ WriterMoves(dataMtx[queue[at]])
  /\ \A w \in Writers : pc[w] # "idle" => WriterMoves(w) \/ tpc # "idle"

\* No chain of threads of which each waits for the next comes back to its start or
\* ends in one that has left its lock behind, for any number of buffers and writers
\* (the lock_guards of queueUpdate(), update() and tick()).
THEOREM NobodyWaitsForever == Spec => []WaitedForMoves
<1> USE BufferAssumption
<1>1. Init => HeldByCaller
  BY DEF Init, HeldByCaller
<1>2. IInv /\ HeldByCaller /\ [Next]_vars => HeldByCaller'
  <2> SUFFICES ASSUME IInv, HeldByCaller, [Next]_vars PROVE HeldByCaller'
    OBVIOUS
  <2>1. /\ dataMtx \in [Buffers -> Writers \cup {Null}]
        /\ target \in [Writers -> Buffers \cup {Null}]
        /\ pc \in [Writers -> {"idle", "queue", "push"}]
    BY DEF IInv, TypeOK
  <2>2. ASSUME NEW w \in Writers, Start(w) PROVE HeldByCaller'
    <3>1. PICK b \in Buffers : Enter(w, b)
      BY <2>2, StartShape
    <3> QED
      BY <2>1, <3>1 DEF Enter, HeldByCaller
  <2>3. ASSUME NEW w \in Writers, Continue(w) PROVE HeldByCaller'
    <3>1. /\ target[w] \in Buffers
          /\ \/ /\ pc' = [pc EXCEPT ![w] = "idle"] /\ target' = [target EXCEPT ![w] = Null]
                /\ dataMtx' = [dataMtx EXCEPT ![target[w]] = Null]
             \/ pc' = [pc EXCEPT ![w] = "push"] /\ UNCHANGED <<target, dataMtx>>
      BY <2>3 DEF Continue, TestQueued, Push, IInv, HoldsData
    <3> QED
      BY <2>1, <3>1 DEF HeldByCaller
  <2>4. TickStep \/ Finished \/ UNCHANGED vars => UNCHANGED <<pc, target, dataMtx>>
    BY DEF TickStep, BeginTick, TestSize, Upload, Unmark, EndTick, Finished, vars, wr
  <2> QED
    BY <2>2, <2>3, <2>4 DEF Next, HeldByCaller
<1>3. IInv /\ HeldByCaller => WaitedForMoves
  <2> SUFFICES ASSUME IInv, HeldByCaller PROVE WaitedForMoves
    OBVIOUS
  <2>1. ASSUME tpc = "upload", dataMtx[queue[at]] # Null PROVE WriterMoves(dataMtx[queue[at]])
    <3>1. queue[at] \in Buffers /\ at \in DOMAIN queue
      BY <2>1 DEF IInv, TypeOK, TickHolds
    <3>2. PICK u \in Writers : dataMtx[queue[at]] = u
      BY <2>1, <3>1 DEF IInv, TypeOK
    <3>3. pc[u] # "idle" /\ target[u] = queue[at]
      BY <3>1, <3>2 DEF HeldByCaller
    <3>4. queued[queue[at]]
      BY <2>1, <3>1 DEF IInv, FlagMatchesQueue, TypeOK
    <3>5. pc[u] \in {"queue", "push"} /\ pc[u] # "push"
      BY <3>3, <3>4 DEF IInv, TypeOK, StillUnqueued
    <3> QED
      BY <3>2, <3>5 DEF WriterMoves
  <2>2. tpc # "idle" => TickMoves \/ WriterMoves(dataMtx[queue[at]])
    BY <2>1 DEF IInv, TypeOK, TickMoves
  <2>3. \A w \in Writers : pc[w] # "idle" => WriterMoves(w) \/ tpc # "idle"
    BY DEF IInv, TypeOK, TickHolds, WriterMoves
  <2> QED
    BY <2>2, <2>3 DEF WaitedForMoves
<1> QED
  BY <1>1, <1>2, <1>3, Invariance, PTL DEF Spec

=============================================================================
