----------------------------- MODULE BufferQueue ----------------------------
(***************************************************************************)
(* The upload queue of API::Buffer (API_Buffer.cpp, OGL_Buffer.cpp and the *)
(* last block of API::Instance::tick).  A writer changes the CPU copy of a *)
(* buffer under the buffer's m_dataMtx and puts the buffer into the static *)
(* m_queue, guarded by m_mutex, unless m_queued says that it is there      *)
(* already; the tick, holding m_mutex, uploads every queued buffer under   *)
(* its m_dataMtx and clears the flag.                                      *)
(*                                                                         *)
(* What a buffer is to be is a version number, the number of calls.        *)
(* External: GL storage is immutable once it exists, and a buffer that is  *)
(* mapped cannot be mapped again.                                          *)
(***************************************************************************)
EXTENDS Integers, Sequences

CONSTANTS
  Buffers,    \* the buffers
  Loaded,     \* the buffers that have data, and storage for it, from the start
  LoadedSize, \* their size
  Requests,   \* the sizes that are asked for
  Writers,    \* threads that write buffers
  Null,       \* no thread, no buffer
  MaxSize,    \* bound: sizes are 0 .. MaxSize
  MaxWrites   \* bound: calls that change one buffer

ASSUME BufferAssumption ==
  /\ MaxSize \in Nat
  /\ MaxWrites \in Nat
  /\ Null \notin Buffers \cup Writers
  /\ Buffers \cap Writers = {}

ASSUME SizeAssumption ==
  /\ Loaded \subseteq Buffers
  /\ LoadedSize \in 0 .. MaxSize
  /\ Requests \subseteq 0 .. MaxSize

Tick == "tick"
ASSUME TickAssumption == Tick \notin Writers \cup {Null}

Sizes == 0 .. MaxSize
None  == -1     \* a null m_data

VARIABLES
  serial,    \* the clients write on the thread that ticks
  growth,    \* the clients change the size of buffers that have one
  size,      \* m_size
  alloc,     \* the bytes m_data points to, None for a null pointer
  version,   \* the calls that changed the bytes or the size
  queued,    \* m_queued
  dataMtx,   \* the thread that holds m_dataMtx
  queue,     \* m_queue
  mutex,     \* the thread that holds m_mutex
  currSize,  \* OGL: m_currSize
  mapped,    \* OGL: m_mappedPtr is not null
  storage,   \* GL: the immutable storage of m_buff, 0 for none
  sent,      \* GL: the version that storage has
  crashed,   \* a memcpy through or from a null pointer
  pc,        \* program counters of the writers
  target,    \* the buffer a writer works on
  tpc,       \* program counter of the tick
  at         \* the tick's position in the queue

mode == <<serial, growth>>
data == <<size, alloc, version>>
gl   == <<currSize, mapped, storage, sent, crashed>>
link == <<queued, queue, mutex>>
wr   == <<pc, target>>
tk   == <<tpc, at>>
vars == <<mode, data, gl, link, dataMtx, wr, tk>>

\* a buffer is new, or it was constructed with data that has been uploaded
Init ==
  /\ serial \in BOOLEAN
  /\ growth \in BOOLEAN
  /\ size = [b \in Buffers |-> IF b \in Loaded THEN LoadedSize ELSE 0]
  /\ alloc = [b \in Buffers |-> IF b \in Loaded THEN LoadedSize ELSE None]
  /\ version = [b \in Buffers |-> 0]
  /\ queued = [b \in Buffers |-> FALSE]
  /\ dataMtx = [b \in Buffers |-> Null]
  /\ queue = <<>>
  /\ mutex = Null
  /\ currSize = size
  /\ mapped = [b \in Buffers |-> size[b] > 0]
  /\ storage = size
  /\ sent = [b \in Buffers |-> 0]
  /\ crashed = FALSE
  /\ pc = [w \in Writers |-> "idle"]
  /\ target = [w \in Writers |-> Null]
  /\ tpc = "idle"
  /\ at = 1

-----------------------------------------------------------------------------
(* Writers *)

\* enter a member function of b: take m_dataMtx
Enter(w, b) ==
  /\ pc[w] = "idle"
  /\ ~crashed
  /\ serial => tpc = "idle" /\ \A u \in Writers : pc[u] = "idle"
  /\ dataMtx[b] = Null
  /\ version[b] < MaxWrites
  /\ dataMtx' = [dataMtx EXCEPT ![b] = w]
  /\ target' = [target EXCEPT ![w] = b]
  /\ pc' = [pc EXCEPT ![w] = "queue"]
  /\ version' = [version EXCEPT ![b] = @ + 1]
  /\ UNCHANGED <<mode, gl, link, tk>>

\* the clients do not give a buffer another size, or they do
MaySize(b, n) == growth \/ size[b] = 0 \/ n = size[b]

\* set(): the size is stored; with data, a block is allocated where there is none
Set(w, b, n) ==
  /\ Enter(w, b)
  /\ MaySize(b, n)
  /\ size' = [size EXCEPT ![b] = n]
  /\ \/ n > 0 /\ alloc' = IF alloc[b] = None THEN [alloc EXCEPT ![b] = n] ELSE alloc
     \/ UNCHANGED alloc

\* write(): out of bounds, or without data, it returns before it queues
Write(w, b) ==
  /\ Enter(w, b)
  /\ alloc[b] # None
  /\ UNCHANGED <<size, alloc>>

\* resize() and append(): a new block of the new size
Reallocate(w, b, n) ==
  /\ Enter(w, b)
  /\ growth
  /\ size' = [size EXCEPT ![b] = n]
  /\ alloc' = [alloc EXCEPT ![b] = n]

Resize(w, b, n) == Reallocate(w, b, n)
Append2(w, b, n) == size[b] + n \in Sizes /\ Reallocate(w, b, size[b] + n)

\* mutant: m_queued is not looked at
TestNothing(w) ==
  /\ pc[w] = "queue"
  /\ ~crashed
  /\ pc' = [pc EXCEPT ![w] = "push"]
  /\ UNCHANGED <<mode, data, gl, link, tk, target, dataMtx>>

\* queueUpdate(): the load of m_queued; the guard of m_dataMtx ends with the call
TestQueued(w) ==
  /\ pc[w] = "queue"
  /\ ~crashed
  /\ IF queued[target[w]]
     THEN /\ pc' = [pc EXCEPT ![w] = "idle"]
          /\ target' = [target EXCEPT ![w] = Null]
          /\ dataMtx' = [dataMtx EXCEPT ![target[w]] = Null]
     ELSE /\ pc' = [pc EXCEPT ![w] = "push"]
          /\ UNCHANGED <<target, dataMtx>>
  /\ UNCHANGED <<mode, data, gl, link, tk>>

\* mutant: m_queued stays clear
PushUnmarked(w) ==
  /\ pc[w] = "push"
  /\ ~crashed
  /\ mutex = Null
  /\ queue' = Append(queue, target[w])
  /\ pc' = [pc EXCEPT ![w] = "idle"]
  /\ target' = [target EXCEPT ![w] = Null]
  /\ dataMtx' = [dataMtx EXCEPT ![target[w]] = Null]
  /\ UNCHANGED <<mode, data, gl, queued, mutex, tk>>

\* queueUpdate(): under m_mutex, push the buffer and set m_queued
Push(w) ==
  /\ pc[w] = "push"
  /\ ~crashed
  /\ mutex = Null
  /\ queue' = Append(queue, target[w])
  /\ queued' = [queued EXCEPT ![target[w]] = TRUE]
  /\ pc' = [pc EXCEPT ![w] = "idle"]
  /\ target' = [target EXCEPT ![w] = Null]
  /\ dataMtx' = [dataMtx EXCEPT ![target[w]] = Null]
  /\ UNCHANGED <<mode, data, gl, mutex, tk>>

-----------------------------------------------------------------------------
(* Instance::tick *)

BeginTick ==
  /\ tpc = "idle"
  /\ ~crashed
  /\ serial => \A w \in Writers : pc[w] = "idle"
  /\ mutex = Null
  /\ mutex' = Tick
  /\ tpc' = "next"
  /\ at' = 1
  /\ UNCHANGED <<mode, data, gl, queued, queue, dataMtx, wr>>

\* update() returns at once for an empty buffer: m_size is read without a lock
TestSize ==
  /\ tpc = "next"
  /\ ~crashed
  /\ at <= Len(queue)
  /\ tpc' = IF size[queue[at]] = 0 THEN "unmark" ELSE "upload"
  /\ UNCHANGED <<mode, data, gl, link, dataMtx, wr, at>>

\* GL makes the storage, with what m_data points to
Creates(b) == storage[b] = 0 /\ size[b] > 0

\* memcpy has both its pointers
Copies(b) == mapped[b] /\ alloc[b] # None

\* mutant: the buffer is mapped before it has storage
UploadUnmapped ==
  LET b == queue[at] IN
  /\ tpc = "upload"
  /\ ~crashed
  /\ dataMtx[b] = Null
  /\ IF size[b] # currSize[b]
     THEN /\ storage' = [storage EXCEPT ![b] = IF @ = 0 THEN size[b] ELSE @]
          /\ sent' = [sent EXCEPT ![b] = IF Creates(b) THEN version[b] ELSE @]
          /\ mapped' = [mapped EXCEPT ![b] = ~mapped[b] /\ storage[b] > 0]
          /\ currSize' = [currSize EXCEPT ![b] = size[b]]
          /\ crashed' = FALSE
     ELSE /\ crashed' = (size[b] > 0 /\ ~Copies(b))
          /\ sent' = [sent EXCEPT ![b] = IF Copies(b) THEN version[b] ELSE @]
          /\ UNCHANGED <<storage, mapped, currSize>>
  /\ tpc' = "unmark"
  /\ UNCHANGED <<mode, data, link, dataMtx, wr, at>>

\* update(), under m_dataMtx.  A size that is not the one of the last update()
\* asks GL for new storage and for its mapping.  GL refuses both for a buffer
\* that has storage: the bytes stay as they are and the mapping is null, which
\* the next memcpy writes through.
Upload ==
  LET b == queue[at] IN
  /\ tpc = "upload"
  /\ ~crashed
  /\ dataMtx[b] = Null
  /\ IF size[b] # currSize[b]
     THEN /\ storage' = [storage EXCEPT ![b] = IF @ = 0 THEN size[b] ELSE @]
          /\ sent' = [sent EXCEPT ![b] = IF Creates(b) THEN version[b] ELSE @]
          /\ mapped' = [mapped EXCEPT ![b] = Creates(b)]
          /\ currSize' = [currSize EXCEPT ![b] = size[b]]
          /\ crashed' = FALSE
     ELSE /\ crashed' = (size[b] > 0 /\ ~Copies(b))
          /\ sent' = [sent EXCEPT ![b] = IF Copies(b) THEN version[b] ELSE @]
          /\ UNCHANGED <<storage, mapped, currSize>>
  /\ tpc' = "unmark"
  /\ UNCHANGED <<mode, data, link, dataMtx, wr, at>>

\* mutant: m_queued stays set
UnmarkNothing ==
  /\ tpc = "unmark"
  /\ ~crashed
  /\ at' = at + 1
  /\ tpc' = "next"
  /\ UNCHANGED <<mode, data, gl, link, dataMtx, wr>>

Unmark ==
  /\ tpc = "unmark"
  /\ ~crashed
  /\ queued' = [queued EXCEPT ![queue[at]] = FALSE]
  /\ at' = at + 1
  /\ tpc' = "next"
  /\ UNCHANGED <<mode, data, gl, queue, mutex, dataMtx, wr>>

\* mutant: the tick keeps m_mutex
EndTickLocked ==
  /\ tpc = "next"
  /\ ~crashed
  /\ at > Len(queue)
  /\ queue' = <<>>
  /\ tpc' = "idle"
  /\ at' = 1
  /\ UNCHANGED <<mode, data, gl, queued, mutex, dataMtx, wr>>

EndTick ==
  /\ tpc = "next"
  /\ ~crashed
  /\ at > Len(queue)
  /\ queue' = <<>>
  /\ mutex' = Null
  /\ tpc' = "idle"
  /\ at' = 1
  /\ UNCHANGED <<mode, data, gl, queued, dataMtx, wr>>

-----------------------------------------------------------------------------

Finished == crashed /\ UNCHANGED vars

Start(w) ==
  \E b \in Buffers :
    \/ Write(w, b)
    \/ \E n \in Requests : Set(w, b, n) \/ Resize(w, b, n) \/ Append2(w, b, n)

Continue(w) == TestQueued(w) \/ Push(w)

TickStep == BeginTick \/ TestSize \/ Upload \/ Unmark \/ EndTick

Next ==
  \/ \E w \in Writers : Start(w) \/ Continue(w)
  \/ TickStep
  \/ Finished

Spec == Init /\ [][Next]_vars

\* the application ticks for ever, and a mutex that is released again and again
\* is granted at last to a thread that waits for it
FairSpec ==
  /\ Spec
  /\ SF_vars(TickStep)
  /\ \A w \in Writers : SF_vars(Continue(w))
=============================================================================
