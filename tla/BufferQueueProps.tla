-------------------------- MODULE BufferQueueProps --------------------------
(***************************************************************************)
(* What the upload queue of API::Buffer promises.                          *)
(***************************************************************************)
EXTENDS BufferQueue, FiniteSets

\* The types of the variables; the tick never leaves the queue it walks.
TypeOK ==
  /\ serial \in BOOLEAN
  /\ growth \in BOOLEAN
  /\ size \in [Buffers -> Sizes]
  /\ alloc \in [Buffers -> Sizes \cup {None}]
  /\ version \in [Buffers -> 0 .. MaxWrites]
  /\ queued \in [Buffers -> BOOLEAN]
  /\ dataMtx \in [Buffers -> Writers \cup {Null}]
  /\ queue \in Seq(Buffers)
  /\ mutex \in {Tick, Null}
  /\ currSize \in [Buffers -> Sizes]
  /\ mapped \in [Buffers -> BOOLEAN]
  /\ storage \in [Buffers -> Sizes]
  /\ sent \in [Buffers -> 0 .. MaxWrites]
  /\ crashed \in BOOLEAN
  /\ pc \in [Writers -> {"idle", "queue", "push"}]
  /\ target \in [Writers -> Buffers \cup {Null}]
  /\ tpc \in {"idle", "next", "upload", "unmark"}
  /\ at \in 1 .. Len(queue) + 1

\* queueUpdate() takes m_mutex inside m_dataMtx and the tick takes m_dataMtx
\* inside m_mutex: the tick never waits for a buffer whose writer waits for the
\* tick.
NoLockCycle ==
  ~ \E w \in Writers : /\ tpc = "upload"
                       /\ pc[w] = "push"
                       /\ target[w] = queue[at]

\* The queue and the flags tell the same story: no buffer is in the queue
\* twice, and a flag is set exactly for the buffers the tick has still to do.
QueueMatchesFlags ==
  /\ \A i, j \in DOMAIN queue : queue[i] = queue[j] => i = j
  /\ \A b \in Buffers :
       queued[b] <=> \E i \in DOMAIN queue :
                       queue[i] = b /\ (tpc # "idle" => i >= at)

\* "store a mutex to make the buffer thread safe": between calls, a buffer that
\* has kept its size and is not queued has nothing left to upload.
UnqueuedIsCurrent ==
  (~growth /\ tpc = "idle" /\ \A w \in Writers : pc[w] = "idle") =>
    \A b \in Buffers : queued[b] \/ size[b] = 0 \/ sent[b] = version[b]

\* With the writers on the ticking thread that holds: between calls, a buffer that
\* has a size and is not queued has nothing left to upload (queueUpdate(), tick()).
\* The exception is a buffer that got another size after it had storage.  update()
\* says "if the size is not correct, resize" (OGL_Buffer.cpp:102), but GL refuses
\* that: the buffer keeps its old bytes, and its mapping is gone.
SerialIsCurrent ==
  (serial /\ tpc = "idle" /\ \A w \in Writers : pc[w] = "idle") =>
    \A b \in Buffers : \/ queued[b]
                       \/ size[b] = 0
                       \/ sent[b] = version[b]
                       \/ growth /\ ~mapped[b]

\* As long as sizes stay and every buffer was given data, no upload copies through
\* a null pointer, on whatever threads the writers are: a buffer gets its storage
\* and its mapping in one upload and keeps both (update(), which reads m_size
\* before it takes m_dataMtx).
MappingsLast ==
  crashed /\ ~growth => \E b \in Buffers : alloc[b] = None

\* With the writers on the ticking thread and buffers of fixed size, what was
\* written reaches the GPU, unless a buffer that was given a size without data
\* crashes the tick.
WritesReachTheGPU ==
  \A b \in Buffers : \A v \in 1 .. MaxWrites :
    (serial /\ ~growth /\ version[b] = v /\ size[b] > 0)
      ~> (sent[b] >= v \/ size[b] = 0 \/ crashed)

\* A writer gets both locks and returns, and a tick ends, unless it crashes.
CallsReturn ==
  /\ \A w \in Writers : (pc[w] # "idle") ~> (pc[w] = "idle" \/ crashed)
  /\ (tpc # "idle") ~> (tpc = "idle" \/ crashed)
=============================================================================
