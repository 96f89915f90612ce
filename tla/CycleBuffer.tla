---------------------------- MODULE CycleBuffer -----------------------------
(***************************************************************************)
(* A cycle buffer (API_CycleBuffer.cpp, OGL_CycleBuffer.cpp): one CPU copy *)
(* and some GPU buffers.  Every tick hands the next GPU buffer to a frame  *)
(* that is about to be drawn, puts a fence behind what was submitted so    *)
(* far, and brings the other buffers up to date unless their fence has not *)
(* been reached.  The GPU executes the submitted commands in order.        *)
(*                                                                         *)
(* The contents of a buffer are a version number.  tick, set, write and    *)
(* resize hold m_mtx throughout, so each is one step.                      *)
(***************************************************************************)
EXTENDS Integers, Sequences, FiniteSets, SequencesExt

CONSTANTS
  MaxBuffers,  \* GLGE_BUFFER_MAX_RING_BUFFER_COUNT
  FirstSize,   \* the size the buffer is constructed with
  MaxSize,     \* bound: sizes
  MaxVersion,  \* bound: writes
  MaxLag       \* bound: frames the GPU may lag behind when a tick starts

ASSUME CycleAssumption ==
  /\ MaxBuffers \in Nat \ {0}
  /\ FirstSize \in Nat
  /\ MaxSize \in Nat
  /\ MaxVersion \in Nat
  /\ MaxLag \in Nat

Sizes == 0 .. MaxSize

VARIABLES
  used,       \* cm_usedBuffers
  lag,        \* the most frames the GPU lags behind when a tick starts
  resizes,    \* the clients change the size
  serial,     \* the clients write on the main thread, between the frames
  size,       \* m_size
  version,    \* m_version, also the version of the bytes in m_data
  locked,     \* m_mtx is held by a thread that waits for it
  gpuBuff,    \* m_gpuBuff
  seen,       \* m_version of each backend
  bsize,      \* m_size of each backend
  fence,      \* m_sync of each backend is not null
  mapped,     \* m_mapped is not null
  update,     \* m_updateQueue, in which only the constructor puts a backend
  storage,    \* GL: the immutable storage of each m_buff, 0 for none
  content,    \* GL: the version of the bytes in each storage
  pending,    \* GL: submitted commands that the GPU has not executed
  crashed,    \* a memcpy through a null pointer
  step,       \* what the main thread does next: tick, update, draw
  shown       \* history: the version of the newest frame the GPU drew

mode  == <<used, lag, resizes, serial>>
cpu   == <<size, version, locked>>
back  == <<seen, bsize, fence, mapped>>
gl    == <<storage, content>>
vars  == <<mode, cpu, gpuBuff, back, update, gl, pending, crashed, step, shown>>

Backends == 0 .. used - 1

Init ==
  /\ used \in 1 .. MaxBuffers
  /\ lag \in 0 .. MaxLag
  /\ resizes \in BOOLEAN
  /\ serial \in BOOLEAN
  /\ size = FirstSize
  /\ version = 0
  /\ locked = FALSE
  /\ gpuBuff = 0
  /\ seen = [i \in Backends |-> 0]
  /\ bsize = [i \in Backends |-> 0]
  /\ fence = [i \in Backends |-> FALSE]
  /\ mapped = [i \in Backends |-> FALSE]
  /\ update = Backends
  /\ storage = [i \in Backends |-> 0]
  /\ content = [i \in Backends |-> 0]
  /\ pending = <<>>
  /\ crashed = FALSE
  /\ step = "tick"
  /\ shown = 0

DrawCmd(i)  == [op |-> "draw", arg |-> i]
FenceCmd(i) == [op |-> "fence", arg |-> i]
Deleted     == [op |-> "deleted fence"]

Running == ~crashed /\ ~locked
Called  == Running /\ (serial => step = "tick")

-----------------------------------------------------------------------------
(* The client *)

\* write(), and set() with the size the buffer has
Write ==
  /\ Called
  /\ version < MaxVersion
  /\ version' = version + 1
  /\ UNCHANGED <<mode, size, locked, gpuBuff, back, update, gl, pending, crashed,
                 step, shown>>

\* resize() leaves the version alone
Resize(n) ==
  /\ Called
  /\ resizes
  /\ size' = n
  /\ UNCHANGED <<mode, version, locked, gpuBuff, back, update, gl, pending, crashed,
                 step, shown>>

\* set() with another size calls resize(), which locks the mutex set() holds
SetOtherSize(n) ==
  /\ Called
  /\ resizes
  /\ n # size
  /\ locked' = TRUE
  /\ UNCHANGED <<mode, size, version, gpuBuff, back, update, gl, pending, crashed,
                 step, shown>>

-----------------------------------------------------------------------------
(* The tick.  A backend syncs in one of three ways: its fence is pending, or *)
(* it is up to date, or it copies or reallocates.                            *)

Signaled(i) == ~Contains(pending, FenceCmd(i))

\* mutant: a backend that had a fence is never polled again
PollsUnfenced(i) == ~fence[i]

\* syncCPU(false) of backend i comes back at once while its fence is pending
Polls(i) == fence[i] => Signaled(i)

\* mutant: the sizes are compared instead of the versions
StaleBySize(i) == bsize[i] # size

Stale(i)        == seen[i] # version

\* mutant: the size is not compared
CopiesUnsized(i) == Stale(i)

Copies(i)       == Stale(i) /\ bsize[i] = size
Reallocates(i)  == Stale(i) /\ bsize[i] # size

\* update(): GL storage is immutable once it exists and is mapped once
Reallocated(S) ==
  /\ bsize' = [i \in Backends |-> IF i \in S THEN size ELSE bsize[i]]
  /\ storage' = [i \in Backends |->
                   IF i \in S /\ storage[i] = 0 THEN size ELSE storage[i]]
  /\ mapped' = [i \in Backends |->
                  IF i \in S THEN storage[i] = 0 /\ size > 0 ELSE mapped[i]]

\* the backends in S sync; those whose storage GL refuses keep their bytes and
\* store the version all the same
Sync(S) ==
  LET copying == {i \in S : Copies(i)}
      growing == {i \in S : Reallocates(i)}
  IN  /\ Reallocated(growing)
      /\ seen' = [i \in Backends |-> IF i \in S THEN version ELSE seen[i]]
      /\ content' = [i \in Backends |->
                       IF i \in copying \/ (i \in growing /\ storage[i] = 0)
                       THEN version ELSE content[i]]
      /\ crashed' = (\E i \in copying : ~mapped[i] /\ size > 0)

PendingDraws == Cardinality({n \in DOMAIN pending : pending[n].op = "draw"})

\* markInUse() deletes the fence the backend has, so that nobody polls that
\* command any more, and submits a new one
Fenced(k) ==
  LET polled == [n \in DOMAIN pending |->
                   IF pending[n] = FenceCmd(k) THEN Deleted ELSE pending[n]]
  IN  Append(polled, FenceCmd(k))

TickSingle ==
  /\ used = 1
  /\ Sync(Backends)
  /\ UNCHANGED <<gpuBuff, fence, pending>>

\* mutant: the index advances after the others have synchronised
TickAdvancesLast ==
  LET k      == (gpuBuff + 1) % used
      others == {i \in Backends \ {gpuBuff} : Polls(i)}
  IN  /\ used > 1
      /\ gpuBuff' = k
      /\ Sync(others)
      /\ fence' = [i \in Backends |-> i = k \/ (fence[i] /\ i \notin others)]
      /\ pending' = Fenced(k)

TickCycle ==
  LET k      == (gpuBuff + 1) % used
      others == {i \in Backends \ {k} : Polls(i)}
  IN  /\ used > 1
      /\ gpuBuff' = k
      /\ Sync(others)
      /\ fence' = [i \in Backends |-> i = k \/ (fence[i] /\ i \notin others)]
      /\ pending' = Fenced(k)

Tick ==
  /\ Running
  /\ step = "tick"
  /\ PendingDraws <= lag
  /\ step' = "update"
  /\ TickSingle \/ TickCycle
  /\ UNCHANGED <<mode, cpu, update, shown>>

\* Instance::onUpdate: the backends that asked for an update, without m_mtx
OnUpdate ==
  /\ ~crashed
  /\ step = "update"
  /\ LET growing == {i \in update : bsize[i] # size}
     IN  /\ Reallocated(growing)
         /\ content' = [i \in Backends |->
                          IF i \in growing /\ storage[i] = 0 THEN version ELSE content[i]]
  /\ update' = {}
  /\ step' = "draw"
  /\ UNCHANGED <<mode, cpu, gpuBuff, seen, fence, pending, crashed, shown>>

\* the frame binds the current GPU buffer
Draw ==
  /\ ~crashed
  /\ step = "draw"
  /\ step' = "tick"
  /\ pending' = Append(pending, DrawCmd(gpuBuff))
  /\ UNCHANGED <<mode, cpu, gpuBuff, back, update, gl, crashed, shown>>

-----------------------------------------------------------------------------
(* The GPU *)

Execute ==
  /\ pending # <<>>
  /\ pending' = Tail(pending)
  /\ shown' = IF Head(pending).op = "draw" THEN content[Head(pending).arg] ELSE shown
  /\ UNCHANGED <<mode, cpu, gpuBuff, back, update, gl, crashed, step>>

Finished ==
  /\ ~Running
  /\ pending = <<>>
  /\ UNCHANGED vars

MainStep == Tick \/ OnUpdate \/ Draw

Next ==
  \/ Write
  \/ \E n \in Sizes : Resize(n) \/ SetOtherSize(n)
  \/ MainStep
  \/ Execute
  \/ Finished

Spec == Init /\ [][Next]_vars

\* the main loop and the GPU go on
FairSpec == Spec /\ WF_vars(MainStep) /\ WF_vars(Execute)
=============================================================================
