----------------------------- MODULE CycleProps -----------------------------
(***************************************************************************)
(* What a cycle buffer promises to the frames that read it.                *)
(***************************************************************************)
EXTENDS CycleBuffer

\* "store the version the buffer was updated last": a backend that has seen a
\* version holds its bytes.  m_version is what the tick compares, so a backend
\* that is ahead of its bytes is not brought up to date again (syncCPU()).
SeenIsHeld == \A i \in Backends : bsize[i] > 0 => content[i] >= seen[i]

\* As long as the size stays, no tick copies through a null mapping: whichever of
\* a write, a tick and the update of new backends comes first, the first sync of a
\* backend makes its storage and maps it (syncCPU(), update()).
CopiesAreMapped == crashed => resizes

\* No frame shows older data than the frame before it, although the frames
\* take turns on copies that are written at different ticks (tick(),
\* syncCPU()): with a GPU that keeps up, a client that writes between the
\* frames, and a size that stays.
ShownMovesForward ==
  [][(lag = 0 /\ serial /\ ~resizes) => shown' >= shown]_vars

\* With a GPU that keeps up, the backends that are not in use agree on the
\* newest data of the last tick, and none of them is behind the one in use:
\* whichever is taken next is at most one tick old (tick(), syncCPU()).
BackendsAgree ==
  (lag = 0 /\ ~crashed) =>
    \A i, j \in Backends \ {gpuBuff} : /\ seen[i] = seen[j]
                                       /\ seen[i] >= seen[gpuBuff]

\* With more copies than frames in flight, the copy that the next tick hands out was
\* brought up to date by this one, whatever the GPU has executed: what a frame reads is
\* at most one tick old (tick(), syncCPU(), markInUse()).
NextIsFresh ==
  [][(step = "tick" /\ step' = "update" /\ used > lag + 1)
       => seen'[(gpuBuff' + 1) % used] = version]_vars

\* The data a client writes is drawn in the end, if there are more copies than
\* frames in flight: with fewer, a fence is renewed before it is ever found
\* signaled and its backend is never written (markInUse(), syncCPU()).
WritesAreShown ==
  \A v \in 1 .. MaxVersion :
    ((used = 1 \/ used > lag + 1) /\ ~resizes /\ version = v) ~> (shown >= v)

\* "create a new fence to mark when the GPU consumed the data": while the GPU
\* may still read one of several backends, its bytes do not change.
NoWriteWhileRead ==
  [][\A i \in Backends :
       (used > 1 /\ Contains(pending, DrawCmd(i))) => content'[i] = content[i]]_vars

\* set() comes back ("if it did, resize the buffer").
SetReturns == ~locked
=============================================================================
