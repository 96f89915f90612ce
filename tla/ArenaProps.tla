----------------------------- MODULE ArenaProps -----------------------------
(***************************************************************************)
(* What the memory arena promises, and the refinement to RegionAllocator.  *)
(***************************************************************************)
EXTENDS MemoryArena

Bytes(r) == r.start .. r.start + r.size - 1
Holders  == {s \in Slots : ptr[s] # NoPtr}

FreeBytes  == UNION {Bytes(free[i]) : i \in DOMAIN free}
OwnedBytes == UNION {Bytes(ptr[s]) : s \in Holders}

\* The types of the variables: no free segment and no pointer has a negative
\* start or size.
TypeOK ==
  /\ size \in 0 .. MaxBytes
  /\ allowResize \in BOOLEAN
  /\ free \in Seq(Region)
  /\ ptr \in [Slots -> Region \cup {NoPtr}]
  /\ refused \subseteq Slots
  /\ nulled \in BOOLEAN
  /\ crashed \in BOOLEAN

\* Two holders never share a byte: no mesh overwrites the vertices of another.
NoSharedBytes ==
  \A s, t \in Holders : s # t => Bytes(ptr[s]) \cap Bytes(ptr[t]) = {}

\* The free list holds each free byte once and no byte of a holder, whatever
\* order release() left it in.
FreeListDisjoint ==
  /\ \A i, j \in DOMAIN free : i # j => Bytes(free[i]) \cap Bytes(free[j]) = {}
  /\ FreeBytes \cap OwnedBytes = {}

\* Every byte of the arena is free or held: nothing leaks, growth included.
EveryByteAccounted == FreeBytes \cup OwnedBytes = 0 .. size - 1

\* The free list and the holders divide the arena between them: nothing is
\* handed out twice and nothing is lost.
FreeAndHeldDivide == FreeListDisjoint /\ EveryByteAccounted

\* A holder that releases its region once is never refused, and so loses no
\* byte, although release() takes every region that meets a free segment for one
\* that was free before; until the list holds a released null pointer.
ReleaseSucceeds == nulled \/ refused = {}

\* the abstract allocator: its bytes are the ones of the pointers and segments
Abstract == INSTANCE RegionAllocator WITH
  top   <- size,
  owned <- [s \in Slots |-> IF ptr[s] = NoPtr THEN {} ELSE Bytes(ptr[s])],
  spare <- FreeBytes

\* First fit over an unsorted, uncoalesced list still is a region allocator.
Refinement == Abstract!ASpec
=============================================================================
