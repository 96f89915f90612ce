------------------------- MODULE RenderObjectSystem -------------------------
(***************************************************************************)
(* The handles of render objects (Backend/Objects/RenderObjectSystem.cpp)  *)
(* and the Renderer components that hold them (RenderAPI/Renderer.cpp).  A *)
(* handle packs an index and a version into 32 bits; destroying it bumps   *)
(* the version of the index, which goes to a free list.  Every operation   *)
(* runs under the system's mutex, so each is one step.                     *)
(***************************************************************************)
EXTENDS CompressedTransform, Sequences, SequencesExt

CONSTANTS
  Renderers,    \* Renderer objects
  NoOne,        \* the owner of a transform nobody has written
  IndexBits,    \* bits of the index, 22 in the code
  VersionBits,  \* bits of the version, 10 in the code
  Rotations,    \* the rotations objects may have
  MaxCreates,   \* bound: calls of create()
  Lives         \* how often the first index may have been used before

ASSUME HandleAssumption ==
  /\ IndexBits \in Nat
  /\ VersionBits \in Nat
  /\ Rotations \subseteq Rotation
  /\ MaxCreates \in Nat
  /\ Lives \subseteq 0 .. 2 ^ VersionBits - 1
  /\ NoOne \notin Renderers

Indices  == 0 .. 2 ^ IndexBits - 1
Versions == 0 .. 2 ^ VersionBits - 1
Handle   == [idx : Indices, ver : Versions]

\* the handle 0, which Renderer takes for "no handle"
Zero == [idx |-> 0, ver |-> 0]

VARIABLES
  versions,    \* m_handles: the version of each index, the index 0 first
  freeList,    \* m_freeList
  transforms,  \* the transform buffer: who wrote each entry, and what
  alive,       \* the Renderers that are constructed
  handle,      \* m_handle of each Renderer
  attached,    \* the Renderers with an object, m_obj
  sent,        \* history: the rotation each Renderer uploaded last
  creates,     \* history: the number of handles that create() returned
  foreign      \* history: a Renderer has a handle that create() did not give it

vars == <<versions, freeList, transforms, alive, handle, attached, sent, creates, foreign>>

Upright == [w |-> Unit, i |-> 0]
Blank == [owner |-> NoOne, data |-> [ver |-> 0, positive |-> FALSE, quat |-> 0]]

\* a fresh system, or one whose only index was created and destroyed n times
Init ==
  /\ \E n \in Lives :
       /\ versions = IF n = 0 THEN <<>> ELSE <<(1 + n) % 2 ^ VersionBits>>
       /\ freeList = IF n = 0 THEN <<>> ELSE <<0>>
       /\ transforms = IF n = 0 THEN <<>> ELSE <<Blank>>
  /\ alive = {}
  /\ handle = [r \in Renderers |-> Zero]
  /\ attached = {}
  /\ sent = [r \in Renderers |-> Upright]
  /\ creates = 0
  /\ foreign = FALSE

VersionAt(i) == versions[i + 1]

-----------------------------------------------------------------------------
(* RenderObjectSystem *)

\* mutant: the version is not compared
IsValidByIndex(h) == h.idx < Len(versions)

IsValid(h) == h.idx < Len(versions) /\ h.ver = VersionAt(h.idx)

\* mutant: the handle gets the version after the stored one
CreateBumpsHandle(r) ==
  /\ freeList # <<>>
  /\ LET h == [idx |-> Last(freeList), ver |-> VersionAt(Last(freeList)) + 1]
     IN  handle' = [handle EXCEPT ![r] = h]
  /\ freeList' = Front(freeList)
  /\ UNCHANGED <<versions, transforms>>

\* the most recently freed index is used first
CreateReused(r) ==
  /\ freeList # <<>>
  /\ LET h == [idx |-> Last(freeList), ver |-> VersionAt(Last(freeList))]
     IN  handle' = [handle EXCEPT ![r] = h]
  /\ freeList' = Front(freeList)
  /\ UNCHANGED <<versions, transforms>>

\* a new index starts with version 1; the transform buffer grows with it
CreateNew(r) ==
  /\ freeList = <<>>
  /\ LET h == [idx |-> Len(versions) % 2 ^ IndexBits, ver |-> 1]
     IN  handle' = [handle EXCEPT ![r] = h]
  /\ versions' = Append(versions, 1)
  /\ transforms' = Append(transforms, Blank)
  /\ UNCHANGED freeList

\* a handle that is not valid is ignored; the version wraps
DestroyHandle(h) ==
  IF IsValid(h)
  THEN /\ versions' = [versions EXCEPT ![h.idx + 1] = (@ + 1) % 2 ^ VersionBits]
       /\ freeList' = Append(freeList, h.idx)
  ELSE UNCHANGED <<versions, freeList>>

-----------------------------------------------------------------------------
(* Renderer *)

Construct(r) ==
  /\ r \notin alive
  /\ creates < MaxCreates
  /\ CreateReused(r) \/ CreateNew(r)
  /\ alive' = alive \cup {r}
  /\ creates' = creates + 1
  /\ UNCHANGED <<attached, sent, foreign>>

\* the default constructor leaves the handle 0
ConstructDefault(r) ==
  /\ r \notin alive
  /\ alive' = alive \cup {r}
  /\ foreign' = TRUE
  /\ UNCHANGED <<versions, freeList, transforms, handle, attached, sent, creates>>

\* the implicit copy constructor and assignment copy the handle and the object;
\* the handle that an assignment overwrites is destroyed by nobody
Copy(r, c) ==
  /\ r \in alive
  /\ alive' = alive \cup {c}
  /\ handle' = [handle EXCEPT ![c] = handle[r]]
  /\ attached' = IF r \in attached THEN attached \cup {c} ELSE attached \ {c}
  /\ foreign' = TRUE
  /\ sent' = [sent EXCEPT ![c] = sent[r]]
  /\ UNCHANGED <<versions, freeList, transforms, creates>>

\* m_handle & VERSION >> OFFSET shifts the mask, not the handle: what is stored
\* as the version are the low bits of the index
StoredVersion(h) == h.idx % 2 ^ VersionBits

WriteTransform(r, rot) ==
  /\ transforms' = [transforms EXCEPT ![handle[r].idx + 1] =
                      [owner |-> r, data |-> Compressed(rot, StoredVersion(handle[r]))]]
  /\ sent' = [sent EXCEPT ![r] = rot]

\* mutant: the transform is not written
SetObjectOnly(r, rot) ==
  /\ r \in alive \ attached
  /\ transforms # <<>>
  /\ attached' = attached \cup {r}
  /\ sent' = [sent EXCEPT ![r] = rot]
  /\ UNCHANGED <<versions, freeList, transforms, alive, handle, creates, foreign>>

\* a Renderer takes its object once; the caller owes it that the transform
\* buffer, which the first create() constructs, is there
SetObject(r, rot) ==
  /\ r \in alive \ attached
  /\ transforms # <<>>
  /\ attached' = attached \cup {r}
  /\ WriteTransform(r, rot)
  /\ UNCHANGED <<versions, freeList, alive, handle, creates, foreign>>

\* with the rotation the object has by now
Reupload(r, rot) ==
  /\ r \in alive \cap attached
  /\ WriteTransform(r, rot)
  /\ UNCHANGED <<versions, freeList, alive, handle, attached, creates, foreign>>

\* the handle 0 counts as none and is not destroyed
Destruct(r) ==
  /\ r \in alive
  /\ IF handle[r] = Zero THEN UNCHANGED <<versions, freeList>>
                         ELSE DestroyHandle(handle[r])
  /\ alive' = alive \ {r}
  /\ handle' = [handle EXCEPT ![r] = Zero]
  /\ attached' = attached \ {r}
  /\ sent' = [sent EXCEPT ![r] = Upright]
  /\ UNCHANGED <<transforms, creates, foreign>>

Finished ==
  /\ alive = {}
  /\ creates = MaxCreates
  /\ UNCHANGED vars

Next ==
  \/ \E r \in Renderers : \/ Construct(r) \/ ConstructDefault(r) \/ Destruct(r)
                          \/ \E rot \in Rotations : SetObject(r, rot) \/ Reupload(r, rot)
                          \/ \E c \in Renderers \ {r} : Copy(r, c)
  \/ Finished

Spec == Init /\ [][Next]_vars
=============================================================================
