------------------------- MODULE RenderObjectProps --------------------------
(***************************************************************************)
(* What the render object handles promise.                                 *)
(***************************************************************************)
EXTENDS RenderObjectSystem

FreeIndices == {freeList[i] : i \in DOMAIN freeList}
HeldIndices == {handle[r].idx : r \in alive}

\* the index 0 while its version is 0: its handle looks like no handle at all,
\* and its Renderer does not give it back
Unreturned == {i \in {0} : versions # <<>> /\ VersionAt(i) = 0}

\* An index is free or held, never both, never twice in the free list, and only
\* the index 0 is ever lost, when its version wraps: a destroyed Renderer's slot
\* can be used again (create(), destroy()), as long as every Renderer got its
\* handle from create().
IndexFreeOrHeld ==
  \/ foreign
  \/ /\ \A i, j \in DOMAIN freeList : freeList[i] = freeList[j] => i = j
     /\ FreeIndices \cap HeldIndices = {}
     /\ (0 .. Len(versions) - 1) \ (FreeIndices \cup HeldIndices) \subseteq Unreturned

\* Renderers that are alive together hold valid handles and write different
\* entries of the transform buffer, unless one is a copy or default constructed.
LiveHandlesDiffer ==
  \/ foreign
  \/ \A r, s \in alive : /\ IsValid(handle[r])
                         /\ handle[r].idx = handle[s].idx => r = s

\* create() gives out an index to one Renderer at a time, and gets it back.
HandlesAreOwn == LiveHandlesDiffer /\ IndexFreeOrHeld

\* The entry of a Renderer that has an object holds its own transform, not the
\* one a predecessor or a stranger left at its index (setObject(), reupload()),
\* and decompressFloat() gives back what compressFloat() was given up to a step,
\* except for 1.0, which fmod() takes to the other end of the range.
TransformIsOwn ==
  \/ foreign
  \/ \A r \in attached :
       LET entry == transforms[handle[r].idx + 1]
       IN /\ entry.owner = r
          /\ entry.data.positive = (sent[r].w > 0)
          /\ sent[r].i < Unit => Restores(entry.data.quat, sent[r].i)

\* A Renderer that is copied and destroyed twice frees its index once: the
\* second destruction finds the version changed (destroy(), isValid()), so no
\* living Renderer can free an index that is free.
FreedOnce ==
  /\ \A i, j \in DOMAIN freeList : freeList[i] = freeList[j] => i = j
  /\ \A r \in alive :
       (handle[r] # Zero /\ IsValid(handle[r])) => handle[r].idx \notin FreeIndices

\* CompressedTransform: "version the version of the object handle the transform
\* belongs to".
TransformCarriesVersion ==
  \A r \in attached : transforms[handle[r].idx + 1].data.ver = handle[r].ver
=============================================================================
