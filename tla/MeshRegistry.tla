---------------------------- MODULE MeshRegistry ----------------------------
(***************************************************************************)
(* Render meshes (RenderMeshRegistry.cpp, API_RenderMesh.cpp) and the life *)
(* of the instance they take their memory from (registerWindow and         *)
(* deregisterWindow of Backend/Instance.cpp).  The first window makes the  *)
(* instance, the last one deletes it; meshes know nothing of that.         *)
(*                                                                         *)
(* A region of the vertex arena and one of the index arena are always      *)
(* taken and given back together: one number stands for both.              *)
(***************************************************************************)
EXTENDS Integers, Sequences, SequencesExt, FiniteSets

CONSTANTS
  Threads,   \* threads that destroy meshes
  NoHandle,  \* a thread that destroys none
  MaxMeshes, \* bound: meshes created
  MaxWindows \* bound: windows created

ASSUME MeshAssumption == MaxMeshes \in Nat /\ MaxWindows \in Nat

VARIABLES
  inst,         \* m_inst: "null", "one" (the value 1) or "live"
  generation,   \* instances created so far
  windows,      \* m_activeWindowCount
  opening,      \* a window is being constructed
  opened,       \* windows constructed so far
  meshes,       \* m_meshes; indices count from 1 here
  versions,     \* m_versions
  freeList,     \* m_freeList
  arena,        \* the regions in use
  meshBuffer,   \* getMeshBuffer(): the region the GPU reads for each index
  handles,      \* the handles create() returned, with the mesh each was made for
  destroyed,    \* calls of ~RenderMesh() for each mesh
  checked,      \* destroy(): the handle each thread has found valid
  stray,        \* a mesh gave back its region to a later instance
  dereferenced  \* m_inst was used while it was null or 1

lifeVars == <<inst, generation, windows, opening, opened>>
gpuVars  == <<arena, meshBuffer>>
registry == <<meshes, versions, freeList, handles, destroyed, checked>>
meshVars == <<lifeVars, gpuVars, registry, stray, dereferenced>>

\* with the instance of one window, or without one
MeshInit(live) ==
  /\ inst = IF live THEN "live" ELSE "null"
  /\ generation = IF live THEN 1 ELSE 0
  /\ windows = generation
  /\ opening = FALSE
  /\ opened = generation
  /\ meshes = <<>>
  /\ versions = <<>>
  /\ freeList = <<>>
  /\ arena = {}
  /\ meshBuffer = <<>>
  /\ handles = {}
  /\ destroyed = [n \in 1 .. MaxMeshes |-> 0]
  /\ checked = [t \in Threads |-> NoHandle]
  /\ stray = FALSE
  /\ dereferenced = FALSE

-----------------------------------------------------------------------------
(* Windows come and go *)

\* the constructor of a window calls getWindowFlags()
GetWindowFlags ==
  /\ ~opening
  /\ opened < MaxWindows
  /\ opening' = TRUE
  /\ opened' = opened + 1
  /\ inst' = IF inst = "null" THEN "one" ELSE inst
  /\ UNCHANGED <<generation, windows, gpuVars, registry, stray, dereferenced>>

\* ... and then registerWindow(); the arenas of a new instance are empty
RegisterWindow ==
  /\ opening
  /\ opening' = FALSE
  /\ windows' = windows + 1
  /\ IF windows = 0
     THEN inst' = "live" /\ generation' = generation + 1 /\ arena' = {} /\ meshBuffer' = <<>>
     ELSE UNCHANGED <<inst, generation, gpuVars>>
  /\ UNCHANGED <<opened, registry, stray, dereferenced>>

\* the destructor; the last window takes the instance with it
DeregisterWindow ==
  /\ ~opening
  /\ windows > 0
  /\ windows' = windows - 1
  /\ inst' = IF windows = 1 THEN "null" ELSE inst
  /\ UNCHANGED <<generation, opening, opened, gpuVars, registry, stray, dereferenced>>

\* m_inst->tick(), m_inst->onUpdate()
UseInstance == dereferenced' = (inst # "live")

-----------------------------------------------------------------------------
(* Meshes; m_mutex is held throughout create() and the second half of destroy() *)

\* what m_meshBuffer holds after region r was stored for index i
Stored(i, r) ==
  [j \in 1 .. (IF i > Len(meshBuffer) THEN i ELSE Len(meshBuffer)) |->
     IF j = i THEN r ELSE IF j \in DOMAIN meshBuffer THEN meshBuffer[j] ELSE 0]

\* s with x at index i, which may be one past its end
Placed(s, i, x) == [j \in DOMAIN s \cup {i} |-> IF j = i THEN x ELSE s[j]]

\* a mesh at index i with version v; rest is what the free list keeps
CreateAt(i, v, rest) ==
  LET n == Cardinality(handles) + 1 IN
  /\ n <= MaxMeshes
  /\ freeList' = rest
  /\ versions' = Placed(versions, i, v)
  /\ handles' = handles \cup {[idx |-> i, version |-> v, mesh |-> n]}
  /\ \E r \in (1 .. MaxMeshes) \ arena :
       /\ arena' = arena \cup {r}
       /\ meshBuffer' = Stored(i, r)
       /\ meshes' = Placed(meshes, i, [mesh |-> n, region |-> r, generation |-> generation])
  /\ UseInstance
  /\ UNCHANGED <<lifeVars, destroyed, checked, stray>>

CreateMesh ==
  IF freeList # <<>>
  THEN CreateAt(Last(freeList), versions[Last(freeList)], Front(freeList))
  ELSE CreateAt(Len(meshes) + 1, 1, freeList)

IsValid(h) == h.idx \in DOMAIN meshes /\ h.version = versions[h.idx]

\* destroy(): the first look at the handle, before the lock
CheckHandle(t, h) ==
  /\ checked[t] = NoHandle
  /\ IsValid(h)
  /\ checked' = [checked EXCEPT ![t] = h]
  /\ UNCHANGED <<lifeVars, gpuVars, meshes, versions, freeList, handles, destroyed, stray, dereferenced>>

\* ~RenderMesh: without an instance nothing is given back
GiveBack(m) ==
  /\ arena' = IF inst = "live" THEN arena \ {m.region} ELSE arena
  /\ stray' = (stray \/ (inst = "live" /\ m.generation # generation))
  /\ dereferenced' = (inst = "one")
  /\ destroyed' = [destroyed EXCEPT ![m.mesh] = @ + 1]

\* mutant: the handle is not looked at again
DestroyUnchecked(t) ==
  /\ checked[t] # NoHandle
  /\ checked' = [checked EXCEPT ![t] = NoHandle]
  /\ LET i == checked[t].idx IN
       /\ versions' = [versions EXCEPT ![i] = @ + 1]
       /\ GiveBack(meshes[i])
       /\ freeList' = Append(freeList, i)
  /\ UNCHANGED <<lifeVars, meshBuffer, meshes, handles>>

\* ... and the rest of it, under the lock
DestroyMesh(t) ==
  /\ checked[t] # NoHandle
  /\ checked' = [checked EXCEPT ![t] = NoHandle]
  /\ IF IsValid(checked[t])
     THEN LET i == checked[t].idx IN
          /\ versions' = [versions EXCEPT ![i] = @ + 1]
          /\ GiveBack(meshes[i])
          /\ freeList' = Append(freeList, i)
     ELSE UNCHANGED <<versions, freeList, arena, stray, dereferenced, destroyed>>
  /\ UNCHANGED <<lifeVars, meshBuffer, meshes, handles>>
=============================================================================
