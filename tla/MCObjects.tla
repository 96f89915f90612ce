------------------------------ MODULE MCObjects -----------------------------
(***************************************************************************)
(* TLC instances of what an instance keeps of the objects it renders: the  *)
(* regions of the meshes' arenas and the handles of the Renderers.  The    *)
(* two share no state, so a behaviour exercises one of them (part).        *)
(***************************************************************************)
EXTENDS ArenaProps, RenderObjectProps, TLC

VARIABLE part

\* the objects are named alike in both parts, of which each sees its own use
Symmetry == Permutations(Slots \cup Renderers)

\* the lowest value of a component, and the highest one that is restored
MCRotations == {[w |-> -2, i |-> -3], [w |-> 2, i |-> 2]}

partVars == <<arenaVars, vars, part>>

\* the other part stays in one of its initial states
PartInit ==
  /\ part \in {"regions", "handles"}
  /\ ArenaInit /\ (part # "regions" => allowResize)
  /\ Init

OfRegions == part = "regions" /\ ArenaNext /\ UNCHANGED <<vars, part>>

OfHandles == part = "handles" /\ Next /\ UNCHANGED <<arenaVars, part>>

PartSpec == PartInit /\ [][OfRegions \/ OfHandles]_partVars
=============================================================================
