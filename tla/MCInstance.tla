----------------------------- MODULE MCInstance -----------------------------
(***************************************************************************)
(* TLC instances of the instance: the loop that serves the layers, the     *)
(* window and the meshes, and the graphic objects that wait for the thread *)
(* with the GL context.  The two share no state, so a behaviour exercises  *)
(* one of them (side).                                                     *)
(***************************************************************************)
EXTENDS InstanceProps, GraphicProps

CONSTANTS keyA, keyB, keyFn1, keyFn2, m1, m2, color, depth, screen

VARIABLE side

\* two keys with codes in different words, two without a code of their own
MCKeyOf == (keyA :> 1) @@ (keyB :> 200)

\* no mouse at the start, one, or both
MCListings == {<<>>, <<m1>>, <<m1, m2>>}

\* constructed as most textures are, or with everything switched on
MCInitial ==
  { [filter |-> "first", anisotropy |-> 0, samples |-> "x1", tiling |-> "first"],
    [filter |-> "first", anisotropy |-> 2, samples |-> "x4", tiling |-> "first"] }
MCAttached == [f \in Framebuffers |-> <<color, depth>>]
MCKind == [t \in Textures |-> IF t = color THEN "color" ELSE "depth"]

sideVars == <<loopVars, vars, side>>

\* the other side stays in one of its initial states
SideInit ==
  /\ side \in {"loop", "graphics"}
  /\ LoopInit /\ (side # "loop" => driven = "keys")
  /\ Init /\ (side # "graphics" => subject = "textures" /\ serial)

Loop == side = "loop" /\ LoopNext /\ UNCHANGED <<vars, side>>

Tick == side = "graphics" /\ Next /\ UNCHANGED <<loopVars, side>>

SideSpec == SideInit /\ [][Loop \/ Tick]_sideVars
=============================================================================
