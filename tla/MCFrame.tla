------------------------------- MODULE MCFrame ------------------------------
(***************************************************************************)
(* TLC instances of what a frame draws, of what is bound while it draws,   *)
(* and of a camera.  The three share no state, so a behaviour exercises    *)
(* one of them (part).                                                     *)
(***************************************************************************)
EXTENDS FrameProps, DrawProps, Camera, TLC

CONSTANTS cube, tree, r1, r2, r3

VARIABLE part

-----------------------------------------------------------------------------
(* The scene and the stages *)

Obj(mesh, material) == [mesh |-> mesh, material |-> material]

\* a renderer that has one mesh twice, one with two materials, one with two meshes
MCObjs ==
  r1 :> <<Obj(cube, "stone"), Obj(cube, "stone")>> @@
  r2 :> <<Obj(tree, "wood"), Obj(cube, "stone")>> @@
  r3 :> <<Obj(tree, "wood"), Obj(cube, "wood")>>

MCStages == <<"scene", "blit", "barrier", "scene", "clear">>

-----------------------------------------------------------------------------
(* The materials and the pipelines *)

Buf(kind, name) == [kind |-> kind, buffer |-> name]
Shader(program, list, buffers) == [program |-> program, textures |-> list, buffers |-> buffers]

\* stone is what the shaders in assets expect, glass has other textures and a
\* light; sort runs for a batch, blur has its own data at the first bindings
MCObject ==
  "stone" :> Shader("opaque", <<"rock", "moss">>,
                 <<Buf("uniform", Skip), Buf("storage", Skip), Buf("storage", "transforms")>>) @@
  "glass" :> Shader("clear", <<"sky">>,
                 <<Buf("storage", Skip), Buf("uniform", Skip), Buf("uniform", "light"),
                   Buf("storage", "transforms")>>) @@
  "sort"  :> Shader("sort", <<>>,
                 <<Buf("storage", Skip), Buf("storage", Skip), Buf("storage", "meshes")>>) @@
  "trim"  :> Shader("trim", <<"depths">>,
                 <<Buf("storage", Skip), Buf("uniform", Skip), Buf("uniform", "planes"),
                   Buf("storage", Skip)>>) @@
  "blur"  :> Shader("blur", <<"rock">>, <<Buf("uniform", "kernel"), Buf("storage", "pixels")>>)

MCTarget == "eye" :> "window" @@ "probe" :> "framebuffer"

Scene(camera, material, batch, shaders) ==
  [kind |-> "scene", camera |-> camera, material |-> material,
   batch |-> batch, draws |-> "draws", shaders |-> shaders]
Compute(compute) == [kind |-> "dispatch", compute |-> compute]
Mesh(material) == <<[kind |-> "bind", material |-> material], [kind |-> "mesh"]>>

\* two targets with a dispatch in between
TwoTargets ==
  <<Scene("probe", "glass", "b1", <<"sort", "trim">>), Compute("blur"),
    Scene("eye", "stone", "b2", <<"sort">>)>>

\* single meshes around a scene of two batches in the window
Meshes ==
  Mesh("stone") \o
  <<Scene("eye", "stone", "b1", <<"trim", "sort">>), Scene("eye", "glass", "b2", <<"sort">>)>>
  \o Mesh("glass")

MCPipelines == {TwoTargets, Meshes}

MCDefaults == <<2, 1, 2>>

-----------------------------------------------------------------------------

partVars == <<vars, drawVars, cameraVars, part>>

\* the other parts stay in one of their initial states
PartInit ==
  /\ part \in {"commands", "bindings", "camera"}
  /\ Init /\ (part # "commands" => attached = {} /\ ~rerecord /\ ~lazy)
  /\ DrawInit /\ (part # "bindings" => pipeline = Meshes)
  /\ CameraInit
  /\ part # "camera" => /\ type = "perspective" /\ words = Defaults
                        /\ place = One /\ extent = 1

Frames(A) == part = "commands" /\ A /\ UNCHANGED <<drawVars, cameraVars, part>>

Bindings == part = "bindings" /\ DrawNext /\ UNCHANGED <<vars, cameraVars, part>>

CameraOf == part = "camera" /\ CameraNext /\ UNCHANGED <<vars, drawVars, part>>

PartSpec == PartInit /\ [][Frames(Next) \/ Bindings \/ CameraOf]_partVars

\* The render thread plays frame after frame, GL lands every write at last.  Play
\* is the only step from "idle" to "next": its fairness in a form that TLC need
\* not compile a pipeline to evaluate.
FairPartSpec ==
  /\ PartSpec
  /\ WF_pc(Frames(MayPlay /\ pc' = "next"))
  /\ WF_partVars(Frames(Execute))
  /\ WF_partVars(Frames(Land))
=============================================================================
