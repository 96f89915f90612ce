----------------------------- MODULE FrameProps -----------------------------
(***************************************************************************)
(* What a played frame promises.                                           *)
(***************************************************************************)
EXTENDS FrameCommands

\* The types of the variables; every command names GL buffers that exist.
TypeOK ==
  /\ rerecord \in BOOLEAN
  /\ lazy \in BOOLEAN
  /\ Len(inflight) <= MaxInflight
  /\ attached \subseteq Renderers
  /\ fbo \in 1 .. MaxFbos
  /\ todo \in BOOLEAN
  /\ \A i \in DOMAIN cmds : cmds[i].kind = "scene" =>
       cmds[i].batch \in DOMAIN batchBuf /\ cmds[i].draw \in DOMAIN drawBuf
  /\ pc \in {"idle", "next", "draw"}
  /\ at \in 1 .. Len(cmds) + 1 \/ pc = "idle"
  /\ fresh \in BOOLEAN
  /\ records \in 0 .. MaxRecords
  /\ changes \in 0 .. MaxChanges

\* a frame has been played and nothing was recorded since
FrameDone == pc = "idle" /\ at > 1 /\ at = Len(cmds) + 1

\* What stage s drew for x, a mesh and a material of a renderer; meshes whose draw
\* call GL has not landed count as meant.
Times(s, x) ==
  Cardinality({i \in DOMAIN frame :
    /\ frame[i].stage = s
    /\ [handle |-> frame[i].handle, material |-> frame[i].material,
        mesh |-> IF lazy THEN frame[i].meant ELSE frame[i].mesh] = x})

Wanted(x) ==
  Cardinality({k \in DOMAIN Objs[x.handle] :
    Objs[x.handle][k] = [mesh |-> x.mesh, material |-> x.material]})

\* all elements of some renderers
Pieces(renderers) == UNION {{r} \X DOMAIN Objs[r] : r \in renderers}

\* Renderer.h:49, "All objects that have this component attached will get
\* rendered (if the `shown` bool is true)": in every scene stage a frame draws each
\* mesh of each renderer of the compiled scene as often as the renderer has it,
\* with its own material and the renderer's own handle, and nothing else: whatever
\* the batches, their sizes and the draw buffer they share.  That is the sentence
\* without its bracket: executeStage_DrawScene (OGL_RenderPipeline.cpp:101) never
\* asks isShown(), so a hidden renderer is drawn like any other and `shown` is no
\* part of the state.  It is about what is sent to GL: with `lazy` a draw call
\* that the missing barrier lets GL read early counts as the one that was written.
FrameShowsTheScene ==
  FrameDone =>
    \A s \in SceneStages :
      /\ \A r \in compiled.scene : \A k \in DOMAIN Objs[r] :
           LET x == [handle |-> r, mesh |-> Objs[r][k].mesh,
                     material |-> Objs[r][k].material]
           IN Times(s, x) = Wanted(x)
      /\ Cardinality({i \in DOMAIN frame : frame[i].stage = s})
           = Cardinality(Pieces(compiled.scene))

\* A batch is never drawn with more calls than its batch buffer has pairs or the
\* draw buffer has places, and no two commands share a batch buffer.
BatchesFit ==
  /\ \A i \in DOMAIN cmds : cmds[i].kind = "scene" =>
       /\ cmds[i].count = Len(batchBuf[cmds[i].batch])
       /\ cmds[i].count <= Len(drawBuf[cmds[i].draw])
  /\ \A i, j \in DOMAIN cmds :
       /\ cmds[i].kind = "scene"
       /\ cmds[j].kind = "scene"
       /\ cmds[i].batch = cmds[j].batch
       => i = j

\* A blit or a clear names the living framebuffer in the frame that compiled it,
\* also when the framebuffer was re-created after record(), and in every frame
\* if the application records again after it re-created the framebuffer.
TargetsLive ==
  pc # "idle" /\ (fresh \/ rerecord) => \A i \in DOMAIN ops : ops[i].fbo = fbo

\* A command refers to what exists and to as much of it as there is.
CommandsFit == BatchesFit /\ TargetsLive

\* An object that was attached when the application recorded is drawn at last,
\* unless it is detached before.
AttachedIsShown ==
  \A r \in Renderers :
    r \in attached /\ todo /\ Objs[r] # <<>> ~>
      r \notin attached \/ \E i \in DOMAIN frame : frame[i].handle = r

=============================================================================
