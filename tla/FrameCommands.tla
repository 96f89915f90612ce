---------------------------- MODULE FrameCommands ---------------------------
(***************************************************************************)
(* From the stages of a render pipeline to what a frame draws              *)
(* (OGL_RenderPipeline.cpp, OGL_Commands.cpp, assets/shader/draw.cs).      *)
(*                                                                         *)
(* record() empties the command buffer and leaves a todo list; the next    *)
(* play() compiles the list into commands and executes them, later ones    *)
(* execute the same commands again.  A scene stage sorts the objects of a  *)
(* scene into batches, one per material, with a GL buffer for each and a   *)
(* draw buffer that they share; a compute shader then turns the batch into *)
(* draw calls.  Blit and clear stages capture the GL name of a framebuffer.*)
(*                                                                         *)
(* The protocol of record() and play() is RenderPipeline's, the versions   *)
(* of cycle buffers are CycleBuffer's: here both calls are made by the     *)
(* thread that renders.                                                    *)
(***************************************************************************)
EXTENDS Integers, Sequences, SequencesExt, FiniteSetsExt

CONSTANTS
  Renderers,   \* the objects with a Renderer
  Objs,        \* m_objs: mesh and material of each element of a renderer
  Stages,      \* the types of the pipeline's stages
  Group,       \* local_size_x of the batch shader, 64 in the code
  Laziness,    \* whether GL may land the writes of a shader later
  MaxInflight, \* bound: writes that have not landed
  MaxRecords,  \* bound: calls of record()
  MaxChanges,  \* bound: changes of the scene
  MaxFbos      \* bound: framebuffer names

ASSUME FrameAssumption ==
  /\ IsFiniteSet(Renderers)
  /\ \A r \in Renderers :
       Objs[r] \in Seq({[mesh |-> e.mesh, material |-> e.material] : e \in ToSet(Objs[r])})
  /\ Stages \in Seq({"scene", "barrier", "blit", "clear"})
  /\ Group \in Nat \ {0}
  /\ Laziness \subseteq BOOLEAN
  /\ {MaxRecords, MaxChanges, MaxFbos, MaxInflight} \subseteq Nat
  /\ MaxFbos >= 1

Unwritten == "unwritten"   \* a draw call nobody wrote
Beyond    == "beyond"      \* read past the end of a batch

VARIABLES
  rerecord,  \* the application records after it re-creates the framebuffer
  lazy,      \* GL lands the writes of a shader when it likes
  attached,  \* the scene: renderers attached to an object
  fbo,       \* the GL name of the framebuffer that blits and clears use
  todo,      \* m_todo has the stages of the newest record()
  cmds,      \* m_cmdBuff
  batchBuf,  \* GL: the pairs in each batch buffer
  drawBuf,   \* GL: the draw calls in each draw buffer
  inflight,  \* GL: writes of shaders that have not landed
  pc,        \* what play() does next
  at,        \* its position in m_cmdBuff
  frame,     \* the meshes the newest frame drew
  ops,       \* the blits and clears it executed
  fresh,     \* the newest frame compiled its commands
  compiled,  \* history: the scene when the commands were compiled
  records,   \* calls of record()
  changes    \* changes of the scene

mode  == <<rerecord, lazy>>
scene == <<attached, changes>>
bufs  == <<batchBuf, drawBuf>>
hist  == <<fresh, compiled>>
vars  == <<mode, scene, fbo, todo, cmds, bufs, inflight, pc, at, frame,
           ops, hist, records>>

\* the application has filled the scene before it makes the pipeline
Init ==
  /\ rerecord \in BOOLEAN
  /\ lazy \in Laziness
  /\ attached \in SUBSET Renderers
  /\ fbo = 1
  /\ todo = FALSE
  /\ cmds = <<>>
  /\ batchBuf = <<>>
  /\ drawBuf = <<>>
  /\ inflight = <<>>
  /\ pc = "idle"
  /\ at = 1
  /\ frame = <<>>
  /\ ops = <<>>
  /\ fresh = FALSE
  /\ compiled = [scene |-> {}, fbo |-> 1]
  /\ records = 0
  /\ changes = 0

-----------------------------------------------------------------------------
(* The application, between two frames.  Whether a Renderer is shown is not   *)
(* here: nothing that compiles or executes commands asks for it.             *)

Change ==
  /\ pc = "idle"
  /\ changes < MaxChanges
  /\ changes' = changes + 1
  /\ UNCHANGED <<mode, fbo, todo, cmds, bufs, inflight, pc, at, frame, ops,
                 hist, records>>

Attach(r) == Change /\ attached' = attached \cup {r}
Detach(r) == Change /\ attached' = attached \ {r}

\* recreate_backend(), in the tick: GL may have used the next name meanwhile.
\* Bound: only while the application can still record.
RecreateFramebuffer ==
  /\ pc = "idle"
  /\ fbo < MaxFbos
  /\ records < MaxRecords
  /\ fbo' = fbo + 1
  /\ UNCHANGED <<mode, scene, todo, cmds, bufs, inflight, pc, at, frame, ops,
                 hist, records>>

Record ==
  /\ pc = "idle"
  /\ records < MaxRecords
  /\ records' = records + 1
  /\ todo' = TRUE
  /\ cmds' = <<>>
  /\ UNCHANGED <<mode, scene, fbo, bufs, inflight, pc, at, frame, ops, hist>>

-----------------------------------------------------------------------------
(* Compilation *)

Pair(e) == [handle |-> e.handle, mesh |-> e.mesh]

\* the elements of the renderers, in the order in which the scene has them
Elements(order) ==
  FlattenSeq([i \in DOMAIN order |->
    [k \in DOMAIN Objs[order[i]] |->
      [handle   |-> order[i],
       mesh     |-> Objs[order[i]][k].mesh,
       material |-> Objs[order[i]][k].material]]])

\* mutant: a material that is found again begins its batch again
BatchFromLast(m, elements) ==
  <<Pair(Last(SelectSeq(elements, LAMBDA e : e.material = m)))>>

\* the first element of a material creates its batch, the others are added
Batch(m, elements) ==
  FlattenSeq([n \in DOMAIN elements |->
    IF elements[n].material = m THEN <<Pair(elements[n])>> ELSE <<>>])

\* the batches in the order of std::map, by the address of the material: a fixed one
Batches(elements) ==
  LET mats == SetToSeq({elements[i].material : i \in DOMAIN elements})
  IN  [k \in DOMAIN mats |-> [material |-> mats[k], list |-> Batch(mats[k], elements)]]

\* mutant: the last batch decides
LengthOfLast(batches) == IF batches = <<>> THEN 0 ELSE Len(Last(batches).list)

MaxMeshCount(batches) == Max({0} \cup {Len(batches[k].list) : k \in DOMAIN batches})

\* buffs[k] of stage i: GL makes new ones in every compilation
BufferName(i, k) == <<i, k>>

\* the last of them is the draw buffer
DrawSceneCommands(i, batches) ==
  [k \in DOMAIN batches |->
    [kind |-> "scene", stage |-> i, material |-> batches[k].material,
     count |-> Len(batches[k].list), batch |-> BufferName(i, k), draw |-> i]]

\* the name of the framebuffer is read now
ClearCommand(i) == [kind |-> "clear", fbo |-> fbo]

\* the name is read now here too; the rectangles matter to no property
BlitCommand(i) == [kind |-> "blit", fbo |-> fbo]

StageCommands(i, batches) ==
  CASE Stages[i] = "scene"   -> DrawSceneCommands(i, batches)
    [] Stages[i] = "barrier" -> <<[kind |-> "barrier"]>>
    [] Stages[i] = "blit"    -> <<BlitCommand(i)>>
    [] Stages[i] = "clear"   -> <<ClearCommand(i)>>

SceneStages == {i \in DOMAIN Stages : Stages[i] = "scene"}

\* play(): the todo loop; every scene stage reads the scene
Compile(order) ==
  \E batches \in {Batches(Elements(order))} :
    /\ cmds' = cmds \o FlattenSeq([i \in DOMAIN Stages |-> StageCommands(i, batches)])
    /\ batchBuf' =
         [n \in {BufferName(i, k) : i \in SceneStages, k \in DOMAIN batches} |->
           batches[n[2]].list]
    /\ drawBuf' = [i \in SceneStages |->
                    [k \in 1 .. MaxMeshCount(batches) |-> Unwritten]]
    /\ compiled' = [scene |-> attached, fbo |-> fbo]

-----------------------------------------------------------------------------
(* Execution *)

\* an application that records after it re-creates the framebuffer does so first
MayPlay == pc = "idle" /\ (rerecord => todo \/ compiled.fbo = fbo)

\* mutant: m_todo is cleared before the loop
PlayClearsFirst ==
  /\ MayPlay
  /\ todo' = FALSE
  /\ fresh' = todo
  /\ frame' = <<>>
  /\ ops' = <<>>
  /\ at' = 1
  /\ pc' = "next"
  /\ UNCHANGED <<mode, scene, fbo, cmds, bufs, compiled, inflight, records>>

Play ==
  /\ MayPlay
  /\ todo' = FALSE
  /\ fresh' = todo
  /\ frame' = <<>>
  /\ ops' = <<>>
  /\ at' = 1
  /\ pc' = "next"
  /\ UNCHANGED <<mode, scene, fbo, inflight, records>>
  /\ IF todo THEN \E order \in SetToSeqs(attached) : Compile(order)
             ELSE UNCHANGED <<cmds, bufs, compiled>>

Cmd == cmds[at]

\* the invocations 1 .. n of a dispatch whose guard lets them pass; the shader
\* counts from 0 and compares with >
Invocations(count) ==
  {k \in 1 .. Group * ((count + Group - 1) \div Group) : ~(k - 1 > count)}

Landed(buf, w) ==
  [n \in DOMAIN buf |->
    IF n # w.draw THEN buf[n]
    ELSE [k \in DOMAIN buf[n] |->
           IF k \in DOMAIN w.calls THEN w.calls[k] ELSE buf[n][k]]]

\* all writes, the oldest first
AllLanded ==
  LET after[i \in 0 .. Len(inflight)] ==
        IF i = 0 THEN drawBuf ELSE Landed(after[i - 1], inflight[i])
  IN  after[Len(inflight)]

\* the batch shader, bound to the batch and to the draw buffer.  A write beyond
\* the draw buffer is lost.
Dispatch ==
  /\ pc = "next"
  /\ at <= Len(cmds)
  /\ Cmd.kind = "scene"
  /\ Len(inflight) < MaxInflight
  /\ LET objects == batchBuf[Cmd.batch]
         w == [draw  |-> Cmd.draw,
               calls |-> [k \in Invocations(Len(objects)) |->
                            IF k \in DOMAIN objects THEN objects[k].mesh ELSE Beyond]]
     IN  IF lazy
         THEN inflight' = Append(inflight, w) /\ UNCHANGED drawBuf
         ELSE drawBuf' = Landed(drawBuf, w) /\ UNCHANGED inflight
  /\ pc' = "draw"
  /\ UNCHANGED <<mode, scene, fbo, todo, cmds, batchBuf, at, frame, ops, hist,
                 records>>

\* GL lands the oldest writes; it need not before a barrier
Land ==
  /\ inflight # <<>>
  /\ drawBuf' = Landed(drawBuf, Head(inflight))
  /\ inflight' = Tail(inflight)
  /\ UNCHANGED <<mode, scene, fbo, todo, cmds, batchBuf, pc, at, frame, ops,
                 hist, records>>

\* glMultiDrawElementsIndirect: draw call k takes its mesh from the draw buffer
\* and its transform from the handle in the batch
Draw ==
  /\ pc = "draw"
  /\ frame' = frame \o [k \in 1 .. Cmd.count |->
                [stage    |-> Cmd.stage,
                 material |-> Cmd.material,
                 handle   |-> batchBuf[Cmd.batch][k].handle,
                 meant    |-> batchBuf[Cmd.batch][k].mesh,
                 mesh     |-> drawBuf[Cmd.draw][k]]]
  /\ at' = at + 1
  /\ pc' = "next"
  /\ UNCHANGED <<mode, scene, fbo, todo, cmds, bufs, inflight, ops, hist,
                 records>>

Barrier ==
  /\ pc = "next"
  /\ at <= Len(cmds)
  /\ Cmd.kind = "barrier"
  /\ drawBuf' = AllLanded
  /\ inflight' = <<>>
  /\ at' = at + 1
  /\ UNCHANGED <<mode, scene, fbo, todo, cmds, batchBuf, pc, frame, ops, hist, records>>

BlitOrClear ==
  /\ pc = "next"
  /\ at <= Len(cmds)
  /\ Cmd.kind \in {"blit", "clear"}
  /\ ops' = Append(ops, Cmd)
  /\ at' = at + 1
  /\ UNCHANGED <<mode, scene, fbo, todo, cmds, bufs, inflight, pc, frame, hist, records>>

EndFrame ==
  /\ pc = "next"
  /\ at > Len(cmds)
  /\ pc' = "idle"
  /\ UNCHANGED <<mode, scene, fbo, todo, cmds, bufs, inflight, at, frame, ops,
                 hist, records>>

-----------------------------------------------------------------------------

Application ==
  \/ \E r \in Renderers : Attach(r) \/ Detach(r)
  \/ RecreateFramebuffer
  \/ Record

Execute == Dispatch \/ Draw \/ Barrier \/ BlitOrClear \/ EndFrame

Next == Application \/ Play \/ Execute \/ Land

Spec == Init /\ [][Next]_vars
=============================================================================
