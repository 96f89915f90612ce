------------------------------ MODULE DrawProps -----------------------------
(***************************************************************************)
(* What a draw may rely on in the GL context.                              *)
(***************************************************************************)
EXTENDS DrawState, FiniteSets

\* The types of the variables; the index of the batch shader stays within the
\* shaders of the batch and starts anew with every command.
DrawTypes ==
  /\ pipeline \in Pipelines
  /\ settings \in [Materials -> SUBSET MaterialSettings]
  /\ turn \in {0, 1}
  /\ winSize \in 1 .. MaxSize
  /\ didResize \in BOOLEAN
  /\ gl.target \in {"window", "framebuffer"}
  /\ gl.viewport \in 0 .. MaxSize
  /\ gl.caps \subseteq MaterialSettings
  /\ DOMAIN gl.units = 1 .. Units
  /\ DOMAIN gl.slots = Kinds \X (0 .. Slots - 1)
  /\ dpc \in {"idle", "next", "shader"}
  /\ dat \in 1 .. Len(pipeline) + 1
  /\ IF dpc = "shader" THEN Current.kind = "scene" /\ ds \in 1 .. Len(Current.shaders) + 1
                      ELSE ds = 1
  /\ drawChanges \in 0 .. MaxDrawChanges

\* the command that was executed just now
Executed(kinds) == dpc = "next" /\ dat > 1 /\ pipeline[dat - 1].kind \in kinds

LastCmd == pipeline[dat - 1]

DrawnMaterial ==
  IF LastCmd.kind = "mesh" THEN pipeline[dat - 2].material ELSE LastCmd.material

\* The slot that the i-th buffer of a list is meant for: as many of its kind are
\* listed before it.
MeantSlot(list, i) ==
  <<list[i].kind, Cardinality({j \in 1 .. i - 1 : list[j].kind = list[i].kind})>>

Bound(o) ==
  /\ gl.program = Object[o].program
  /\ \A u \in DOMAIN Object[o].textures : gl.units[u] = Name(Object[o].textures[u])
  /\ \A i \in DOMAIN Object[o].buffers :
       Object[o].buffers[i].buffer # Skip =>
         gl.slots[MeantSlot(Object[o].buffers, i)] = Name(Object[o].buffers[i].buffer)

\* Material.h:80, "the combination of a shader with the data used in the shader
\* invocation": every draw has the program, the textures, the buffers (their GL
\* objects of this tick), the vertex array and the depth and culling settings of
\* its material, the newest ones, whatever was bound by the commands before it.
DrawsUseTheirMaterial ==
  Executed({"mesh", "scene"}) =>
    /\ Bound(DrawnMaterial)
    /\ gl.vao = DrawnMaterial
    /\ gl.caps = settings[DrawnMaterial]

\* Objects that leave the bindings of a batch free: the list begins with markers
\* for them or does not reach them.
LeavesFree(o, bindings) ==
  \A i \in DOMAIN Object[o].buffers :
    MeantSlot(Object[o].buffers, i) \in bindings => Object[o].buffers[i].buffer = Skip

ForDraw   == {<<"uniform", 0>>, <<"storage", 0>>}
ForShader == ForDraw \cup {<<"storage", 1>>}

\* OGL_Commands.h:311, "always mapped to binding = 0": a scene is drawn into the
\* target of its camera, over all of it, with its own camera and batch at the
\* bindings of the shaders, provided it has a batch shader and the objects
\* involved leave these bindings free.
SceneDrawsUseTheirCamera ==
  Executed({"scene"}) =>
    LET c == LastCmd IN
    /\ gl.target = Target[c.camera]
    /\ gl.viewport = IF gl.target = "window" THEN winSize ELSE 0
    /\ /\ c.shaders # <<>>
       /\ LeavesFree(c.material, ForDraw)
       /\ \A i \in DOMAIN c.shaders : LeavesFree(c.shaders[i], ForDraw)
       => /\ gl.slots[<<"uniform", 0>>] = Name(c.camera)
          /\ gl.slots[<<"storage", 0>>] = c.batch

\* OGL_Commands.h:311-313, "always mapped to binding = 0" and "= 1": a batch
\* shader runs with the batch and the draw buffer of its own command and with its
\* own program and data, also when it is not the first of the batch.
ShadersSeeTheirBatch ==
  dpc = "shader" /\ ds > 1 =>
    LET s == Current.shaders[ds - 1] IN
    /\ Bound(s)
    /\ LeavesFree(s, ForShader) =>
         /\ gl.slots[<<"uniform", 0>>] = Name(Current.camera)
         /\ gl.slots[<<"storage", 0>>] = Current.batch
         /\ gl.slots[<<"storage", 1>>] = Current.draws

OnlyWindow ==
  \A i \in DOMAIN pipeline :
    pipeline[i].kind = "scene" => Target[pipeline[i].camera] = "window"

\* In a pipeline whose scenes are all drawn into the window, single meshes are
\* drawn into the window too, over its present size, although nothing but the
\* flag of a resize and the scenes set the viewport.
MeshesFillTheWindow ==
  Executed({"mesh"}) /\ OnlyWindow => gl.target = "window" /\ gl.viewport = winSize

\* Whatever is drawn or dispatched for a scene or a mesh finds the context as its
\* command means it, in every order of the commands and from frame to frame.
BindingsAreOwn ==
  DrawsUseTheirMaterial /\ SceneDrawsUseTheirCamera /\ ShadersSeeTheirBatch /\ MeshesFillTheWindow
=============================================================================
