------------------------------ MODULE DrawState -----------------------------
(***************************************************************************)
(* What the GL context has bound when a command draws (OGL_Commands.cpp,   *)
(* OGL_Window.cpp).                                                        *)
(*                                                                         *)
(* A frame executes the commands of a pipeline one after the other on one  *)
(* context: whatever a command does not set is what an earlier command, or *)
(* an earlier frame, left there.  Commands hold pointers to materials,     *)
(* cameras and compute objects and read them when they are executed.       *)
(*                                                                         *)
(* Buffers and textures are names; the GL object behind a name changes     *)
(* from tick to tick (CycleBuffer, TextureQueue).  How commands are made   *)
(* from stages, and which calls a batch has, is FrameCommands'.            *)
(***************************************************************************)
EXTENDS Integers, Sequences, FiniteSets

CONSTANTS
  Materials,      \* the materials of the application
  Object,         \* program, textures and buffers of each material and compute object
  Target,         \* of each camera: "window" or "framebuffer"
  Pipelines,      \* the sequences of commands to choose from
  Units,          \* bound: texture units
  Slots,          \* bound: binding points of a kind
  MaxSize,        \* bound: sizes of the window
  MaxDrawChanges  \* bound: changes of settings and size

Kinds == {"uniform", "storage"}
MaterialSettings == {"test", "write", "cull"}

None == "none"
Skip == "skip"   \* GLGE_SKIP_SLOT

IsList(s) == Len(s) \in Nat /\ DOMAIN s = 1 .. Len(s)

\* what the commands refer to
IsCommand(c) ==
  \/ c.kind = "bind" /\ c.material \in Materials
  \/ c.kind = "mesh"
  \/ c.kind = "dispatch" /\ c.compute \in DOMAIN Object
  \/ /\ c.kind = "scene" /\ c.camera \in DOMAIN Target /\ c.material \in Materials
     /\ c.shaders \in Seq(DOMAIN Object)

ASSUME DrawAssumption ==
  /\ {Units, Slots, MaxSize, MaxDrawChanges} \subseteq Nat
  /\ MaxSize >= 1
  /\ Slots >= 2   \* a batch shader reads two storage buffers of its batch
  /\ Materials \subseteq DOMAIN Object
  /\ \A c \in DOMAIN Target : Target[c] \in {"window", "framebuffer"}
  /\ \A o \in DOMAIN Object :
       LET list == Object[o].buffers IN
       /\ IsList(Object[o].textures) /\ Len(Object[o].textures) <= Units
       /\ IsList(list) /\ \A i \in DOMAIN list : list[i].kind \in Kinds
       /\ \A k \in Kinds : Cardinality({i \in DOMAIN list : list[i].kind = k}) <= Slots
  /\ \A p \in Pipelines :
       /\ IsList(p) /\ \A i \in DOMAIN p : IsCommand(p[i])
       \* executeStage_SimpleDrawRenderMesh records the two together
       /\ \A i \in DOMAIN p : p[i].kind = "mesh" => i > 1 /\ p[i - 1].kind = "bind"

VARIABLES
  pipeline,      \* the commands
  settings,      \* m_settings of each material
  turn,          \* which GL object stands behind a name since the last tick
  winSize,       \* m_size of the window
  didResize,     \* m_didResize
  gl,            \* the GL context
  dpc, dat, ds,  \* the next command; the next shader of a batch
  drawChanges

world == <<pipeline, settings, turn, winSize, drawChanges>>
drawVars == <<world, didResize, gl, dpc, dat, ds>>

\* the first use of the window gives the context its size, the first frame sets it again
DrawInit ==
  /\ pipeline \in Pipelines
  /\ settings = [m \in Materials |-> {"test", "write", "cull"}]
  /\ turn = 0
  /\ winSize = 1
  /\ didResize = TRUE
  /\ gl = [target   |-> "window",
           viewport |-> 1,
           program  |-> None,
           vao      |-> None,
           units    |-> [u \in 1 .. Units |-> None],
           slots    |-> [s \in Kinds \X (0 .. Slots - 1) |-> None],
           caps     |-> {"write"}]
  /\ dpc = "idle"
  /\ dat = 1
  /\ ds = 1
  /\ drawChanges = 0

-----------------------------------------------------------------------------
(* Between two frames *)

\* cycle buffers take turns, textures are created anew
Tick ==
  /\ dpc = "idle"
  /\ turn' = 1 - turn
  /\ UNCHANGED <<pipeline, settings, winSize, drawChanges, didResize, gl, dpc,
                 dat, ds>>

SetSettings(m, s) ==
  /\ dpc = "idle"
  /\ drawChanges < MaxDrawChanges
  /\ drawChanges' = drawChanges + 1
  /\ settings' = [settings EXCEPT ![m] = s]
  /\ UNCHANGED <<pipeline, turn, winSize, didResize, gl, dpc, dat, ds>>

Resize(s) ==
  /\ dpc = "idle"
  /\ drawChanges < MaxDrawChanges
  /\ drawChanges' = drawChanges + 1
  /\ winSize' = s
  /\ didResize' = TRUE
  /\ UNCHANGED <<pipeline, settings, turn, gl, dpc, dat, ds>>

-----------------------------------------------------------------------------
(* The bindings *)

Name(x) == <<x, turn>>

BindTextures(units, list) ==
  [u \in DOMAIN units |-> IF u <= Len(list) THEN Name(list[u]) ELSE units[u]]

\* one round of the loop over the buffers: each kind has a counter of its own,
\* and a marker only steps it
BindNext(s, b) ==
  [slots |-> IF b.buffer = Skip THEN s.slots
             ELSE [s.slots EXCEPT ![<<b.kind, s.next[b.kind]>>] = Name(b.buffer)],
   next  |-> [s.next EXCEPT ![b.kind] = @ + 1]]

BindBuffers(slots, list) ==
  LET after[i \in 0 .. Len(list)] ==
        IF i = 0 THEN [slots |-> slots, next |-> [kind \in Kinds |-> 0]]
                 ELSE BindNext(after[i - 1], list[i])
  IN  after[Len(list)].slots

\* what materials and compute objects have in common
BindObject(g, o) ==
  [g EXCEPT !.program = Object[o].program,
            !.units   = BindTextures(@, Object[o].textures),
            !.slots   = BindBuffers(@, Object[o].buffers)]

\* mutant: what the material does not ask for stays as it is
BindEnables(g, m) ==
  [BindObject(g, m) EXCEPT !.vao = m, !.caps = @ \cup settings[m]]

\* __bindMaterial: each setting is switched on or off;
\* The VAO is made when it is needed first and is the material's own.
BindMaterial(g, m) ==
  [BindObject(g, m) EXCEPT !.vao = m, !.caps = settings[m]]

\* the camera, the batch and the draw buffer at the bindings the shaders expect
BindBatch(g, c) ==
  [g EXCEPT !.slots[<<"uniform", 0>>] = Name(c.camera),
            !.slots[<<"storage", 0>>] = c.batch,
            !.slots[<<"storage", 1>>] = c.draws]

-----------------------------------------------------------------------------
(* A frame *)

\* beginFrame()
BeginFrame ==
  /\ dpc = "idle"
  /\ gl' = IF didResize THEN [gl EXCEPT !.viewport = winSize] ELSE gl
  /\ didResize' = FALSE
  /\ dpc' = "next"
  /\ dat' = 1
  /\ UNCHANGED <<world, ds>>

Current == pipeline[dat]

Ready(kind) == dpc = "next" /\ dat <= Len(pipeline) /\ Current.kind = kind

NextCommand ==
  /\ dpc' = "next"
  /\ dat' = dat + 1
  /\ ds' = 1

\* Command_BindMaterial
Bind ==
  /\ Ready("bind")
  /\ gl' = BindMaterial(gl, Current.material)
  /\ NextCommand
  /\ UNCHANGED <<world, didResize>>

\* Command_DrawMesh
DrawMesh ==
  /\ Ready("mesh")
  /\ NextCommand
  /\ UNCHANGED <<world, didResize, gl>>

\* Command_DispatchCompute
DispatchCompute ==
  /\ Ready("dispatch")
  /\ gl' = BindObject(gl, Current.compute)
  /\ NextCommand
  /\ UNCHANGED <<world, didResize>>

\* Command_DrawMeshesIndirect: viewport and framebuffer of the camera's target ...
Aim ==
  /\ Ready("scene")
  /\ gl' = [gl EXCEPT !.target = Target[Current.camera],
                      !.viewport = IF Target[Current.camera] = "window" THEN winSize ELSE 0]
  /\ dpc' = "shader"
  /\ UNCHANGED <<world, didResize, dat, ds>>

\* ... a dispatch of each batch shader ...
BatchShader ==
  /\ dpc = "shader"
  /\ ds <= Len(Current.shaders)
  /\ gl' = BindObject(BindBatch(gl, Current), Current.shaders[ds])
  /\ ds' = ds + 1
  /\ UNCHANGED <<world, didResize, dpc, dat>>

\* ... and the draw with the material
DrawBatch ==
  /\ dpc = "shader"
  /\ ds > Len(Current.shaders)
  /\ gl' = BindMaterial(gl, Current.material)
  /\ NextCommand
  /\ UNCHANGED <<world, didResize>>

EndDraws ==
  /\ dpc = "next"
  /\ dat > Len(pipeline)
  /\ dpc' = "idle"
  /\ UNCHANGED <<world, didResize, gl, dat, ds>>

-----------------------------------------------------------------------------

DrawNext ==
  \/ Tick
  \/ \E m \in Materials, s \in SUBSET MaterialSettings : SetSettings(m, s)
  \/ \E s \in 1 .. MaxSize : Resize(s)
  \/ BeginFrame
  \/ Bind
  \/ DrawMesh
  \/ DispatchCompute
  \/ Aim
  \/ BatchShader
  \/ DrawBatch
  \/ EndDraws

DrawSpec == DrawInit /\ [][DrawNext]_drawVars
=============================================================================
