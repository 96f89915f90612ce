--------------------------- MODULE InstanceProps ----------------------------
(***************************************************************************)
(* What the layers, the window and the meshes promise.                     *)
(***************************************************************************)
EXTENDS InstanceUpdate

\* The types of the variables.
LoopTypes ==
  /\ \A keys \in {pressed, enabled, released, repeated, pressedBefore} : keys \subseteq Bits
  /\ DOMAIN mapping \subseteq Mice
  /\ DOMAIN mice = DOMAIN currentBefore
  /\ \A i \in DOMAIN mice : mice[i] \in [current : SUBSET Buttons, pressed : SUBSET Buttons,
                                         released : SUBSET Buttons]
  /\ {settings, settingsRequested} \subseteq WindowFlags
  /\ {vsync, vsRequest} \subseteq VSync
  /\ {winSize, viewport} \subseteq Extents
  /\ sdl.state \in WindowState
  /\ ops \in Seq(WindowOp)
  /\ inst \in {"null", "one", "live"}
  /\ windows \in 0 .. opened
  /\ opening => opened > windows
  /\ DOMAIN versions = DOMAIN meshes
  /\ ToSet(freeList) \subseteq DOMAIN meshes
  /\ \A t \in Threads : checked[t] \in handles \cup {NoHandle}
  /\ round \in {"idle", "poll", "sample"}

\* registers and edges: a change since the last update shows as an edge, and an
\* edge is never invented
EdgesTell(before, now, down, up) ==
  /\ now \ before \subseteq down
  /\ before \ now \subseteq up
  /\ down \subseteq now \cup up

\* KeyLayer: after the events of an update a key that others do not share is
\* pressed exactly if it is held, although its bit is written and read through
\* different offsets; what changed since the last update is told by the
\* registers of the edges.  A key that went down is in enabled, "the keys that
\* where pressed this tick" (Keys.h:369), unless it was repeated in the same
\* update: handleEvent() then moves it to repeated.
KeysFollowKeyboard ==
  /\ EdgesTell(pressedBefore, pressed, enabled \cup repeated, released)
  /\ driven = "keys" /\ events = <<>> =>
       \A k \in PhysicalKeys :
         (\A other \in PhysicalKeys : MapKey(other) = MapKey(k) => other = k) =>
           (IsSignaled(MapKey(k), pressed) <=> k \in heldKeys)

\* no two of the mice that sent events share an entry
Distinct == IsInjective(mapping)

\* MouseLayer and the sampled mice: a mouse has the buttons down that are held
\* on it, the edges tell what changed, and the global mouse has the buttons that
\* are held on any.  Only the global mouse has them at the indices of Mouse.h:28,
\* where GLGE_MOUSE_LEFT is 0; the layer has them where SDL counts them, from 1,
\* so mouse_isPressed(GLGE_MOUSE_LEFT) of a mouse of the layer is never true and
\* GLGE_MOUSE_MIDDLE asks for the left button.
MiceFollowButtons ==
  /\ \A i \in DOMAIN mice :
       EdgesTell(currentBefore[i], mice[i].current, mice[i].pressed, mice[i].released)
  /\ Distinct /\ ~LoopCrashed /\ driven = "mice" /\ events = <<>> =>
       /\ \A m \in DOMAIN mapping : mice[mapping[m]].current = heldButtons[m]
       /\ round = "idle" =>
            globalMouse.current = {b - 1 : b \in UNION {heldButtons[m] : m \in Mice}}

\* Keyboard and mice as the application sees them.
InputEdges == KeysFollowKeyboard /\ MiceFollowButtons

\* The window: when nothing is on its way, the settings are what SDL shows and
\* the viewport is the size of the window, in whatever order requests, events
\* and the window manager came; and without a request nothing is asked of SDL.
\* The exception is borderless, "say if the window is borderless": update()
\* hands it to SDL_SetWindowBordered() (OGL_Window.cpp:115), so a window that
\* was made borderless keeps its border.
WindowSettles ==
  /\ ops = <<>> /\ events = <<>> /\ settings = settingsRequested =>
       /\ settings.minimized <=> sdl.state = "minimized"
       /\ ~settings.minimized => (settings.maximized <=> sdl.state = "maximized")
       /\ settings.resizable = sdl.resizable
       /\ settings.borderless => sdl.bordered
  /\ ~didResize => viewport = winSize
  /\ vsync = "on" => sdl.interval = 1
  /\ ~asked => ops = <<>>

LiveHandles == {h \in handles : destroyed[h.mesh] = 0}

\* RenderMeshRegistry: however threads destroy meshes through shared handles,
\* a handle is valid exactly as long as the mesh create() made for it lives, and
\* no mesh is destroyed twice.  As long as no mesh has outlived its instance and
\* been destroyed in a later one, the meshes of an instance have regions of
\* their own, which are all that its arenas hold, and the GPU finds them.
MeshesApart ==
  /\ \A h \in handles :
       /\ destroyed[h.mesh] <= 1
       /\ IsValid(h) <=> destroyed[h.mesh] = 0
       /\ IsValid(h) => meshes[h.idx].mesh = h.mesh
  /\ ~LoopCrashed /\ ~stray /\ inst = "live" =>
       LET present == {meshes[h.idx] : h \in {g \in LiveHandles : meshes[g.idx].generation = generation}}
       IN /\ arena = {m.region : m \in present}
          /\ Cardinality(arena) = Cardinality(present)
          /\ \A h \in LiveHandles :
               meshes[h.idx] \in present => meshBuffer[h.idx] = meshes[h.idx].region
=============================================================================
