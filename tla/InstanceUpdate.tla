--------------------------- MODULE InstanceUpdate ---------------------------
(***************************************************************************)
(* Instance::update() (Backend/Instance.cpp): the layers forget the edges  *)
(* of the last update, every SDL event goes to the layer it is for, the    *)
(* global and the relative mouse are sampled, and the backend is ticked.   *)
(* The user, the window manager and, for meshes, other threads act at any  *)
(* time; the application acts between two updates.                         *)
(*                                                                         *)
(* The layer stacks belong to the core library: sendEvent() is taken to    *)
(* call the layers at once.  A behaviour exercises one subject: the parts  *)
(* share nothing but the loop.                                             *)
(***************************************************************************)
EXTENDS KeyLayer, MouseLayer, WindowSettings, MeshRegistry

CONSTANTS
  OtherWindow, \* a window of SDL that is not this one
  ThisWindow,
  MaxInputs    \* bound: what the user and the application do

VARIABLES
  driven,                      \* what this behaviour exercises
  round,                       \* where update() is
  events,                      \* the SDL event queue
  heldKeys,                    \* the keys that are down
  heldButtons,                 \* the buttons that are down, by mouse
  globalMouse, relativeMouse,  \* m_globalMouse, m_relativeMouse
  inputs                       \* number of inputs so far

layerVars == <<keyVars, mouseVars, windowVars>>
userVars  == <<heldKeys, heldButtons, inputs>>
miceVars  == <<globalMouse, relativeMouse>>
loopVars == <<layerVars, meshVars, userVars, miceVars, driven, round, events>>

Driven == {"keys", "mice", "window", "meshes"}

LoopInit ==
  /\ driven \in Driven
  /\ KeysInit
  /\ MiceInit /\ (driven # "mice" => mapping = <<>>)
  /\ WindowInit /\ (driven # "window" => sdl.state = "normal" /\ ~sdl.adaptive)
  /\ MeshInit(driven # "meshes")
  /\ round = "idle"
  /\ events = <<>>
  /\ heldKeys = {}
  /\ heldButtons = [m \in Mice |-> {}]
  /\ globalMouse = Untouched
  /\ relativeMouse = Untouched
  /\ inputs = 0

-----------------------------------------------------------------------------
(* External: the user; SDL queues the events in the order they happen *)

Input(s) ==
  /\ driven = s
  /\ inputs < MaxInputs
  /\ inputs' = inputs + 1
  /\ UNCHANGED <<driven, round>>

Queue(type, of, data) == events' = Append(events, [type |-> type, of |-> of, data |-> data])

\* a key goes down or, when it is held, repeats
PressKey(k) ==
  /\ Input("keys")
  /\ heldKeys' = heldKeys \cup {k}
  /\ Queue("KEY_DOWN", k, 0)
  /\ UNCHANGED <<layerVars, meshVars, heldButtons, miceVars>>

ReleaseKey(k) ==
  /\ Input("keys")
  /\ k \in heldKeys
  /\ heldKeys' = heldKeys \ {k}
  /\ Queue("KEY_UP", k, 0)
  /\ UNCHANGED <<layerVars, meshVars, heldButtons, miceVars>>

PressButton(m, b) ==
  /\ Input("mice")
  /\ b \notin heldButtons[m]
  /\ heldButtons' = [heldButtons EXCEPT ![m] = @ \cup {b}]
  /\ Queue("BUTTON_DOWN", m, b)
  /\ UNCHANGED <<layerVars, meshVars, heldKeys, miceVars>>

ReleaseButton(m, b) ==
  /\ Input("mice")
  /\ b \in heldButtons[m]
  /\ heldButtons' = [heldButtons EXCEPT ![m] = @ \ {b}]
  /\ Queue("BUTTON_UP", m, b)
  /\ UNCHANGED <<layerVars, meshVars, heldKeys, miceVars>>

MoveMouse(m) ==
  /\ Input("mice")
  /\ Queue("MOTION", m, 0)
  /\ UNCHANGED <<layerVars, meshVars, heldKeys, heldButtons, miceVars>>

\* the user does to the window what the application may ask for
UserWindow(op) ==
  /\ Input("window")
  /\ CarryOut(op)
  /\ events' = events \o [i \in DOMAIN Emitted(op) |->
                            [type |-> Emitted(op)[i], of |-> ThisWindow, data |-> 0]]
  /\ UNCHANGED <<keyVars, mouseVars, ops, meshVars, heldKeys, heldButtons, miceVars>>

\* the user resizes or closes this window or another one
UserEvent(type, w, s) ==
  /\ Input("window")
  /\ Queue(type, w, s)
  /\ UNCHANGED <<layerVars, meshVars, heldKeys, heldButtons, miceVars>>

\* the window manager carries out what SDL was asked for
WindowManager ==
  /\ ops # <<>>
  /\ ops' = Tail(ops)
  /\ CarryOut(Head(ops))
  /\ events' = events \o [i \in DOMAIN Emitted(Head(ops)) |->
                            [type |-> Emitted(Head(ops))[i], of |-> ThisWindow, data |-> 0]]
  /\ UNCHANGED <<keyVars, mouseVars, meshVars, userVars, miceVars, driven, round>>

User ==
  \/ \E k \in PhysicalKeys : PressKey(k) \/ ReleaseKey(k)
  \/ \E m \in Mice : MoveMouse(m) \/ \E b \in Buttons : PressButton(m, b) \/ ReleaseButton(m, b)
  \/ \E op \in WindowOp : UserWindow(op)
  \/ \E w \in {ThisWindow, OtherWindow}, s \in Extents :
       UserEvent("RESIZED", w, s) \/ UserEvent("CLOSE_REQUESTED", w, s)

-----------------------------------------------------------------------------
(* The application *)

AskWindow ==
  /\ Input("window")
  /\ round = "idle"
  /\ \/ \E f \in DOMAIN settings, b \in BOOLEAN : SetWindowFlag(f, b)
     \/ \E v \in VSync : SetVsync(v)
     \/ RequestClosing \/ HandledResize
  /\ UNCHANGED <<keyVars, mouseVars, meshVars, heldKeys, heldButtons, miceVars, events>>

\* RenderPipeline::play()
Frame ==
  /\ driven = "window"
  /\ round = "idle"
  /\ BeginFrame
  /\ UNCHANGED <<keyVars, mouseVars, meshVars, userVars, miceVars, driven, round, events>>

\* windows belong to the main thread, meshes to any
UseMeshes ==
  /\ driven = "meshes"
  /\ \/ round = "idle" /\ (GetWindowFlags \/ RegisterWindow \/ DeregisterWindow)
     \/ CreateMesh
     \/ \E t \in Threads : DestroyMesh(t) \/ \E h \in handles : CheckHandle(t, h)
  /\ UNCHANGED <<layerVars, userVars, miceVars, driven, round, events>>

-----------------------------------------------------------------------------
(* Instance::update() *)

\* m_windowEventStack.update(), m_eventStack.update()
UpdateLayers ==
  /\ round = "idle"
  /\ ~opening
  /\ round' = "poll"
  /\ KeysOnUpdate
  /\ MiceOnUpdate
  /\ UNCHANGED <<windowVars, meshVars, userVars, miceVars, driven, events>>

KeyEvent(e) ==
  \/ e.type = "KEY_DOWN" /\ KeyDown(MapKey(e.of))
  \/ e.type = "KEY_UP" /\ KeyUp(MapKey(e.of))

MouseEvent(e) ==
  \/ e.type = "MOTION" /\ MouseMove(e.of)
  \/ e.type = "BUTTON_DOWN" /\ MouseDown(e.of, e.data)
  \/ e.type = "BUTTON_UP" /\ MouseUp(e.of, e.data)

\* Window::handleEvent compares the id of the window first
WindowEvent(e) ==
  /\ e.of = ThisWindow
  /\ \/ e.type = "MINIMIZED" /\ OnMinimized
     \/ e.type = "MAXIMIZED" /\ OnMaximized
     \/ e.type = "RESTORED" /\ OnRestored
     \/ e.type = "RESIZED" /\ OnSizeChange(e.data)
     \/ e.type = "CLOSE_REQUESTED" /\ OnCloseRequest

PollEvent ==
  /\ round = "poll"
  /\ events # <<>>
  /\ events' = Tail(events)
  /\ LET e == Head(events) IN
       \/ KeyEvent(e) /\ UNCHANGED <<mouseVars, windowVars>>
       \/ MouseEvent(e) /\ UNCHANGED <<keyVars, windowVars>>
       \/ WindowEvent(e) /\ UNCHANGED <<keyVars, mouseVars>>
       \/ e.of = OtherWindow /\ e.type \in {"RESIZED", "CLOSE_REQUESTED"} /\ UNCHANGED layerVars
  /\ UNCHANGED <<meshVars, userVars, miceVars, driven, round>>

EndPoll ==
  /\ round = "poll"
  /\ events = <<>>
  /\ round' = "sample"
  /\ UNCHANGED <<layerVars, meshVars, userVars, miceVars, driven, events>>

\* SDL_GetGlobalMouseState: bit b - 1 for button b of any mouse
Mask == {b - 1 : b \in UNION {heldButtons[m] : m \in Mice}}

MouseSampled(old) == [current |-> Mask, pressed |-> Mask \ old.current, released |-> old.current \ Mask]

\* the specific mice, m_inst->tick() and m_inst->onUpdate()
SampleAndTick ==
  /\ round = "sample"
  /\ round' = "idle"
  /\ globalMouse' = MouseSampled(globalMouse)
  /\ relativeMouse' = MouseSampled(relativeMouse)
  /\ UseInstance
  /\ UNCHANGED <<layerVars, lifeVars, gpuVars, registry, stray, userVars, driven, events>>

-----------------------------------------------------------------------------

LoopCrashed == outOfBounds \/ dereferenced

\* the program is over after a crash
LoopOver == LoopCrashed /\ UNCHANGED loopVars

LoopNext ==
  \/ /\ ~LoopCrashed
     /\ \/ User \/ WindowManager
        \/ AskWindow \/ Frame
        \/ UseMeshes
        \/ UpdateLayers \/ PollEvent \/ EndPoll \/ SampleAndTick
  \/ LoopOver

LoopSpec == LoopInit /\ [][LoopNext]_loopVars
=============================================================================
