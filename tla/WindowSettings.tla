--------------------------- MODULE WindowSettings ---------------------------
(***************************************************************************)
(* The settings of a window (Window.cpp, API_Window.h, OGL_Window.cpp).    *)
(* Setters write m_settings_requested; every frame sends the differences   *)
(* to SDL and copies them to m_settings; window events overwrite both.     *)
(* resizable stands for the flags that reach SDL as they are requested:    *)
(* fullscreen, hidden, mouse_grabbed, modal, always_on_top,                *)
(* keyboard_grabbed, can_not_focus and relative.  borderless does not.     *)
(*                                                                         *)
(* External: SDL and the window manager.  SDL_HINT_VIDEO_SYNC_WINDOW_-     *)
(* OPERATIONS is 0, so a request is carried out later; leaving the         *)
(* minimized state emits RESTORED, then MAXIMIZED if it was maximized.     *)
(***************************************************************************)
EXTENDS Integers, Sequences

CONSTANTS Extents \* the sizes a window may have

ASSUME WindowAssumption == Extents # {}

WindowState == {"normal", "minimized", "maximized"}
VSync    == {"off", "on", "adaptive"}
WindowOp == {"minimize", "maximize", "restore"}
WindowFlags == [minimized : BOOLEAN, maximized : BOOLEAN, resizable : BOOLEAN,
                borderless : BOOLEAN]

VARIABLES
  settings,          \* m_settings
  settingsRequested, \* m_settings_requested
  vsync, vsRequest,  \* m_vsync, m_vs_request
  winSize,           \* Window::m_size
  didResize,         \* the backend's m_didResize
  viewport,          \* the GL viewport
  resized,           \* Window::m_didResize
  closing,           \* m_requestedClosing
  asked,             \* a setter for a flag was called
  sdl,               \* the window as SDL has it
  ops                \* SDL requests on their way to the window manager

windowVars == <<settings, settingsRequested, vsync, vsRequest, winSize, didResize,
                viewport, resized, closing, asked, sdl, ops>>

\* constructed in any of its states, with a border
WindowInit ==
  /\ \E state \in WindowState, adaptive \in BOOLEAN :
       /\ sdl = [state |-> state, wasMaximized |-> FALSE, resizable |-> TRUE,
                 bordered |-> TRUE, interval |-> 0, adaptive |-> adaptive]
       /\ settings = [minimized |-> state = "minimized", maximized |-> state = "maximized",
                      resizable |-> TRUE, borderless |-> FALSE]
  /\ settingsRequested = settings
  /\ vsync = "off"
  /\ vsRequest = "off"
  /\ winSize = CHOOSE s \in Extents : TRUE
  /\ didResize = TRUE
  /\ viewport = winSize
  /\ resized = FALSE
  /\ closing = FALSE
  /\ asked = FALSE
  /\ ops = <<>>

-----------------------------------------------------------------------------
(* The application, outside Instance::update() *)

SetWindowFlag(f, b) ==
  /\ settingsRequested' = [settingsRequested EXCEPT ![f] = b]
  /\ asked' = TRUE
  /\ UNCHANGED <<settings, vsync, vsRequest, winSize, didResize, viewport, resized, closing, sdl, ops>>

SetVsync(v) ==
  /\ vsRequest' = v
  /\ UNCHANGED <<settings, settingsRequested, vsync, winSize, didResize, viewport, resized, closing,
                 asked, sdl, ops>>

RequestClosing ==
  /\ closing' = TRUE
  /\ UNCHANGED <<settings, settingsRequested, vsync, vsRequest, winSize, didResize, viewport,
                 resized, asked, sdl, ops>>

HandledResize ==
  /\ resized' = FALSE
  /\ UNCHANGED <<settings, settingsRequested, vsync, vsRequest, winSize, didResize, viewport,
                 closing, asked, sdl, ops>>

\* what update() asks SDL for; the maximized flag is compared after the
\* minimized one has been stored
Requests(s, r) ==
  (IF s.minimized = r.minimized THEN <<>>
   ELSE IF r.minimized THEN <<"minimize">>
   ELSE IF r.maximized THEN <<"restore", "maximize">>
   ELSE <<"restore">>)
  \o (IF s.maximized = r.maximized \/ r.minimized THEN <<>>
      ELSE IF r.maximized THEN <<"maximize">>
      ELSE <<"restore">>)

\* SDL_GL_SetSwapInterval, with vsync where adaptive vsync is not available
Interval(v) ==
  CASE v = "off"      -> 0
    [] v = "on"       -> 1
    [] v = "adaptive" -> IF sdl.adaptive THEN -1 ELSE 1

\* what SDL shows after update() has handed on a flag that is requested anew
Forwarded(f, shown) == IF settings[f] = settingsRequested[f] THEN shown ELSE settingsRequested[f]

\* beginFrame(): update(), then the viewport unless minimized.  The borderless
\* flag goes to SDL_SetWindowBordered() as it is.
BeginFrame ==
  /\ settings' = settingsRequested
  /\ vsync' = vsRequest
  /\ sdl' = [sdl EXCEPT !.resizable = Forwarded("resizable", @),
                        !.bordered = Forwarded("borderless", @),
                        !.interval = IF vsync = vsRequest THEN @ ELSE Interval(vsRequest)]
  /\ ops' = ops \o Requests(settings, settingsRequested)
  /\ IF ~settingsRequested.minimized /\ didResize
     THEN viewport' = winSize /\ didResize' = FALSE
     ELSE UNCHANGED <<viewport, didResize>>
  /\ UNCHANGED <<settingsRequested, vsRequest, winSize, resized, closing, asked>>

-----------------------------------------------------------------------------
(* Window::handleEvent, for the events of this window *)

\* s with the flags that an event tells
Told(flags, s) == [f \in DOMAIN s |-> IF f \in DOMAIN flags THEN flags[f] ELSE s[f]]

\* mutant: an event leaves the requested settings alone
BelieveOnly(flags) ==
  /\ settings' = Told(flags, settings)
  /\ UNCHANGED <<settingsRequested, vsync, vsRequest, winSize, didResize, viewport, resized, closing,
                 asked, sdl, ops>>

\* an event tells how the window is: a request that differs is forgotten
Believe(flags) ==
  /\ settings' = Told(flags, settings)
  /\ settingsRequested' = Told(flags, settingsRequested)
  /\ UNCHANGED <<vsync, vsRequest, winSize, didResize, viewport, resized, closing, asked, sdl, ops>>

OnMinimized == Believe([minimized |-> TRUE])
OnMaximized == Believe([maximized |-> TRUE])

\* the flags are read now, not when the event was sent
OnRestored ==
  Believe([minimized |-> sdl.state = "minimized", maximized |-> sdl.state = "maximized"])

OnSizeChange(s) ==
  /\ winSize' = s
  /\ didResize' = TRUE
  /\ resized' = TRUE
  /\ UNCHANGED <<settings, settingsRequested, vsync, vsRequest, viewport, closing, asked, sdl, ops>>

OnCloseRequest == RequestClosing

-----------------------------------------------------------------------------
(* External: what an operation does to the window, and the events it sends *)

Carried(op) ==
  CASE op = "minimize" -> "minimized"
    [] op = "maximize" -> "maximized"
    [] op = "restore"  -> IF sdl.state = "minimized" /\ sdl.wasMaximized THEN "maximized" ELSE "normal"

Emitted(op) ==
  IF sdl.state = Carried(op) THEN <<>>
  ELSE CASE Carried(op) = "minimized" -> <<"MINIMIZED">>
         [] Carried(op) = "normal"    -> <<"RESTORED">>
         [] Carried(op) = "maximized" -> IF sdl.state = "minimized" THEN <<"RESTORED", "MAXIMIZED">>
                                                                    ELSE <<"MAXIMIZED">>

CarryOut(op) ==
  /\ sdl' = [sdl EXCEPT !.state = Carried(op),
                        !.wasMaximized = /\ op = "minimize"
                                         /\ sdl.state = "maximized" \/ (sdl.state = "minimized" /\ @)]
  /\ UNCHANGED <<settings, settingsRequested, vsync, vsRequest, winSize, didResize, viewport,
                 resized, closing, asked>>
=============================================================================
