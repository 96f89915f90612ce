--------------------------- MODULE InstanceProofs ---------------------------
(***************************************************************************)
(* Proofs about the layers, the window and the meshes that Instance serves *)
(* (InstanceUpdate), for any number of keys, mice, windows, meshes, inputs *)
(* and threads.                                                            *)
(***************************************************************************)
EXTENDS InstanceProps, FiniteSetTheorems, SequenceTheorems, TLAPS

-----------------------------------------------------------------------------
(* Events that are still in the queue *)

\* the last event of a kind, a set of events
IsLast(i, kind, queue) ==
  /\ i \in DOMAIN queue /\ queue[i] \in kind
  /\ \A j \in DOMAIN queue : j > i => queue[j] \notin kind

NoneOf(kind, queue) == \A i \in DOMAIN queue : queue[i] \notin kind

\* The last event of a kind is one of yes exactly if now holds; without such an
\* event, told holds: its receiver knows.
WillKnow(kind, yes, queue, now, told) ==
  /\ \A i \in DOMAIN queue : IsLast(i, kind, queue) => (queue[i] \in yes <=> now)
  /\ NoneOf(kind, queue) => told

\* An event is taken from the queue: its receiver learns of it when it was the
\* last of its kind, and forgets nothing because of another.
LEMMA AfterPoll ==
  ASSUME NEW S, NEW queue \in Seq(S), queue # <<>>, NEW kind, NEW yes,
         NEW now \in BOOLEAN, NEW told \in BOOLEAN, NEW toldNext \in BOOLEAN,
         WillKnow(kind, yes, queue, now, told),
         Head(queue) \in kind => ((Head(queue) \in yes <=> now) => toldNext),
         Head(queue) \notin kind => (told => toldNext)
  PROVE  WillKnow(kind, yes, Tail(queue), now, toldNext)
<1>1. /\ Tail(queue) \in Seq(S) /\ Len(Tail(queue)) = Len(queue) - 1
      /\ \A i \in 1 .. Len(queue) - 1 : Tail(queue)[i] = queue[i + 1]
      /\ Len(queue) \in Nat \ {0}
      /\ DOMAIN Tail(queue) = 1 .. Len(queue) - 1 /\ DOMAIN queue = 1 .. Len(queue)
      /\ Head(queue) = queue[1]
  BY HeadTailProperties, LenProperties, EmptySeq
<1>2. ASSUME NEW i \in DOMAIN Tail(queue), IsLast(i, kind, Tail(queue))
      PROVE  Tail(queue)[i] \in yes <=> now
  <2>1. i + 1 \in DOMAIN queue /\ queue[i + 1] = Tail(queue)[i] /\ i \in Nat
    BY <1>1
  <2>2. ASSUME NEW j \in DOMAIN queue, j > i + 1 PROVE queue[j] \notin kind
    <3>1. j - 1 \in DOMAIN Tail(queue) /\ j - 1 > i /\ Tail(queue)[j - 1] = queue[j]
      BY <1>1, <2>1, <2>2
    <3> QED
      BY <1>2, <3>1 DEF IsLast
  <2>3. IsLast(i + 1, kind, queue)
    BY <1>2, <2>1, <2>2 DEF IsLast
  <2> QED
    BY <2>1, <2>3 DEF WillKnow
<1>3. ASSUME NoneOf(kind, Tail(queue))
      PROVE  toldNext
  <2>1. ASSUME NEW j \in DOMAIN queue, j > 1 PROVE queue[j] \notin kind
    <3>1. j - 1 \in DOMAIN Tail(queue) /\ Tail(queue)[j - 1] = queue[j]
      BY <1>1, <2>1
    <3> QED
      BY <1>3, <3>1 DEF NoneOf
  <2>2. CASE Head(queue) \in kind
    <3>1. IsLast(1, kind, queue)
      BY <1>1, <2>1, <2>2 DEF IsLast
    <3> QED
      BY <1>1, <2>2, <3>1 DEF WillKnow
  <2>3. CASE Head(queue) \notin kind
    <3>1. NoneOf(kind, queue)
      BY <1>1, <2>1, <2>3 DEF NoneOf
    <3> QED
      BY <2>3, <3>1 DEF WillKnow
  <2> QED
    BY <2>2, <2>3
<1> QED
  BY <1>2, <1>3 DEF WillKnow

\* An event of another kind is queued.
LEMMA OtherQueued ==
  ASSUME NEW S, NEW queue \in Seq(S), NEW e \in S, NEW kind, NEW yes,
         NEW now \in BOOLEAN, NEW told \in BOOLEAN,
         e \notin kind, WillKnow(kind, yes, queue, now, told)
  PROVE  WillKnow(kind, yes, Append(queue, e), now, told)
<1> DEFINE next == Append(queue, e)
           n == Len(queue) + 1
<1>1. /\ DOMAIN next = 1 .. n /\ DOMAIN queue = 1 .. n - 1 /\ n \in Nat \ {0}
      /\ \A i \in 1 .. n - 1 : next[i] = queue[i]
      /\ next[n] = e
  BY AppendProperties, LenProperties
<1> HIDE DEF next, n
<1>2. ASSUME NEW i \in DOMAIN next, IsLast(i, kind, next)
      PROVE  next[i] \in yes <=> now
  <2>1. i \in DOMAIN queue /\ IsLast(i, kind, queue) /\ next[i] = queue[i]
    BY <1>1, <1>2 DEF IsLast
  <2> QED
    BY <2>1 DEF WillKnow
<1>3. ASSUME NoneOf(kind, next)
      PROVE  told
  <2>1. NoneOf(kind, queue)
    BY <1>1, <1>3 DEF NoneOf
  <2> QED
    BY <2>1 DEF WillKnow
<1>4. WillKnow(kind, yes, next, now, told)
  BY <1>2, <1>3 DEF WillKnow
<1> QED
  BY <1>4 DEF next

\* An event of the kind is queued that tells what is true now.
LEMMA LastQueued ==
  ASSUME NEW S, NEW queue \in Seq(S), NEW e \in S, NEW kind, NEW yes,
         NEW now \in BOOLEAN, NEW told \in BOOLEAN,
         e \in kind, e \in yes <=> now
  PROVE  WillKnow(kind, yes, Append(queue, e), now, told)
<1> DEFINE next == Append(queue, e)
           n == Len(queue) + 1
<1>1. DOMAIN next = 1 .. n /\ n \in Nat \ {0} /\ next[n] = e
  BY AppendProperties, LenProperties
<1> HIDE DEF next, n
<1>2. ~NoneOf(kind, next)
  BY <1>1 DEF NoneOf
<1>3. \A i \in DOMAIN next : IsLast(i, kind, next) => i = n
  BY <1>1 DEF IsLast
<1>4. WillKnow(kind, yes, next, now, told)
  BY <1>1, <1>2, <1>3 DEF WillKnow
<1> QED
  BY <1>4 DEF next

\* Nothing is queued or taken.
LEMMA SameQueue ==
  ASSUME NEW queue, NEW kind, NEW yes, NEW now \in BOOLEAN, NEW told \in BOOLEAN,
         NEW nowNext \in BOOLEAN, NEW toldNext \in BOOLEAN,
         WillKnow(kind, yes, queue, now, told), now <=> nowNext, told => toldNext
  PROVE  WillKnow(kind, yes, queue, nowNext, toldNext)
BY DEF WillKnow
-----------------------------------------------------------------------------
(* The events there are *)

KeyEvents    == [type : {"KEY_DOWN", "KEY_UP"}, of : PhysicalKeys, data : {0}]
ButtonEvents == [type : {"BUTTON_DOWN", "BUTTON_UP"}, of : Mice, data : Buttons]
MotionEvents == [type : {"MOTION"}, of : Mice, data : {0}]
StateEvents  == [type : {"MINIMIZED", "MAXIMIZED", "RESTORED"}, of : {ThisWindow}, data : {0}]
WindowEvents == [type : {"RESIZED", "CLOSE_REQUESTED"}, of : {ThisWindow, OtherWindow}, data : Extents]

Event == UNION {KeyEvents, ButtonEvents, MotionEvents, StateEvents, WindowEvents}

SdlWindow == [state : WindowState, wasMaximized : BOOLEAN, resizable : BOOLEAN,
              bordered : BOOLEAN, interval : Int, adaptive : BOOLEAN]

\* the types of the queue, of the window and of what is asked of SDL
QueueTypes ==
  /\ events \in Seq(Event)
  /\ ops \in Seq(WindowOp)
  /\ sdl \in SdlWindow
  /\ settings \in WindowFlags
  /\ settingsRequested \in WindowFlags
  /\ vsync \in VSync
  /\ vsRequest \in VSync
  /\ winSize \in Extents
  /\ viewport \in Extents
  /\ didResize \in BOOLEAN
  /\ asked \in BOOLEAN

\* at most two events of a set are queued
Queues(set) ==
  \/ events' = events
  \/ \E e \in set : events' = Append(events, e)
  \/ \E e, f \in set : events' = Append(Append(events, e), f)

StateEvent(type) == [type |-> type, of |-> ThisWindow, data |-> 0]

LEMMA AppendTwo ==
  ASSUME NEW S, NEW queue \in Seq(S), NEW e \in S, NEW f \in S
  PROVE  queue \o <<e, f>> = Append(Append(queue, e), f)
<1> DEFINE left == queue \o <<e, f>>
           right == Append(Append(queue, e), f)
<1>1. Len(queue) \in Nat /\ <<e, f>> \in Seq(S) /\ Len(<<e, f>>) = 2
  OBVIOUS
<1>2. /\ left \in Seq(S) /\ Len(left) = Len(queue) + 2
      /\ \A i \in 1 .. Len(queue) + 2 :
           left[i] = IF i <= Len(queue) THEN queue[i] ELSE <<e, f>>[i - Len(queue)]
  BY <1>1, ConcatProperties
<1>3. /\ right \in Seq(S) /\ Len(right) = Len(queue) + 2
      /\ \A i \in 1 .. Len(queue) : right[i] = queue[i]
      /\ right[Len(queue) + 1] = e /\ right[Len(queue) + 2] = f
  <2>1. /\ Append(queue, e) \in Seq(S) /\ Len(Append(queue, e)) = Len(queue) + 1
        /\ \A i \in 1 .. Len(queue) : Append(queue, e)[i] = queue[i]
        /\ Append(queue, e)[Len(queue) + 1] = e
    BY AppendProperties
  <2> QED
    BY <1>1, <2>1, AppendProperties
<1> HIDE DEF left, right
<1>4. \A i \in 1 .. Len(left) : left[i] = right[i]
  <2> SUFFICES ASSUME NEW i \in 1 .. Len(queue) + 2 PROVE left[i] = right[i]
    BY <1>2
  <2>1. i <= Len(queue) \/ i = Len(queue) + 1 \/ i = Len(queue) + 2
    BY <1>1
  <2> QED
    BY <1>1, <1>2, <1>3, <2>1
<1>5. left = right
  BY <1>2, <1>3, <1>4, SeqEqual
<1> QED
  BY <1>5 DEF left, right

\* What carrying out an operation makes SDL tell: the new state, last.
LEMMA Emission ==
  ASSUME QueueTypes, NEW op \in WindowOp,
         events' = events \o [i \in DOMAIN Emitted(op) |->
                                [type |-> Emitted(op)[i], of |-> ThisWindow, data |-> 0]]
  PROVE  /\ Carried(op) \in WindowState
         /\ Carried(op) = sdl.state => events' = events
         /\ Carried(op) # sdl.state =>
              events' = CASE Carried(op) = "minimized" -> Append(events, StateEvent("MINIMIZED"))
                          [] Carried(op) = "normal" -> Append(events, StateEvent("RESTORED"))
                          [] OTHER -> IF sdl.state = "minimized"
                                      THEN Append(Append(events, StateEvent("RESTORED")), StateEvent("MAXIMIZED"))
                                      ELSE Append(events, StateEvent("MAXIMIZED"))
<1>1. Carried(op) \in WindowState /\ sdl.state \in WindowState
  BY DEF Carried, WindowOp, WindowState, QueueTypes, SdlWindow
<1>2. CASE Carried(op) = sdl.state
  <2>1. Emitted(op) = <<>>
    BY <1>2 DEF Emitted
  <2>2. events' = events
    BY <2>1 DEF QueueTypes
  <2> QED
    BY <1>1, <1>2, <2>2
<1>3. ASSUME NEW type, Emitted(op) = <<type>>
      PROVE  events' = Append(events, StateEvent(type))
  <2>1. [i \in DOMAIN <<type>> |-> [type |-> <<type>>[i], of |-> ThisWindow, data |-> 0]] = <<StateEvent(type)>>
    BY DEF StateEvent
  <2>2. events' = events \o <<StateEvent(type)>>
    BY <1>3, <2>1
  <2> QED
    BY <2>2 DEF QueueTypes
<1>4. CASE Carried(op) # sdl.state /\ Carried(op) = "minimized"
  BY <1>1, <1>3, <1>4 DEF Emitted
<1>5. CASE Carried(op) # sdl.state /\ Carried(op) = "normal"
  BY <1>1, <1>3, <1>5 DEF Emitted
<1>6. CASE Carried(op) # sdl.state /\ Carried(op) = "maximized" /\ sdl.state # "minimized"
  BY <1>1, <1>3, <1>6 DEF Emitted
<1>7. CASE Carried(op) # sdl.state /\ Carried(op) = "maximized" /\ sdl.state = "minimized"
  <2> DEFINE both == <<"RESTORED", "MAXIMIZED">>
  <2>1. Emitted(op) = both
    BY <1>1, <1>7 DEF Emitted
  <2>2. [i \in DOMAIN both |-> [type |-> both[i], of |-> ThisWindow, data |-> 0]]
          = <<StateEvent("RESTORED"), StateEvent("MAXIMIZED")>>
    BY DEF StateEvent
  <2>3. events' = events \o <<StateEvent("RESTORED"), StateEvent("MAXIMIZED")>>
    BY <2>1, <2>2
  <2>4. events' = Append(Append(events, StateEvent("RESTORED")), StateEvent("MAXIMIZED"))
    <3>1. events \in Seq(Event) /\ StateEvent("RESTORED") \in Event /\ StateEvent("MAXIMIZED") \in Event
      BY DEF QueueTypes, Event, StateEvents, StateEvent
    <3>2. events \o <<StateEvent("RESTORED"), StateEvent("MAXIMIZED")>>
            = Append(Append(events, StateEvent("RESTORED")), StateEvent("MAXIMIZED"))
      BY <3>1, AppendTwo
    <3> QED
      BY <2>3, <3>2
  <2> QED
    BY <1>1, <1>7, <2>4
<1> QED
  BY <1>1, <1>2, <1>4, <1>5, <1>6, <1>7 DEF WindowState

LEMMA EmissionQueues ==
  ASSUME QueueTypes, NEW op \in WindowOp,
         events' = events \o [i \in DOMAIN Emitted(op) |->
                                [type |-> Emitted(op)[i], of |-> ThisWindow, data |-> 0]]
  PROVE  Queues(StateEvents)
<1>1. \A type \in {"MINIMIZED", "MAXIMIZED", "RESTORED"} : StateEvent(type) \in StateEvents
  BY DEF StateEvent, StateEvents
<1> QED
  BY <1>1, Emission DEF Queues

-----------------------------------------------------------------------------
(* The steps of the loop *)

\* The actions there are, one by one.
LEMMA LoopActions ==
  ASSUME [LoopNext]_loopVars
  PROVE  \/ \E k \in PhysicalKeys : ~LoopCrashed /\ (PressKey(k) \/ ReleaseKey(k))
         \/ \E m \in Mice : ~LoopCrashed /\ MoveMouse(m)
         \/ \E m \in Mice, b \in Buttons : ~LoopCrashed /\ (PressButton(m, b) \/ ReleaseButton(m, b))
         \/ \E op \in WindowOp : ~LoopCrashed /\ UserWindow(op)
         \/ \E w \in {ThisWindow, OtherWindow}, s \in Extents :
              ~LoopCrashed /\ (UserEvent("RESIZED", w, s) \/ UserEvent("CLOSE_REQUESTED", w, s))
         \/ ~LoopCrashed /\ WindowManager
         \/ ~LoopCrashed /\ AskWindow
         \/ ~LoopCrashed /\ Frame
         \/ ~LoopCrashed /\ UseMeshes
         \/ ~LoopCrashed /\ UpdateLayers
         \/ ~LoopCrashed /\ PollEvent
         \/ ~LoopCrashed /\ EndPoll
         \/ ~LoopCrashed /\ SampleAndTick
         \/ UNCHANGED loopVars
<1>1. CASE LoopNext
  <2>1. CASE ~LoopCrashed /\ User
    BY <2>1 DEF User
  <2>2. CASE ~LoopCrashed /\ ~User
    BY <1>1, <2>2 DEF LoopNext, LoopOver
  <2>3. CASE LoopCrashed
    BY <1>1, <2>3 DEF LoopNext, LoopOver
  <2> QED
    BY <2>1, <2>2, <2>3
<1> QED
  BY <1>1

\* An event of the queue comes from where such events come from.
LEMMA EventKinds ==
  ASSUME NEW e \in Event
  PROVE  /\ e.type \in {"KEY_DOWN", "KEY_UP"} => e \in KeyEvents
         /\ e.type \in {"BUTTON_DOWN", "BUTTON_UP"} => e \in ButtonEvents
         /\ e.type = "MOTION" => e \in MotionEvents
         /\ e.type \in {"MINIMIZED", "MAXIMIZED", "RESTORED"} => e \in StateEvents
         /\ e.type \in {"RESIZED", "CLOSE_REQUESTED"} => e \in WindowEvents
BY DEF Event, KeyEvents, ButtonEvents, MotionEvents, StateEvents, WindowEvents

\* What is appended to the queue has the type of an event.
LEMMA QueueKeepsTypes ==
  ASSUME events \in Seq(Event), NEW set \in SUBSET Event, Queues(set)
  PROVE  events' \in Seq(Event)
BY AppendProperties DEF Queues

\* What the window asks SDL for.
LEMMA RequestedOps ==
  ASSUME NEW s, NEW r
  PROVE  Requests(s, r) \in Seq(WindowOp)
<1>1. <<"minimize">> \in Seq(WindowOp) /\ <<"restore">> \in Seq(WindowOp)
      /\ <<"maximize">> \in Seq(WindowOp) /\ <<"restore", "maximize">> \in Seq(WindowOp)
      /\ <<>> \in Seq(WindowOp)
  BY DEF WindowOp
<1> QED
  BY <1>1 DEF Requests

\* What an event tells is believed of both, the settings and the requested ones.
LEMMA Believed ==
  ASSUME QueueTypes, NEW min \in BOOLEAN, NEW max \in BOOLEAN
  PROVE  /\ Believe([minimized |-> min]) =>
              /\ settings' = [settings EXCEPT !.minimized = min]
              /\ settingsRequested' = [settingsRequested EXCEPT !.minimized = min]
         /\ Believe([maximized |-> max]) =>
              /\ settings' = [settings EXCEPT !.maximized = max]
              /\ settingsRequested' = [settingsRequested EXCEPT !.maximized = max]
         /\ Believe([minimized |-> min, maximized |-> max]) =>
              /\ settings' = [settings EXCEPT !.minimized = min, !.maximized = max]
              /\ settingsRequested' = [settingsRequested EXCEPT !.minimized = min, !.maximized = max]
<1>1. ASSUME NEW s \in WindowFlags
      PROVE  /\ Told([minimized |-> min], s) = [s EXCEPT !.minimized = min]
             /\ Told([maximized |-> max], s) = [s EXCEPT !.maximized = max]
             /\ Told([minimized |-> min, maximized |-> max], s)
                  = [s EXCEPT !.minimized = min, !.maximized = max]
  <2>1. DOMAIN s = {"minimized", "maximized", "resizable", "borderless"}
    BY DEF WindowFlags
  <2>2. Told([minimized |-> min], s) = [s EXCEPT !.minimized = min]
    <3> DEFINE flags == [minimized |-> min]
    <3>1. DOMAIN flags = {"minimized"} /\ flags["minimized"] = min
      OBVIOUS
    <3> HIDE DEF flags
    <3>2. Told(flags, s) = [s EXCEPT !["minimized"] = min]
      BY <3>1 DEF Told
    <3> QED
      BY <3>2 DEF flags
  <2>3. Told([maximized |-> max], s) = [s EXCEPT !.maximized = max]
    <3> DEFINE flags == [maximized |-> max]
    <3>1. DOMAIN flags = {"maximized"} /\ flags["maximized"] = max
      OBVIOUS
    <3> HIDE DEF flags
    <3>2. Told(flags, s) = [s EXCEPT !["maximized"] = max]
      BY <3>1 DEF Told
    <3> QED
      BY <3>2 DEF flags
  <2>4. Told([minimized |-> min, maximized |-> max], s) = [s EXCEPT !.minimized = min, !.maximized = max]
    <3> DEFINE flags == [minimized |-> min, maximized |-> max]
    <3>1. DOMAIN flags = {"minimized", "maximized"} /\ flags["minimized"] = min /\ flags["maximized"] = max
      OBVIOUS
    <3> HIDE DEF flags
    <3>2. Told(flags, s) = [s EXCEPT !["minimized"] = min, !["maximized"] = max]
      BY <2>1, <3>1 DEF Told
    <3> QED
      BY <3>2 DEF flags
  <2> QED
    BY <2>2, <2>3, <2>4
<1> QED
  BY <1>1 DEF Believe, QueueTypes

\* What one event of the queue does to the window.
LEMMA PolledWindow ==
  ASSUME QueueTypes, PollEvent
  PROVE  LET e == Head(events)
         IN  \/ UNCHANGED windowVars /\ e \notin StateEvents
             \/ /\ e.type = "MINIMIZED"
                /\ settings' = [settings EXCEPT !.minimized = TRUE]
                /\ settingsRequested' = [settingsRequested EXCEPT !.minimized = TRUE]
                /\ UNCHANGED <<vsync, vsRequest, winSize, didResize, viewport, asked, sdl, ops>>
             \/ /\ e.type = "MAXIMIZED"
                /\ settings' = [settings EXCEPT !.maximized = TRUE]
                /\ settingsRequested' = [settingsRequested EXCEPT !.maximized = TRUE]
                /\ UNCHANGED <<vsync, vsRequest, winSize, didResize, viewport, asked, sdl, ops>>
             \/ /\ e.type = "RESTORED"
                /\ settings' = [settings EXCEPT !.minimized = (sdl.state = "minimized"),
                                                !.maximized = (sdl.state = "maximized")]
                /\ settingsRequested' = [settingsRequested EXCEPT !.minimized = (sdl.state = "minimized"),
                                                                  !.maximized = (sdl.state = "maximized")]
                /\ UNCHANGED <<vsync, vsRequest, winSize, didResize, viewport, asked, sdl, ops>>
             \/ /\ e.type = "RESIZED" /\ winSize' = e.data /\ didResize' = TRUE
                /\ UNCHANGED <<settings, settingsRequested, vsync, vsRequest, viewport, asked, sdl, ops>>
             \/ /\ e.type = "CLOSE_REQUESTED"
                /\ UNCHANGED <<settings, settingsRequested, vsync, vsRequest, winSize, didResize,
                               viewport, asked, sdl, ops>>
<1> DEFINE e == Head(events)
<1>1. CASE KeyEvent(e) /\ UNCHANGED <<mouseVars, windowVars>>
  BY <1>1 DEF KeyEvent, StateEvents
<1>2. CASE MouseEvent(e) /\ UNCHANGED <<keyVars, windowVars>>
  BY <1>2 DEF MouseEvent, StateEvents
<1>3. CASE WindowEvent(e)
  <2>1. CASE e.type = "MINIMIZED" /\ OnMinimized
    BY <2>1, Believed DEF OnMinimized, Believe
  <2>2. CASE e.type = "MAXIMIZED" /\ OnMaximized
    BY <2>2, Believed DEF OnMaximized, Believe
  <2>3. CASE e.type = "RESTORED" /\ OnRestored
    BY <2>3, Believed DEF OnRestored, Believe
  <2>4. CASE e.type = "RESIZED" /\ OnSizeChange(e.data)
    BY <2>4 DEF OnSizeChange
  <2>5. CASE e.type = "CLOSE_REQUESTED" /\ OnCloseRequest
    BY <2>5 DEF OnCloseRequest, RequestClosing
  <2> QED
    BY <1>3, <2>1, <2>2, <2>3, <2>4, <2>5 DEF WindowEvent
<1>4. CASE e.type \in {"RESIZED", "CLOSE_REQUESTED"} /\ UNCHANGED layerVars
  BY <1>4 DEF layerVars, StateEvents
<1> QED
  BY <1>1, <1>2, <1>3, <1>4 DEF PollEvent

\* The types of the queue, of SDL's window and of the requests hold on.
LEMMA QueueTypesSteps ==
  ASSUME QueueTypes, [LoopNext]_loopVars
  PROVE  QueueTypes'
<1>0. StateEvents \subseteq Event /\ KeyEvents \subseteq Event /\ ButtonEvents \subseteq Event
      /\ MotionEvents \subseteq Event /\ WindowEvents \subseteq Event
  BY DEF Event
<1>1. ASSUME NEW k \in PhysicalKeys, PressKey(k) \/ ReleaseKey(k) PROVE QueueTypes'
  <2>1. \E e \in KeyEvents : events' = Append(events, e)
    BY <1>1 DEF PressKey, ReleaseKey, Queue, KeyEvents
  <2>2. UNCHANGED windowVars
    BY <1>1 DEF PressKey, ReleaseKey, layerVars
  <2> QED
    BY <1>0, <2>1, <2>2 DEF QueueTypes, windowVars
<1>2. ASSUME NEW m \in Mice, MoveMouse(m) PROVE QueueTypes'
  <2>1. \E e \in MotionEvents : events' = Append(events, e)
    BY <1>2 DEF MoveMouse, Queue, MotionEvents
  <2>2. UNCHANGED windowVars
    BY <1>2 DEF MoveMouse, layerVars
  <2> QED
    BY <1>0, <2>1, <2>2 DEF QueueTypes, windowVars
<1>3. ASSUME NEW m \in Mice, NEW b \in Buttons, PressButton(m, b) \/ ReleaseButton(m, b)
      PROVE  QueueTypes'
  <2>1. \E e \in ButtonEvents : events' = Append(events, e)
    BY <1>3 DEF PressButton, ReleaseButton, Queue, ButtonEvents
  <2>2. UNCHANGED windowVars
    BY <1>3 DEF PressButton, ReleaseButton, layerVars
  <2> QED
    BY <1>0, <2>1, <2>2 DEF QueueTypes, windowVars
<1>4. ASSUME NEW op \in WindowOp, CarryOut(op),
             events' = events \o [i \in DOMAIN Emitted(op) |->
                                    [type |-> Emitted(op)[i], of |-> ThisWindow, data |-> 0]]
      PROVE  sdl' \in SdlWindow /\ events' \in Seq(Event)
  <2>1. Carried(op) \in WindowState
    BY <1>4, Emission
  <2>2. sdl' \in SdlWindow
    BY <1>4, <2>1 DEF CarryOut, QueueTypes, SdlWindow
  <2>3. Queues(StateEvents)
    BY <1>4, EmissionQueues
  <2> QED
    BY <1>0, <2>2, <2>3, QueueKeepsTypes DEF QueueTypes
<1>5. ASSUME NEW op \in WindowOp, UserWindow(op) PROVE QueueTypes'
  BY <1>4, <1>5 DEF UserWindow, CarryOut, QueueTypes
<1>6. ASSUME NEW w \in {ThisWindow, OtherWindow}, NEW s \in Extents,
             UserEvent("RESIZED", w, s) \/ UserEvent("CLOSE_REQUESTED", w, s)
      PROVE  QueueTypes'
  <2>1. \E e \in WindowEvents : events' = Append(events, e)
    BY <1>6 DEF UserEvent, Queue, WindowEvents
  <2>2. UNCHANGED windowVars
    BY <1>6 DEF UserEvent, layerVars
  <2> QED
    BY <1>0, <2>1, <2>2 DEF QueueTypes, windowVars
<1>7. CASE WindowManager
  <2>1. Head(ops) \in WindowOp /\ Tail(ops) \in Seq(WindowOp)
    BY <1>7, HeadTailProperties DEF WindowManager, QueueTypes
  <2> QED
    BY <1>4, <1>7, <2>1 DEF WindowManager, CarryOut, QueueTypes
<1>8. CASE AskWindow
  BY <1>8 DEF AskWindow, SetWindowFlag, SetVsync, RequestClosing, HandledResize, QueueTypes,
              WindowFlags
<1>9. CASE Frame
  <2>1. UNCHANGED events /\ ops' = ops \o Requests(settings, settingsRequested)
    BY <1>9 DEF Frame, BeginFrame
  <2>2. ops' \in Seq(WindowOp)
    BY <2>1, RequestedOps, ConcatProperties DEF QueueTypes
  <2>3. sdl' \in SdlWindow
    <3>1. Interval(vsRequest) \in Int
      BY DEF QueueTypes, VSync, Interval
    <3> QED
      BY <1>9, <3>1 DEF Frame, BeginFrame, Forwarded, QueueTypes, SdlWindow, WindowFlags
  <2> QED
    BY <1>9, <2>1, <2>2, <2>3 DEF Frame, BeginFrame, QueueTypes
<1>10. CASE UseMeshes \/ UpdateLayers \/ EndPoll \/ SampleAndTick \/ UNCHANGED loopVars
  BY <1>10 DEF UseMeshes, UpdateLayers, EndPoll, SampleAndTick, loopVars, layerVars, windowVars,
               QueueTypes
<1>11. CASE PollEvent
  <2>1. events' = Tail(events) /\ events' \in Seq(Event)
    BY <1>11, HeadTailProperties DEF PollEvent, QueueTypes
  <2>2. Head(events) \in Event
    BY <1>11, HeadTailProperties DEF PollEvent, QueueTypes
  <2>3. Head(events).type = "RESIZED" => Head(events).data \in Extents
    BY <2>2, EventKinds DEF WindowEvents
  <2> QED
    BY <1>11, <2>1, <2>3, PolledWindow DEF QueueTypes, windowVars, WindowFlags
<1> QED
  BY LoopActions, <1>1, <1>2, <1>3, <1>5, <1>6, <1>7, <1>8, <1>9, <1>10, <1>11

-----------------------------------------------------------------------------
(* The window settles *)

MinEvents == {e \in StateEvents : e.type # "MAXIMIZED"}
MaxEvents == {e \in StateEvents : e.type # "MINIMIZED"}
Telling(type) == {e \in StateEvents : e.type = type}

\* the last of the requests on their way makes the window as the settings say
AskedMin ==
  /\ ops # <<>>
  /\ settings.minimized <=> Last(ops) = "minimize"
AskedMax ==
  /\ ops # <<>>
  /\ Last(ops) = IF settings.maximized THEN "maximize" ELSE "restore"

\* The settings tell whether the window is minimized, or an event is queued that
\* will, or a request is on its way that makes it so.
MinFollows ==
  WillKnow(MinEvents, Telling("MINIMIZED"), events, sdl.state = "minimized",
           (settings.minimized <=> sdl.state = "minimized") \/ AskedMin)

\* The same of maximized, which is left open while the settings or SDL say that
\* the window is minimized: who leaves that state reads both flags anew.
MaxFollows ==
  sdl.state # "minimized" =>
    WillKnow(MaxEvents, Telling("MAXIMIZED"), events, sdl.state = "maximized",
             \/ settings.minimized
             \/ settings.maximized <=> sdl.state = "maximized"
             \/ AskedMax)

RestFollows ==
  /\ settings.resizable = sdl.resizable
  /\ settings.borderless => sdl.bordered
  /\ ~didResize => viewport = winSize
  /\ vsync = "on" => sdl.interval = 1
  /\ ~asked => settings = settingsRequested /\ ops = <<>>

\* The conjunction that the steps preserve.
WindowInv == QueueTypes /\ MinFollows /\ MaxFollows /\ RestFollows

\* The last of two lists in a row is the last of the second one.
LEMMA LastOfConcat ==
  ASSUME NEW S, NEW s \in Seq(S), NEW t \in Seq(S)
  PROVE  /\ t = <<>> => s \o t = s
         /\ t # <<>> => s \o t # <<>> /\ Last(s \o t) = Last(t)
<1>1. /\ s \o t \in Seq(S) /\ Len(s \o t) = Len(s) + Len(t)
      /\ \A i \in 1 .. Len(s) + Len(t) : (s \o t)[i] = IF i <= Len(s) THEN s[i] ELSE t[i - Len(s)]
  BY ConcatProperties
<1>2. Len(s) \in Nat /\ Len(t) \in Nat
  OBVIOUS
<1>3. CASE t # <<>>
  <2>1. Len(t) > 0
    BY <1>3, EmptySeq
  <2>2. (s \o t)[Len(s) + Len(t)] = t[Len(t)]
    BY <1>1, <1>2, <2>1
  <2>3. s \o t # <<>>
    BY <1>1, <1>2, <2>1
  <2> QED
    BY <1>1, <1>3, <2>2, <2>3 DEF Last
<1>4. CASE t = <<>>
  BY <1>4, ConcatEmptySeq
<1> QED
  BY <1>3, <1>4

\* The last of a list is the last of the rest, or its only one.
LEMMA LastOfTail ==
  ASSUME NEW S, NEW s \in Seq(S), s # <<>>
  PROVE  IF Tail(s) = <<>> THEN Last(s) = Head(s) ELSE Last(Tail(s)) = Last(s)
<1>1. /\ Tail(s) \in Seq(S) /\ Len(Tail(s)) = Len(s) - 1
      /\ \A i \in 1 .. Len(s) - 1 : Tail(s)[i] = s[i + 1]
  BY HeadTailProperties
<1>2. Len(s) \in Nat \ {0} /\ Head(s) = s[1]
  BY EmptySeq, LenProperties
<1>3. Tail(s) = <<>> <=> Len(Tail(s)) = 0
  BY <1>1, EmptySeq
<1>4. CASE Len(s) = 1
  BY <1>1, <1>2, <1>3, <1>4 DEF Last
<1>5. CASE Len(s) # 1
  <2>1. Len(s) - 1 \in 1 .. Len(s) - 1 /\ (Len(s) - 1) + 1 = Len(s)
    <3>1. \A n \in Nat \ {0} : n # 1 => n - 1 \in 1 .. n - 1 /\ (n - 1) + 1 = n
      OBVIOUS
    <3> QED
      BY <1>2, <1>5, <3>1
  <2>2. Tail(s)[Len(s) - 1] = s[Len(s)]
    BY <1>1, <2>1
  <2> QED
    BY <1>1, <1>2, <1>3, <1>5, <2>2 DEF Last
<1> QED
  BY <1>4, <1>5

\* What a frame asks for last is what the settings will say.
LEMMA LastRequest ==
  ASSUME NEW s \in WindowFlags, NEW r \in WindowFlags
  PROVE  /\ s = r => Requests(s, r) = <<>>
         /\ r.minimized /\ ~s.minimized => Requests(s, r) # <<>> /\ Last(Requests(s, r)) = "minimize"
         /\ r.minimized /\ s.minimized => Requests(s, r) = <<>>
         /\ ~r.minimized /\ (s.minimized \/ s.maximized # r.maximized) =>
              /\ Requests(s, r) # <<>>
              /\ Last(Requests(s, r)) = IF r.maximized THEN "maximize" ELSE "restore"
         /\ ~r.minimized /\ ~s.minimized /\ s.maximized = r.maximized => Requests(s, r) = <<>>
<1> DEFINE first == IF s.minimized = r.minimized THEN <<>>
                    ELSE IF r.minimized THEN <<"minimize">>
                    ELSE IF r.maximized THEN <<"restore", "maximize">>
                    ELSE <<"restore">>
           second == IF s.maximized = r.maximized \/ r.minimized THEN <<>>
                     ELSE IF r.maximized THEN <<"maximize">>
                     ELSE <<"restore">>
<1>1. Requests(s, r) = first \o second
  BY DEF Requests
<1>2. first \in Seq(WindowOp) /\ second \in Seq(WindowOp)
  <2>1. /\ <<>> \in Seq(WindowOp) /\ <<"minimize">> \in Seq(WindowOp) /\ <<"restore">> \in Seq(WindowOp)
        /\ <<"maximize">> \in Seq(WindowOp) /\ <<"restore", "maximize">> \in Seq(WindowOp)
    BY DEF WindowOp
  <2> QED
    BY <2>1
<1>3. /\ second = <<>> => Requests(s, r) = first
      /\ second # <<>> => Requests(s, r) # <<>> /\ Last(Requests(s, r)) = Last(second)
  <2> HIDE DEF first, second
  <2> QED
    BY <1>1, <1>2, LastOfConcat
<1>4. s.minimized \in BOOLEAN /\ r.minimized \in BOOLEAN /\ s.maximized \in BOOLEAN /\ r.maximized \in BOOLEAN
  BY DEF WindowFlags
<1>5. /\ <<"minimize">> # <<>> /\ Last(<<"minimize">>) = "minimize"
      /\ <<"maximize">> # <<>> /\ Last(<<"maximize">>) = "maximize"
      /\ <<"restore">> # <<>> /\ Last(<<"restore">>) = "restore"
      /\ <<"restore", "maximize">> # <<>> /\ Last(<<"restore", "maximize">>) = "maximize"
  BY DEF Last
<1>6. CASE r.minimized
  <2>1. second = <<>>
    BY <1>6
  <2>2. first = IF s.minimized THEN <<>> ELSE <<"minimize">>
    BY <1>4, <1>6
  <2> HIDE DEF first, second
  <2> QED
    BY <1>3, <1>4, <1>5, <1>6, <2>1, <2>2
<1>7. CASE ~r.minimized /\ s.maximized = r.maximized
  <2>1. second = <<>>
    BY <1>7
  <2>2. first = IF ~s.minimized THEN <<>>
                ELSE IF r.maximized THEN <<"restore", "maximize">> ELSE <<"restore">>
    BY <1>4, <1>7
  <2> HIDE DEF first, second
  <2> QED
    BY <1>3, <1>4, <1>5, <1>7, <2>1, <2>2
<1>8. CASE ~r.minimized /\ s.maximized # r.maximized
  <2>1. second = IF r.maximized THEN <<"maximize">> ELSE <<"restore">>
    BY <1>8
  <2> HIDE DEF first, second
  <2>2. second # <<>> /\ Last(second) = IF r.maximized THEN "maximize" ELSE "restore"
    BY <1>4, <1>5, <2>1
  <2> QED
    BY <1>3, <1>4, <1>8, <2>2
<1> QED
  BY <1>6, <1>7, <1>8

\* Told as long as the window is not minimized.
MaxKnown ==
  \/ settings.minimized
  \/ settings.maximized <=> sdl.state = "maximized"
  \/ AskedMax

MinKnown == (settings.minimized <=> sdl.state = "minimized") \/ AskedMin

\* An operation is carried out: what it changes is told, and what it leaves is
\* what the settings say if they asked for it last.
LEMMA CarryOutSteps ==
  ASSUME WindowInv, NEW op \in WindowOp, CarryOut(op), ops' \in Seq(WindowOp),
         events' = events \o [i \in DOMAIN Emitted(op) |->
                                [type |-> Emitted(op)[i], of |-> ThisWindow, data |-> 0]],
         AskedMin => AskedMin' \/ (settings.minimized <=> op = "minimize"),
         AskedMax => AskedMax' \/ op = (IF settings.maximized THEN "maximize" ELSE "restore")
  PROVE  MinFollows' /\ MaxFollows'
<1> DEFINE low == sdl.state = "minimized"
           lowNext == Carried(op) = "minimized"
           high == sdl.state = "maximized"
           highNext == Carried(op) = "maximized"
<1>1. /\ Carried(op) \in WindowState /\ sdl.state \in WindowState
      /\ events \in Seq(Event) /\ QueueTypes
      /\ sdl'.state = Carried(op)
      /\ UNCHANGED settings
  BY Emission DEF WindowInv, QueueTypes, SdlWindow, CarryOut
<1>2. \A type \in {"MINIMIZED", "MAXIMIZED", "RESTORED"} :
        /\ StateEvent(type) \in Event
        /\ StateEvent(type) \in MinEvents <=> type # "MAXIMIZED"
        /\ StateEvent(type) \in MaxEvents <=> type # "MINIMIZED"
        /\ \A kind : StateEvent(type) \in Telling(kind) <=> type = kind
  BY DEF StateEvent, StateEvents, Event, MinEvents, MaxEvents, Telling
<1>3. /\ op = "minimize" => Carried(op) = "minimized"
      /\ op = "maximize" => Carried(op) = "maximized"
      /\ op = "restore" => Carried(op) # "minimized"
      /\ op = "restore" /\ sdl.state # "minimized" => Carried(op) = "normal"
      /\ op \in {"minimize", "maximize", "restore"}
  BY DEF Carried, WindowOp
<1>4. /\ WillKnow(MinEvents, Telling("MINIMIZED"), events, low, MinKnown)
      /\ ~low => WillKnow(MaxEvents, Telling("MAXIMIZED"), events, high, MaxKnown)
  BY DEF WindowInv, MinFollows, MaxFollows, MinKnown, MaxKnown
<1>5. SUFFICES /\ WillKnow(MinEvents, Telling("MINIMIZED"), events', lowNext, MinKnown')
               /\ ~lowNext => WillKnow(MaxEvents, Telling("MAXIMIZED"), events', highNext, MaxKnown')
  BY <1>1 DEF MinFollows, MaxFollows, MinKnown, MaxKnown
<1>6. /\ low \in BOOLEAN /\ lowNext \in BOOLEAN /\ high \in BOOLEAN /\ highNext \in BOOLEAN
      /\ MinKnown \in BOOLEAN /\ MinKnown' \in BOOLEAN /\ MaxKnown \in BOOLEAN /\ MaxKnown' \in BOOLEAN
      /\ settings.minimized \in BOOLEAN
  BY <1>1 DEF MinKnown, MaxKnown, QueueTypes, WindowFlags
<1>7. (low <=> lowNext) /\ MinKnown => MinKnown'
  BY <1>1, <1>3, <1>6 DEF MinKnown
<1>8. ~low /\ ~lowNext /\ (high <=> highNext) /\ MaxKnown => MaxKnown'
  BY <1>1, <1>3 DEF MaxKnown, WindowState
<1>9. CASE Carried(op) = sdl.state
  <2>1. events' = events /\ (low <=> lowNext) /\ (high <=> highNext)
    BY <1>1, <1>9, Emission
  <2> HIDE DEF low, lowNext, high, highNext
  <2>2. WillKnow(MinEvents, Telling("MINIMIZED"), events, lowNext, MinKnown')
    BY <1>4, <1>6, <1>7, <2>1, SameQueue
  <2>3. ~lowNext => WillKnow(MaxEvents, Telling("MAXIMIZED"), events, highNext, MaxKnown')
    BY <1>4, <1>6, <1>8, <2>1, SameQueue
  <2> QED
    BY <2>1, <2>2, <2>3
<1>10. CASE Carried(op) # sdl.state /\ Carried(op) = "minimized"
  <2>1. events' = Append(events, StateEvent("MINIMIZED")) /\ lowNext
    BY <1>1, <1>10, Emission
  <2> HIDE DEF low, lowNext, high, highNext
  <2>2. WillKnow(MinEvents, Telling("MINIMIZED"), events', lowNext, MinKnown')
    BY <1>1, <1>2, <1>6, <2>1, LastQueued
  <2> QED
    BY <2>1, <2>2
<1>11. CASE Carried(op) # sdl.state /\ Carried(op) = "normal"
  <2>1. events' = Append(events, StateEvent("RESTORED")) /\ ~lowNext /\ ~highNext
    BY <1>1, <1>11, Emission
  <2> HIDE DEF low, lowNext, high, highNext
  <2>2. WillKnow(MinEvents, Telling("MINIMIZED"), events', lowNext, MinKnown')
    BY <1>1, <1>2, <1>6, <2>1, LastQueued
  <2>3. WillKnow(MaxEvents, Telling("MAXIMIZED"), events', highNext, MaxKnown')
    BY <1>1, <1>2, <1>6, <2>1, LastQueued
  <2> QED
    BY <2>2, <2>3
<1>12. CASE Carried(op) # sdl.state /\ Carried(op) = "maximized" /\ ~low
  <2>1. events' = Append(events, StateEvent("MAXIMIZED")) /\ ~lowNext /\ highNext /\ (low <=> lowNext)
    BY <1>1, <1>12, Emission
  <2> HIDE DEF low, lowNext, high, highNext
  <2>2. WillKnow(MinEvents, Telling("MINIMIZED"), events', lowNext, MinKnown')
    <3>1. StateEvent("MAXIMIZED") \in Event /\ StateEvent("MAXIMIZED") \notin MinEvents
      BY <1>2
    <3>2. WillKnow(MinEvents, Telling("MINIMIZED"), events, lowNext, MinKnown')
      BY <1>4, <1>6, <1>7, <2>1, SameQueue
    <3>3. WillKnow(MinEvents, Telling("MINIMIZED"), Append(events, StateEvent("MAXIMIZED")), lowNext, MinKnown')
      BY <1>1, <1>6, <3>1, <3>2, OtherQueued
    <3> QED
      BY <2>1, <3>3
  <2>3. WillKnow(MaxEvents, Telling("MAXIMIZED"), events', highNext, MaxKnown')
    BY <1>1, <1>2, <1>6, <2>1, LastQueued
  <2> QED
    BY <2>2, <2>3
<1>13. CASE Carried(op) # sdl.state /\ Carried(op) = "maximized" /\ low
  <2> DEFINE middle == Append(events, StateEvent("RESTORED"))
  <2>1. events' = Append(middle, StateEvent("MAXIMIZED")) /\ ~lowNext /\ highNext
    BY <1>1, <1>13, Emission
  <2>2. middle \in Seq(Event)
    BY <1>1, <1>2, AppendProperties
  <2> HIDE DEF low, lowNext, high, highNext
  <2>3. WillKnow(MinEvents, Telling("MINIMIZED"), middle, lowNext, MinKnown')
    BY <1>1, <1>2, <1>6, <2>1, LastQueued
  <2> HIDE DEF middle
  <2>4. WillKnow(MinEvents, Telling("MINIMIZED"), events', lowNext, MinKnown')
    <3>1. StateEvent("MAXIMIZED") \in Event /\ StateEvent("MAXIMIZED") \notin MinEvents
      BY <1>2
    <3>2. WillKnow(MinEvents, Telling("MINIMIZED"), Append(middle, StateEvent("MAXIMIZED")), lowNext, MinKnown')
      BY <1>6, <2>2, <2>3, <3>1, OtherQueued
    <3> QED
      BY <2>1, <3>2
  <2>5. WillKnow(MaxEvents, Telling("MAXIMIZED"), events', highNext, MaxKnown')
    BY <1>2, <1>6, <2>1, <2>2, LastQueued
  <2> QED
    BY <2>4, <2>5
<1> QED
  BY <1>1, <1>9, <1>10, <1>11, <1>12, <1>13 DEF WindowState

\* An event that says nothing of the state of the window is queued.
LEMMA OtherInput ==
  ASSUME WindowInv, NEW e \in Event, e \notin StateEvents, events' = Append(events, e),
         UNCHANGED windowVars
  PROVE  MinFollows' /\ MaxFollows' /\ RestFollows'
<1>1. UNCHANGED <<settings, settingsRequested, vsync, winSize, didResize, viewport, asked, sdl, ops>>
  BY DEF windowVars
<1>2. /\ events \in Seq(Event)
      /\ e \notin MinEvents /\ e \notin MaxEvents
  BY DEF WindowInv, QueueTypes, MinEvents, MaxEvents
<1>3. RestFollows'
  BY <1>1 DEF WindowInv, RestFollows
<1>4. MinFollows'
  <2>1. WillKnow(MinEvents, Telling("MINIMIZED"), events, sdl.state = "minimized", MinKnown)
    BY DEF WindowInv, MinFollows, MinKnown
  <2>2. WillKnow(MinEvents, Telling("MINIMIZED"), Append(events, e), sdl.state = "minimized", MinKnown)
    BY <1>2, <2>1, OtherQueued DEF MinKnown
  <2> QED
    BY <1>1, <2>2 DEF MinFollows, MinKnown, AskedMin
<1>5. MaxFollows'
  <2> SUFFICES ASSUME sdl.state # "minimized"
               PROVE  WillKnow(MaxEvents, Telling("MAXIMIZED"), Append(events, e),
                               sdl.state = "maximized", MaxKnown)
    BY <1>1 DEF MaxFollows, MaxKnown, AskedMax
  <2>1. WillKnow(MaxEvents, Telling("MAXIMIZED"), events, sdl.state = "maximized", MaxKnown)
    BY DEF WindowInv, MaxFollows, MaxKnown
  <2> QED
    BY <1>2, <2>1, OtherQueued DEF MaxKnown
<1> QED
  BY <1>3, <1>4, <1>5

\* A frame asks SDL for what differs and takes it for granted.
LEMMA FrameSteps ==
  ASSUME WindowInv, Frame
  PROVE  MinFollows' /\ MaxFollows' /\ RestFollows'
<1> DEFINE r == settingsRequested
           asks == Requests(settings, r)
<1>1. /\ settings' = r /\ settingsRequested' = r /\ vsync' = vsRequest
      /\ sdl' = [sdl EXCEPT !.resizable = Forwarded("resizable", @),
                            !.bordered = Forwarded("borderless", @),
                            !.interval = IF vsync = vsRequest THEN @ ELSE Interval(vsRequest)]
      /\ ops' = ops \o asks
      /\ UNCHANGED <<events, asked, winSize>>
      /\ \/ viewport' = winSize /\ didResize' = FALSE
         \/ UNCHANGED <<viewport, didResize>>
  BY DEF Frame, BeginFrame
<1>2. /\ settings \in WindowFlags /\ r \in WindowFlags /\ sdl \in SdlWindow /\ vsync \in VSync
      /\ ops \in Seq(WindowOp) /\ asks \in Seq(WindowOp) /\ vsRequest \in VSync
      /\ settings.minimized \in BOOLEAN /\ settings.maximized \in BOOLEAN
      /\ r.minimized \in BOOLEAN /\ r.maximized \in BOOLEAN
  BY RequestedOps DEF WindowInv, QueueTypes, WindowFlags
<1>3. sdl'.state = sdl.state /\ sdl'.resizable = r.resizable
      /\ (r.borderless => sdl'.bordered)
      /\ (vsync' = "on" => sdl'.interval = 1)
  <2>1. vsRequest = "on" => Interval(vsRequest) = 1
    BY DEF Interval
  <2> QED
    BY <1>1, <1>2, <2>1 DEF SdlWindow, WindowFlags, Forwarded, WindowInv, RestFollows
<1>4. /\ asks = <<>> => ops' = ops
      /\ asks # <<>> => ops' # <<>> /\ Last(ops') = Last(asks)
  <2> HIDE DEF asks
  <2> QED
    BY <1>1, <1>2, LastOfConcat
<1>5. /\ settings = r => asks = <<>>
      /\ r.minimized /\ ~settings.minimized => asks # <<>> /\ Last(asks) = "minimize"
      /\ r.minimized /\ settings.minimized => asks = <<>>
      /\ ~r.minimized /\ (settings.minimized \/ settings.maximized # r.maximized) =>
           asks # <<>> /\ Last(asks) = IF r.maximized THEN "maximize" ELSE "restore"
      /\ ~r.minimized /\ ~settings.minimized /\ settings.maximized = r.maximized => asks = <<>>
  BY <1>2, LastRequest
<1> HIDE DEF r, asks
<1>6. RestFollows'
  BY <1>1, <1>3, <1>4, <1>5 DEF WindowInv, RestFollows, r
<1>7. MinKnown => MinKnown'
  <2>1. CASE r.minimized = settings.minimized
    <3>1. CASE asks = <<>>
      BY <1>1, <1>3, <1>4, <2>1, <3>1 DEF MinKnown, AskedMin
    <3>2. CASE asks # <<>>
      BY <1>1, <1>2, <1>4, <1>5, <2>1, <3>2 DEF MinKnown, AskedMin
    <3> QED
      BY <3>1, <3>2
  <2>2. CASE r.minimized # settings.minimized
    BY <1>1, <1>2, <1>4, <1>5, <2>2 DEF MinKnown, AskedMin
  <2> QED
    BY <2>1, <2>2
<1>8. MaxKnown => MaxKnown'
  <2>1. CASE r.minimized
    BY <1>1, <2>1 DEF MaxKnown
  <2>2. CASE ~r.minimized /\ (settings.minimized \/ settings.maximized # r.maximized)
    BY <1>1, <1>4, <1>5, <2>2 DEF MaxKnown, AskedMax
  <2>3. CASE ~r.minimized /\ ~settings.minimized /\ settings.maximized = r.maximized
    BY <1>1, <1>3, <1>4, <1>5, <2>3 DEF MaxKnown, AskedMax
  <2> QED
    BY <1>2, <2>1, <2>2, <2>3
<1>9. MinKnown \in BOOLEAN /\ MinKnown' \in BOOLEAN /\ MaxKnown \in BOOLEAN /\ MaxKnown' \in BOOLEAN
  BY <1>1, <1>2 DEF MinKnown, MaxKnown
<1>10. MinFollows'
  <2>1. WillKnow(MinEvents, Telling("MINIMIZED"), events, sdl.state = "minimized", MinKnown)
    BY DEF WindowInv, MinFollows, MinKnown
  <2>2. WillKnow(MinEvents, Telling("MINIMIZED"), events, sdl.state = "minimized", MinKnown')
    BY <1>7, <1>9, <2>1, SameQueue
  <2> QED
    BY <1>1, <1>3, <2>2 DEF MinFollows, MinKnown
<1>11. MaxFollows'
  <2> SUFFICES ASSUME sdl.state # "minimized"
               PROVE  WillKnow(MaxEvents, Telling("MAXIMIZED"), events, sdl.state = "maximized", MaxKnown')
    BY <1>1, <1>3 DEF MaxFollows, MaxKnown
  <2>1. WillKnow(MaxEvents, Telling("MAXIMIZED"), events, sdl.state = "maximized", MaxKnown)
    BY DEF WindowInv, MaxFollows, MaxKnown
  <2> QED
    BY <1>8, <1>9, <2>1, SameQueue
<1> QED
  BY <1>6, <1>10, <1>11

\* An event is handled: the settings know of it.
LEMMA PolledSteps ==
  ASSUME WindowInv, PollEvent
  PROVE  MinFollows' /\ MaxFollows' /\ RestFollows'
<1> DEFINE e == Head(events)
           low == sdl.state = "minimized"
           high == sdl.state = "maximized"
           untold == UNCHANGED <<settings, settingsRequested, vsync, asked, sdl, ops>>
<1>1. /\ events \in Seq(Event) /\ events # <<>> /\ events' = Tail(events) /\ e \in Event /\ QueueTypes
      /\ settings \in WindowFlags /\ settings.minimized \in BOOLEAN /\ settings.maximized \in BOOLEAN
  BY HeadTailProperties DEF PollEvent, WindowInv, QueueTypes, WindowFlags
<1>2. \/ untold /\ e \notin StateEvents
      \/ /\ e.type = "MINIMIZED" /\ e \in StateEvents
         /\ settings' = [settings EXCEPT !.minimized = TRUE]
      \/ /\ e.type = "MAXIMIZED" /\ e \in StateEvents
         /\ settings' = [settings EXCEPT !.maximized = TRUE]
      \/ /\ e.type = "RESTORED" /\ e \in StateEvents
         /\ settings' = [settings EXCEPT !.minimized = low, !.maximized = high]
  <2>1. e.type \in {"RESIZED", "CLOSE_REQUESTED"} => e \notin StateEvents
    BY DEF StateEvents
  <2> QED
    BY <1>1, <2>1, PolledWindow, EventKinds DEF windowVars
<1>3. UNCHANGED <<vsync, sdl, ops>>
  BY <1>1, PolledWindow DEF windowVars
<1>4. settings = settingsRequested => settings' = settingsRequested'
  <2> SUFFICES ASSUME settings = settingsRequested PROVE settings' = settingsRequested'
    OBVIOUS
  <2>1. \/ UNCHANGED <<settings, settingsRequested>>
        \/ \E next : settings' = next /\ settingsRequested' = next
    BY <1>1, PolledWindow, ZenonT(30) DEF windowVars
  <2> QED
    BY <2>1
<1>5. RestFollows'
  <2>1. settings'.resizable = settings.resizable /\ settings'.borderless = settings.borderless
    BY <1>1, <1>2 DEF WindowFlags
  <2>2. ~didResize' => viewport' = winSize'
    BY <1>1, PolledWindow DEF windowVars, WindowInv, RestFollows
  <2>3. UNCHANGED asked
    BY <1>1, PolledWindow DEF windowVars
  <2> QED
    BY <1>3, <1>4, <2>1, <2>2, <2>3 DEF WindowInv, RestFollows
<1>6. /\ low \in BOOLEAN /\ high \in BOOLEAN
      /\ MinKnown \in BOOLEAN /\ MinKnown' \in BOOLEAN /\ MaxKnown \in BOOLEAN /\ MaxKnown' \in BOOLEAN
  <2>1. settings'.minimized \in BOOLEAN
    BY <1>1, <1>2 DEF WindowFlags
  <2> QED
    BY <1>1, <2>1 DEF MinKnown, MaxKnown
<1>7. /\ MinKnown' <=> (settings'.minimized <=> low) \/ AskedMin'
      /\ MaxKnown' <=> settings'.minimized \/ (settings'.maximized <=> high) \/ AskedMax'
  BY <1>3 DEF MinKnown, MaxKnown
<1>8. /\ e \in MinEvents => ((e \in Telling("MINIMIZED") <=> low) => MinKnown')
      /\ e \notin MinEvents => (MinKnown => MinKnown')
  <2>1. CASE untold /\ e \notin StateEvents
    BY <2>1 DEF MinEvents, MinKnown, AskedMin
  <2>2. CASE e.type = "MINIMIZED" /\ e \in StateEvents /\ settings' = [settings EXCEPT !.minimized = TRUE]
    BY <1>1, <1>7, <2>2 DEF MinEvents, Telling, WindowFlags
  <2>3. CASE e.type = "MAXIMIZED" /\ e \in StateEvents /\ settings' = [settings EXCEPT !.maximized = TRUE]
    <3>1. settings'.minimized = settings.minimized
      BY <1>1, <2>3 DEF WindowFlags
    <3> QED
      BY <1>3, <1>7, <2>3, <3>1 DEF MinEvents, MinKnown, AskedMin
  <2>4. CASE e.type = "RESTORED" /\ e \in StateEvents
             /\ settings' = [settings EXCEPT !.minimized = low, !.maximized = high]
    BY <1>1, <1>7, <2>4 DEF WindowFlags
  <2> QED
    BY <1>2, <2>1, <2>2, <2>3, <2>4
<1>9. ASSUME ~low
      PROVE  /\ e \in MaxEvents => ((e \in Telling("MAXIMIZED") <=> high) => MaxKnown')
             /\ e \notin MaxEvents => (MaxKnown => MaxKnown')
  <2>1. CASE untold /\ e \notin StateEvents
    BY <2>1 DEF MaxEvents, MaxKnown, AskedMax
  <2>2. CASE e.type = "MINIMIZED" /\ e \in StateEvents /\ settings' = [settings EXCEPT !.minimized = TRUE]
    BY <1>1, <1>7, <2>2 DEF MaxEvents, WindowFlags
  <2>3. CASE e.type = "MAXIMIZED" /\ e \in StateEvents /\ settings' = [settings EXCEPT !.maximized = TRUE]
    BY <1>1, <1>7, <2>3 DEF MaxEvents, Telling, WindowFlags
  <2>4. CASE e.type = "RESTORED" /\ e \in StateEvents
             /\ settings' = [settings EXCEPT !.minimized = low, !.maximized = high]
    BY <1>1, <1>7, <2>4 DEF WindowFlags
  <2> QED
    BY <1>2, <2>1, <2>2, <2>3, <2>4
<1>10. MinFollows'
  <2>1. WillKnow(MinEvents, Telling("MINIMIZED"), events, low, MinKnown)
    BY DEF WindowInv, MinFollows, MinKnown
  <2> HIDE DEF low, high, untold
  <2>2. WillKnow(MinEvents, Telling("MINIMIZED"), Tail(events), low, MinKnown')
    BY <1>1, <1>6, <1>8, <2>1, AfterPoll
  <2> QED
    BY <1>1, <1>3, <2>2 DEF MinFollows, MinKnown, low
<1>11. MaxFollows'
  <2> SUFFICES ASSUME ~low PROVE WillKnow(MaxEvents, Telling("MAXIMIZED"), Tail(events), high, MaxKnown')
    BY <1>1, <1>3 DEF MaxFollows, MaxKnown
  <2>1. WillKnow(MaxEvents, Telling("MAXIMIZED"), events, high, MaxKnown)
    BY DEF WindowInv, MaxFollows, MaxKnown
  <2>2. /\ e \in MaxEvents => ((e \in Telling("MAXIMIZED") <=> high) => MaxKnown')
        /\ e \notin MaxEvents => (MaxKnown => MaxKnown')
    BY <1>9
  <2> HIDE DEF low, high, untold
  <2> QED
    BY <1>1, <1>6, <2>1, <2>2, AfterPoll
<1> QED
  BY <1>5, <1>10, <1>11

\* The window is constructed as SDL shows it.
LEMMA WindowStarts ==
  ASSUME LoopInit
  PROVE  WindowInv
<1>1. winSize \in Extents
  BY WindowAssumption DEF LoopInit, WindowInit
<1>2. PICK state \in WindowState, adaptive \in BOOLEAN :
        /\ sdl = [state |-> state, wasMaximized |-> FALSE, resizable |-> TRUE,
                  bordered |-> TRUE, interval |-> 0, adaptive |-> adaptive]
        /\ settings = [minimized |-> state = "minimized", maximized |-> state = "maximized",
                       resizable |-> TRUE, borderless |-> FALSE]
  BY DEF LoopInit, WindowInit
<1>3. /\ settingsRequested = settings /\ vsync = "off" /\ vsRequest = "off" /\ viewport = winSize
      /\ didResize = TRUE /\ asked = FALSE /\ ops = <<>> /\ events = <<>>
  BY DEF LoopInit, WindowInit
<1>4. QueueTypes
  <2>1. settings \in WindowFlags
    <3> DEFINE low == state = "minimized"
               high == state = "maximized"
    <3>1. settings = [minimized |-> low, maximized |-> high, resizable |-> TRUE,
                      borderless |-> FALSE]
          /\ low \in BOOLEAN /\ high \in BOOLEAN
      BY <1>2
    <3> HIDE DEF low, high
    <3> QED
      BY <3>1 DEF WindowFlags
  <2>2. sdl \in SdlWindow
    BY <1>2 DEF SdlWindow
  <2>3. events \in Seq(Event) /\ ops \in Seq(WindowOp)
    BY <1>3
  <2> QED
    BY <1>1, <1>3, <2>1, <2>2, <2>3 DEF QueueTypes, VSync
<1>5. /\ settings.minimized <=> sdl.state = "minimized"
      /\ settings.maximized <=> sdl.state = "maximized"
      /\ settings.resizable = sdl.resizable
      /\ settings.borderless => sdl.bordered
  BY <1>2
<1>6. DOMAIN events = {}
  BY <1>3
<1> QED
  BY <1>3, <1>4, <1>5, <1>6 DEF WindowInv, MinFollows, MaxFollows, RestFollows, WillKnow, NoneOf, IsLast

\* Every step of the loop preserves what is known of the window.
LEMMA WindowSteps ==
  ASSUME WindowInv, [LoopNext]_loopVars
  PROVE  WindowInv'
<1>1. QueueTypes /\ QueueTypes'
  BY QueueTypesSteps DEF WindowInv
<1>2. SUFFICES MinFollows' /\ MaxFollows' /\ RestFollows'
  BY <1>1 DEF WindowInv
<1>3. ASSUME NEW e \in Event, e \notin StateEvents, events' = Append(events, e), UNCHANGED layerVars
      PROVE  MinFollows' /\ MaxFollows' /\ RestFollows'
  BY <1>3, OtherInput DEF layerVars
<1>4. ASSUME NEW k \in PhysicalKeys, PressKey(k) \/ ReleaseKey(k)
      PROVE  MinFollows' /\ MaxFollows' /\ RestFollows'
  <2>1. PICK e \in KeyEvents : events' = Append(events, e)
    BY <1>4 DEF PressKey, ReleaseKey, Queue, KeyEvents
  <2>2. e \in Event /\ e \notin StateEvents /\ UNCHANGED layerVars
    BY <1>4 DEF PressKey, ReleaseKey, Event, KeyEvents, StateEvents
  <2> QED
    BY <1>3, <2>1, <2>2
<1>5. ASSUME NEW m \in Mice, MoveMouse(m) PROVE MinFollows' /\ MaxFollows' /\ RestFollows'
  <2>1. PICK e \in MotionEvents : events' = Append(events, e)
    BY <1>5 DEF MoveMouse, Queue, MotionEvents
  <2>2. e \in Event /\ e \notin StateEvents /\ UNCHANGED layerVars
    BY <1>5 DEF MoveMouse, Event, MotionEvents, StateEvents
  <2> QED
    BY <1>3, <2>1, <2>2
<1>6. ASSUME NEW m \in Mice, NEW b \in Buttons, PressButton(m, b) \/ ReleaseButton(m, b)
      PROVE  MinFollows' /\ MaxFollows' /\ RestFollows'
  <2>1. PICK e \in ButtonEvents : events' = Append(events, e)
    BY <1>6 DEF PressButton, ReleaseButton, Queue, ButtonEvents
  <2>2. e \in Event /\ e \notin StateEvents /\ UNCHANGED layerVars
    BY <1>6 DEF PressButton, ReleaseButton, Event, ButtonEvents, StateEvents
  <2> QED
    BY <1>3, <2>1, <2>2
<1>7. ASSUME NEW w \in {ThisWindow, OtherWindow}, NEW s \in Extents,
             UserEvent("RESIZED", w, s) \/ UserEvent("CLOSE_REQUESTED", w, s)
      PROVE  MinFollows' /\ MaxFollows' /\ RestFollows'
  <2>1. PICK e \in WindowEvents : events' = Append(events, e)
    BY <1>7 DEF UserEvent, Queue, WindowEvents
  <2>2. e \in Event /\ e \notin StateEvents /\ UNCHANGED layerVars
    BY <1>7 DEF UserEvent, Event, WindowEvents, StateEvents
  <2> QED
    BY <1>3, <2>1, <2>2
<1>8. ASSUME NEW op \in WindowOp, CarryOut(op), ops = <<>> => ops' = <<>>
      PROVE  RestFollows' \/ (~asked /\ ops # <<>>)
  <2>1. /\ sdl'.resizable = sdl.resizable /\ sdl'.interval = sdl.interval
        /\ sdl'.bordered = sdl.bordered
        /\ UNCHANGED <<settings, settingsRequested, vsync, winSize, didResize, viewport, asked>>
    BY <1>1, <1>8 DEF CarryOut, QueueTypes, SdlWindow
  <2> QED
    BY <1>8, <2>1 DEF WindowInv, RestFollows
<1>9. ASSUME NEW op \in WindowOp, UserWindow(op) PROVE MinFollows' /\ MaxFollows' /\ RestFollows'
  <2>1. CarryOut(op) /\ UNCHANGED <<ops, settings>>
        /\ events' = events \o [i \in DOMAIN Emitted(op) |->
                                  [type |-> Emitted(op)[i], of |-> ThisWindow, data |-> 0]]
    BY <1>9 DEF UserWindow, CarryOut
  <2>2. /\ ops' \in Seq(WindowOp)
        /\ AskedMin => AskedMin'
        /\ AskedMax => AskedMax'
    BY <1>1, <2>1 DEF QueueTypes, AskedMin, AskedMax
  <2>3. MinFollows' /\ MaxFollows'
    BY <2>1, <2>2, CarryOutSteps
  <2>4. RestFollows'
    BY <1>8, <2>1 DEF WindowInv, RestFollows
  <2> QED
    BY <2>3, <2>4
<1>10. CASE WindowManager
  <2> DEFINE op == Head(ops)
  <2>1. /\ ops \in Seq(WindowOp) /\ ops # <<>> /\ ops' = Tail(ops) /\ CarryOut(op)
        /\ events' = events \o [i \in DOMAIN Emitted(op) |->
                                  [type |-> Emitted(op)[i], of |-> ThisWindow, data |-> 0]]
        /\ UNCHANGED settings
    BY <1>1, <1>10 DEF WindowManager, QueueTypes, CarryOut
  <2>2. op \in WindowOp /\ ops' \in Seq(WindowOp)
    BY <2>1, HeadTailProperties
  <2>3. IF Tail(ops) = <<>> THEN Last(ops) = op ELSE Last(Tail(ops)) = Last(ops)
    BY <2>1, LastOfTail
  <2>4. /\ AskedMin => AskedMin' \/ (settings.minimized <=> op = "minimize")
        /\ AskedMax => AskedMax' \/ op = (IF settings.maximized THEN "maximize" ELSE "restore")
    BY <2>1, <2>3 DEF AskedMin, AskedMax
  <2>5. MinFollows' /\ MaxFollows'
    <3> HIDE DEF op
    <3> QED
      BY <2>1, <2>2, <2>4, CarryOutSteps
  <2>6. RestFollows'
    BY <1>8, <2>1, <2>2 DEF WindowInv, RestFollows
  <2> QED
    BY <2>5, <2>6
<1>11. CASE AskWindow
  <2>1. /\ UNCHANGED <<settings, vsync, winSize, didResize, viewport, sdl, ops, events>>
        /\ asked' = TRUE \/ UNCHANGED <<settingsRequested, asked>>
    BY <1>11 DEF AskWindow, SetWindowFlag, SetVsync, RequestClosing, HandledResize
  <2> QED
    BY <2>1 DEF WindowInv, MinFollows, MaxFollows, RestFollows, AskedMin, AskedMax
<1>12. CASE UseMeshes \/ UpdateLayers \/ EndPoll \/ SampleAndTick \/ UNCHANGED loopVars
  <2>1. UNCHANGED <<windowVars, events>>
    BY <1>12 DEF UseMeshes, UpdateLayers, EndPoll, SampleAndTick, loopVars, layerVars
  <2>2. UNCHANGED <<settings, settingsRequested, vsync, winSize, didResize, viewport, asked, sdl, ops, events>>
    BY <2>1 DEF windowVars
  <2> QED
    BY <2>2 DEF WindowInv, MinFollows, MaxFollows, RestFollows, AskedMin, AskedMax
<1> QED
  BY LoopActions, <1>4, <1>5, <1>6, <1>7, <1>9, <1>10, <1>11, <1>12, FrameSteps, PolledSteps

\* When nothing is on its way there is nothing left to be known.
LEMMA WindowIsSettled ==
  ASSUME WindowInv
  PROVE  WindowSettles
<1>1. ops = <<>> => ~AskedMin /\ ~AskedMax
  BY DEF AskedMin, AskedMax
<1>2. events = <<>> => NoneOf(MinEvents, events) /\ NoneOf(MaxEvents, events)
  BY DEF NoneOf
<1> QED
  BY <1>1, <1>2 DEF WindowInv, MinFollows, MaxFollows, RestFollows, WillKnow, WindowSettles, QueueTypes,
                    WindowFlags, SdlWindow

\* The window (Window.cpp, OGL_Window.cpp): when nothing is on its way, the
\* settings are what SDL shows and the viewport is the size of the window, in
\* whatever order requests, events and the window manager came.
THEOREM WindowAlwaysSettles == LoopSpec => []WindowSettles
<1>1. LoopInit => WindowInv
  BY WindowStarts
<1>2. WindowInv /\ [LoopNext]_loopVars => WindowInv'
  BY WindowSteps
<1>3. WindowInv => WindowSettles
  BY WindowIsSettled
<1> QED
  BY <1>1, <1>2, <1>3, PTL DEF LoopSpec

-----------------------------------------------------------------------------
(* The devices: what a step does to keys and mice *)

OtherEvents == UNION {MotionEvents, StateEvents, WindowEvents}

\* The steps that concern the keys or the buttons; the rest queues at most
\* events of other kinds, and does not come back to the idle round.
LEMMA DeviceSteps ==
  ASSUME QueueTypes, [LoopNext]_loopVars
  PROVE  \/ \E k \in PhysicalKeys : PressKey(k) \/ ReleaseKey(k)
         \/ \E m \in Mice, b \in Buttons : PressButton(m, b) \/ ReleaseButton(m, b)
         \/ ~LoopCrashed /\ PollEvent
         \/ UpdateLayers
         \/ SampleAndTick
         \/ /\ UNCHANGED <<keyVars, mouseVars, heldKeys, heldButtons, globalMouse>>
            /\ round' = "idle" => round = "idle"
            /\ Queues(OtherEvents)
<1> DEFINE same == UNCHANGED <<keyVars, mouseVars, heldKeys, heldButtons, globalMouse>>
           back == round' = "idle" => round = "idle"
<1>0. StateEvents \subseteq OtherEvents /\ MotionEvents \subseteq OtherEvents /\ WindowEvents \subseteq OtherEvents
  BY DEF OtherEvents
<1>1. ASSUME NEW m \in Mice, MoveMouse(m) PROVE same /\ back /\ Queues(OtherEvents)
  <2>1. \E e \in MotionEvents : events' = Append(events, e)
    BY <1>1 DEF MoveMouse, Queue, MotionEvents
  <2> QED
    BY <1>0, <1>1, <2>1 DEF MoveMouse, Input, Queues, layerVars, miceVars
<1>2. ASSUME NEW op \in WindowOp,
             events' = events \o [i \in DOMAIN Emitted(op) |->
                                    [type |-> Emitted(op)[i], of |-> ThisWindow, data |-> 0]]
      PROVE  Queues(OtherEvents)
  <2>1. Queues(StateEvents)
    BY <1>2, EmissionQueues
  <2> QED
    BY <1>0, <2>1 DEF Queues
<1>3. ASSUME NEW op \in WindowOp, UserWindow(op) PROVE same /\ back /\ Queues(OtherEvents)
  BY <1>2, <1>3 DEF UserWindow, Input, miceVars
<1>4. CASE WindowManager
  <2>1. Head(ops) \in WindowOp
    BY <1>4, HeadTailProperties DEF WindowManager, QueueTypes
  <2> QED
    BY <1>2, <1>4, <2>1 DEF WindowManager, userVars, miceVars
<1>5. ASSUME NEW w \in {ThisWindow, OtherWindow}, NEW s \in Extents,
             UserEvent("RESIZED", w, s) \/ UserEvent("CLOSE_REQUESTED", w, s)
      PROVE  same /\ back /\ Queues(OtherEvents)
  <2>1. \E e \in WindowEvents : events' = Append(events, e)
    BY <1>5 DEF UserEvent, Queue, WindowEvents
  <2> QED
    BY <1>0, <1>5, <2>1 DEF UserEvent, Input, Queues, layerVars, miceVars
<1>6. CASE AskWindow
  BY <1>6 DEF AskWindow, Input, Queues, miceVars
<1>7. CASE Frame \/ UseMeshes \/ EndPoll \/ UNCHANGED loopVars
  BY <1>7 DEF Frame, UseMeshes, EndPoll, loopVars, layerVars, userVars, miceVars, Queues
<1> QED
  BY LoopActions, <1>1, <1>3, <1>4, <1>5, <1>6, <1>7

\* Events of other kinds are queued.
LEMMA OtherQueues ==
  ASSUME events \in Seq(Event), NEW set \in SUBSET Event, Queues(set), NEW kind, NEW yes,
         NEW now \in BOOLEAN, NEW told \in BOOLEAN, \A e \in set : e \notin kind,
         WillKnow(kind, yes, events, now, told)
  PROVE  WillKnow(kind, yes, events', now, told)
<1>1. CASE events' = events
  BY <1>1
<1>2. ASSUME NEW e \in set, events' = Append(events, e) PROVE WillKnow(kind, yes, events', now, told)
  BY <1>2, OtherQueued
<1>3. ASSUME NEW e \in set, NEW f \in set, events' = Append(Append(events, e), f)
      PROVE  WillKnow(kind, yes, events', now, told)
  <2> DEFINE middle == Append(events, e)
  <2>1. WillKnow(kind, yes, middle, now, told) /\ middle \in Seq(Event)
    BY OtherQueued, AppendProperties
  <2> HIDE DEF middle
  <2>2. WillKnow(kind, yes, Append(middle, f), now, told)
    BY <2>1, OtherQueued
  <2> QED
    BY <1>3, <2>2 DEF middle
<1> QED
  BY <1>1, <1>2, <1>3 DEF Queues

-----------------------------------------------------------------------------
(* The keyboard *)

\* The offset that is written is the one that is read, and no two keys share it.
LEMMA KeyBits ==
  ASSUME NEW k \in Key, NEW l \in Key
  PROVE  /\ SetBit(k) = Bit(k)
         /\ Bit(k) \in Bits
         /\ Bit(k) = Bit(l) => k = l
<1>1. k \in 0 .. 255 /\ l \in 0 .. 255
  BY DEF Key, GLGE_KEY_ENUM_MAX
<1>2. ShiftOffset(k) = k % 64
  BY <1>1 DEF ShiftOffset
<1>3. /\ k \div 64 \in 0 .. 3 /\ k % 64 \in 0 .. 63
      /\ k = 64 * (k \div 64) + (k % 64)
      /\ l = 64 * (l \div 64) + (l % 64)
  BY <1>1
<1> QED
  BY <1>2, <1>3 DEF SetBit, Bit, Bits

LEMMA KeyCodes ==
  ASSUME NEW k \in PhysicalKeys
  PROVE  MapKey(k) \in Key
BY KeyAssumption DEF MapKey, Key, GLGE_KEY_ENUM_MAX

OfKey(k) == {e \in KeyEvents : e.of = k}
Downs == {e \in Event : e.type \in {"KEY_DOWN", "BUTTON_DOWN"}}

\* no other key has the code of this one
Alone(k) == \A other \in PhysicalKeys : MapKey(other) = MapKey(k) => other = k

KeyTold(k) == IsSignaled(MapKey(k), pressed) <=> k \in heldKeys

KeyTypes ==
  /\ pressed \subseteq Bits /\ enabled \subseteq Bits /\ released \subseteq Bits
  /\ repeated \subseteq Bits /\ pressedBefore \subseteq Bits

KeyEdges == EdgesTell(pressedBefore, pressed, enabled \cup repeated, released)

\* a key of its own is pressed exactly if it is held, once its events are handled
KeysKnown ==
  \A k \in PhysicalKeys :
    Alone(k) => WillKnow(OfKey(k), Downs, events, k \in heldKeys, KeyTold(k))

KeyInv == KeyTypes /\ KeyEdges /\ KeysKnown

\* What the event of a key changes, and that the edges tell it.
LEMMA KeyEventSteps ==
  ASSUME KeyTypes, KeyEdges, NEW k \in Key, KeyDown(k) \/ KeyUp(k)
  PROVE  /\ KeyTypes' /\ KeyEdges'
         /\ KeyDown(k) => pressed' = pressed \cup {Bit(k)}
         /\ KeyUp(k) => pressed' = pressed \ {Bit(k)}
<1> DEFINE b == Bit(k)
<1>1. SetBit(k) = b /\ b \in Bits
  BY KeyBits
<1>2. ASSUME KeyDown(k)
      PROVE  /\ KeyTypes' /\ KeyEdges'
             /\ pressed' = pressed \cup {b}
  <2>1. /\ repeated' = IF b \in pressed THEN repeated \cup {b} ELSE repeated \ {b}
        /\ enabled' = IF b \notin pressed THEN enabled \cup {b} ELSE enabled \ {b}
        /\ pressed' = pressed \cup {b}
        /\ UNCHANGED <<released, pressedBefore>>
    BY <1>1, <1>2 DEF KeyDown, SetSignaled, IsSignaled
  <2>2. enabled' \cup repeated' = enabled \cup repeated \cup {b}
    BY <2>1
  <2>3. KeyTypes'
    BY <1>1, <2>1 DEF KeyTypes
  <2>4. KeyEdges'
    BY <2>1, <2>2 DEF KeyEdges, EdgesTell
  <2> QED
    BY <2>1, <2>3, <2>4
<1>3. ASSUME KeyUp(k)
      PROVE  /\ KeyTypes' /\ KeyEdges'
             /\ pressed' = pressed \ {b}
  <2>1. /\ pressed' = pressed \ {b} /\ released' = released \cup {b}
        /\ UNCHANGED <<enabled, repeated, pressedBefore>>
    BY <1>1, <1>3 DEF KeyUp, SetSignaled
  <2>2. KeyTypes'
    BY <1>1, <2>1 DEF KeyTypes
  <2>3. KeyEdges'
    BY <2>1 DEF KeyEdges, EdgesTell
  <2> QED
    BY <2>1, <2>2, <2>3
<1> QED
  BY <1>2, <1>3

\* An event of the queue is handled.
LEMMA KeysPolled ==
  ASSUME QueueTypes, KeyInv, PollEvent
  PROVE  KeyInv'
<1> DEFINE e == Head(events)
<1>1. events \in Seq(Event) /\ events # <<>> /\ events' = Tail(events) /\ e \in Event /\ UNCHANGED heldKeys
  BY HeadTailProperties DEF PollEvent, QueueTypes, userVars
<1>2. CASE e \in KeyEvents
  <2>1. KeyEvent(e) /\ e.of \in PhysicalKeys
    BY <1>2 DEF PollEvent, KeyEvents, MouseEvent, WindowEvent
  <2> DEFINE code == MapKey(e.of)
  <2>2. code \in Key /\ (KeyDown(code) \/ KeyUp(code))
    BY <2>1, KeyCodes DEF KeyEvent
  <2>3. KeyTypes' /\ KeyEdges'
        /\ pressed' = IF e.type = "KEY_DOWN" THEN pressed \cup {Bit(code)} ELSE pressed \ {Bit(code)}
    <3> HIDE DEF code
    <3>1. /\ KeyTypes' /\ KeyEdges'
          /\ KeyDown(code) => pressed' = pressed \cup {Bit(code)}
          /\ KeyUp(code) => pressed' = pressed \ {Bit(code)}
      BY <2>2, KeyEventSteps DEF KeyInv
    <3> QED
      BY <2>1, <3>1 DEF KeyEvent, code
  <2>4. ASSUME NEW k \in PhysicalKeys, Alone(k)
        PROVE  WillKnow(OfKey(k), Downs, Tail(events), k \in heldKeys, KeyTold(k)')
    <3>1. e \in OfKey(k) <=> e.of = k
      BY <1>2 DEF OfKey
    <3>2. e \in Downs <=> e.type = "KEY_DOWN"
      BY <1>1, <1>2 DEF Downs, KeyEvents
    <3>3. e.of = k => (Bit(MapKey(k)) \in pressed' <=> e.type = "KEY_DOWN")
      BY <2>3
    <3>4. e.of # k => (Bit(MapKey(k)) \in pressed' <=> Bit(MapKey(k)) \in pressed)
      <4>1. e.of # k => code # MapKey(k)
        BY <2>1, <2>4 DEF Alone
      <4>2. MapKey(k) \in Key
        BY KeyCodes
      <4>3. code # MapKey(k) => Bit(code) # Bit(MapKey(k))
        BY <2>2, <4>2, KeyBits
      <4> QED
        BY <2>3, <4>1, <4>3
    <3>5. WillKnow(OfKey(k), Downs, events, k \in heldKeys, KeyTold(k))
      BY <2>4 DEF KeyInv, KeysKnown
    <3>6. /\ KeyTold(k) \in BOOLEAN /\ KeyTold(k)' \in BOOLEAN
          /\ KeyTold(k) <=> (Bit(MapKey(k)) \in pressed <=> k \in heldKeys)
          /\ KeyTold(k)' <=> (Bit(MapKey(k)) \in pressed' <=> k \in heldKeys)
      BY <1>1 DEF KeyTold, IsSignaled
    <3>7. /\ e \in OfKey(k) => ((e \in Downs <=> k \in heldKeys) => KeyTold(k)')
          /\ e \notin OfKey(k) => (KeyTold(k) => KeyTold(k)')
      BY <3>1, <3>2, <3>3, <3>4, <3>6
    <3>8. (k \in heldKeys) \in BOOLEAN
      OBVIOUS
    <3> QED
      BY <1>1, <3>5, <3>6, <3>7, <3>8, AfterPoll
  <2> QED
    BY <1>1, <2>3, <2>4 DEF KeyInv, KeysKnown
<1>3. CASE e \notin KeyEvents
  <2>1. UNCHANGED keyVars
    <3>1. ~KeyEvent(e)
      BY <1>1, <1>3, EventKinds DEF KeyEvent
    <3> QED
      BY <3>1 DEF PollEvent, layerVars
  <2>2. ASSUME NEW k \in PhysicalKeys, Alone(k)
        PROVE  WillKnow(OfKey(k), Downs, Tail(events), k \in heldKeys, KeyTold(k))
    <3>1. e \notin OfKey(k) /\ KeyTold(k) \in BOOLEAN /\ (k \in heldKeys) \in BOOLEAN
      BY <1>3 DEF OfKey, KeyTold
    <3>2. WillKnow(OfKey(k), Downs, events, k \in heldKeys, KeyTold(k))
      BY <2>2 DEF KeyInv, KeysKnown
    <3> QED
      BY <1>1, <3>1, <3>2, AfterPoll
  <2> QED
    BY <1>1, <2>1, <2>2 DEF KeyInv, KeyTypes, KeyEdges, KeysKnown, KeyTold, keyVars
<1> QED
  BY <1>2, <1>3

\* The user presses or releases a key.
LEMMA KeysQueued ==
  ASSUME QueueTypes, KeyInv, NEW k \in PhysicalKeys, PressKey(k) \/ ReleaseKey(k)
  PROVE  KeyInv'
<1>1. PICK e \in OfKey(k) :
        /\ events' = Append(events, e)
        /\ e \in Downs <=> k \in heldKeys'
        /\ \A other \in PhysicalKeys : other # k => (other \in heldKeys' <=> other \in heldKeys)
  BY DEF PressKey, ReleaseKey, Queue, OfKey, KeyEvents, Downs, Event
<1>2. UNCHANGED keyVars /\ events \in Seq(Event) /\ e \in Event
  BY <1>1 DEF PressKey, ReleaseKey, layerVars, QueueTypes, OfKey, Event
<1>3. ASSUME NEW other \in PhysicalKeys, Alone(other)
      PROVE  WillKnow(OfKey(other), Downs, Append(events, e), other \in heldKeys', KeyTold(other)')
  <2>1. /\ KeyTold(other) \in BOOLEAN /\ KeyTold(other)' \in BOOLEAN
        /\ (other \in heldKeys) \in BOOLEAN /\ (other \in heldKeys') \in BOOLEAN
    BY DEF KeyTold
  <2>2. CASE other = k
    BY <1>1, <1>2, <2>1, <2>2, LastQueued
  <2>3. CASE other # k
    <3>1. KeyTold(other)' <=> KeyTold(other)
      BY <1>1, <1>2, <2>3 DEF KeyTold, keyVars
    <3>2. WillKnow(OfKey(other), Downs, events, other \in heldKeys, KeyTold(other))
      BY <1>3 DEF KeyInv, KeysKnown
    <3>3. WillKnow(OfKey(other), Downs, events, other \in heldKeys', KeyTold(other)')
      BY <1>1, <2>1, <2>3, <3>1, <3>2, SameQueue
    <3>4. e \notin OfKey(other)
      BY <1>1, <2>3 DEF OfKey
    <3> QED
      BY <1>2, <2>1, <3>3, <3>4, OtherQueued
  <2> QED
    BY <2>2, <2>3
<1> QED
  BY <1>1, <1>2, <1>3 DEF KeyInv, KeyTypes, KeyEdges, KeysKnown, keyVars

\* Neither the keys nor their events change.
LEMMA KeysLeftAlone ==
  ASSUME QueueTypes, KeyInv, UNCHANGED <<pressed, heldKeys>>, NEW set \in SUBSET Event, Queues(set),
         \A e \in set : e \notin KeyEvents
  PROVE  KeysKnown'
<1> SUFFICES ASSUME NEW k \in PhysicalKeys, Alone(k)
             PROVE  WillKnow(OfKey(k), Downs, events', k \in heldKeys, KeyTold(k))
  BY DEF KeysKnown, KeyTold
<1>1. /\ \A e \in set : e \notin OfKey(k)
      /\ KeyTold(k) \in BOOLEAN /\ (k \in heldKeys) \in BOOLEAN
  BY DEF OfKey, KeyTold
<1>2. WillKnow(OfKey(k), Downs, events, k \in heldKeys, KeyTold(k)) /\ events \in Seq(Event)
  BY DEF KeyInv, KeysKnown, QueueTypes
<1> QED
  BY <1>1, <1>2, OtherQueues

LEMMA KeySteps ==
  ASSUME QueueTypes, KeyInv, [LoopNext]_loopVars
  PROVE  KeyInv'
<1>1. CASE UpdateLayers
  <2>1. /\ pressed' = pressed /\ pressedBefore' = pressed
        /\ enabled' = {} /\ released' = {} /\ repeated' = {} /\ UNCHANGED <<heldKeys, events>>
    BY <1>1 DEF UpdateLayers, KeysOnUpdate, userVars
  <2>2. KeysKnown'
    BY <2>1, KeysLeftAlone DEF Queues
  <2> QED
    BY <2>1, <2>2 DEF KeyInv, KeyTypes, KeyEdges, EdgesTell
<1>2. ASSUME UNCHANGED <<keyVars, heldKeys>>, NEW set \in SUBSET Event, Queues(set),
             \A e \in set : e \notin KeyEvents
      PROVE  KeyInv'
  <2>1. KeysKnown'
    BY <1>2, KeysLeftAlone DEF keyVars
  <2> QED
    BY <1>2, <2>1 DEF KeyInv, KeyTypes, KeyEdges, keyVars
<1>3. ASSUME NEW m \in Mice, NEW b \in Buttons, PressButton(m, b) \/ ReleaseButton(m, b)
      PROVE  KeyInv'
  <2>1. UNCHANGED <<keyVars, heldKeys>>
    BY <1>3 DEF PressButton, ReleaseButton, layerVars
  <2>2. Queues(ButtonEvents)
    BY <1>3 DEF PressButton, ReleaseButton, Queue, Queues, ButtonEvents
  <2>3. ButtonEvents \in SUBSET Event /\ \A e \in ButtonEvents : e \notin KeyEvents
    BY DEF Event, ButtonEvents, KeyEvents
  <2> QED
    BY <1>2, <2>1, <2>2, <2>3
<1>4. CASE SampleAndTick
  <2>1. UNCHANGED <<keyVars, heldKeys>> /\ Queues({})
    BY <1>4 DEF SampleAndTick, layerVars, userVars, Queues
  <2> QED
    BY <1>2, <2>1
<1>5. OtherEvents \in SUBSET Event /\ \A e \in OtherEvents : e \notin KeyEvents
  BY DEF OtherEvents, Event, MotionEvents, StateEvents, WindowEvents, KeyEvents
<1> QED
  BY <1>1, <1>2, <1>3, <1>4, <1>5, DeviceSteps, KeysPolled, KeysQueued

-----------------------------------------------------------------------------
(* The mice *)

MouseState == [current : SUBSET Buttons, pressed : SUBSET Buttons, released : SUBSET Buttons]

\* the buttons of mouse m that the layer has down
Down(m) == IF m \in DOMAIN mapping THEN mice[mapping[m]].current ELSE {}

OfButton(m, b) == {e \in ButtonEvents : e.of = m /\ e.data = b}

ButtonTold(m, b) == b \in Down(m) <=> b \in heldButtons[m]

MiceTypes ==
  /\ \E n \in Nat : DOMAIN mice = 0 .. n - 1
  /\ DOMAIN mice = DOMAIN currentBefore
  /\ \A i \in DOMAIN mice : mice[i] \in MouseState
  /\ mapping \in [DOMAIN mapping -> Nat] /\ DOMAIN mapping \subseteq Mice
  /\ outOfBounds \in BOOLEAN
  /\ heldButtons \in [Mice -> SUBSET Buttons]

\* every entry has a mouse, and every mouse that is known an entry
EntriesAreUsed ==
  /\ \A i \in DOMAIN mice : \E m \in DOMAIN mapping : mapping[m] = i
  /\ ~outOfBounds => \A m \in DOMAIN mapping : mapping[m] \in DOMAIN mice

MiceEdges ==
  \A i \in DOMAIN mice : EdgesTell(currentBefore[i], mice[i].current, mice[i].pressed, mice[i].released)

ButtonsKnown ==
  Distinct /\ ~outOfBounds =>
    \A m \in Mice, b \in Buttons :
      WillKnow(OfButton(m, b), Downs, events, b \in heldButtons[m], ButtonTold(m, b))

\* between two rounds without an event the sampled mouse is what the user holds
MouseIsSampled == round = "idle" /\ events = <<>> => globalMouse.current = Mask

MiceInv == MiceTypes /\ EntriesAreUsed /\ MiceEdges /\ ButtonsKnown /\ MouseIsSampled

\* The event of a mouse, after which its entry is next.  When it was not listed,
\* it shares the first entry or there is none to write.
LEMMA MouseUpdated ==
  ASSUME MiceTypes, EntriesAreUsed, NEW m \in Mice, NEW next \in MouseState, Update(m, next)
  PROVE  /\ Distinct' /\ ~outOfBounds' =>
              /\ Distinct /\ ~outOfBounds
              /\ m \in DOMAIN mapping /\ mapping[m] \in DOMAIN mice
              /\ mapping' = mapping
              /\ mice' = [mice EXCEPT ![mapping[m]] = next]
         /\ Entry(m) \in DOMAIN mice => mice' = [mice EXCEPT ![Entry(m)] = next]
         /\ Entry(m) \notin DOMAIN mice => mice' = mice
         /\ DOMAIN mice' = DOMAIN mice /\ UNCHANGED currentBefore
         /\ DOMAIN mapping' \subseteq Mice /\ mapping' \in [DOMAIN mapping' -> Nat]
         /\ outOfBounds' \in BOOLEAN
         /\ EntriesAreUsed'
<1> DEFINE i == Entry(m)
<1>1. /\ i \in Nat
      /\ m \in DOMAIN mapping => i = mapping[m]
      /\ m \notin DOMAIN mapping => i = 0
  BY DEF MiceTypes, Entry
<1>2. /\ mapping' = [n \in DOMAIN mapping \cup {m} |-> IF n = m THEN i ELSE mapping[n]]
      /\ UNCHANGED currentBefore
      /\ i \in DOMAIN mice => mice' = [mice EXCEPT ![i] = next] /\ outOfBounds' = outOfBounds
      /\ i \notin DOMAIN mice => mice' = mice /\ outOfBounds' = TRUE
  BY DEF Update
<1> HIDE DEF i
<1>3. DOMAIN mice' = DOMAIN mice
  BY <1>2
<1>4. /\ DOMAIN mapping' = DOMAIN mapping \cup {m}
      /\ mapping'[m] = i
      /\ \A n \in DOMAIN mapping : mapping'[n] = mapping[n]
  BY <1>1, <1>2
<1>5. DOMAIN mapping' \subseteq Mice /\ mapping' \in [DOMAIN mapping' -> Nat] /\ outOfBounds' \in BOOLEAN
  BY <1>1, <1>2 DEF MiceTypes
<1>6. EntriesAreUsed'
  <2>1. \A j \in DOMAIN mice' : \E n \in DOMAIN mapping' : mapping'[n] = j
    <3> SUFFICES ASSUME NEW j \in DOMAIN mice PROVE \E n \in DOMAIN mapping' : mapping'[n] = j
      BY <1>3
    <3>1. PICK n \in DOMAIN mapping : mapping[n] = j
      BY DEF EntriesAreUsed
    <3> QED
      BY <1>4, <3>1
  <2>2. ASSUME ~outOfBounds', NEW n \in DOMAIN mapping' PROVE mapping'[n] \in DOMAIN mice'
    <3>1. i \in DOMAIN mice /\ ~outOfBounds
      BY <1>2, <2>2
    <3> QED
      BY <1>3, <1>4, <2>2, <3>1 DEF EntriesAreUsed
  <2> QED
    BY <2>1, <2>2 DEF EntriesAreUsed
<1>7. ASSUME Distinct', ~outOfBounds'
      PROVE  /\ Distinct /\ ~outOfBounds
             /\ m \in DOMAIN mapping /\ mapping[m] \in DOMAIN mice
             /\ mapping' = mapping
             /\ mice' = [mice EXCEPT ![mapping[m]] = next]
  <2>1. i \in DOMAIN mice /\ ~outOfBounds
    BY <1>2, <1>7
  <2>2. m \in DOMAIN mapping
    <3> SUFFICES ASSUME m \notin DOMAIN mapping PROVE FALSE
      OBVIOUS
    <3>1. i = 0 /\ 0 \in DOMAIN mice
      BY <1>1, <2>1
    <3>2. PICK other \in DOMAIN mapping : mapping[other] = 0
      BY <3>1 DEF EntriesAreUsed
    <3>3. mapping'[other] = mapping'[m] /\ other # m /\ other \in DOMAIN mapping' /\ m \in DOMAIN mapping'
      BY <1>4, <3>1, <3>2
    <3> QED
      BY <1>7, <3>3 DEF Distinct, IsInjective
  <2>3. mapping' = mapping
    BY <1>1, <1>2, <2>2 DEF MiceTypes
  <2>4. Distinct
    BY <1>7, <2>3 DEF Distinct, IsInjective
  <2> QED
    BY <1>1, <1>2, <2>1, <2>2, <2>3, <2>4
<1> QED
  BY <1>2, <1>3, <1>5, <1>6, <1>7 DEF i

\* What the entry of the mouse is after an event.
Handled(e) ==
  CASE e.type = "BUTTON_DOWN" ->
         [MouseOf(e.of) EXCEPT !.current = @ \cup {e.data}, !.pressed = @ \cup {e.data}]
    [] e.type = "BUTTON_UP" ->
         [MouseOf(e.of) EXCEPT !.current = @ \ {e.data}, !.released = @ \cup {e.data}]
    [] e.type = "MOTION" -> MouseOf(e.of)

LEMMA HandledMouse ==
  ASSUME MiceTypes, NEW e \in ButtonEvents \cup MotionEvents
  PROVE  /\ e.of \in Mice /\ Handled(e) \in MouseState
         /\ MouseEvent(e) => Update(e.of, Handled(e))
         /\ e \in ButtonEvents => e.data \in Buttons
         /\ LET old == MouseOf(e.of)
                new == Handled(e)
            IN  /\ old \in MouseState
                /\ e.type = "BUTTON_DOWN" =>
                     /\ new.current = old.current \cup {e.data} /\ new.pressed = old.pressed \cup {e.data}
                     /\ new.released = old.released
                /\ e.type = "BUTTON_UP" =>
                     /\ new.current = old.current \ {e.data} /\ new.released = old.released \cup {e.data}
                     /\ new.pressed = old.pressed
                /\ e.type = "MOTION" => new = old
                /\ e.type \in {"BUTTON_DOWN", "BUTTON_UP", "MOTION"}
<1>1. /\ e.of \in Mice
      /\ e \in ButtonEvents <=> e.type \in {"BUTTON_DOWN", "BUTTON_UP"}
      /\ e \in ButtonEvents => e.data \in Buttons
      /\ e.type \in {"BUTTON_DOWN", "BUTTON_UP", "MOTION"}
  BY DEF ButtonEvents, MotionEvents
<1>2. MouseOf(e.of) \in MouseState
  BY DEF MouseOf, MiceTypes, MouseState, Untouched
<1>3. CASE e.type = "BUTTON_DOWN"
  <2>1. Handled(e) = [MouseOf(e.of) EXCEPT !.current = @ \cup {e.data}, !.pressed = @ \cup {e.data}]
    BY <1>3 DEF Handled
  <2>2. MouseEvent(e) => Update(e.of, Handled(e))
    BY <1>3, <2>1 DEF MouseEvent, MouseDown
  <2>3. /\ Handled(e) \in MouseState
        /\ Handled(e).current = MouseOf(e.of).current \cup {e.data}
        /\ Handled(e).pressed = MouseOf(e.of).pressed \cup {e.data}
        /\ Handled(e).released = MouseOf(e.of).released
    <3> DEFINE old == MouseOf(e.of)
               b == e.data
               new == Handled(e)
    <3>1. old \in MouseState /\ b \in Buttons /\ new = [old EXCEPT !.current = @ \cup {b}, !.pressed = @ \cup {b}]
      BY <1>1, <1>2, <1>3, <2>1
    <3> HIDE DEF old, b, new
    <3>2. /\ old.current \subseteq Buttons /\ old.pressed \subseteq Buttons /\ old.released \subseteq Buttons
          /\ new = [current |-> old.current \cup {b}, pressed |-> old.pressed \cup {b}, released |-> old.released]
      BY <3>1 DEF MouseState
    <3>3. /\ new \in MouseState /\ new.current = old.current \cup {b}
          /\ new.pressed = old.pressed \cup {b} /\ new.released = old.released
      BY <3>1, <3>2 DEF MouseState
    <3> QED
      BY <3>3 DEF old, b, new
  <2> QED
    BY <1>1, <1>2, <1>3, <2>2, <2>3
<1>4. CASE e.type = "BUTTON_UP"
  <2>1. Handled(e) = [MouseOf(e.of) EXCEPT !.current = @ \ {e.data}, !.released = @ \cup {e.data}]
    BY <1>4 DEF Handled
  <2>2. MouseEvent(e) => Update(e.of, Handled(e))
    BY <1>4, <2>1 DEF MouseEvent, MouseUp
  <2> QED
    BY <1>1, <1>2, <1>4, <2>1, <2>2 DEF MouseState
<1>5. CASE e.type = "MOTION"
  <2>1. Handled(e) = MouseOf(e.of)
    BY <1>5 DEF Handled
  <2>2. MouseEvent(e) => Update(e.of, Handled(e))
    BY <1>5, <2>1 DEF MouseEvent, MouseMove
  <2> QED
    BY <1>1, <1>2, <1>5, <2>1, <2>2
<1> QED
  BY <1>1, <1>3, <1>4, <1>5

\* An event of the queue is handled.
LEMMA MicePolled ==
  ASSUME QueueTypes, MiceInv, PollEvent
  PROVE  MiceInv'
<1> DEFINE e == Head(events)
           m == e.of
           next == Handled(e)
<1>1. /\ events \in Seq(Event) /\ events # <<>> /\ events' = Tail(events) /\ e \in Event
      /\ UNCHANGED <<heldButtons, round>> /\ round = "poll"
  BY HeadTailProperties DEF PollEvent, QueueTypes, userVars
<1>2. MouseIsSampled'
  BY <1>1 DEF MouseIsSampled
<1>3. CASE e \notin ButtonEvents \cup MotionEvents
  <2>1. UNCHANGED mouseVars
    <3>1. ~MouseEvent(e)
      BY <1>1, <1>3, EventKinds DEF MouseEvent
    <3> QED
      BY <3>1 DEF PollEvent, layerVars
  <2>2. ASSUME Distinct, ~outOfBounds, NEW n \in Mice, NEW b \in Buttons
        PROVE  WillKnow(OfButton(n, b), Downs, Tail(events), b \in heldButtons[n], ButtonTold(n, b))
    <3>1. e \notin OfButton(n, b) /\ ButtonTold(n, b) \in BOOLEAN /\ (b \in heldButtons[n]) \in BOOLEAN
      BY <1>3 DEF OfButton, ButtonTold
    <3>2. WillKnow(OfButton(n, b), Downs, events, b \in heldButtons[n], ButtonTold(n, b))
      BY <2>2 DEF MiceInv, ButtonsKnown
    <3> QED
      BY <1>1, <3>1, <3>2, AfterPoll
  <2>3. UNCHANGED <<mapping, mice, currentBefore, outOfBounds>>
    BY <2>1 DEF mouseVars
  <2>4. ButtonsKnown'
    BY <1>1, <2>2, <2>3 DEF ButtonsKnown, ButtonTold, Down, Distinct
  <2> QED
    BY <1>1, <1>2, <2>3, <2>4 DEF MiceInv, MiceTypes, EntriesAreUsed, MiceEdges
<1>4. CASE e \in ButtonEvents \cup MotionEvents
  <2>1. m \in Mice /\ next \in MouseState /\ Update(m, next)
    <3>1. MouseEvent(e)
      BY <1>4 DEF PollEvent, KeyEvent, WindowEvent, ButtonEvents, MotionEvents
    <3> QED
      BY <1>4, <3>1, HandledMouse DEF MiceInv
  <2>2. /\ MouseOf(m) \in MouseState
        /\ e.type = "BUTTON_DOWN" =>
             /\ next.current = MouseOf(m).current \cup {e.data}
             /\ next.pressed = MouseOf(m).pressed \cup {e.data}
             /\ next.released = MouseOf(m).released
        /\ e.type = "BUTTON_UP" =>
             /\ next.current = MouseOf(m).current \ {e.data}
             /\ next.released = MouseOf(m).released \cup {e.data}
             /\ next.pressed = MouseOf(m).pressed
        /\ e.type = "MOTION" => next = MouseOf(m)
        /\ e.type \in {"BUTTON_DOWN", "BUTTON_UP", "MOTION"}
    BY <1>4, HandledMouse DEF MiceInv
  <2>3. Entry(m) \in DOMAIN mice => MouseOf(m) = mice[Entry(m)]
    BY DEF MouseOf
  <2> HIDE DEF e, m, next
  <2>4. /\ Distinct' /\ ~outOfBounds' =>
             /\ Distinct /\ ~outOfBounds
             /\ m \in DOMAIN mapping /\ mapping[m] \in DOMAIN mice
             /\ mapping' = mapping
             /\ mice' = [mice EXCEPT ![mapping[m]] = next]
        /\ Entry(m) \in DOMAIN mice => mice' = [mice EXCEPT ![Entry(m)] = next]
        /\ Entry(m) \notin DOMAIN mice => mice' = mice
        /\ DOMAIN mice' = DOMAIN mice /\ UNCHANGED currentBefore
        /\ DOMAIN mapping' \subseteq Mice /\ mapping' \in [DOMAIN mapping' -> Nat]
        /\ outOfBounds' \in BOOLEAN
        /\ EntriesAreUsed'
    BY <2>1, MouseUpdated DEF MiceInv
  <2>5. MiceTypes'
    <3>1. ASSUME NEW i \in DOMAIN mice PROVE mice'[i] \in MouseState
      BY <2>1, <2>4 DEF MiceInv, MiceTypes
    <3> QED
      BY <1>1, <2>4, <3>1 DEF MiceInv, MiceTypes
  <2>6. MiceEdges'
    <3> SUFFICES ASSUME NEW i \in DOMAIN mice
                 PROVE  EdgesTell(currentBefore[i], mice'[i].current, mice'[i].pressed, mice'[i].released)
      BY <2>4 DEF MiceEdges
    <3>1. EdgesTell(currentBefore[i], mice[i].current, mice[i].pressed, mice[i].released)
      BY DEF MiceInv, MiceEdges
    <3>2. CASE i # Entry(m)
      <4>1. mice'[i] = mice[i]
        BY <2>4, <3>2
      <4> QED
        BY <3>1, <4>1
    <3>3. CASE i = Entry(m)
      <4>1. mice'[i] = next /\ MouseOf(m) = mice[i]
        BY <2>3, <2>4, <3>3
      <4> QED
        BY <2>2, <3>1, <4>1 DEF EdgesTell
    <3> QED
      BY <3>2, <3>3
  <2>7. ButtonsKnown'
    <3> SUFFICES ASSUME Distinct', ~outOfBounds', NEW n \in Mice, NEW b \in Buttons
                 PROVE  WillKnow(OfButton(n, b), Downs, Tail(events), b \in heldButtons[n], ButtonTold(n, b)')
      BY <1>1 DEF ButtonsKnown
    <3>1. /\ Distinct /\ ~outOfBounds /\ mapping' = mapping
          /\ m \in DOMAIN mapping /\ mapping[m] \in DOMAIN mice
          /\ mice' = [mice EXCEPT ![mapping[m]] = next]
          /\ MouseOf(m) = mice[mapping[m]]
      BY <2>3, <2>4 DEF Entry
    <3>2. /\ n = m => Down(n)' = next.current /\ Down(n) = MouseOf(m).current
          /\ n # m => Down(n)' = Down(n)
      <4>1. \A k \in DOMAIN mapping : mapping[k] \in DOMAIN mice
        BY <3>1 DEF MiceInv, EntriesAreUsed
      <4>2. n # m /\ n \in DOMAIN mapping => mapping[n] # mapping[m]
        BY <3>1 DEF Distinct, IsInjective
      <4> QED
        BY <3>1, <4>1, <4>2 DEF Down
    <3>3. /\ e \in OfButton(n, b) <=> e \in ButtonEvents /\ m = n /\ e.data = b
          /\ e \in ButtonEvents <=> e.type \in {"BUTTON_DOWN", "BUTTON_UP"}
          /\ e \in ButtonEvents => (e \in Downs <=> e.type = "BUTTON_DOWN")
      BY <1>1, <1>4 DEF OfButton, ButtonEvents, MotionEvents, Downs, m, e
    <3>4. /\ ButtonTold(n, b) \in BOOLEAN /\ ButtonTold(n, b)' \in BOOLEAN
          /\ ButtonTold(n, b) <=> (b \in Down(n) <=> b \in heldButtons[n])
          /\ ButtonTold(n, b)' <=> (b \in Down(n)' <=> b \in heldButtons[n])
          /\ (b \in heldButtons[n]) \in BOOLEAN
      BY <1>1 DEF ButtonTold
    <3>5. /\ e \in OfButton(n, b) => ((e \in Downs <=> b \in heldButtons[n]) => ButtonTold(n, b)')
          /\ e \notin OfButton(n, b) => (ButtonTold(n, b) => ButtonTold(n, b)')
      <4>1. CASE n # m
        BY <3>2, <3>3, <3>4, <4>1
      <4>2. CASE n = m /\ e.type = "BUTTON_DOWN"
        BY <2>2, <3>2, <3>3, <3>4, <4>2
      <4>3. CASE n = m /\ e.type = "BUTTON_UP"
        BY <2>2, <3>2, <3>3, <3>4, <4>3
      <4>4. CASE n = m /\ e.type = "MOTION"
        BY <2>2, <3>2, <3>3, <3>4, <4>4
      <4> QED
        BY <2>2, <4>1, <4>2, <4>3, <4>4
    <3>6. WillKnow(OfButton(n, b), Downs, events, b \in heldButtons[n], ButtonTold(n, b))
      BY <3>1 DEF MiceInv, ButtonsKnown
    <3> QED
      BY <1>1, <3>4, <3>5, <3>6, AfterPoll DEF e
  <2> QED
    BY <1>2, <2>4, <2>5, <2>6, <2>7 DEF MiceInv
<1> QED
  BY <1>3, <1>4

\* The user presses or releases a button.
LEMMA MiceQueued ==
  ASSUME QueueTypes, MiceInv, NEW m \in Mice, NEW b \in Buttons, PressButton(m, b) \/ ReleaseButton(m, b)
  PROVE  MiceInv'
<1>1. PICK e \in OfButton(m, b) :
        /\ events' = Append(events, e)
        /\ e \in Downs <=> PressButton(m, b)
  BY DEF PressButton, ReleaseButton, Queue, OfButton, ButtonEvents, Downs, Event
<1>2. /\ heldButtons' \in [Mice -> SUBSET Buttons]
      /\ b \in heldButtons'[m] <=> PressButton(m, b)
      /\ \A n \in Mice, c \in Buttons :
           ~(n = m /\ c = b) => (c \in heldButtons'[n] <=> c \in heldButtons[n])
  <2>1. heldButtons \in [Mice -> SUBSET Buttons]
    BY DEF MiceInv, MiceTypes
  <2>2. CASE PressButton(m, b)
    <3>1. heldButtons' = [heldButtons EXCEPT ![m] = @ \cup {b}]
      BY <2>2 DEF PressButton
    <3> QED
      BY <2>1, <2>2, <3>1
  <2>3. CASE ~PressButton(m, b)
    <3>1. heldButtons' = [heldButtons EXCEPT ![m] = @ \ {b}]
      BY <2>3 DEF ReleaseButton
    <3> QED
      BY <2>1, <2>3, <3>1
  <2> QED
    BY <2>2, <2>3
<1>3. /\ UNCHANGED <<mapping, mice, currentBefore, outOfBounds, round>>
      /\ events \in Seq(Event) /\ e \in Event
  BY <1>1 DEF PressButton, ReleaseButton, Input, layerVars, mouseVars, QueueTypes, OfButton, Event
<1>4. events' # <<>>
  BY <1>1, <1>3, AppendProperties, EmptySeq
<1>5. ASSUME Distinct, ~outOfBounds, NEW n \in Mice, NEW c \in Buttons
      PROVE  WillKnow(OfButton(n, c), Downs, Append(events, e), c \in heldButtons'[n], ButtonTold(n, c)')
  <2>1. /\ ButtonTold(n, c) \in BOOLEAN /\ ButtonTold(n, c)' \in BOOLEAN
        /\ (c \in heldButtons[n]) \in BOOLEAN /\ (c \in heldButtons'[n]) \in BOOLEAN
    BY DEF ButtonTold
  <2>2. CASE n = m /\ c = b
    <3>1. e \in Downs <=> c \in heldButtons'[n]
      BY <1>1, <1>2, <2>2
    <3> QED
      BY <1>1, <1>3, <2>1, <2>2, <3>1, LastQueued
  <2>3. CASE ~(n = m /\ c = b)
    <3>1. c \in heldButtons[n] <=> c \in heldButtons'[n]
      BY <1>2, <2>3
    <3>2. ButtonTold(n, c) <=> ButtonTold(n, c)'
      BY <1>3, <3>1 DEF ButtonTold, Down
    <3>3. WillKnow(OfButton(n, c), Downs, events, c \in heldButtons[n], ButtonTold(n, c))
      BY <1>5 DEF MiceInv, ButtonsKnown
    <3>4. WillKnow(OfButton(n, c), Downs, events, c \in heldButtons'[n], ButtonTold(n, c)')
      BY <2>1, <3>1, <3>2, <3>3, SameQueue
    <3>5. e \notin OfButton(n, c)
      BY <1>1, <2>3 DEF OfButton
    <3> QED
      BY <1>3, <2>1, <3>4, <3>5, OtherQueued
  <2> QED
    BY <2>2, <2>3
<1>6. ButtonsKnown'
  BY <1>1, <1>3, <1>5 DEF ButtonsKnown, Distinct
<1> QED
  BY <1>2, <1>3, <1>4, <1>6 DEF MiceInv, MiceTypes, EntriesAreUsed, MiceEdges, MouseIsSampled

\* Neither the mice nor their events change.
LEMMA ButtonsLeftAlone ==
  ASSUME QueueTypes, MiceInv, UNCHANGED <<mapping, outOfBounds, heldButtons>>,
         \A m \in Mice : Down(m)' = Down(m),
         NEW set \in SUBSET Event, Queues(set), \A e \in set : e \notin ButtonEvents
  PROVE  ButtonsKnown'
<1> SUFFICES ASSUME Distinct, ~outOfBounds, NEW m \in Mice, NEW b \in Buttons
             PROVE  WillKnow(OfButton(m, b), Downs, events', b \in heldButtons[m], ButtonTold(m, b))
  BY DEF ButtonsKnown, ButtonTold, Distinct
<1>1. /\ \A e \in set : e \notin OfButton(m, b)
      /\ ButtonTold(m, b) \in BOOLEAN /\ (b \in heldButtons[m]) \in BOOLEAN
  BY DEF OfButton, ButtonTold
<1>2. WillKnow(OfButton(m, b), Downs, events, b \in heldButtons[m], ButtonTold(m, b)) /\ events \in Seq(Event)
  BY DEF MiceInv, ButtonsKnown, QueueTypes
<1> QED
  BY <1>1, <1>2, OtherQueues

LEMMA MiceSteps ==
  ASSUME QueueTypes, MiceInv, [LoopNext]_loopVars
  PROVE  MiceInv'
<1>1. CASE UpdateLayers
  <2>1. /\ mice' = [i \in DOMAIN mice |-> [mice[i] EXCEPT !.pressed = {}, !.released = {}]]
        /\ currentBefore' = [i \in DOMAIN mice |-> mice[i].current]
        /\ UNCHANGED <<mapping, outOfBounds, heldButtons, events>> /\ round' = "poll"
    BY <1>1 DEF UpdateLayers, MiceOnUpdate, userVars
  <2>2. /\ DOMAIN mice' = DOMAIN mice
        /\ \A i \in DOMAIN mice : /\ mice'[i] \in MouseState /\ mice'[i].current = mice[i].current
                                  /\ mice'[i].pressed = {} /\ mice'[i].released = {}
    BY <2>1 DEF MiceInv, MiceTypes, MouseState
  <2>3. MiceTypes' /\ EntriesAreUsed' /\ MiceEdges' /\ MouseIsSampled'
    BY <2>1, <2>2 DEF MiceInv, MiceTypes, EntriesAreUsed, MiceEdges, MouseIsSampled, EdgesTell
  <2>4. ButtonsKnown'
    <3>1. CASE outOfBounds
      BY <2>1, <3>1 DEF ButtonsKnown
    <3>2. CASE ~outOfBounds
      <4>1. \A m \in Mice : Down(m)' = Down(m)
        BY <2>1, <2>2, <3>2 DEF Down, MiceInv, EntriesAreUsed
      <4>2. Queues({})
        BY <2>1 DEF Queues
      <4> QED
        BY <2>1, <4>1, <4>2, ButtonsLeftAlone
    <3> QED
      BY <3>1, <3>2
  <2> QED
    BY <2>3, <2>4 DEF MiceInv
<1>2. ASSUME UNCHANGED <<mouseVars, heldButtons>>, NEW set \in SUBSET Event, Queues(set), MouseIsSampled',
             \A e \in set : e \notin ButtonEvents
      PROVE  MiceInv'
  <2>1. UNCHANGED <<mapping, mice, currentBefore, outOfBounds, heldButtons>>
    BY <1>2 DEF mouseVars
  <2>2. \A m \in Mice : Down(m)' = Down(m)
    BY <2>1 DEF Down
  <2>3. ButtonsKnown'
    BY <1>2, <2>1, <2>2, ButtonsLeftAlone
  <2> QED
    BY <1>2, <2>1, <2>3 DEF MiceInv, MiceTypes, EntriesAreUsed, MiceEdges
<1>3. ASSUME NEW set \in SUBSET Event, Queues(set), events' = <<>> PROVE events = <<>>
  <2>1. \A s \in Seq(Event), e \in Event : Append(s, e) \in Seq(Event) /\ Append(s, e) # <<>>
    BY AppendProperties, EmptySeq
  <2> QED
    BY <1>3, <2>1 DEF Queues, QueueTypes
<1>4. ASSUME NEW k \in PhysicalKeys, PressKey(k) \/ ReleaseKey(k)
      PROVE  MiceInv'
  <2>1. UNCHANGED <<mouseVars, heldButtons, globalMouse, round>>
    BY <1>4 DEF PressKey, ReleaseKey, Input, layerVars, miceVars
  <2>2. Queues(KeyEvents)
    BY <1>4 DEF PressKey, ReleaseKey, Queue, Queues, KeyEvents
  <2>3. KeyEvents \in SUBSET Event /\ \A e \in KeyEvents : e \notin ButtonEvents
    BY DEF Event, ButtonEvents, KeyEvents
  <2>4. MouseIsSampled'
    BY <1>3, <2>1, <2>2, <2>3 DEF MiceInv, MouseIsSampled, Mask
  <2> QED
    BY <1>2, <2>1, <2>2, <2>3, <2>4
<1>5. CASE SampleAndTick
  <2>1. UNCHANGED <<mouseVars, heldButtons>> /\ Queues({})
    BY <1>5 DEF SampleAndTick, layerVars, userVars, Queues
  <2>2. MouseIsSampled'
    BY <1>5, <2>1 DEF SampleAndTick, MouseSampled, MouseIsSampled, Mask
  <2> QED
    BY <1>2, <2>1, <2>2
<1>6. CASE /\ UNCHANGED <<keyVars, mouseVars, heldKeys, heldButtons, globalMouse>>
           /\ round' = "idle" => round = "idle"
           /\ Queues(OtherEvents)
  <2>1. OtherEvents \in SUBSET Event /\ \A e \in OtherEvents : e \notin ButtonEvents
    BY DEF OtherEvents, Event, MotionEvents, StateEvents, WindowEvents, ButtonEvents
  <2>2. MouseIsSampled'
    BY <1>3, <1>6, <2>1 DEF MiceInv, MouseIsSampled, Mask
  <2> QED
    BY <1>2, <1>6, <2>1, <2>2
<1> QED
  BY <1>1, <1>4, <1>5, <1>6, DeviceSteps, MicePolled, MiceQueued

\* Nothing is pressed, and the mice are those that SDL lists.
LEMMA DevicesStart ==
  ASSUME LoopInit
  PROVE  KeyInv /\ MiceInv
<1>1. /\ pressed = {} /\ enabled = {} /\ released = {} /\ repeated = {} /\ pressedBefore = {}
      /\ heldKeys = {} /\ events = <<>> /\ heldButtons = [m \in Mice |-> {}] /\ globalMouse = Untouched
  BY DEF LoopInit, KeysInit
<1>2. DOMAIN events = {}
  BY <1>1
<1>3. KeyInv
  BY <1>1, <1>2 DEF KeyInv, KeyTypes, KeyEdges, EdgesTell, KeysKnown, WillKnow, NoneOf, IsLast, KeyTold,
                    IsSignaled
<1>4. PICK listed \in Listings :
        /\ mapping = [m \in ToSet(listed) |-> (CHOOSE i \in DOMAIN listed : listed[i] = m) - 1]
        /\ mice = [i \in 0 .. Len(listed) - 1 |-> Untouched]
        /\ currentBefore = [i \in 0 .. Len(listed) - 1 |-> {}]
        /\ outOfBounds = FALSE
  BY DEF LoopInit, MiceInit
<1>5. /\ listed \in Seq(Mice) /\ Len(listed) \in Nat /\ DOMAIN listed = 1 .. Len(listed)
      /\ \A i, j \in DOMAIN listed : listed[i] = listed[j] => i = j
      /\ \A i \in DOMAIN listed : listed[i] \in Mice
  BY MouseAssumption, LenProperties DEF IsInjective
<1>6. /\ DOMAIN mapping = {listed[i] : i \in DOMAIN listed}
      /\ \A i \in DOMAIN listed : mapping[listed[i]] = i - 1
  <2>1. ToSet(listed) = {listed[i] : i \in DOMAIN listed}
    BY DEF ToSet
  <2>2. ASSUME NEW i \in DOMAIN listed PROVE mapping[listed[i]] = i - 1
    <3>1. (CHOOSE j \in DOMAIN listed : listed[j] = listed[i]) = i
      BY <1>5
    <3> QED
      BY <1>4, <2>1, <3>1
  <2> QED
    BY <1>4, <2>1, <2>2
<1>7. \A i \in 0 .. Len(listed) - 1 : i + 1 \in DOMAIN listed /\ (i + 1) - 1 = i
  BY <1>5
<1>8. MiceTypes
  <2>1. mapping \in [DOMAIN mapping -> Nat]
    <3>1. mapping = [m \in DOMAIN mapping |-> mapping[m]]
      BY <1>4
    <3>2. \A m \in DOMAIN mapping : mapping[m] \in Nat
      BY <1>5, <1>6
    <3> QED
      BY <3>1, <3>2
  <2>2. \A i \in DOMAIN mice : mice[i] \in MouseState
    BY <1>4 DEF MouseState, Untouched
  <2>3. DOMAIN mapping \subseteq Mice
    BY <1>5, <1>6
  <2> QED
    BY <1>1, <1>4, <1>5, <2>1, <2>2, <2>3 DEF MiceTypes
<1>9. EntriesAreUsed
  <2>1. ASSUME NEW i \in DOMAIN mice PROVE \E m \in DOMAIN mapping : mapping[m] = i
    <3>1. i + 1 \in DOMAIN listed /\ mapping[listed[i + 1]] = i
      BY <1>4, <1>6, <1>7
    <3> QED
      BY <1>6, <3>1
  <2>2. \A m \in DOMAIN mapping : mapping[m] \in DOMAIN mice
    BY <1>4, <1>5, <1>6
  <2> QED
    BY <2>1, <2>2 DEF EntriesAreUsed
<1>10. MiceEdges
  BY <1>4 DEF MiceEdges, EdgesTell, Untouched
<1>11. MouseIsSampled
  <2>1. Mask = {}
    BY <1>1 DEF Mask
  <2> QED
    BY <1>1, <2>1 DEF MouseIsSampled, Untouched
<1>12. ButtonsKnown
  <2>1. \A m \in Mice : Down(m) = {} /\ heldButtons[m] = {}
    <3>1. \A i \in DOMAIN mice : mice[i].current = {}
      BY <1>4 DEF Untouched
    <3>2. \A m \in DOMAIN mapping : mapping[m] \in DOMAIN mice
      BY <1>4, <1>9 DEF EntriesAreUsed
    <3> QED
      BY <1>1, <3>1, <3>2 DEF Down
  <2> QED
    BY <1>2, <2>1 DEF ButtonsKnown, WillKnow, NoneOf, IsLast, ButtonTold
<1> QED
  BY <1>3, <1>8, <1>9, <1>10, <1>11, <1>12 DEF MiceInv

LEMMA DevicesAreFollowed ==
  ASSUME QueueTypes, KeyInv, MiceInv
  PROVE  InputEdges
<1>1. KeysFollowKeyboard
  <2> SUFFICES ASSUME events = <<>>, NEW k \in PhysicalKeys, Alone(k) PROVE KeyTold(k)
    BY DEF KeyInv, KeyEdges, KeysFollowKeyboard, Alone, KeyTold
  <2>1. NoneOf(OfKey(k), events)
    BY DEF NoneOf
  <2>2. WillKnow(OfKey(k), Downs, events, k \in heldKeys, KeyTold(k))
    BY DEF KeyInv, KeysKnown
  <2> QED
    BY <2>1, <2>2 DEF WillKnow
<1>2. ASSUME Distinct, ~LoopCrashed, events = <<>>
      PROVE  /\ \A m \in DOMAIN mapping : mice[mapping[m]].current = heldButtons[m]
             /\ round = "idle" =>
                  globalMouse.current = {b - 1 : b \in UNION {heldButtons[n] : n \in Mice}}
  <2>0. ~outOfBounds
    BY <1>2 DEF LoopCrashed
  <2>1. ASSUME NEW m \in Mice PROVE Down(m) = heldButtons[m]
    <3>1. heldButtons[m] \subseteq Buttons /\ Down(m) \subseteq Buttons
      BY <2>0 DEF MiceInv, MiceTypes, EntriesAreUsed, Down, MouseState
    <3>2. ASSUME NEW b \in Buttons PROVE b \in Down(m) <=> b \in heldButtons[m]
      <4>1. WillKnow(OfButton(m, b), Downs, events, b \in heldButtons[m], ButtonTold(m, b))
        BY <1>2, <2>0 DEF MiceInv, ButtonsKnown
      <4>2. NoneOf(OfButton(m, b), events)
        BY <1>2 DEF NoneOf
      <4> QED
        BY <4>1, <4>2 DEF WillKnow, ButtonTold
    <3> QED
      BY <3>1, <3>2
  <2>2. \A m \in DOMAIN mapping : mice[mapping[m]].current = heldButtons[m]
    BY <2>1 DEF Down, MiceInv, MiceTypes
  <2>3. ASSUME round = "idle"
        PROVE  globalMouse.current = {b - 1 : b \in UNION {heldButtons[n] : n \in Mice}}
    BY <1>2, <2>3 DEF MiceInv, MouseIsSampled, Mask
  <2> QED
    BY <2>2, <2>3
<1>3. MiceFollowButtons
  BY <1>2 DEF MiceInv, MiceEdges, MiceFollowButtons
<1> QED
  BY <1>1, <1>3 DEF InputEdges

\* The layers (Keys.cpp, Mouse.cpp): once the events are handled, keys and
\* buttons are down exactly if they are held, the edges tell what has changed,
\* and the sampled mouse has the buttons that are held, at indices that are one
\* less than the layer's.
THEOREM InputIsFollowed == LoopSpec => []InputEdges
<1> DEFINE Inv == QueueTypes /\ KeyInv /\ MiceInv
<1>1. LoopInit => Inv
  BY WindowStarts, DevicesStart DEF WindowInv
<1>2. Inv /\ [LoopNext]_loopVars => Inv'
  BY QueueTypesSteps, KeySteps, MiceSteps
<1>3. Inv => InputEdges
  BY DevicesAreFollowed
<1> QED
  BY <1>1, <1>2, <1>3, PTL DEF LoopSpec

-----------------------------------------------------------------------------
(* Meshes *)

\* An element is placed in a list or at its end.
LEMMA PlacedList ==
  ASSUME NEW S, NEW s \in Seq(S), NEW i \in 1 .. Len(s) + 1, NEW x \in S
  PROVE  Placed(s, i, x) \in Seq(S)
<1>1. Len(s) \in Nat /\ DOMAIN s = 1 .. Len(s) /\ \A j \in 1 .. Len(s) : s[j] \in S
  BY LenProperties
<1>2. PICK n \in Nat : DOMAIN s \cup {i} = 1 .. n
  <2>1. CASE i = Len(s) + 1
    <3>1. DOMAIN s \cup {i} = 1 .. Len(s) + 1
      BY <1>1, <2>1
    <3> QED
      BY <1>1, <3>1
  <2>2. CASE i # Len(s) + 1
    <3>1. DOMAIN s \cup {i} = 1 .. Len(s)
      BY <1>1, <2>2
    <3> QED
      BY <1>1, <3>1
  <2> QED
    BY <2>1, <2>2
<1> DEFINE next == Placed(s, i, x)
<1>3. next = [j \in 1 .. n |-> IF j = i THEN x ELSE s[j]]
  BY <1>2 DEF Placed
<1>4. \A j \in 1 .. n : (IF j = i THEN x ELSE s[j]) \in S
  BY <1>1, <1>2
<1>5. next \in [1 .. n -> S]
  BY <1>3, <1>4
<1> HIDE DEF next
<1>6. next \in Seq(S)
  BY <1>2, <1>5
<1> QED
  BY <1>6 DEF next

NoneTwice(s) == \A i, j \in DOMAIN s : s[i] = s[j] => i = j

\* The last element is taken from a list.
LEMMA LastTaken ==
  ASSUME NEW s \in Seq(Nat), s # <<>>, NoneTwice(s)
  PROVE  /\ Last(s) \in ToSet(s)
         /\ Front(s) \in Seq(Nat) /\ NoneTwice(Front(s))
         /\ ToSet(Front(s)) = ToSet(s) \ {Last(s)}
<1> DEFINE n == Len(s)
           f == Front(s)
<1>1. n \in Nat \ {0} /\ DOMAIN s = 1 .. n
  BY LenProperties, EmptySeq
<1>2. f \in Seq(Nat) /\ Len(f) = n - 1 /\ \A i \in 1 .. n - 1 : f[i] = s[i]
  <2>1. 1 \in 1 .. n + 1 /\ n - 1 \in 0 .. n /\ n - 1 \in 1 - 1 .. n
    BY <1>1
  <2>2. f = SubSeq(s, 1, n - 1)
    BY DEF Front
  <2>3. \A i \in 1 .. n - 1 : s[i] \in Nat
    BY <1>1, LenProperties
  <2> QED
    BY <1>1, <2>1, <2>2, SubSeqProperties
<1>3. DOMAIN f = 1 .. n - 1
  BY <1>2, LenProperties
<1>4. Last(s) = s[n] /\ n \in DOMAIN s
  BY <1>1 DEF Last
<1> HIDE DEF n, f
<1>5. NoneTwice(f)
  BY <1>1, <1>2, <1>3 DEF NoneTwice
<1>6. ToSet(f) = {f[i] : i \in 1 .. n - 1} /\ ToSet(s) = {s[i] : i \in 1 .. n}
  BY <1>1, <1>3 DEF ToSet
<1>7. \A i \in 1 .. n : i \in 1 .. n - 1 \/ i = n
  BY <1>1
<1>8. \A i \in 1 .. n - 1 : s[i] # s[n] /\ i \in 1 .. n
  BY <1>1 DEF NoneTwice
<1>9. ToSet(f) = ToSet(s) \ {s[n]}
  BY <1>2, <1>6, <1>7, <1>8
<1> QED
  BY <1>2, <1>4, <1>5, <1>6, <1>9 DEF n, f, ToSet

\* An element that is not in a list is appended to it.
LEMMA OneMore ==
  ASSUME NEW s \in Seq(Nat), NoneTwice(s), NEW x \in Nat, x \notin ToSet(s)
  PROVE  /\ Append(s, x) \in Seq(Nat) /\ NoneTwice(Append(s, x))
         /\ ToSet(Append(s, x)) = ToSet(s) \cup {x}
<1> DEFINE n == Len(s) + 1
           next == Append(s, x)
<1>1. /\ next \in Seq(Nat) /\ DOMAIN next = 1 .. n /\ DOMAIN s = 1 .. n - 1 /\ n \in Nat \ {0}
      /\ \A i \in 1 .. n - 1 : next[i] = s[i]
      /\ next[n] = x
  BY AppendProperties, LenProperties
<1> HIDE DEF next, n
<1>2. ToSet(next) = {next[i] : i \in 1 .. n} /\ ToSet(s) = {s[i] : i \in 1 .. n - 1}
  BY <1>1 DEF ToSet
<1>3. \A i \in 1 .. n : i \in 1 .. n - 1 \/ i = n
  BY <1>1
<1>4. \A i \in 1 .. n - 1 : s[i] # x /\ i \in 1 .. n
  BY <1>1, <1>2
<1>5. ToSet(next) = ToSet(s) \cup {x}
  <2>1. ASSUME NEW y \in ToSet(next) PROVE y \in ToSet(s) \cup {x}
    BY <1>1, <1>2, <1>3
  <2>2. ToSet(s) \subseteq ToSet(next) /\ x \in ToSet(next)
    <3>1. n \in 1 .. n
      BY <1>1
    <3> QED
      BY <1>1, <1>2, <1>4, <3>1
  <2> QED
    BY <2>1, <2>2
<1>6. NoneTwice(next)
  BY <1>1, <1>3, <1>4 DEF NoneTwice
<1> QED
  BY <1>1, <1>5, <1>6 DEF next

\* What the GPU reads after a region was stored.
LEMMA StoredRegion ==
  ASSUME meshBuffer \in Seq(Nat), NEW i \in Nat \ {0}, NEW r \in Nat
  PROVE  /\ Stored(i, r) \in Seq(Nat)
         /\ i \in DOMAIN Stored(i, r) /\ Stored(i, r)[i] = r
         /\ \A j \in DOMAIN meshBuffer :
              j # i => j \in DOMAIN Stored(i, r) /\ Stored(i, r)[j] = meshBuffer[j]
<1>1. Len(meshBuffer) \in Nat /\ DOMAIN meshBuffer = 1 .. Len(meshBuffer)
      /\ \A j \in DOMAIN meshBuffer : meshBuffer[j] \in Nat
  BY LenProperties
<1> DEFINE n == IF i > Len(meshBuffer) THEN i ELSE Len(meshBuffer)
           next == Stored(i, r)
<1>2. n \in Nat /\ i \in 1 .. n /\ DOMAIN meshBuffer \subseteq 1 .. n
  BY <1>1
<1>3. next = [j \in 1 .. n |-> IF j = i THEN r ELSE IF j \in DOMAIN meshBuffer THEN meshBuffer[j] ELSE 0]
  BY DEF Stored
<1> HIDE DEF n, next
<1>4. next \in [1 .. n -> Nat]
  BY <1>1, <1>3
<1>5. next \in Seq(Nat)
  BY <1>2, <1>4
<1>6. /\ i \in DOMAIN next /\ next[i] = r
      /\ \A j \in DOMAIN meshBuffer : j # i => j \in DOMAIN next /\ next[j] = meshBuffer[j]
  BY <1>2, <1>3
<1> QED
  BY <1>5, <1>6 DEF next

MeshRecord == [mesh : Nat, region : Nat, generation : Nat]
HandleRecord == [idx : Nat, version : Nat, mesh : Nat]

RegistryTypes ==
  /\ meshes \in Seq(MeshRecord)
  /\ versions \in Seq(Nat)
  /\ freeList \in Seq(Nat)
  /\ handles \subseteq HandleRecord
  /\ IsFiniteSet(handles)
  /\ destroyed \in [1 .. MaxMeshes -> Nat]
  /\ DOMAIN checked = Threads
  /\ arena \subseteq Nat
  /\ meshBuffer \in Seq(Nat)
  /\ dereferenced \in BOOLEAN /\ stray \in BOOLEAN

\* the lists belong together; ids are given in order and to one mesh each
ListsFit ==
  /\ DOMAIN versions = DOMAIN meshes
  /\ NoneTwice(freeList) /\ ToSet(freeList) \subseteq DOMAIN meshes
  /\ \A h \in handles : h.idx \in DOMAIN meshes /\ h.mesh \in 1 .. Cardinality(handles)
  /\ Cardinality(handles) <= MaxMeshes
  /\ \A h, g \in handles : h.mesh = g.mesh => h = g
  /\ \A n \in 1 .. MaxMeshes : n > Cardinality(handles) => destroyed[n] = 0
  /\ \A t \in Threads : checked[t] \in handles \cup {NoHandle}

\* a handle is as new as its index until its mesh is destroyed, and older afterwards
HandlesAge ==
  /\ \A h \in handles :
       /\ h.version <= versions[h.idx]
       /\ h.idx \in ToSet(freeList) => h.version < versions[h.idx]
       /\ h.version = versions[h.idx] => meshes[h.idx].mesh = h.mesh
       /\ destroyed[h.mesh] = IF h.version = versions[h.idx] THEN 0 ELSE 1
  /\ \A h, g \in handles : h.idx = g.idx /\ h.version = g.version => h = g

\* the meshes of this instance that live
Present ==
  {h \in handles : h.version = versions[h.idx] /\ meshes[h.idx].generation = generation}

\* their regions, one each, are what the arenas hold and the GPU reads
RegionsFit ==
  /\ arena = {meshes[h.idx].region : h \in Present}
  /\ \A h, g \in Present : meshes[h.idx].region = meshes[g.idx].region => h = g
  /\ \A h \in Present : h.idx \in DOMAIN meshBuffer /\ meshBuffer[h.idx] = meshes[h.idx].region

\* the life of the instance
InstanceLife ==
  /\ inst \in {"null", "one", "live"}
  /\ generation \in Nat /\ windows \in Nat /\ opened \in Nat /\ opening \in BOOLEAN
  /\ windows <= opened /\ (opening => opened > windows)
  /\ inst = "live" <=> windows > 0
  /\ \A h \in handles : meshes[h.idx].generation <= generation

MeshInv ==
  /\ RegistryTypes /\ ListsFit /\ HandlesAge /\ InstanceLife
  /\ ~dereferenced /\ ~stray /\ inst = "live" => RegionsFit

LEMMA MeshesStart ==
  ASSUME LoopInit
  PROVE  MeshInv
<1>1. PICK live \in BOOLEAN : MeshInit(live)
  BY DEF LoopInit
<1>2. /\ inst \in {"null", "live"} /\ generation \in {0, 1} /\ windows = generation /\ opened = generation
      /\ inst = "live" <=> generation = 1
      /\ opening = FALSE /\ meshes = <<>> /\ versions = <<>> /\ freeList = <<>> /\ arena = {}
      /\ meshBuffer = <<>> /\ handles = {} /\ destroyed = [n \in 1 .. MaxMeshes |-> 0]
      /\ checked = [t \in Threads |-> NoHandle] /\ stray = FALSE /\ dereferenced = FALSE
  BY <1>1 DEF MeshInit
<1>3. IsFiniteSet(handles) /\ Cardinality(handles) = 0
  BY <1>2, FS_EmptySet
<1>4. RegistryTypes
  <2>1. <<>> \in Seq(MeshRecord) /\ <<>> \in Seq(Nat)
    OBVIOUS
  <2>4. dereferenced \in BOOLEAN /\ stray \in BOOLEAN
    BY <1>2
  <2>2. destroyed \in [1 .. MaxMeshes -> Nat] /\ DOMAIN checked = Threads
    BY <1>2
  <2>3. handles \subseteq HandleRecord /\ arena \subseteq Nat
    BY <1>2
  <2> QED
    BY <1>2, <1>3, <2>1, <2>2, <2>3, <2>4 DEF RegistryTypes
<1>5. ListsFit
  <2>1. ToSet(freeList) = {} /\ DOMAIN freeList = {}
    BY <1>2 DEF ToSet
  <2> QED
    BY <1>2, <1>3, <2>1, MeshAssumption DEF ListsFit, NoneTwice
<1>6. HandlesAge /\ InstanceLife /\ RegionsFit
  <2>1. Present = {}
    BY <1>2 DEF Present
  <2>2. RegionsFit
    BY <1>2, <2>1 DEF RegionsFit
  <2>3. HandlesAge
    BY <1>2 DEF HandlesAge
  <2>4. generation \in Nat /\ (inst = "live" <=> windows > 0)
    BY <1>2
  <2> QED
    <3>1. InstanceLife
      <4>1. generation \in Nat /\ windows \in Nat /\ opened \in Nat /\ windows <= opened
        BY <1>2
      <4>2. opening \in BOOLEAN /\ ~opening /\ inst \in {"null", "one", "live"}
        BY <1>2
      <4>3. \A h \in handles : meshes[h.idx].generation <= generation
        BY <1>2
      <4> QED
        BY <2>4, <4>1, <4>2, <4>3 DEF InstanceLife
    <3> QED
      BY <2>2, <2>3, <3>1
<1> QED
  BY <1>4, <1>5, <1>6 DEF MeshInv

\* The indices of handles lead to meshes and versions.
LEMMA Indices ==
  ASSUME RegistryTypes, ListsFit
  PROVE  /\ DOMAIN meshes = 1 .. Len(meshes) /\ Len(meshes) \in Nat /\ Len(versions) = Len(meshes)
         /\ \A i \in DOMAIN meshes : meshes[i] \in MeshRecord /\ versions[i] \in Nat
         /\ \A h \in handles : /\ h.idx \in DOMAIN meshes /\ h.version \in Nat
                               /\ h.mesh \in 1 .. MaxMeshes /\ destroyed[h.mesh] \in Nat
         /\ Cardinality(handles) \in Nat
<1>1. Len(meshes) \in Nat /\ Len(versions) \in Nat
      /\ DOMAIN meshes = 1 .. Len(meshes) /\ DOMAIN versions = 1 .. Len(versions)
  BY LenProperties DEF RegistryTypes
<1>2. Cardinality(handles) \in Nat
  BY FS_CardinalityType DEF RegistryTypes
<1>3. 1 .. Len(meshes) = 1 .. Len(versions)
  BY <1>1 DEF ListsFit
<1>4. Len(versions) = Len(meshes)
  <2>1. \A a, b \in Nat : a > b => a \in 1 .. a /\ a \notin 1 .. b
    OBVIOUS
  <2> DEFINE a == Len(meshes)
             b == Len(versions)
  <2>2. a \in Nat /\ b \in Nat /\ 1 .. a = 1 .. b
    BY <1>1, <1>3
  <2> HIDE DEF a, b
  <2>3. ~(a > b) /\ ~(b > a)
    BY <2>1, <2>2
  <2>4. a = b
    BY <2>2, <2>3
  <2> QED
    BY <2>4 DEF a, b
<1>5. \A i \in DOMAIN meshes : meshes[i] \in MeshRecord /\ versions[i] \in Nat
  BY <1>1, <1>4, LenProperties DEF RegistryTypes
<1>6. \A h \in handles : /\ h.idx \in DOMAIN meshes /\ h.version \in Nat /\ h.mesh \in 1 .. MaxMeshes
  BY <1>2, MeshAssumption DEF RegistryTypes, ListsFit, HandleRecord
<1> QED
  BY <1>1, <1>2, <1>4, <1>5, <1>6 DEF RegistryTypes

\* A mesh is created at an index that no living mesh has.
LEMMA CreateSteps ==
  ASSUME MeshInv, ~dereferenced, NEW i \in 1 .. Len(meshes) + 1, NEW v \in Nat, NEW rest, CreateAt(i, v, rest),
         rest \in Seq(Nat), NoneTwice(rest), ToSet(rest) \subseteq ToSet(freeList), i \notin ToSet(rest),
         i \in DOMAIN meshes => v = versions[i],
         \A h \in handles : h.idx = i => h.version < v
  PROVE  MeshInv'
<1> DEFINE n == Cardinality(handles) + 1
           new == [idx |-> i, version |-> v, mesh |-> n]
<1>1. PICK r \in (1 .. MaxMeshes) \ arena :
        /\ arena' = arena \cup {r}
        /\ meshBuffer' = Stored(i, r)
        /\ meshes' = Placed(meshes, i, [mesh |-> n, region |-> r, generation |-> generation])
  BY DEF CreateAt
<1>2. /\ n <= MaxMeshes /\ freeList' = rest /\ versions' = Placed(versions, i, v)
      /\ handles' = handles \cup {new}
      /\ dereferenced' = (inst # "live")
      /\ UNCHANGED <<inst, generation, windows, opening, opened, destroyed, checked, stray>>
  BY DEF CreateAt, UseInstance, lifeVars
<1>3. RegistryTypes /\ ListsFit /\ HandlesAge /\ InstanceLife
  BY DEF MeshInv
<1>4. /\ DOMAIN meshes = 1 .. Len(meshes) /\ Len(meshes) \in Nat /\ Len(versions) = Len(meshes)
      /\ \A j \in DOMAIN meshes : meshes[j] \in MeshRecord /\ versions[j] \in Nat
      /\ \A h \in handles : /\ h.idx \in DOMAIN meshes /\ h.version \in Nat
                            /\ h.mesh \in 1 .. MaxMeshes /\ destroyed[h.mesh] \in Nat
      /\ Cardinality(handles) \in Nat
  BY <1>3, Indices
<1>5. n \in Nat /\ n \in 1 .. MaxMeshes /\ i \in Nat \ {0} /\ r \in Nat /\ generation \in Nat
  BY <1>1, <1>2, <1>3, <1>4, MeshAssumption DEF InstanceLife
<1> DEFINE record == [mesh |-> n, region |-> r, generation |-> generation]
<1>6. record \in MeshRecord
  BY <1>5 DEF MeshRecord
<1>7. /\ meshes' \in Seq(MeshRecord) /\ DOMAIN meshes' = DOMAIN meshes \cup {i} /\ meshes'[i] = record
      /\ \A j \in DOMAIN meshes : j # i => meshes'[j] = meshes[j]
  <2> HIDE DEF record, n
  <2>1. meshes' = Placed(meshes, i, record) /\ meshes \in Seq(MeshRecord)
    BY <1>1, <1>3 DEF RegistryTypes, record
  <2>2. /\ Placed(meshes, i, record) \in Seq(MeshRecord)
        /\ DOMAIN Placed(meshes, i, record) = DOMAIN meshes \cup {i}
        /\ Placed(meshes, i, record)[i] = record
        /\ \A j \in DOMAIN meshes : j # i => Placed(meshes, i, record)[j] = meshes[j]
    BY <1>6, <2>1, PlacedList DEF Placed
  <2> QED
    BY <2>1, <2>2
<1>8. /\ versions' \in Seq(Nat) /\ DOMAIN versions' = DOMAIN meshes' /\ versions'[i] = v
      /\ \A j \in DOMAIN meshes : versions'[j] = versions[j]
  <2>1. versions \in Seq(Nat) /\ i \in 1 .. Len(versions) + 1 /\ DOMAIN versions = DOMAIN meshes
    BY <1>3, <1>4 DEF RegistryTypes, ListsFit
  <2>2. /\ versions' \in Seq(Nat) /\ DOMAIN versions' = DOMAIN versions \cup {i} /\ versions'[i] = v
        /\ \A j \in DOMAIN versions : j # i => versions'[j] = versions[j]
    <3>1. /\ Placed(versions, i, v) \in Seq(Nat)
          /\ DOMAIN Placed(versions, i, v) = DOMAIN versions \cup {i}
          /\ Placed(versions, i, v)[i] = v
          /\ \A j \in DOMAIN versions : j # i => Placed(versions, i, v)[j] = versions[j]
      BY <2>1, PlacedList DEF Placed
    <3> QED
      BY <1>2, <3>1
  <2> QED
    BY <1>7, <2>1, <2>2
<1>9. /\ meshBuffer' \in Seq(Nat) /\ i \in DOMAIN meshBuffer' /\ meshBuffer'[i] = r
      /\ \A j \in DOMAIN meshBuffer : j # i => j \in DOMAIN meshBuffer' /\ meshBuffer'[j] = meshBuffer[j]
  <2>1. meshBuffer \in Seq(Nat) /\ meshBuffer' = Stored(i, r)
    BY <1>1, <1>3 DEF RegistryTypes
  <2>2. /\ Stored(i, r) \in Seq(Nat)
        /\ i \in DOMAIN Stored(i, r) /\ Stored(i, r)[i] = r
        /\ \A j \in DOMAIN meshBuffer :
             j # i => j \in DOMAIN Stored(i, r) /\ Stored(i, r)[j] = meshBuffer[j]
    BY <1>5, <2>1, StoredRegion
  <2> QED
    BY <2>1, <2>2
<1>10. /\ new \notin handles /\ IsFiniteSet(handles') /\ Cardinality(handles') = n
       /\ new \in HandleRecord /\ new.idx = i /\ new.version = v /\ new.mesh = n
  <2>1. new \in HandleRecord /\ new.idx = i /\ new.version = v /\ new.mesh = n
    BY <1>5 DEF HandleRecord
  <2>2. new \notin handles
    <3>1. \A h \in handles : h.mesh # n
      BY <1>3, <1>4 DEF ListsFit
    <3> QED
      BY <2>1, <3>1
  <2> HIDE DEF new
  <2>3. IsFiniteSet(handles \cup {new}) /\ Cardinality(handles \cup {new}) = Cardinality(handles) + 1
    BY <1>3, <2>2, FS_AddElement DEF RegistryTypes
  <2> QED
    BY <1>2, <2>1, <2>2, <2>3
<1> HIDE DEF n, new
<1>11. n = Cardinality(handles) + 1
  BY DEF n
<1>12. \A h \in handles' : h \in handles \/ h = new
  BY <1>2
<1>13. RegistryTypes'
  <2>1. arena' \subseteq Nat /\ dereferenced' \in BOOLEAN /\ stray' \in BOOLEAN
    BY <1>1, <1>2, <1>3, <1>5 DEF RegistryTypes
  <2>2. handles' \subseteq HandleRecord
    BY <1>2, <1>3, <1>10 DEF RegistryTypes
  <2> QED
    BY <1>2, <1>3, <1>7, <1>8, <1>9, <1>10, <2>1, <2>2 DEF RegistryTypes
<1>14. ListsFit'
  <2>1. NoneTwice(freeList') /\ ToSet(freeList') \subseteq DOMAIN meshes'
    BY <1>2, <1>3, <1>7 DEF ListsFit
  <2>2. ASSUME NEW h \in handles' PROVE h.idx \in DOMAIN meshes' /\ h.mesh \in 1 .. Cardinality(handles')
    <3>1. CASE h \in handles
      <4>1. h.mesh \in 1 .. Cardinality(handles) /\ h.idx \in DOMAIN meshes
        BY <1>3, <3>1 DEF ListsFit
      <4> QED
        BY <1>4, <1>7, <1>10, <1>11, <4>1
    <3>2. CASE h = new
      BY <1>5, <1>7, <1>10, <3>2
    <3> QED
      BY <1>12, <3>1, <3>2
  <2>3. ASSUME NEW h \in handles', NEW g \in handles', h.mesh = g.mesh PROVE h = g
    <3>1. \A k \in handles : k.mesh # n
      BY <1>3, <1>4, <1>11 DEF ListsFit
    <3> QED
      BY <1>3, <1>10, <1>12, <2>3, <3>1 DEF ListsFit
  <2>4. Cardinality(handles') <= MaxMeshes
    BY <1>2, <1>10
  <2>5. \A k \in 1 .. MaxMeshes : k > Cardinality(handles') => destroyed'[k] = 0
    BY <1>2, <1>3, <1>4, <1>10, <1>11, MeshAssumption DEF ListsFit
  <2>6. \A t \in Threads : checked'[t] \in handles' \cup {NoHandle}
    BY <1>2, <1>3 DEF ListsFit
  <2> QED
    BY <1>8, <2>1, <2>2, <2>3, <2>4, <2>5, <2>6 DEF ListsFit
<1>15. ASSUME NEW h \in handles
       PROVE  /\ h.idx = i => h.version < versions[h.idx] /\ h.version # v /\ versions[h.idx] = v
              /\ versions'[h.idx] = versions[h.idx]
              /\ h.version = versions[h.idx] => h.idx # i /\ meshes'[h.idx] = meshes[h.idx]
  BY <1>4, <1>7, <1>8
<1>16. HandlesAge'
  <2>1. ASSUME NEW h \in handles'
        PROVE  /\ h.version <= versions'[h.idx]
               /\ h.idx \in ToSet(freeList') => h.version < versions'[h.idx]
               /\ h.version = versions'[h.idx] => meshes'[h.idx].mesh = h.mesh
               /\ destroyed'[h.mesh] = IF h.version = versions'[h.idx] THEN 0 ELSE 1
    <3>1. CASE h \in handles
      BY <1>2, <1>3, <1>15, <3>1 DEF HandlesAge
    <3>2. CASE h = new
      <4>1. destroyed[n] = 0
        BY <1>3, <1>4, <1>5, <1>11 DEF ListsFit
      <4> QED
        BY <1>2, <1>7, <1>8, <1>10, <3>2, <4>1
    <3> QED
      BY <1>12, <3>1, <3>2
  <2>2. ASSUME NEW h \in handles', NEW g \in handles', h.idx = g.idx, h.version = g.version PROVE h = g
    BY <1>3, <1>10, <1>12, <1>15, <2>2 DEF HandlesAge
  <2> QED
    BY <2>1, <2>2 DEF HandlesAge
<1>17. InstanceLife'
  <2>1. ASSUME NEW h \in handles' PROVE meshes'[h.idx].generation <= generation
    <3>1. CASE h.idx = i
      BY <1>5, <1>7, <3>1
    <3>2. CASE h.idx # i
      BY <1>3, <1>4, <1>7, <1>10, <1>12, <3>2 DEF InstanceLife
    <3> QED
      BY <3>1, <3>2
  <2> QED
    BY <1>2, <1>3, <2>1 DEF InstanceLife
<1>18. ASSUME ~dereferenced', ~stray', inst' = "live" PROVE RegionsFit'
  <2>1. RegionsFit
    BY <1>2, <1>18 DEF MeshInv
  <2>2. Present' = Present \cup {new}
    <3>1. \A h \in handles : h \in Present' <=> h \in Present
      BY <1>2, <1>4, <1>15 DEF Present
    <3>2. new \in Present'
      BY <1>2, <1>7, <1>8, <1>10 DEF Present
    <3>3. Present' \subseteq handles' /\ Present \subseteq handles
      BY DEF Present
    <3> QED
      BY <1>12, <3>1, <3>2, <3>3
  <2>3. \A h \in Present : h \in handles /\ h.idx # i /\ meshes'[h.idx] = meshes[h.idx]
    BY <1>15 DEF Present
  <2>4. meshes'[new.idx].region = r /\ new.idx = i
    BY <1>7, <1>10
  <2>5. arena' = {meshes'[h.idx].region : h \in Present'}
    BY <1>1, <2>1, <2>2, <2>3, <2>4 DEF RegionsFit
  <2>6. ASSUME NEW h \in Present', NEW g \in Present', meshes'[h.idx].region = meshes'[g.idx].region
        PROVE  h = g
    <3>1. \A k \in Present : meshes[k.idx].region # r
      BY <1>1, <2>1 DEF RegionsFit
    <3> QED
      BY <2>1, <2>2, <2>3, <2>4, <2>6, <3>1 DEF RegionsFit
  <2>7. ASSUME NEW h \in Present'
        PROVE  h.idx \in DOMAIN meshBuffer' /\ meshBuffer'[h.idx] = meshes'[h.idx].region
    BY <1>9, <2>1, <2>2, <2>3, <2>4 DEF RegionsFit
  <2> QED
    BY <2>5, <2>6, <2>7 DEF RegionsFit
<1> QED
  BY <1>13, <1>14, <1>16, <1>17, <1>18 DEF MeshInv

\* A mesh is destroyed whose handle is valid: it was alive, no other handle was
\* valid for its index, and its region is the one that is given back.
LEMMA DestroySteps ==
  ASSUME MeshInv, ~dereferenced, NEW t \in Threads, DestroyMesh(t), checked[t] \in handles,
         IsValid(checked[t])
  PROVE  MeshInv'
<1> DEFINE h == checked[t]
           i == h.idx
           m == meshes[i]
<1>1. RegistryTypes /\ ListsFit /\ HandlesAge /\ InstanceLife
  BY DEF MeshInv
<1>2. /\ DOMAIN meshes = 1 .. Len(meshes) /\ Len(meshes) \in Nat /\ Len(versions) = Len(meshes)
      /\ \A j \in DOMAIN meshes : meshes[j] \in MeshRecord /\ versions[j] \in Nat
      /\ \A g \in handles : /\ g.idx \in DOMAIN meshes /\ g.version \in Nat
                            /\ g.mesh \in 1 .. MaxMeshes /\ destroyed[g.mesh] \in Nat
      /\ Cardinality(handles) \in Nat
  BY <1>1, Indices
<1>3. /\ checked' = [checked EXCEPT ![t] = NoHandle]
      /\ versions' = [versions EXCEPT ![i] = @ + 1]
      /\ arena' = IF inst = "live" THEN arena \ {m.region} ELSE arena
      /\ stray' = (stray \/ (inst = "live" /\ m.generation # generation))
      /\ dereferenced' = (inst = "one")
      /\ destroyed' = [destroyed EXCEPT ![m.mesh] = @ + 1]
      /\ freeList' = Append(freeList, i)
      /\ UNCHANGED <<inst, generation, windows, opening, opened, meshBuffer, meshes, handles>>
  BY DEF DestroyMesh, GiveBack, lifeVars
<1>4. h \in handles /\ h.version = versions[i] /\ i \in DOMAIN meshes
  BY DEF IsValid
<1> HIDE DEF h, i
<1>4b. i = h.idx
  BY DEF i
<1>5. m.mesh = h.mesh /\ destroyed[h.mesh] = 0 /\ h.mesh \in 1 .. MaxMeshes
  BY <1>1, <1>2, <1>4, <1>4b DEF HandlesAge
<1> HIDE DEF m
<1>5b. m = meshes[i]
  BY DEF m
<1>6. /\ DOMAIN versions' = DOMAIN versions /\ versions'[i] = versions[i] + 1
      /\ \A j \in DOMAIN meshes : j # i => versions'[j] = versions[j]
      /\ versions' \in Seq(Nat)
  <2>1. versions \in Seq(Nat) /\ DOMAIN versions = DOMAIN meshes /\ versions[i] + 1 \in Nat
    BY <1>1, <1>2, <1>4 DEF RegistryTypes, ListsFit
  <2>2. versions \in [1 .. Len(versions) -> Nat]
    BY <2>1, LenProperties
  <2>3. versions' \in [1 .. Len(versions) -> Nat]
    BY <1>3, <2>1, <2>2
  <2>4. versions' \in Seq(Nat)
    BY <1>2, <2>3
  <2> QED
    BY <1>3, <1>4, <2>1, <2>4
<1>7. /\ destroyed' \in [1 .. MaxMeshes -> Nat] /\ destroyed'[h.mesh] = 1
      /\ \A n \in 1 .. MaxMeshes : n # h.mesh => destroyed'[n] = destroyed[n]
  BY <1>1, <1>3, <1>5 DEF RegistryTypes
<1>8. /\ freeList' \in Seq(Nat) /\ NoneTwice(freeList')
      /\ ToSet(freeList') = ToSet(freeList) \cup {i}
  <2>1. i \notin ToSet(freeList)
    <3>1. i \in ToSet(freeList) => h.version < versions[i]
      BY <1>1, <1>4, <1>4b DEF HandlesAge
    <3> QED
      BY <1>2, <1>4, <3>1
  <2>2. freeList \in Seq(Nat) /\ NoneTwice(freeList) /\ i \in Nat
    BY <1>1, <1>2, <1>4 DEF RegistryTypes, ListsFit
  <2> QED
    BY <1>3, <2>1, <2>2, OneMore
<1>9. RegistryTypes'
  <2>1. arena' \subseteq Nat /\ dereferenced' \in BOOLEAN /\ stray' \in BOOLEAN /\ DOMAIN checked' = Threads
    BY <1>1, <1>3 DEF RegistryTypes
  <2> QED
    BY <1>1, <1>3, <1>6, <1>7, <1>8, <2>1 DEF RegistryTypes
<1>10. ListsFit'
  <2>1. \A n \in 1 .. MaxMeshes : n > Cardinality(handles) => destroyed'[n] = 0
    <3>1. h.mesh <= Cardinality(handles)
      BY <1>1, <1>2, <1>4 DEF ListsFit
    <3>2. \A n \in 1 .. MaxMeshes : n > Cardinality(handles) => n # h.mesh
      BY <1>2, <1>5, <3>1, MeshAssumption
    <3> QED
      BY <1>1, <1>7, <3>2 DEF ListsFit
  <2>2. \A u \in Threads : checked'[u] \in handles \cup {NoHandle}
    BY <1>1, <1>3 DEF ListsFit, RegistryTypes
  <2>3. DOMAIN versions' = DOMAIN meshes
    BY <1>1, <1>6 DEF ListsFit
  <2>4. ToSet(freeList') \subseteq DOMAIN meshes
    BY <1>1, <1>4, <1>8 DEF ListsFit
  <2> QED
    BY <1>1, <1>3, <1>8, <2>1, <2>2, <2>3, <2>4 DEF ListsFit
<1>11. ASSUME NEW g \in handles, g # h
       PROVE  /\ destroyed'[g.mesh] = destroyed[g.mesh]
              /\ g.idx = i => g.version < versions[i] /\ g.version < versions'[i]
              /\ g.idx # i => versions'[g.idx] = versions[g.idx]
  <2>1. g.mesh # h.mesh
    BY <1>1, <1>4, <1>11 DEF ListsFit
  <2>2. g.idx = i => g.version <= versions[i] /\ g.version # versions[i]
    BY <1>1, <1>4, <1>4b, <1>11 DEF HandlesAge
  <2>3. g.version \in Nat /\ versions[i] \in Nat /\ g.mesh \in 1 .. MaxMeshes /\ g.idx \in DOMAIN meshes
    BY <1>2, <1>4, <1>11
  <2> QED
    BY <1>6, <1>7, <2>1, <2>2, <2>3
<1>12. HandlesAge'
  <2>1. ASSUME NEW g \in handles
        PROVE  /\ g.version <= versions'[g.idx]
               /\ g.idx \in ToSet(freeList') => g.version < versions'[g.idx]
               /\ g.version = versions'[g.idx] => meshes[g.idx].mesh = g.mesh
               /\ destroyed'[g.mesh] = IF g.version = versions'[g.idx] THEN 0 ELSE 1
    <3>1. CASE g = h
      <4>1. h.version \in Nat /\ versions'[i] = h.version + 1
        BY <1>2, <1>4, <1>6
      <4> QED
        BY <1>4b, <1>7, <3>1, <4>1
    <3>2. CASE g # h /\ g.idx = i
      <4>1. g.version \in Nat /\ versions[i] \in Nat /\ versions'[i] \in Nat
        BY <1>2, <1>4, <1>6
      <4>2. g.version < versions[i] /\ g.version < versions'[i] /\ destroyed'[g.mesh] = destroyed[g.mesh]
        BY <1>11, <3>2
      <4>3. g.version # versions[i] /\ g.version # versions'[i] /\ g.version <= versions'[i]
        BY <4>1, <4>2
      <4>4. destroyed[g.mesh] = 1
        BY <1>1, <3>2, <4>3 DEF HandlesAge
      <4> QED
        BY <3>2, <4>2, <4>3, <4>4
    <3>3. CASE g # h /\ g.idx # i
      <4>1. versions'[g.idx] = versions[g.idx] /\ destroyed'[g.mesh] = destroyed[g.mesh]
        BY <1>11, <3>3
      <4>2. g.idx \in ToSet(freeList') => g.idx \in ToSet(freeList)
        BY <1>8, <3>3
      <4> QED
        BY <1>1, <4>1, <4>2 DEF HandlesAge
    <3> QED
      BY <3>1, <3>2, <3>3
  <2>2. \A g, k \in handles : g.idx = k.idx /\ g.version = k.version => g = k
    BY <1>1 DEF HandlesAge
  <2> QED
    BY <1>3, <2>1, <2>2 DEF HandlesAge
<1>13. InstanceLife'
  BY <1>1, <1>3 DEF InstanceLife
<1>14. ASSUME ~stray', inst = "live" PROVE RegionsFit'
  <2>1. RegionsFit /\ m.generation = generation /\ arena' = arena \ {m.region}
    BY <1>3, <1>14 DEF MeshInv
  <2>2. h \in Present
    BY <1>4, <1>4b, <1>5b, <2>1 DEF Present
  <2>3. Present' = Present \ {h}
    <3>1. h \notin Present'
      <4>1. h.version # versions'[i]
        BY <1>2, <1>4, <1>6
      <4> QED
        BY <1>4b, <4>1 DEF Present
    <3>2. ASSUME NEW g \in handles, g # h PROVE g \in Present' <=> g \in Present
      <4>1. g.idx = i => g.version # versions[i] /\ g.version # versions'[i]
        <5>1. g.version \in Nat /\ versions[i] \in Nat /\ versions'[i] \in Nat
          BY <1>2, <1>4, <1>6
        <5> QED
          BY <1>11, <3>2, <5>1
      <4> QED
        BY <1>3, <1>11, <3>2, <4>1 DEF Present
    <3>3. Present \subseteq handles /\ Present' \subseteq handles
      BY <1>3 DEF Present
    <3> QED
      BY <3>1, <3>2, <3>3
  <2>4. meshes[h.idx].region = m.region
    BY <1>4b, <1>5b
  <2>5. arena' = {meshes[g.idx].region : g \in Present'}
    BY <2>1, <2>2, <2>3, <2>4 DEF RegionsFit
  <2> QED
    BY <1>3, <2>1, <2>3, <2>5 DEF RegionsFit
<1> QED
  BY <1>3, <1>9, <1>10, <1>12, <1>13, <1>14 DEF MeshInv

\* Windows come and go, and handles are looked at.
LEMMA LifeSteps ==
  ASSUME MeshInv, ~dereferenced, UseMeshes, ~CreateMesh,
         \A t \in Threads : ~DestroyMesh(t) \/ ~(checked[t] \in handles /\ IsValid(checked[t]))
  PROVE  MeshInv'
<1>1. CASE GetWindowFlags
  <2>1. /\ ~opening /\ opening' = TRUE /\ opened' = opened + 1
        /\ inst' = IF inst = "null" THEN "one" ELSE inst
        /\ UNCHANGED <<generation, windows, arena, meshBuffer, meshes, versions, freeList, handles,
                       destroyed, checked, stray, dereferenced>>
    BY <1>1 DEF GetWindowFlags, gpuVars, registry
  <2>2. RegistryTypes' /\ ListsFit' /\ HandlesAge'
    BY <2>1 DEF MeshInv, RegistryTypes, ListsFit, HandlesAge
  <2>3. InstanceLife'
    BY <2>1 DEF MeshInv, InstanceLife
  <2>4. inst' = "live" => inst = "live"
    BY <2>1
  <2>5. RegionsFit => RegionsFit'
    BY <2>1 DEF RegionsFit, Present
  <2> QED
    BY <2>1, <2>2, <2>3, <2>4, <2>5 DEF MeshInv
<1>2. CASE RegisterWindow
  <2>1. /\ opening /\ opening' = FALSE /\ windows' = windows + 1
        /\ UNCHANGED <<opened, meshes, versions, freeList, handles, destroyed, checked, stray, dereferenced>>
        /\ windows = 0 => /\ inst' = "live" /\ generation' = generation + 1
                          /\ arena' = {} /\ meshBuffer' = <<>>
        /\ windows # 0 => UNCHANGED <<inst, generation, arena, meshBuffer>>
    BY <1>2 DEF RegisterWindow, gpuVars, registry
  <2>2. RegistryTypes'
    <3>1. arena' \subseteq Nat /\ meshBuffer' \in Seq(Nat)
      <4>1. <<>> \in Seq(Nat) /\ arena \subseteq Nat /\ meshBuffer \in Seq(Nat)
        BY DEF MeshInv, RegistryTypes
      <4>2. CASE windows = 0
        BY <2>1, <4>1, <4>2
      <4>3. CASE windows # 0
        BY <2>1, <4>1, <4>3
      <4> QED
        BY <4>2, <4>3
    <3> QED
      BY <2>1, <3>1 DEF MeshInv, RegistryTypes
  <2>3. ListsFit' /\ HandlesAge'
    BY <2>1 DEF MeshInv, ListsFit, HandlesAge
  <2>4. generation \in Nat /\ windows \in Nat /\ opened \in Nat /\ RegistryTypes /\ ListsFit
    BY DEF MeshInv, InstanceLife
  <2>5. \A h \in handles : meshes[h.idx].generation \in Nat /\ meshes[h.idx].generation <= generation
    BY <2>4, Indices DEF MeshInv, InstanceLife, MeshRecord
  <2>6. InstanceLife'
    <3>1. \A h \in handles : meshes[h.idx].generation <= generation'
      BY <2>1, <2>4, <2>5
    <3> QED
      <4>1. inst' \in {"null", "one", "live"} /\ (inst' = "live" <=> windows' > 0) /\ generation' \in Nat
        <5>1. CASE windows = 0
          BY <2>1, <2>4, <5>1
        <5>2. CASE windows # 0
          BY <2>1, <2>4, <5>2 DEF MeshInv, InstanceLife
        <5> QED
          BY <5>1, <5>2
      <4>2. windows' \in Nat /\ opened' \in Nat /\ opening' \in BOOLEAN /\ windows' <= opened' /\ ~opening'
        <5>1. opened > windows
          BY <2>1 DEF MeshInv, InstanceLife
        <5>2. opening' = FALSE /\ opened' = opened /\ windows' = windows + 1
          BY <2>1
        <5>3. windows' \in Nat /\ opened' \in Nat /\ windows' <= opened'
          BY <2>4, <5>1, <5>2
        <5>4. opening' \in BOOLEAN /\ ~opening'
          BY <5>2
        <5> QED
          BY <5>3, <5>4
      <4> QED
        BY <2>1, <3>1, <4>1, <4>2 DEF InstanceLife
  <2>7. CASE windows = 0
    <3>1. Present' = {}
      BY <2>1, <2>4, <2>5, <2>7 DEF Present
    <3>2. RegionsFit'
      BY <2>1, <2>7, <3>1 DEF RegionsFit
    <3> QED
      BY <2>2, <2>3, <2>6, <3>2 DEF MeshInv
  <2>8. CASE windows # 0
    <3>1. RegionsFit => RegionsFit'
      BY <2>1, <2>8 DEF RegionsFit, Present
    <3> QED
      BY <2>1, <2>2, <2>3, <2>6, <2>8, <3>1 DEF MeshInv
  <2> QED
    BY <2>7, <2>8
<1>3. CASE DeregisterWindow
  <2>1. /\ ~opening /\ windows > 0 /\ windows' = windows - 1
        /\ inst' = IF windows = 1 THEN "null" ELSE inst
        /\ UNCHANGED <<generation, opening, opened, arena, meshBuffer, meshes, versions, freeList, handles,
                       destroyed, checked, stray, dereferenced>>
    BY <1>3 DEF DeregisterWindow, gpuVars, registry
  <2>2. RegistryTypes' /\ ListsFit' /\ HandlesAge'
    BY <2>1 DEF MeshInv, RegistryTypes, ListsFit, HandlesAge
  <2>3. InstanceLife'
    BY <2>1 DEF MeshInv, InstanceLife
  <2>4. RegionsFit => RegionsFit'
    BY <2>1 DEF RegionsFit, Present
  <2> QED
    BY <2>1, <2>2, <2>3, <2>4 DEF MeshInv
<1>4. ASSUME UNCHANGED <<inst, generation, windows, opening, opened, arena, meshBuffer, meshes, versions,
                         freeList, handles, destroyed, stray, dereferenced>>,
             NEW t \in Threads, NEW h \in handles \cup {NoHandle}, checked' = [checked EXCEPT ![t] = h]
      PROVE  MeshInv'
  <2>1. DOMAIN checked' = Threads /\ \A u \in Threads : checked'[u] \in handles \cup {NoHandle}
    BY <1>4 DEF MeshInv, RegistryTypes, ListsFit
  <2>2. RegistryTypes' /\ ListsFit' /\ HandlesAge' /\ InstanceLife'
    BY <1>4, <2>1 DEF MeshInv, RegistryTypes, ListsFit, HandlesAge, InstanceLife
  <2>3. RegionsFit => RegionsFit'
    BY <1>4 DEF RegionsFit, Present
  <2> QED
    BY <1>4, <2>2, <2>3 DEF MeshInv
<1>5. ASSUME NEW t \in Threads, NEW h \in handles, CheckHandle(t, h) PROVE MeshInv'
  BY <1>4, <1>5 DEF CheckHandle, lifeVars, gpuVars
<1>6. ASSUME NEW t \in Threads, DestroyMesh(t) PROVE MeshInv'
  <2>1. ~IsValid(checked[t])
    BY <1>6 DEF DestroyMesh, MeshInv, ListsFit
  <2> QED
    BY <1>4, <1>6, <2>1 DEF DestroyMesh, lifeVars
<1> QED
  BY <1>1, <1>2, <1>3, <1>5, <1>6 DEF UseMeshes

LEMMA MeshSteps ==
  ASSUME MeshInv, [LoopNext]_loopVars
  PROVE  MeshInv'
<1>1. ASSUME UNCHANGED <<lifeVars, gpuVars, registry, stray>>,
             dereferenced' \in BOOLEAN, ~dereferenced' => inst # "live" \/ ~dereferenced
      PROVE  MeshInv'
  <2>1. UNCHANGED <<inst, generation, windows, opening, opened, arena, meshBuffer, meshes, versions, freeList,
                    handles, destroyed, checked, stray>>
    BY <1>1 DEF lifeVars, gpuVars, registry
  <2>2. RegistryTypes' /\ ListsFit' /\ HandlesAge' /\ InstanceLife'
    BY <1>1, <2>1 DEF MeshInv, RegistryTypes, ListsFit, HandlesAge, InstanceLife
  <2>3. RegionsFit => RegionsFit'
    BY <2>1 DEF RegionsFit, Present
  <2> QED
    BY <1>1, <2>1, <2>2, <2>3 DEF MeshInv
<1>2. ASSUME UNCHANGED meshVars PROVE MeshInv'
  BY <1>1, <1>2 DEF meshVars, MeshInv, RegistryTypes
<1>3. CASE ~LoopCrashed /\ SampleAndTick
  <2>1. UNCHANGED <<lifeVars, gpuVars, registry, stray>> /\ ~dereferenced /\ dereferenced' = (inst # "live")
    BY <1>3 DEF SampleAndTick, UseInstance, LoopCrashed
  <2> QED
    BY <1>1, <2>1
<1>4. CASE ~LoopCrashed /\ UseMeshes
  <2>0. ~dereferenced
    BY <1>4 DEF LoopCrashed
  <2>1. CASE CreateMesh /\ freeList = <<>>
    <3>1. CreateAt(Len(meshes) + 1, 1, freeList)
      BY <2>1 DEF CreateMesh
    <3>2. /\ Len(meshes) + 1 \in 1 .. Len(meshes) + 1 /\ Len(meshes) + 1 \notin DOMAIN meshes
          /\ \A h \in handles : h.idx # Len(meshes) + 1
          /\ freeList \in Seq(Nat) /\ NoneTwice(freeList) /\ ToSet(freeList) \subseteq DOMAIN meshes
      <4>1. /\ DOMAIN meshes = 1 .. Len(meshes) /\ Len(meshes) \in Nat
            /\ \A h \in handles : h.idx \in DOMAIN meshes
        BY Indices DEF MeshInv
      <4> QED
        BY <4>1 DEF MeshInv, RegistryTypes, ListsFit
    <3> DEFINE i == Len(meshes) + 1
    <3>3. /\ i \in 1 .. Len(meshes) + 1 /\ CreateAt(i, 1, freeList) /\ i \notin ToSet(freeList)
          /\ ~(i \in DOMAIN meshes) /\ \A h \in handles : h.idx # i
      BY <3>1, <3>2
    <3> HIDE DEF i
    <3> QED
      BY <2>0, <3>2, <3>3, CreateSteps
  <2>2. CASE CreateMesh /\ freeList # <<>>
    <3> DEFINE i == Last(freeList)
               rest == Front(freeList)
    <3>1. CreateAt(i, versions[i], rest)
      BY <2>2 DEF CreateMesh
    <3>2. freeList \in Seq(Nat) /\ NoneTwice(freeList) /\ ToSet(freeList) \subseteq DOMAIN meshes
      BY DEF MeshInv, RegistryTypes, ListsFit
    <3>3. i \in ToSet(freeList) /\ rest \in Seq(Nat) /\ NoneTwice(rest) /\ ToSet(rest) = ToSet(freeList) \ {i}
      BY <2>2, <3>2, LastTaken
    <3> HIDE DEF i, rest
    <3>4. i \in 1 .. Len(meshes) + 1 /\ versions[i] \in Nat
      <4>1. DOMAIN meshes = 1 .. Len(meshes) /\ Len(meshes) \in Nat /\ \A j \in DOMAIN meshes : versions[j] \in Nat
        BY Indices DEF MeshInv
      <4> QED
        BY <3>2, <3>3, <4>1
    <3>5. \A h \in handles : h.idx = i => h.version < versions[i]
      BY <3>3 DEF MeshInv, HandlesAge
    <3>6. ToSet(rest) \subseteq ToSet(freeList) /\ i \notin ToSet(rest)
      BY <3>3
    <3> QED
      BY <2>0, <3>1, <3>3, <3>4, <3>5, <3>6, CreateSteps
  <2>3. ASSUME NEW t \in Threads, DestroyMesh(t), checked[t] \in handles, IsValid(checked[t]) PROVE MeshInv'
    BY <2>0, <2>3, DestroySteps
  <2>4. CASE ~CreateMesh /\ \A t \in Threads : ~DestroyMesh(t) \/ ~(checked[t] \in handles /\ IsValid(checked[t]))
    BY <1>4, <2>0, <2>4, LifeSteps
  <2> QED
    BY <2>1, <2>2, <2>3, <2>4
<1>5. ASSUME NEW k \in PhysicalKeys, PressKey(k) \/ ReleaseKey(k) PROVE UNCHANGED meshVars
  BY <1>5 DEF PressKey, ReleaseKey
<1>6. ASSUME NEW m \in Mice, MoveMouse(m) PROVE UNCHANGED meshVars
  BY <1>6 DEF MoveMouse
<1>7. ASSUME NEW m \in Mice, NEW b \in Buttons, PressButton(m, b) \/ ReleaseButton(m, b) PROVE UNCHANGED meshVars
  BY <1>7 DEF PressButton, ReleaseButton
<1>8. ASSUME NEW op \in WindowOp, UserWindow(op) PROVE UNCHANGED meshVars
  BY <1>8 DEF UserWindow
<1>9. ASSUME NEW w \in {ThisWindow, OtherWindow}, NEW s \in Extents,
             UserEvent("RESIZED", w, s) \/ UserEvent("CLOSE_REQUESTED", w, s)
      PROVE  UNCHANGED meshVars
  BY <1>9 DEF UserEvent
<1>10. CASE WindowManager \/ AskWindow \/ Frame \/ UpdateLayers \/ PollEvent \/ EndPoll \/ UNCHANGED loopVars
  <2>1. UNCHANGED meshVars
    BY <1>10 DEF WindowManager, AskWindow, Frame, UpdateLayers, PollEvent, EndPoll, loopVars
  <2> QED
    BY <1>2, <2>1
<1> QED
  BY LoopActions, <1>2, <1>3, <1>4, <1>5, <1>6, <1>7, <1>8, <1>9, <1>10

LEMMA MeshesAreApart ==
  ASSUME MeshInv
  PROVE  MeshesApart
<1>1. RegistryTypes /\ ListsFit /\ HandlesAge /\ InstanceLife
  BY DEF MeshInv
<1>2. \A h \in handles : h.idx \in DOMAIN meshes /\ (IsValid(h) <=> h.version = versions[h.idx])
  BY <1>1 DEF ListsFit, IsValid
<1>3. \A h \in handles : /\ destroyed[h.mesh] <= 1
                         /\ IsValid(h) <=> destroyed[h.mesh] = 0
                         /\ IsValid(h) => meshes[h.idx].mesh = h.mesh
  BY <1>1, <1>2 DEF HandlesAge
<1>4. LiveHandles = {h \in handles : h.version = versions[h.idx]}
  BY <1>2, <1>3 DEF LiveHandles
<1>5. Present = {g \in LiveHandles : meshes[g.idx].generation = generation}
  BY <1>4 DEF Present
<1>6. ASSUME ~LoopCrashed, ~stray, inst = "live"
      PROVE  LET present == {meshes[h.idx] : h \in Present}
             IN /\ arena = {m.region : m \in present}
                /\ Cardinality(arena) = Cardinality(present)
                /\ \A h \in LiveHandles : meshes[h.idx] \in present => meshBuffer[h.idx] = meshes[h.idx].region
  <2> DEFINE present == {meshes[h.idx] : h \in Present}
  <2>1. RegionsFit
    BY <1>6 DEF MeshInv, LoopCrashed
  <2>2. arena = {m.region : m \in present}
    BY <2>1 DEF RegionsFit
  <2>3. IsFiniteSet(Present)
    <3>1. Present \in SUBSET handles /\ IsFiniteSet(handles)
      BY <1>1 DEF Present, RegistryTypes
    <3> QED
      BY <3>1, FS_Subset
  <2>4. \A h, g \in Present : meshes[h.idx] = meshes[g.idx] => h = g
    BY <2>1 DEF RegionsFit
  <2>5. Cardinality(present) = Cardinality(Present)
    <3> DEFINE f == [h \in Present |-> meshes[h.idx]]
    <3>1. f \in Injection(Present, present) /\ f \in Surjection(Present, present)
      BY <2>4 DEF Injection, Surjection, IsInjective
    <3> HIDE DEF f, present
    <3> QED
      BY <2>3, <3>1, FS_Surjection
  <2>6. Cardinality(arena) = Cardinality(Present)
    <3> DEFINE f == [h \in Present |-> meshes[h.idx].region]
    <3>1. f \in Injection(Present, arena) /\ f \in Surjection(Present, arena)
      BY <2>1 DEF Injection, Surjection, IsInjective, RegionsFit
    <3> HIDE DEF f
    <3> QED
      BY <2>3, <3>1, FS_Surjection
  <2>7. ASSUME NEW h \in LiveHandles, meshes[h.idx] \in present
        PROVE  meshBuffer[h.idx] = meshes[h.idx].region
    <3>1. h \in Present
      BY <1>5, <2>7
    <3> QED
      BY <2>1, <3>1 DEF RegionsFit
  <2> QED
    BY <2>2, <2>5, <2>6, <2>7
<1> QED
  BY <1>3, <1>5, <1>6 DEF MeshesApart

\* Render meshes (RenderMeshRegistry.cpp): however threads destroy them through
\* shared handles, a handle is valid as long as its mesh lives, no mesh is
\* destroyed twice, and the meshes of an instance have regions of their own.
THEOREM MeshesStayApart == LoopSpec => []MeshesApart
<1>1. LoopInit => MeshInv
  BY MeshesStart
<1>2. MeshInv /\ [LoopNext]_loopVars => MeshInv'
  BY MeshSteps
<1>3. MeshInv => MeshesApart
  BY MeshesAreApart
<1> QED
  BY <1>1, <1>2, <1>3, PTL DEF LoopSpec

\* The variables of the layers, the window, the meshes and the loop keep their types.
THEOREM LoopKeepsTypes == LoopSpec => []LoopTypes
<1> DEFINE Inv == WindowInv /\ KeyInv /\ MiceInv /\ MeshInv /\ round \in {"idle", "poll", "sample"}
<1>1. LoopInit => Inv
  BY WindowStarts, DevicesStart, MeshesStart DEF LoopInit
<1>2. Inv /\ [LoopNext]_loopVars => Inv'
  <2> SUFFICES ASSUME Inv, [LoopNext]_loopVars PROVE Inv'
    OBVIOUS
  <2>1. round' \in {"idle", "poll", "sample"}
    BY LoopActions DEF PressKey, ReleaseKey, MoveMouse, PressButton, ReleaseButton, UserWindow, UserEvent, Input,
       WindowManager, AskWindow, Frame, UseMeshes, UpdateLayers, PollEvent, EndPoll, SampleAndTick, loopVars
  <2> QED
    BY <2>1, WindowSteps, KeySteps, MiceSteps, MeshSteps DEF WindowInv
<1>3. Inv => LoopTypes
  <2> SUFFICES ASSUME Inv PROVE LoopTypes
    OBVIOUS
  <2>1. \A keys \in {pressed, enabled, released, repeated, pressedBefore} : keys \subseteq Bits
    BY DEF KeyInv, KeyTypes
  <2>2. /\ DOMAIN mapping \subseteq Mice
        /\ DOMAIN mice = DOMAIN currentBefore
        /\ \A i \in DOMAIN mice : mice[i] \in [current : SUBSET Buttons, pressed : SUBSET Buttons,
                                               released : SUBSET Buttons]
    BY DEF MiceInv, MiceTypes, MouseState
  <2>3. /\ {settings, settingsRequested} \subseteq WindowFlags
        /\ {vsync, vsRequest} \subseteq VSync
        /\ {winSize, viewport} \subseteq Extents
        /\ sdl.state \in WindowState
        /\ ops \in Seq(WindowOp)
    BY DEF WindowInv, QueueTypes, SdlWindow
  <2>4. /\ inst \in {"null", "one", "live"}
        /\ windows \in 0 .. opened
        /\ opening => opened > windows
    BY DEF MeshInv, InstanceLife
  <2>5. /\ DOMAIN versions = DOMAIN meshes
        /\ ToSet(freeList) \subseteq DOMAIN meshes
        /\ \A t \in Threads : checked[t] \in handles \cup {NoHandle}
    BY DEF MeshInv, ListsFit
  <2> QED
    BY <2>1, <2>2, <2>3, <2>4, <2>5 DEF LoopTypes
<1> QED
  BY <1>1, <1>2, <1>3, PTL DEF LoopSpec
=============================================================================
