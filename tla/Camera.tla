------------------------------- MODULE Camera -------------------------------
(***************************************************************************)
(* A camera and the data its buffer has (Frontend/Camera.cpp, Camera.h).   *)
(*                                                                         *)
(* The parameters of both types share three words of memory (a union), and *)
(* update() computes the matrices anew only when a setter, the transform   *)
(* of the object or the aspect of the target asks for it.                  *)
(*                                                                         *)
(* Matrices are the tuple of what they are computed from.  How the buffer  *)
(* reaches the GPU is CycleBuffer's.                                       *)
(***************************************************************************)
EXTENDS Integers

CONSTANTS
  Values,    \* values of a parameter, and places of an object
  Defaults,  \* field of view, near and far plane that setType() chooses
  One,       \* 1.0
  Aspects    \* proportions of the target

ASSUME CameraAssumption ==
  /\ One \in Values
  /\ Defaults \in [1 .. 3 -> Values]

Types == {"orthographic", "perspective"}
Unset == <<>>   \* not computed yet

VARIABLES
  type,            \* m_type
  words,           \* m_data: fov, near and far, or x, y and z of the scale
  requiresUpdate,  \* m_requiresUpdate
  obj,             \* m_obj is set
  place,           \* position and rotation of the object
  extent,          \* the proportions of the window or framebuffer
  known,           \* m_currentTransf, m_aspect
  buffer,          \* the matrices in m_buffer
  asked,           \* history: the parameters its own setters gave the present type
  mixed            \* history: a setter of the other type was called

outside == <<place, extent>>
history == <<asked, mixed>>
cameraVars == <<type, words, requiresUpdate, obj, outside, known, buffer, history>>

\* the two constructors
CameraInit ==
  /\ type \in Types
  /\ words \in [1 .. 3 -> Values]
  /\ type = "orthographic" => words = [i \in 1 .. 3 |-> One]
  /\ requiresUpdate = TRUE
  /\ obj = FALSE
  /\ place \in Values
  /\ extent \in Aspects
  /\ known = Unset
  /\ buffer = Unset
  /\ asked = words
  /\ mixed = FALSE

\* the scene gives the camera its object, once
SetObject ==
  /\ ~obj
  /\ obj' = TRUE
  /\ requiresUpdate' = TRUE
  /\ UNCHANGED <<type, words, outside, known, buffer, history>>

\* mutant: the new words are stored, and that is all
StoreQuietly(w) ==
  /\ words' = w
  /\ UNCHANGED <<type, requiresUpdate, obj, outside, known, buffer>>

\* what is the same returns early
Store(w) ==
  /\ words' = w
  /\ requiresUpdate' = (requiresUpdate \/ w # words)
  /\ UNCHANGED <<type, obj, outside, known, buffer>>

\* the setters do not look at the type; its own ones are those that are meant
Asked(t, params) ==
  IF type = t THEN asked' = params /\ UNCHANGED mixed
              ELSE mixed' = TRUE /\ UNCHANGED asked

\* setFOV, setNear, setFar
SetPlane(i, v) ==
  /\ Store([words EXCEPT ![i] = v])
  /\ Asked("perspective", [asked EXCEPT ![i] = v])

SetScale(scale) ==
  /\ Store(scale)
  /\ Asked("orthographic", scale)

Initial(t) == IF t = "perspective" THEN Defaults ELSE [i \in 1 .. 3 |-> One]

\* the other type begins with parameters of its own
SetType(t) ==
  /\ t # type
  /\ type' = t
  /\ words' = Initial(t)
  /\ requiresUpdate' = TRUE
  /\ asked' = Initial(t)
  /\ mixed' = FALSE
  /\ UNCHANGED <<obj, outside, known, buffer>>

\* the object moves, the window is resized
Outside ==
  /\ place' \in Values
  /\ extent' \in Aspects
  /\ UNCHANGED <<type, words, requiresUpdate, obj, known, buffer, history>>

-----------------------------------------------------------------------------

\* the aspect scales a perspective projection only
Matrices(t, w, transf, aspect) ==
  <<transf, t, w, IF t = "perspective" THEN aspect ELSE One>>

\* the early return of update()
Outdated == requiresUpdate \/ <<place, extent>> # known

Update ==
  /\ obj
  /\ IF Outdated
       THEN /\ known' = <<place, extent>>
            /\ buffer' = Matrices(type, words, place, extent)
            /\ requiresUpdate' = FALSE
       ELSE UNCHANGED <<known, buffer, requiresUpdate>>
  /\ UNCHANGED <<type, words, obj, outside, history>>

CameraNext ==
  \/ SetObject
  \/ \E v \in Values, i \in 1 .. 3 : SetPlane(i, v)
  \/ \E scale \in [1 .. 3 -> Values] : SetScale(scale)
  \/ \E t \in Types : SetType(t)
  \/ Outside
  \/ Update

CameraSpec == CameraInit /\ [][CameraNext]_cameraVars

-----------------------------------------------------------------------------
(* What the shaders that read the buffer rely on *)

\* The types of the variables; an update that is not required has been made.
CameraTypes ==
  /\ type \in Types
  /\ words \in [1 .. 3 -> Values]
  /\ requiresUpdate \in BOOLEAN
  /\ obj \in BOOLEAN
  /\ place \in Values
  /\ extent \in Aspects
  /\ asked \in [1 .. 3 -> Values]
  /\ mixed \in BOOLEAN
  /\ ~requiresUpdate => obj /\ buffer # Unset

\* Camera.h:142, "update the camera data": when update() would return early, the
\* buffer already has the matrices of the present type, parameters, object and
\* target, so that after every update() it has them: the flag that each setter
\* keeps for itself and what is remembered of object and target miss nothing.
EarlyReturnIsCurrent ==
  obj /\ ~Outdated => buffer = Matrices(type, words, place, extent)

\* Camera.h:91, "set the field of view for the camera": while only the setters
\* of its type are called, a camera has the parameters they gave it, through any
\* number of changes of the type, although both types share their memory.
OwnParameters ==
  ~mixed => words = asked

\* A camera is drawn with what it was told last.
CameraIsCurrent == EarlyReturnIsCurrent /\ OwnParameters
=============================================================================
