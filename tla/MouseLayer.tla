----------------------------- MODULE MouseLayer -----------------------------
(***************************************************************************)
(* The mouse layer (Mouse.cpp).  The mice SDL lists at the start get an    *)
(* index each; the event of any other mouse makes m_mapping[id] insert     *)
(* index 0, the first mouse.  Plug-in and plug-out events are declared but *)
(* never sent.  Names and positions are left out.                          *)
(***************************************************************************)
EXTENDS Integers, SequencesExt

CONSTANTS
  Mice,    \* SDL ids of mice
  Buttons, \* buttons of a mouse, as SDL counts them (left is 1)
  Listings \* what SDL_GetMice() may return at the start

ASSUME MouseAssumption ==
  /\ Buttons \subseteq 1 .. 32
  /\ Listings \subseteq Seq(Mice)
  /\ \A l \in Listings : IsInjective(l)

VARIABLES
  mapping,       \* m_mapping: SDL ids to indices
  mice,          \* m_mice, by index
  currentBefore, \* the buttons of each mouse that were down at the last onUpdate()
  outOfBounds    \* m_mice[0] of an empty deque was written

mouseVars == <<mapping, mice, currentBefore, outOfBounds>>

Untouched == [current |-> {}, pressed |-> {}, released |-> {}]

\* init(): addMouse() for every mouse of the list
MiceInit ==
  \E listed \in Listings :
    /\ mapping = [m \in ToSet(listed) |-> (CHOOSE i \in DOMAIN listed : listed[i] = m) - 1]
    /\ mice = [i \in 0 .. Len(listed) - 1 |-> Untouched]
    /\ currentBefore = [i \in 0 .. Len(listed) - 1 |-> {}]
    /\ outOfBounds = FALSE

-----------------------------------------------------------------------------

MiceOnUpdate ==
  /\ mice' = [i \in DOMAIN mice |-> [mice[i] EXCEPT !.pressed = {}, !.released = {}]]
  /\ currentBefore' = [i \in DOMAIN mice |-> mice[i].current]
  /\ UNCHANGED <<mapping, outOfBounds>>

\* m_mapping[id]
Entry(id) == IF id \in DOMAIN mapping THEN mapping[id] ELSE 0

\* m_mice[m_mapping[id]]
MouseOf(id) == IF Entry(id) \in DOMAIN mice THEN mice[Entry(id)] ELSE Untouched

\* the event of a mouse, after which m_mice[m_mapping[id]] is m
Update(id, m) ==
  LET i == Entry(id) IN
  /\ mapping' = [n \in DOMAIN mapping \cup {id} |-> IF n = id THEN i ELSE mapping[n]]
  /\ IF i \in DOMAIN mice
     THEN mice' = [mice EXCEPT ![i] = m] /\ UNCHANGED outOfBounds
     ELSE outOfBounds' = TRUE /\ UNCHANGED mice
  /\ UNCHANGED currentBefore

\* a movement changes the position only
MouseMove(id) == Update(id, MouseOf(id))

MouseDown(id, b) ==
  Update(id, [MouseOf(id) EXCEPT !.current = @ \cup {b}, !.pressed = @ \cup {b}])

MouseUp(id, b) ==
  Update(id, [MouseOf(id) EXCEPT !.current = @ \ {b}, !.released = @ \cup {b}])
=============================================================================
