-------------------------- MODULE RecordedPipeline --------------------------
(***************************************************************************)
(* What a render pipeline promises its client, threads and buffers aside:  *)
(* record() takes a picture of the list of stages, and a frame shows that  *)
(* picture, all of it, until the next record().                            *)
(***************************************************************************)
EXTENDS Integers

CONSTANTS
  N,         \* the number of stages
  Contents   \* what a stage may be

VARIABLES
  list,        \* the stages as the client edits them
  picture,     \* the stages as they were at the newest record()
  shown,       \* what the newest frame executed
  playing,     \* a frame has been asked for
  hidden,      \* the window is minimized
  disturbed    \* the client edited a stage while it was being recorded

pvars == <<list, picture, shown, playing, hidden, disturbed>>

PInit ==
  /\ list \in [1 .. N -> Contents]
  /\ picture = <<>>
  /\ shown = <<>>
  /\ playing = FALSE
  /\ hidden = FALSE
  /\ disturbed = FALSE

\* an edit is seen by the next record() only, unless it comes during one
Edit(i, stage) ==
  /\ list' = [list EXCEPT ![i] = stage]
  /\ disturbed' \in {disturbed, TRUE}
  /\ UNCHANGED <<picture, shown, playing, hidden>>

Record ==
  /\ picture' = list
  /\ UNCHANGED <<list, shown, playing, hidden, disturbed>>

Play ==
  /\ ~playing
  /\ playing' = TRUE
  /\ UNCHANGED <<list, picture, shown, hidden, disturbed>>

\* after an edit during a recording nothing is promised of what is shown
Show ==
  /\ playing
  /\ playing' = FALSE
  /\ disturbed \/ shown' = IF hidden THEN <<>> ELSE picture
  /\ UNCHANGED <<list, picture, hidden, disturbed>>

Minimize ==
  /\ hidden' = ~hidden
  /\ UNCHANGED <<list, picture, shown, playing, disturbed>>

PNext ==
  \/ \E i \in 1 .. N, stage \in Contents : Edit(i, stage)
  \/ Record \/ Play \/ Show \/ Minimize

PSpec == PInit /\ [][PNext]_pvars
=============================================================================
