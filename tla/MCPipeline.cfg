\* one thread owns the pipeline: it edits, records, waits, plays and destroys; or
\* lists of up to three stages, in which names come twice, and two changes of
\* them; or frames of up to three ticks and sleeps that are late
SPECIFICATION FairPartSpec
CONSTANTS
  Recorders = {main}
  Players = {main}
  N = 2
  MaxRecords = 2
  MaxEdits = 1
  Names = {depth, light}
  Values = {draw, clear, blit}
  MaxStages = 3
  MaxChanges = 2
  Periods = {0, 2, 4}
  MaxWork = 3
  MaxLate = 1
  MaxTime = 14
INVARIANTS
  PlayExcludesRecorder
  HandleFollowsRecorder
  NoTornCommand
  TableFollowsTheList
  DeltasAddUp
PROPERTIES
  ShowsWhatWasRecorded
  CallsReturn
  NeverAboveTheRate
