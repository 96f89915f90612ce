\* a player and a waiter sleep on the same condition variable
SPECIFICATION FairPartSpec
CONSTANTS
  Recorders = {loader}
  Players = {render}
  N = 1
  MaxRecords = 2
  MaxEdits = 0
  Names = {}
  Values = {}
  MaxStages = 0
  MaxChanges = 0
  Periods = {0, 1}
  MaxWork = 1
  MaxLate = 0
  MaxTime = 0
PROPERTIES
  WaitersWake
