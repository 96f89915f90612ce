\* one to three copies, a GPU that keeps up or lags by a frame; or two buffers
\* that are made and destroyed while the main loop goes on
SPECIFICATION FairPartSpec
CONSTANTS
  MaxBuffers = 3
  FirstSize = 1
  MaxSize = 1
  MaxVersion = 2
  MaxLag = 1
  Buffers = {"camera", "ring"}
  Used <- MCUsed
INVARIANTS
  CopiesAreMapped
  BackendsAgree
  RegisteredIsWhole
PROPERTIES
  ShownMovesForward
  NextIsFresh
  WritesAreShown
  QueuedGetTheirBuffer
