\* two threads write a new and an old buffer while a third ticks, or one thread
\* does it all
SPECIFICATION FairSpec
CONSTANTS
  Buffers = {b1, b2}
  Loaded = {b1}
  LoadedSize = 1
  Requests = {0, 2}
  Writers = {w1, w2}
  Null = Null
  MaxSize = 2
  MaxWrites = 2
INVARIANTS
  SerialIsCurrent
  MappingsLast
  NoLockCycle
  QueueMatchesFlags
PROPERTIES
  WritesReachTheGPU
  CallsReturn
