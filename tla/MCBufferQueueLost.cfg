\* a write between the upload of a buffer and the clearing of its flag
SPECIFICATION Spec
CONSTANTS
  Buffers = {b1}
  Loaded = {b1}
  LoadedSize = 1
  Requests = {1}
  Writers = {w1}
  Null = Null
  MaxSize = 1
  MaxWrites = 2
INVARIANTS
  UnqueuedIsCurrent
