\* a copy that stores the version of bytes that GL has refused
SPECIFICATION PartSpec
CONSTANTS
  MaxBuffers = 2
  FirstSize = 1
  MaxSize = 2
  MaxVersion = 2
  MaxLag = 1
  Buffers = {}
  Used <- MCNone
INVARIANTS
  SeenIsHeld
