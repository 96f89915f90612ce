\* set() with another size
SPECIFICATION PartSpec
CONSTANTS
  MaxBuffers = 1
  FirstSize = 1
  MaxSize = 2
  MaxVersion = 1
  MaxLag = 0
  Buffers = {}
  Used <- MCNone
INVARIANTS
  SetReturns
