\* a fence that is submitted before the draws it stands for
SPECIFICATION PartSpec
CONSTANTS
  MaxBuffers = 2
  FirstSize = 1
  MaxSize = 1
  MaxVersion = 2
  MaxLag = 1
  Buffers = {}
  Used <- MCNone
PROPERTIES
  NoWriteWhileRead
