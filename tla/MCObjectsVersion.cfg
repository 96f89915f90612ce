\* the version that goes to the GPU with a transform
SPECIFICATION PartSpec
CONSTANTS
  Slots = {}
  Requests = {}
  StartSize = 0
  MaxBytes = 0
  NoPtr = NoPtr
  Renderers = {r1}
  NoOne = NoOne
  Unit = 3
  Rotations <- MCRotations
  IndexBits = 22
  VersionBits = 10
  MaxCreates = 1
  Lives = {0}
INVARIANTS
  TransformCarriesVersion
