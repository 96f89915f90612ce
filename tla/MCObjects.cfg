\* three meshes of up to two units, some without any, in an arena that starts empty;
\* or three Renderers, copied or not, with the code's field widths, in a system
\* whose first index is about to wrap and whose others are fresh
SPECIFICATION PartSpec
CONSTANTS
  Slots = {o1, o2, o3}
  Requests = {0, 1, 2}
  StartSize = 0
  MaxBytes = 5
  NoPtr = NoPtr
  Renderers = {o1, o2, o3}
  NoOne = NoOne
  Unit = 3
  Rotations <- MCRotations
  IndexBits = 22
  VersionBits = 10
  MaxCreates = 3
  Lives = {1022}
SYMMETRY Symmetry
INVARIANTS
  NoSharedBytes
  FreeAndHeldDivide
  ReleaseSucceeds
  HandlesAreOwn
  TransformIsOwn
  FreedOnce
PROPERTIES
  Refinement
