\* two scene stages around a blit, three objects, a framebuffer that is re-created;
\* or two targets with a dispatch in between and single meshes around batches; or
\* a camera
SPECIFICATION FairPartSpec
CONSTANTS
  cube = cube
  tree = tree
  r1 = r1
  r2 = r2
  r3 = r3
  Renderers = {r1, r2, r3}
  Objs <- MCObjs
  Stages <- MCStages
  Group = 2
  Laziness = {TRUE, FALSE}
  MaxInflight = 1
  MaxRecords = 2
  MaxChanges = 1
  MaxFbos = 2
  Materials = {"stone", "glass"}
  Object <- MCObject
  Target <- MCTarget
  Pipelines <- MCPipelines
  Units = 2
  Slots = 3
  MaxSize = 2
  MaxDrawChanges = 2
  Values = {1, 2}
  Defaults <- MCDefaults
  One = 1
  Aspects = {1, 2}
INVARIANTS
  FrameShowsTheScene
  CommandsFit
  BindingsAreOwn
  CameraIsCurrent
PROPERTIES
  AttachedIsShown
