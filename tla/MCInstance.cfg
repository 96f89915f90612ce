\* keys, mice, a window and meshes under the update loop; or a color and a depth
\* texture with a framebuffer; or two shaders
SPECIFICATION SideSpec
CONSTANTS
  keyA = keyA
  keyB = keyB
  keyFn1 = keyFn1
  keyFn2 = keyFn2
  m1 = m1
  m2 = m2
  PhysicalKeys = {keyA, keyB, keyFn1, keyFn2}
  KeyOf <- MCKeyOf
  Mice = {m1, m2}
  Buttons = {1, 3}
  Listings <- MCListings
  Extents = {1, 2}
  Threads = {t1, t2}
  NoHandle = NoHandle
  MaxMeshes = 3
  MaxWindows = 2
  ThisWindow = ThisWindow
  OtherWindow = OtherWindow
  MaxInputs = 4
  color = color
  depth = depth
  screen = screen
  Textures = {color, depth}
  Framebuffers = {screen}
  Shaders = {s1, s2}
  StageTypes = {0, 1}
  NoTexture = NoTexture
  NoFramebuffer = NoFramebuffer
  Sizes = {1, 2}
  Levels = {0, 2}
  Initial <- MCInitial
  Attached <- MCAttached
  Kind <- MCKind
  MaxCalls = 3
  MaxRequests = 2
INVARIANTS
  InputEdges
  WindowSettles
  MeshesApart
  QueueMatchesFlags
  SettingsReachTheGPU
  AttachmentsAccounted
  ShadersAccounted
