\* Registry: three contexts, created and destroyed in any order, that fill the
\* vector.  Objects: two shaders that do not link together, a program, a buffer;
\* clients destroy objects at any time.  Loops: two draws of every kind in each
\* of two frames, one of which may fail.  Uniforms: two uniforms of the name,
\* two frames in flight.  Sets: three sets, so that the pool runs out.  Caches:
\* addresses, handles and states that come back.
CONSTANTS
  Contexts = {c1, c2, c3}
  Null = Null
  Limit = 3
  MaxObjects = 2
  DropHandles = TRUE
  Shaders = {s1, s2}
  Programs = {p1}
  Buffers = {b1}
  Linkable = {{s1}}
  MaxActions = 2
  MaxVersion = 2
  Backends = {"vulkan", "dx12", "dx11", "opengl"}
  MaxDraws = 2
  MaxFrames = 2
  Blocks = {1}
  InFlight = 2
  MaxUniforms = 2
  SetBlocks = {1, 2}
  Textures = {1}
  Slots = {0, 1}
  MaxSets = 3
  MaxSetDraws = 3
  CacheBackends = {"vulkan", "dx12", "dx11", "opengl"}
  Addresses = {1}
  Formats = {1, 2}
  Targets = {1, 2}
  MaxThings = 2
  MaxEntries = 2
SPECIFICATION ContextSpec
INVARIANTS
  HandleFollowsObject
  NoFreedUse
  FlagsAreCurrent
  LastDataWins
  OwnState
  BlendedOverOpaque
  SyncedWithGlobal
  NeverOlder
  OwnBlockBound
  PipelineFits
PROPERTIES
  AllocatorSpec
CHECK_DEADLOCK FALSE
