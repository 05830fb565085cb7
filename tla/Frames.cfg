\* Two recording threads, two passes, two draws, exceptions everywhere, frame()
\* called for ever.  Three Vulkan images and six frames: each slot and each image
\* is used twice or more.  Five Direct3D 12 waits: both allocators are reset
\* twice or more.  A window with two images and a headless context on one
\* Vulkan system, each constructor left at any call.
CONSTANTS
  Threads = {t1, t2}
  MaxPasses = 2
  MaxDraws = 2
  MaxActions = 1
  MaxAborts = 1
  MaxFrame = 2
  Images = 3
  MaxFrames = 6
  Loaders = {}
  Timeouts = TRUE
  MaxFence = 5
  Windows = {window}
  Headless = {headless}
  SwapImages = 2
  Blocks = {1, 2}
SPECIFICATION FramesSpec
INVARIANTS
  PendingDrawHasActivePass
  NoDrawLost
  NothingRepeated
  WipedDrawNotPresented
  CommandBufferIdle
  SemaphoresIdle
  ImageHeld
  AllocatorIdle
  BarriersFit
  TornDownInOrder
PROPERTIES
  BatchesSpec
  EveryDrawHandled
  FrameReturns
CHECK_DEADLOCK FALSE
