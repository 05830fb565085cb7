\* A screenshot of the first frames.
CONSTANTS
  Images = 3
  MaxFrames = 4
SPECIFICATION VulkanSpec
INVARIANTS
  ScreenshotShowsFrame
CHECK_DEADLOCK FALSE
