\* OpenGL, two draws, one frame.
CONSTANTS
  Backends = {"opengl"}
  MaxDraws = 2
  MaxFrames = 1
SPECIFICATION Spec
INVARIANTS
  OwnCulling
CHECK_DEADLOCK FALSE
