\* Direct3D 12, one program.
CONSTANTS
  CacheBackends = {"dx12"}
  Programs = {1}
  Buffers = {1}
  Formats = {1}
  Targets = {1}
  MaxThings = 2
  MaxEntries = 2
SPECIFICATION Spec
INVARIANTS
  DrawnWithProgram
CHECK_DEADLOCK FALSE
