\* Every set of shaders links.
CONSTANTS
  Shaders = {s1, s2}
  Programs = {p1}
  Buffers = {}
  Linkable = {{}, {s1}, {s2}, {s1, s2}}
  MaxActions = 3
  MaxVersion = 0
SPECIFICATION Spec
INVARIANTS
  LinkTakesEffect
CHECK_DEADLOCK FALSE
