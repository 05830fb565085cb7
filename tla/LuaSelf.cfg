\* One application of the script.
CONSTANTS
  MaxApps = 1
SPECIFICATION LuaSpec
INVARIANTS
  SelfPassed
CHECK_DEADLOCK FALSE
