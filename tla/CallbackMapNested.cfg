\* A callback invokes the map it is called from.
CONSTANTS
  MaxKeys = 3
  MaxDepth = 2
SPECIFICATION MapSpec
PROPERTIES
  InsertRefused
CHECK_DEADLOCK FALSE
