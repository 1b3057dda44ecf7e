SPECIFICATION Spec
CONSTANTS
  Main <- MCMain
  Patch <- MCPatch
  NoByte = nobyte
  JumpLen = 2
  MaxPatched = 3
INVARIANTS NoFault
CHECK_DEADLOCK FALSE
