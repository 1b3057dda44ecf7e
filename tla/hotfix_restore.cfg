SPECIFICATION Spec
CONSTANTS
  Main <- MCMain
  Patch <- MCPatch
  NoByte = nobyte
  JumpLen = 2
  MaxPatched = 3
INVARIANTS TypeOK AsIfNeverHappened Restorable JumpsLand FaultOnlyAfterReload
CHECK_DEADLOCK FALSE
