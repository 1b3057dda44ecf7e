SPECIFICATION Spec
CONSTANTS
  Writers = {w1, w2}
  MaxWrites = 2
  Sizes = {1, 3}
  NoBuf = nobuf
  Slots = 1
  ChanCap = 1
  DefaultSize = 1
  TempSize = 3
  Failures = {"err", "panic", "hang"}
INVARIANTS TypeOK ExclusiveBuffers BatchFits
PROPERTIES ImplementsQueue AcceptedSettles WriteReturns
CHECK_DEADLOCK FALSE
