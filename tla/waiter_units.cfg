SPECIFICATION Spec
CONSTANTS
  NewKeys = {k1}
  MayKeys = {k1}
  Units = {u1, u2}
  Waits = {x1}
  NewCallers = {n1, n2}
  MaxWaiters = 2
INVARIANTS TypeOK CountExact StrayOnlyIfReplaced LiveUnlessRaced NoEarlyReturn
PROPERTIES WaitReturns
CHECK_DEADLOCK FALSE
