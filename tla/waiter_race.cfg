SPECIFICATION Spec
CONSTANTS
  NewKeys = {k1}
  MayKeys = {}
  Units = {u1}
  Waits = {}
  NewCallers = {n1, n2}
  MaxWaiters = 2
INVARIANTS LiveRegistered
CHECK_DEADLOCK FALSE
