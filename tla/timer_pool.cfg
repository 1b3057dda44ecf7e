SPECIFICATION Spec
CONSTANTS
  Users = {u1, u2}
  Timers = {t1, t2}
  NoTimer = notimer
  MaxArmed = 3
INVARIANTS TypeOK PooledAtRest EarlyOnlyWhenRaced
PROPERTIES SelectEnds
CHECK_DEADLOCK FALSE
