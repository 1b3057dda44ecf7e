SPECIFICATION Spec
CONSTANTS
  Clients = {c1, c2}
  Inner = {c2}
  Timers = {t1}
  Nobody = nobody
  MaxSends = 1
  MaxTickerCmds = 1
  MailboxCap = 1
  DefaultOut = TRUE
  Panics = {"init", "handle"}
  LoopOn = FALSE
INVARIANTS TypeOK SelfCallsTimeOut
PROPERTIES PostedIsServed CallReturns
CHECK_DEADLOCK FALSE
