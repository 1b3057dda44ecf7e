SPECIFICATION Spec
CONSTANTS
  Clients = {c1, c2}
  Inner = {}
  Timers = {}
  Nobody = nobody
  MaxSends = 1
  MaxTickerCmds = 0
  MailboxCap = 1
  DefaultOut = FALSE
  Panics = {"handle"}
  LoopOn = TRUE
INVARIANTS ServesUntilStopped
CHECK_DEADLOCK FALSE
