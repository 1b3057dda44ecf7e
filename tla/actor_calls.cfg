SPECIFICATION Spec
CONSTANTS
  Clients = {c1, c2}
  Inner = {}
  Timers = {}
  Nobody = nobody
  MaxSends = 2
  MaxTickerCmds = 0
  MailboxCap = 1
  DefaultOut = TRUE
  Panics = {"init", "handle", "stop"}
  LoopOn = TRUE
INVARIANTS SenderOrder CallTimeoutNeverPosted ReplyNeverBlocks ReplyMatchesCall NoServiceAfterInitTimeout
PROPERTIES ImplementsRpc
CHECK_DEADLOCK FALSE
