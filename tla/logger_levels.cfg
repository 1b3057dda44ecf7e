SPECIFICATION Spec
CONSTANTS
  Callers = {p1, p2}
  Texts = {"debug", "DEBUG", "error", "verbose"}
  AssignOn = FALSE
INVARIANTS TypeOK Routed LevelFollowsConfig
PROPERTIES PublishedIsFinal
CHECK_DEADLOCK FALSE
