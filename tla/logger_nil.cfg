SPECIFICATION Spec
CONSTANTS
  Callers = {p1}
  Texts = {"debug", "info"}
  AssignOn = TRUE
INVARIANTS InitializedLoggerLogs
CHECK_DEADLOCK FALSE
