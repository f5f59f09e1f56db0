\* A socket whose last variable goes while it sends.
SPECIFICATION Safety
CONSTANTS
  Handles = {h1}
  NoHandle = NoHandle
  MaxVars = 1
  MaxReqs = 1
  MaxLost = 0
  AbandonsSenders = TRUE
  StopsSenders = FALSE
INVARIANT FreedIsUnreachable
CHECK_DEADLOCK FALSE
