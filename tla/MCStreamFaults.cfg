\* Reads that find nothing, or fail.
SPECIFICATION Safety
CONSTANTS
  Handles = {h1}
  NoHandle = NoHandle
  MaxVars = 1
  MaxReqs = 1
  MaxLost = 1
  StreamClasses = {"tcp", "pipe", "tty"}
  ReadResults = {"data", "eof", "again", "error"}
  StopsListeners = TRUE
INVARIANTS ListenerActive ClosedOnce
CHECK_DEADLOCK FALSE
