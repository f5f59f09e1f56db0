\* Two TCP streams, a server and its clients.
SPECIFICATION Safety
CONSTANTS
  Handles = {h1, h2}
  NoHandle = NoHandle
  MaxVars = 1
  MaxReqs = 1
  MaxLost = 1
  StreamClasses = {"tcp"}
  ReadResults = {"data", "eof"}
  StopsListeners = FALSE
SYMMETRY Symmetry
INVARIANT StreamInv
PROPERTY KeepsLifetime
CHECK_DEADLOCK FALSE
