\* Two objects of any of the classes, two sends on each socket, which the
\* script may let go of while they are in flight.
SPECIFICATION Events
CONSTANTS
  Handles = {h1, h2}
  NoHandle = NoHandle
  MaxVars = 1
  MaxReqs = 2
  MaxLost = 1
  AbandonsSenders = TRUE
  StopsSenders = FALSE
INVARIANTS EventInv SendsKeepSocket
PROPERTIES EventsKeepLifetime ClosingDrains ProcessIsKept WakeUpDelivered ExitReported
CHECK_DEADLOCK FALSE
