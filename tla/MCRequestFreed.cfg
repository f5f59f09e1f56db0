\* A work function that is pending when the script ends.
SPECIFICATION Safety
CONSTANTS
  Requests = {r1}
  Files = {f1}
  NoFile = NoFile
  Operations = {"work"}
  Workers = 1
  ScriptEnds = TRUE
  AbandonsWork = TRUE
INVARIANT SlotsAllocated
CHECK_DEADLOCK FALSE
