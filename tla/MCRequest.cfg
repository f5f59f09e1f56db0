\* Two requests of any operation on one worker; the script may end at any time
\* but while a lookup or a work function is pending.
SPECIFICATION Spec
CONSTANTS
  Requests = {r1, r2}
  Files = {f1, f2}
  NoFile = NoFile
  Operations = {"path", "file", "close", "copy", "getaddrinfo", "work"}
  Workers = 1
  ScriptEnds = TRUE
  AbandonsWork = FALSE
INVARIANTS RequestInv FileOpenWhileUsed PendingIsLive SlotsAllocated
PROPERTY Answered
CHECK_DEADLOCK FALSE
