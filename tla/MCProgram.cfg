\* Two handles of any class: what holds, and what must happen.
SPECIFICATION Program
CONSTANTS
  Handles = {h1, h2}
  NoHandle = NoHandle
  MaxVars = 1
  MaxReqs = 0
  MaxLost = 1
  WatcherClasses = {"idle", "prepare", "check", "signal"}
INVARIANTS RefCountExact FreedIsUnreachable ProgramInv
PROPERTIES ActiveIsKept RepeatingSurvives CloseNotified FireAndForget DeadPollReclaimed ImplementsLifetime
CHECK_DEADLOCK FALSE
