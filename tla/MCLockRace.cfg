\* Two threads on one mutex: is it free once it was unlocked?
SPECIFICATION Safety
CONSTANTS
  Threads = {t1, t2}
  MainThread = t1
  NoThread = NoThread
  Locks = {l1}
  SharedLocks = {l1}
  LockTypes = {"mutex"}
  MaxLocked = 2
  MaxHeld = 1
INVARIANT UnlockUnlocks
CHECK_DEADLOCK FALSE
