\* Two threads: a lock they share, and one of the main thread's own.
SPECIFICATION Safety
CONSTANTS
  Threads = {t1, t2}
  MainThread = t1
  NoThread = NoThread
  Locks = {l1, l2}
  SharedLocks = {l1}
  LockTypes = {"rwlock", "mutex", "semaphore"}
  MaxLocked = 3
  MaxHeld = 2
INVARIANTS Exclusive HeldAgrees NoSelfDeadlock DestroyedUnheld
CHECK_DEADLOCK FALSE
