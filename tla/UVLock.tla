-------------------------------- MODULE UVLock -------------------------------
(***************************************************************************)
(* Locks: an operating system lock next to a plain int, lock->locked, that *)
(* the extension reads before and writes after the system call: 0 free,    *)
(* 1 locked for writing (or a locked mutex), n + 1 locked by n readers.    *)
(* uv_queue_work lets several threads of a thread safe PHP share a lock,   *)
(* so each access to that int is a step of its own.                        *)
(***************************************************************************)
EXTENDS Integers

CONSTANTS
  Threads, MainThread, NoThread,
  Locks,
  SharedLocks,  \* the locks that other threads than the main thread use
  LockTypes,    \* the kinds of locks this instance creates
  MaxHeld,      \* bound: read locks of a thread on the system's lock; a semaphore
  MaxLocked     \* bound on lock->locked, which lost updates let drift upwards

ASSUME LockAssumption ==
  /\ MainThread \in Threads
  /\ NoThread \notin Threads
  /\ SharedLocks \subseteq Locks
  /\ LockTypes \subseteq {"rwlock", "mutex", "semaphore"}
  /\ MaxHeld \in Nat
  /\ MaxLocked \in Nat

VARIABLES
  type,      \* type[l]: lock->type; "none" before uv_*_init, "gone" after the destructor
  locked,    \* locked[l]: lock->locked
  writer,    \* writer[l]: the thread that holds the mutex, or the lock for writing
  readers,   \* readers[l][t]: how often t holds it for reading
  value,     \* value[l]: of the semaphore
  call,      \* call[t]: the function t is in, and how far it got
  held       \* held[l][t]: locks t was granted and has not given back

lockVars == <<type, locked, writer, readers, value, call, held>>

Grants  == {"rdlock", "tryrdlock", "wrlock", "trywrlock", "mutex_lock", "mutex_trylock"}
Returns == {"rdunlock", "wrunlock", "mutex_unlock"}
Reading == {"rdlock", "tryrdlock", "rdunlock"}

Idle == [op |-> "none", at |-> "none", seen |-> 0]

InCall(t, l, op, at) == call[t] # Idle /\ call[t].lock = l /\ call[t].op = op /\ call[t].at = at

Enter(t, l, op, at) ==
  /\ call[t] = Idle
  /\ call' = [call EXCEPT ![t] = [op |-> op, at |-> at, seen |-> 0, lock |-> l]]

Proceed(t, at) == call' = [call EXCEPT ![t].at = at]
Return(t) == call' = [call EXCEPT ![t] = Idle]

Init ==
  /\ type = [l \in Locks |-> "none"]
  /\ locked = [l \in Locks |-> 0]
  /\ writer = [l \in Locks |-> NoThread]
  /\ readers = [l \in Locks |-> [t \in Threads |-> 0]]
  /\ value = [l \in Locks |-> 0]
  /\ call = [t \in Threads |-> Idle]
  /\ held = [l \in Locks |-> [t \in Threads |-> 0]]

php_uv_lock_init(t, l) ==
  /\ call[t] = Idle
  /\ type[l] = "none"
  /\ \E kind \in LockTypes, val \in 0 .. MaxHeld :
       /\ kind # "semaphore" => val = 0
       /\ type' = [type EXCEPT ![l] = kind]
       /\ value' = [value EXCEPT ![l] = val]
  /\ UNCHANGED <<locked, writer, readers, call, held>>

-----------------------------------------------------------------------------
(* The system's locks.                                                     *)

NoReaders(l) == \A t \in Threads : readers[l][t] = 0

Available(l, op) == writer[l] = NoThread /\ (op \in Reading \/ NoReaders(l))

SystemLock(t, l, op) ==
  IF op \in Reading
  THEN readers' = [readers EXCEPT ![l][t] = @ + 1] /\ UNCHANGED writer
  ELSE writer' = [writer EXCEPT ![l] = t] /\ UNCHANGED readers

SystemUnlock(t, l, op) ==
  IF op \in Reading
  THEN readers' = [readers EXCEPT ![l][t] = @ - 1] /\ UNCHANGED writer
  ELSE writer' = [writer EXCEPT ![l] = NoThread] /\ UNCHANGED readers

-----------------------------------------------------------------------------
(* Acquiring.  Each function looks at lock->locked first (a mutex does     *)
(* not), then asks the system, then writes lock->locked.                   *)

(* Mutant of Admits: only a writer keeps a writer out.                     *)
AdmitsWriter(l, op) ==
  CASE op \in {"rdlock", "tryrdlock", "wrlock", "trywrlock"} -> locked[l] # 1
    [] OTHER -> TRUE

(* "Cannot acquire a read lock while holding a write lock", "Cannot        *)
(* acquire a write lock when already holding a lock": refused otherwise.   *)
Admits(l, op) ==
  CASE op \in {"rdlock", "tryrdlock"} -> locked[l] # 1
    [] op \in {"wrlock", "trywrlock"} -> locked[l] = 0
    [] OTHER -> TRUE

(* The kind of lock a function is for.  Its guard below is the caller's:   *)
(* the functions never look at lock->type.  Called on a lock of another    *)
(* kind they use one member of the union as another, which libuv leaves    *)
(* undefined: such calls are left out.                                     *)
LockKind(op) == IF op \in {"mutex_lock", "mutex_trylock", "mutex_unlock"} THEN "mutex" ELSE "rwlock"

php_uv_lock_lock(t, l, op) ==
  /\ type[l] = LockKind(op)
  /\ Admits(l, op)
  /\ op \in Reading => readers[l][t] < MaxHeld /\ locked[l] < MaxLocked
  /\ Enter(t, l, op, "system")
  /\ UNCHANGED <<type, locked, writer, readers, value, held>>

(* Mutant of TryFails: the result of uv_*_try*lock is not looked at.       *)
TryIgnored(t, l, op) ==
  /\ InCall(t, l, op, "system")
  /\ op \in {"tryrdlock", "trywrlock", "mutex_trylock"}
  /\ ~Available(l, op)
  /\ Proceed(t, "load")
  /\ UNCHANGED <<type, locked, writer, readers, value, held>>

(* A try that finds the lock taken returns false.                          *)
TryFails(t, l, op) ==
  /\ InCall(t, l, op, "system")
  /\ op \in {"tryrdlock", "trywrlock", "mutex_trylock"}
  /\ ~Available(l, op)
  /\ Return(t)
  /\ UNCHANGED <<type, locked, writer, readers, value, held>>

SystemGrants(t, l, op) ==
  /\ InCall(t, l, op, "system")
  /\ Available(l, op)
  /\ SystemLock(t, l, op)
  /\ Proceed(t, "load")
  /\ UNCHANGED <<type, locked, value, held>>

(* lock->locked++ is a load and a store.                                   *)
LoadLocked(t, l, op) ==
  /\ InCall(t, l, op, "load")
  /\ call' = [call EXCEPT ![t].at = "store", ![t].seen = locked[l]]
  /\ UNCHANGED <<type, locked, writer, readers, value, held>>

(* Mutant of Marked: the first reader counts as one.                       *)
MarkedFromOne(op, seen) == IF op \in Reading THEN seen + 1 ELSE 1

(* if (!locked++) locked = 2, or locked = 1.                               *)
Marked(op, seen) ==
  IF op \in Reading THEN IF seen = 0 THEN 2 ELSE seen + 1
  ELSE 1

MarkLocked(t, l, op) ==
  /\ InCall(t, l, op, "store")
  /\ locked' = [locked EXCEPT ![l] = Marked(op, call[t].seen)]
  /\ held' = [held EXCEPT ![l][t] = @ + 1]
  /\ Return(t)
  /\ UNCHANGED <<type, writer, readers, value>>

-----------------------------------------------------------------------------
(* Giving back: lock->locked decides whether the system is asked at all.   *)

Holds(t, l, op) == held[l][t] > 0 /\ (writer[l] = t <=> op \notin Reading)

(* What lock->locked says: held for reading, or for writing.               *)
Unlocks(l, op) == IF op \in Reading THEN locked[l] > 1 ELSE locked[l] = 1

GiveBack(t, l, op) ==
  held' = IF Holds(t, l, op) THEN [held EXCEPT ![l][t] = @ - 1] ELSE held

(* Threads that share a lock give back what they hold, and nothing else.   *)
php_uv_lock_unlock(t, l, op) ==
  /\ type[l] = LockKind(op)
  /\ l \in SharedLocks => Holds(t, l, op)
  /\ Unlocks(l, op)
  /\ Enter(t, l, op, "system")
  /\ GiveBack(t, l, op)
  /\ UNCHANGED <<type, locked, writer, readers, value>>

(* The function returns without having done anything.                      *)
UnlockIgnored(t, l, op) ==
  /\ call[t] = Idle
  /\ type[l] = LockKind(op)
  /\ Holds(t, l, op)
  /\ ~Unlocks(l, op)
  /\ GiveBack(t, l, op)
  /\ UNCHANGED <<type, locked, writer, readers, value, call>>

SystemReleases(t, l, op) ==
  /\ InCall(t, l, op, "system")
  /\ SystemUnlock(t, l, op)
  /\ Proceed(t, "load")
  /\ UNCHANGED <<type, locked, value, held>>

(* if (--locked == 1) locked = 0, or locked = 0.                           *)
Cleared(op, seen) == IF op \in Reading /\ seen # 2 THEN seen - 1 ELSE 0

ClearLocked(t, l, op) ==
  /\ InCall(t, l, op, "store")
  /\ locked' = [locked EXCEPT ![l] = Cleared(op, call[t].seen)]
  /\ Return(t)
  /\ UNCHANGED <<type, writer, readers, value, held>>

-----------------------------------------------------------------------------
(* Semaphores leave lock->locked alone.                                    *)

uv_sem_post(t, l) ==
  /\ call[t] = Idle
  /\ type[l] = "semaphore"
  /\ value[l] < MaxHeld
  /\ value' = [value EXCEPT ![l] = @ + 1]
  /\ UNCHANGED <<type, locked, writer, readers, call, held>>

(* uv_sem_wait blocks; uv_sem_trywait returns an error instead.            *)
uv_sem_wait(t, l) ==
  /\ call[t] = Idle
  /\ type[l] = "semaphore"
  /\ value[l] > 0
  /\ value' = [value EXCEPT ![l] = @ - 1]
  /\ UNCHANGED <<type, locked, writer, readers, call, held>>

-----------------------------------------------------------------------------
(* Mutant of ForcedUnlocks: while (--locked > 1).                          *)
ForcedUnlocksShort(l) == IF locked[l] > 1 THEN locked[l] - 2 ELSE locked[l]

(* The destructor unlocks once for a writer or a mutex, and while          *)
(* --locked > 0 for readers.                                               *)
ForcedUnlocks(l) == IF locked[l] > 1 THEN locked[l] - 1 ELSE locked[l]

(* The last reference goes; the other threads gave back what they held     *)
(* before they let go of theirs.                                           *)
destruct_uv_lock(t, l) ==
  /\ type[l] \in LockTypes
  /\ call[t] = Idle
  /\ \A u \in Threads \ {t} :
       /\ call[u] # Idle => call[u].lock # l
       /\ readers[l][u] = 0 /\ writer[l] # u
  /\ IF locked[l] = 1
     THEN writer' = [writer EXCEPT ![l] = NoThread] /\ UNCHANGED readers
     ELSE readers' = [readers EXCEPT ![l][t] = @ - ForcedUnlocks(l)] /\ UNCHANGED writer
  /\ type' = [type EXCEPT ![l] = "gone"]
  /\ locked' = [locked EXCEPT ![l] = 0]
  /\ held' = [held EXCEPT ![l] = [u \in Threads |-> 0]]
  /\ UNCHANGED <<value, call>>

LockNext(t, l) ==
  \/ php_uv_lock_init(t, l)
  \/ \E op \in Grants :
       \/ php_uv_lock_lock(t, l, op) \/ TryFails(t, l, op)
       \/ SystemGrants(t, l, op) \/ LoadLocked(t, l, op) \/ MarkLocked(t, l, op)
  \/ \E op \in Returns :
       \/ php_uv_lock_unlock(t, l, op) \/ UnlockIgnored(t, l, op)
       \/ SystemReleases(t, l, op) \/ LoadLocked(t, l, op) \/ ClearLocked(t, l, op)
  \/ uv_sem_post(t, l) \/ uv_sem_wait(t, l)
  \/ destruct_uv_lock(t, l)

Next ==
  \/ \E l \in Locks : LockNext(MainThread, l)
  \/ \E t \in Threads \ {MainThread}, l \in SharedLocks : LockNext(t, l)

Safety == Init /\ [][Next]_lockVars

-----------------------------------------------------------------------------
(* What t holds of the system's lock.                                      *)
Owned(t, l) == readers[l][t] + (IF writer[l] = t THEN 1 ELSE 0)

(* The locks exclude: while a thread that was granted a mutex or the write *)
(* lock has not given it back, no other thread has been granted anything.  *)
Exclusive ==
  \A l \in Locks, t, u \in Threads :
    t # u /\ held[l][t] > 0 /\ writer[l] = t => held[l][u] = 0

(* A thread outside the functions holds of the system's lock exactly what  *)
(* it was granted and has not given back: no unlock is skipped because     *)
(* lock->locked is not what the system's lock is.                          *)
Agrees(l) ==
  \A t \in Threads :
    call[t] = Idle /\ type[l] \in LockTypes => held[l][t] = Owned(t, l)

(* Without sharing, php_uv_lock_unlock never skips the system's unlock     *)
(* while the lock is held, however many unlocks are called.                *)
HeldAgrees == \A l \in Locks \ SharedLocks : Agrees(l)

(* "unlock mutex" (uv_mutex_unlock): an unlock of the thread that holds    *)
(* the lock unlocks it, shared or not.                                     *)
UnlockUnlocks == \A l \in Locks : Agrees(l)

(* A thread never waits for a read-write lock that it holds itself: the    *)
(* refusals of rdlock and wrlock are what keeps it from doing so.          *)
NoSelfDeadlock ==
  \A l \in Locks \ SharedLocks, t \in Threads, op \in {"rdlock", "wrlock"} :
    InCall(t, l, op, "system") => \/ op = "wrlock" /\ Owned(t, l) = 0
                                  \/ op = "rdlock" /\ writer[l] # t

(* No system lock is destroyed while somebody holds it: destruct_uv_lock   *)
(* reads from lock->locked what it has to unlock first.                    *)
DestroyedUnheld ==
  \A l \in Locks \ SharedLocks : type[l] = "gone" => writer[l] = NoThread /\ NoReaders(l)
=============================================================================
