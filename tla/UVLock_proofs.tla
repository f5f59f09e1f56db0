---------------------------- MODULE UVLock_proofs ----------------------------
(***************************************************************************)
(* Locks exclude, for any number of threads that share them, although      *)
(* lock->locked may say anything about a shared lock: what a thread was    *)
(* granted, or is about to give back, it holds of the system's lock.       *)
(* Of a lock that only the main thread uses, lock->locked is a function of *)
(* the system's lock, step by step through each call (PrivateInv).         *)
(***************************************************************************)
EXTENDS UVLock, TLAPS

Calls == [op : Grants \cup Returns, at : {"system", "load", "store"}, seen : Int, lock : Locks]

(* A call that got the system's lock and has not said so yet, or has said  *)
(* that it gives it back and has not done so.                              *)
Granted(c) == c.op \in Grants /\ c.at \in {"load", "store"}
Returning(c) == c.op \in Returns /\ c.at = "system"

On(c, l) == c \in Calls /\ c.lock = l

Extra(c, l) == IF On(c, l) /\ (Granted(c) \/ Returning(c)) THEN 1 ELSE 0

LockTypeInv ==
  /\ type \in [Locks -> {"none", "rwlock", "mutex", "semaphore", "gone"}]
  /\ locked \in [Locks -> Int]
  /\ writer \in [Locks -> Threads \cup {NoThread}]
  /\ readers \in [Locks -> [Threads -> Int]]
  /\ call \in [Threads -> Calls \cup {Idle}]
  /\ held \in [Locks -> [Threads -> Int]]

(* Calls are on locks that exist; a thread other than the main thread is   *)
(* only on shared locks.                                                   *)
Placed ==
  \A t \in Threads, l \in Locks :
    On(call[t], l) => type[l] \in {"rwlock", "mutex"} /\ (t = MainThread \/ l \in SharedLocks)

(* Nobody but the main thread is granted a lock that is not shared.        *)
Alone == \A l \in Locks \ SharedLocks, t \in Threads \ {MainThread} : held[l][t] = 0

(* Once the lock is gone nobody holds it.                                  *)
Unheld == \A l \in Locks, t \in Threads : type[l] = "gone" => held[l][t] = 0

Covers(l, t) ==
  /\ held[l][t] >= 0
  /\ readers[l][t] >= 0
  /\ held[l][t] + Extra(call[t], l) <= Owned(t, l)
  /\ On(call[t], l) /\ Returning(call[t]) => (writer[l] = t <=> call[t].op \notin Reading)

(* The system excludes, and it knows of all that was granted.              *)
Covered(l) ==
  /\ writer[l] # NoThread => NoReaders(l)
  /\ \A t \in Threads : Covers(l, t)

LockInv ==
  /\ LockTypeInv /\ Placed /\ Alone /\ Unheld
  /\ \A l \in SharedLocks : type[l] # "gone" => Covered(l)

-----------------------------------------------------------------------------
LEMMA CallFacts ==
  /\ Idle \notin Calls
  /\ \A c \in Calls : c.op \in Grants \cup Returns /\ c.at \in {"system", "load", "store"} /\ c.lock \in Locks
  /\ Grants \cap Returns = {}
  BY DEF Idle, Calls, Grants, Returns

(* What no step of t on l touches stays as it was.                         *)
LEMMA ElsewhereInv ==
  ASSUME LockInv, LockTypeInv', NEW t \in Threads, NEW l \in Locks,
         \A k \in Locks \ {l} : type'[k] = type[k] /\ writer'[k] = writer[k]
                                /\ readers'[k] = readers[k] /\ held'[k] = held[k],
         \A u \in Threads \ {t} : call'[u] = call[u],
         On(call[t], l) \/ call[t] = Idle, On(call'[t], l) \/ call'[t] = Idle,
         t = MainThread \/ l \in SharedLocks,
         \A u \in Threads : On(call'[u], l) => type'[l] \in {"rwlock", "mutex"},
         \A u \in Threads \ {t} : held'[l][u] = held[l][u] \/ held'[l][u] = 0,
         type'[l] = "gone" => \A u \in Threads : held'[l][u] = 0,
         l \in SharedLocks => (type'[l] # "gone" => Covered(l)')
  PROVE  LockInv'
<1>1. \A u \in Threads, k \in Locks \ {l} : On(call'[u], k) <=> On(call[u], k)
  BY CallFacts DEF On
<1>2. \A k \in Locks \ {l}, u \in Threads : Extra(call'[u], k) = Extra(call[u], k)
  <2> TAKE k \in Locks \ {l}, u \in Threads
  <2>1. CASE u = t
    <3>1. ~On(call[t], k) /\ ~On(call'[t], k)
      BY CallFacts DEF On
    <3>2. QED
      BY <2>1, <3>1 DEF Extra
  <2>2. CASE u # t
    BY <2>2
  <2>3. QED
    BY <2>1, <2>2
<1>3. Placed'
  <2> SUFFICES ASSUME NEW u \in Threads, NEW k \in Locks, On(call'[u], k)
               PROVE  type'[k] \in {"rwlock", "mutex"} /\ (u = MainThread \/ k \in SharedLocks)
    BY DEF Placed
  <2>1. CASE k # l
    BY <2>1, <1>1 DEF LockInv, Placed
  <2>2. CASE k = l
    <3>1. CASE u = t
      BY <2>2, <3>1
    <3>2. CASE u # t
      BY <2>2, <3>2 DEF LockInv, Placed
    <3>3. QED
      BY <3>1, <3>2
  <2>3. QED
    BY <2>1, <2>2
<1>4. Alone'
  BY DEF LockInv, Alone
<1>5. Unheld'
  BY DEF LockInv, Unheld
<1>6. ASSUME NEW k \in SharedLocks, type'[k] # "gone"
      PROVE  Covered(k)'
  <2>1. CASE k = l
    BY <1>6, <2>1
  <2>2. CASE k # l
    <3>1. k \in Locks
      BY LockAssumption
    <3>2. Covered(k)
      BY <1>6, <2>2, <3>1 DEF LockInv
    <3>3. \A u \in Threads : On(call'[u], k) => call'[u] = call[u]
      BY <2>2, <3>1, CallFacts DEF On
    <3>4. \A u \in Threads : Covers(k, u)'
      BY <1>1, <1>2, <2>2, <3>1, <3>2, <3>3 DEF Covered, Covers, Owned
    <3>5. QED
      BY <2>2, <3>1, <3>2, <3>4 DEF Covered, NoReaders
  <2>3. QED
    BY <2>1, <2>2
<1>7. QED
  BY <1>3, <1>4, <1>5, <1>6 DEF LockInv

(* On the lock itself, the other threads keep what they hold.              *)
LEMMA OthersCovered ==
  ASSUME LockTypeInv, LockTypeInv', NEW t \in Threads, NEW l \in Locks, Covered(l),
         \A u \in Threads \ {t} : /\ call'[u] = call[u] /\ held'[l][u] = held[l][u]
                                  /\ readers'[l][u] = readers[l][u],
         \/ writer'[l] = writer[l]
         \/ writer[l] = NoThread /\ writer'[l] = t
         \/ writer[l] = t /\ writer'[l] = NoThread,
         Covers(l, t)',
         writer'[l] # NoThread => NoReaders(l)'
  PROVE  Covered(l)'
<1>1. ASSUME NEW u \in Threads \ {t}
      PROVE  Covers(l, u)'
  <2>1. Covers(l, u) /\ u # NoThread
    BY LockAssumption DEF Covered
  <2>2. (writer'[l] = u) = (writer[l] = u)
    BY <2>1
  <2>3. Extra(call'[u], l) = Extra(call[u], l) /\ Owned(u, l)' = Owned(u, l)
    BY <2>2 DEF Owned
  <2>4. QED
    BY <2>1, <2>2, <2>3 DEF Covers
<1>2. QED
  BY <1>1 DEF Covered

-----------------------------------------------------------------------------
(* One lemma per action.  A thread enters and leaves on its lock only.     *)
May(t, l) == t = MainThread \/ l \in SharedLocks

LEMMA InitLock ==
  ASSUME LockInv, NEW t \in Threads, NEW l \in Locks, May(t, l), php_uv_lock_init(t, l)
  PROVE  LockInv'
<1>1. LockTypes \subseteq {"rwlock", "mutex", "semaphore"}
  BY LockAssumption
<1>2. PICK kind \in {"rwlock", "mutex", "semaphore"} : type' = [type EXCEPT ![l] = kind]
  BY <1>1 DEF php_uv_lock_init
<1>3. /\ type[l] = "none" /\ call[t] = Idle
      /\ <<locked, writer, readers, call, held>>' = <<locked, writer, readers, call, held>>
  BY DEF php_uv_lock_init
<1>4. LockTypeInv'
  BY <1>2, <1>3 DEF LockInv, LockTypeInv
<1>5. \A u \in Threads : ~On(call'[u], l)
  BY <1>3 DEF LockInv, Placed
<1>6. type'[l] = kind
  BY <1>2 DEF LockInv, LockTypeInv
<1>7. l \in SharedLocks => Covered(l)'
  BY <1>3 DEF LockInv, Covered, Covers, NoReaders, Owned
<1>8. \A k \in Locks \ {l} : type'[k] = type[k]
  BY <1>2 DEF LockInv, LockTypeInv
<1>9. QED
  BY <1>3, <1>4, <1>5, <1>6, <1>7, <1>8, ElsewhereInv DEF May

(* Entering a function that acquires changes nothing of the lock.          *)
LEMMA EnterLock ==
  ASSUME LockInv, NEW t \in Threads, NEW l \in Locks, May(t, l), NEW op \in Grants,
         php_uv_lock_lock(t, l, op)
  PROVE  LockInv'
<1> DEFINE c == [op |-> op, at |-> "system", seen |-> 0, lock |-> l]
<1>1. /\ c \in Calls /\ call' = [call EXCEPT ![t] = c] /\ call[t] = Idle
      /\ <<type, locked, writer, readers, held>>' = <<type, locked, writer, readers, held>>
      /\ type[l] \in {"rwlock", "mutex"}
  BY DEF php_uv_lock_lock, Enter, Calls, LockKind
<1>2. call'[t] = c /\ \A u \in Threads \ {t} : call'[u] = call[u]
  BY <1>1 DEF LockInv, LockTypeInv
<1>3. LockTypeInv'
  BY <1>1 DEF LockInv, LockTypeInv
<1>4. Extra(call[t], l) = 0 /\ Extra(call'[t], l) = 0 /\ ~Returning(call'[t]) /\ On(call'[t], l)
  BY <1>1, <1>2, CallFacts DEF Extra, On, Granted, Returning
<1>5. ASSUME l \in SharedLocks, type'[l] # "gone"
      PROVE  Covered(l)'
  <2>1. Covered(l)
    BY <1>1, <1>5 DEF LockInv
  <2>2. Covers(l, t)'
    BY <1>1, <1>4, <2>1 DEF Covered, Covers, Owned
  <2>3. QED
    BY <1>1, <1>2, <1>3, <2>1, <2>2, OthersCovered DEF LockInv, Covered, NoReaders
<1>6. QED
  BY <1>1, <1>2, <1>3, <1>4, <1>5, ElsewhereInv DEF May, LockInv, Unheld

(* A thread in a call is on the call's lock, which exists.                 *)
LEMMA InCallFacts ==
  ASSUME LockInv, NEW t \in Threads, NEW l \in Locks, NEW op, NEW at, InCall(t, l, op, at)
  PROVE  /\ call[t] \in Calls /\ On(call[t], l) /\ call[t].op = op /\ call[t].at = at
         /\ op \in Grants \cup Returns
         /\ type[l] \in {"rwlock", "mutex"}
         /\ l \in SharedLocks => Covered(l)
<1>1. call[t] \in Calls /\ On(call[t], l)
  BY DEF InCall, LockInv, LockTypeInv, On
<1>2. type[l] \in {"rwlock", "mutex"}
  BY <1>1 DEF LockInv, Placed
<1>3. QED
  BY <1>1, <1>2, CallFacts DEF InCall, LockInv

(* A step of a call that changes neither the system's lock nor what is     *)
(* granted: it fails, loads, or stores after giving back.                  *)
LEMMA QuietStep ==
  ASSUME LockInv, NEW t \in Threads, NEW l \in Locks, May(t, l),
         On(call[t], l), NEW c \in Calls \cup {Idle}, call' = [call EXCEPT ![t] = c],
         On(c, l) \/ c = Idle, locked' = locked \/ \E n \in Int : locked' = [locked EXCEPT ![l] = n],
         <<type, writer, readers, held>>' = <<type, writer, readers, held>>,
         Extra(c, l) = Extra(call[t], l),
         On(c, l) => ~Returning(c)
  PROVE  LockInv'
<1>1. type[l] \in {"rwlock", "mutex"} /\ (l \in SharedLocks => Covered(l))
  BY DEF LockInv, Placed
<1>2. call'[t] = c /\ \A u \in Threads \ {t} : call'[u] = call[u]
  BY DEF LockInv, LockTypeInv
<1>3. LockTypeInv'
  BY DEF LockInv, LockTypeInv
<1>4. ASSUME l \in SharedLocks
      PROVE  Covered(l)'
  <2>1. Covered(l)
    BY <1>1, <1>4
  <2>2. Covers(l, t)'
    BY <1>2, <2>1 DEF Covered, Covers, Owned
  <2>3. QED
    BY <1>2, <1>3, <2>1, <2>2, OthersCovered DEF LockInv, Covered, NoReaders
<1>5. QED
  BY <1>1, <1>2, <1>3, <1>4, ElsewhereInv DEF May

LEMMA FailInv ==
  ASSUME LockInv, NEW t \in Threads, NEW l \in Locks, May(t, l), NEW op \in Grants, TryFails(t, l, op)
  PROVE  LockInv'
<1>1. On(call[t], l) /\ call[t] \in Calls /\ call[t].op = op /\ call[t].at = "system"
  BY InCallFacts DEF TryFails
<1>2. Extra(Idle, l) = Extra(call[t], l) /\ ~On(Idle, l)
  BY <1>1, CallFacts DEF Extra, On, Granted, Returning
<1>3. /\ call' = [call EXCEPT ![t] = Idle] /\ locked' = locked
      /\ <<type, writer, readers, held>>' = <<type, writer, readers, held>>
  BY DEF TryFails, Return
<1>4. QED
  BY <1>1, <1>2, <1>3, QuietStep

LEMMA LoadInv ==
  ASSUME LockInv, NEW t \in Threads, NEW l \in Locks, May(t, l), NEW op, LoadLocked(t, l, op)
  PROVE  LockInv'
<1> DEFINE c == [call[t] EXCEPT !.at = "store", !.seen = locked[l]]
<1>1. On(call[t], l) /\ call[t] \in Calls /\ call[t].at = "load"
  BY InCallFacts DEF LoadLocked
<1>2. locked[l] \in Int
  BY DEF LockInv, LockTypeInv
<1>3. c \in Calls /\ c.op = call[t].op /\ c.at = "store" /\ c.lock = call[t].lock
  BY <1>1, <1>2 DEF Calls
<1>4. Extra(c, l) = Extra(call[t], l) /\ On(c, l) /\ ~Returning(c)
  BY <1>1, <1>3 DEF Extra, On, Granted, Returning
<1>5. call' = [call EXCEPT ![t] = c]
  BY DEF LoadLocked
<1>6. locked' = locked /\ <<type, writer, readers, held>>' = <<type, writer, readers, held>>
  BY DEF LoadLocked
<1> HIDE DEF c
<1>7. QED
  BY <1>1, <1>3, <1>4, <1>5, <1>6, QuietStep

LEMMA ClearInv ==
  ASSUME LockInv, NEW t \in Threads, NEW l \in Locks, May(t, l), NEW op \in Returns, ClearLocked(t, l, op)
  PROVE  LockInv'
<1>1. On(call[t], l) /\ call[t] \in Calls /\ call[t].op = op /\ call[t].at = "store"
  BY InCallFacts DEF ClearLocked
<1>2. Cleared(op, call[t].seen) \in Int
  BY <1>1 DEF Cleared, Calls
<1>3. Extra(Idle, l) = Extra(call[t], l) /\ ~On(Idle, l)
  BY <1>1, CallFacts DEF Extra, On, Granted, Returning
<1>4. /\ call' = [call EXCEPT ![t] = Idle] /\ <<type, writer, readers, held>>' = <<type, writer, readers, held>>
      /\ locked' = [locked EXCEPT ![l] = Cleared(op, call[t].seen)]
  BY DEF ClearLocked, Return
<1>5. QED
  BY <1>1, <1>2, <1>3, <1>4, QuietStep

(* The system grants: what it counts is marked as granted in the call.     *)
LEMMA GrantInv ==
  ASSUME LockInv, NEW t \in Threads, NEW l \in Locks, May(t, l), NEW op \in Grants, SystemGrants(t, l, op)
  PROVE  LockInv'
<1> DEFINE c == [call[t] EXCEPT !.at = "load"]
<1>1. /\ On(call[t], l) /\ call[t] \in Calls /\ call[t].op = op /\ call[t].at = "system"
      /\ type[l] \in {"rwlock", "mutex"} /\ (l \in SharedLocks => Covered(l))
  BY InCallFacts DEF SystemGrants
<1>2. c \in Calls /\ c.op = op /\ c.at = "load" /\ c.lock = l
  BY <1>1 DEF Calls, On
<1>3. /\ call'[t] = c /\ \A u \in Threads \ {t} : call'[u] = call[u]
      /\ <<type, locked, held>>' = <<type, locked, held>>
  BY DEF SystemGrants, Proceed, LockInv, LockTypeInv
<1>4. Extra(c, l) = 1 /\ Extra(call[t], l) = 0 /\ On(c, l) /\ ~Returning(c)
  BY <1>1, <1>2, CallFacts DEF Extra, On, Granted, Returning
<1>5. LockTypeInv'
  <2>1. call' \in [Threads -> Calls \cup {Idle}]
    BY <1>2 DEF SystemGrants, Proceed, LockInv, LockTypeInv
  <2>2. writer' \in [Locks -> Threads \cup {NoThread}]
    BY DEF SystemGrants, SystemLock, LockInv, LockTypeInv
  <2>3. readers' \in [Locks -> [Threads -> Int]]
    BY DEF SystemGrants, SystemLock, LockInv, LockTypeInv
  <2>4. QED
    BY <1>3, <2>1, <2>2, <2>3 DEF LockInv, LockTypeInv
<1>6. /\ \A k \in Locks \ {l} : writer'[k] = writer[k] /\ readers'[k] = readers[k]
      /\ \A u \in Threads \ {t} : readers'[l][u] = readers[l][u]
  BY DEF SystemGrants, SystemLock, LockInv, LockTypeInv
<1>7. ASSUME l \in SharedLocks
      PROVE  Covered(l)'
  <2>1. Covered(l) /\ Covers(l, t)
    BY <1>1, <1>7 DEF Covered
  <2>2. t # NoThread
    BY LockAssumption
  <2>3. CASE op \in Reading
    <3>1. writer' = writer /\ writer[l] = NoThread /\ readers'[l][t] = readers[l][t] + 1
      BY <2>3 DEF SystemGrants, SystemLock, Available, LockInv, LockTypeInv
    <3>2. Covers(l, t)'
      BY <1>3, <1>4, <2>1, <3>1 DEF Covers, Owned, LockInv, LockTypeInv
    <3>3. QED
      BY <1>3, <1>5, <1>6, <2>1, <3>1, <3>2, OthersCovered DEF LockInv
  <2>4. CASE op \notin Reading
    <3>1. readers' = readers /\ writer[l] = NoThread /\ writer'[l] = t /\ NoReaders(l)
      BY <2>4 DEF SystemGrants, SystemLock, Available, LockInv, LockTypeInv
    <3>2. Covers(l, t)'
      BY <1>3, <1>4, <2>1, <2>2, <3>1 DEF Covers, Owned, NoReaders, LockInv, LockTypeInv
    <3>3. NoReaders(l)'
      BY <3>1 DEF NoReaders
    <3>4. QED
      BY <1>3, <1>5, <1>6, <2>1, <3>1, <3>2, <3>3, OthersCovered DEF LockInv
  <2>5. QED
    BY <2>3, <2>4
<1>8. QED
  BY <1>1, <1>2, <1>3, <1>4, <1>5, <1>6, <1>7, ElsewhereInv DEF May

(* The call returns, and the thread has been granted the lock.             *)
LEMMA MarkInv ==
  ASSUME LockInv, NEW t \in Threads, NEW l \in Locks, May(t, l), NEW op \in Grants, MarkLocked(t, l, op)
  PROVE  LockInv'
<1>1. /\ On(call[t], l) /\ call[t] \in Calls /\ call[t].op = op /\ call[t].at = "store"
      /\ type[l] \in {"rwlock", "mutex"} /\ (l \in SharedLocks => Covered(l))
  BY InCallFacts DEF MarkLocked
<1>2. /\ call'[t] = Idle /\ \A u \in Threads \ {t} : call'[u] = call[u]
      /\ <<type, writer, readers>>' = <<type, writer, readers>>
      /\ held'[l][t] = held[l][t] + 1
      /\ \A u \in Threads \ {t} : held'[l][u] = held[l][u]
      /\ \A k \in Locks \ {l} : held'[k] = held[k]
  BY DEF MarkLocked, Return, LockInv, LockTypeInv
<1>3. Marked(op, call[t].seen) \in Int
  BY <1>1 DEF Marked, Calls
<1>4. LockTypeInv'
  BY <1>3 DEF MarkLocked, Return, LockInv, LockTypeInv
<1>5. Extra(Idle, l) = 0 /\ Extra(call[t], l) = 1 /\ ~On(Idle, l)
  BY <1>1, CallFacts DEF Extra, On, Granted
<1>6. ASSUME l \in SharedLocks
      PROVE  Covered(l)'
  <2>1. Covered(l) /\ Covers(l, t)
    BY <1>1, <1>6 DEF Covered
  <2>2. Covers(l, t)'
    BY <1>2, <1>5, <2>1 DEF Covers, Owned, LockInv, LockTypeInv
  <2>3. QED
    BY <1>2, <1>4, <2>1, <2>2, OthersCovered DEF LockInv, Covered, NoReaders
<1>7. QED
  BY <1>1, <1>2, <1>4, <1>5, <1>6, ElsewhereInv DEF May

-----------------------------------------------------------------------------
(* Giving back changes the thread's own count only.                        *)
LEMMA GiveBackFacts ==
  ASSUME LockInv, NEW t \in Threads, NEW l \in Locks, NEW op, GiveBack(t, l, op)
  PROVE  /\ held' \in [Locks -> [Threads -> Int]]
         /\ \A k \in Locks \ {l} : held'[k] = held[k]
         /\ \A u \in Threads \ {t} : held'[l][u] = held[l][u]
         /\ Holds(t, l, op) => held'[l][t] = held[l][t] - 1
         /\ ~Holds(t, l, op) => held'[l][t] = held[l][t]
  BY DEF GiveBack, LockInv, LockTypeInv

(* On a shared lock the thread gives back what the system knows it holds.  *)
LEMMA EnterUnlock ==
  ASSUME LockInv, NEW t \in Threads, NEW l \in Locks, May(t, l), NEW op \in Returns,
         php_uv_lock_unlock(t, l, op)
  PROVE  LockInv'
<1> DEFINE c == [op |-> op, at |-> "system", seen |-> 0, lock |-> l]
<1>1. /\ c \in Calls /\ call' = [call EXCEPT ![t] = c] /\ call[t] = Idle
      /\ <<type, locked, writer, readers>>' = <<type, locked, writer, readers>>
      /\ type[l] \in {"rwlock", "mutex"} /\ (l \in SharedLocks => Holds(t, l, op))
  BY DEF php_uv_lock_unlock, Enter, Calls, LockKind
<1>2. call'[t] = c /\ \A u \in Threads \ {t} : call'[u] = call[u]
  BY <1>1 DEF LockInv, LockTypeInv
<1>3. /\ held' \in [Locks -> [Threads -> Int]]
      /\ \A k \in Locks \ {l} : held'[k] = held[k]
      /\ \A u \in Threads \ {t} : held'[l][u] = held[l][u]
      /\ Holds(t, l, op) => held'[l][t] = held[l][t] - 1
  BY GiveBackFacts DEF php_uv_lock_unlock
<1>4. LockTypeInv'
  BY <1>1, <1>3 DEF LockInv, LockTypeInv
<1>5. Extra(call[t], l) = 0 /\ Extra(c, l) = 1 /\ On(c, l)
  BY <1>1, CallFacts DEF Extra, On, Returning
<1>6. ASSUME l \in SharedLocks
      PROVE  Covered(l)'
  <2>1. Covered(l) /\ Covers(l, t) /\ Holds(t, l, op)
    BY <1>1, <1>6 DEF LockInv, Covered
  <2>2. Covers(l, t)'
    BY <1>1, <1>2, <1>3, <1>5, <2>1 DEF Covers, Owned, Holds, LockInv, LockTypeInv
  <2>3. QED
    BY <1>1, <1>2, <1>3, <1>4, <2>1, <2>2, OthersCovered DEF LockInv, Covered, NoReaders
<1>7. QED
  BY <1>1, <1>2, <1>3, <1>4, <1>5, <1>6, ElsewhereInv DEF May

LEMMA IgnoredInv ==
  ASSUME LockInv, NEW t \in Threads, NEW l \in Locks, May(t, l), NEW op \in Returns,
         UnlockIgnored(t, l, op)
  PROVE  LockInv'
<1>1. /\ call[t] = Idle /\ Holds(t, l, op) /\ type[l] \in {"rwlock", "mutex"}
      /\ <<type, locked, writer, readers, call>>' = <<type, locked, writer, readers, call>>
  BY DEF UnlockIgnored, LockKind
<1>2. /\ held' \in [Locks -> [Threads -> Int]]
      /\ \A k \in Locks \ {l} : held'[k] = held[k]
      /\ \A u \in Threads \ {t} : held'[l][u] = held[l][u]
      /\ held'[l][t] = held[l][t] - 1
  BY <1>1, GiveBackFacts DEF UnlockIgnored
<1>3. LockTypeInv'
  BY <1>1, <1>2 DEF LockInv, LockTypeInv
<1>4. ASSUME l \in SharedLocks
      PROVE  Covered(l)'
  <2>1. Covered(l) /\ Covers(l, t)
    BY <1>1, <1>4 DEF LockInv, Covered
  <2>2. Covers(l, t)'
    BY <1>1, <1>2, <2>1 DEF Covers, Owned, Holds, Extra, LockInv, LockTypeInv
  <2>3. QED
    BY <1>1, <1>2, <1>3, <2>1, <2>2, OthersCovered DEF LockInv, Covered, NoReaders
<1>5. QED
  BY <1>1, <1>2, <1>3, <1>4, ElsewhereInv DEF May

(* The system releases what the call was going to give back.               *)
LEMMA ReleaseInv ==
  ASSUME LockInv, NEW t \in Threads, NEW l \in Locks, May(t, l), NEW op \in Returns,
         SystemReleases(t, l, op)
  PROVE  LockInv'
<1> DEFINE c == [call[t] EXCEPT !.at = "load"]
<1>1. /\ On(call[t], l) /\ call[t] \in Calls /\ call[t].op = op /\ call[t].at = "system"
      /\ type[l] \in {"rwlock", "mutex"} /\ (l \in SharedLocks => Covered(l))
  BY InCallFacts DEF SystemReleases
<1>2. c \in Calls /\ c.op = op /\ c.at = "load" /\ c.lock = l
  BY <1>1 DEF Calls, On
<1>3. /\ call'[t] = c /\ \A u \in Threads \ {t} : call'[u] = call[u]
      /\ <<type, locked, held>>' = <<type, locked, held>>
  BY DEF SystemReleases, Proceed, LockInv, LockTypeInv
<1>4. Extra(c, l) = 0 /\ Extra(call[t], l) = 1 /\ On(c, l) /\ ~Returning(c) /\ Returning(call[t])
  BY <1>1, <1>2, CallFacts DEF Extra, On, Granted, Returning
<1>5. LockTypeInv'
  <2>1. call' \in [Threads -> Calls \cup {Idle}]
    BY <1>2 DEF SystemReleases, Proceed, LockInv, LockTypeInv
  <2>2. writer' \in [Locks -> Threads \cup {NoThread}]
    BY DEF SystemReleases, SystemUnlock, LockInv, LockTypeInv
  <2>3. readers' \in [Locks -> [Threads -> Int]]
    <3>1. readers \in [Locks -> [Threads -> Int]]
      BY DEF LockInv, LockTypeInv
    <3>2. readers' = readers \/ readers' = [readers EXCEPT ![l][t] = @ - 1]
      BY DEF SystemReleases, SystemUnlock
    <3>3. QED
      BY <3>1, <3>2
  <2>4. QED
    BY <1>3, <2>1, <2>2, <2>3 DEF LockInv, LockTypeInv
<1>6. /\ \A k \in Locks \ {l} : writer'[k] = writer[k] /\ readers'[k] = readers[k]
      /\ \A u \in Threads \ {t} : readers'[l][u] = readers[l][u]
  BY DEF SystemReleases, SystemUnlock, LockInv, LockTypeInv
<1>7. ASSUME l \in SharedLocks
      PROVE  Covered(l)'
  <2>1. Covered(l) /\ Covers(l, t)
    BY <1>1, <1>7 DEF Covered
  <2>2. t # NoThread /\ (writer[l] = t <=> op \notin Reading)
    BY <1>1, <1>4, <2>1, LockAssumption DEF Covers
  <2>3. CASE op \in Reading
    <3>1. writer' = writer /\ writer[l] # t /\ readers'[l][t] = readers[l][t] - 1
      BY <2>2, <2>3 DEF SystemReleases, SystemUnlock, LockInv, LockTypeInv
    <3>2. readers[l][t] >= 1
      BY <1>4, <2>1, <3>1 DEF Covers, Owned, LockInv, LockTypeInv
    <3>3. writer[l] = NoThread
      BY <2>1, <3>2 DEF Covered, NoReaders
    <3>4. Covers(l, t)'
      BY <1>3, <1>4, <2>1, <3>1, <3>2 DEF Covers, Owned, LockInv, LockTypeInv
    <3>5. QED
      BY <1>3, <1>5, <1>6, <2>1, <3>1, <3>3, <3>4, OthersCovered DEF LockInv
  <2>4. CASE op \notin Reading
    <3>1. readers' = readers /\ writer[l] = t /\ writer'[l] = NoThread
      BY <2>2, <2>4 DEF SystemReleases, SystemUnlock, LockInv, LockTypeInv
    <3>2. Covers(l, t)'
      BY <1>3, <1>4, <2>1, <2>2, <3>1 DEF Covers, Owned, LockInv, LockTypeInv
    <3>3. QED
      BY <1>3, <1>5, <1>6, <2>1, <3>1, <3>2, OthersCovered DEF LockInv
  <2>5. QED
    BY <2>3, <2>4
<1>8. QED
  BY <1>1, <1>2, <1>3, <1>4, <1>5, <1>6, <1>7, ElsewhereInv DEF May

(* The destructor leaves a lock that nobody uses any more.                 *)
LEMMA DestructInv ==
  ASSUME LockInv, NEW t \in Threads, NEW l \in Locks, May(t, l), destruct_uv_lock(t, l)
  PROVE  LockInv'
<1>1. /\ call' = call /\ call[t] = Idle
      /\ type' = [type EXCEPT ![l] = "gone"] /\ locked' = [locked EXCEPT ![l] = 0]
      /\ held' = [held EXCEPT ![l] = [u \in Threads |-> 0]]
  BY DEF destruct_uv_lock
<1>2. \A u \in Threads : ~On(call[u], l)
  BY <1>1, CallFacts DEF destruct_uv_lock, On
<1>3. /\ type'[l] = "gone" /\ (\A u \in Threads : held'[l][u] = 0)
      /\ \A k \in Locks \ {l} : type'[k] = type[k] /\ held'[k] = held[k]
  BY <1>1 DEF LockInv, LockTypeInv
<1>4. ForcedUnlocks(l) \in Int
  BY DEF ForcedUnlocks, LockInv, LockTypeInv
<1>5. /\ writer' \in [Locks -> Threads \cup {NoThread}] /\ readers' \in [Locks -> [Threads -> Int]]
      /\ \A k \in Locks \ {l} : writer'[k] = writer[k] /\ readers'[k] = readers[k]
  <2>1. CASE locked[l] = 1
    BY <2>1 DEF destruct_uv_lock, LockInv, LockTypeInv
  <2>2. CASE locked[l] # 1
    BY <1>4, <2>2 DEF destruct_uv_lock, LockInv, LockTypeInv
  <2>3. QED
    BY <2>1, <2>2
<1>6. LockTypeInv'
  <2>1. type' \in [Locks -> {"none", "rwlock", "mutex", "semaphore", "gone"}] /\ locked' \in [Locks -> Int]
    BY <1>1 DEF LockInv, LockTypeInv
  <2>2. held' \in [Locks -> [Threads -> Int]]
    BY <1>1 DEF LockInv, LockTypeInv
  <2>3. QED
    BY <1>1, <1>5, <2>1, <2>2 DEF LockInv, LockTypeInv
<1>7. QED
  BY <1>1, <1>2, <1>3, <1>5, <1>6, ElsewhereInv DEF May

-----------------------------------------------------------------------------
LEMMA LockNextInv ==
  ASSUME LockInv, NEW t \in Threads, NEW l \in Locks, May(t, l), LockNext(t, l)
  PROVE  LockInv'
<1>1. CASE php_uv_lock_init(t, l)
  BY <1>1, InitLock
<1>2. ASSUME NEW op \in Grants, \/ php_uv_lock_lock(t, l, op) \/ TryFails(t, l, op)
                                \/ SystemGrants(t, l, op) \/ LoadLocked(t, l, op) \/ MarkLocked(t, l, op)
      PROVE  LockInv'
  BY <1>2, EnterLock, FailInv, GrantInv, LoadInv, MarkInv
<1>3. ASSUME NEW op \in Returns, \/ php_uv_lock_unlock(t, l, op) \/ UnlockIgnored(t, l, op)
                                 \/ SystemReleases(t, l, op) \/ LoadLocked(t, l, op) \/ ClearLocked(t, l, op)
      PROVE  LockInv'
  BY <1>3, EnterUnlock, IgnoredInv, ReleaseInv, LoadInv, ClearInv
<1>4. CASE uv_sem_post(t, l) \/ uv_sem_wait(t, l)
  <2>1. <<type, locked, writer, readers, call, held>>' = <<type, locked, writer, readers, call, held>>
    BY <1>4 DEF uv_sem_post, uv_sem_wait
  <2>2. QED
    BY <2>1 DEF LockInv, LockTypeInv, Placed, Alone, Unheld, Covered, Covers, Owned, NoReaders
<1>5. CASE destruct_uv_lock(t, l)
  BY <1>5, DestructInv
<1>6. QED
  BY <1>1, <1>2, <1>3, <1>4, <1>5 DEF LockNext

LEMMA LockInvariant == Safety => []LockInv
<1>1. Init => LockInv
  <2> SUFFICES ASSUME Init
               PROVE  LockInv
    OBVIOUS
  <2>1. LockTypeInv
    BY DEF Init, LockTypeInv
  <2>2. \A t \in Threads, l \in Locks : ~On(call[t], l)
    BY CallFacts DEF Init, On
  <2>3. \A l \in Locks, t \in Threads : held[l][t] = 0 /\ readers[l][t] = 0 /\ writer[l] = NoThread
    BY DEF Init
  <2>4. \A t \in Threads : t # NoThread
    BY LockAssumption
  <2>5. \A l \in SharedLocks : l \in Locks
    BY LockAssumption
  <2>6. QED
    BY <2>1, <2>2, <2>3, <2>4, <2>5 DEF LockInv, Placed, Alone, Unheld, Covered, Covers, Owned, Extra, NoReaders
<1>2. LockInv /\ [Next]_lockVars => LockInv'
  <2> SUFFICES ASSUME LockInv, [Next]_lockVars
               PROVE  LockInv'
    OBVIOUS
  <2>1. CASE UNCHANGED lockVars
    BY <2>1 DEF lockVars, LockInv, LockTypeInv, Placed, Alone, Unheld, Covered, Covers, Owned, NoReaders
  <2>2. CASE Next
    BY <2>2, LockNextInv, LockAssumption DEF Next, May
  <2>3. QED
    BY <2>1, <2>2
<1>3. QED
  BY <1>1, <1>2, PTL DEF Safety

(* Locks exclude, with any number of threads and locks, shared or not: the *)
(* races on lock->locked never let a second thread in.                     *)
THEOREM LocksExclude == Safety => []Exclusive
<1>1. LockInv => Exclusive
  <2> SUFFICES ASSUME LockInv, NEW l \in Locks, NEW t \in Threads, NEW u \in Threads,
                      t # u, held[l][t] > 0, writer[l] = t
               PROVE  held[l][u] = 0
    BY DEF Exclusive
  <2>1. CASE l \in SharedLocks
    <3>1. type[l] # "gone"
      BY DEF LockInv, Unheld
    <3>2. Covered(l)
      BY <2>1, <3>1 DEF LockInv
    <3>3. readers[l][u] = 0 /\ writer[l] # u
      BY <3>2, LockAssumption DEF Covered, NoReaders
    <3>4. Covers(l, u) /\ Extra(call[u], l) \in {0, 1}
      BY <3>2 DEF Covered, Extra
    <3>5. QED
      BY <3>3, <3>4 DEF Covers, Owned, LockInv, LockTypeInv
  <2>2. CASE l \notin SharedLocks
    BY <2>2 DEF LockInv, Alone
  <2>3. QED
    BY <2>1, <2>2
<1>2. QED
  BY <1>1, LockInvariant, PTL

-----------------------------------------------------------------------------
(* A lock that only the main thread uses.  lock->locked is a function of   *)
(* the system's lock, except between the two steps that change them.       *)

Own(l) == readers[l][MainThread]

Code(l, n) == IF writer[l] = MainThread THEN 1 ELSE IF n = 0 THEN 0 ELSE n + 1

Steady(l) == locked[l] = Code(l, Own(l)) /\ held[l][MainThread] = Owned(MainThread, l)

(* Asking: a reader is not the writer, a writer holds nothing.             *)
Asking(l, c) ==
  /\ Steady(l)
  /\ c.op \in {"rdlock", "tryrdlock"} => writer[l] # MainThread
  /\ c.op \in {"wrlock", "trywrlock"} => writer[l] # MainThread /\ Own(l) = 0

(* Granted, and locked as it was before.                                   *)
Marking(l, c) ==
  /\ c.op \in Reading =>
       /\ writer[l] # MainThread /\ Own(l) >= 1
       /\ locked[l] = Code(l, Own(l) - 1) /\ held[l][MainThread] = Own(l) - 1
  /\ c.op \notin Reading => writer[l] = MainThread /\ locked[l] = 0 /\ held[l][MainThread] = 0

(* About to be given back.                                                 *)
Leaving(l, c) ==
  /\ c.op \in Reading =>
       /\ writer[l] # MainThread /\ Own(l) >= 1
       /\ locked[l] = Code(l, Own(l)) /\ held[l][MainThread] = Own(l) - 1
  /\ c.op \notin Reading => writer[l] = MainThread /\ locked[l] = 1 /\ held[l][MainThread] = 0

(* Given back, and locked as it was before.                                *)
Clearing(l, c) ==
  /\ writer[l] # MainThread /\ held[l][MainThread] = Own(l)
  /\ c.op \in Reading => locked[l] = Own(l) + 2
  /\ c.op \notin Reading => Own(l) = 0

Phase(l, c) ==
  /\ c.op \in Grants /\ c.at = "system" => Asking(l, c)
  /\ c.op \in Grants /\ c.at # "system" => Marking(l, c)
  /\ c.op \in Returns /\ c.at = "system" => Leaving(l, c)
  /\ c.op \in Returns /\ c.at # "system" => Clearing(l, c)
  /\ c.at = "store" => c.seen = locked[l]

Private(l) ==
  /\ writer[l] \in {MainThread, NoThread}
  /\ \A u \in Threads \ {MainThread} : readers[l][u] = 0
  /\ Own(l) >= 0
  /\ writer[l] = MainThread => Own(l) = 0
  /\ type[l] = "gone" => writer[l] = NoThread /\ Own(l) = 0
  /\ ~On(call[MainThread], l) => Steady(l)
  /\ On(call[MainThread], l) => Phase(l, call[MainThread])

PrivateInv == \A l \in Locks \ SharedLocks : Private(l)

LEMMA MainFacts == MainThread \in Threads /\ MainThread # NoThread
  BY LockAssumption

(* What a step of t on l leaves alone.                                     *)
LEMMA StepFrame ==
  ASSUME LockInv, NEW t \in Threads, NEW l \in Locks, LockNext(t, l)
  PROVE  /\ \A k \in Locks \ {l} : /\ type'[k] = type[k] /\ locked'[k] = locked[k]
                                   /\ writer'[k] = writer[k] /\ readers'[k] = readers[k]
                                   /\ held'[k] = held[k]
         /\ \A u \in Threads \ {t} : call'[u] = call[u]
         /\ \A k \in Locks \ {l} : (~On(call[t], k) /\ ~On(call'[t], k)) \/ call'[t] = call[t]
<1> DEFINE Frame ==
      /\ \A k \in Locks \ {l} : /\ type'[k] = type[k] /\ locked'[k] = locked[k]
                                /\ writer'[k] = writer[k] /\ readers'[k] = readers[k]
                                /\ held'[k] = held[k]
      /\ \A u \in Threads \ {t} : call'[u] = call[u]
      /\ \A k \in Locks \ {l} : (~On(call[t], k) /\ ~On(call'[t], k)) \/ call'[t] = call[t]
<1>1. CASE php_uv_lock_init(t, l) \/ uv_sem_post(t, l) \/ uv_sem_wait(t, l)
  BY <1>1 DEF php_uv_lock_init, uv_sem_post, uv_sem_wait, LockInv, LockTypeInv
<1>2. ASSUME NEW op, php_uv_lock_lock(t, l, op) \/ php_uv_lock_unlock(t, l, op)
      PROVE  Frame
  <2>1. \A k \in Locks \ {l} : held'[k] = held[k]
    BY <1>2, GiveBackFacts DEF php_uv_lock_lock, php_uv_lock_unlock
  <2>2. call[t] = Idle /\ call' = [call EXCEPT ![t] = [op |-> op, at |-> "system", seen |-> 0, lock |-> l]]
        /\ <<type, locked, writer, readers>>' = <<type, locked, writer, readers>>
    BY <1>2 DEF php_uv_lock_lock, php_uv_lock_unlock, Enter
  <2>3. \A k \in Locks \ {l} : ~On(call[t], k) /\ ~On(call'[t], k)
    BY <2>2, CallFacts DEF On, LockInv, LockTypeInv
  <2>4. QED
    BY <2>1, <2>2, <2>3 DEF LockInv, LockTypeInv
<1>3. ASSUME NEW op, UnlockIgnored(t, l, op)
      PROVE  Frame
  BY <1>3, GiveBackFacts DEF UnlockIgnored
<1>4. ASSUME NEW op, \/ TryFails(t, l, op) \/ SystemGrants(t, l, op) \/ LoadLocked(t, l, op)
                     \/ MarkLocked(t, l, op) \/ SystemReleases(t, l, op) \/ ClearLocked(t, l, op)
      PROVE  Frame
  <2>1. On(call[t], l) /\ call[t].lock = l
    BY <1>4, InCallFacts DEF TryFails, SystemGrants, LoadLocked, MarkLocked, SystemReleases, ClearLocked, On
  <2>2. call'[t].lock = l \/ call'[t] = Idle
    BY <1>4, <2>1 DEF TryFails, SystemGrants, LoadLocked, MarkLocked, SystemReleases, ClearLocked,
                      Return, Proceed, LockInv, LockTypeInv, On, Calls
  <2>3. \A k \in Locks \ {l} : ~On(call[t], k) /\ ~On(call'[t], k)
    BY <2>1, <2>2, CallFacts DEF On
  <2>4. \A u \in Threads \ {t} : call'[u] = call[u]
    BY <1>4 DEF TryFails, SystemGrants, LoadLocked, MarkLocked, SystemReleases, ClearLocked,
                Return, Proceed, LockInv, LockTypeInv
  <2>5. \A k \in Locks \ {l} : /\ type'[k] = type[k] /\ locked'[k] = locked[k]
                               /\ writer'[k] = writer[k] /\ readers'[k] = readers[k]
                               /\ held'[k] = held[k]
    BY <1>4 DEF TryFails, SystemGrants, LoadLocked, MarkLocked, SystemReleases, ClearLocked,
                SystemLock, SystemUnlock, LockInv, LockTypeInv
  <2>6. QED
    BY <2>3, <2>4, <2>5
<1>5. CASE destruct_uv_lock(t, l)
  <2>1. \A k \in Locks \ {l} : writer'[k] = writer[k] /\ readers'[k] = readers[k]
    BY <1>5 DEF destruct_uv_lock, LockInv, LockTypeInv
  <2>2. QED
    BY <1>5, <2>1 DEF destruct_uv_lock, LockInv, LockTypeInv
<1>6. QED
  BY <1>1, <1>2, <1>3, <1>4, <1>5 DEF LockNext

(* So only the main thread's own lock needs a look.                        *)
LEMMA PrivateElsewhere ==
  ASSUME LockInv, PrivateInv, NEW t \in Threads, NEW l \in Locks, May(t, l), LockNext(t, l),
         l \notin SharedLocks => Private(l)'
  PROVE  PrivateInv'
<1> SUFFICES ASSUME NEW k \in Locks \ SharedLocks
             PROVE  Private(k)'
  BY DEF PrivateInv
<1>1. CASE k = l
  BY <1>1
<1>2. CASE k # l
  <2>1. /\ type'[k] = type[k] /\ locked'[k] = locked[k] /\ writer'[k] = writer[k]
        /\ readers'[k] = readers[k] /\ held'[k] = held[k]
    BY <1>2, StepFrame
  <2>2. /\ On(call'[MainThread], k) <=> On(call[MainThread], k)
        /\ On(call[MainThread], k) => call'[MainThread] = call[MainThread]
    <3>1. CASE t = MainThread
      BY <1>2, <3>1, StepFrame
    <3>2. CASE t # MainThread
      BY <3>2, StepFrame, MainFacts
    <3>3. QED
      BY <3>1, <3>2
  <2>3. Private(k)
    BY DEF PrivateInv
  <2>4. QED
    BY <2>1, <2>2, <2>3 DEF Private, Own, Code, Steady, Owned, Phase, Asking, Marking, Leaving, Clearing
<1>3. QED
  BY <1>1, <1>2

-----------------------------------------------------------------------------
(* A call of the main thread starts: nothing but held changes.             *)
LEMMA PrivateEnterLock ==
  ASSUME LockInv, NEW l \in Locks, Private(l), NEW op \in Grants, php_uv_lock_lock(MainThread, l, op)
  PROVE  Private(l)'
<1> DEFINE c == [op |-> op, at |-> "system", seen |-> 0, lock |-> l]
<1>1. /\ call[MainThread] = Idle /\ call'[MainThread] = c
      /\ <<type, locked, writer, readers, held>>' = <<type, locked, writer, readers, held>>
  BY MainFacts DEF php_uv_lock_lock, Enter, LockInv, LockTypeInv
<1>2. Steady(l)
  BY <1>1, CallFacts DEF Private, On
<1>3. c.op = op /\ c.at = "system" /\ op \notin Returns
  BY CallFacts
<1>4. op \in {"rdlock", "tryrdlock"} => writer[l] # MainThread
  BY <1>2 DEF php_uv_lock_lock, Admits, Steady, Code
<1>5. op \in {"wrlock", "trywrlock"} => writer[l] # MainThread /\ Own(l) = 0
  <2>1. op \in {"wrlock", "trywrlock"} => locked[l] = 0
    BY DEF php_uv_lock_lock, Admits
  <2>2. locked[l] = 0 => writer[l] # MainThread /\ Own(l) = 0
    <3>1. Own(l) \in Int
      BY MainFacts DEF Own, LockInv, LockTypeInv
    <3>2. QED
      BY <1>2, <3>1 DEF Steady, Code, Private
  <2>3. QED
    BY <2>1, <2>2
<1>6. Steady(l)' /\ Asking(l, c)'
  BY <1>1, <1>2, <1>3, <1>4, <1>5 DEF Asking, Steady, Code, Own, Owned
<1>7. Phase(l, call[MainThread])'
  BY <1>1, <1>3, <1>6 DEF Phase, Asking, Steady, Code, Own, Owned
<1>8. QED
  BY <1>1, <1>6, <1>7 DEF Private, Own

LEMMA PrivateEnterUnlock ==
  ASSUME LockInv, NEW l \in Locks, Private(l), NEW op \in Returns, php_uv_lock_unlock(MainThread, l, op)
  PROVE  Private(l)'
<1> DEFINE c == [op |-> op, at |-> "system", seen |-> 0, lock |-> l]
<1>1. /\ call[MainThread] = Idle /\ call'[MainThread] = c
      /\ <<type, locked, writer, readers>>' = <<type, locked, writer, readers>>
  BY MainFacts DEF php_uv_lock_unlock, Enter, LockInv, LockTypeInv
<1>2. Steady(l)
  BY <1>1, CallFacts DEF Private, On
<1>3. c.op = op /\ c.at = "system" /\ op \notin Grants
  BY CallFacts
<1>4. Own(l) \in Int /\ held[l][MainThread] \in Int
  BY MainFacts DEF Own, LockInv, LockTypeInv
<1>5. Own(l)' = Own(l)
  BY <1>1 DEF Own
<1>6. CASE op \in Reading
  <2>1. locked[l] > 1
    BY <1>6 DEF php_uv_lock_unlock, Unlocks
  <2>2. writer[l] # MainThread /\ Own(l) >= 1 /\ held[l][MainThread] = Own(l)
    BY <1>2, <1>4, <2>1 DEF Steady, Code, Owned, Own, Private
  <2>3. Holds(MainThread, l, op)
    BY <1>4, <1>6, <2>2 DEF Holds
  <2>4. held'[l][MainThread] = held[l][MainThread] - 1
    BY <2>3, GiveBackFacts, MainFacts DEF php_uv_lock_unlock
  <2>5. Leaving(l, c)'
    BY <1>1, <1>2, <1>3, <1>5, <1>6, <2>2, <2>4 DEF Leaving, Steady, Code
  <2>6. QED
    BY <1>1, <1>3, <1>5, <2>5 DEF Private, Phase, Leaving, Code, On, Calls
<1>7. CASE op \notin Reading
  <2>1. locked[l] = 1
    BY <1>7 DEF php_uv_lock_unlock, Unlocks
  <2>2. writer[l] = MainThread /\ held[l][MainThread] = 1
    BY <1>2, <1>4, <2>1 DEF Steady, Code, Owned, Own, Private
  <2>3. Holds(MainThread, l, op)
    BY <1>7, <2>2 DEF Holds
  <2>4. held'[l][MainThread] = 0
    BY <1>4, <2>2, <2>3, GiveBackFacts, MainFacts DEF php_uv_lock_unlock
  <2>5. Leaving(l, c)'
    BY <1>1, <1>3, <1>7, <2>1, <2>2, <2>4 DEF Leaving
  <2>6. QED
    BY <1>1, <1>3, <1>5, <2>5 DEF Private, Phase, Leaving, Code, On, Calls
<1>8. QED
  BY <1>6, <1>7

(* What lock->locked says of a lock of one thread is true: no unlock is    *)
(* skipped.                                                                *)
LEMMA PrivateNeverIgnored ==
  ASSUME LockInv, NEW l \in Locks, Private(l), NEW op \in Returns
  PROVE  ~UnlockIgnored(MainThread, l, op)
<1> SUFFICES ASSUME UnlockIgnored(MainThread, l, op)
             PROVE  FALSE
  OBVIOUS
<1>1. Steady(l) /\ Holds(MainThread, l, op) /\ ~Unlocks(l, op)
  BY CallFacts DEF UnlockIgnored, Private, On
<1>2. Own(l) \in Int
  BY MainFacts DEF Own, LockInv, LockTypeInv
<1>3. CASE op \in Reading
  BY <1>1, <1>2, <1>3 DEF Holds, Unlocks, Steady, Code, Owned, Own
<1>4. CASE op \notin Reading
  BY <1>1, <1>4 DEF Holds, Unlocks, Steady, Code
<1>5. QED
  BY <1>3, <1>4

-----------------------------------------------------------------------------
(* The system's step: the thread holds what lock->locked does not say yet, *)
(* or no longer holds what it still says.                                  *)
LEMMA PrivateGrant ==
  ASSUME LockInv, NEW l \in Locks, Private(l), NEW op \in Grants, SystemGrants(MainThread, l, op)
  PROVE  Private(l)'
<1> DEFINE c == [call[MainThread] EXCEPT !.at = "load"]
<1>1. /\ On(call[MainThread], l) /\ call[MainThread] \in Calls
      /\ call[MainThread].op = op /\ call[MainThread].at = "system" /\ type[l] \in {"rwlock", "mutex"}
  BY InCallFacts, MainFacts DEF SystemGrants
<1>2. call'[MainThread] = c /\ <<type, locked, held>>' = <<type, locked, held>>
  BY MainFacts DEF SystemGrants, Proceed, LockInv, LockTypeInv
<1>3. c \in Calls /\ c.op = op /\ c.at = "load" /\ On(c, l) /\ op \notin Returns
  BY <1>1, CallFacts DEF Calls, On
<1>4. Asking(l, call[MainThread]) /\ Steady(l)
  BY <1>1 DEF Private, Phase, Asking
<1>5. writer[l] = NoThread /\ writer[l] # MainThread
  BY MainFacts DEF SystemGrants, Available
<1>6. Own(l) \in Int /\ readers[l] \in [Threads -> Int]
  BY MainFacts DEF Own, LockInv, LockTypeInv
<1>7. CASE op \in Reading
  <2>1. writer' = writer /\ readers' = [readers EXCEPT ![l][MainThread] = @ + 1]
    BY <1>7 DEF SystemGrants, SystemLock
  <2>2. Own(l)' = Own(l) + 1 /\ \A u \in Threads \ {MainThread} : readers'[l][u] = readers[l][u]
    BY <2>1, MainFacts DEF Own, LockInv, LockTypeInv
  <2>3. locked[l] = Code(l, Own(l)) /\ held[l][MainThread] = Own(l) /\ Own(l) >= 0
    BY <1>4, <1>5, <1>6 DEF Steady, Owned, Own, Private
  <2>4. Marking(l, c)'
    BY <1>2, <1>3, <1>5, <1>6, <1>7, <2>1, <2>2, <2>3 DEF Marking, Code
  <2>5. Phase(l, call[MainThread])'
    BY <1>2, <1>3, <2>4 DEF Phase, Marking, Code
  <2>6. QED
    BY <1>1, <1>2, <1>3, <1>5, <1>6, <2>1, <2>2, <2>3, <2>5 DEF Private
<1>8. CASE op \notin Reading
  <2>1. readers' = readers /\ writer' = [writer EXCEPT ![l] = MainThread]
    BY <1>8 DEF SystemGrants, SystemLock
  <2>2. writer'[l] = MainThread /\ Own(l)' = Own(l)
    BY <2>1 DEF Own, LockInv, LockTypeInv
  <2>3. Own(l) = 0
    BY <1>8, MainFacts DEF SystemGrants, Available, NoReaders, Own
  <2>4. locked[l] = 0 /\ held[l][MainThread] = 0
    BY <1>4, <1>5, <2>3 DEF Steady, Code, Owned, Own
  <2>5. Marking(l, c)'
    BY <1>2, <1>3, <1>8, <2>2, <2>4 DEF Marking
  <2>6. Phase(l, call[MainThread])'
    BY <1>2, <1>3, <2>5 DEF Phase, Marking, Code
  <2>7. QED
    BY <1>1, <1>2, <1>3, <2>1, <2>2, <2>3, <2>6 DEF Private
<1>9. QED
  BY <1>7, <1>8

LEMMA PrivateRelease ==
  ASSUME LockInv, NEW l \in Locks, Private(l), NEW op \in Returns, SystemReleases(MainThread, l, op)
  PROVE  Private(l)'
<1> DEFINE c == [call[MainThread] EXCEPT !.at = "load"]
<1>1. /\ On(call[MainThread], l) /\ call[MainThread] \in Calls
      /\ call[MainThread].op = op /\ call[MainThread].at = "system" /\ type[l] \in {"rwlock", "mutex"}
  BY InCallFacts, MainFacts DEF SystemReleases
<1>2. call'[MainThread] = c /\ <<type, locked, held>>' = <<type, locked, held>>
  BY MainFacts DEF SystemReleases, Proceed, LockInv, LockTypeInv
<1>3. c \in Calls /\ c.op = op /\ c.at = "load" /\ On(c, l) /\ op \notin Grants
  BY <1>1, CallFacts DEF Calls, On
<1>4. Leaving(l, call[MainThread])
  BY <1>1 DEF Private, Phase
<1>5. Own(l) \in Int /\ readers[l] \in [Threads -> Int]
  BY MainFacts DEF Own, LockInv, LockTypeInv
<1>6. CASE op \in Reading
  <2>1. writer' = writer /\ readers' = [readers EXCEPT ![l][MainThread] = @ - 1]
    BY <1>6 DEF SystemReleases, SystemUnlock
  <2>2. Own(l)' = Own(l) - 1 /\ \A u \in Threads \ {MainThread} : readers'[l][u] = readers[l][u]
    BY <2>1, MainFacts DEF Own, LockInv, LockTypeInv
  <2>3. /\ writer[l] # MainThread /\ Own(l) >= 1
        /\ locked[l] = Own(l) + 1 /\ held[l][MainThread] = Own(l) - 1
    BY <1>1, <1>4, <1>5, <1>6 DEF Leaving, Code
  <2>4. Clearing(l, c)'
    BY <1>2, <1>3, <1>5, <1>6, <2>1, <2>2, <2>3 DEF Clearing
  <2>5. Phase(l, call[MainThread])'
    BY <1>2, <1>3, <2>4 DEF Phase, Clearing
  <2>6. QED
    BY <1>1, <1>2, <1>3, <1>5, <2>1, <2>2, <2>3, <2>5 DEF Private
<1>7. CASE op \notin Reading
  <2>1. readers' = readers /\ writer' = [writer EXCEPT ![l] = NoThread]
    BY <1>7 DEF SystemReleases, SystemUnlock
  <2>2. writer'[l] = NoThread /\ Own(l)' = Own(l)
    BY <2>1 DEF Own, LockInv, LockTypeInv
  <2>3. Own(l) = 0 /\ held[l][MainThread] = 0
    BY <1>1, <1>4, <1>7 DEF Leaving, Private
  <2>4. Clearing(l, c)'
    BY <1>2, <1>3, <1>7, <2>2, <2>3, MainFacts DEF Clearing
  <2>5. Phase(l, call[MainThread])'
    BY <1>2, <1>3, <2>4 DEF Phase, Clearing
  <2>6. QED
    BY <1>1, <1>2, <1>3, <2>1, <2>2, <2>3, <2>5, MainFacts DEF Private
<1>8. QED
  BY <1>6, <1>7

-----------------------------------------------------------------------------
(* Then lock->locked is loaded and stored: it says what is true again.     *)
LEMMA PrivateLoad ==
  ASSUME LockInv, NEW l \in Locks, Private(l), NEW op, LoadLocked(MainThread, l, op)
  PROVE  Private(l)'
<1> DEFINE c == [call[MainThread] EXCEPT !.at = "store", !.seen = locked[l]]
<1>1. /\ On(call[MainThread], l) /\ call[MainThread] \in Calls
      /\ call[MainThread].op = op /\ call[MainThread].at = "load" /\ type[l] \in {"rwlock", "mutex"}
  BY InCallFacts, MainFacts DEF LoadLocked
<1>2. /\ call'[MainThread] = c
      /\ <<type, locked, writer, readers, held>>' = <<type, locked, writer, readers, held>>
  BY MainFacts DEF LoadLocked, LockInv, LockTypeInv
<1>3. c \in Calls /\ c.op = op /\ c.at = "store" /\ c.seen = locked[l] /\ On(c, l)
  BY <1>1 DEF Calls, On, LockInv, LockTypeInv
<1>4. Phase(l, call[MainThread])
  BY <1>1 DEF Private
<1>5. Phase(l, c)
  BY <1>1, <1>3, <1>4 DEF Phase, Marking, Clearing
<1>6. Phase(l, call[MainThread])'
  BY <1>2, <1>5 DEF Phase, Asking, Steady, Marking, Leaving, Clearing, Code, Own, Owned
<1>7. QED
  BY <1>1, <1>2, <1>3, <1>6 DEF Private, Own

LEMMA PrivateMark ==
  ASSUME LockInv, NEW l \in Locks, Private(l), NEW op \in Grants, MarkLocked(MainThread, l, op)
  PROVE  Private(l)'
<1>1. /\ On(call[MainThread], l) /\ call[MainThread] \in Calls
      /\ call[MainThread].op = op /\ call[MainThread].at = "store" /\ type[l] \in {"rwlock", "mutex"}
  BY InCallFacts, MainFacts DEF MarkLocked
<1>2. /\ call'[MainThread] = Idle /\ <<type, writer, readers>>' = <<type, writer, readers>>
      /\ held'[l][MainThread] = held[l][MainThread] + 1
      /\ locked'[l] = Marked(op, call[MainThread].seen)
  BY MainFacts DEF MarkLocked, Return, LockInv, LockTypeInv
<1>3. Marking(l, call[MainThread]) /\ call[MainThread].seen = locked[l]
  BY <1>1 DEF Private, Phase
<1>4. Own(l) \in Int /\ Own(l)' = Own(l) /\ locked[l] \in Int
  BY <1>2, MainFacts DEF Own, LockInv, LockTypeInv
<1>5. Steady(l)'
  <2>1. CASE op \in Reading
    BY <1>1, <1>2, <1>3, <1>4, <2>1 DEF Marking, Code, Marked, Steady, Owned, Own
  <2>2. CASE op \notin Reading
    <3>1. writer[l] = MainThread /\ held[l][MainThread] = 0 /\ Own(l) = 0
      BY <1>1, <1>3, <2>2 DEF Marking, Private
    <3>2. QED
      BY <1>2, <1>4, <2>2, <3>1 DEF Code, Marked, Steady, Owned, Own
  <2>3. QED
    BY <2>1, <2>2
<1>6. QED
  BY <1>1, <1>2, <1>4, <1>5, CallFacts DEF Private, On

LEMMA PrivateClear ==
  ASSUME LockInv, NEW l \in Locks, Private(l), NEW op \in Returns, ClearLocked(MainThread, l, op)
  PROVE  Private(l)'
<1>1. /\ On(call[MainThread], l) /\ call[MainThread] \in Calls
      /\ call[MainThread].op = op /\ call[MainThread].at = "store" /\ type[l] \in {"rwlock", "mutex"}
  BY InCallFacts, MainFacts DEF ClearLocked
<1>2. /\ call'[MainThread] = Idle /\ <<type, writer, readers, held>>' = <<type, writer, readers, held>>
      /\ locked'[l] = Cleared(op, call[MainThread].seen)
  BY MainFacts DEF ClearLocked, Return, LockInv, LockTypeInv
<1>3. Clearing(l, call[MainThread]) /\ call[MainThread].seen = locked[l]
  BY <1>1 DEF Private, Phase
<1>4. Own(l) \in Int /\ Own(l)' = Own(l) /\ locked[l] \in Int
  BY <1>2, MainFacts DEF Own, LockInv, LockTypeInv
<1>5. Steady(l)'
  BY <1>1, <1>2, <1>3, <1>4 DEF Clearing, Code, Cleared, Steady, Owned, Own, Private
<1>6. QED
  BY <1>1, <1>2, <1>4, <1>5, CallFacts DEF Private, On

(* The destructor finds in lock->locked all that there is to unlock.       *)
LEMMA PrivateDestruct ==
  ASSUME LockInv, NEW l \in Locks, Private(l), destruct_uv_lock(MainThread, l)
  PROVE  Private(l)'
<1>1. /\ call' = call /\ call[MainThread] = Idle
      /\ locked' = [locked EXCEPT ![l] = 0] /\ held' = [held EXCEPT ![l] = [u \in Threads |-> 0]]
  BY DEF destruct_uv_lock
<1>2. Steady(l)
  BY <1>1, CallFacts DEF Private, On
<1>3. Own(l) \in Int /\ readers[l] \in [Threads -> Int] /\ locked[l] \in Int
  BY MainFacts DEF Own, LockInv, LockTypeInv
<1>4. writer'[l] = NoThread /\ Own(l)' = 0 /\ \A u \in Threads \ {MainThread} : readers'[l][u] = 0
  <2>1. CASE locked[l] = 1
    <3>1. writer' = [writer EXCEPT ![l] = NoThread] /\ readers' = readers
      BY <2>1 DEF destruct_uv_lock
    <3>2. writer[l] = MainThread
      BY <1>2, <1>3, <2>1 DEF Steady, Code, Private
    <3>3. QED
      BY <3>1, <3>2 DEF Private, Own, LockInv, LockTypeInv
  <2>2. CASE locked[l] # 1
    <3>1. writer' = writer /\ readers' = [readers EXCEPT ![l][MainThread] = @ - ForcedUnlocks(l)]
      BY <2>2 DEF destruct_uv_lock
    <3>2. writer[l] # MainThread /\ ForcedUnlocks(l) = Own(l)
      BY <1>2, <1>3, <2>2 DEF Steady, Code, Private, ForcedUnlocks
    <3>3. Own(l)' = 0
      BY <1>3, <3>1, <3>2, MainFacts DEF Own, LockInv, LockTypeInv
    <3>4. QED
      BY <3>1, <3>2, <3>3 DEF Private, LockInv, LockTypeInv
  <2>3. QED
    BY <2>1, <2>2
<1>5. locked'[l] = 0 /\ held'[l][MainThread] = 0
  BY <1>1, MainFacts DEF LockInv, LockTypeInv
<1>6. Steady(l)'
  BY <1>4, <1>5, MainFacts DEF Steady, Code, Owned, Own
<1>7. ~On(call'[MainThread], l)
  BY <1>1, CallFacts DEF On
<1>8. QED
  BY <1>4, <1>6, <1>7, MainFacts DEF Private

-----------------------------------------------------------------------------
LEMMA PrivateNext ==
  ASSUME LockInv, NEW l \in Locks, Private(l), LockNext(MainThread, l)
  PROVE  Private(l)'
<1>1. CASE php_uv_lock_init(MainThread, l)
  <2>1. type'[l] # "gone" /\ <<locked, writer, readers, call, held>>' = <<locked, writer, readers, call, held>>
    BY <1>1, LockAssumption DEF php_uv_lock_init, LockInv, LockTypeInv
  <2>2. QED
    BY <2>1 DEF Private, Own, Code, Steady, Owned, Phase, Asking, Marking, Leaving, Clearing
<1>2. ASSUME NEW op \in Grants, TryFails(MainThread, l, op)
      PROVE  Private(l)'
  <2>1. /\ On(call[MainThread], l) /\ call[MainThread].op = op /\ call[MainThread].at = "system"
        /\ type[l] \in {"rwlock", "mutex"}
    BY <1>2, InCallFacts, MainFacts DEF TryFails
  <2>2. /\ call'[MainThread] = Idle
        /\ <<type, locked, writer, readers, held>>' = <<type, locked, writer, readers, held>>
    BY <1>2, MainFacts DEF TryFails, Return, LockInv, LockTypeInv
  <2>3. Steady(l)
    BY <2>1 DEF Private, Phase, Asking
  <2>4. QED
    BY <2>2, <2>3, CallFacts DEF Private, On, Own, Code, Steady, Owned
<1>3. ASSUME NEW op \in Grants, \/ php_uv_lock_lock(MainThread, l, op) \/ SystemGrants(MainThread, l, op)
                                \/ LoadLocked(MainThread, l, op) \/ MarkLocked(MainThread, l, op)
      PROVE  Private(l)'
  BY <1>3, PrivateEnterLock, PrivateGrant, PrivateLoad, PrivateMark
<1>4. ASSUME NEW op \in Returns,
             \/ php_uv_lock_unlock(MainThread, l, op) \/ UnlockIgnored(MainThread, l, op)
             \/ SystemReleases(MainThread, l, op) \/ LoadLocked(MainThread, l, op)
             \/ ClearLocked(MainThread, l, op)
      PROVE  Private(l)'
  BY <1>4, PrivateEnterUnlock, PrivateNeverIgnored, PrivateRelease, PrivateLoad, PrivateClear
<1>5. CASE uv_sem_post(MainThread, l) \/ uv_sem_wait(MainThread, l)
  <2>1. <<type, locked, writer, readers, call, held>>' = <<type, locked, writer, readers, call, held>>
    BY <1>5 DEF uv_sem_post, uv_sem_wait
  <2>2. QED
    BY <2>1 DEF Private, Own, Code, Steady, Owned, Phase, Asking, Marking, Leaving, Clearing
<1>6. CASE destruct_uv_lock(MainThread, l)
  BY <1>6, PrivateDestruct
<1>7. QED
  BY <1>1, <1>2, <1>3, <1>4, <1>5, <1>6 DEF LockNext

LEMMA PrivateInvariant == Safety => []PrivateInv
<1>1. Init => PrivateInv
  <2> SUFFICES ASSUME Init, NEW l \in Locks \ SharedLocks
               PROVE  Private(l)
    BY DEF PrivateInv
  <2>1. ~On(call[MainThread], l) /\ writer[l] = NoThread /\ \A u \in Threads : readers[l][u] = 0
    BY CallFacts, MainFacts DEF Init, On
  <2>2. Own(l) = 0 /\ locked[l] = 0 /\ held[l][MainThread] = 0
    BY <2>1, MainFacts DEF Init, Own
  <2>3. QED
    BY <2>1, <2>2, MainFacts DEF Private, Steady, Code, Owned, Own
<1>2. LockInv /\ PrivateInv /\ [Next]_lockVars => PrivateInv'
  <2> SUFFICES ASSUME LockInv, PrivateInv, [Next]_lockVars
               PROVE  PrivateInv'
    OBVIOUS
  <2>1. CASE UNCHANGED lockVars
    BY <2>1 DEF lockVars, PrivateInv, Private, Own, Code, Steady, Owned, Phase, Asking, Marking, Leaving, Clearing
  <2>2. ASSUME NEW l \in Locks, LockNext(MainThread, l)
        PROVE  PrivateInv'
    <3>1. l \notin SharedLocks => Private(l)'
      BY <2>2, PrivateNext DEF PrivateInv
    <3>2. QED
      BY <2>2, <3>1, PrivateElsewhere, MainFacts DEF May
  <2>3. ASSUME NEW t \in Threads \ {MainThread}, NEW l \in SharedLocks, LockNext(t, l)
        PROVE  PrivateInv'
    BY <2>3, PrivateElsewhere, LockAssumption DEF May
  <2>4. QED
    BY <2>1, <2>2, <2>3 DEF Next
<1>3. QED
  BY <1>1, <1>2, LockInvariant, PTL DEF Safety

(* On a lock of one thread no unlock is ever skipped: outside the          *)
(* functions it holds of the system's lock what it was granted.            *)
THEOREM UnsharedHeldAgrees == Safety => []HeldAgrees
<1>1. LockInv /\ PrivateInv => HeldAgrees
  <2> SUFFICES ASSUME LockInv, PrivateInv, NEW l \in Locks \ SharedLocks, NEW t \in Threads, call[t] = Idle
               PROVE  held[l][t] = Owned(t, l)
    BY DEF HeldAgrees, Agrees
  <2>1. Private(l)
    BY DEF PrivateInv
  <2>2. CASE t = MainThread
    BY <2>1, <2>2, CallFacts DEF Private, Steady, On
  <2>3. CASE t # MainThread
    <3>1. held[l][t] = 0
      BY <2>3 DEF LockInv, Alone
    <3>2. readers[l][t] = 0 /\ writer[l] # t
      BY <2>1, <2>3, LockAssumption DEF Private
    <3>3. QED
      BY <3>1, <3>2 DEF Owned
  <2>4. QED
    BY <2>2, <2>3
<1>2. QED
  BY <1>1, LockInvariant, PrivateInvariant, PTL

(* The refusals of rdlock and wrlock are enough: a thread never waits for  *)
(* a read-write lock that it holds itself.                                 *)
THEOREM UnsharedNoSelfDeadlock == Safety => []NoSelfDeadlock
<1>1. LockInv /\ PrivateInv => NoSelfDeadlock
  <2> SUFFICES ASSUME LockInv, PrivateInv, NEW l \in Locks \ SharedLocks, NEW t \in Threads,
                      NEW op \in {"rdlock", "wrlock"}, InCall(t, l, op, "system")
               PROVE  \/ op = "wrlock" /\ Owned(t, l) = 0
                      \/ op = "rdlock" /\ writer[l] # t
    BY DEF NoSelfDeadlock
  <2>1. On(call[t], l) /\ call[t].op = op /\ call[t].at = "system"
    BY InCallFacts
  <2>2. t = MainThread
    BY <2>1 DEF LockInv, Placed
  <2>3. op \in Grants
    BY DEF Grants
  <2>4. Asking(l, call[t])
    BY <2>1, <2>2, <2>3 DEF PrivateInv, Private, Phase
  <2>5. QED
    BY <2>1, <2>2, <2>4 DEF Asking, Owned, Own
<1>2. QED
  BY <1>1, LockInvariant, PrivateInvariant, PTL

(* No system lock that one thread uses is destroyed while it is held.      *)
THEOREM UnsharedDestroyedUnheld == Safety => []DestroyedUnheld
<1>1. PrivateInv => DestroyedUnheld
  BY DEF PrivateInv, Private, DestroyedUnheld, NoReaders, Own
<1>2. QED
  BY <1>1, PrivateInvariant, PTL
=============================================================================
