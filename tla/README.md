# Verification of ext-uv

TLA+ models of the PHP extension UV (`src/php_uv.c`), their TLC
configurations, and TLAPS proofs. Line numbers refer to `php_uv.c` unless
another file is named.

The extension puts libuv's handles inside PHP objects. Two systems then own the
same memory: Zend counts references to the object, destroys it at zero and runs
every destructor when the script ends; libuv keeps the address of the embedded
handle from its start to its close callback, and of a request until its answer.
The extension has to add and drop references so that neither side touches
freed memory and nothing is kept for ever. It does so by hand, in about a hundred
places, and most decisions hang on what libuv says *at that moment* of the
handle (`uv_is_active`, `uv_is_closing`). That bookkeeping, the loops that run
it, and the locks are the core of the program and the subject of this project.

## 1. Inventory

| Component | State | Operations | Hard behaviours |
|---|---|---|---|
| Handle life cycle (145-184 of `php_uv.h`, 301-402, 1500-1547, 2560-2600) | reference count, DTORED flag, libuv's active/closing, close callback | `PHP_UV_INIT_UV`, `uv_close`, `php_uv_close`, `php_uv_close_cb`, `destruct_uv`, `clean_uv_handle` | destruction begun by the last variable while libuv owns the handle; a close asked for twice; resurrection in the close callback |
| Watchers: idle, prepare, check, signal | activity | init, start, stop, callback | start, stop and close from inside the callback |
| Timers | activity, repeat | init, start, stop, again, set_repeat, callback | the callback's reference depends on the repeat before the script may change it |
| Polls: UVPoll, UVFsPoll | activity | init, start, stop, callback | restart while active, start for no event, errors that stop the poll |
| Streams: tcp, pipe, tty | listening, reading, connected, shut down, requests in flight | listen, accept, connect, read start/stop, write, shutdown, write2 | many activities, one `uv_is_active`; answers after close |
| Datagram sockets | receiving, sends in flight | recv start/stop, send | a socket is active while it sends; answers on a closing socket |
| Async, fs event, process | pending wake-up, child | init, send, spawn, kill | classes active without a start; nobody holds a reference |
| Requests: `uv_fs_*`, getaddrinfo, queue_work, cancel | callback slots, stream references, pool job | submit, cancel, answer | worker threads; the script ends with a request pending |
| Locks: rwlock, mutex, semaphore | `lock->locked`, the system's lock | init, lock, trylock, unlock, destructor | two words for one fact, one of them unprotected |
| Loops (1479-1498, 3224-3243, 4016-4170) | stop flag, handles, pending requests | new, default, run, stop, delete, destructor, RSHUTDOWN | a destructor that runs callbacks; exceptions that stop the loop |
| Callback slots (720-800, 1500-1530) | one closure per slot of an object | `php_uv_cb_init`, clean | shared slots, wrong object released |
| Garbage collection (2953-3040) | what an object reports | `get_gc` | stale words in the reported table |
| Work functions in threads (1670-1960) | interpreter of a worker | `php_uv_do_callback3` | memory shared with the main thread |
| stdio containers | flags and one reference | `uv_stdio_new`, read by `uv_spawn` | uninitialised argument, flags that spawn refuses |
| Addresses, system information, registration | none beyond a value | conversions, system calls | - |

How they interact: script code calls the `uv_*` functions; they change libuv's
handle and the object's count. `uv_run` calls C callbacks, each of which copies the
object into the arguments of the PHP callback, calls it
(`php_uv_do_callback2`, 1600-1648), and in its epilogue drops what it holds.
Zend's destructors call `php_uv_close`, which calls `uv_close`, whose completion
comes from a later iteration of the loop. A loop's destructor closes every handle
on it and runs the loop. An exception of a callback stops the loop it came from.
Requests run in threads of libuv's pool and are answered by the loop.

What makes each component correct:

* *handles of every class*: the count is exactly the number of owners; freed
  memory has no owner; one close per handle, always reported; what nobody owns is released;
* *watchers, timers, polls*: what is started is not torn down because a variable went;
* *streams, sockets*: a request in flight keeps its object; the requests of a
  closing object are answered before its close is;
* *async, process*: a wake-up and an exit reach the script;
* *requests*: a worker never works on a closed stream; the object and its slots live until the answer;
* *locks*: `locked` agrees with the system's lock; exclusion; no self-deadlock; no lock is destroyed held;
* *callbacks*: an answer calls the function it was asked with; what runs, or waits in a slot, is not freed;
* *garbage collection*: what is reported is counted, what is needed is kept, what nobody needs is found;
* *loops*: a loop is freed empty; destructors end; `uv_stop` ends `uv_run`;
  every close is reported when the script has ended.

The full list of hazards, each at its line, with the properties that watch it
or the reason why none does, is in `PROJECT.json`.

## 2. Modules

```
HandleLifetime (abstract: owner sets, no counts)
      ^ refines
UVHandle --- UVWatcher, UVTimer, UVPoll, UVStream, UVUdp, UVDevice   (EXTENDS)
             UVProgram = UVWatcher + UVTimer + UVPoll in one program  (EXTENDS)
             UVEvents  = UVUdp + UVDevice in one program              (EXTENDS)
   ^ proofs:  UVHandle_proofs (what the C functions do to a record)
              UVProgram_proofs (watchers, timers, polls and all together),
              UVStream_proofs, UVEvents_proofs
UVCallback --- UVGc                                                  (EXTENDS)
UVRequest      UVLock      UVLoop                                    (on their own)
   ^ proofs:  UVCallback_proofs (UVCallback and UVGc), UVRequest_proofs,
              UVLock_proofs, UVLoop_proofs
MC<name>.tla + MC<name>*.cfg instantiate each for TLC
```

**UVHandle** is the object and everything the classes share. One record per object:

| field | code |
|---|---|
| `ce` | the class entry |
| `life`, `rc`, `dtored` | allocated or freed, `GC_REFCOUNT`, `IS_OBJ_DESTRUCTOR_CALLED` |
| `phase`, `active` | `uv_is_closing` and the completed close, `uv_is_active`; `aborted` stands for the assertion of `php_uv_close` |
| `notify` | whether `callback[PHP_UV_CLOSE_CB]` is set |

`vars[h]` counts the script's variables, `reqs[h]` the requests that own a
reference, `frame` is the C callback whose PHP callback is running, and the
ghost `lost[h]` counts references that the code took and nobody will drop. The
C functions (`php_uv_close`, `OBJ_RELEASE`, `destruct_uv`, ...) are operators
from record to record; an operation of a class composes them in the order of the
code. The script acts between callbacks and inside them: a callback is two
actions, the call (`CallPHP`) and the epilogue (`ReturnFromCallback`), with any
number of script actions between. `HandleInv` is the conjunction of the type
invariant, `WellFormed` (which field values go together) and `WellCounted` (`rc`
is the number of `Holders`).

**HandleLifetime** says the same without counts: an object has a stage and a *set* of owners
(script, call, loop, request, close, lost); the last owner that lets go of an open
object closes it, of a closed one frees it. An object is created for the script alone (`Create`), or libuv uses it from the
start, or its start failed and it is closed without ever having had an owner (`Spawn`, both as `uv_spawn` does). `uv_close` may forget
references of the loop or of requests, which are owned by nobody from then on (`lost`). The refinement mappings are `StageOf` and
`OwnersOf` in `UVHandle`, for the watchers, timers, polls and streams, and `StageOf` and `EventOwners` in `UVEvents`,
where a receive and a child to be reported are the loop's and each datagram in flight is a request's.

**UVWatcher**, **UVTimer** (adds `repeat`), **UVPoll**, **UVStream** (adds `conn`,
`shut`, `waiting`; `uv_write2` is a write that names a second handle, to which nothing holds a reference), **UVUdp** (adds `sends`, `receiving`), **UVDevice** (adds
`sent`, `child`): one action per PHP function and one per libuv callback.
Where a function's guard in C is an early return with a notice, the call changes nothing
and is a stutter.

**UVProgram** composes watchers, timers and polls: any handle of any of these classes,
on one loop with one thread, so that the callback of a timer may close a poll, and so on. What is said of handles
of every class is checked there. **UVEvents** does the same for sockets, async
handles, directory watches and processes.

**UVCallback** looks inside the slots. `thing` are the script's functions and the
objects they are bound to, with their counts; `uv[h].slot` is `callback[]`, with
one slot for each way the extension uses one: replaced by every start (`poll`), shared by all requests
of a socket (`send`), used once (`close`), two of a work function; `write` are callbacks of
their own (`php_uv_cb_init_dynamic`). `asked` (ghost) remembers what each send in flight was made with,
`drift` (ghost) how far the count of an object is off because of `php_uv_cb_init` and
`php_uv_do_callback3`, `short` the objects whose count ever was too low. Zend's own part (a closure is
held while it runs, an array is not; zero frees at once) is marked external.

**UVGc** extends it with the Zend objects of polls and loops, properties and captured variables, and what
`get_gc` reports. `gc_collect_cycles` is Zend's collector by its result: what is counted by
reports only, and is not reached from anything counted otherwise, is garbage; its destructors run. `gc_data` is the word that
`php_uv_get_gc` does not always write, and `Unwritten` what memory held before it was written.

**UVRequest** has its own object record because the script never holds a request:
`uv[r]` with its slots and flags, `job[r]` (queued, running, done, cancelled, answered), `refs[f]`
the counts of the PHP streams; `lent[r]` (ghost) the streams whose descriptors libuv works on, `closed[f]` whether `uv_fs_close` has closed
one. `ScriptEnd` is Zend calling every destructor.

**UVLock** splits every call at the reads and writes of `lock->locked` and at the
blocking call of the system, so that two threads interleave as they can in a build with
thread safety. `held` (ghost) is what each thread was granted. A lock is used only with the functions of its own
kind, which the code does not check (it never looks at `lock->type` there): libuv leaves the rest undefined.

**UVLoop** models loops, the stack of nested `uv_run` calls (of different loops), the phases
of an iteration, close callbacks, requests, the stop flag, exceptions, the destructor
(`DestroyLoop` and the two runs it makes) and `RSHUTDOWN`. The ghost `cut` marks a loop whose destructor's run an exception ended early.

## 3. What the runs check

Passing runs:

| run | instance | properties | states |
|---|---|---|---|
| `program` | 2 handles, each a watcher of any class, a timer or a poll | `RefCountExact` `FreedIsUnreachable` `ProgramInv` `ActiveIsKept` `RepeatingSurvives` `CloseNotified` `FireAndForget` `DeadPollReclaimed` `ImplementsLifetime` | 65 637 |
| `streams` | 2 tcp streams, one request of each kind each | `StreamInv` `KeepsLifetime` | 348 750 (up to symmetry) |
| `streams_faults` | 1 stream of any class; reads that fail or find nothing, stops of listeners | `ListenerActive` `ClosedOnce` | 15 915 |
| `events` | 2 objects: sockets with 2 sends, which the script may let go of, async handles, watches, processes | `EventInv` `SendsKeepSocket` `EventsKeepLifetime` `ClosingDrains` `ProcessIsKept` `WakeUpDelivered` `ExitReported` | 39 449 |
| `requests` | 2 requests of any operation, 2 PHP streams, 1 worker; the script may end, but not while a lookup or a work function is pending | `RequestInv` `FileOpenWhileUsed` `PendingIsLive` `SlotsAllocated` `Answered` | 22 393 |
| `locks` | 2 threads, a lock they share and one of the main thread's own | `Exclusive` `HeldAgrees` `NoSelfDeadlock` `DestroyedUnheld` | 320 901 |
| `loops` | 2 loops, a handle that may be slow to close, a request; callbacks may throw | `LoopInv` `DestructionEnds` `StopEndsRun` `ClosesComplete` | 68 833 |
| `callbacks` | a closure, a method, 2 objects, 1 UV object of any class, 2 sends, 1 write | `CallbackInv` `NoneFreedEarly` `AnsweredAsAsked` `RunsAlive` | 534 344 (up to symmetry) |
| `gc` | a poll, 2 loops, 2 closures, an object | `GcInv` `CollectorComplete` `CollectorSound` | 503 476 (up to symmetry) |

What they show:

* `program`: in every overlap of start, stop, restart, close, drop and callback the count of an object is
  the number of its owners (so nothing is freed early, nothing leaks but what the ghost `lost` counts); dropping
  variables never closes what is started; a repeating timer survives every callback and a
  one-shot timer nobody holds fires and is released; a poll that died of an error is released; a close is
  reported; all of it implements the owner sets of `HandleLifetime`, including that closes complete.
* `streams`: the same for a server and its clients, with requests in flight as owners.
* `streams_faults`: when counts go wrong through the two behaviours described below, a listener still
  listens until it is closed, and no stream is closed twice. Both are theorems for any number of streams and every environment.
* `events`: who owns which reference while sends and receives overlap, and for the classes that are active without a
  start; a datagram in flight keeps its socket, also when the script drops the last variable of it, and is answered before the close is;
  a process keeps its object until its exit is reported; wake-ups and exits arrive. All of it implements the owner sets of
  `HandleLifetime`, but for one step that `FreedByLastSend` names: a socket that was let go of while it sent is freed
  before its close completes, by the epilogue of its last send (`udp_abandoned_sender`). No datagram is in flight then, and the count is exact.
* `requests`: each reference to a stream is accounted for, those that the code forgets included (`lost`; 436 takes one that 1168 takes again,
  and 2291 overwrites one). They turn out to be what keeps PHP from closing a stream under a worker when the script ends, and from closing
  again a descriptor that `uv_fs_close` has closed; only the output of `uv_fs_sendfile` has none and may be closed under the worker then.
  An object is in memory until its answer, which comes even if the script ends first; the slots of its callbacks are allocated when they are read.
* `locks`: races on `locked` do not break exclusion; without sharing, `locked` tells the truth, the
  refusals prevent self-deadlock on a read-write lock, and the destructor unlocks what it destroys.
  (`uv_mutex_lock` refuses nothing: a thread that locks a mutex twice waits for itself, as the system's mutex has it.)
* `loops`: a loop's destructor ends and leaves the loop empty, unless a callback throws in the run the destructor makes
  (`cut`): then handles are closed but a request, and the close of a handle that takes libuv several iterations, may be left; `uv_stop` ends the run; the end of the script completes
  every close on a loop that was not cut.
* `callbacks`: the count of every function and object is the number of its owners, but for two things the code gets wrong and
  the model measures: replacing a slot releases the new callback's object in place of the old one's (785), and a worker forgets the object of
  its function (1841). Nothing else is freed early; a send is answered by the function it was made with unless a later send
  overtook it (they share a slot, 2866); a write always is; a closure that puts another into its own slot
  while it runs survives until it returns.
* `gc`: functions, objects, handles and loops are counted for exactly what owns them, whatever the destructors of the garbage do
  (`GcInv`); what is reported is counted, also after the collector has read a second word left by an earlier callback (2966);
  nothing needed is destroyed; cycles of a script object, its poll and the poll's callback are found once nobody
  needs them. Exempt are the first report of a callback without object, whose second word was never written (2972);
  objects whose count is off; and objects that are `Uncovered` (see below). `GcInv` does not contain `FrameHolds`:
  it is false when there is a second loop. The run has no methods (`[$o, 'm']`); the theorems have them.

Violation runs: each shows a place where the code does not do what its comment
says. The finding in `PROJECT.json` quotes the comment.

| run | property | what happens |
|---|---|---|
| `udp_abandoned_sender` | `FreedIsUnreachable` | the end of a send callback destroys a socket libuv still counts active: freed before its close completes (2041) |
| `requests_freed_slots` | `SlotsAllocated` | the script ends with a work function pending: its callback reads a freed slot (2250) |
| `locks_race` | `UnlockUnlocks` | `locked` is cleared after the mutex was released (931): the next owner cannot unlock |

Other behaviours of the code that the models contain, and that a switch keeps out of the passing runs:

| switch | behaviour |
|---|---|
| `ReadResults` with `again`, `error` | the read callback assumes that libuv stops reading at every `nread <= 0` (2104); it does not on EAGAIN and, during the callback, on an error: `RefCountExact` fails |
| `StopsListeners` | `uv_read_stop` on a listener drops the listen's reference (4411): `FreedIsUnreachable` fails |
| `AbandonsSenders` | the run `udp_abandoned_sender`; the run `events` has it on |
| `StopsSenders` | `uv_udp_recv_stop` on a socket that only sends drops the reference of a send (4918): `EventInv` fails |
| `AbandonsWork` | the script ends with a lookup or a work function pending: the run `requests_freed_slots`. What the code does after its use of freed memory is undefined; with the switch the models go on as if it were harmless, so the theorems that hold for either value of it mean little after that step |
| `SharedLocks` | the run `locks_race` |

Two more are visible without a switch: a socket closed with two activities keeps a reference for good (2041; the ghost
`lost` counts it), and a wake-up on its way does not keep its async handle from being closed with its last
variable (2585; `WakeUpDelivered` allows for the close).

Two cases need two handles and are therefore not in the run `gc`, where `Uncovered` is never true. Both begin with a
slot that is given a plain function in place of a method of `o`: the count of `o` is then one too high (785), which happens
to make up for the stale word in the next report, and for the `$this` of the method if it is running, to which no reference
is held. If now the slot of another handle goes from a plain function to a method of `o`, the count is exact again
and the excuse is gone:

* the collector may take for garbage what only `o`, still in use, leads to, or may keep what nobody needs because a report
  still names `o`: `CollectorSound` and `CollectorComplete` exempt exactly these objects;
* if the second handle's loop is run inside the method and reports its close there, the last reference to `o` goes
  while the method runs on it. In `UVCallback`, where loops do not nest, this cannot happen and `RunsAlive` is a theorem.

TLC found both from a state in which two started handles on two loops hold a method and a function.

Each property of a passing run has a mutant in `PROJECT.json`, a change of a modelled function of
the kind a programmer would make (a reference taken twice, a dropped guard, a
missing reset) which the run detects. The mutated operators stand in the modules
beside what they change and are used by nothing else.

### Bounds, and why they are enough

* `Handles` = 2 where objects meet: the callback frame is the only thing
  classes share, and listener and client are the only pair (accept). Everything
  else about an object depends on that object alone.
* `MaxVars` = 1 or 2: the code compares a count to zero only; two variables give
  "last", "not the last" and both orders.
* `MaxReqs` = 1 or 2 per kind (2 for sends, which share one count): the count matters as none, one, several.
* In `events`, `MaxLost` = 1 leaves out a socket closed while it receives and has two sends outstanding, which loses two references; one
  of each is reached.
* `MaxSends` = 2: one send overtakes another. `MaxDrift` = 1: a count one too low frees, one too high keeps; more is the same again.
  One UV object in `callbacks`: slots of different objects meet only in what they refer to, which two slots of one object do too,
  and the theorems about it hold for any number. One poll in `gc`: what a second one adds is described above.
* `Loops` = 2 in `gc`: the default loop, which the extension holds, and one that only the script and the collector know.
* `MaxLost` = 1 or 2 caps the leak ghost; an action that would exceed it is not taken,
  and the proofs hold for every value.
* `MaxHeld` = 2, `MaxLocked` = 3: `locked` distinguishes 0, 1, 2 and more; two read locks pass every boundary.
* `Workers` = 1 makes one request queue behind the other, so that the destructor meets a queued and a running one.
* One PHP callback runs at a time in the handle models. A nested `uv_run` of another loop is
  what `UVLoop` is for.

Deadlock is not checked in any run, because a program may stop calling functions, and each model
has states in which everything is closed; the liveness runs check what must
still happen.

### Fairness

The script is never obliged to do anything but return from its callbacks: it is
assumed to run `uv_run` and to end its callbacks (`WF(ReturnFromCallback)`),
as a program that wants its callbacks called must. libuv's promises are fairness on its
callbacks: a pending close completes, an expired timer fires, requests are
answered. They are strong where other callbacks and script actions may disable a
step again and again (only one callback runs at a time) and libuv's loop, which serves
every queue in every iteration, cannot pass it over for ever:
`SF(php_uv_close_cb)`, `SF(php_uv_timer_cb)`, `SF` of the answers of
sockets, of the async and process callbacks, of `WorkerStarts` (a
first-in first-out queue). A worker that runs ends (`WF(WorkerEnds)`): a work
function that never returns blocks the pool in reality too. In `UVLoop`, the steps of an iteration
are weakly fair, the closing phase that serves its whole queue and the answer
of requests strongly fair, and the end of a script runs its destructors.

## 4. What is proved

TLAPS proves these for any set of objects, any number of variables and requests:

| theorem | states |
|---|---|
| `WatcherInv`, `TimerInv`, `PollInv` | `[]HandleInv` for programs of one class |
| `WatcherTyped` | `[]HandleTypeOK` |
| `ProgramInvariant` | `[]ProgramInv`: all these classes in one program |
| `{Watcher,Timer,Poll,Program,Stream,Event}RefCountExact` | the count is the number of owners |
| `{Watcher,Timer,Poll,Program,Stream,Event}FreedIsUnreachable` | freed memory has no owner |
| `WatcherClosedOnce` | `uv_close` is never called twice on a handle |
| `ProgramActiveIsKept`, `ProgramRepeatingSurvives` | dropping variables closes nothing that is started; a repeating timer survives every callback |
| `ProgramKeepsLifetime`, `StreamKeepsLifetime`, `EventsImplementLifetime` | every step is a step of `HandleLifetime` or changes nothing there: the safety part of the refinement; for events, or it is `FreedByLastSend` |
| `StreamInvariant`, `StreamRequestsKeepStream` | the streams' invariant; a request keeps its stream |
| `StreamOrderInvariant`, `StreamListenerActive`, `StreamClosedOnce` | in every environment: the order of a stream's life; a listener stays active until its close; no stream is closed twice |
| `EventInvariant`, `EventSendsKeepSocket`, `EventProcessIsKept` | the invariant of sockets and devices in one program; a datagram in flight keeps its socket, though the script lets go of it; nothing but `uv_close` takes a running child's object |
| `RequestInvariant`, `RequestPendingIsLive`, `RequestAnsweredIsReleased` | the invariant of requests; an object is in memory until its answer, and goes with it |
| `RequestSlotsAllocated` | no callback of a request reads a freed slot, if the script does not end while a lookup or a work function is pending |
| `RequestFileOpenWhileUsed`, `RequestDescriptorClosedOnce` | no worker's stream is closed under it; no descriptor is closed again |
| `LocksExclude` | locks exclude, for any number of threads, races on `locked` included |
| `UnsharedHeldAgrees`, `UnsharedNoSelfDeadlock`, `UnsharedDestroyedUnheld` | on a lock of one thread: no unlock is skipped, no self-deadlock, none is destroyed held |
| `LoopInvariant`, `LoopFreedIsEmpty`, `LoopDrainsUntilException` | the invariant of nested runs and destructors; a loop is freed empty; only an exception ends its last run early |
| `CallbackInvariant`, `CallbackNoneFreedEarly`, `CallbackRunsAlive` | the invariant of the slots; nothing owned, and nothing that runs, is freed but what 785 miscounts |
| `CallbackAnsweredAsAsked` | a write calls what it was made with; a send too unless it was overtaken |
| `GcInvariant` | the invariant of functions, objects, handles and loops under the collector and the destructors it runs |
| `GcCollectorSound` | the collector destroys nothing needed, unless it reads a word nobody wrote or an object is `Uncovered` |
| `GcCollectorComplete` | what nobody needs is found by the next run, if no count is off, no report stale and no close pending |

Assumptions: those of the modules on their constants (`HandleAssumption`, ...); for
streams `CleanEnvironment`: reads end only with the end of the file, and `uv_read_stop` is not called on a
listener; for sockets that the script does not stop receiving on one that only sends. Without them
the counts are wrong, as the switches above show. `EventFreedIsUnreachable` needs
besides that the script keeps a socket while it sends, and `RequestSlotsAllocated` that it does not end while a lookup or a work function is pending. `StreamOrderInvariant` and the two theorems that follow from it
need neither, and those about callback slots and the collector no assumption but that on the constants.

**Handles.** `RefCountExact` alone is not inductive: to know that the destructor
runs when the last owner lets go, and that it closes rather than frees, one needs
that an open object is not yet DTORED, that an active one is open, that a closing
one holds the reference of its close, that a freed one is closed. `WellFormed`
is that list, `WellCounted` the count, `HandleInv` both for every object. The
proof has two layers. `UVHandle_proofs` proves, for a *record*, what each C function does:
adding a reference with an owner, releasing one that has an owner, closing,
destroying; in each case the result is well formed and well counted for the new
number of holders. Then each shared action, and in the class modules each class action, is
one lemma that cites those, and the theorem combines them with PTL. Objects other than the
one an action works on are unchanged, which is one lemma. `ProgramInv` adds that only objects of a class with a
reference for its activity exist, which is what lets the actions of the three classes run through each other's callbacks.
`StreamInv` adds the shapes of a stream
(what listening, reading and connecting imply of `active`) and that only open or closing
streams have requests. `EventShape` says per phase what a socket or device owns: libuv's `active` of a socket is
a consequence of its receiving and its sends, and the count one of the phase, the sends, the receive, the callback that runs and `lost`. It admits the socket that was freed while its close is pending (`EventFreed`):
no datagram of it is in flight, and nothing but libuv's close names it, so that the count stays exact when sockets are abandoned.

**Streams in every environment.** When a read fails without libuv stopping, or a listener is stopped, counts are wrong and `HandleInv` is lost. What
is left is the order of the calls: a destructor that is not marked as run has not closed, a close sets the mark first, and
what `uv_close` is asked of must be unmarked. `StreamOrder` says this of a record, whatever its count, with what a listener needs (only its
close makes it inactive) and what a failed read leaves behind: its stream is broken, so that the stop after its callback hits no listener.

**The refinement.** The mapping (`StageOf`, `OwnersOf`) reads the stage and the owners of an object from its record and from the variables, requests
and the frame, and ignores the count. That the owner set is empty exactly when the count
is zero is what the invariant gives; with it each kind of change of a record (a reference more, one less, a close, a completed close, the memory given
back) is a step of `HandleLifetime` or leaves its state alone, and each action is one of these kinds.
For sockets and devices the owners are not what is counted (a send on a closing socket owns the object with no
reference of its own; a wake-up owns nothing), so the argument goes by the stage: it changes only by `uv_close`, by libuv's report of the close, and where a
release drops the last reference, and there `OnlyHeld` shows from the count that nothing but the variable or the callback that lets go was left as an owner.
`LastSendLife` does the same for the epilogue of a send, where libuv's `active` decides between a close and `FreedByLastSend`.
In a step that leaves the stage alone, the invariant before and after says that there is an owner.

**Requests.** `LifeOf` ties the object to the stage of its job: one reference and not DTORED while the job
is queued, one or (when the destructor of the ending script was refused the cancellation, EBUSY) two while it runs,
none once it is answered unless the script has ended. That is what makes the release in the answer the last one.
`LentOf` ties what a worker works on to what the request stores, or has lost for good; `FileRefsExact` counts for each PHP stream the
places that store it, a cardinality, so that one lemma says what changing one place does to it. The two together show that the references
the code forgets are the ones that keep a stream open under a worker.

**Loops.** What a destructor leaves behind is decided in its second run, so `Drains` follows that run: no open handle on its loop from
the start, only an exception stops it, and after its first closing phase nothing but slow handles is left to report. `RunsNest` is
needed to know that nothing else runs that loop meanwhile: the calls of `uv_run` are on different loops, each inside a callback of the
one below. `Drained` carries the result from the end of the run to the free. The proof treats the stack by
what a step does to it (changes the top, pushes, pops), three lemmas that every action cites.

**Callback slots.** `CountsExact` says that every count is a sum of cardinalities (the closures bound to it, the slots, the writes) and
of what a frame holds, plus `drift`. Each way of changing a slot, a write, or what is bound has one lemma about its cardinality;
an action then needs only that both sides change by the same number. `FrameHolds` is what `RunsAlive` rests on: as long as its count was never
too low, the object a callback runs on is held by the write's own callback, by a slot, or by a count that is too high because a slot
forgot it. The proof attempt showed that it must include the last case, and that a close may not be reported while a callback
of the same loop runs. It is kept apart from the rest, `CountInv`: a callback may run another loop, and a close that is reported there
breaks it, so that only `CountInv` is left to the collector.

**Garbage collection.** `GcInv` adds to `CountInv` the counts of handles and loops (`NodesCounted`): named, the default loop, properties and captured
variables, active (reported by the loop), closing, running. An action changes one of these for one object, for all that a function captures, or for
all handles of a loop (`destruct_uv_loop`). Soundness: an object counted for more than is reported of it is external, so what is named, the default loop, what runs and what is
closing is external or was destroyed before. Only an object may be reported by a handle whose second word is stale, and `drift`, unless it is `Uncovered`,
makes up for that. Let `C` be what the collector reaches from outside, what is dead or being destroyed, and the array of a method that runs: `C` has every root in it and
is closed under `Leads`, so all that is needed is in `C`, and no garbage is. Completeness is the converse: if no count is off, every owner of something that is not needed is one that
reports it, and is itself not needed, so its count is no more than what is reported. `Reach` is the least closed set, not a recursive function, which is what
makes both provable here: to show that it stays in a set one only has to show that the set is closed.

**Locks.** Exclusion follows from the system's lock, so `LockInv` says that it knows of all that was granted: what a
thread was granted and has not given back, and what a call between the system's step and `locked` will add, is
at most what it holds of the system's lock. `locked` does not occur in it, which is why races on `locked` cannot break
exclusion. The model assumes of threads that share a lock that they give back what they hold, and nothing else.
The other three need the opposite: `PrivateInv` says what `locked` is in each of the phases of a call (asking,
granted but not marked, leaving, given back but not cleared), for a lock that only the main thread uses. On a shared lock they are
false, as the run `locks_race` shows for the first.

Only model-checked: the liveness properties (`CloseNotified`, `FireAndForget`, `DeadPollReclaimed`, `ClosingDrains`, `WakeUpDelivered`,
`ExitReported`, `Answered`, `DestructionEnds`, `StopEndsRun`, `ClosesComplete`, and the fairness of `HandleLifetime` in
`ImplementsLifetime`), since liveness under fairness is beyond the prover. Every safety property of a passing run is a theorem.

## 5. What is not modelled, and why

* The interpreters that worker threads start and shut down (`php_request_startup`, `ts_free_thread`): PHP's own state. What the
  extension does to the slot of a work function is in `UVCallback`.
* What libuv does with the handle that `uv_write2` sends, after the call: when it reads it depends on the system's
  buffers. The call and its answer are in `UVStream`.
* Containers of standard input and output: one more reference to a handle, as of a variable, read only during `uv_spawn`;
  what goes wrong there (an argument read without being set, 5286; flags that `uv_spawn` refuses, 5597; a handle of any class, 5595) goes wrong within one call. Their report to the collector.
* In `UVGc`: Zend's buffer of possible roots (every object is one, so that the collector finds at least as much),
  classes other than polls (they report the same slots), and PHP destructors that run code while a loop is drained.
* In `UVCallback`: `zend_call_function` still reading the `fci` of a slot that its callback has overwritten.
* `fclose`: PHP closes a stream whatever references there are; the extension has no say in it.
* A failed `uv_*_init`; descriptors that cannot be obtained. Fatal errors (`E_ERROR` of a
  failing poll start, write2, fs event or queue_work) end the script: only their absence is modelled.
* What a stream is bound to, addresses, tty modes, file contents, and every conversion: no property depends on them.
* A stream whose connect failed is not turned into a listener afterwards.
* In `UVLoop`: `uv_run` and `uv_loop_delete` of a loop inside its own callback (libuv
  leaves re-entrance undefined), and bailouts during shutdown. All callbacks are alike there: the exception of any of them
  stops the loop, that of a write callback too (`php_uv_do_callback` does not stop it, `php_uv_write_cb` does, 2013).
* In `UVLock`: a function of one kind of lock called on a lock of another.
* In `UVRequest`: what the type field of a lookup that libuv refused says to `uv_cancel`; both answers are taken.
* In `UVCallback`: that an object may be freed between the release (785) and the new reference (795) of one `php_uv_cb_init`; its count is off then
  (`short`), which the properties exempt.
* libuv is modelled from its documented behaviour since 1.42, the version of today's
  builds; `config.m4:52` accepts older ones.
* System information, registration: values and system calls without state of the extension.

## 6. Plan

Order of work, most important first; all but the last are done.

1. `UVHandle`, `UVWatcher`, `HandleLifetime`: the reference protocol, its refinement, its proofs.
2. `UVTimer`, `UVPoll`: callbacks that pass references on; their proofs.
3. `UVStream`, with its proofs; `UVUdp`, `UVDevice`.
4. `UVRequest`: the thread pool and the end of the script. `UVLock`.
5. `UVLoop`: nested runs, destructors, shutdown.
6. `UVCallback`: the slots of an object and the reference counts of closures, and that every answer goes to the
   callback it was asked with.
7. `UVGc` on top of it: what the collector is told against what is referred to.
8. `UVEvents`: sockets and devices in one program. `uv_write2` in `UVStream`.
9. Proofs about every component: the invariant of each, what follows from it, the refinement.
10. Left: the report of the containers of standard input and output to the collector, the other classes in `UVGc`; the
   interpreters of worker threads; a program with streams, sockets and timers on one loop, whose classes are proved
   in two programs and one module now.

## 7. Running

`tlc -config MCProgram.cfg MCProgram` and likewise for each configuration; `tlapm UVProgram_proofs.tla`
and likewise for each proof module. The longest runs (`gc`, `events`, `callbacks`) take two to three minutes on two cores.
