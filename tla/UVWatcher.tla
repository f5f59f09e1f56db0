------------------------------ MODULE UVWatcher -----------------------------
(***************************************************************************)
(* The watchers the loop calls while they are started: idle, prepare,      *)
(* check and signal handles.  Starting one takes a reference for the time  *)
(* it is active; stopping it drops that reference; closing it hands the    *)
(* reference over to the close.                                            *)
(***************************************************************************)
EXTENDS UVHandle

CONSTANT
  WatcherClasses   \* the classes this instance creates

ASSUME WatcherAssumption ==
  WatcherClasses \subseteq {"idle", "prepare", "check", "signal"}

-----------------------------------------------------------------------------
(* The four classes share the shape of their start, stop and callback      *)
(* functions; each function below names its class.                         *)

(* Mutant of StartWatcher: the start takes no reference.                   *)
StartUnowned(h, class) ==
  /\ Usable(h)
  /\ obj[h].ce = class
  /\ ~obj[h].active
  /\ obj' = [obj EXCEPT ![h].active = TRUE]
  /\ UNCHANGED <<vars, reqs, frame, lost>>

(* Refused with a notice when active; else a reference, the callback slot  *)
(* and libuv's start.                                                      *)
StartWatcher(h, class) ==
  /\ Usable(h)
  /\ obj[h].ce = class
  /\ ~obj[h].active
  /\ obj' = [obj EXCEPT ![h] = [GC_ADDREF(@) EXCEPT !.active = TRUE]]
  /\ UNCHANGED <<vars, reqs, frame, lost>>

(* Refused with a notice when not active; else libuv's stop, and the       *)
(* reference of the start is dropped.                                      *)
StopWatcher(h, class) ==
  /\ Usable(h)
  /\ obj[h].ce = class
  /\ obj[h].active
  /\ obj' = [obj EXCEPT ![h] = OBJ_RELEASE([@ EXCEPT !.active = FALSE])]
  /\ UNCHANGED <<vars, reqs, frame, lost>>

(* libuv calls an active watcher; the C callback takes a reference for     *)
(* params[0] before it calls the PHP callback.                             *)
WatcherCallback(h, class) ==
  /\ obj[h].life = "live"
  /\ obj[h].ce = class
  /\ obj[h].active
  /\ CallPHP(h, class, GC_ADDREF(obj[h]))
  /\ UNCHANGED <<vars, reqs, lost>>

InitWatcher(h, class) == class \in WatcherClasses /\ CreateHandle(h, class)

-----------------------------------------------------------------------------
uv_idle_init(h)  == InitWatcher(h, "idle")
uv_idle_start(h) == StartWatcher(h, "idle")
uv_idle_stop(h)  == StopWatcher(h, "idle")
php_uv_idle_cb(h) == WatcherCallback(h, "idle")

uv_prepare_init(h)  == InitWatcher(h, "prepare")
uv_prepare_start(h) == StartWatcher(h, "prepare")
uv_prepare_stop(h)  == StopWatcher(h, "prepare")
php_uv_prepare_cb(h) == WatcherCallback(h, "prepare")

uv_check_init(h)  == InitWatcher(h, "check")
uv_check_start(h) == StartWatcher(h, "check")
uv_check_stop(h)  == StopWatcher(h, "check")
php_uv_check_cb(h) == WatcherCallback(h, "check")

uv_signal_init(h)  == InitWatcher(h, "signal")
uv_signal_stop(h)  == StopWatcher(h, "signal")
php_uv_signal_cb(h) == WatcherCallback(h, "signal")

uv_signal_start(h) == StartWatcher(h, "signal")

(* uv_signal_start ignores libuv's result: a signal number libuv refuses   *)
(* leaves the handle inactive and the reference taken for it abandoned.    *)
uv_signal_start_refused(h) ==
  /\ Usable(h)
  /\ obj[h].ce = "signal"
  /\ ~obj[h].active
  /\ lost[h] < MaxLost
  /\ obj' = [obj EXCEPT ![h] = GC_ADDREF(@)]
  /\ lost' = [lost EXCEPT ![h] = @ + 1]
  /\ UNCHANGED <<vars, reqs, frame>>

-----------------------------------------------------------------------------
WatcherNext(h) ==
  \/ uv_idle_init(h)    \/ uv_idle_start(h)    \/ uv_idle_stop(h)
  \/ uv_prepare_init(h) \/ uv_prepare_start(h) \/ uv_prepare_stop(h)
  \/ uv_check_init(h)   \/ uv_check_start(h)   \/ uv_check_stop(h)
  \/ uv_signal_init(h)  \/ uv_signal_start(h)  \/ uv_signal_stop(h)
  \/ uv_signal_start_refused(h)
  \/ php_uv_idle_cb(h)  \/ php_uv_prepare_cb(h)
  \/ php_uv_check_cb(h) \/ php_uv_signal_cb(h)

(* A program that uses nothing but watchers.                               *)
WatcherSafety ==
  HandleInit /\ [][\E h \in Handles : WatcherNext(h) \/ HandleNext(h)]_handleVars
=============================================================================
