-------------------------- MODULE UVProgram_proofs --------------------------
(***************************************************************************)
(* Watchers, timers and polls, alone and in one program, for any set of    *)
(* objects and any bounds.  First the counts: HandleInv is inductive,      *)
(* class by class and action by action.  Then the program: what no step of *)
(* any handle does to another, and the steps of HandleLifetime that the    *)
(* counting implements.                                                    *)
(***************************************************************************)
EXTENDS UVProgram, UVHandle_proofs

-----------------------------------------------------------------------------
(* Watchers.                                                               *)

(* Every class the watchers create pays for its activity.                  *)
LEMMA WatcherClass ==
  ASSUME NEW class \in {"idle", "prepare", "check", "signal"}
  PROVE  class \in Classes /\ class \in ReferencedClasses /\ class \in Callbacks /\ class # "close"
  BY DEF Classes, ReferencedClasses, Callbacks

(* uv_idle_init and the like.                                              *)
LEMMA InitWatcherInv ==
  ASSUME HandleInv, NEW h \in Handles, NEW class \in {"idle", "prepare", "check", "signal"},
         InitWatcher(h, class)
  PROVE  HandleInv'
  BY WatcherClass, CreateInv DEF InitWatcher

(* uv_idle_start and the like.                                             *)
LEMMA StartWatcherInv ==
  ASSUME HandleInv, NEW h \in Handles, NEW class \in {"idle", "prepare", "check", "signal"},
         StartWatcher(h, class)
  PROVE  HandleInv'
<1>1. obj[h].ce \in ReferencedClasses
  BY WatcherClass DEF StartWatcher
<1>2. QED
  BY <1>1, StartInv DEF StartWatcher

(* uv_idle_stop and the like.                                              *)
LEMMA StopWatcherInv ==
  ASSUME HandleInv, NEW h \in Handles, NEW class \in {"idle", "prepare", "check", "signal"},
         StopWatcher(h, class)
  PROVE  HandleInv'
<1>1. obj[h].ce \in ReferencedClasses
  BY WatcherClass DEF StopWatcher
<1>2. QED
  BY <1>1, StopInv DEF StopWatcher

(* php_uv_idle_cb and the like.                                            *)
LEMMA WatcherCallbackInv ==
  ASSUME HandleInv, NEW h \in Handles, NEW class \in {"idle", "prepare", "check", "signal"},
         WatcherCallback(h, class)
  PROVE  HandleInv'
<1>1. DoCallback(h, class, GC_ADDREF(obj[h]))
  BY DEF WatcherCallback, DoCallback
<1>2. QED
  BY <1>1, WatcherClass, WatchedCallInv DEF WatcherCallback

(* A start that libuv refuses: the reference is counted as lost.           *)
LEMMA RefusedInv ==
  ASSUME HandleInv, NEW h \in Handles, uv_signal_start_refused(h)
  PROVE  HandleInv'
  BY ForgetInv DEF uv_signal_start_refused, Usable, Visible

(* Every action of a watcher keeps the invariant.                          *)
LEMMA WatcherNextInv ==
  ASSUME HandleInv, NEW h \in Handles, WatcherNext(h)
  PROVE  HandleInv'
<1>1. CASE \E class \in {"idle", "prepare", "check", "signal"} : InitWatcher(h, class)
  BY <1>1, InitWatcherInv
<1>2. CASE \E class \in {"idle", "prepare", "check", "signal"} : StartWatcher(h, class)
  BY <1>2, StartWatcherInv
<1>3. CASE \E class \in {"idle", "prepare", "check", "signal"} : StopWatcher(h, class)
  BY <1>3, StopWatcherInv
<1>4. CASE \E class \in {"idle", "prepare", "check", "signal"} : WatcherCallback(h, class)
  BY <1>4, WatcherCallbackInv
<1>5. CASE uv_signal_start_refused(h)
  BY <1>5, RefusedInv
<1>6. QED
  BY <1>1, <1>2, <1>3, <1>4, <1>5
  DEF WatcherNext, uv_idle_init, uv_idle_start, uv_idle_stop, php_uv_idle_cb,
      uv_prepare_init, uv_prepare_start, uv_prepare_stop, php_uv_prepare_cb,
      uv_check_init, uv_check_start, uv_check_stop, php_uv_check_cb,
      uv_signal_init, uv_signal_start, uv_signal_stop, php_uv_signal_cb

(* The invariant holds in every reachable state of the watchers.           *)
THEOREM WatcherInv == WatcherSafety => []HandleInv
<1>1. HandleInit => HandleInv
  BY InitInv
<1>2. HandleInv /\ [\E h \in Handles : WatcherNext(h) \/ HandleNext(h)]_handleVars => HandleInv'
  BY WatcherNextInv, HandleNextInv, StutterInv
<1>3. QED
  BY <1>1, <1>2, PTL DEF WatcherSafety

(* The variables have their types.                                         *)
THEOREM WatcherTyped == WatcherSafety => []HandleTypeOK
<1>1. HandleInv => HandleTypeOK
  BY DEF HandleInv
<1>2. QED
  BY <1>1, WatcherInv, PTL

(* The reference count of a live watcher is the number of its holders.     *)
THEOREM WatcherRefCountExact == WatcherSafety => []RefCountExact
<1>1. HandleInv => RefCountExact
  BY InvExact
<1>2. QED
  BY <1>1, WatcherInv, PTL

(* Nothing reaches a freed watcher.                                        *)
THEOREM WatcherFreedIsUnreachable == WatcherSafety => []FreedIsUnreachable
<1>1. HandleInv => FreedIsUnreachable
  BY InvFreed
<1>2. QED
  BY <1>1, WatcherInv, PTL

(* libuv's uv_close is called at most once on a watcher.                   *)
THEOREM WatcherClosedOnce == WatcherSafety => []ClosedOnce
<1>1. HandleInv => ClosedOnce
  BY InvClosed
<1>2. QED
  BY <1>1, WatcherInv, PTL

-----------------------------------------------------------------------------
(* Timers.                                                                 *)

(* Timers pay for their activity.                                          *)
LEMMA TimerClass ==
  "timer" \in Classes /\ "timer" \in ReferencedClasses /\ "timer" \in Callbacks /\ "timer" # "close"
  BY DEF Classes, ReferencedClasses, Callbacks

(* Every action of a timer keeps the invariant.                            *)
LEMMA TimerNextInv ==
  ASSUME HandleInv, NEW h \in Handles, TimerNext(h)
  PROVE  HandleInv'
<1>1. CASE uv_timer_init(h)
  BY <1>1, TimerClass, CreateInv DEF uv_timer_init
<1>2. CASE \E repeating \in BOOLEAN : uv_timer_start(h, repeating)
  BY <1>2, TimerClass, StartInv DEF uv_timer_start
<1>3. CASE \E repeating \in BOOLEAN : uv_timer_set_repeat(h, repeating)
  BY <1>3, StutterInv DEF uv_timer_set_repeat
<1>4. CASE uv_timer_stop(h)
  BY <1>4, TimerClass, StopInv DEF uv_timer_stop
<1>5. CASE uv_timer_again(h)
  <2>1. /\ Usable(h) /\ obj[h].ce \in ReferencedClasses /\ ~obj[h].active /\ obj[h].life = "live"
        /\ vars' = vars /\ reqs' = reqs /\ frame' = frame
    BY <1>5, TimerClass DEF uv_timer_again, Usable, Visible
  <2>2. CASE armed[h] /\ repeat[h]
    BY <1>5, <2>1, <2>2, StartInv DEF uv_timer_again
  <2>3. CASE ~(armed[h] /\ repeat[h])
    BY <1>5, <2>1, <2>3, ForgetInv DEF uv_timer_again
  <2>4. QED
    BY <2>2, <2>3
<1>6. CASE php_uv_timer_cb(h)
  <2>1. /\ obj[h].life = "live" /\ obj[h].active /\ obj[h].ce \in ReferencedClasses
        /\ vars' = vars /\ reqs' = reqs /\ lost' = lost
    BY <1>6, TimerClass DEF php_uv_timer_cb
  <2>2. CASE repeat[h]
    <3>1. DoCallback(h, "timer", GC_ADDREF(obj[h]))
      BY <1>6, <2>2 DEF php_uv_timer_cb
    <3>2. QED
      BY <2>1, <3>1, TimerClass, WatchedCallInv
  <2>3. CASE ~repeat[h]
    <3>1. DoCallback(h, "timer", [obj[h] EXCEPT !.active = FALSE])
      BY <1>6, <2>3 DEF php_uv_timer_cb
    <3>2. QED
      BY <2>1, <3>1, TimerClass, StoppedCallInv
  <2>4. QED
    BY <2>2, <2>3
<1>7. QED
  BY <1>1, <1>2, <1>3, <1>4, <1>5, <1>6 DEF TimerNext

(* The invariant holds in every reachable state of the timers.             *)
THEOREM TimerInv == TimerSafety => []HandleInv
<1>1. TimerInit => HandleInv
  BY InitInv DEF TimerInit
<1>2. /\ HandleInv
      /\ [\E h \in Handles : TimerNext(h) \/ (HandleNext(h) /\ UNCHANGED timerVars)]_allTimerVars
      => HandleInv'
  BY TimerNextInv, HandleNextInv, StutterInv DEF allTimerVars
<1>3. QED
  BY <1>1, <1>2, PTL DEF TimerSafety

(* The reference count of a live timer is the number of its holders.       *)
THEOREM TimerRefCountExact == TimerSafety => []RefCountExact
  BY TimerInv, InvExact, PTL

(* Nothing reaches a freed timer.                                          *)
THEOREM TimerFreedIsUnreachable == TimerSafety => []FreedIsUnreachable
  BY TimerInv, InvFreed, PTL

-----------------------------------------------------------------------------
(* Polls.                                                                  *)

(* Both classes pay for their activity.                                    *)
LEMMA PollClasses ==
  ASSUME NEW class \in {"poll", "fs_poll"}
  PROVE  class \in Classes /\ class \in ReferencedClasses /\ class \in Callbacks /\ class # "close"
  BY DEF Classes, ReferencedClasses, Callbacks

(* The reference of an activity that ends without giving it back is lost.  *)
LEMMA StrandInv ==
  ASSUME HandleInv, NEW h \in Handles, obj[h].life = "live", obj[h].active,
         obj[h].ce \in ReferencedClasses, lost[h] < MaxLost,
         obj' = [obj EXCEPT ![h] = [@ EXCEPT !.active = FALSE]],
         vars' = vars, reqs' = reqs, frame' = frame, lost' = [lost EXCEPT ![h] = @ + 1]
  PROVE  HandleInv'
<1> DEFINE o == [obj[h] EXCEPT !.active = FALSE]
<1>1. obj' = [obj EXCEPT ![h] = o]
  OBVIOUS
<1>2. /\ o \in Object /\ LiveShape(o) /\ o.phase = "open" /\ obj[h].phase = "open"
      /\ LoopRef(o) = 0 /\ CloseRef(o) = 0
      /\ o.rc = LoopRef(o) + CloseRef(o) + Others(h) + 1
  BY StoppedLive
<1> HIDE DEF o
<1>3. Elsewhere(h) /\ FrameElsewhere(h) /\ Others(h)' = Others(h) + 1 /\ Others(h) \in Nat
  BY LoseOne
<1>4. o.rc > 0 /\ o.rc = LoopRef(o) + CloseRef(o) + Others(h)'
  BY <1>2, <1>3
<1>5. QED
  BY <1>1, <1>2, <1>3, <1>4, LiveFacts, KeepInv

(* Setting the activity to what it is changes nothing.                     *)
LEMMA SameActivity ==
  ASSUME NEW o \in Object, NEW b \in BOOLEAN, o.active = b
  PROVE  [o EXCEPT !.active = b] = o
  BY DEF Object

(* uv_poll_start: fresh, repeated, or with nothing to poll for.            *)
LEMMA PollStartInv ==
  ASSUME HandleInv, NEW h \in Handles, NEW events, uv_poll_start(h, events)
  PROVE  HandleInv'
<1>1. /\ Usable(h) /\ obj[h].ce \in ReferencedClasses /\ obj[h].life = "live"
      /\ vars' = vars /\ reqs' = reqs /\ frame' = frame
  BY PollClasses DEF uv_poll_start, Usable, Visible
<1>2. obj[h] \in Object /\ obj[h].active \in BOOLEAN
  BY <1>1, LiveFacts DEF Object
<1>3. CASE events # {} /\ ~obj[h].active
  <2>1. obj' = [obj EXCEPT ![h] = [GC_ADDREF(obj[h]) EXCEPT !.active = TRUE]] /\ lost' = lost
    BY <1>3 DEF uv_poll_start
  <2>2. QED
    BY <1>1, <1>3, <2>1, StartInv
<1>4. CASE events # {} /\ obj[h].active
  <2>1. obj' = [obj EXCEPT ![h] = [obj[h] EXCEPT !.active = TRUE]] /\ lost' = lost
    BY <1>4 DEF uv_poll_start
  <2>2. [obj[h] EXCEPT !.active = TRUE] = obj[h]
    BY <1>2, <1>4, SameActivity
  <2>3. obj \in [Handles -> Object]
    BY DEF HandleInv, HandleTypeOK
  <2>4. obj' = obj
    BY <2>1, <2>2, <2>3
  <2>5. QED
    BY <1>1, <2>1, <2>4, StutterInv DEF handleVars
<1>5. CASE events = {} /\ ~obj[h].active
  <2>1. /\ obj' = [obj EXCEPT ![h] = [GC_ADDREF(obj[h]) EXCEPT !.active = FALSE]]
        /\ lost[h] < MaxLost /\ lost' = [lost EXCEPT ![h] = @ + 1]
    BY <1>5 DEF uv_poll_start
  <2>2. GC_ADDREF(obj[h]) \in Object /\ GC_ADDREF(obj[h]).active = obj[h].active
    BY <1>2, AddRefFields
  <2>3. [GC_ADDREF(obj[h]) EXCEPT !.active = FALSE] = GC_ADDREF(obj[h])
    BY <1>2, <1>5, <2>2, SameActivity
  <2>4. QED
    BY <1>1, <2>1, <2>3, ForgetInv
<1>6. CASE events = {} /\ obj[h].active
  <2>1. /\ obj' = [obj EXCEPT ![h] = [obj[h] EXCEPT !.active = FALSE]]
        /\ lost[h] < MaxLost /\ lost' = [lost EXCEPT ![h] = @ + 1]
    BY <1>6 DEF uv_poll_start
  <2>2. QED
    BY <1>1, <1>6, <2>1, StrandInv
<1>7. QED
  BY <1>3, <1>4, <1>5, <1>6

(* uv_fs_poll_start: fresh or repeated.                                    *)
LEMMA FsPollStartInv ==
  ASSUME HandleInv, NEW h \in Handles, uv_fs_poll_start(h)
  PROVE  HandleInv'
<1>1. /\ Usable(h) /\ obj[h].ce \in ReferencedClasses /\ obj[h].life = "live"
      /\ obj' = [obj EXCEPT ![h] = [GC_ADDREF(obj[h]) EXCEPT !.active = TRUE]]
      /\ vars' = vars /\ reqs' = reqs /\ frame' = frame
  BY PollClasses DEF uv_fs_poll_start, Usable, Visible
<1>2. obj[h] \in Object /\ obj[h].active \in BOOLEAN
  BY <1>1, LiveFacts DEF Object
<1>3. CASE ~obj[h].active
  BY <1>1, <1>3, StartInv DEF uv_fs_poll_start
<1>4. CASE obj[h].active
  <2>1. GC_ADDREF(obj[h]) \in Object /\ GC_ADDREF(obj[h]).active = obj[h].active
    BY <1>2, AddRefFields
  <2>2. [GC_ADDREF(obj[h]) EXCEPT !.active = TRUE] = GC_ADDREF(obj[h])
    BY <1>2, <1>4, <2>1, SameActivity
  <2>3. QED
    BY <1>1, <1>4, <2>2, ForgetInv DEF uv_fs_poll_start
<1>5. QED
  BY <1>3, <1>4

(* php_uv_poll_cb: with an event, or with the error that stopped the poll. *)
LEMMA PollCallbackInv ==
  ASSUME HandleInv, NEW h \in Handles, NEW status, php_uv_poll_cb(h, status)
  PROVE  HandleInv'
<1>1. /\ obj[h].life = "live" /\ obj[h].active /\ obj[h].ce \in ReferencedClasses
      /\ vars' = vars /\ reqs' = reqs /\ lost' = lost
  BY PollClasses DEF php_uv_poll_cb
<1>2. CASE status = "ok"
  <2>1. DoCallback(h, "poll", GC_ADDREF(obj[h]))
    BY <1>2 DEF php_uv_poll_cb, DoCallback
  <2>2. QED
    BY <1>1, <2>1, PollClasses, WatchedCallInv
<1>3. CASE status # "ok"
  <2>1. DoCallback(h, "poll", [obj[h] EXCEPT !.active = FALSE])
    BY <1>3 DEF php_uv_poll_cb, DoCallback
  <2>2. QED
    BY <1>1, <2>1, PollClasses, StoppedCallInv
<1>4. QED
  BY <1>2, <1>3

(* Every action of a poll keeps the invariant.                             *)
LEMMA PollNextInv ==
  ASSUME HandleInv, NEW h \in Handles, PollNext(h)
  PROVE  HandleInv'
<1>1. CASE uv_poll_init(h) \/ uv_fs_poll_init(h)
  BY <1>1, PollClasses, CreateInv DEF uv_poll_init, uv_fs_poll_init
<1>2. CASE \E events \in PollEvents : uv_poll_start(h, events)
  BY <1>2, PollStartInv
<1>3. CASE uv_poll_stop(h)
  BY <1>3, PollClasses, StopInv DEF uv_poll_stop
<1>4. CASE uv_fs_poll_stop(h)
  BY <1>4, PollClasses, StopInv DEF uv_fs_poll_stop
<1>5. CASE \E status \in PollStatus : php_uv_poll_cb(h, status)
  BY <1>5, PollCallbackInv
<1>6. CASE uv_fs_poll_start(h)
  BY <1>6, FsPollStartInv
<1>7. CASE php_uv_fs_poll_cb(h)
  <2>1. DoCallback(h, "fs_poll", GC_ADDREF(obj[h]))
    BY <1>7 DEF php_uv_fs_poll_cb, DoCallback
  <2>2. QED
    BY <1>7, <2>1, PollClasses, WatchedCallInv DEF php_uv_fs_poll_cb
<1>8. QED
  BY <1>1, <1>2, <1>3, <1>4, <1>5, <1>6, <1>7 DEF PollNext

(* The invariant holds in every reachable state of the polls.              *)
THEOREM PollInv == PollSafety => []HandleInv
<1>1. HandleInv /\ [\E h \in Handles : PollNext(h) \/ HandleNext(h)]_handleVars => HandleInv'
  BY PollNextInv, HandleNextInv, StutterInv
<1>2. QED
  BY InitInv, <1>1, PTL DEF PollSafety

(* The reference count of a live poll is the number of its holders.        *)
THEOREM PollRefCountExact == PollSafety => []RefCountExact
  BY PollInv, InvExact, PTL

(* Nothing reaches a freed poll.                                           *)
THEOREM PollFreedIsUnreachable == PollSafety => []FreedIsUnreachable
  BY PollInv, InvFreed, PTL

-----------------------------------------------------------------------------
(* The program: what a step of a handle does to its record and to others.  *)

(* The three forms in which the classes of this program change a record.   *)
LEMMA RecordForms ==
  ASSUME HandleTypeOK, NEW h \in Handles, NEW class \in ReferencedClasses,
         obj[h].ce \in ReferencedClasses \cup {"none"},
         \/ obj' = [obj EXCEPT ![h] = create_uv(class)]
         \/ obj' = [obj EXCEPT ![h] = GC_ADDREF(obj[h])]
         \/ \E b \in BOOLEAN :
              \E o \in {obj[h], GC_ADDREF(obj[h])} :
                LET r == [o EXCEPT !.active = b]
                IN  \/ obj' = [obj EXCEPT ![h] = r]
                    \/ obj' = [obj EXCEPT ![h] = OBJ_RELEASE(r)]
                    \/ obj' = [obj EXCEPT ![h] = GC_ADDREF(r)]
         \/ obj' = [obj EXCEPT ![h] = GC_ADDREF(GC_ADDREF(obj[h]))]
         \/ obj' = [obj EXCEPT ![h] = OBJ_RELEASE(GC_ADDREF(obj[h]))]
         \/ obj' = obj
  PROVE  /\ \A k \in Handles \ {h} : obj'[k] = obj[k]
         /\ obj'[h].ce \in ReferencedClasses \cup {"none"}
<1>0. obj \in [Handles -> Object] /\ obj[h] \in Object
  BY DEF HandleTypeOK
<1>1. CASE obj' = [obj EXCEPT ![h] = create_uv(class)]
  BY <1>0, <1>1, NewObject
<1>2. GC_ADDREF(obj[h]) \in Object /\ GC_ADDREF(obj[h]).ce = obj[h].ce
  BY <1>0, AddRefFields
<1>3. ASSUME NEW b \in BOOLEAN, NEW o \in {obj[h], GC_ADDREF(obj[h])}, NEW r, r = [o EXCEPT !.active = b],
             \/ obj' = [obj EXCEPT ![h] = r]
             \/ obj' = [obj EXCEPT ![h] = OBJ_RELEASE(r)]
             \/ obj' = [obj EXCEPT ![h] = GC_ADDREF(r)]
      PROVE  /\ \A k \in Handles \ {h} : obj'[k] = obj[k]
             /\ obj'[h].ce = obj[h].ce
  <2>1. r \in Object /\ r.ce = obj[h].ce
    BY <1>0, <1>2, <1>3, SetActive
  <2>2. GC_ADDREF(r).ce = r.ce /\ OBJ_RELEASE(r).ce = r.ce
    BY <2>1, AddRefFields, ReleaseAny
  <2>3. QED
    BY <1>0, <1>3, <2>1, <2>2
<1>4. CASE \/ obj' = [obj EXCEPT ![h] = GC_ADDREF(obj[h])]
           \/ obj' = [obj EXCEPT ![h] = GC_ADDREF(GC_ADDREF(obj[h]))]
           \/ obj' = [obj EXCEPT ![h] = OBJ_RELEASE(GC_ADDREF(obj[h]))]
           \/ obj' = obj
  BY <1>0, <1>2, <1>4, AddRefFields, ReleaseAny
<1>5. QED
  BY <1>1, <1>3, <1>4

(* Watchers.                                                               *)
LEMMA WatcherElsewhere ==
  ASSUME HandleTypeOK, NEW h \in Handles, WatcherNext(h),
         obj[h].ce \in ReferencedClasses \cup {"none"}
  PROVE  /\ \A k \in Handles \ {h} : obj'[k] = obj[k]
         /\ obj'[h].ce \in ReferencedClasses \cup {"none"}
<1>1. PICK class \in {"idle", "prepare", "check", "signal"} :
        \/ InitWatcher(h, class) \/ StartWatcher(h, class) \/ StopWatcher(h, class)
        \/ WatcherCallback(h, class) \/ uv_signal_start_refused(h)
  BY DEF WatcherNext, uv_idle_init, uv_idle_start, uv_idle_stop, php_uv_idle_cb,
      uv_prepare_init, uv_prepare_start, uv_prepare_stop, php_uv_prepare_cb,
      uv_check_init, uv_check_start, uv_check_stop, php_uv_check_cb,
      uv_signal_init, uv_signal_start, uv_signal_stop, php_uv_signal_cb
<1>2. class \in ReferencedClasses
  BY WatcherClass
<1>3. QED
  BY <1>1, <1>2, RecordForms
  DEF InitWatcher, CreateHandle, StartWatcher, StopWatcher, WatcherCallback, CallPHP,
      uv_signal_start_refused

(* Timers.                                                                 *)
LEMMA TimerElsewhere ==
  ASSUME HandleTypeOK, NEW h \in Handles, TimerNext(h),
         obj[h].ce \in ReferencedClasses \cup {"none"}
  PROVE  /\ \A k \in Handles \ {h} : obj'[k] = obj[k]
         /\ obj'[h].ce \in ReferencedClasses \cup {"none"}
<1>1. CASE uv_timer_init(h)
  BY <1>1, TimerClass, RecordForms DEF uv_timer_init, CreateHandle
<1>2. CASE \E repeating \in BOOLEAN : uv_timer_start(h, repeating)
  BY <1>2, TimerClass, RecordForms DEF uv_timer_start
<1>3. CASE \E repeating \in BOOLEAN : uv_timer_set_repeat(h, repeating)
  BY <1>3, TimerClass, RecordForms DEF uv_timer_set_repeat, handleVars
<1>4. CASE uv_timer_stop(h)
  BY <1>4, TimerClass, RecordForms DEF uv_timer_stop
<1>5. CASE uv_timer_again(h)
  BY <1>5, TimerClass, RecordForms DEF uv_timer_again
<1>6. CASE php_uv_timer_cb(h)
  <2>1. CASE repeat[h]
    BY <1>6, <2>1, TimerClass, RecordForms DEF php_uv_timer_cb, DoCallback, CallPHP
  <2>2. CASE ~repeat[h]
    BY <1>6, <2>2, TimerClass, RecordForms DEF php_uv_timer_cb, DoCallback, CallPHP
  <2>3. QED
    BY <2>1, <2>2
<1>7. QED
  BY <1>1, <1>2, <1>3, <1>4, <1>5, <1>6 DEF TimerNext

(* Polls.                                                                  *)
LEMMA PollElsewhere ==
  ASSUME HandleTypeOK, NEW h \in Handles, PollNext(h),
         obj[h].ce \in ReferencedClasses \cup {"none"}
  PROVE  /\ \A k \in Handles \ {h} : obj'[k] = obj[k]
         /\ obj'[h].ce \in ReferencedClasses \cup {"none"}
<1>1. CASE uv_poll_init(h)
  BY <1>1, PollClasses, RecordForms DEF uv_poll_init, CreateHandle
<1>2. CASE uv_fs_poll_init(h)
  BY <1>2, PollClasses, RecordForms DEF uv_fs_poll_init, CreateHandle
<1>3. CASE \E events \in PollEvents : uv_poll_start(h, events)
  <2>1. PICK events \in PollEvents : uv_poll_start(h, events)
    BY <1>3
  <2>2. \E o \in {obj[h], GC_ADDREF(obj[h])} : obj' = [obj EXCEPT ![h] = [o EXCEPT !.active = (events # {})]]
    BY <2>1 DEF uv_poll_start
  <2>3. QED
    BY <2>2, PollClasses, RecordForms
<1>4. CASE uv_poll_stop(h) \/ uv_fs_poll_stop(h)
  BY <1>4, PollClasses, RecordForms DEF uv_poll_stop, uv_fs_poll_stop
<1>5. CASE \E status \in PollStatus : php_uv_poll_cb(h, status)
  BY <1>5, PollClasses, RecordForms DEF php_uv_poll_cb, CallPHP
<1>6. CASE uv_fs_poll_start(h)
  BY <1>6, PollClasses, RecordForms DEF uv_fs_poll_start
<1>7. CASE php_uv_fs_poll_cb(h)
  BY <1>7, PollClasses, RecordForms DEF php_uv_fs_poll_cb, CallPHP
<1>8. QED
  BY <1>1, <1>2, <1>3, <1>4, <1>5, <1>6, <1>7 DEF PollNext

(* Every step of the program is one of a handle, and leaves the records of *)
(* the others alone.                                                       *)
LEMMA ProgramStepFacts ==
  ASSUME ProgramInv, NEW h \in Handles, ProgramStep(h)
  PROVE  /\ \A k \in Handles \ {h} : obj'[k] = obj[k]
         /\ obj'[h].ce \in ReferencedClasses \cup {"none"}
<1>1. HandleTypeOK /\ obj[h].ce \in ReferencedClasses \cup {"none"}
  BY DEF ProgramInv, HandleInv
<1>2. QED
  BY <1>1, WatcherElsewhere, TimerElsewhere, PollElsewhere, HandleNextElsewhere DEF ProgramStep

(* The types of the timers' variables.                                     *)
LEMMA TimerTyped ==
  ASSUME TimerTypeOK, HandleTypeOK', NEW h \in Handles, TimerNext(h) \/ UNCHANGED timerVars
  PROVE  TimerTypeOK'
  BY DEF TimerTypeOK, TimerNext, timerVars, uv_timer_init, uv_timer_start, uv_timer_stop,
         uv_timer_again, uv_timer_set_repeat, php_uv_timer_cb

(* The invariant holds in every reachable state of the program.            *)
THEOREM ProgramInvariant == ProgramSafety => []ProgramInv
<1>1. ProgramInit => ProgramInv
  <2> SUFFICES ASSUME ProgramInit PROVE ProgramInv
    OBVIOUS
  <2>1. HandleInv
    BY InitInv DEF ProgramInit, TimerInit
  <2>2. TimerTypeOK
    BY <2>1 DEF ProgramInit, TimerInit, TimerTypeOK, HandleInv
  <2>3. \A h \in Handles : obj[h].ce = "none"
    BY DEF ProgramInit, TimerInit, HandleInit, Absent
  <2>4. QED
    BY <2>1, <2>2, <2>3 DEF ProgramInv
<1>2. ProgramInv /\ [ProgramNext]_programVars => ProgramInv'
  <2> SUFFICES ASSUME ProgramInv, [ProgramNext]_programVars PROVE ProgramInv'
    OBVIOUS
  <2>1. HandleInv'
    BY TimerNextInv, WatcherNextInv, PollNextInv, HandleNextInv, StutterInv
    DEF ProgramInv, ProgramNext, ProgramStep, programVars
  <2>2. HandleTypeOK'
    BY <2>1 DEF HandleInv
  <2>3. CASE UNCHANGED programVars
    BY <2>1, <2>2, <2>3 DEF ProgramInv, TimerTypeOK, programVars, handleVars, timerVars
  <2>4. CASE ProgramNext
    <3>1. PICK h \in Handles : ProgramStep(h)
      BY <2>4 DEF ProgramNext
    <3>2. TimerTypeOK'
      BY <2>2, <3>1, TimerTyped DEF ProgramInv, ProgramStep
    <3>3. \A k \in Handles : obj'[k].ce \in ReferencedClasses \cup {"none"}
      BY <3>1, ProgramStepFacts DEF ProgramInv
    <3>4. QED
      BY <2>1, <3>2, <3>3 DEF ProgramInv
  <2>5. QED
    BY <2>3, <2>4
<1>3. QED
  BY <1>1, <1>2, PTL DEF ProgramSafety

(* The reference count of a live handle is the number of its holders,      *)
(* whatever the handles of the program do in each other's callbacks.       *)
THEOREM ProgramRefCountExact == ProgramSafety => []RefCountExact
<1>1. ProgramInv => RefCountExact
  BY InvExact DEF ProgramInv
<1>2. QED
  BY <1>1, ProgramInvariant, PTL

(* Nothing reaches a freed handle.                                         *)
THEOREM ProgramFreedIsUnreachable == ProgramSafety => []FreedIsUnreachable
<1>1. ProgramInv => FreedIsUnreachable
  BY InvFreed DEF ProgramInv
<1>2. QED
  BY <1>1, ProgramInvariant, PTL

-----------------------------------------------------------------------------
(* Started handles.                                                        *)

(* Every callback of the three classes enters PHP with an open handle.     *)
LEMMA WatcherKeeps ==
  ASSUME HandleInv, NEW h \in Handles, WatcherNext(h), obj[h].active
  PROVE  (vars' = vars /\ frame' = frame) \/ Survives(h)
<1>1. PICK class \in {"idle", "prepare", "check", "signal"} :
        \/ InitWatcher(h, class) \/ StartWatcher(h, class) \/ StopWatcher(h, class)
        \/ WatcherCallback(h, class) \/ uv_signal_start_refused(h)
  BY DEF WatcherNext, uv_idle_init, uv_idle_start, uv_idle_stop, php_uv_idle_cb,
      uv_prepare_init, uv_prepare_start, uv_prepare_stop, php_uv_prepare_cb,
      uv_check_init, uv_check_start, uv_check_stop, php_uv_check_cb,
      uv_signal_init, uv_signal_start, uv_signal_stop, php_uv_signal_cb
<1>2. /\ obj[h].life = "live" /\ obj[h].phase = "open" /\ obj[h] \in Object
  BY ActiveFacts
<1>3. CASE WatcherCallback(h, class)
  <2>1. obj'[h] = GC_ADDREF(GC_ADDREF(obj[h]))
    BY <1>3 DEF WatcherCallback, CallPHP, HandleInv, HandleTypeOK
  <2>2. QED
    BY <1>2, <2>1, AddRefFields DEF Survives
<1>4. QED
  BY <1>1, <1>2, <1>3
  DEF InitWatcher, CreateHandle, StartWatcher, StopWatcher, uv_signal_start_refused

(* A one-shot timer is stopped, but stays open, when its callback runs.    *)
LEMMA TimerKeeps ==
  ASSUME HandleInv, NEW h \in Handles, TimerNext(h), obj[h].active
  PROVE  \/ vars' = vars /\ frame' = frame
         \/ Survives(h)
         \/ ~repeat[h] /\ obj'[h].phase = "open"
<1>1. obj[h].life = "live" /\ obj[h].phase = "open" /\ obj[h] \in Object
  BY ActiveFacts
<1>2. CASE php_uv_timer_cb(h) /\ frame' # frame
  <2>1. CASE repeat[h]
    <3>1. obj'[h] = GC_ADDREF(GC_ADDREF(obj[h]))
      BY <1>2, <2>1 DEF php_uv_timer_cb, DoCallback, CallPHP, HandleInv, HandleTypeOK
    <3>2. QED
      BY <1>1, <3>1, AddRefFields DEF Survives
  <2>2. CASE ~repeat[h]
    <3>1. obj'[h] = GC_ADDREF([obj[h] EXCEPT !.active = FALSE])
      BY <1>2, <2>2 DEF php_uv_timer_cb, DoCallback, CallPHP, HandleInv, HandleTypeOK
    <3>2. [obj[h] EXCEPT !.active = FALSE] \in Object /\ [obj[h] EXCEPT !.active = FALSE].phase = "open"
      BY <1>1, SetActive
    <3>3. QED
      BY <2>2, <3>1, <3>2, AddRefFields
  <2>3. QED
    BY <2>1, <2>2
<1>3. CASE php_uv_timer_cb(h) /\ frame' = frame
  BY <1>3 DEF php_uv_timer_cb
<1>4. QED
  BY <1>1, <1>2, <1>3
  DEF TimerNext, uv_timer_init, CreateHandle, uv_timer_start, uv_timer_stop, uv_timer_again,
      uv_timer_set_repeat, handleVars

(* A poll in error is stopped, but stays open, when its callback runs.     *)
LEMMA PollKeeps ==
  ASSUME HandleInv, NEW h \in Handles, PollNext(h), obj[h].active
  PROVE  \/ vars' = vars /\ frame' = frame
         \/ obj'[h].phase = "open" /\ obj[h].ce \in {"poll", "fs_poll"}
<1>1. obj[h].life = "live" /\ obj[h].phase = "open" /\ obj[h] \in Object
  BY ActiveFacts
<1>2. [obj[h] EXCEPT !.active = FALSE] \in Object /\ [obj[h] EXCEPT !.active = FALSE].phase = "open"
  BY <1>1, SetActive
<1>3. CASE \E status \in PollStatus : php_uv_poll_cb(h, status)
  <2>1. /\ obj'[h] = GC_ADDREF(GC_ADDREF(obj[h])) \/ obj'[h] = GC_ADDREF([obj[h] EXCEPT !.active = FALSE])
        /\ obj[h].ce = "poll"
    BY <1>3 DEF php_uv_poll_cb, CallPHP, HandleInv, HandleTypeOK
  <2>2. QED
    BY <1>1, <1>2, <2>1, AddRefFields
<1>4. CASE php_uv_fs_poll_cb(h)
  <2>1. obj'[h] = GC_ADDREF(GC_ADDREF(obj[h])) /\ obj[h].ce = "fs_poll"
    BY <1>4 DEF php_uv_fs_poll_cb, CallPHP, HandleInv, HandleTypeOK
  <2>2. QED
    BY <1>1, <2>1, AddRefFields
<1>5. QED
  BY <1>1, <1>3, <1>4
  DEF PollNext, uv_poll_init, uv_fs_poll_init, CreateHandle, uv_poll_start, uv_poll_stop,
      uv_fs_poll_start, uv_fs_poll_stop

(* No step that drops a variable or ends a callback begins the close of a  *)
(* started handle, be it the step's own handle or another.                 *)
THEOREM ProgramActiveIsKept == ProgramSafety => ActiveIsKept
<1>1. ProgramInv /\ [ProgramNext]_programVars
      => [\A h \in Handles :
            obj[h].active /\ obj'[h].phase = "closing" => UNCHANGED <<vars, frame>>]_handleVars
  <2> SUFFICES ASSUME ProgramInv, ProgramNext, NEW h \in Handles,
                      obj[h].active, obj'[h].phase = "closing"
               PROVE  UNCHANGED <<vars, frame>>
    BY DEF programVars
  <2>1. PICK k \in Handles : ProgramStep(k)
    BY DEF ProgramNext
  <2>2. HandleInv /\ obj[h].phase = "open"
    BY ActiveFacts DEF ProgramInv
  <2>3. k = h
    BY <2>1, <2>2, ProgramStepFacts
  <2>4. obj[h].ce \in ReferencedClasses
    <3>1. obj[h].ce \in Classes
      BY <2>2, ActiveFacts, LiveFacts DEF LiveShape
    <3>2. QED
      BY <3>1 DEF ProgramInv, Classes
  <2>5. QED
    BY <2>1, <2>2, <2>3, <2>4, WatcherKeeps, TimerKeeps, PollKeeps, HandleNextKeeps
    DEF ProgramStep, Survives
<1>2. QED
  BY <1>1, ProgramInvariant, PTL DEF ProgramSafety, ActiveIsKept

(* A repeating timer that nobody stops or closes survives its callbacks    *)
(* and those of every other handle.                                        *)
THEOREM ProgramRepeatingSurvives == ProgramSafety => RepeatingSurvives
<1>1. ProgramInv /\ [ProgramNext]_programVars
      => [\A h \in Handles :
            obj[h].ce = "timer" /\ obj[h].active /\ repeat[h] /\ frame' # frame
              => obj'[h].active /\ obj'[h].life = "live"]_allTimerVars
  <2> SUFFICES ASSUME ProgramInv, ProgramNext, NEW h \in Handles,
                      obj[h].ce = "timer", obj[h].active, repeat[h], frame' # frame
               PROVE  obj'[h].active /\ obj'[h].life = "live"
    BY DEF programVars, allTimerVars
  <2>1. PICK k \in Handles : ProgramStep(k)
    BY DEF ProgramNext
  <2>2. HandleInv /\ obj[h].life = "live"
    BY ActiveFacts DEF ProgramInv
  <2>3. CASE k # h
    BY <2>1, <2>2, <2>3, ProgramStepFacts
  <2>4. CASE k = h
    BY <2>1, <2>2, <2>4, TimerClass, WatcherKeeps, TimerKeeps, PollKeeps, HandleNextKeeps
    DEF ProgramStep, Survives
  <2>5. QED
    BY <2>3, <2>4
<1>2. QED
  BY <1>1, ProgramInvariant, PTL DEF ProgramSafety, RepeatingSurvives

-----------------------------------------------------------------------------
(* The steps of HandleLifetime.                                            *)

(* Watchers.                                                               *)
LEMMA WatcherLife ==
  ASSUME HandleInv, HandleInv', NEW h \in Handles, WatcherNext(h)
  PROVE  LifeStep(h)
<1>1. PICK class \in {"idle", "prepare", "check", "signal"} :
        \/ InitWatcher(h, class) \/ StartWatcher(h, class) \/ StopWatcher(h, class)
        \/ WatcherCallback(h, class) \/ uv_signal_start_refused(h)
  BY DEF WatcherNext, uv_idle_init, uv_idle_start, uv_idle_stop, php_uv_idle_cb,
      uv_prepare_init, uv_prepare_start, uv_prepare_stop, php_uv_prepare_cb,
      uv_check_init, uv_check_start, uv_check_stop, php_uv_check_cb,
      uv_signal_init, uv_signal_start, uv_signal_stop, php_uv_signal_cb
<1>2. class \in Classes /\ class \in ReferencedClasses /\ class \in Callbacks
  BY WatcherClass
<1>3. CASE InitWatcher(h, class)
  BY <1>2, <1>3, InitStep DEF InitWatcher
<1>4. CASE StartWatcher(h, class)
  BY <1>4, StartStep DEF StartWatcher, Usable, Visible
<1>5. CASE StopWatcher(h, class)
  BY <1>2, <1>5, StopStep DEF StopWatcher
<1>6. CASE WatcherCallback(h, class)
  <2>1. DoCallback(h, class, GC_ADDREF(obj[h]))
    BY <1>6 DEF WatcherCallback, DoCallback
  <2>2. QED
    BY <1>2, <1>6, <2>1, WatchedCallStep DEF WatcherCallback
<1>7. CASE uv_signal_start_refused(h)
  BY <1>7, StartStep DEF uv_signal_start_refused, Usable, Visible
<1>8. QED
  BY <1>1, <1>3, <1>4, <1>5, <1>6, <1>7

(* Timers.                                                                 *)
LEMMA TimerLife ==
  ASSUME HandleInv, HandleInv', NEW h \in Handles, TimerNext(h)
  PROVE  LifeStep(h) \/ UNCHANGED handleVars
<1>1. CASE uv_timer_init(h)
  BY <1>1, TimerClass, InitStep DEF uv_timer_init
<1>2. CASE \E repeating \in BOOLEAN : uv_timer_start(h, repeating)
  BY <1>2, StartStep DEF uv_timer_start, Usable, Visible
<1>3. CASE \E repeating \in BOOLEAN : uv_timer_set_repeat(h, repeating)
  BY <1>3 DEF uv_timer_set_repeat
<1>4. CASE uv_timer_stop(h)
  BY <1>4, TimerClass, StopStep DEF uv_timer_stop
<1>5. CASE uv_timer_again(h)
  BY <1>5, StartStep DEF uv_timer_again, Usable, Visible
<1>6. CASE php_uv_timer_cb(h)
  <2>1. /\ obj[h].life = "live" /\ obj[h].active /\ obj[h].ce \in ReferencedClasses
        /\ vars' = vars /\ reqs' = reqs /\ lost' = lost
    BY <1>6, TimerClass DEF php_uv_timer_cb
  <2>2. CASE repeat[h]
    <3>1. DoCallback(h, "timer", GC_ADDREF(obj[h]))
      BY <1>6, <2>2 DEF php_uv_timer_cb
    <3>2. QED
      BY <2>1, <3>1, TimerClass, WatchedCallStep
  <2>3. CASE ~repeat[h]
    <3>1. DoCallback(h, "timer", [obj[h] EXCEPT !.active = FALSE])
      BY <1>6, <2>3 DEF php_uv_timer_cb
    <3>2. QED
      BY <2>1, <3>1, TimerClass, StoppedCallStep
  <2>4. QED
    BY <2>2, <2>3
<1>7. QED
  BY <1>1, <1>2, <1>3, <1>4, <1>5, <1>6 DEF TimerNext

(* Polls.                                                                  *)
LEMMA PollLife ==
  ASSUME HandleInv, HandleInv', NEW h \in Handles, PollNext(h)
  PROVE  LifeStep(h)
<1>1. CASE uv_poll_init(h) \/ uv_fs_poll_init(h)
  BY <1>1, PollClasses, InitStep DEF uv_poll_init, uv_fs_poll_init
<1>2. CASE \E events \in PollEvents : uv_poll_start(h, events)
  <2>1. PICK events \in PollEvents : uv_poll_start(h, events)
    BY <1>2
  <2>2. \E o \in {obj[h], GC_ADDREF(obj[h])} : obj' = [obj EXCEPT ![h] = [o EXCEPT !.active = (events # {})]]
    BY <2>1 DEF uv_poll_start
  <2>3. /\ obj[h].life = "live" /\ vars' = vars /\ reqs' = reqs /\ frame' = frame
        /\ lost' = lost \/ (lost[h] < MaxLost /\ lost' = [lost EXCEPT ![h] = @ + 1])
    BY <2>1 DEF uv_poll_start, Usable, Visible
  <2>4. QED
    BY <2>2, <2>3, StartStep
<1>3. CASE uv_poll_stop(h)
  BY <1>3, PollClasses, StopStep DEF uv_poll_stop
<1>4. CASE uv_fs_poll_stop(h)
  BY <1>4, PollClasses, StopStep DEF uv_fs_poll_stop
<1>5. CASE \E status \in PollStatus : php_uv_poll_cb(h, status)
  <2>1. /\ obj[h].life = "live" /\ obj[h].active /\ obj[h].ce \in ReferencedClasses
        /\ vars' = vars /\ reqs' = reqs /\ lost' = lost
        /\ \/ DoCallback(h, "poll", GC_ADDREF(obj[h]))
           \/ DoCallback(h, "poll", [obj[h] EXCEPT !.active = FALSE])
    BY <1>5, PollClasses DEF php_uv_poll_cb, DoCallback
  <2>2. QED
    BY <2>1, PollClasses, WatchedCallStep, StoppedCallStep
<1>6. CASE uv_fs_poll_start(h)
  BY <1>6, StartStep DEF uv_fs_poll_start, Usable, Visible
<1>7. CASE php_uv_fs_poll_cb(h)
  <2>1. DoCallback(h, "fs_poll", GC_ADDREF(obj[h]))
    BY <1>7 DEF php_uv_fs_poll_cb, DoCallback
  <2>2. QED
    BY <1>7, <2>1, PollClasses, WatchedCallStep DEF php_uv_fs_poll_cb
<1>8. QED
  BY <1>1, <1>2, <1>3, <1>4, <1>5, <1>6, <1>7 DEF PollNext

(* The program implements HandleLifetime, without what must happen: every  *)
(* step is one that HandleLifetime allows, or changes nothing of it.       *)
THEOREM ProgramKeepsLifetime == ProgramSafety => KeepsLifetime
<1>1. ProgramInit => Lifetime!Init
  BY InitLife DEF ProgramInit, TimerInit
<1>2. ProgramInv /\ ProgramInv' /\ [ProgramNext]_programVars
      => [Lifetime!LifeNext]_Lifetime!lifeVars
  <2> SUFFICES ASSUME ProgramInv, ProgramInv', [ProgramNext]_programVars,
                      ~UNCHANGED Lifetime!lifeVars
               PROVE  Lifetime!LifeNext
    OBVIOUS
  <2>1. PICK h \in Handles : ProgramStep(h)
    BY QuietLife DEF ProgramNext, programVars
  <2>2. LifeStep(h)
    BY <2>1, WatcherLife, TimerLife, PollLife, HandleNextLife, QuietLife DEF ProgramStep, ProgramInv
  <2>3. QED
    BY <2>2 DEF LifeStep, Lifetime!LifeNext
<1>3. QED
  BY <1>1, <1>2, ProgramInvariant, PTL DEF ProgramSafety, KeepsLifetime, Lifetime!LifeSafety
=============================================================================
