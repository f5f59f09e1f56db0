------------------------------- MODULE UVTimer ------------------------------
(***************************************************************************)
(* Timers.  A started timer owns a reference.  A one-shot timer stops      *)
(* before its callback runs, and the callback inherits that reference; a   *)
(* repeating timer is restarted before its callback runs and keeps it.     *)
(* Which of the two it is can change while the timer is running.           *)
(***************************************************************************)
EXTENDS UVHandle

VARIABLES
  repeat,   \* repeat[h]: handle->repeat is not zero
  armed     \* armed[h]: the timer was started before (timer_cb is set)

timerVars == <<repeat, armed>>

allTimerVars == <<handleVars, timerVars>>

uv_timer_init(h) == CreateHandle(h, "timer") /\ UNCHANGED timerVars

(* Refused with a notice when active.                                      *)
uv_timer_start(h, repeating) ==
  /\ Usable(h)
  /\ obj[h].ce = "timer"
  /\ ~obj[h].active
  /\ obj' = [obj EXCEPT ![h] = [GC_ADDREF(@) EXCEPT !.active = TRUE]]
  /\ repeat' = [repeat EXCEPT ![h] = repeating]
  /\ armed' = [armed EXCEPT ![h] = TRUE]
  /\ UNCHANGED <<vars, reqs, frame, lost>>

(* Refused with a notice when not active.                                  *)
uv_timer_stop(h) ==
  /\ Usable(h)
  /\ obj[h].ce = "timer"
  /\ obj[h].active
  /\ obj' = [obj EXCEPT ![h] = OBJ_RELEASE([@ EXCEPT !.active = FALSE])]
  /\ UNCHANGED <<vars, reqs, frame, lost, timerVars>>

(* Refused with a notice when active.  The reference is taken whatever     *)
(* libuv answers: a timer that was never started, or does not repeat, is   *)
(* not started, and the reference is abandoned.                            *)
uv_timer_again(h) ==
  /\ Usable(h)
  /\ obj[h].ce = "timer"
  /\ ~obj[h].active
  /\ IF armed[h] /\ repeat[h]
     THEN /\ obj' = [obj EXCEPT ![h] = [GC_ADDREF(@) EXCEPT !.active = TRUE]]
          /\ UNCHANGED lost
     ELSE /\ lost[h] < MaxLost
          /\ obj' = [obj EXCEPT ![h] = GC_ADDREF(@)]
          /\ lost' = [lost EXCEPT ![h] = @ + 1]
  /\ UNCHANGED <<vars, reqs, frame, timerVars>>

uv_timer_set_repeat(h, repeating) ==
  /\ Usable(h)
  /\ obj[h].ce = "timer"
  /\ repeat' = [repeat EXCEPT ![h] = repeating]
  /\ UNCHANGED <<handleVars, armed>>

(* Mutants of php_uv_timer_cb: the callback always inherits the reference  *)
(* of the start; or never when that is the last one.                       *)
InheritAlways(h) ==
  /\ obj[h].life = "live"
  /\ obj[h].ce = "timer"
  /\ obj[h].active
  /\ DoCallback(h, "timer", [obj[h] EXCEPT !.active = repeat[h]])
  /\ UNCHANGED <<vars, reqs, lost, timerVars>>

InheritShared(h) ==
  /\ obj[h].life = "live"
  /\ obj[h].ce = "timer"
  /\ obj[h].active
  /\ DoCallback(h, "timer",
                [IF repeat[h] \/ obj[h].rc = 1 THEN GC_ADDREF(obj[h]) ELSE obj[h]
                 EXCEPT !.active = repeat[h]])
  /\ UNCHANGED <<vars, reqs, lost, timerVars>>

(* libuv stops the timer, restarts it if it repeats, and then calls the C  *)
(* callback, which adds a reference for params[0] only if it repeats.      *)
php_uv_timer_cb(h) ==
  /\ obj[h].life = "live"
  /\ obj[h].ce = "timer"
  /\ obj[h].active
  /\ DoCallback(h, "timer", IF repeat[h] THEN GC_ADDREF(obj[h])
                            ELSE [obj[h] EXCEPT !.active = FALSE])
  /\ UNCHANGED <<vars, reqs, lost, timerVars>>

-----------------------------------------------------------------------------
TimerNext(h) ==
  \/ uv_timer_init(h)
  \/ \E repeating \in BOOLEAN : uv_timer_start(h, repeating) \/ uv_timer_set_repeat(h, repeating)
  \/ uv_timer_stop(h)
  \/ uv_timer_again(h)
  \/ php_uv_timer_cb(h)

TimerInit ==
  /\ HandleInit
  /\ repeat = [h \in Handles |-> FALSE]
  /\ armed = [h \in Handles |-> FALSE]

(* A program that uses nothing but timers.                                 *)
TimerSafety ==
  /\ TimerInit
  /\ [][\E h \in Handles : TimerNext(h) \/ (HandleNext(h) /\ UNCHANGED timerVars)]_allTimerVars

-----------------------------------------------------------------------------
TimerTypeOK ==
  /\ HandleTypeOK
  /\ repeat \in [Handles -> BOOLEAN]
  /\ armed \in [Handles -> BOOLEAN]

(* Fire and forget: uv_timer_start(uv_timer_init(), ...) with no variable  *)
(* left.  A one-shot timer fires, and what it owned is given back: it is   *)
(* released, unless its callback keeps it, or starts it again.             *)
FireAndForget ==
  \A h \in Handles :
    (obj[h].ce = "timer" /\ obj[h].active /\ ~repeat[h] /\ vars[h] = 0 /\ lost[h] = 0)
      ~> \/ obj[h].life = "freed"
         \/ vars[h] > 0 \/ lost[h] > 0
         \/ frame.handle = h /\ obj[h].active

(* A repeating timer that nobody stops or closes stays alive and active    *)
(* across its callbacks: a callback, or the return of one, never ends it.  *)
RepeatingSurvives ==
  [][\A h \in Handles :
       obj[h].ce = "timer" /\ obj[h].active /\ repeat[h] /\ frame' # frame
         => obj'[h].active /\ obj'[h].life = "live"]_allTimerVars
=============================================================================
