------------------------------- MODULE UVLoop -------------------------------
(***************************************************************************)
(* Event loops.  Handles and requests hold no reference to their loop, and *)
(* libuv's loop is embedded in the object (php_uv_loop_t): when the object *)
(* goes, its destructor closes every handle and runs the loop until        *)
(* nothing is left of it.  It first runs the loop with the stop flag set,  *)
(* to consume a flag that a uv_stop may have left behind.  The default     *)
(* loop is the extension's: its turn comes at the end of the request.      *)
(***************************************************************************)
EXTENDS Integers, SequencesExt

CONSTANTS
  Loops, DefaultLoop,
  Handles, NoLoop,
  SlowHandles, \* handles libuv needs several iterations to close (fs polls)
  MaxReqs,     \* bound: requests pending on a loop
  Throws       \* whether callbacks of the script may throw

ASSUME LoopAssumption ==
  /\ DefaultLoop \in Loops
  /\ NoLoop \notin Loops
  /\ SlowHandles \subseteq Handles
  /\ MaxReqs \in Nat
  /\ Throws \in BOOLEAN

VARIABLES
  loop,        \* loop[l]: the object and what libuv keeps in it
  handle,      \* handle[h]: an open, closing or closed handle and its loop
  requests,    \* requests[l]: submitted to l and not answered
  stack,       \* the calls of uv_run that have not returned, innermost last
  exception,   \* EG(exception): thrown and not caught
  ended        \* the script has ended, the destructors of all objects are called

loopVars == <<loop, handle, requests, stack, exception, ended>>

(* cut: an exception was pending when the run that drains it ended (ghost).*)
NewLoop == [life |-> "live", named |-> TRUE, dtored |-> FALSE, stop |-> FALSE, cut |-> FALSE]

Init ==
  /\ loop = [l \in Loops |-> [NewLoop EXCEPT !.life = "none", !.named = FALSE]]
  /\ handle = [h \in Handles |-> [on |-> NoLoop, stage |-> "none", active |-> FALSE,
                                  ref |-> TRUE, notify |-> FALSE]]
  /\ requests = [l \in Loops |-> 0]
  /\ stack = <<>>
  /\ exception = FALSE
  /\ ended = FALSE

-----------------------------------------------------------------------------
(* libuv.                                                                  *)

On(l, stage) == {h \in Handles : handle[h].on = l /\ handle[h].stage = stage}

(* uv_loop_alive.                                                          *)
Alive(l) ==
  \/ \E h \in On(l, "open") : handle[h].active /\ handle[h].ref
  \/ requests[l] > 0
  \/ On(l, "closing") # {}

(* A call of uv_run.  why: called by the script, or by the destructor to   *)
(* consume the stop flag, or to drain the loop.  at: where it is in its    *)
(* iteration; due: handles whose close it reports in this one; in: a       *)
(* callback of the script is running.                                      *)
Run(l, why, mode) ==
  [loop |-> l, why |-> why, mode |-> mode, at |-> "check", due |-> {}, in |-> FALSE]

Top == Last(stack)

Running(l) == \E i \in DOMAIN stack : stack[i].loop = l

SetTop(run) == stack' = Append(Front(stack), run)

-----------------------------------------------------------------------------
(* The script: outside of uv_run, or in a callback.                        *)

InScript == IF stack = <<>> THEN ~ended ELSE Top.in

ScriptRuns == InScript /\ ~exception

(* Mutant of UsableLoop: a loop is accepted while its destructor runs.     *)
UsableAlways(l) == loop[l].life = "live"

(* UV_PARAM_OBJ.  The default loop needs no variable.                      *)
UsableLoop(l) ==
  /\ loop[l].life = "live"
  /\ loop[l].named \/ l = DefaultLoop
  /\ ~loop[l].dtored

uv_loop_new(l) ==
  /\ ScriptRuns /\ ~ended
  /\ l # DefaultLoop
  /\ loop[l].life = "none"
  /\ loop' = [loop EXCEPT ![l] = NewLoop]
  /\ UNCHANGED <<handle, requests, stack, exception, ended>>

(* The first call creates it.                                              *)
php_uv_default_loop ==
  /\ ScriptRuns /\ ~ended
  /\ loop[DefaultLoop].life = "none"
  /\ loop' = [loop EXCEPT ![DefaultLoop] = [NewLoop EXCEPT !.named = FALSE]]
  /\ UNCHANGED <<handle, requests, stack, exception, ended>>

uv_init(h, l) ==
  /\ ScriptRuns
  /\ UsableLoop(l)
  /\ handle[h].stage = "none"
  /\ handle' = [handle EXCEPT ![h].on = l, ![h].stage = "open"]
  /\ UNCHANGED <<loop, requests, stack, exception, ended>>

(* Starts, stops, uv_ref and uv_unref.                                     *)
uv_start_stop(h) ==
  /\ ScriptRuns
  /\ handle[h].stage = "open"
  /\ \/ handle' = [handle EXCEPT ![h].active = ~@]
     \/ handle' = [handle EXCEPT ![h].ref = ~@]
  /\ UNCHANGED <<loop, requests, stack, exception, ended>>

Closing(o) == [o EXCEPT !.stage = "closing", !.active = FALSE]

uv_close(h) ==
  /\ ScriptRuns
  /\ handle[h].stage = "open"
  /\ \E callable \in BOOLEAN :
       handle' = [handle EXCEPT ![h] = Closing([@ EXCEPT !.notify = callable])]
  /\ UNCHANGED <<loop, requests, stack, exception, ended>>

(* The script let go of a handle that no activity keeps, or has ended.     *)
destruct_uv(h) ==
  /\ InScript \/ (ended /\ stack = <<>>)
  /\ handle[h].stage = "open"
  /\ ~(handle[h].active /\ ~ended)
  /\ handle' = [handle EXCEPT ![h] = Closing(@)]
  /\ UNCHANGED <<loop, requests, stack, exception, ended>>

Submit(l) ==
  /\ ScriptRuns
  /\ UsableLoop(l)
  /\ requests[l] < MaxReqs
  /\ requests' = [requests EXCEPT ![l] = @ + 1]
  /\ UNCHANGED <<loop, handle, stack, exception, ended>>

(* uv_run is not reentrant.                                                *)
uv_run(l) ==
  /\ ScriptRuns
  /\ UsableLoop(l) /\ ~Running(l)
  /\ \E mode \in {"default", "once"} : stack' = Append(stack, Run(l, "script", mode))
  /\ UNCHANGED <<loop, handle, requests, exception, ended>>

uv_stop(l) ==
  /\ ScriptRuns
  /\ UsableLoop(l)
  /\ loop' = [loop EXCEPT ![l].stop = TRUE]
  /\ UNCHANGED <<handle, requests, stack, exception, ended>>

-----------------------------------------------------------------------------
(* The end of a loop.                                                      *)

(* Mutant of destruct_uv_loop: no run to consume the stop flag.            *)
DestructAtOnce(o, l, runs) ==
  /\ loop' = [loop EXCEPT ![l] = [o EXCEPT !.dtored = TRUE]]
  /\ handle' = [h \in Handles |->
       IF h \in On(l, "open") THEN Closing(handle[h]) ELSE handle[h]]
  /\ stack' = Append(runs, Run(l, "drain", "default"))

(* The loop object becomes o, the calls of uv_run are runs, and the        *)
(* destructor begins: uv_stop, uv_run.                                     *)
destruct_uv_loop(o, l, runs) ==
  /\ loop' = [loop EXCEPT ![l] = [o EXCEPT !.dtored = TRUE, !.stop = TRUE]]
  /\ stack' = Append(runs, Run(l, "flush", "default"))
  /\ UNCHANGED handle

(* The last reference to l may have gone.                                  *)
OBJ_RELEASE(o, l, runs) ==
  IF o.named \/ (\E i \in DOMAIN runs : runs[i].loop = l)
  THEN loop' = [loop EXCEPT ![l] = o] /\ stack' = runs /\ UNCHANGED handle
  ELSE IF o.dtored
  THEN loop' = [loop EXCEPT ![l] = [o EXCEPT !.life = "freed"]] /\ stack' = runs /\ UNCHANGED handle
  ELSE destruct_uv_loop(o, l, runs)

(* unset($loop), or an exception unwinds the function it belongs to.       *)
UnsetLoop(l) ==
  /\ InScript
  /\ loop[l].life = "live" /\ loop[l].named
  /\ OBJ_RELEASE([loop[l] EXCEPT !.named = FALSE], l, stack)
  /\ UNCHANGED <<requests, exception, ended>>

uv_loop_delete(l) ==
  /\ ScriptRuns
  /\ UsableLoop(l) /\ ~Running(l)
  /\ l # DefaultLoop
  /\ destruct_uv_loop(loop[l], l, stack)
  /\ UNCHANGED <<requests, exception, ended>>

Catch ==
  /\ exception /\ InScript
  /\ exception' = FALSE
  /\ UNCHANGED <<loop, handle, requests, stack, ended>>

-----------------------------------------------------------------------------
(* uv_run.                                                                 *)

InLoop(at) == stack # <<>> /\ ~Top.in /\ Top.at = at

(* Zend calls nothing while an exception is pending; php_uv_do_callback2   *)
(* stops the loop.                                                         *)
Call(run) ==
  IF exception
  THEN SetTop(run) /\ loop' = [loop EXCEPT ![run.loop].stop = TRUE]
  ELSE SetTop([run EXCEPT !.in = TRUE]) /\ UNCHANGED loop

BeginIteration ==
  /\ InLoop("check")
  /\ Alive(Top.loop) /\ ~loop[Top.loop].stop
  /\ SetTop([Top EXCEPT !.at = "poll"])
  /\ UNCHANGED <<loop, handle, requests, exception, ended>>

HandleCallback(h) ==
  /\ InLoop("poll")
  /\ h \in On(Top.loop, "open") /\ handle[h].active
  /\ Call(Top)
  /\ UNCHANGED <<handle, requests, exception, ended>>

RequestCallback ==
  /\ InLoop("poll")
  /\ requests[Top.loop] > 0
  /\ requests' = [requests EXCEPT ![Top.loop] = @ - 1]
  /\ Call(Top)
  /\ UNCHANGED <<handle, exception, ended>>

BeginClosing(late) ==
  /\ InLoop("poll")
  /\ SetTop([Top EXCEPT !.at = "closing", !.due = On(Top.loop, "closing") \ late])
  /\ UNCHANGED <<loop, handle, requests, exception, ended>>

php_uv_close_cb(h) ==
  /\ InLoop("closing")
  /\ h \in Top.due
  /\ handle' = [handle EXCEPT ![h].stage = "closed", ![h].notify = FALSE]
  /\ LET run == [Top EXCEPT !.due = @ \ {h}]
     IN  IF handle[h].notify THEN Call(run) ELSE SetTop(run) /\ UNCHANGED loop
  /\ UNCHANGED <<requests, exception, ended>>

EndIteration ==
  /\ InLoop("closing")
  /\ Top.due = {}
  /\ SetTop([Top EXCEPT !.at = IF Top.mode = "once" THEN "end" ELSE "check"])
  /\ UNCHANGED <<loop, handle, requests, exception, ended>>

(* Mutant of ReturnFromCallback: what uv_stop did in the callback is lost. *)
ReturnRestarts ==
  /\ stack # <<>> /\ Top.in
  /\ SetTop([Top EXCEPT !.in = FALSE])
  /\ exception' \in {exception, exception \/ (Throws /\ ~ended)}
  /\ loop' = [loop EXCEPT ![Top.loop].stop = exception']
  /\ UNCHANGED <<handle, requests, ended>>

(* The callback returns, or throws.                                        *)
ReturnFromCallback ==
  /\ stack # <<>> /\ Top.in
  /\ SetTop([Top EXCEPT !.in = FALSE])
  /\ exception' \in {exception, exception \/ (Throws /\ ~ended)}
  /\ loop' = [loop EXCEPT ![Top.loop].stop = @ \/ exception']
  /\ UNCHANGED <<handle, requests, ended>>

(* Mutant of destruct_uv_loop_walk_cb: handles that are not active are not *)
(* closed.                                                                 *)
WalkActive(h) == IF handle[h].active THEN Closing(handle[h]) ELSE handle[h]

destruct_uv_loop_walk_cb(h) == Closing(handle[h])

(* uv_run returns, and clears the stop flag: to the script, which drops    *)
(* its argument; to the destructor, which closes all handles and runs the  *)
(* loop again, or is done.                                                 *)
RunEnds ==
  /\ InLoop("check") \/ InLoop("end")
  /\ Top.at = "check" => ~Alive(Top.loop) \/ loop[Top.loop].stop
  /\ LET l == Top.loop
         o == [loop[l] EXCEPT !.stop = FALSE, !.cut = @ \/ (Top.why = "drain" /\ exception)]
     IN  CASE Top.why = "script" /\ l # DefaultLoop -> OBJ_RELEASE(o, l, Front(stack))
           [] Top.why = "script" /\ l = DefaultLoop ->
                stack' = Front(stack) /\ loop' = [loop EXCEPT ![l] = o] /\ UNCHANGED handle
           [] Top.why = "flush" ->
                /\ handle' = [h \in Handles |->
                     IF h \in On(l, "open") THEN destruct_uv_loop_walk_cb(h) ELSE handle[h]]
                /\ loop' = [loop EXCEPT ![l] = o]
                /\ SetTop(Run(l, "drain", "default"))
           [] Top.why = "drain" -> OBJ_RELEASE(o, l, Front(stack))
  /\ UNCHANGED <<requests, exception, ended>>

-----------------------------------------------------------------------------
(* The end of the script: every variable goes, an exception is reported;   *)
(* the default loop is marked like every object, but not touched.          *)
ScriptEnd ==
  /\ stack = <<>> /\ ~ended
  /\ ended' = TRUE
  /\ exception' = FALSE
  /\ loop' = [l \in Loops |->
       [loop[l] EXCEPT !.named = FALSE, !.dtored = @ \/ l = DefaultLoop]]
  /\ UNCHANGED <<handle, requests, stack>>

(* Zend destroys what is left, in any order.                               *)
DestroyLoop(l) ==
  /\ ended /\ stack = <<>>
  /\ l # DefaultLoop /\ loop[l].life = "live"
  /\ OBJ_RELEASE(loop[l], l, stack)
  /\ UNCHANGED <<requests, exception, ended>>

(* Mutant of RSHUTDOWN: the loop is released as it is.                     *)
ShutdownAtOnce ==
  /\ ended /\ stack = <<>>
  /\ loop[DefaultLoop].life = "live"
  /\ loop' = [loop EXCEPT ![DefaultLoop].life = "freed"]
  /\ UNCHANGED <<handle, requests, stack, exception, ended>>

(* The same steps as the destructor's, on the default loop, after all      *)
(* destructors.                                                            *)
RSHUTDOWN ==
  /\ ended /\ stack = <<>>
  /\ loop[DefaultLoop].life = "live"
  /\ \A l \in Loops \ {DefaultLoop} : loop[l].life # "live"
  /\ destruct_uv_loop(loop[DefaultLoop], DefaultLoop, stack)
  /\ UNCHANGED <<requests, exception, ended>>

-----------------------------------------------------------------------------
LoopNext ==
  \/ BeginIteration \/ (\E late \in SUBSET SlowHandles : BeginClosing(late)) \/ EndIteration \/ RunEnds
  \/ RequestCallback \/ ReturnFromCallback
  \/ \E h \in Handles : HandleCallback(h) \/ php_uv_close_cb(h)

ScriptNext ==
  \/ php_uv_default_loop \/ Catch
  \/ \E l \in Loops :
       \/ uv_loop_new(l) \/ UnsetLoop(l) \/ uv_loop_delete(l)
       \/ uv_run(l) \/ uv_stop(l) \/ Submit(l)
  \/ \E h \in Handles :
       \/ uv_start_stop(h) \/ uv_close(h) \/ destruct_uv(h)
       \/ \E l \in Loops : uv_init(h, l)

ShutdownNext == ScriptEnd \/ RSHUTDOWN \/ \E l \in Loops : DestroyLoop(l)

Next == LoopNext \/ ScriptNext \/ ShutdownNext

Safety == Init /\ [][Next]_loopVars

(* libuv makes progress through its iterations; callbacks return; what the *)
(* script submitted is answered; once the script has ended PHP proceeds.   *)
Spec ==
  /\ Safety
  /\ WF_loopVars(BeginIteration) /\ WF_loopVars(EndIteration) /\ WF_loopVars(RunEnds)
  /\ WF_loopVars(ReturnFromCallback)
  /\ SF_loopVars(BeginClosing({}))
  /\ SF_loopVars(RequestCallback)
  /\ \A h \in Handles : WF_loopVars(php_uv_close_cb(h))
  /\ WF_loopVars(RSHUTDOWN)
  /\ \A l \in Loops : WF_loopVars(DestroyLoop(l))

-----------------------------------------------------------------------------
Runs == [loop : Loops, why : {"script", "flush", "drain"}, mode : {"default", "once"},
         at : {"check", "poll", "closing", "end"}, due : SUBSET Handles, in : BOOLEAN]

LoopObjects == [life : {"none", "live", "freed"}, named : BOOLEAN,
                dtored : BOOLEAN, stop : BOOLEAN, cut : BOOLEAN]

HandleObjects == [on : Loops \cup {NoLoop}, active : BOOLEAN, ref : BOOLEAN, notify : BOOLEAN,
                  stage : {"none", "open", "closing", "closed"}]

LoopTypeOK ==
  /\ loop \in [Loops -> LoopObjects]
  /\ handle \in [Handles -> HandleObjects]
  /\ requests \in [Loops -> 0 .. MaxReqs]
  /\ stack \in Seq(Runs)
  /\ exception \in BOOLEAN
  /\ ended \in BOOLEAN

(* The calls of uv_run are on different loops, which are alive, each in a  *)
(* callback of the one below it.  Those of the destructor, and no others,  *)
(* are on loops whose destructor has been called.                          *)
RunsNest ==
  /\ \A i, j \in DOMAIN stack : stack[i].loop = stack[j].loop => i = j
  /\ \A i \in DOMAIN stack : i < Len(stack) => stack[i].in
  /\ \A i \in DOMAIN stack :
       LET run == stack[i]
       IN  /\ loop[run.loop].life = "live"
           /\ loop[run.loop].dtored <=> run.why # "script"
           /\ run.mode = "once" => run.why = "script"
           /\ run.at = "end" => run.mode = "once"
           /\ run.in => run.at \in {"poll", "closing"}

(* The last run of a loop finds no open handle on it, and can only be      *)
(* stopped by an exception, after it has reported the closes that it saw.  *)
Drains(run) ==
  LET l == run.loop
      late == On(l, "closing") \ (IF run.at = "closing" THEN run.due ELSE {})
  IN  /\ On(l, "open") = {}
      /\ loop[l].stop => exception /\ ~run.in
      /\ run.at = "closing" \/ (run.at = "check" /\ loop[l].stop) => late \subseteq SlowHandles

DrainsEmpty == \A i \in DOMAIN stack : stack[i].why = "drain" => Drains(stack[i])

(* The destructor of l is over.                                            *)
Drained(l) ==
  \/ loop[l].life = "freed"
  \/ loop[l].life = "live" /\ loop[l].dtored /\ l # DefaultLoop /\ ~Running(l)

(* "for proper destruction: close all handles, let libuv call close        *)
(* callback and then close and free the loop": nothing is left in the      *)
(* memory of a loop when it is freed, neither a handle, of which libuv     *)
(* reported all closes, nor a request.  If a callback of the last run      *)
(* throws, what takes libuv more than one iteration is left.               *)
Empty(l) ==
  /\ On(l, "open") = {}
  /\ IF loop[l].cut THEN On(l, "closing") \subseteq SlowHandles
     ELSE On(l, "closing") = {} /\ requests[l] = 0

FreedLoopIsEmpty == \A l \in Loops : loop[l].life = "freed" => Empty(l)

(* What makes it so: the default loop, which no variable holds, is freed   *)
(* when its last run ends; no other loop gets a handle or a request after  *)
(* its last run.                                                           *)
LoopInv ==
  /\ LoopTypeOK
  /\ RunsNest
  /\ DrainsEmpty
  /\ ~loop[DefaultLoop].named
  /\ \A l \in Loops : Drained(l) => Empty(l)

Innermost(l) == stack # <<>> /\ Top.loop = l

(* A destructor that has begun is over some time, whatever the loop was    *)
(* doing and whatever the close callbacks do on it; they may run another   *)
(* loop, that never ends.                                                  *)
DestructionEnds ==
  \A l \in Loops : (loop[l].dtored /\ Innermost(l)) ~> ~Innermost(l)

(* "Stop the event loop, causing uv_run() to end as soon as possible."     *)
(* (The same restriction.)                                                 *)
StopEndsRun ==
  \A l \in Loops : (Innermost(l) /\ loop[l].stop) ~> ~Innermost(l)

(* Once the script has ended, every close that was begun is reported, on   *)
(* loops that nobody ran any more too; unless an exception cut the last    *)
(* run of its loop.                                                        *)
ClosesComplete ==
  \A h \in Handles :
    (ended /\ handle[h].stage = "closing") ~>
      (handle[h].stage = "closed" \/ \E l \in Loops : handle[h].on = l /\ loop[l].cut)
=============================================================================
