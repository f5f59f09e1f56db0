------------------------------ MODULE UVHandle ------------------------------
(***************************************************************************)
(* The life of one UV object of the extension: a Zend object (php_uv_t)    *)
(* with a libuv handle embedded in it.  Two owners of memory meet here:    *)
(* Zend counts references to the object and destroys it at zero; libuv     *)
(* keeps the address of the embedded handle while it is active or closing. *)
(* The extension adds and drops references so that the object outlives     *)
(* whatever libuv still does with it.                                      *)
(*                                                                         *)
(* An object is one record; the operators of the first part are the C      *)
(* functions and macros that change it, as functions from record to        *)
(* record, so that an operation of a handle class is their composition in  *)
(* the order of the C code.  The second part holds the actions every class *)
(* shares: the script's variables, uv_close() and its completion.          *)
(***************************************************************************)
EXTENDS Integers

CONSTANTS
  Handles,    \* the objects a script may create; an object is never reused
  NoHandle,   \* stands for "no callback is running"
  MaxVars,    \* bound: script variables that hold one object at a time
  MaxReqs,    \* bound: requests of one kind in flight on one object
  MaxLost     \* bound: references the code may abandon on one object

ASSUME HandleAssumption ==
  /\ NoHandle \notin Handles
  /\ MaxVars \in Nat \ {0}
  /\ MaxReqs \in Nat
  /\ MaxLost \in Nat

VARIABLES
  obj,    \* obj[h]: the Zend object and the libuv handle in it
  vars,   \* vars[h]: script variables, properties, array slots that hold h
  reqs,   \* reqs[h][kind]: the requests in flight that own a reference to h
  frame,  \* the C callback libuv has called and whose PHP callback is running
  lost    \* lost[h]: references the code took and that nothing will drop

handleVars == <<obj, vars, reqs, frame, lost>>

-----------------------------------------------------------------------------
(* Types.                                                                  *)

Classes == {"pipe", "tty", "tcp", "udp", "prepare", "check", "idle", "async",
            "timer", "process", "fs_event", "poll", "fs_poll", "signal"}

(* The classes whose activity is paid for by a reference of its own, taken *)
(* by the start function.                                                  *)
ReferencedClasses == {"signal", "timer", "idle", "udp", "tcp", "tty", "pipe",
                      "prepare", "check", "poll", "fs_poll"}

Lives  == {"none", "live", "freed"}
Phases == {"open", "closing", "closed", "aborted"}

Object == [ce     : Classes \cup {"none"},
           life   : Lives,     \* memory: not created, allocated, released
           rc     : Nat,       \* the Zend reference count
           dtored : BOOLEAN,   \* IS_OBJ_DESTRUCTOR_CALLED
           phase  : Phases,    \* of the libuv handle; aborted: uv_close twice
           active : BOOLEAN,   \* uv_is_active
           notify : BOOLEAN]   \* callback[PHP_UV_CLOSE_CB] holds a callable

Absent == [ce |-> "none", life |-> "none", rc |-> 0, dtored |-> FALSE,
           phase |-> "open", active |-> FALSE, notify |-> FALSE]

ReqKinds == {"connect", "write", "shutdown"}

NoReqs == [kind \in ReqKinds |-> 0]

(* The C callbacks that call into PHP: one per class, and those of streams *)
(* and closes.  php_uv_read_cb with nothing read is read_end, or           *)
(* read_error when libuv has work to do after it.                          *)
Callbacks == Classes \cup ReqKinds \cup
             {"none", "close", "read", "read_end", "read_error", "listen", "send", "recv"}

NoFrame == [handle |-> NoHandle, cb |-> "none"]

-----------------------------------------------------------------------------
(* The C functions and macros.                                             *)

(* create_uv and a successful uv_*_init: one reference, the script's.      *)
create_uv(class) ==
  [Absent EXCEPT !.ce = class, !.life = "live", !.rc = 1]

GC_ADDREF(o) == [o EXCEPT !.rc = @ + 1]

php_uv_is_handle_referenced(o) == o.ce \in ReferencedClasses /\ o.active

(* libuv: the handle stops and its close callback is due.  A second call   *)
(* hits libuv's assertion (and the extension's own ZEND_ASSERT).           *)
libuv_close(o) ==
  IF o.phase = "open"
  THEN [o EXCEPT !.phase = "closing", !.active = FALSE]
  ELSE [o EXCEPT !.phase = "aborted", !.active = FALSE]

(* Mutants of php_uv_close: the close owns no reference; or always a new   *)
(* one, and that of the activity is forgotten.                             *)
CloseUnowned(o)     == [libuv_close(o) EXCEPT !.dtored = TRUE]
CloseOwnedTwice(o)  == [libuv_close(GC_ADDREF(o)) EXCEPT !.dtored = TRUE]

(* The closing handle owns one reference until php_uv_close_cb drops it:   *)
(* the one of its activity, if it is active and has one, or a new one.     *)
php_uv_close(o) ==
  LET held == IF php_uv_is_handle_referenced(o) THEN o ELSE GC_ADDREF(o)
  IN  [libuv_close(held) EXCEPT !.dtored = TRUE]

(* destruct_uv, the dtor_obj of every class that libuv can close.          *)
destruct_uv(o) == php_uv_close(o)

zend_free(o) == [o EXCEPT !.life = "freed", !.rc = 0]

(* Zend: the last reference runs the destructor once, with the count held  *)
(* at one; only an object the destructor did not resurrect is freed.       *)
OBJ_RELEASE(o) ==
  IF o.rc > 1 THEN [o EXCEPT !.rc = @ - 1]
  ELSE IF o.dtored THEN zend_free(o)
  ELSE LET d == destruct_uv([o EXCEPT !.rc = 1, !.dtored = TRUE])
       IN  IF d.rc > 1 THEN [d EXCEPT !.rc = @ - 1] ELSE zend_free(d)

(* clean_uv_handle: the callback slots are released, and no destructor     *)
(* will run from here on.                                                  *)
clean_uv_handle(o) == [o EXCEPT !.dtored = TRUE, !.notify = FALSE]

-----------------------------------------------------------------------------
(* What the script can reach.                                              *)

(* The running callback can name its first argument.                       *)
Visible(h) == obj[h].life = "live" /\ (vars[h] > 0 \/ frame.handle = h)

(* Mutant of Usable: a handle that is closing is accepted.                 *)
UsableAlways(h) == Visible(h)

(* UV_PARAM_OBJ: every function refuses an object whose destructor ran.    *)
Usable(h) == Visible(h) /\ ~obj[h].dtored

HandleInit ==
  /\ obj = [h \in Handles |-> Absent]
  /\ vars = [h \in Handles |-> 0]
  /\ reqs = [h \in Handles |-> NoReqs]
  /\ frame = NoFrame
  /\ lost = [h \in Handles |-> 0]

(* A uv_*_init function returned a new object to the script.               *)
CreateHandle(h, class) ==
  /\ obj[h].life = "none"
  /\ obj' = [obj EXCEPT ![h] = create_uv(class)]
  /\ vars' = [vars EXCEPT ![h] = 1]
  /\ UNCHANGED <<reqs, frame, lost>>

(* $b = $a, or a variable captured by a closure.                           *)
CopyVariable(h) ==
  /\ Visible(h)
  /\ vars[h] < MaxVars
  /\ obj' = [obj EXCEPT ![h] = GC_ADDREF(@)]
  /\ vars' = [vars EXCEPT ![h] = @ + 1]
  /\ UNCHANGED <<reqs, frame, lost>>

(* unset($a), or its scope ends.                                           *)
UnsetVariable(h) ==
  /\ Visible(h)
  /\ vars[h] > 0
  /\ obj' = [obj EXCEPT ![h] = OBJ_RELEASE(@)]
  /\ vars' = [vars EXCEPT ![h] = @ - 1]
  /\ UNCHANGED <<reqs, frame, lost>>

(* uv_close($h) or uv_close($h, $callback).                                *)
uv_close(h) ==
  /\ Usable(h)
  /\ \E callable \in BOOLEAN :
       obj' = [obj EXCEPT ![h] = php_uv_close([@ EXCEPT !.notify = callable])]
  /\ UNCHANGED <<vars, reqs, frame, lost>>

-----------------------------------------------------------------------------
(* Callbacks.  libuv calls the C callback, which calls the PHP callback    *)
(* with the object as argument: Zend copies the argument for the time of   *)
(* the call, and params[0] of the C frame is released after it.  So a      *)
(* running callback stands for two references: the copy, and the one the   *)
(* C callback took (or inherited) for params[0].                           *)

(* php_uv_do_callback, php_uv_do_callback2: zend_call_function copies its  *)
(* argument o into the frame of cb.                                        *)
CallPHP(h, cb, o) ==
  /\ frame = NoFrame
  /\ frame' = [handle |-> h, cb |-> cb]
  /\ obj' = [obj EXCEPT ![h] = GC_ADDREF(o)]

(* The C callback cb with o, when its slot may hold no callable: nothing   *)
(* is called and the epilogue, zval_ptr_dtor(&params[0]), follows at once. *)
DoCallback(h, cb, o) ==
  \/ CallPHP(h, cb, o)
  \/ /\ frame = NoFrame
     /\ obj' = [obj EXCEPT ![h] = OBJ_RELEASE(o)]
     /\ UNCHANGED frame

(* The PHP callback returns: Zend drops the copy, zval_ptr_dtor(&params[0])*)
(* drops the other reference.                                              *)
ReturnFromCallback(h) ==
  /\ frame.handle = h
  /\ frame.cb \notin {"close", "read_error", "send"}
  /\ frame' = NoFrame
  /\ obj' = [obj EXCEPT ![h] = OBJ_RELEASE(OBJ_RELEASE(@))]
  /\ UNCHANGED <<vars, reqs, lost>>

(* Mutant of php_uv_close_cb: the slots are cleaned before the call.       *)
CloseSilently(h) ==
  /\ frame = NoFrame
  /\ obj[h].life = "live" /\ obj[h].phase = "closing"
  /\ reqs[h] = NoReqs
  /\ obj' = [obj EXCEPT ![h] = OBJ_RELEASE(clean_uv_handle([@ EXCEPT !.phase = "closed"]))]
  /\ UNCHANGED <<vars, reqs, frame, lost>>

(* libuv has finished closing the handle, every request on it answered:    *)
(* php_uv_close_cb calls the user's callback, if there is one, or goes     *)
(* straight to its epilogue.                                               *)
php_uv_close_cb(h) ==
  /\ frame = NoFrame
  /\ obj[h].life = "live" /\ obj[h].phase = "closing"
  /\ reqs[h] = NoReqs
  /\ LET o == [obj[h] EXCEPT !.phase = "closed"]
     IN  IF o.notify
         THEN CallPHP(h, "close", o)
         ELSE /\ obj' = [obj EXCEPT ![h] = OBJ_RELEASE(clean_uv_handle(o))]
              /\ UNCHANGED frame
  /\ UNCHANGED <<vars, reqs, lost>>

(* The user's close callback returned: the slots are cleaned and the       *)
(* reference of the close is dropped.                                      *)
php_uv_close_cb_return(h) ==
  /\ frame = [handle |-> h, cb |-> "close"]
  /\ frame' = NoFrame
  /\ obj' = [obj EXCEPT ![h] = OBJ_RELEASE(clean_uv_handle(OBJ_RELEASE(@)))]
  /\ UNCHANGED <<vars, reqs, lost>>

(* What every class has in common.                                         *)
HandleNext(h) ==
  \/ CopyVariable(h)
  \/ UnsetVariable(h)
  \/ uv_close(h)
  \/ ReturnFromCallback(h)
  \/ php_uv_close_cb(h)
  \/ php_uv_close_cb_return(h)

(* The loop keeps running and user callbacks return: every loop iteration  *)
(* ends with the close callbacks that are due, whatever other callbacks it *)
(* ran before (strong fairness: a running callback disables them).  The    *)
(* script itself is never obliged to do anything.                          *)
HandleFairness ==
  \A h \in Handles :
    /\ SF_handleVars(php_uv_close_cb(h))
    /\ WF_handleVars(php_uv_close_cb_return(h))
    /\ WF_handleVars(ReturnFromCallback(h))

-----------------------------------------------------------------------------
(* Who holds a reference to h: libuv, for a referenced activity and for a  *)
(* pending close; requests in flight; the script; the running callback.    *)

LoopRef(o)   == IF php_uv_is_handle_referenced(o) THEN 1 ELSE 0
CloseRef(o)  == IF o.phase = "closing" THEN 1 ELSE 0
Pending(h)   == reqs[h]["connect"] + reqs[h]["write"] + reqs[h]["shutdown"]
FrameRefs(h) == IF frame.handle = h THEN 2 ELSE 0

Holders(h) ==
  LoopRef(obj[h]) + CloseRef(obj[h]) + Pending(h) + vars[h] + FrameRefs(h) + lost[h]

(* The abstraction to HandleLifetime: the owners are the places with a     *)
(* share in Holders, the stage forgets the counter.                        *)
OwnersOf(h) ==
  {o \in {"script", "call", "loop", "request", "close", "lost"} :
     \/ o = "script"  /\ vars[h] > 0
     \/ o = "call"    /\ FrameRefs(h) > 0
     \/ o = "loop"    /\ LoopRef(obj[h]) > 0
     \/ o = "request" /\ Pending(h) > 0
     \/ o = "close"   /\ CloseRef(obj[h]) > 0
     \/ o = "lost"    /\ lost[h] > 0}

StageOf(h) == IF obj[h].life = "live" THEN obj[h].phase ELSE obj[h].life

-----------------------------------------------------------------------------
(* Properties of every handle class.                                       *)

HandleTypeOK ==
  /\ obj \in [Handles -> Object]
  /\ vars \in [Handles -> 0 .. MaxVars]
  /\ reqs \in [Handles -> [ReqKinds -> 0 .. MaxReqs]]
  /\ frame \in [handle : Handles \cup {NoHandle}, cb : Callbacks]
  /\ lost \in [Handles -> 0 .. MaxLost]

(* The reference count of a live object is exactly the number of places    *)
(* that hold it: script variables, the running callback, libuv's activity, *)
(* requests in flight, a pending close (and what the code abandoned).  One *)
(* reference too few is a use after free, one too many a leak.             *)
RefCountExact == \A h \in Handles : obj[h].life = "live" => obj[h].rc = Holders(h)

(* Freed memory is reachable from nowhere: no script variable, no running  *)
(* callback, no request in flight, and libuv has finished closing the      *)
(* handle embedded in it.                                                  *)
FreedIsUnreachable ==
  \A h \in Handles :
    obj[h].life = "freed" =>
      /\ vars[h] = 0 /\ Pending(h) = 0 /\ frame.handle # h
      /\ obj[h].phase = "closed" /\ ~obj[h].active

(* uv_close is never called twice on a handle, the assertion of            *)
(* php_uv_close, although the script and the destructor may both try to.   *)
ClosedOnce == \A h \in Handles : obj[h].phase # "aborted"

(* A live object: the destructor flag says that its close has begun, and   *)
(* only an open handle is active.                                          *)
LiveShape(o) ==
  /\ o.life = "live"
  /\ o.ce \in Classes
  /\ o.phase # "aborted"
  /\ o.dtored <=> o.phase # "open"
  /\ o.active => o.phase = "open"

(* The state around one object: one not yet created or already freed is    *)
(* known to nobody; a running callback keeps its object alive, and is the  *)
(* close callback exactly when libuv is done with the handle.              *)
WellFormed(h) ==
  \/ /\ obj[h] = Absent
     /\ vars[h] = 0 /\ Pending(h) = 0 /\ lost[h] = 0 /\ frame.handle # h
  \/ /\ LiveShape(obj[h])
     /\ frame.handle = h => (frame.cb = "close" <=> obj[h].phase = "closed")
  \/ /\ obj[h].life = "freed" /\ obj[h].rc = 0
     /\ obj[h].phase = "closed" /\ ~obj[h].active
     /\ vars[h] = 0 /\ Pending(h) = 0 /\ lost[h] = 0 /\ frame.handle # h

WellCounted(h) ==
  obj[h].life = "live" =>
    /\ obj[h].rc = Holders(h)
    /\ obj[h].rc > 0

(* The inductive form of the invariants above.                             *)
HandleInv ==
  /\ HandleTypeOK
  /\ \A h \in Handles : WellFormed(h) /\ WellCounted(h)

(* A started handle is not torn down because the script dropped its last   *)
(* variable or because a callback returned: no step that drops what they   *)
(* hold starts the close of an active handle.                              *)
ActiveIsKept ==
  [][\A h \in Handles :
       obj[h].active /\ obj'[h].phase = "closing" => UNCHANGED <<vars, frame>>]_handleVars

(* The close callback given to uv_close is called, whatever happens to the *)
(* script's variables in between.                                          *)
CloseNotified ==
  \A h \in Handles :
    (obj[h].phase = "closing" /\ obj[h].notify) ~> frame = [handle |-> h, cb |-> "close"]

(* The reference counting keeps the promise of HandleLifetime: an object   *)
(* is closed when its last owner lets go, freed when it has no owner and   *)
(* only then, and every close completes.                                   *)
Lifetime == INSTANCE HandleLifetime WITH
              stage  <- [h \in Handles |-> StageOf(h)],
              owners <- [h \in Handles |-> OwnersOf(h)]

ImplementsLifetime == Lifetime!LifeSpec

(* The same without what must happen: php_uv_close, destruct_uv and every  *)
(* OBJ_RELEASE is a step that HandleLifetime allows.                       *)
KeepsLifetime == Lifetime!LifeSafety
=============================================================================
