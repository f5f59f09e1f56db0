------------------------------- MODULE UVDevice ------------------------------
(***************************************************************************)
(* Wake-ups (UVAsync), directory watches (UVFsEvent) and child processes   *)
(* (UVProcess).  They are active from their creation, and none of them is  *)
(* in php_uv_is_handle_referenced: only a process has a reference of its   *)
(* own, from uv_spawn until its exit is reported.                          *)
(***************************************************************************)
EXTENDS UVHandle

VARIABLES
  sent,    \* sent[h]: uv_async_send was called and the callback was not yet
  child    \* child[h]: the process: none, running, exited, reported

deviceVars == <<sent, child>>

allDeviceVars == <<handleVars, deviceVars>>

DeviceClasses == {"async", "fs_event", "process"}

CreateActive(h, class) ==
  /\ obj[h].life = "none"
  /\ obj' = [obj EXCEPT ![h] = [create_uv(class) EXCEPT !.active = TRUE]]
  /\ vars' = [vars EXCEPT ![h] = 1]
  /\ UNCHANGED <<reqs, frame, lost>>

DeviceCallback(h, class) ==
  /\ obj[h].life = "live"
  /\ obj[h].ce = class
  /\ obj[h].active
  /\ CallPHP(h, class, GC_ADDREF(obj[h]))
  /\ UNCHANGED <<vars, reqs, lost>>

-----------------------------------------------------------------------------
uv_async_init(h) == CreateActive(h, "async") /\ UNCHANGED deviceVars

(* Calls before the callback are one.                                      *)
uv_async_send(h) ==
  /\ Usable(h)
  /\ obj[h].ce = "async"
  /\ sent' = [sent EXCEPT ![h] = TRUE]
  /\ UNCHANGED <<handleVars, child>>

(* Mutant of php_uv_async_cb: the handle stops, like a timer that does not *)
(* repeat.                                                                 *)
AsyncStops(h) ==
  /\ obj[h].life = "live" /\ obj[h].active
  /\ sent[h]
  /\ CallPHP(h, "async", [GC_ADDREF(obj[h]) EXCEPT !.active = FALSE])
  /\ sent' = [sent EXCEPT ![h] = FALSE]
  /\ UNCHANGED <<vars, reqs, lost, child>>

php_uv_async_cb(h) ==
  /\ sent[h]
  /\ DeviceCallback(h, "async")
  /\ sent' = [sent EXCEPT ![h] = FALSE]
  /\ UNCHANGED child

-----------------------------------------------------------------------------
(* A watch that cannot be started is a fatal error.                        *)
uv_fs_event_init(h) == CreateActive(h, "fs_event") /\ UNCHANGED deviceVars

php_uv_fs_event_cb(h) == DeviceCallback(h, "fs_event") /\ UNCHANGED deviceVars

-----------------------------------------------------------------------------
(* Mutant of uv_spawn: the process owns nothing.                           *)
SpawnUnowned(h) ==
  /\ obj[h].life = "none"
  /\ obj' = [obj EXCEPT ![h] = [create_uv("process") EXCEPT !.active = TRUE]]
  /\ vars' = [vars EXCEPT ![h] = 1]
  /\ child' = [child EXCEPT ![h] = "running"]
  /\ UNCHANGED <<reqs, frame, lost, sent>>

(* The object of a process that could not be started never reaches the     *)
(* script: its release begins its close.                                   *)
uv_spawn(h) ==
  /\ obj[h].life = "none"
  /\ \/ /\ obj' = [obj EXCEPT ![h] = [GC_ADDREF(create_uv("process")) EXCEPT !.active = TRUE]]
        /\ vars' = [vars EXCEPT ![h] = 1]
        /\ child' = [child EXCEPT ![h] = "running"]
     \/ /\ obj' = [obj EXCEPT ![h] = OBJ_RELEASE(create_uv("process"))]
        /\ UNCHANGED <<vars, child>>
  /\ UNCHANGED <<reqs, frame, lost, sent>>

ChildExits(h) ==
  /\ child[h] = "running"
  /\ child' = [child EXCEPT ![h] = "exited"]
  /\ UNCHANGED <<handleVars, sent>>

(* Mutant of php_uv_process_close_cb: only for a process the script still  *)
(* has in a variable.                                                      *)
ExitSeen(h) ==
  /\ obj[h].life = "live" /\ obj[h].active /\ vars[h] > 0
  /\ child[h] = "exited"
  /\ CallPHP(h, "process", [obj[h] EXCEPT !.active = FALSE])
  /\ child' = [child EXCEPT ![h] = "reported"]
  /\ UNCHANGED <<vars, reqs, lost, sent>>

(* libuv stops the handle; the callback takes over uv_spawn's reference.   *)
php_uv_process_close_cb(h) ==
  /\ obj[h].life = "live" /\ obj[h].active
  /\ child[h] = "exited"
  /\ CallPHP(h, "process", [obj[h] EXCEPT !.active = FALSE])
  /\ child' = [child EXCEPT ![h] = "reported"]
  /\ UNCHANGED <<vars, reqs, lost, sent>>

(* The process has not been reported, and its object has uv_spawn's        *)
(* reference for it.                                                       *)
Unreported(h) == child[h] \in {"running", "exited"} /\ obj[h].phase = "open"

(* libuv forgets a process that is closed before its exit is reported, and *)
(* nobody gives its reference back.                                        *)
uv_device_close(h) ==
  /\ Usable(h)
  /\ obj[h].ce \in DeviceClasses
  /\ \E callable \in BOOLEAN :
       obj' = [obj EXCEPT ![h] = php_uv_close([@ EXCEPT !.notify = callable])]
  /\ IF Unreported(h)
     THEN lost[h] < MaxLost /\ lost' = [lost EXCEPT ![h] = @ + 1]
     ELSE UNCHANGED lost
  /\ UNCHANGED <<vars, reqs, frame, deviceVars>>

-----------------------------------------------------------------------------
DeviceNext(h) ==
  \/ uv_async_init(h) \/ uv_async_send(h) \/ php_uv_async_cb(h)
  \/ uv_fs_event_init(h) \/ php_uv_fs_event_cb(h)
  \/ uv_spawn(h) \/ ChildExits(h) \/ php_uv_process_close_cb(h)
  \/ uv_device_close(h)

DeviceInit ==
  /\ HandleInit
  /\ sent = [h \in Handles |-> FALSE]
  /\ child = [h \in Handles |-> "none"]

(* The loop delivers wake-ups and exits it has been told of.               *)
DeviceFairness ==
  \A h \in Handles :
    SF_allDeviceVars(php_uv_async_cb(h)) /\ SF_allDeviceVars(php_uv_process_close_cb(h))

-----------------------------------------------------------------------------
DeviceTypeOK ==
  /\ HandleTypeOK
  /\ sent \in [Handles -> BOOLEAN]
  /\ child \in [Handles -> {"none", "running", "exited", "reported"}]

(* The reference count of a live object: what every class has, and         *)
(* uv_spawn's while the exit of the process is to be reported.             *)
DeviceRefCountExact ==
  \A h \in Handles : obj[h].life = "live" /\ obj[h].ce \in DeviceClasses =>
    obj[h].rc = Holders(h) + (IF Unreported(h) THEN 1 ELSE 0)

(* A process outlives the script's variables: until its exit is reported   *)
(* only uv_close may take its handle from libuv.                           *)
ProcessIsKept ==
  [][\A h \in Handles :
       Unreported(h) /\ obj'[h].phase # "open" => Visible(h) /\ UNCHANGED <<vars, frame>>]_allDeviceVars

(* A wake-up is delivered unless the handle is closed first; every wake-up *)
(* sent after the callback was called calls it again.                      *)
WakeUpDelivered ==
  \A h \in Handles :
    sent[h] ~> (frame = [handle |-> h, cb |-> "async"] \/ obj[h].phase # "open")

(* The end of a process is reported unless the handle is closed first.     *)
ExitReported ==
  \A h \in Handles : child[h] = "exited" ~> (child[h] = "reported" \/ obj[h].phase # "open")
=============================================================================
