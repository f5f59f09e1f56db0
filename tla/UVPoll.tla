------------------------------- MODULE UVPoll -------------------------------
(***************************************************************************)
(* Descriptor polls (UVPoll) and path polls (UVFsPoll).  Both may be       *)
(* started while they are active; only the first of the two knows that the *)
(* reference has been taken already.                                       *)
(***************************************************************************)
EXTENDS UVHandle

uv_poll_init(h)    == CreateHandle(h, "poll")
uv_fs_poll_init(h) == CreateHandle(h, "fs_poll")

(* Mutant of uv_poll_start: no reference is taken.                         *)
PollUnowned(h, events) ==
  /\ Usable(h)
  /\ obj[h].ce = "poll"
  /\ obj' = [obj EXCEPT ![h].active = (events # {})]
  /\ UNCHANGED <<vars, reqs, frame, lost>>

(* A reference is taken unless the poll is active.  libuv stops the poll   *)
(* first, and leaves it stopped when there is no event to poll for: the    *)
(* reference stays behind.                                                 *)
uv_poll_start(h, events) ==
  /\ Usable(h)
  /\ obj[h].ce = "poll"
  /\ LET o == IF obj[h].active THEN obj[h] ELSE GC_ADDREF(obj[h])
     IN  obj' = [obj EXCEPT ![h] = [o EXCEPT !.active = (events # {})]]
  /\ IF events # {}
     THEN UNCHANGED lost
     ELSE lost[h] < MaxLost /\ lost' = [lost EXCEPT ![h] = @ + 1]
  /\ UNCHANGED <<vars, reqs, frame>>

uv_poll_stop(h) ==
  /\ Usable(h)
  /\ obj[h].ce = "poll"
  /\ obj[h].active
  /\ obj' = [obj EXCEPT ![h] = OBJ_RELEASE([@ EXCEPT !.active = FALSE])]
  /\ UNCHANGED <<vars, reqs, frame, lost>>

(* Mutant of php_uv_poll_cb: a reference of its own whatever the status.   *)
ErrorOwnedTwice(h, status) ==
  /\ obj[h].life = "live"
  /\ obj[h].ce = "poll"
  /\ obj[h].active
  /\ CallPHP(h, "poll", [GC_ADDREF(obj[h]) EXCEPT !.active = (status = "ok")])
  /\ UNCHANGED <<vars, reqs, lost>>

(* Mutant of php_uv_poll_cb: a reference of its own when the loop's is the  *)
(* last one, whatever the status.                                          *)
ErrorKeptAlive(h, status) ==
  /\ obj[h].life = "live"
  /\ obj[h].ce = "poll"
  /\ obj[h].active
  /\ CallPHP(h, "poll",
             [IF status = "ok" \/ obj[h].rc = 1 THEN GC_ADDREF(obj[h]) ELSE obj[h]
              EXCEPT !.active = (status = "ok")])
  /\ UNCHANGED <<vars, reqs, lost>>

(* libuv stops a poll whose descriptor is in error before it reports that  *)
(* error: the callback inherits the reference of the start.                *)
php_uv_poll_cb(h, status) ==
  /\ obj[h].life = "live"
  /\ obj[h].ce = "poll"
  /\ obj[h].active
  /\ CallPHP(h, "poll", IF status = "ok" THEN GC_ADDREF(obj[h])
                        ELSE [obj[h] EXCEPT !.active = FALSE])
  /\ UNCHANGED <<vars, reqs, lost>>

(* A reference is taken whatever the state; libuv ignores the start of an  *)
(* active path poll, and reports success.                                  *)
uv_fs_poll_start(h) ==
  /\ Usable(h)
  /\ obj[h].ce = "fs_poll"
  /\ obj' = [obj EXCEPT ![h] = [GC_ADDREF(@) EXCEPT !.active = TRUE]]
  /\ IF obj[h].active
     THEN lost[h] < MaxLost /\ lost' = [lost EXCEPT ![h] = @ + 1]
     ELSE UNCHANGED lost
  /\ UNCHANGED <<vars, reqs, frame>>

uv_fs_poll_stop(h) ==
  /\ Usable(h)
  /\ obj[h].ce = "fs_poll"
  /\ obj[h].active
  /\ obj' = [obj EXCEPT ![h] = OBJ_RELEASE([@ EXCEPT !.active = FALSE])]
  /\ UNCHANGED <<vars, reqs, frame, lost>>

(* A path poll goes on after an error.                                     *)
php_uv_fs_poll_cb(h) ==
  /\ obj[h].life = "live"
  /\ obj[h].ce = "fs_poll"
  /\ obj[h].active
  /\ CallPHP(h, "fs_poll", GC_ADDREF(obj[h]))
  /\ UNCHANGED <<vars, reqs, lost>>

-----------------------------------------------------------------------------
PollEvents == SUBSET {"readable", "writable"}
PollStatus == {"ok", "error"}

PollNext(h) ==
  \/ uv_poll_init(h)
  \/ \E events \in PollEvents : uv_poll_start(h, events)
  \/ uv_poll_stop(h)
  \/ \E status \in PollStatus : php_uv_poll_cb(h, status)
  \/ uv_fs_poll_init(h)
  \/ uv_fs_poll_start(h)
  \/ uv_fs_poll_stop(h)
  \/ php_uv_fs_poll_cb(h)

(* A program that uses nothing but polls.                                  *)
PollSafety ==
  HandleInit /\ [][\E h \in Handles : PollNext(h) \/ HandleNext(h)]_handleVars

-----------------------------------------------------------------------------
(* What the error callback of a poll inherited, nobody else needs: a poll  *)
(* that died of an error while only the loop held it is released after its *)
(* callback, unless the callback keeps it or starts it again.              *)
DeadPollReclaimed ==
  \A h \in Handles :
    (frame = [handle |-> h, cb |-> "poll"] /\ ~obj[h].active /\ vars[h] = 0 /\ lost[h] = 0)
      ~> \/ obj[h].life = "freed"
         \/ vars[h] > 0 \/ lost[h] > 0 \/ obj[h].active
=============================================================================
