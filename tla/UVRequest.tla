------------------------------ MODULE UVRequest ------------------------------
(***************************************************************************)
(* Requests that run on libuv's thread pool: file system operations,       *)
(* getaddrinfo, and PHP functions (uv_queue_work).  The script never gets  *)
(* the object of a request.  The object's first reference belongs to the   *)
(* request, its slots hold the callback, and its fs_fd and fs_fd_alt the   *)
(* PHP streams the operation works on.  When the script ends, Zend runs    *)
(* the destructor of every object left, in whatever stage its job is; the  *)
(* loop is run once more after that.                                       *)
(***************************************************************************)
EXTENDS Integers, FiniteSets

CONSTANTS
  Requests,    \* the requests a script may make
  Files,       \* the PHP streams it may use
  NoFile,
  Operations,  \* the operations this instance makes
  Workers,     \* threads in libuv's pool
  ScriptEnds,  \* whether the script may end with requests pending
  AbandonsWork \* whether lookups and work functions may be among them

(* path: names no stream; file: passes its stream to the callback; close:  *)
(* passes the result in its place (uv_fs_close, uv_fs_futime); copy:       *)
(* uv_fs_sendfile.                                                         *)
FsOperations == {"path", "file", "close", "copy"}

ASSUME RequestAssumption ==
  /\ NoFile \notin Files
  /\ Operations \subseteq FsOperations \cup {"getaddrinfo", "work"}
  /\ Workers \in Nat \ {0}
  /\ ScriptEnds \in BOOLEAN /\ AbandonsWork \in BOOLEAN

VARIABLES
  uv,      \* uv[r]: the object of the request
  job,     \* job[r]: where libuv is with it
  refs,    \* refs[f]: Zend's reference count of the stream; 0 closes it
  script,  \* script[f]: the script has the stream in a variable
  lost,    \* lost[f]: references to the stream that nobody will give back
  lent,    \* lent[r]: the streams whose descriptors libuv got with the operation
  closed,  \* closed[f]: uv_fs_close has closed the stream's descriptor
  ended    \* the script has ended

fileVars == <<script, lent, closed>>

requestVars == <<uv, job, refs, lost, fileVars, ended>>

Jobs == {"none", "queued", "running", "finished", "cancelled", "answered", "refused"}

Object == [op        : FsOperations \cup {"none", "getaddrinfo", "work"},
           life      : {"none", "live", "freed"},
           rc        : Nat,
           dtored    : BOOLEAN,
           slots     : {"none", "set", "freed"},  \* the memory callback[] points to
           fs_fd     : Files \cup {NoFile},
           fs_fd_alt : Files \cup {NoFile}]

Absent == [op |-> "none", life |-> "none", rc |-> 0, dtored |-> FALSE,
           slots |-> "none", fs_fd |-> NoFile, fs_fd_alt |-> NoFile]

Init ==
  /\ uv = [r \in Requests |-> Absent]
  /\ job = [r \in Requests |-> "none"]
  /\ refs = [f \in Files |-> 1]
  /\ script = [f \in Files |-> TRUE]
  /\ lost = [f \in Files |-> 0]
  /\ lent = [r \in Requests |-> [fd |-> NoFile, alt |-> NoFile]]
  /\ closed = [f \in Files |-> FALSE]
  /\ ended = FALSE

-----------------------------------------------------------------------------
(* The streams in the object's two fields, as a count per stream.          *)
Stored(o, f) == (IF o.fs_fd = f THEN 1 ELSE 0) + (IF o.fs_fd_alt = f THEN 1 ELSE 0)

(* Mutant of clean_uv_handle: the destructor is not said to have run.      *)
CleanUnmarked(o) ==
  [o EXCEPT !.slots = "freed", !.fs_fd = NoFile, !.fs_fd_alt = NoFile]

(* clean_uv_handle: the slots are released (their addresses stay), and the *)
(* streams; no destructor will run.                                        *)
clean_uv_handle(o) ==
  [o EXCEPT !.slots = "freed", !.dtored = TRUE, !.fs_fd = NoFile, !.fs_fd_alt = NoFile]

OBJ_RELEASE(o) ==
  IF o.rc > 1 THEN [o EXCEPT !.rc = @ - 1] ELSE [o EXCEPT !.rc = 0, !.life = "freed"]

(* The object becomes o; the streams it does not store any more are given  *)
(* back, but for those that are forgotten.                                 *)
Become(r, o, forgotten) ==
  /\ uv' = [uv EXCEPT ![r] = o]
  /\ refs' = [f \in Files |->
       refs[f] - Stored(uv[r], f) + Stored(o, f) + (IF f = forgotten THEN 1 ELSE 0)]
  /\ lost' = [f \in Files |-> lost[f] + (IF f = forgotten THEN 1 ELSE 0)]

-----------------------------------------------------------------------------
(* Submitting.                                                             *)

Request(op, fd, alt) ==
  [Absent EXCEPT !.op = op, !.life = "live", !.rc = 1, !.slots = "set",
                 !.fs_fd = fd, !.fs_fd_alt = alt]

(* Mutant of php_uv_fs_common: the streams are stored and not counted.     *)
SubmitUncounted(r, op, fd, alt) ==
  /\ ~ended /\ job[r] = "none"
  /\ op \in Operations \cap FsOperations
  /\ fd # NoFile <=> op # "path"
  /\ alt # NoFile <=> op = "copy"
  /\ \A f \in {fd, alt} \ {NoFile} : script[f]
  /\ uv' = [uv EXCEPT ![r] = Request(op, fd, alt)]
  /\ job' = [job EXCEPT ![r] = "queued"]
  /\ lent' = [lent EXCEPT ![r] = [fd |-> fd, alt |-> alt]]
  /\ UNCHANGED <<refs, lost, script, closed, ended>>

(* Mutant of php_uv_fs_common: a stream is counted once.                   *)
SubmitCountedOnce(r, op, fd, alt) ==
  /\ ~ended /\ job[r] = "none"
  /\ op \in Operations \cap FsOperations
  /\ fd # NoFile <=> op # "path"
  /\ alt # NoFile <=> op = "copy"
  /\ \A f \in {fd, alt} \ {NoFile} : script[f]
  /\ Become(r, Request(op, fd, alt), NoFile)
  /\ job' = [job EXCEPT ![r] = "queued"]
  /\ lent' = [lent EXCEPT ![r] = [fd |-> fd, alt |-> alt]]
  /\ UNCHANGED <<script, closed, ended>>

(* PHP_UV_ZVAL_TO_FD takes a reference to the first stream it converts,    *)
(* and the operation takes it again: one of the two is forgotten.  (Of     *)
(* uv_fs_sendfile's two streams it is the input, fs_fd_alt.)               *)
php_uv_fs_common(r, op, fd, alt) ==
  /\ ~ended /\ job[r] = "none"
  /\ op \in Operations \cap FsOperations
  /\ fd # NoFile <=> op # "path"
  /\ alt # NoFile <=> op = "copy"
  /\ \A f \in {fd, alt} \ {NoFile} : script[f]
  /\ LET o == Request(op, fd, alt)
         forgotten == IF op = "copy" THEN alt ELSE fd
     IN  \/ Become(r, o, forgotten) /\ job' = [job EXCEPT ![r] = "queued"]
         \/ /\ Become(r, OBJ_RELEASE(clean_uv_handle(o)), forgotten)
            /\ job' = [job EXCEPT ![r] = "refused"]
  /\ lent' = [lent EXCEPT ![r] = [fd |-> fd, alt |-> alt]]
  /\ UNCHANGED <<script, closed, ended>>

(* libuv's answer is ignored: a refused request is never called back.      *)
uv_getaddrinfo(r) ==
  /\ ~ended /\ job[r] = "none"
  /\ "getaddrinfo" \in Operations
  /\ Become(r, Request("getaddrinfo", NoFile, NoFile), NoFile)
  /\ \E answer \in {"queued", "refused"} : job' = [job EXCEPT ![r] = answer]
  /\ UNCHANGED <<fileVars, ended>>

uv_queue_work(r) ==
  /\ ~ended /\ job[r] = "none"
  /\ "work" \in Operations
  /\ Become(r, Request("work", NoFile, NoFile), NoFile)
  /\ job' = [job EXCEPT ![r] = "queued"]
  /\ UNCHANGED <<fileVars, ended>>

(* The script drops its variable, the loop's callbacks keep theirs.        *)
DropFile(f) ==
  /\ script[f]
  /\ script' = [script EXCEPT ![f] = FALSE]
  /\ refs' = [refs EXCEPT ![f] = @ - 1]
  /\ UNCHANGED <<uv, job, lost, lent, closed, ended>>

-----------------------------------------------------------------------------
(* The thread pool.  A work function reads its slot when it starts and     *)
(* when it ends.                                                           *)

Running == {r \in Requests : job[r] = "running"}

WorkerStarts(r) ==
  /\ job[r] = "queued"
  /\ Cardinality(Running) < Workers
  /\ job' = [job EXCEPT ![r] = "running"]
  /\ UNCHANGED <<uv, refs, lost, fileVars, ended>>

(* uv_fs_close closes the descriptor, and PHP's stream does not know.      *)
WorkerEnds(r) ==
  /\ job[r] = "running"
  /\ job' = [job EXCEPT ![r] = "finished"]
  /\ \/ UNCHANGED closed
     \/ uv[r].op = "close" /\ closed' = [closed EXCEPT ![lent[r].fd] = TRUE]
  /\ UNCHANGED <<uv, refs, lost, script, lent, ended>>

-----------------------------------------------------------------------------
(* The loop reports jobs that finished or were cancelled.                  *)

Due(r) == job[r] \in {"finished", "cancelled"}

(* Mutant of php_uv_fs_cb: it does not look whether the object is destroyed*)
(* and has no callback.                                                    *)
CallDestroyed(r) ==
  /\ Due(r) /\ uv[r].op \in FsOperations
  /\ uv[r].slots = "set"
  /\ Become(r, OBJ_RELEASE(clean_uv_handle(uv[r])), NoFile)
  /\ job' = [job EXCEPT ![r] = "answered"]
  /\ UNCHANGED <<fileVars, ended>>

(* Mutant of php_uv_fs_cb: the stream given to the callback stays in the   *)
(* object, which gives it back once more.                                  *)
ReleaseTwice(r) ==
  /\ Due(r) /\ uv[r].op \in FsOperations
  /\ uv' = [uv EXCEPT ![r] = OBJ_RELEASE(clean_uv_handle(@))]
  /\ refs' = [f \in Files |-> refs[f] - 2 * Stored(uv[r], f)]
  /\ job' = [job EXCEPT ![r] = "answered"]
  /\ UNCHANGED <<lost, fileVars, ended>>

(* A destroyed request only drops its reference.  Otherwise the stream     *)
(* goes into the callback's first argument and is given back after the     *)
(* call, unless the result was put in its place.                           *)
php_uv_fs_cb(r) ==
  /\ Due(r) /\ uv[r].op \in FsOperations
  /\ \/ uv[r].dtored /\ Become(r, OBJ_RELEASE(uv[r]), NoFile)
     \/ /\ ~uv[r].dtored
        /\ Become(r, OBJ_RELEASE(clean_uv_handle(uv[r])),
                  IF uv[r].op = "close" THEN uv[r].fs_fd ELSE NoFile)
  /\ job' = [job EXCEPT ![r] = "answered"]
  /\ UNCHANGED <<fileVars, ended>>

(* Mutant of php_uv_getaddrinfo_cb: the reference is not dropped.          *)
AddressKept(r) ==
  /\ Due(r) /\ uv[r].op = "getaddrinfo"
  /\ Become(r, clean_uv_handle(uv[r]), NoFile)
  /\ job' = [job EXCEPT ![r] = "answered"]
  /\ UNCHANGED <<fileVars, ended>>

php_uv_getaddrinfo_cb(r) ==
  /\ Due(r) /\ uv[r].op = "getaddrinfo"
  /\ Become(r, OBJ_RELEASE(clean_uv_handle(uv[r])), NoFile)
  /\ job' = [job EXCEPT ![r] = "answered"]
  /\ UNCHANGED <<fileVars, ended>>

php_uv_after_work_cb(r) ==
  /\ Due(r) /\ uv[r].op = "work"
  /\ Become(r, OBJ_RELEASE(clean_uv_handle(uv[r])), NoFile)
  /\ job' = [job EXCEPT ![r] = "answered"]
  /\ UNCHANGED <<fileVars, ended>>

-----------------------------------------------------------------------------
(* The end of the script: its variables go, Zend runs the destructors of   *)
(* all objects, then the loop runs until nothing is pending.  (The callback*)
(* of a lookup or a work function that is pending then reads slots that the*)
(* destructor has freed, and frees them again: what follows is undefined,  *)
(* and the model follows it as if it were harmless.)                       *)

Pending(r) == job[r] \in {"queued", "running", "finished", "cancelled"}

ScriptEnd ==
  /\ ScriptEnds /\ ~ended
  /\ AbandonsWork \/ \A r \in Requests : Pending(r) => uv[r].op \in FsOperations
  /\ ended' = TRUE
  /\ script' = [f \in Files |-> FALSE]
  /\ refs' = [f \in Files |-> refs[f] - (IF script[f] THEN 1 ELSE 0)]
  /\ UNCHANGED <<uv, job, lost, lent, closed>>

(* Mutant of destruct_uv: a running request gets no reference of its own.  *)
DestroyBusy(r) ==
  /\ ended /\ uv[r].life = "live" /\ ~uv[r].dtored
  /\ IF job[r] = "queued"
     THEN /\ Become(r, clean_uv_handle(uv[r]), NoFile)
          /\ job' = [job EXCEPT ![r] = "cancelled"]
     ELSE /\ Become(r, OBJ_RELEASE(clean_uv_handle(uv[r])), NoFile)
          /\ UNCHANGED job
  /\ UNCHANGED <<fileVars, ended>>

(* uv_cancel succeeds on a job no worker has taken, and says UV_EBUSY of   *)
(* the others, whose object gets another reference.  Of a refused lookup it*)
(* reads a request that nobody filled in, and may say either.              *)
destruct_uv(r) ==
  /\ ended /\ uv[r].life = "live" /\ ~uv[r].dtored
  /\ \/ /\ job[r] \in {"queued", "refused"}
        /\ Become(r, clean_uv_handle(uv[r]), NoFile)
        /\ job' = [job EXCEPT ![r] = IF @ = "queued" THEN "cancelled" ELSE @]
     \/ /\ job[r] # "queued"
        /\ Become(r, clean_uv_handle([uv[r] EXCEPT !.rc = @ + 1]), NoFile)
        /\ UNCHANGED job
  /\ UNCHANGED <<fileVars, ended>>

Files0 == Files \cup {NoFile}

Callback(r) == php_uv_fs_cb(r) \/ php_uv_getaddrinfo_cb(r) \/ php_uv_after_work_cb(r)

RequestNext(r) ==
  \/ \E op \in FsOperations, fd, alt \in Files0 : php_uv_fs_common(r, op, fd, alt)
  \/ uv_getaddrinfo(r) \/ uv_queue_work(r)
  \/ WorkerStarts(r) \/ WorkerEnds(r)
  \/ Callback(r)
  \/ destruct_uv(r)

Next == ScriptEnd \/ (\E f \in Files : DropFile(f)) \/ (\E r \in Requests : RequestNext(r))

Safety == Init /\ [][Next]_requestVars

(* Workers take jobs and finish them; the loop runs.                       *)
Spec ==
  /\ Safety
  /\ \A r \in Requests :
       SF_requestVars(WorkerStarts(r)) /\ WF_requestVars(WorkerEnds(r)) /\ WF_requestVars(Callback(r))

-----------------------------------------------------------------------------
RequestTypeOK ==
  /\ uv \in [Requests -> Object]
  /\ job \in [Requests -> Jobs]
  /\ refs \in [Files -> Nat]
  /\ script \in [Files -> BOOLEAN]
  /\ lost \in [Files -> Nat]
  /\ lent \in [Requests -> [fd : Files0, alt : Files0]]
  /\ closed \in [Files -> BOOLEAN]
  /\ ended \in BOOLEAN

(* libuv and its workers point into the object until the job is answered:  *)
(* it is in memory all that time, through the end of the script too.       *)
PendingIsLive == \A r \in Requests : Pending(r) => uv[r].life = "live" /\ uv[r].rc > 0

(* What is going to read the slots of a request finds them allocated: a    *)
(* callback that does not ask whether the object was destroyed, or finds   *)
(* that it was not.  (False if a work function is pending when the script  *)
(* ends.)                                                                  *)
ReadsSlots(r) == Pending(r) /\ (uv[r].op \in {"getaddrinfo", "work"} \/ ~uv[r].dtored)

SlotsAllocated == \A r \in Requests : ReadsSlots(r) => uv[r].slots = "set"

(* PHP never closes a stream, because its last reference is gone, that a   *)
(* worker works on, although the destructor of the ending script takes the *)
(* streams from requests in a worker's hands.  It is the forgotten         *)
(* references that keep them open; uv_fs_sendfile's output has none.       *)
FileOpenWhileUsed ==
  \A r \in Requests : job[r] = "running" =>
    /\ lent[r].alt # NoFile => refs[lent[r].alt] > 0
    /\ lent[r].fd # NoFile /\ ~(ended /\ uv[r].op = "copy") => refs[lent[r].fd] > 0

(* A stream's references are the script's, those the requests store, and   *)
(* those that were forgotten.                                              *)
Stores(f) == {p \in Requests \X {"fs_fd", "fs_fd_alt"} : uv[p[1]][p[2]] = f}

FileRefsExact ==
  \A f \in Files : refs[f] = Cardinality(Stores(f)) + lost[f] + (IF script[f] THEN 1 ELSE 0)

(* A descriptor is closed once: PHP does not close the stream of one that  *)
(* uv_fs_close has closed, whose number may be another file's by then.     *)
DescriptorClosedOnce == \A f \in Files : closed[f] => refs[f] > 0

(* An object in each stage of its job: one reference, and a second one if  *)
(* the destructor found the job in a worker's hands.  Until the answer its *)
(* slots are freed by the destructor only.                                 *)
LifeOf(o, j, end) ==
  /\ j = "none" => o = Absent
  /\ j = "queued" => o.life = "live" /\ o.rc = 1 /\ ~o.dtored
  /\ j \in {"running", "finished"} =>
       o.life = "live" /\ o.rc = (IF o.dtored THEN 2 ELSE 1) /\ (o.dtored => end)
  /\ j = "cancelled" => o.life = "live" /\ o.rc = 1 /\ o.dtored /\ end
  /\ j = "answered" /\ ~end => o.life = "freed"
  /\ j \in {"queued", "running", "finished", "cancelled"} =>
       /\ o.slots = (IF o.dtored THEN "freed" ELSE "set")
       /\ end => AbandonsWork \/ o.op \in FsOperations

(* The streams t that libuv got with the operation of o: one of them was   *)
(* forgotten (g is what is lost), and until the answer, or the destructor, *)
(* the object stores the first.                                            *)
LentOf(o, j, t, g) ==
  /\ j = "none" => t.fd = NoFile /\ t.alt = NoFile
  /\ t.fd # NoFile /\ o.op # "copy" => g[t.fd] > 0
  /\ t.alt # NoFile => o.op = "copy" /\ g[t.alt] > 0
  /\ o.op = "close" => t.fd # NoFile
  /\ j \in {"queued", "running", "finished", "cancelled"} /\ ~o.dtored => o.fs_fd = t.fd

(* Every reference to a stream has an owner; one released twice would      *)
(* close the descriptor under another request.  What uv_fs_close closed    *)
(* is kept from PHP by the reference that was forgotten.                   *)
RequestInv ==
  /\ RequestTypeOK
  /\ FileRefsExact
  /\ \A f \in Files : IsFiniteSet(Stores(f)) /\ (closed[f] => lost[f] > 0)
  /\ \A r \in Requests : LifeOf(uv[r], job[r], ended) /\ LentOf(uv[r], job[r], lent[r], lost)

(* An answered request is released, unless the end of the script found it  *)
(* in a worker's hands: the reference of UV_EBUSY is never given back.     *)
AnsweredIsReleased ==
  \A r \in Requests : job[r] = "answered" /\ ~ended => uv[r].life = "freed"

(* Every accepted request is answered, if the script ends in between too.  *)
Answered == \A r \in Requests : job[r] = "queued" ~> job[r] = "answered"
=============================================================================
