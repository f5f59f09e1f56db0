------------------------------ MODULE UVStream ------------------------------
(***************************************************************************)
(* Streams: TCP sockets, pipes and terminals.  A stream that reads or      *)
(* listens owns one reference, like a watcher; a connect, a write and a    *)
(* shutdown own one each while they are in flight, and hand it to their    *)
(* callback.  libuv answers every request before it reports the close.     *)
(***************************************************************************)
EXTENDS UVHandle

CONSTANTS
  StreamClasses,   \* the classes this instance creates
  ReadResults,     \* what the kernel may answer to a read
  StopsListeners   \* whether the script calls uv_read_stop on a listener

ASSUME StreamAssumption ==
  /\ StreamClasses \subseteq {"tcp", "pipe", "tty"}
  /\ ReadResults \subseteq {"data", "eof", "again", "error"}
  /\ StopsListeners \in BOOLEAN

VARIABLES
  conn,      \* conn[h]: what the socket is, as libuv and the kernel see it
  shut,      \* shut[h]: shut down for writing
  waiting    \* waiting[h]: a connection waits for uv_accept (accepted_fd)

streamVars == <<conn, shut, waiting>>

allStreamVars == <<handleVars, streamVars>>

(* failed: its connect failed, which libuv lets the script try again.      *)
(* broken: a read failed, after which libuv neither reads nor writes.      *)
Connections == {"none", "connecting", "failed", "open", "listening", "broken"}

IsStream(h)  == obj[h].ce \in {"tcp", "pipe", "tty"}
Readable(h)  == conn[h] \in {"connecting", "failed", "open"}
Writable(h)  == Readable(h) /\ ~shut[h]

(* Mutant of IsReading: a listener is taken for a reader.                  *)
IsActive(h) == obj[h].active

IsReading(h) == obj[h].active /\ conn[h] # "listening"

(* A terminal is open from the start.                                      *)
InitStream(h, class) ==
  /\ class \in StreamClasses
  /\ CreateHandle(h, class)
  /\ conn' = [conn EXCEPT ![h] = IF class = "tty" THEN "open" ELSE "none"]
  /\ UNCHANGED <<shut, waiting>>

uv_tcp_init(h)  == InitStream(h, "tcp")
uv_pipe_init(h) == InitStream(h, "pipe")
uv_tty_init(h)  == InitStream(h, "tty")

(* uv_tcp_open, uv_pipe_open: a descriptor the script already has.         *)
php_uv_handle_open(h) ==
  /\ Usable(h)
  /\ obj[h].ce \in {"tcp", "pipe"}
  /\ conn[h] = "none"
  /\ conn' = [conn EXCEPT ![h] = "open"]
  /\ UNCHANGED <<handleVars, shut, waiting>>

-----------------------------------------------------------------------------
(* Servers.                                                                *)

(* A refused call gives its reference back.  libuv accepts the call again  *)
(* on a listener: the second reference is abandoned.                       *)
uv_listen(h) ==
  /\ Usable(h)
  /\ obj[h].ce \in {"tcp", "pipe"}
  /\ \/ /\ conn[h] = "none"
        /\ obj' = [obj EXCEPT ![h] = [GC_ADDREF(@) EXCEPT !.active = TRUE]]
        /\ conn' = [conn EXCEPT ![h] = "listening"]
        /\ UNCHANGED lost
     \/ /\ conn[h] = "listening"
        /\ lost[h] < MaxLost
        /\ obj' = [obj EXCEPT ![h] = GC_ADDREF(@)]
        /\ lost' = [lost EXCEPT ![h] = @ + 1]
        /\ UNCHANGED conn
  /\ UNCHANGED <<vars, reqs, frame, shut, waiting>>

(* libuv holds one accepted connection at a time until it is taken.        *)
php_uv_listen_cb(h) ==
  /\ obj[h].life = "live"
  /\ obj[h].active
  /\ conn[h] = "listening"
  /\ ~waiting[h]
  /\ CallPHP(h, "listen", GC_ADDREF(obj[h]))
  /\ waiting' = [waiting EXCEPT ![h] = TRUE]
  /\ UNCHANGED <<vars, reqs, lost, conn, shut>>

(* The connection is dropped if the client stream is in use.               *)
uv_accept(server, client) ==
  /\ Usable(server) /\ Usable(client)
  /\ obj[server].ce \in {"tcp", "pipe"}
  /\ obj[server].ce = obj[client].ce
  /\ waiting[server]
  /\ waiting' = [waiting EXCEPT ![server] = FALSE]
  /\ conn' = [conn EXCEPT ![client] = IF @ = "none" THEN "open" ELSE @]
  /\ UNCHANGED <<handleVars, shut>>

-----------------------------------------------------------------------------
(* Reading.                                                                *)

(* libuv refuses a stream that reads already, or cannot be read; a refused *)
(* call gives its reference back.                                          *)
uv_read_start(h) ==
  /\ Usable(h)
  /\ IsStream(h)
  /\ Readable(h)
  /\ ~obj[h].active
  /\ obj' = [obj EXCEPT ![h] = [GC_ADDREF(@) EXCEPT !.active = TRUE]]
  /\ UNCHANGED <<vars, reqs, frame, lost, streamVars>>

(* Returns at once if the stream is not active.  A listener is active, but *)
(* libuv has no read to stop: only the reference goes.                     *)
uv_read_stop(h) ==
  /\ Usable(h)
  /\ IsStream(h)
  /\ obj[h].active
  /\ IsReading(h) \/ StopsListeners
  /\ obj' = [obj EXCEPT ![h] = OBJ_RELEASE([@ EXCEPT !.active = ~IsReading(h)])]
  /\ UNCHANGED <<vars, reqs, frame, lost, streamVars>>

(* Mutant of php_uv_read_cb: a reference of its own whatever it read.      *)
EndOwnedTwice(h, nread) ==
  /\ obj[h].life = "live"
  /\ IsStream(h)
  /\ IsReading(h)
  /\ conn[h] \in {"open", "failed"}
  /\ CallPHP(h, "read", [GC_ADDREF(obj[h]) EXCEPT !.active = (nread = "data")])
  /\ UNCHANGED <<vars, reqs, lost, streamVars>>

(* With data, the callback gets a reference of its own; otherwise it takes *)
(* over the one of the read.  libuv has stopped reading at the end of the  *)
(* file; it goes on when there was nothing to read; after an error it      *)
(* stops reading once the callback has returned.                           *)
php_uv_read_cb(h, nread) ==
  /\ obj[h].life = "live"
  /\ IsStream(h)
  /\ IsReading(h)
  /\ conn[h] \in {"open", "failed"}
  /\ nread \in ReadResults
  /\ CASE nread = "data"  -> CallPHP(h, "read", GC_ADDREF(obj[h]))
       [] nread = "eof"   -> CallPHP(h, "read_end", [obj[h] EXCEPT !.active = FALSE])
       [] nread = "again" -> CallPHP(h, "read_end", obj[h])
       [] nread = "error" -> CallPHP(h, "read_error", obj[h])
  /\ conn' = [conn EXCEPT ![h] = IF nread = "error" THEN "broken" ELSE @]
  /\ UNCHANGED <<vars, reqs, lost, shut, waiting>>

php_uv_read_cb_return(h) ==
  /\ frame = [handle |-> h, cb |-> "read_error"]
  /\ frame' = NoFrame
  /\ obj' = [obj EXCEPT ![h] = [OBJ_RELEASE(OBJ_RELEASE(@)) EXCEPT !.active = FALSE]]
  /\ UNCHANGED <<vars, reqs, lost, streamVars>>

-----------------------------------------------------------------------------
(* Requests.                                                               *)

(* Mutant of Submit: the request owns nothing.                             *)
SubmitUnowned(h, kind) ==
  /\ reqs[h][kind] < MaxReqs
  /\ reqs' = [reqs EXCEPT ![h][kind] = @ + 1]
  /\ UNCHANGED obj

(* A request was handed to libuv, and owns a reference.                    *)
Submit(h, kind) ==
  /\ reqs[h][kind] < MaxReqs
  /\ reqs' = [reqs EXCEPT ![h][kind] = @ + 1]
  /\ obj' = [obj EXCEPT ![h] = GC_ADDREF(@)]

(* A reference was taken for a request that will never be answered.        *)
Forget(h) ==
  /\ lost[h] < MaxLost
  /\ lost' = [lost EXCEPT ![h] = @ + 1]
  /\ obj' = [obj EXCEPT ![h] = GC_ADDREF(@)]

(* Mutant of Answer: a request may be answered twice.                      *)
AnswerTwice(h, kind) ==
  /\ obj[h].life = "live"
  /\ reqs' = [reqs EXCEPT ![h][kind] = @ - 1]

(* A request is answered; the callback takes over its reference.           *)
Answer(h, kind) ==
  /\ reqs[h][kind] > 0
  /\ reqs' = [reqs EXCEPT ![h][kind] = @ - 1]

(* libuv's answer to a second connect, EALREADY or EISCONN, is ignored.    *)
uv_tcp_connect(h) ==
  /\ Usable(h)
  /\ obj[h].ce = "tcp"
  /\ \/ /\ conn[h] \in {"none", "failed"}
        /\ Submit(h, "connect")
        /\ conn' = [conn EXCEPT ![h] = "connecting"]
        /\ UNCHANGED lost
     \/ /\ conn[h] \notin {"none", "failed"}
        /\ Forget(h)
        /\ UNCHANGED <<reqs, conn>>
  /\ UNCHANGED <<vars, frame, shut, waiting>>

(* uv_pipe_connect answers through the callback only.  A second connect    *)
(* takes the place of a pending one, which is not answered any more.       *)
uv_pipe_connect(h) ==
  /\ Usable(h)
  /\ obj[h].ce = "pipe"
  /\ \/ reqs[h]["connect"] = 0 /\ Submit(h, "connect") /\ UNCHANGED lost
     \/ reqs[h]["connect"] > 0 /\ Forget(h) /\ UNCHANGED reqs
  /\ conn' = [conn EXCEPT ![h] = IF @ \in {"none", "failed"} THEN "connecting" ELSE @]
  /\ UNCHANGED <<vars, frame, shut, waiting>>

(* The connection is made, or failed, or the stream is closing.            *)
Connected(h) ==
  /\ Answer(h, "connect")
  /\ \E result \in {"open", "failed"} :
       conn' = [conn EXCEPT ![h] = IF @ = "connecting" THEN result ELSE @]
  /\ UNCHANGED <<vars, lost, shut, waiting>>

php_uv_tcp_connect_cb(h) ==
  obj[h].ce = "tcp" /\ Connected(h) /\ DoCallback(h, "connect", obj[h])

php_uv_pipe_connect_cb(h) ==
  obj[h].ce = "pipe" /\ Connected(h) /\ CallPHP(h, "connect", obj[h])

(* A refused write takes no reference, and its request is freed.           *)
uv_write(h) ==
  /\ Usable(h)
  /\ IsStream(h)
  /\ Writable(h)
  /\ Submit(h, "write")
  /\ UNCHANGED <<vars, frame, lost, streamVars>>

(* A write that passes the handle send to another process.  The request    *)
(* has no reference to it, and no way to find it in an answer.             *)
uv_write2(h, send) ==
  /\ Usable(send) /\ obj[send].ce \in {"tcp", "pipe"}
  /\ obj[h].ce = "pipe"
  /\ uv_write(h)

php_uv_write_cb(h) ==
  /\ reqs[h]["connect"] = 0
  /\ Answer(h, "write")
  /\ DoCallback(h, "write", obj[h])
  /\ UNCHANGED <<vars, lost, streamVars>>

(* A refused shutdown keeps its reference.                                 *)
uv_shutdown(h) ==
  /\ Usable(h)
  /\ IsStream(h)
  /\ \/ /\ Writable(h)
        /\ Submit(h, "shutdown")
        /\ shut' = [shut EXCEPT ![h] = TRUE]
        /\ UNCHANGED lost
     \/ /\ ~Writable(h)
        /\ Forget(h)
        /\ UNCHANGED <<reqs, shut>>
  /\ UNCHANGED <<vars, frame, conn, waiting>>

php_uv_shutdown_cb(h) ==
  /\ reqs[h]["connect"] = 0 /\ reqs[h]["write"] = 0
  /\ Answer(h, "shutdown")
  /\ DoCallback(h, "shutdown", obj[h])
  /\ UNCHANGED <<vars, lost, streamVars>>

-----------------------------------------------------------------------------
RequestCallback(h) ==
  \/ php_uv_tcp_connect_cb(h) \/ php_uv_pipe_connect_cb(h)
  \/ php_uv_write_cb(h) \/ php_uv_shutdown_cb(h)

StreamNext(h) ==
  \/ uv_tcp_init(h) \/ uv_pipe_init(h) \/ uv_tty_init(h)
  \/ php_uv_handle_open(h)
  \/ uv_listen(h) \/ php_uv_listen_cb(h)
  \/ \E client \in Handles : uv_accept(h, client)
  \/ uv_read_start(h) \/ uv_read_stop(h)
  \/ \E nread \in ReadResults : php_uv_read_cb(h, nread)
  \/ php_uv_read_cb_return(h)
  \/ uv_tcp_connect(h) \/ uv_pipe_connect(h)
  \/ uv_write(h) \/ uv_shutdown(h)
  \/ \E send \in Handles : uv_write2(h, send)
  \/ RequestCallback(h)

StreamInit ==
  /\ HandleInit
  /\ conn = [h \in Handles |-> "none"]
  /\ shut = [h \in Handles |-> FALSE]
  /\ waiting = [h \in Handles |-> FALSE]

Next == \E h \in Handles : StreamNext(h) \/ (HandleNext(h) /\ UNCHANGED streamVars)

Safety == StreamInit /\ [][Next]_allStreamVars

-----------------------------------------------------------------------------
StreamTypeOK ==
  /\ HandleTypeOK
  /\ conn \in [Handles -> Connections]
  /\ shut \in [Handles -> BOOLEAN]
  /\ waiting \in [Handles -> BOOLEAN]

(* A listener is active until it is closed, so that the reference of its   *)
(* listen belongs to libuv.                                                *)
ListenerActive ==
  \A h \in Handles :
    obj[h].life = "live" /\ obj[h].phase = "open" /\ conn[h] = "listening" => obj[h].active

(* The inductive form, where reads end cleanly and nobody stops a listener *)
(* by uv_read_stop.                                                        *)
ShapeOf(o, c, rq) ==
  /\ c = "none" => ~o.active
  /\ o.active => o.ce \in {"tcp", "pipe", "tty"}
  /\ c = "listening" /\ o.life = "live" /\ o.phase = "open" => o.active
  /\ o.phase = "closed" => rq = NoReqs

StreamInv ==
  /\ HandleInv
  /\ StreamTypeOK
  /\ frame.cb # "read_error"
  /\ \A h \in Handles : ShapeOf(obj[h], conn[h], reqs[h])

(* What holds however often the counts were wrong.  An object is closed    *)
(* before its destructor is marked as run and never after; a listener is   *)
(* made inactive by its close alone; a read that failed has left its       *)
(* stream broken, so that what follows the callback stops no listener.     *)
OrderOf(o, c) ==
  /\ o.phase # "aborted"
  /\ ~o.dtored => o.phase = "open"
  /\ c = "listening" /\ o.life = "live" /\ o.phase = "open" => o.active

StreamOrder ==
  /\ StreamTypeOK
  /\ \A h \in Handles :
       /\ OrderOf(obj[h], conn[h])
       /\ frame.handle = h /\ frame.cb = "read_error" =>
            obj[h].life # "none" /\ conn[h] = "broken"

CleanEnvironment == ReadResults \subseteq {"data", "eof"} /\ ~StopsListeners

(* A request never outlives the object it runs on: from its submission to  *)
(* its answer, through the close of the stream and whatever the script     *)
(* lets go of, the object is in memory and its close is not reported.      *)
RequestsKeepStream ==
  \A h \in Handles :
    Pending(h) > 0 => obj[h].life = "live" /\ obj[h].phase \in {"open", "closing"}
=============================================================================
