--------------------------- MODULE UVStream_proofs --------------------------
(***************************************************************************)
(* Streams whose reads end at the end of the file (CleanEnvironment): the  *)
(* reference counts are exact whatever reads, listens, connects, writes,   *)
(* shutdowns and closes overlap, and no request outlives its stream.  And  *)
(* of all streams: listeners stay active, and nothing is closed twice.     *)
(***************************************************************************)
EXTENDS UVStream, UVHandle_proofs

(* Streams pay for their activity, and their callbacks are known.          *)
LEMMA StreamClass ==
  /\ \A class \in {"tcp", "pipe", "tty"} : class \in Classes /\ class \in ReferencedClasses
  /\ \A cb \in {"read", "read_end", "listen", "connect", "write", "shutdown"} :
       cb \in Callbacks /\ cb # "close"
  /\ \A kind \in {"connect", "write", "shutdown"} : kind \in ReqKinds
  BY DEF Classes, ReferencedClasses, Callbacks, ReqKinds

-----------------------------------------------------------------------------
(* Requests.                                                               *)

(* One request more on h.                                                  *)
LEMMA PendingMore ==
  ASSUME HandleInv, NEW h \in Handles, NEW kind \in ReqKinds, reqs[h][kind] < MaxReqs,
         vars' = vars, lost' = lost, frame' = frame, reqs' = [reqs EXCEPT ![h][kind] = @ + 1]
  PROVE  /\ Elsewhere(h) /\ FrameElsewhere(h)
         /\ Others(h)' = Others(h) + 1 /\ Others(h) \in Nat
<1>1. reqs \in [Handles -> [ReqKinds -> 0 .. MaxReqs]]
  BY DEF HandleInv, HandleTypeOK
<1>2. reqs' \in [Handles -> [ReqKinds -> 0 .. MaxReqs]]
  BY <1>1, HandleAssumption
<1>3. Elsewhere(h) /\ FrameElsewhere(h)
  BY <1>1, <1>2 DEF HandleInv, HandleTypeOK, Elsewhere, FrameElsewhere
<1>4. Pending(h)' = Pending(h) + 1
  BY <1>1, HandleAssumption DEF Pending, ReqKinds
<1>5. vars'[h] = vars[h] /\ lost'[h] = lost[h] /\ FrameRefs(h)' = FrameRefs(h)
  BY DEF FrameRefs
<1>6. QED
  BY <1>3, <1>4, <1>5, CountersNat DEF Others, Kept

(* One request less.                                                       *)
LEMMA PendingLess ==
  ASSUME HandleInv, NEW h \in Handles, NEW kind \in ReqKinds, Answer(h, kind),
         vars' = vars, lost' = lost
  PROVE  /\ Elsewhere(h)
         /\ Kept(h) = Kept(h)' + 1 /\ Kept(h)' \in Nat
         /\ Pending(h) > 0
<1>1. /\ reqs \in [Handles -> [ReqKinds -> 0 .. MaxReqs]]
      /\ reqs[h][kind] > 0 /\ reqs' = [reqs EXCEPT ![h][kind] = @ - 1]
  BY DEF HandleInv, HandleTypeOK, Answer
<1>2. reqs' \in [Handles -> [ReqKinds -> 0 .. MaxReqs]]
  BY <1>1, HandleAssumption
<1>3. Elsewhere(h)
  BY <1>1, <1>2 DEF HandleInv, HandleTypeOK, Elsewhere
<1>4. Pending(h)' = Pending(h) - 1 /\ Pending(h) > 0
  BY <1>1, HandleAssumption DEF Pending, ReqKinds
<1>5. vars'[h] = vars[h] /\ lost'[h] = lost[h]
  OBVIOUS
<1>6. QED
  BY <1>3, <1>4, <1>5, CountersNat DEF Kept

(* A request that libuv accepted.                                          *)
LEMMA SubmitInv ==
  ASSUME HandleInv, NEW h \in Handles, NEW kind \in ReqKinds, Usable(h), Submit(h, kind),
         vars' = vars, lost' = lost, frame' = frame
  PROVE  HandleInv'
<1> DEFINE o == GC_ADDREF(obj[h])
<1>1. obj' = [obj EXCEPT ![h] = o] /\ obj[h].life = "live"
  BY DEF Submit, Usable, Visible
<1>2. /\ o \in Object /\ LiveShape(o) /\ o.phase = obj[h].phase
      /\ o.rc = LoopRef(o) + CloseRef(o) + Others(h) + 1
  BY <1>1, AddRefLive
<1> HIDE DEF o
<1>3. Elsewhere(h) /\ FrameElsewhere(h) /\ Others(h)' = Others(h) + 1 /\ Others(h) \in Nat
  BY PendingMore DEF Submit
<1>4. LoopRef(o) \in Nat /\ CloseRef(o) \in Nat
  BY DEF LoopRef, CloseRef
<1>5. o.rc > 0 /\ o.rc = LoopRef(o) + CloseRef(o) + Others(h)'
  BY <1>2, <1>3, <1>4
<1>6. QED
  BY <1>1, <1>2, <1>3, <1>5, LiveFacts, KeepInv

(* A request that is answered: its callback takes over its reference.      *)
LEMMA AnswerInv ==
  ASSUME StreamInv, NEW h \in Handles, NEW kind \in {"connect", "write", "shutdown"},
         Answer(h, kind), DoCallback(h, kind, obj[h]), vars' = vars, lost' = lost
  PROVE  HandleInv'
<1>1. HandleInv /\ kind \in ReqKinds /\ kind \in Callbacks /\ kind # "close"
  BY StreamClass DEF StreamInv
<1>2. Elsewhere(h) /\ Kept(h) = Kept(h)' + 1 /\ Kept(h)' \in Nat /\ Pending(h) > 0
  BY <1>1, PendingLess
<1>3. obj[h].life = "live"
  BY <1>1, <1>2 DEF HandleInv, WellFormed, LiveShape
<1>4. obj[h].phase # "closed"
  <2>1. obj[h].phase = "closed" => Pending(h) = 0
    BY DEF StreamInv, ShapeOf, Pending, NoReqs, ReqKinds
  <2>2. QED
    BY <1>2, <2>1
<1>5. frame = NoFrame
  BY DEF DoCallback, CallPHP
<1>6. Others(h) = Kept(h)
  BY <1>1, <1>5, NoFrameKept
<1>7. obj[h].rc = LoopRef(obj[h]) + CloseRef(obj[h]) + Kept(h)' + 1
  BY <1>1, <1>2, <1>3, <1>6, LiveFacts
<1>8. obj[h] \in Object /\ LiveShape(obj[h])
  BY <1>1, <1>3, LiveFacts
<1>9. QED
  BY <1>1, <1>2, <1>4, <1>7, <1>8, DoCallbackInv

-----------------------------------------------------------------------------
(* Every action of a stream keeps HandleInv.                               *)

(* Servers and clients.                                                    *)
LEMMA ListenInv ==
  ASSUME StreamInv, NEW h \in Handles, uv_listen(h)
  PROVE  HandleInv'
<1>1. /\ HandleInv /\ Usable(h) /\ obj[h].life = "live" /\ obj[h].ce \in ReferencedClasses
      /\ vars' = vars /\ reqs' = reqs /\ frame' = frame
  BY StreamClass DEF uv_listen, StreamInv, Usable, Visible
<1>2. CASE conn[h] = "none"
  <2>1. ~obj[h].active
    BY <1>2 DEF StreamInv, ShapeOf
  <2>2. obj' = [obj EXCEPT ![h] = [GC_ADDREF(@) EXCEPT !.active = TRUE]] /\ lost' = lost
    BY <1>2 DEF uv_listen
  <2>3. QED
    BY <1>1, <2>1, <2>2, StartInv
<1>3. CASE conn[h] # "none"
  <2>1. /\ obj' = [obj EXCEPT ![h] = GC_ADDREF(@)]
        /\ lost[h] < MaxLost /\ lost' = [lost EXCEPT ![h] = @ + 1]
    BY <1>3 DEF uv_listen
  <2>2. QED
    BY <1>1, <2>1, ForgetInv
<1>4. QED
  BY <1>2, <1>3

(* php_uv_listen_cb.                                                       *)
LEMMA ListenCallbackInv ==
  ASSUME StreamInv, NEW h \in Handles, php_uv_listen_cb(h)
  PROVE  HandleInv'
<1>1. DoCallback(h, "listen", GC_ADDREF(obj[h]))
  BY DEF php_uv_listen_cb, DoCallback
<1>2. QED
  BY <1>1, StreamClass, WatchedCallInv DEF php_uv_listen_cb, StreamInv

(* php_uv_read_cb with data, or at the end of the file.                    *)
LEMMA ReadCallbackInv ==
  ASSUME StreamInv, CleanEnvironment, NEW h \in Handles, NEW nread \in ReadResults,
         php_uv_read_cb(h, nread)
  PROVE  HandleInv'
<1>1. /\ HandleInv /\ obj[h].life = "live" /\ obj[h].active /\ obj[h].ce \in ReferencedClasses
      /\ vars' = vars /\ reqs' = reqs /\ lost' = lost
  BY StreamClass DEF php_uv_read_cb, StreamInv, IsStream, IsReading
<1>2. CASE nread = "data"
  <2>1. DoCallback(h, "read", GC_ADDREF(obj[h]))
    BY <1>2 DEF php_uv_read_cb, DoCallback
  <2>2. QED
    BY <1>1, <2>1, StreamClass, WatchedCallInv
<1>3. CASE nread = "eof"
  <2>1. DoCallback(h, "read_end", [obj[h] EXCEPT !.active = FALSE])
    BY <1>3 DEF php_uv_read_cb, DoCallback
  <2>2. QED
    BY <1>1, <2>1, StreamClass, StoppedCallInv
<1>4. QED
  BY <1>2, <1>3 DEF CleanEnvironment

(* uv_read_stop, on a stream that reads.                                   *)
LEMMA ReadStopInv ==
  ASSUME StreamInv, CleanEnvironment, NEW h \in Handles, uv_read_stop(h)
  PROVE  HandleInv'
<1>1. IsReading(h) /\ obj[h].active /\ obj[h].ce \in ReferencedClasses
  BY StreamClass DEF uv_read_stop, CleanEnvironment, IsStream
<1>2. obj' = [obj EXCEPT ![h] = OBJ_RELEASE([@ EXCEPT !.active = FALSE])]
  BY <1>1 DEF uv_read_stop
<1>3. QED
  BY <1>1, <1>2, StopInv DEF uv_read_stop, StreamInv

(* A connect, a write or a shutdown is asked for.                          *)
LEMMA RequestInv ==
  ASSUME StreamInv, NEW h \in Handles,
         uv_tcp_connect(h) \/ uv_pipe_connect(h) \/ uv_write(h) \/ uv_shutdown(h)
  PROVE  HandleInv'
<1>1. /\ HandleInv /\ Usable(h) /\ obj[h].life = "live"
      /\ vars' = vars /\ frame' = frame
  BY DEF uv_tcp_connect, uv_pipe_connect, uv_write, uv_shutdown, StreamInv, Usable, Visible
<1>2. CASE \E kind \in ReqKinds : Submit(h, kind) /\ lost' = lost
  BY <1>1, <1>2, SubmitInv
<1>3. CASE Forget(h) /\ reqs' = reqs
  BY <1>1, <1>3, ForgetInv DEF Forget
<1>4. QED
  BY <1>2, <1>3, StreamClass DEF uv_tcp_connect, uv_pipe_connect, uv_write, uv_shutdown

(* Its answer.                                                             *)
LEMMA RequestCallbackInv ==
  ASSUME StreamInv, NEW h \in Handles, RequestCallback(h)
  PROVE  HandleInv'
<1>1. CASE php_uv_tcp_connect_cb(h) \/ php_uv_pipe_connect_cb(h)
  BY <1>1, AnswerInv DEF php_uv_tcp_connect_cb, php_uv_pipe_connect_cb, Connected, DoCallback
<1>2. CASE php_uv_write_cb(h)
  BY <1>2, AnswerInv DEF php_uv_write_cb
<1>3. CASE php_uv_shutdown_cb(h)
  BY <1>3, AnswerInv DEF php_uv_shutdown_cb
<1>4. QED
  BY <1>1, <1>2, <1>3 DEF RequestCallback

(* All of them.                                                            *)
LEMMA StreamNextHandleInv ==
  ASSUME StreamInv, CleanEnvironment, NEW h \in Handles, StreamNext(h)
  PROVE  HandleInv'
<1>1. HandleInv
  BY DEF StreamInv
<1>2. CASE uv_tcp_init(h) \/ uv_pipe_init(h) \/ uv_tty_init(h)
  BY <1>1, <1>2, StreamClass, CreateInv DEF uv_tcp_init, uv_pipe_init, uv_tty_init, InitStream
<1>3. CASE php_uv_handle_open(h) \/ \E client \in Handles : uv_accept(h, client)
  BY <1>1, <1>3, StutterInv DEF php_uv_handle_open, uv_accept
<1>4. CASE uv_read_start(h)
  BY <1>1, <1>4, StreamClass, StartInv DEF uv_read_start, IsStream
<1>5. CASE php_uv_read_cb_return(h)
  BY <1>5 DEF php_uv_read_cb_return, StreamInv
<1>6. QED
  BY <1>2, <1>3, <1>4, <1>5, ListenInv, ListenCallbackInv, ReadCallbackInv, ReadStopInv,
     RequestInv, RequestCallbackInv
  DEF StreamNext, uv_write2

-----------------------------------------------------------------------------
(* ShapeOf survives the C functions and the actions.                       *)

(* Taking or dropping a reference, closing and cleaning.                   *)
LEMMA ShapeKept ==
  ASSUME NEW o \in Object, NEW c, NEW rq, ShapeOf(o, c, rq)
  PROVE  /\ ShapeOf(GC_ADDREF(o), c, rq)
         /\ ShapeOf(clean_uv_handle(o), c, rq)
         /\ GC_ADDREF(o) \in Object /\ clean_uv_handle(o) \in Object
  BY AddRefFields, CleanFields DEF ShapeOf, clean_uv_handle, Object

(* OBJ_RELEASE, on any object.                                             *)
LEMMA ShapeReleased ==
  ASSUME NEW o \in Object, NEW c, NEW rq, ShapeOf(o, c, rq)
  PROVE  ShapeOf(OBJ_RELEASE(o), c, rq)
<1>1. CASE o.rc > 1
  BY <1>1, ReleaseFields DEF ShapeOf
<1>2. CASE ~(o.rc > 1) /\ o.dtored
  <2>1. OBJ_RELEASE(o) = zend_free(o)
    BY <1>2 DEF OBJ_RELEASE
  <2>2. /\ zend_free(o).life = "freed"
        /\ zend_free(o).phase = o.phase /\ zend_free(o).active = o.active
        /\ zend_free(o).ce = o.ce
    BY DEF zend_free, Object
  <2>3. QED
    BY <2>1, <2>2 DEF ShapeOf
<1>3. CASE ~(o.rc > 1) /\ ~o.dtored
  <2> DEFINE d == php_uv_close([o EXCEPT !.rc = 1, !.dtored = TRUE])
             r == OBJ_RELEASE(o)
  <2>1. r = IF d.rc > 1 THEN [d EXCEPT !.rc = @ - 1] ELSE zend_free(d)
    BY <1>3 DEF OBJ_RELEASE, destruct_uv
  <2>2. [o EXCEPT !.rc = 1, !.dtored = TRUE] \in Object
    BY DEF Object
  <2>3. d \in Object /\ ~d.active /\ d.phase \in {"closing", "aborted"}
    BY <2>2, CloseAny
  <2> HIDE DEF d
  <2>4. ~r.active /\ r.phase \in {"closing", "aborted"}
    BY <2>1, <2>3 DEF Object, zend_free
  <2> HIDE DEF r
  <2>5. ShapeOf(r, c, rq)
    BY <2>4 DEF ShapeOf
  <2>6. QED
    BY <2>5 DEF r
<1>4. QED
  BY <1>1, <1>2, <1>3

(* A step on h alone keeps StreamInv.                                      *)
LEMMA ShapeStep ==
  ASSUME StreamInv, HandleInv', StreamTypeOK', NEW h \in Handles, NEW o,
         obj' = [obj EXCEPT ![h] = o], frame'.cb # "read_error",
         \A k \in Handles \ {h} : reqs'[k] = reqs[k] /\ conn'[k] = conn[k],
         ShapeOf(o, conn'[h], reqs'[h])
  PROVE  StreamInv'
<1>1. obj'[h] = o /\ \A k \in Handles \ {h} : obj'[k] = obj[k]
  BY DEF StreamInv, HandleInv, HandleTypeOK
<1>2. ASSUME NEW k \in Handles PROVE ShapeOf(obj[k], conn[k], reqs[k])'
  <2>1. CASE k = h
    BY <1>1, <2>1
  <2>2. CASE k # h
    BY <1>1, <2>2 DEF StreamInv
  <2>3. QED
    BY <2>1, <2>2
<1>3. QED
  BY <1>2 DEF StreamInv

(* The types of the stream's variables.                                    *)
LEMMA StreamTyped ==
  ASSUME StreamTypeOK, HandleTypeOK', NEW h \in Handles,
         StreamNext(h) \/ (HandleNext(h) /\ UNCHANGED streamVars)
  PROVE  StreamTypeOK'
<1>1. HandleTypeOK'
  OBVIOUS
<1>2. /\ conn \in [Handles -> Connections]
      /\ shut \in [Handles -> BOOLEAN] /\ waiting \in [Handles -> BOOLEAN]
  BY DEF StreamTypeOK
<1>3. CASE UNCHANGED streamVars
  BY <1>1, <1>2, <1>3 DEF streamVars, StreamTypeOK
<1>4. CASE uv_tcp_init(h) \/ uv_pipe_init(h) \/ uv_tty_init(h)
  BY <1>1, <1>2, <1>4
  DEF uv_tcp_init, uv_pipe_init, uv_tty_init, InitStream, StreamTypeOK, Connections
<1>5. CASE php_uv_handle_open(h)
  BY <1>1, <1>2, <1>5 DEF php_uv_handle_open, StreamTypeOK, Connections
<1>6. CASE uv_listen(h)
  BY <1>1, <1>2, <1>6 DEF uv_listen, StreamTypeOK, Connections
<1>7. CASE php_uv_listen_cb(h)
  BY <1>1, <1>2, <1>7 DEF php_uv_listen_cb, StreamTypeOK
<1>8. CASE \E client \in Handles : uv_accept(h, client)
  BY <1>1, <1>2, <1>8 DEF uv_accept, StreamTypeOK, Connections
<1>9. CASE \E nread \in ReadResults : php_uv_read_cb(h, nread)
  BY <1>1, <1>2, <1>9 DEF php_uv_read_cb, StreamTypeOK, Connections
<1>10. CASE uv_tcp_connect(h) \/ uv_pipe_connect(h)
  BY <1>1, <1>2, <1>10 DEF uv_tcp_connect, uv_pipe_connect, StreamTypeOK, Connections
<1>11. CASE uv_shutdown(h)
  BY <1>1, <1>2, <1>11 DEF uv_shutdown, StreamTypeOK
<1>12. CASE RequestCallback(h)
  BY <1>1, <1>2, <1>3, <1>12
  DEF RequestCallback, php_uv_tcp_connect_cb, php_uv_pipe_connect_cb, Connected,
      php_uv_write_cb, php_uv_shutdown_cb, StreamTypeOK, Connections
<1>13. QED
  BY <1>3, <1>4, <1>5, <1>6, <1>7, <1>8, <1>9, <1>10, <1>11, <1>12
  DEF StreamNext, uv_read_start, uv_read_stop, php_uv_read_cb_return, uv_write, uv_write2

(* What the actions of every class do to a stream.                         *)
LEMMA HandleNextShape ==
  ASSUME StreamInv, HandleInv', StreamTypeOK', NEW h \in Handles,
         HandleNext(h), UNCHANGED streamVars
  PROVE  StreamInv'
<1> DEFINE c == conn[h]
           rq == reqs[h]
<1>1. obj[h] \in Object /\ ShapeOf(obj[h], c, rq) /\ frame.cb # "read_error"
  BY DEF StreamInv, HandleInv, HandleTypeOK
<1>2. conn' = conn /\ reqs' = reqs
  BY DEF streamVars, HandleNext, CopyVariable, UnsetVariable, uv_close, ReturnFromCallback,
         php_uv_close_cb, php_uv_close_cb_return
<1>3. frame'.cb # "read_error"
  BY <1>1 DEF HandleNext, CopyVariable, UnsetVariable, uv_close, ReturnFromCallback,
              php_uv_close_cb, php_uv_close_cb_return, CallPHP, NoFrame
<1>4. ASSUME NEW o, obj' = [obj EXCEPT ![h] = o], ShapeOf(o, c, rq)
      PROVE  StreamInv'
  BY <1>2, <1>3, <1>4, ShapeStep
<1>5. CASE CopyVariable(h)
  BY <1>1, <1>4, <1>5, ShapeKept DEF CopyVariable
<1>6. CASE UnsetVariable(h)
  BY <1>1, <1>4, <1>6, ShapeReleased DEF UnsetVariable
<1>7. CASE uv_close(h)
  <2>1. PICK callable \in BOOLEAN :
             obj' = [obj EXCEPT ![h] = php_uv_close([@ EXCEPT !.notify = callable])]
    BY <1>7 DEF uv_close
  <2>2. [obj[h] EXCEPT !.notify = callable] \in Object
    BY <1>1 DEF Object
  <2>3. ShapeOf(php_uv_close([obj[h] EXCEPT !.notify = callable]), c, rq)
    BY <2>2, CloseAny DEF ShapeOf
  <2>4. QED
    BY <1>4, <2>1, <2>3
<1>8. CASE ReturnFromCallback(h)
  BY <1>1, <1>4, <1>8, ShapeReleased, ReleaseAny DEF ReturnFromCallback
<1>9. CASE php_uv_close_cb(h)
  <2> DEFINE o == [obj[h] EXCEPT !.phase = "closed"]
  <2>1. o \in Object /\ o.phase = "closed" /\ o.active = obj[h].active /\ o.ce = obj[h].ce
    BY <1>1 DEF Object, Phases
  <2>2. ShapeOf(o, c, rq)
    <3>1. rq = NoReqs
      BY <1>9 DEF php_uv_close_cb
    <3> HIDE DEF o
    <3>2. QED
      BY <1>1, <2>1, <3>1 DEF ShapeOf
  <2>3. \/ obj' = [obj EXCEPT ![h] = GC_ADDREF(o)]
        \/ obj' = [obj EXCEPT ![h] = OBJ_RELEASE(clean_uv_handle(o))]
    BY <1>9 DEF php_uv_close_cb, CallPHP
  <2> HIDE DEF o
  <2>4. /\ ShapeOf(GC_ADDREF(o), c, rq)
        /\ ShapeOf(OBJ_RELEASE(clean_uv_handle(o)), c, rq)
    BY <2>1, <2>2, ShapeKept, ShapeReleased
  <2>5. QED
    BY <1>4, <2>3, <2>4
<1>10. CASE php_uv_close_cb_return(h)
  <2>1. OBJ_RELEASE(obj[h]) \in Object /\ ShapeOf(OBJ_RELEASE(obj[h]), c, rq)
    BY <1>1, ShapeReleased, ReleaseAny
  <2>2. ShapeOf(OBJ_RELEASE(clean_uv_handle(OBJ_RELEASE(obj[h]))), c, rq)
    BY <2>1, ShapeKept, ShapeReleased
  <2>3. QED
    BY <1>4, <1>10, <2>2 DEF php_uv_close_cb_return
<1>11. QED
  BY <1>5, <1>6, <1>7, <1>8, <1>9, <1>10 DEF HandleNext

(* What the operations and callbacks of streams do to it.                  *)
LEMMA StreamNextShape ==
  ASSUME StreamInv, CleanEnvironment, HandleInv', StreamTypeOK', NEW h \in Handles,
         StreamNext(h)
  PROVE  StreamInv'
<1>1. obj[h] \in Object /\ ShapeOf(obj[h], conn[h], reqs[h]) /\ frame.cb # "read_error"
  BY DEF StreamInv, HandleInv, HandleTypeOK
<1>2. /\ conn \in [Handles -> Connections]
      /\ reqs \in [Handles -> [ReqKinds -> 0 .. MaxReqs]]
  BY DEF StreamInv, StreamTypeOK, HandleInv, HandleTypeOK
<1>3. Usable(h) => obj[h].phase = "open" /\ obj[h].life = "live"
  BY LiveFacts DEF Usable, Visible, StreamInv, LiveShape
<1>4. GC_ADDREF(obj[h]) \in Object /\ ShapeOf(GC_ADDREF(obj[h]), conn[h], reqs[h])
  BY <1>1, ShapeKept
<1>5. CASE uv_tcp_init(h) \/ uv_pipe_init(h) \/ uv_tty_init(h)
  <2>1. PICK class : InitStream(h, class)
    BY <1>5 DEF uv_tcp_init, uv_pipe_init, uv_tty_init
  <2>2. ~create_uv(class).active /\ create_uv(class).phase = "open"
    BY DEF create_uv, Absent
  <2>3. conn'[h] # "listening"
    BY <1>2, <2>1 DEF InitStream
  <2>4. ShapeOf(create_uv(class), conn'[h], reqs[h])
    BY <2>2, <2>3 DEF ShapeOf
  <2>5. QED
    BY <1>1, <1>2, <2>1, <2>4, ShapeStep DEF InitStream, CreateHandle
<1>6. CASE php_uv_handle_open(h)
  <2>1. ShapeOf(obj[h], conn'[h], reqs[h])
    BY <1>1, <1>2, <1>6 DEF php_uv_handle_open, ShapeOf
  <2>2. obj' = [obj EXCEPT ![h] = obj[h]]
    BY <1>6 DEF php_uv_handle_open, handleVars, StreamInv, HandleInv, HandleTypeOK
  <2>3. QED
    BY <1>1, <1>2, <1>6, <2>1, <2>2, ShapeStep DEF php_uv_handle_open, handleVars
<1>7. CASE \E client \in Handles : uv_accept(h, client)
  <2>1. PICK client \in Handles : uv_accept(h, client)
    BY <1>7
  <2>2. /\ obj' = obj /\ reqs' = reqs /\ frame' = frame
        /\ \A k \in Handles : conn'[k] = conn[k] \/ (conn[k] = "none" /\ conn'[k] = "open")
    BY <1>2, <2>1 DEF uv_accept, handleVars
  <2>3. ASSUME NEW k \in Handles PROVE ShapeOf(obj[k], conn[k], reqs[k])'
    <3>1. ShapeOf(obj[k], conn[k], reqs[k]) /\ obj'[k] = obj[k] /\ reqs'[k] = reqs[k]
      BY <2>2 DEF StreamInv
    <3>2. conn'[k] = conn[k] \/ (conn'[k] # "none" /\ conn'[k] # "listening")
      BY <2>2
    <3>3. ShapeOf(obj[k], conn'[k], reqs[k])
      BY <3>1, <3>2 DEF ShapeOf
    <3>4. QED
      BY <3>1, <3>3
  <2>4. QED
    BY <1>1, <2>2, <2>3 DEF StreamInv
<1>8. CASE uv_listen(h)
  <2> DEFINE o == [GC_ADDREF(obj[h]) EXCEPT !.active = TRUE]
  <2>1. reqs' = reqs /\ frame' = frame /\ obj[h].phase = "open"
    BY <1>3, <1>8 DEF uv_listen
  <2>2. CASE conn[h] = "none"
    <3>1. obj' = [obj EXCEPT ![h] = o] /\ conn' = [conn EXCEPT ![h] = "listening"]
      BY <1>8, <2>2 DEF uv_listen
    <3>2. o.active /\ o.phase = "open" /\ o.ce \in {"tcp", "pipe"}
      BY <1>4, <1>8, <2>1, AddRefFields, <1>1 DEF Object, uv_listen
    <3> HIDE DEF o
    <3>3. ShapeOf(o, conn'[h], reqs[h])
      BY <1>2, <3>1, <3>2 DEF ShapeOf
    <3>4. QED
      BY <1>1, <1>2, <2>1, <3>1, <3>3, ShapeStep
  <2>3. CASE conn[h] # "none"
    BY <1>1, <1>4, <1>8, <2>1, <2>3, ShapeStep DEF uv_listen
  <2>4. QED
    BY <2>2, <2>3
<1>9. CASE php_uv_listen_cb(h)
  <2>1. conn' = conn /\ reqs' = reqs /\ frame'.cb = "listen"
    BY <1>9 DEF php_uv_listen_cb, CallPHP
  <2>2. obj' = [obj EXCEPT ![h] = GC_ADDREF(GC_ADDREF(obj[h]))]
    BY <1>9 DEF php_uv_listen_cb, CallPHP
  <2>3. ShapeOf(GC_ADDREF(GC_ADDREF(obj[h])), conn[h], reqs[h])
    BY <1>4, ShapeKept
  <2>4. QED
    BY <2>1, <2>2, <2>3, ShapeStep
<1>10. CASE uv_read_start(h)
  <2> DEFINE o == [GC_ADDREF(obj[h]) EXCEPT !.active = TRUE]
  <2>1. /\ conn' = conn /\ reqs' = reqs /\ frame' = frame
        /\ obj' = [obj EXCEPT ![h] = o] /\ conn[h] # "none" /\ obj[h].phase = "open"
    BY <1>3, <1>10 DEF uv_read_start, streamVars, Readable
  <2>2. o.active /\ o.phase = "open" /\ o.ce \in {"tcp", "pipe", "tty"}
    BY <1>1, <1>10, <2>1, AddRefFields DEF Object, uv_read_start, IsStream
  <2> HIDE DEF o
  <2>3. ShapeOf(o, conn[h], reqs[h])
    BY <2>1, <2>2 DEF ShapeOf
  <2>4. QED
    BY <1>1, <2>1, <2>3, ShapeStep
<1>11. CASE uv_read_stop(h)
  <2> DEFINE o == [obj[h] EXCEPT !.active = ~IsReading(h)]
  <2>1. /\ conn' = conn /\ reqs' = reqs /\ frame' = frame
        /\ obj' = [obj EXCEPT ![h] = OBJ_RELEASE(o)] /\ IsReading(h)
    BY <1>11 DEF uv_read_stop, streamVars, CleanEnvironment
  <2>2. o \in Object /\ ~o.active /\ o.phase = obj[h].phase /\ conn[h] # "listening"
    BY <1>1, <2>1 DEF IsReading, Object
  <2> HIDE DEF o
  <2>3. ShapeOf(OBJ_RELEASE(o), conn[h], reqs[h])
    <3>1. ShapeOf(o, conn[h], reqs[h])
      BY <1>1, <2>2 DEF ShapeOf
    <3>2. QED
      BY <2>2, <3>1, ShapeReleased
  <2>4. QED
    BY <1>1, <2>1, <2>3, ShapeStep
<1>12. CASE \E nread \in ReadResults : php_uv_read_cb(h, nread)
  <2>1. PICK nread \in {"data", "eof"} : php_uv_read_cb(h, nread)
    BY <1>12 DEF CleanEnvironment
  <2> DEFINE o == IF nread = "data" THEN GC_ADDREF(obj[h]) ELSE [obj[h] EXCEPT !.active = FALSE]
  <2>2. /\ reqs' = reqs /\ conn[h] # "listening" /\ conn' = conn
        /\ frame'.cb # "read_error" /\ obj' = [obj EXCEPT ![h] = GC_ADDREF(o)]
    <3>1. reqs' = reqs /\ conn[h] # "listening"
      BY <2>1 DEF php_uv_read_cb, IsReading
    <3>2. conn' = conn
      BY <1>2, <2>1 DEF php_uv_read_cb
    <3>3. CASE nread = "data"
      BY <2>1, <3>1, <3>2, <3>3 DEF php_uv_read_cb, CallPHP
    <3>4. CASE nread = "eof"
      BY <2>1, <3>1, <3>2, <3>4 DEF php_uv_read_cb, CallPHP
    <3>5. QED
      BY <3>3, <3>4
  <2>3. o \in Object /\ ShapeOf(o, conn[h], reqs[h])
    <3>1. CASE nread = "data"
      BY <1>4, <3>1
    <3>2. CASE nread = "eof"
      <4> DEFINE q == [obj[h] EXCEPT !.active = FALSE]
      <4>1. q \in Object /\ ~q.active /\ q.phase = obj[h].phase
        BY <1>1 DEF Object
      <4>2. o = q
        BY <3>2
      <4> HIDE DEF q, o
      <4>3. ShapeOf(q, conn[h], reqs[h])
        BY <1>1, <2>2, <4>1 DEF ShapeOf
      <4>4. QED
        BY <4>1, <4>2, <4>3
    <3>3. QED
      BY <3>1, <3>2
  <2> HIDE DEF o
  <2>4. QED
    BY <2>2, <2>3, ShapeKept, ShapeStep
<1>13. CASE php_uv_read_cb_return(h)
  BY <1>1, <1>13 DEF php_uv_read_cb_return
<1>14. CASE uv_tcp_connect(h) \/ uv_pipe_connect(h) \/ uv_write(h) \/ uv_shutdown(h)
  <2>1. /\ frame' = frame /\ obj' = [obj EXCEPT ![h] = GC_ADDREF(obj[h])]
        /\ \A k \in Handles \ {h} : reqs'[k] = reqs[k] /\ conn'[k] = conn[k]
        /\ obj[h].phase = "open"
        /\ conn'[h] = conn[h] \/ conn'[h] = "connecting"
    BY <1>2, <1>3, <1>14 DEF uv_tcp_connect, uv_pipe_connect, uv_write, uv_shutdown,
                        Submit, Forget, streamVars
  <2>2. GC_ADDREF(obj[h]).phase = "open"
    BY <1>1, <2>1, AddRefFields
  <2>3. ShapeOf(GC_ADDREF(obj[h]), conn'[h], reqs'[h])
    <3>1. conn'[h] = conn[h] \/ (conn'[h] = "connecting")
      BY <2>1
    <3>2. QED
      BY <1>4, <2>2, <3>1 DEF ShapeOf
  <2>4. QED
    BY <1>1, <2>1, <2>3, ShapeStep
<1>15. CASE RequestCallback(h)
  <2>1. PICK kind \in {"connect", "write", "shutdown"} :
             Answer(h, kind) /\ DoCallback(h, kind, obj[h])
    BY <1>15 DEF RequestCallback, php_uv_tcp_connect_cb, php_uv_pipe_connect_cb,
                 Connected, php_uv_write_cb, php_uv_shutdown_cb, DoCallback
  <2>2. /\ \A k \in Handles \ {h} : reqs'[k] = reqs[k]
        /\ reqs[h] # NoReqs
    BY <1>2, <2>1, StreamClass DEF Answer, NoReqs
  <2>3. /\ \A k \in Handles \ {h} : conn'[k] = conn[k]
        /\ conn'[h] = conn[h] \/ (conn'[h] # "none" /\ conn'[h] # "listening")
    <3>1. CASE conn' = conn
      BY <3>1
    <3>2. CASE Connected(h)
      BY <1>2, <3>2 DEF Connected
    <3>3. QED
      BY <1>15, <3>1, <3>2
      DEF RequestCallback, php_uv_tcp_connect_cb, php_uv_pipe_connect_cb,
          php_uv_write_cb, php_uv_shutdown_cb, streamVars
  <2>4. frame'.cb # "read_error"
    BY <1>1, <2>1 DEF DoCallback, CallPHP
  <2>5. obj[h].phase # "closed"
    BY <1>1, <2>2 DEF ShapeOf
  <2>6. ShapeOf(obj[h], conn'[h], reqs'[h])
    BY <1>1, <2>3, <2>5 DEF ShapeOf
  <2>7. \/ obj' = [obj EXCEPT ![h] = GC_ADDREF(obj[h])]
        \/ obj' = [obj EXCEPT ![h] = OBJ_RELEASE(obj[h])]
    BY <2>1 DEF DoCallback, CallPHP
  <2>8. /\ ShapeOf(GC_ADDREF(obj[h]), conn'[h], reqs'[h])
        /\ ShapeOf(OBJ_RELEASE(obj[h]), conn'[h], reqs'[h])
    BY <1>1, <2>6, ShapeKept, ShapeReleased
  <2>9. QED
    BY <2>2, <2>3, <2>4, <2>7, <2>8, ShapeStep
<1>16. QED
  BY <1>5, <1>6, <1>7, <1>8, <1>9, <1>10, <1>11, <1>12, <1>13, <1>14, <1>15
  DEF StreamNext, uv_write2

-----------------------------------------------------------------------------
(* The order of a stream's life, whatever the counts.                      *)

(* Taking a reference, and cleaning the slots.                             *)
LEMMA OrderKept ==
  ASSUME NEW o \in Object, NEW c, OrderOf(o, c)
  PROVE  /\ GC_ADDREF(o) \in Object /\ OrderOf(GC_ADDREF(o), c)
         /\ clean_uv_handle(o) \in Object /\ OrderOf(clean_uv_handle(o), c)
         /\ o.life # "none" => GC_ADDREF(o).life # "none" /\ clean_uv_handle(o).life # "none"
  BY AddRefFields, CleanFields DEF OrderOf

(* A close of an open object makes it a closing one, marked as destroyed.  *)
LEMMA OrderClosed ==
  ASSUME NEW o \in Object, NEW c, o.phase = "open"
  PROVE  /\ php_uv_close(o) \in Object /\ OrderOf(php_uv_close(o), c)
         /\ php_uv_close(o).dtored /\ php_uv_close(o).phase = "closing"
         /\ php_uv_close(o).life = o.life
<1> DEFINE held == IF php_uv_is_handle_referenced(o) THEN o ELSE GC_ADDREF(o)
           stopped == [held EXCEPT !.phase = "closing", !.active = FALSE]
<1>1. held \in Object /\ held.phase = "open" /\ held.life = o.life
  BY AddRefFields
<1>2. php_uv_close(o) = [libuv_close(held) EXCEPT !.dtored = TRUE]
  BY DEF php_uv_close
<1> HIDE DEF held
<1>3. libuv_close(held) = stopped
  BY <1>1 DEF libuv_close
<1>4. /\ stopped \in Object /\ stopped.phase = "closing" /\ stopped.life = o.life
  BY <1>1 DEF Object, Phases
<1>5. php_uv_close(o) = [stopped EXCEPT !.dtored = TRUE]
  BY <1>2, <1>3
<1> HIDE DEF stopped
<1>6. /\ php_uv_close(o) \in Object /\ php_uv_close(o).dtored
      /\ php_uv_close(o).phase = "closing" /\ php_uv_close(o).life = o.life
  BY <1>4, <1>5 DEF Object
<1>7. QED
  BY <1>6 DEF OrderOf

(* Dropping a reference, counted or not.                                   *)
LEMMA OrderReleased ==
  ASSUME NEW o \in Object, NEW c, OrderOf(o, c)
  PROVE  /\ OBJ_RELEASE(o) \in Object /\ OrderOf(OBJ_RELEASE(o), c)
         /\ o.life # "none" => OBJ_RELEASE(o).life # "none"
<1>1. CASE o.rc > 1
  BY <1>1, ReleaseFields DEF OrderOf
<1>2. ASSUME NEW x \in Object, x.dtored, x.phase # "aborted"
      PROVE  OrderOf(zend_free(x), c) /\ zend_free(x).life = "freed"
  <2>1. /\ zend_free(x).life = "freed" /\ zend_free(x).dtored
        /\ zend_free(x).phase = x.phase
    BY <1>2 DEF zend_free, Object
  <2>2. QED
    BY <1>2, <2>1 DEF OrderOf
<1>3. CASE ~(o.rc > 1) /\ o.dtored
  BY <1>2, <1>3, ReleaseAny DEF OBJ_RELEASE, OrderOf
<1>4. CASE ~(o.rc > 1) /\ ~o.dtored
  <2> DEFINE i == [o EXCEPT !.rc = 1, !.dtored = TRUE]
             d == php_uv_close(i)
             r == [d EXCEPT !.rc = @ - 1]
  <2>1. OBJ_RELEASE(o) = IF d.rc > 1 THEN r ELSE zend_free(d)
    BY <1>4 DEF OBJ_RELEASE, destruct_uv
  <2>2. i \in Object /\ i.phase = "open" /\ i.life = o.life
    BY <1>4 DEF Object, OrderOf
  <2> HIDE DEF i
  <2>3. d \in Object /\ d.dtored /\ d.phase = "closing" /\ d.life = o.life
    BY <2>2, OrderClosed
  <2> HIDE DEF d
  <2>4. r.dtored /\ r.phase = "closing" /\ r.life = o.life
    BY <2>3 DEF Object
  <2> HIDE DEF r
  <2>5. OrderOf(r, c)
    BY <2>4 DEF OrderOf
  <2>6. QED
    BY <1>2, <2>1, <2>3, <2>4, <2>5, ReleaseAny
<1>5. QED
  BY <1>1, <1>3, <1>4

(* Starting a stream, and stopping one that does not listen.               *)
LEMMA OrderActive ==
  ASSUME NEW o \in Object, NEW c, OrderOf(o, c), NEW a \in BOOLEAN, a \/ c # "listening"
  PROVE  /\ [o EXCEPT !.active = a] \in Object /\ OrderOf([o EXCEPT !.active = a], c)
         /\ [o EXCEPT !.active = a].life = o.life
<1> DEFINE p == [o EXCEPT !.active = a]
<1>1. /\ p \in Object /\ p.active = a /\ p.life = o.life
      /\ p.phase = o.phase /\ p.dtored = o.dtored
  BY DEF Object
<1> HIDE DEF p
<1>2. OrderOf(p, c)
  BY <1>1 DEF OrderOf
<1>3. QED
  BY <1>1, <1>2 DEF p

(* One reference is taken, or one is dropped.                              *)
LEMMA OrderCall ==
  ASSUME NEW h, NEW cb, NEW o \in Object, NEW c, OrderOf(o, c), o.life # "none",
         DoCallback(h, cb, o)
  PROVE  \E p \in Object : /\ obj' = [obj EXCEPT ![h] = p]
                           /\ OrderOf(p, c) /\ p.life # "none"
  BY OrderKept, OrderReleased DEF DoCallback, CallPHP

-----------------------------------------------------------------------------
(* What an action makes of the object it works on.                         *)
Ordered(h) ==
  \E p \in Object :
    /\ obj' = [obj EXCEPT ![h] = p]
    /\ OrderOf(p, conn'[h])
    /\ obj[h].life # "none" => p.life # "none"

(* The actions of every class.                                             *)
LEMMA HandleNextOrdered ==
  ASSUME StreamOrder, NEW h \in Handles, HandleNext(h), UNCHANGED streamVars
  PROVE  Ordered(h)
<1> DEFINE c == conn[h]
<1>1. obj[h] \in Object /\ OrderOf(obj[h], c) /\ conn' = conn
  BY DEF StreamOrder, StreamTypeOK, HandleTypeOK, streamVars
<1>2. ASSUME NEW p \in Object, obj' = [obj EXCEPT ![h] = p], OrderOf(p, c),
             obj[h].life # "none" => p.life # "none"
      PROVE  Ordered(h)
  BY <1>1, <1>2 DEF Ordered
<1>3. CASE CopyVariable(h)
  BY <1>1, <1>2, <1>3, OrderKept DEF CopyVariable
<1>4. CASE UnsetVariable(h)
  BY <1>1, <1>2, <1>4, OrderReleased DEF UnsetVariable
<1>5. CASE uv_close(h)
  <2>1. PICK callable \in BOOLEAN :
             obj' = [obj EXCEPT ![h] = php_uv_close([@ EXCEPT !.notify = callable])]
    BY <1>5 DEF uv_close
  <2> DEFINE o == [obj[h] EXCEPT !.notify = callable]
  <2>2. obj[h].phase = "open"
    BY <1>1, <1>5 DEF uv_close, Usable, OrderOf
  <2>3. o \in Object /\ o.phase = "open" /\ o.life = obj[h].life
    BY <1>1, <2>2 DEF Object
  <2>4. obj' = [obj EXCEPT ![h] = php_uv_close(o)]
    BY <2>1
  <2> HIDE DEF o
  <2>5. QED
    BY <1>2, <2>3, <2>4, OrderClosed
<1>6. CASE ReturnFromCallback(h)
  <2>1. /\ OBJ_RELEASE(obj[h]) \in Object /\ OrderOf(OBJ_RELEASE(obj[h]), c)
        /\ obj[h].life # "none" => OBJ_RELEASE(obj[h]).life # "none"
    BY <1>1, OrderReleased
  <2>2. QED
    BY <1>2, <1>6, <2>1, OrderReleased DEF ReturnFromCallback
<1>7. CASE php_uv_close_cb(h)
  <2> DEFINE o == [obj[h] EXCEPT !.phase = "closed"]
  <2>1. /\ o \in Object /\ o.phase = "closed" /\ o.dtored = obj[h].dtored
        /\ o.life = obj[h].life
    BY <1>1 DEF Object, Phases
  <2>2. obj[h].dtored
    BY <1>1, <1>7 DEF php_uv_close_cb, OrderOf
  <2>3. \/ obj' = [obj EXCEPT ![h] = GC_ADDREF(o)]
        \/ obj' = [obj EXCEPT ![h] = OBJ_RELEASE(clean_uv_handle(o))]
    BY <1>7 DEF php_uv_close_cb, CallPHP
  <2> HIDE DEF o
  <2>4. OrderOf(o, c)
    BY <2>1, <2>2 DEF OrderOf
  <2>5. QED
    BY <1>2, <2>1, <2>3, <2>4, OrderKept, OrderReleased
<1>8. CASE php_uv_close_cb_return(h)
  <2> DEFINE o == clean_uv_handle(OBJ_RELEASE(obj[h]))
  <2>1. o \in Object /\ OrderOf(o, c) /\ (obj[h].life # "none" => o.life # "none")
    BY <1>1, OrderKept, OrderReleased
  <2>2. obj' = [obj EXCEPT ![h] = OBJ_RELEASE(o)]
    BY <1>8 DEF php_uv_close_cb_return
  <2> HIDE DEF o
  <2>3. QED
    BY <1>2, <2>1, <2>2, OrderReleased
<1>9. QED
  BY <1>3, <1>4, <1>5, <1>6, <1>7, <1>8 DEF HandleNext

(* The operations and callbacks of streams.                                *)
LEMMA StreamNextOrdered ==
  ASSUME StreamOrder, NEW h \in Handles, StreamNext(h)
  PROVE  Ordered(h)
<1> DEFINE c == conn[h]
<1>1. /\ obj[h] \in Object /\ OrderOf(obj[h], c)
      /\ obj \in [Handles -> Object] /\ conn \in [Handles -> Connections]
      /\ frame.handle = h /\ frame.cb = "read_error" => c = "broken"
  BY DEF StreamOrder, StreamTypeOK, HandleTypeOK
<1>2. ASSUME NEW p \in Object, obj' = [obj EXCEPT ![h] = p], OrderOf(p, conn'[h]),
             obj[h].life # "none" => p.life # "none"
      PROVE  Ordered(h)
  BY <1>2 DEF Ordered
<1>3. ASSUME NEW o, NEW d, OrderOf(o, c), d = c \/ d # "listening" PROVE OrderOf(o, d)
  BY <1>3 DEF OrderOf
<1>4. /\ GC_ADDREF(obj[h]) \in Object /\ OrderOf(GC_ADDREF(obj[h]), c)
      /\ GC_ADDREF(obj[h]).life = obj[h].life
  BY <1>1, OrderKept, AddRefFields
<1>5. CASE uv_tcp_init(h) \/ uv_pipe_init(h) \/ uv_tty_init(h)
  <2>1. PICK class \in {"tcp", "pipe", "tty"} : InitStream(h, class)
    BY <1>5 DEF uv_tcp_init, uv_pipe_init, uv_tty_init
  <2> DEFINE o == create_uv(class)
  <2>2. o \in Object /\ ~o.dtored /\ o.phase = "open" /\ o.life = "live"
    BY StreamClass DEF create_uv, Absent, Object, Lives, Phases
  <2>3. conn'[h] # "listening" /\ obj' = [obj EXCEPT ![h] = o]
    BY <1>1, <2>1 DEF InitStream, CreateHandle
  <2> HIDE DEF o
  <2>4. OrderOf(o, conn'[h])
    BY <2>2, <2>3 DEF OrderOf
  <2>5. QED
    BY <1>2, <2>2, <2>3, <2>4
<1>6. CASE php_uv_handle_open(h) \/ \E client \in Handles : uv_accept(h, client)
  <2>1. obj' = obj /\ (conn'[h] = c \/ conn'[h] = "open")
    BY <1>1, <1>6 DEF php_uv_handle_open, uv_accept, handleVars
  <2>2. obj' = [obj EXCEPT ![h] = obj[h]]
    BY <1>1, <2>1
  <2>3. QED
    BY <1>1, <1>2, <1>3, <2>1, <2>2
<1>7. CASE uv_listen(h)
  <2>1. CASE c = "none"
    <3> DEFINE g == GC_ADDREF(obj[h])
               o == [g EXCEPT !.active = TRUE]
    <3>1. obj' = [obj EXCEPT ![h] = o] /\ conn'[h] = "listening"
      BY <1>1, <1>7, <2>1 DEF uv_listen
    <3>2. g \in Object /\ OrderOf(g, c) /\ g.life = obj[h].life
      BY <1>4
    <3> HIDE DEF g
    <3>3. /\ o \in Object /\ o.active /\ o.life = obj[h].life
          /\ o.phase = g.phase /\ o.dtored = g.dtored
      BY <3>2 DEF Object
    <3> HIDE DEF o
    <3>4. OrderOf(o, "listening")
      BY <3>2, <3>3 DEF OrderOf
    <3>5. QED
      BY <1>2, <3>1, <3>3, <3>4
  <2>2. CASE c # "none"
    BY <1>2, <1>4, <1>7, <2>2 DEF uv_listen
  <2>3. QED
    BY <2>1, <2>2
<1>8. CASE php_uv_listen_cb(h)
  BY <1>2, <1>4, <1>8, OrderKept DEF php_uv_listen_cb, CallPHP
<1>9. CASE uv_read_start(h)
  <2>1. conn'[h] = c /\ obj' = [obj EXCEPT ![h] = [GC_ADDREF(obj[h]) EXCEPT !.active = TRUE]]
    BY <1>9 DEF uv_read_start, streamVars
  <2>2. QED
    BY <1>2, <1>4, <2>1, OrderActive
<1>10. CASE uv_read_stop(h)
  <2> DEFINE a == ~IsReading(h)
             o == [obj[h] EXCEPT !.active = a]
  <2>1. conn'[h] = c /\ obj' = [obj EXCEPT ![h] = OBJ_RELEASE(o)]
    BY <1>10 DEF uv_read_stop, streamVars
  <2>2. a \in BOOLEAN /\ (a \/ c # "listening")
    BY DEF IsReading
  <2> HIDE DEF a
  <2>3. o \in Object /\ OrderOf(o, c) /\ o.life = obj[h].life
    BY <1>1, <2>2, OrderActive
  <2> HIDE DEF o
  <2>4. QED
    BY <1>2, <2>1, <2>3, OrderReleased
<1>11. CASE \E nread \in ReadResults : php_uv_read_cb(h, nread)
  <2>1. PICK nread \in ReadResults : php_uv_read_cb(h, nread)
    BY <1>11
  <2>2. /\ c # "listening" /\ conn'[h] \in {c, "broken"}
        /\ nread \in {"data", "eof", "again", "error"}
    BY <1>1, <2>1, StreamAssumption DEF php_uv_read_cb, IsReading
  <2>3. PICK o \in {GC_ADDREF(obj[h]), [obj[h] EXCEPT !.active = FALSE], obj[h]} :
             obj' = [obj EXCEPT ![h] = GC_ADDREF(o)]
    BY <2>1, <2>2 DEF php_uv_read_cb, CallPHP
  <2>4. o \in Object /\ OrderOf(o, c) /\ o.life = obj[h].life
    BY <1>1, <1>4, <2>2, OrderActive
  <2>5. GC_ADDREF(o) \in Object /\ OrderOf(GC_ADDREF(o), c) /\ GC_ADDREF(o).life = obj[h].life
    BY <2>4, OrderKept, AddRefFields
  <2>6. QED
    BY <1>2, <1>3, <2>2, <2>3, <2>5
<1>12. CASE php_uv_read_cb_return(h)
  <2> DEFINE o == OBJ_RELEASE(OBJ_RELEASE(obj[h]))
  <2>1. c = "broken" /\ conn'[h] = c /\ obj' = [obj EXCEPT ![h] = [o EXCEPT !.active = FALSE]]
    BY <1>1, <1>12 DEF php_uv_read_cb_return, streamVars
  <2>2. o \in Object /\ OrderOf(o, c) /\ (obj[h].life # "none" => o.life # "none")
    <3>1. /\ OBJ_RELEASE(obj[h]) \in Object /\ OrderOf(OBJ_RELEASE(obj[h]), c)
          /\ obj[h].life # "none" => OBJ_RELEASE(obj[h]).life # "none"
      BY <1>1, OrderReleased
    <3>2. QED
      BY <3>1, OrderReleased
  <2> HIDE DEF o
  <2>3. QED
    BY <1>2, <2>1, <2>2, OrderActive
<1>13. CASE uv_tcp_connect(h) \/ uv_pipe_connect(h) \/ uv_write(h) \/ uv_shutdown(h)
  <2>1. /\ obj' = [obj EXCEPT ![h] = GC_ADDREF(obj[h])]
        /\ conn'[h] \in {c, "connecting"}
    BY <1>1, <1>13 DEF uv_tcp_connect, uv_pipe_connect, uv_write, uv_shutdown,
                       Submit, Forget, streamVars
  <2>2. QED
    BY <1>2, <1>3, <1>4, <2>1
<1>14. CASE RequestCallback(h)
  <2>1. PICK kind \in {"connect", "write", "shutdown"} : DoCallback(h, kind, obj[h])
    BY <1>14 DEF RequestCallback, php_uv_tcp_connect_cb, php_uv_pipe_connect_cb,
                 php_uv_write_cb, php_uv_shutdown_cb, DoCallback
  <2>2. conn'[h] \in {c, "open", "failed"}
    BY <1>1, <1>14 DEF RequestCallback, php_uv_tcp_connect_cb, php_uv_pipe_connect_cb,
                 Connected, php_uv_write_cb, php_uv_shutdown_cb, streamVars
  <2>3. \/ obj' = [obj EXCEPT ![h] = GC_ADDREF(obj[h])]
        \/ obj' = [obj EXCEPT ![h] = OBJ_RELEASE(obj[h])]
    BY <2>1 DEF DoCallback, CallPHP
  <2>4. /\ OBJ_RELEASE(obj[h]) \in Object /\ OrderOf(OBJ_RELEASE(obj[h]), c)
        /\ obj[h].life # "none" => OBJ_RELEASE(obj[h]).life # "none"
    BY <1>1, OrderReleased
  <2>5. QED
    BY <1>2, <1>3, <1>4, <2>2, <2>3, <2>4
<1>15. QED
  BY <1>5, <1>6, <1>7, <1>8, <1>9, <1>10, <1>11, <1>12, <1>13, <1>14
  DEF StreamNext, uv_write2

(* What an action leaves of the other streams, and of one that broke.      *)
LEMMA ConnKept ==
  ASSUME StreamOrder, NEW h \in Handles,
         StreamNext(h) \/ (HandleNext(h) /\ UNCHANGED streamVars)
  PROVE  /\ \A k \in Handles \ {h} : conn'[k] \in {conn[k], "open"}
         /\ \A k \in Handles : obj[k].life # "none" /\ conn[k] = "broken" => conn'[k] = "broken"
<1>1. conn \in [Handles -> Connections]
  BY DEF StreamOrder, StreamTypeOK
<1>2. CASE UNCHANGED streamVars
  BY <1>2 DEF streamVars
<1>3. CASE uv_tcp_init(h) \/ uv_pipe_init(h) \/ uv_tty_init(h)
  BY <1>1, <1>3 DEF uv_tcp_init, uv_pipe_init, uv_tty_init, InitStream, CreateHandle
<1>4. CASE php_uv_handle_open(h) \/ \E client \in Handles : uv_accept(h, client)
  BY <1>1, <1>4 DEF php_uv_handle_open, uv_accept
<1>5. CASE uv_listen(h) \/ php_uv_listen_cb(h)
  BY <1>1, <1>5 DEF uv_listen, php_uv_listen_cb
<1>6. CASE \E nread \in ReadResults : php_uv_read_cb(h, nread)
  BY <1>1, <1>6 DEF php_uv_read_cb
<1>7. CASE uv_tcp_connect(h) \/ uv_pipe_connect(h)
  BY <1>1, <1>7 DEF uv_tcp_connect, uv_pipe_connect
<1>8. CASE uv_shutdown(h)
  BY <1>8 DEF uv_shutdown
<1>9. CASE RequestCallback(h)
  BY <1>1, <1>9 DEF RequestCallback, php_uv_tcp_connect_cb, php_uv_pipe_connect_cb, Connected,
      php_uv_write_cb, php_uv_shutdown_cb, streamVars
<1>10. QED
  BY <1>2, <1>3, <1>4, <1>5, <1>6, <1>7, <1>8, <1>9
  DEF StreamNext, uv_read_start, uv_read_stop, php_uv_read_cb_return, uv_write, uv_write2

(* A callback for a failed read begins on a stream that breaks.            *)
LEMMA ErrorFrame ==
  ASSUME StreamOrder, NEW h \in Handles,
         StreamNext(h) \/ (HandleNext(h) /\ UNCHANGED streamVars)
  PROVE  \/ frame' = frame
         \/ frame'.cb # "read_error"
         \/ frame'.handle = h /\ conn'[h] = "broken" /\ obj[h].life # "none"
<1>1. conn \in [Handles -> Connections] /\ NoFrame.cb # "read_error"
  BY DEF StreamOrder, StreamTypeOK, NoFrame
<1>2. CASE HandleNext(h)
  BY <1>1, <1>2 DEF HandleNext, CopyVariable, UnsetVariable, uv_close, ReturnFromCallback,
              php_uv_close_cb, php_uv_close_cb_return, CallPHP
<1>3. CASE \E nread \in ReadResults : php_uv_read_cb(h, nread)
  <2>1. PICK nread \in ReadResults : php_uv_read_cb(h, nread)
    BY <1>3
  <2>2. nread \in {"data", "eof", "again", "error"}
    BY StreamAssumption
  <2>3. obj[h].life # "none" /\ (nread = "error" => conn'[h] = "broken")
    BY <1>1, <2>1 DEF php_uv_read_cb
  <2>4. PICK cb \in {"read", "read_end", "read_error"} :
             frame' = [handle |-> h, cb |-> cb] /\ (cb = "read_error" => nread = "error")
    <3>1. CASE nread = "data"
      BY <2>1, <3>1 DEF php_uv_read_cb, CallPHP
    <3>2. CASE nread = "eof"
      BY <2>1, <3>2 DEF php_uv_read_cb, CallPHP
    <3>3. CASE nread = "again"
      BY <2>1, <3>3 DEF php_uv_read_cb, CallPHP
    <3>4. CASE nread = "error"
      BY <2>1, <3>4 DEF php_uv_read_cb, CallPHP
    <3>5. QED
      BY <2>2, <3>1, <3>2, <3>3, <3>4
  <2>5. frame'.handle = h /\ frame'.cb = cb
    BY <2>4
  <2>6. QED
    BY <2>3, <2>4, <2>5
<1>4. CASE RequestCallback(h)
  BY <1>1, <1>4 DEF RequestCallback, php_uv_tcp_connect_cb, php_uv_pipe_connect_cb, Connected,
      php_uv_write_cb, php_uv_shutdown_cb, DoCallback, CallPHP
<1>5. CASE php_uv_listen_cb(h) \/ php_uv_read_cb_return(h)
  BY <1>1, <1>5 DEF php_uv_listen_cb, php_uv_read_cb_return, CallPHP
<1>6. CASE \/ uv_tcp_init(h) \/ uv_pipe_init(h) \/ uv_tty_init(h)
           \/ php_uv_handle_open(h) \/ uv_listen(h)
           \/ \E client \in Handles : uv_accept(h, client)
  BY <1>6 DEF uv_tcp_init, uv_pipe_init, uv_tty_init, InitStream, CreateHandle,
              php_uv_handle_open, uv_listen, uv_accept, handleVars
<1>7. CASE \/ uv_read_start(h) \/ uv_read_stop(h) \/ uv_tcp_connect(h)
           \/ uv_pipe_connect(h) \/ uv_write(h) \/ uv_shutdown(h)
  BY <1>7 DEF uv_read_start, uv_read_stop, uv_tcp_connect, uv_pipe_connect, uv_write, uv_shutdown
<1>8. QED
  BY <1>2, <1>3, <1>4, <1>5, <1>6, <1>7 DEF StreamNext, uv_write2

(* The types of what every class shares.                                   *)
LEMMA SharedTyped ==
  ASSUME HandleTypeOK, obj' \in [Handles -> Object], NEW h \in Handles,
         StreamNext(h) \/ (HandleNext(h) /\ UNCHANGED streamVars)
  PROVE  HandleTypeOK'
<1>1. /\ vars \in [Handles -> 0 .. MaxVars]
      /\ reqs \in [Handles -> [ReqKinds -> 0 .. MaxReqs]]
      /\ frame \in [handle : Handles \cup {NoHandle}, cb : Callbacks]
      /\ lost \in [Handles -> 0 .. MaxLost]
  BY DEF HandleTypeOK
<1>2. ASSUME NEW kind \in ReqKinds, Submit(h, kind) \/ Answer(h, kind)
      PROVE  reqs' \in [Handles -> [ReqKinds -> 0 .. MaxReqs]]
  BY <1>1, <1>2, HandleAssumption DEF Submit, Answer
<1>3. ASSUME Forget(h) PROVE lost' \in [Handles -> 0 .. MaxLost]
  BY <1>1, <1>3, HandleAssumption DEF Forget
<1>4. NoFrame \in [handle : Handles \cup {NoHandle}, cb : Callbacks]
  BY DEF NoFrame, Callbacks
<1>5. ASSUME NEW cb, NEW o, CallPHP(h, cb, o), cb \in Callbacks
      PROVE  frame' \in [handle : Handles \cup {NoHandle}, cb : Callbacks]
  BY <1>5 DEF CallPHP
<1>6. CASE HandleNext(h)
  <2>1. vars' \in [Handles -> 0 .. MaxVars]
    BY <1>1, <1>6, HandleAssumption
    DEF HandleNext, CopyVariable, UnsetVariable, uv_close, ReturnFromCallback,
        php_uv_close_cb, php_uv_close_cb_return
  <2>2. frame' \in [handle : Handles \cup {NoHandle}, cb : Callbacks]
    <3>1. "close" \in Callbacks
      BY DEF Callbacks
    <3>2. QED
      BY <1>1, <1>4, <1>5, <1>6, <3>1
      DEF HandleNext, CopyVariable, UnsetVariable, uv_close, ReturnFromCallback,
          php_uv_close_cb, php_uv_close_cb_return
  <2>3. reqs' = reqs /\ lost' = lost
    BY <1>6 DEF HandleNext, CopyVariable, UnsetVariable, uv_close, ReturnFromCallback,
          php_uv_close_cb, php_uv_close_cb_return
  <2>4. QED
    BY <1>1, <2>1, <2>2, <2>3 DEF HandleTypeOK
<1>7. CASE uv_tcp_init(h) \/ uv_pipe_init(h) \/ uv_tty_init(h)
  BY <1>1, <1>7, HandleAssumption
  DEF uv_tcp_init, uv_pipe_init, uv_tty_init, InitStream, CreateHandle, HandleTypeOK
<1>8. CASE \/ php_uv_handle_open(h) \/ uv_read_start(h) \/ uv_read_stop(h)
           \/ \E client \in Handles : uv_accept(h, client)
  BY <1>1, <1>8
  DEF php_uv_handle_open, uv_accept, uv_read_start, uv_read_stop, handleVars, HandleTypeOK
<1>9. CASE uv_listen(h)
  BY <1>1, <1>9, HandleAssumption DEF uv_listen, HandleTypeOK
<1>10. CASE php_uv_listen_cb(h)
  BY <1>1, <1>5, <1>10, StreamClass DEF php_uv_listen_cb, HandleTypeOK
<1>11. CASE \E nread \in ReadResults : php_uv_read_cb(h, nread)
  <2>1. PICK nread \in {"data", "eof", "again", "error"} : php_uv_read_cb(h, nread)
    BY <1>11, StreamAssumption
  <2>2. /\ vars' = vars /\ reqs' = reqs /\ lost' = lost
        /\ \E cb \in {"read", "read_end", "read_error"} : \E o : CallPHP(h, cb, o)
    BY <2>1 DEF php_uv_read_cb
  <2>3. "read_error" \in Callbacks
    BY DEF Callbacks
  <2>4. frame' \in [handle : Handles \cup {NoHandle}, cb : Callbacks]
    BY <1>5, <2>2, <2>3, StreamClass
  <2>5. QED
    BY <1>1, <2>2, <2>4 DEF HandleTypeOK
<1>12. CASE php_uv_read_cb_return(h)
  BY <1>1, <1>4, <1>12 DEF php_uv_read_cb_return, HandleTypeOK
<1>13. CASE uv_tcp_connect(h) \/ uv_pipe_connect(h) \/ uv_write(h) \/ uv_shutdown(h)
  <2>1. /\ vars' = vars /\ frame' = frame
        /\ reqs' = reqs \/ \E kind \in ReqKinds : Submit(h, kind)
        /\ lost' = lost \/ Forget(h)
    BY <1>13, StreamClass DEF uv_tcp_connect, uv_pipe_connect, uv_write, uv_shutdown
  <2>2. QED
    BY <1>1, <1>2, <1>3, <2>1 DEF HandleTypeOK
<1>14. CASE RequestCallback(h)
  <2>1. /\ vars' = vars /\ lost' = lost
        /\ \E kind \in {"connect", "write", "shutdown"} :
             Answer(h, kind) /\ DoCallback(h, kind, obj[h])
    BY <1>14 DEF RequestCallback, php_uv_tcp_connect_cb, php_uv_pipe_connect_cb, Connected,
                 php_uv_write_cb, php_uv_shutdown_cb, DoCallback
  <2>2. QED
    BY <1>1, <1>2, <1>5, <2>1, StreamClass DEF DoCallback, HandleTypeOK
<1>15. QED
  BY <1>6, <1>7, <1>8, <1>9, <1>10, <1>11, <1>12, <1>13, <1>14 DEF StreamNext, uv_write2

(* StreamOrder is inductive, for every environment.                        *)
LEMMA StreamOrderStep ==
  ASSUME StreamOrder, NEW h \in Handles,
         StreamNext(h) \/ (HandleNext(h) /\ UNCHANGED streamVars)
  PROVE  StreamOrder'
<1>1. /\ obj \in [Handles -> Object] /\ HandleTypeOK
      /\ \A k \in Handles : OrderOf(obj[k], conn[k])
  BY DEF StreamOrder, StreamTypeOK, HandleTypeOK
<1>2. Ordered(h)
  BY StreamNextOrdered, HandleNextOrdered
<1>3. PICK p \in Object : /\ obj' = [obj EXCEPT ![h] = p] /\ OrderOf(p, conn'[h])
                          /\ obj[h].life # "none" => p.life # "none"
  BY <1>2 DEF Ordered
<1>4. obj' \in [Handles -> Object]
  BY <1>1, <1>3
<1>5. StreamTypeOK'
  BY <1>1, <1>4, SharedTyped, StreamTyped DEF StreamOrder
<1>6. ASSUME NEW k \in Handles PROVE OrderOf(obj[k], conn[k])'
  <2>1. CASE k = h
    BY <1>1, <1>3, <2>1
  <2>2. CASE k # h
    <3>1. obj'[k] = obj[k] /\ conn'[k] \in {conn[k], "open"}
      BY <1>1, <1>3, <2>2, ConnKept
    <3>2. OrderOf(obj[k], conn'[k])
      BY <1>1, <3>1 DEF OrderOf
    <3>3. QED
      BY <3>1, <3>2
  <2>3. QED
    BY <2>1, <2>2
<1>7. ASSUME NEW k \in Handles, frame'.handle = k, frame'.cb = "read_error"
      PROVE  obj'[k].life # "none" /\ conn'[k] = "broken"
  <2>1. obj[k].life # "none" => obj'[k].life # "none"
    BY <1>1, <1>3
  <2>2. CASE frame' = frame
    BY <1>7, <2>1, <2>2, ConnKept DEF StreamOrder
  <2>3. CASE frame' # frame
    BY <1>7, <2>1, <2>3, ErrorFrame
  <2>4. QED
    BY <2>2, <2>3
<1>8. QED
  BY <1>5, <1>6, <1>7 DEF StreamOrder

-----------------------------------------------------------------------------
(* The theorems.                                                           *)

(* The invariant holds in every reachable state of the streams.            *)
THEOREM StreamInvariant ==
  ASSUME CleanEnvironment
  PROVE  Safety => []StreamInv
<1>1. StreamInit => StreamInv
  <2> SUFFICES ASSUME StreamInit PROVE StreamInv
    OBVIOUS
  <2>1. HandleInv
    BY InitInv DEF StreamInit
  <2>2. StreamTypeOK
    BY <2>1 DEF StreamInit, StreamTypeOK, Connections, HandleInv
  <2>3. ASSUME NEW h \in Handles PROVE ShapeOf(obj[h], conn[h], reqs[h])
    <3>1. obj[h] = Absent /\ conn[h] = "none"
      BY DEF StreamInit, HandleInit
    <3>2. ~Absent.active /\ Absent.phase = "open"
      BY DEF Absent
    <3>3. QED
      BY <3>1, <3>2 DEF ShapeOf
  <2>4. frame.cb # "read_error"
    BY DEF StreamInit, HandleInit, NoFrame
  <2>5. QED
    BY <2>1, <2>2, <2>3, <2>4 DEF StreamInv
<1>2. StreamInv /\ [Next]_allStreamVars => StreamInv'
  <2> SUFFICES ASSUME StreamInv, [Next]_allStreamVars PROVE StreamInv'
    OBVIOUS
  <2>1. CASE UNCHANGED allStreamVars
    <3>1. HandleInv'
      BY <2>1, StutterInv DEF allStreamVars, StreamInv
    <3>2. QED
      BY <2>1, <3>1 DEF StreamInv, StreamTypeOK, HandleInv, allStreamVars, handleVars, streamVars
  <2>2. CASE Next
    <3>1. PICK h \in Handles : StreamNext(h) \/ (HandleNext(h) /\ UNCHANGED streamVars)
      BY <2>2 DEF Next
    <3>2. HandleInv'
      BY <3>1, StreamNextHandleInv, HandleNextInv DEF StreamInv
    <3>3. StreamTypeOK'
      BY <3>1, <3>2, StreamTyped DEF StreamInv, HandleInv
    <3>4. QED
      BY <3>1, <3>2, <3>3, StreamNextShape, HandleNextShape
  <2>3. QED
    BY <2>1, <2>2
<1>3. QED
  BY <1>1, <1>2, PTL DEF Safety

(* The reference count of a live stream is the number of its holders.      *)
THEOREM StreamRefCountExact ==
  ASSUME CleanEnvironment
  PROVE  Safety => []RefCountExact
<1>1. StreamInv => RefCountExact
  BY InvExact DEF StreamInv
<1>2. QED
  BY <1>1, StreamInvariant, PTL

(* Nothing reaches a freed stream.                                         *)
THEOREM StreamFreedIsUnreachable ==
  ASSUME CleanEnvironment
  PROVE  Safety => []FreedIsUnreachable
<1>1. StreamInv => FreedIsUnreachable
  BY InvFreed DEF StreamInv
<1>2. QED
  BY <1>1, StreamInvariant, PTL

(* The same for every environment, reads that fail and stops of listeners  *)
(* included, where the counts may be wrong: what the order of a stream's   *)
(* life keeps.                                                             *)
THEOREM StreamOrderInvariant == Safety => []StreamOrder
<1>1. StreamInit => StreamOrder
  <2> SUFFICES ASSUME StreamInit PROVE StreamOrder
    OBVIOUS
  <2>1. HandleInv
    BY InitInv DEF StreamInit
  <2>2. StreamTypeOK
    BY <2>1 DEF StreamInit, StreamTypeOK, Connections, HandleInv
  <2>3. ASSUME NEW h \in Handles PROVE OrderOf(obj[h], conn[h])
    <3>1. obj[h] = Absent /\ conn[h] = "none"
      BY DEF StreamInit, HandleInit
    <3>2. ~Absent.dtored /\ Absent.phase = "open"
      BY DEF Absent
    <3>3. QED
      BY <3>1, <3>2 DEF OrderOf
  <2>4. frame.cb # "read_error"
    BY DEF StreamInit, HandleInit, NoFrame
  <2>5. QED
    BY <2>2, <2>3, <2>4 DEF StreamOrder
<1>2. StreamOrder /\ [Next]_allStreamVars => StreamOrder'
  <2> SUFFICES ASSUME StreamOrder, [Next]_allStreamVars PROVE StreamOrder'
    OBVIOUS
  <2>1. CASE UNCHANGED allStreamVars
    BY <2>1 DEF StreamOrder, StreamTypeOK, HandleTypeOK, allStreamVars, handleVars, streamVars
  <2>2. CASE Next
    BY <2>2, StreamOrderStep DEF Next
  <2>3. QED
    BY <2>1, <2>2
<1>3. QED
  BY <1>1, <1>2, PTL DEF Safety

(* A listener stays active until it is closed, in every environment.       *)
THEOREM StreamListenerActive == Safety => []ListenerActive
<1>1. StreamOrder => ListenerActive
  BY DEF StreamOrder, OrderOf, ListenerActive
<1>2. QED
  BY <1>1, StreamOrderInvariant, PTL

(* uv_close is never called twice on a stream, in every environment.       *)
THEOREM StreamClosedOnce == Safety => []ClosedOnce
<1>1. StreamOrder => ClosedOnce
  BY DEF StreamOrder, OrderOf, ClosedOnce
<1>2. QED
  BY <1>1, StreamOrderInvariant, PTL

(* A request in flight finds its stream in memory, its close unreported.   *)
THEOREM StreamRequestsKeepStream ==
  ASSUME CleanEnvironment
  PROVE  Safety => []RequestsKeepStream
<1>1. StreamInv => RequestsKeepStream
  <2> SUFFICES ASSUME StreamInv, NEW h \in Handles, Pending(h) > 0
               PROVE  obj[h].life = "live" /\ obj[h].phase \in {"open", "closing"}
    BY DEF RequestsKeepStream
  <2>1. LiveShape(obj[h]) /\ obj[h] \in Object
    BY DEF StreamInv, HandleInv, HandleTypeOK, WellFormed
  <2>2. reqs[h] # NoReqs
    BY DEF Pending, NoReqs, ReqKinds
  <2>3. obj[h].phase # "closed"
    BY <2>2 DEF StreamInv, ShapeOf
  <2>4. QED
    BY <2>1, <2>3 DEF LiveShape, Object, Phases
<1>2. QED
  BY <1>1, StreamInvariant, PTL

-----------------------------------------------------------------------------
(* The steps of HandleLifetime.                                            *)

(* The last reference of an answered request may be its stream's last.     *)
LEMMA AnswerStep ==
  ASSUME StreamInv, HandleInv', NEW h \in Handles, NEW kind \in {"connect", "write", "shutdown"},
         Answer(h, kind), DoCallback(h, kind, obj[h]), vars' = vars, lost' = lost
  PROVE  LifeStep(h)
<1>1. HandleInv /\ kind \in ReqKinds /\ kind \in Callbacks
  BY StreamClass DEF StreamInv
<1>2. Elsewhere(h) /\ Kept(h) = Kept(h)' + 1 /\ Kept(h)' \in Nat /\ Pending(h) > 0
  BY <1>1, PendingLess
<1>3. obj[h].life = "live"
  BY <1>1, <1>2 DEF HandleInv, WellFormed, LiveShape
<1>4. obj[h] \in Object /\ LiveShape(obj[h]) /\ frame = NoFrame /\ frame.handle # h
  BY <1>1, <1>3, LiveFacts, HandleAssumption DEF DoCallback, CallPHP, NoFrame
<1>5. obj[h].rc = LoopRef(obj[h]) + CloseRef(obj[h]) + Kept(h)' + 1
  BY <1>1, <1>2, <1>3, <1>4, LiveFacts, NoFrameKept
<1>6. obj[h].phase \in {"open", "closing"}
  <2>1. reqs[h] # NoReqs
    BY <1>2 DEF Pending, NoReqs, ReqKinds
  <2>2. QED
    BY <2>1, <1>4 DEF StreamInv, ShapeOf, LiveShape, Object, Phases
<1>7. ASSUME Kept(h)' = 0, LoopRef(obj[h]) = 0, obj[h].phase = "open"
      PROVE  OwnersOf(h) = {"request"}
  <2> DEFINE p == Pending(h)'
  <2>1. /\ vars[h] \in Nat /\ lost[h] \in Nat /\ p \in Nat
        /\ Kept(h)' = vars[h] + p + lost[h]
    BY <1>1, <1>2, CountersNat, CountersNatAfter DEF Kept
  <2> HIDE DEF p
  <2>2. vars[h] = 0 /\ lost[h] = 0
    BY <2>1, <1>7
  <2>3. ~php_uv_is_handle_referenced(obj[h])
    BY <1>7 DEF LoopRef
  <2>4. QED
    BY <2>2, <2>3, <1>2, <1>4, <1>7, SoleOwner
<1>8. QED
  BY <1>1, <1>2, <1>3, <1>4, <1>5, <1>6, <1>7, CallStep

(* A connect, a write or a shutdown is asked for, and its answer.          *)
LEMMA RequestStep ==
  ASSUME StreamInv, HandleInv', NEW h \in Handles,
         uv_tcp_connect(h) \/ uv_pipe_connect(h) \/ uv_write(h) \/ uv_shutdown(h)
  PROVE  LifeStep(h)
<1>1. /\ HandleInv /\ obj[h].life = "live" /\ vars' = vars /\ frame' = frame
  BY DEF uv_tcp_connect, uv_pipe_connect, uv_write, uv_shutdown, StreamInv, Usable, Visible
<1>2. /\ GC_ADDREF(obj[h]) \in Object /\ GC_ADDREF(obj[h]).life = "live"
      /\ GC_ADDREF(obj[h]).phase = obj[h].phase
  BY <1>1, LiveFacts, AddRefFields
<1>3. ASSUME NEW kind \in ReqKinds, Submit(h, kind), lost' = lost
      PROVE  LifeStep(h)
  <2>1. Elsewhere(h) /\ FrameElsewhere(h)
    BY <1>1, <1>3, PendingMore DEF Submit
  <2>2. QED
    BY <1>1, <1>2, <1>3, <2>1, RecordStep DEF Submit
<1>4. CASE Forget(h) /\ reqs' = reqs
  BY <1>1, <1>4, StartStep DEF Forget
<1>5. QED
  BY <1>3, <1>4, StreamClass DEF uv_tcp_connect, uv_pipe_connect, uv_write, uv_shutdown

LEMMA RequestCallbackStep ==
  ASSUME StreamInv, HandleInv', NEW h \in Handles, RequestCallback(h)
  PROVE  LifeStep(h)
<1>1. CASE php_uv_tcp_connect_cb(h) \/ php_uv_pipe_connect_cb(h)
  BY <1>1, AnswerStep DEF php_uv_tcp_connect_cb, php_uv_pipe_connect_cb, Connected, DoCallback
<1>2. CASE php_uv_write_cb(h)
  BY <1>2, AnswerStep DEF php_uv_write_cb
<1>3. CASE php_uv_shutdown_cb(h)
  BY <1>3, AnswerStep DEF php_uv_shutdown_cb
<1>4. QED
  BY <1>1, <1>2, <1>3 DEF RequestCallback

(* Servers and reads.                                                      *)
LEMMA ActivityStep ==
  ASSUME StreamInv, HandleInv', CleanEnvironment, NEW h \in Handles,
         \/ uv_listen(h) \/ php_uv_listen_cb(h) \/ uv_read_start(h) \/ uv_read_stop(h)
         \/ \E nread \in ReadResults : php_uv_read_cb(h, nread)
  PROVE  LifeStep(h)
<1>1. HandleInv
  BY DEF StreamInv
<1>2. CASE uv_listen(h) \/ uv_read_start(h)
  BY <1>1, <1>2, StartStep DEF uv_listen, uv_read_start, Usable, Visible
<1>3. CASE php_uv_listen_cb(h)
  <2>1. DoCallback(h, "listen", GC_ADDREF(obj[h])) /\ obj[h].ce \in ReferencedClasses
    BY <1>3, StreamClass DEF php_uv_listen_cb, DoCallback, StreamInv, ShapeOf, IsStream
  <2>2. QED
    BY <1>1, <1>3, <2>1, StreamClass, WatchedCallStep DEF php_uv_listen_cb
<1>4. CASE uv_read_stop(h)
  <2>1. IsReading(h) /\ obj[h].active /\ obj[h].ce \in ReferencedClasses
    BY <1>4, StreamClass DEF uv_read_stop, CleanEnvironment, IsStream
  <2>2. obj' = [obj EXCEPT ![h] = OBJ_RELEASE([@ EXCEPT !.active = FALSE])]
    BY <1>4, <2>1 DEF uv_read_stop
  <2>3. QED
    BY <1>1, <1>4, <2>1, <2>2, StopStep DEF uv_read_stop
<1>5. ASSUME NEW nread \in ReadResults, php_uv_read_cb(h, nread)
      PROVE  LifeStep(h)
  <2>1. /\ obj[h].life = "live" /\ obj[h].active /\ obj[h].ce \in ReferencedClasses
        /\ vars' = vars /\ reqs' = reqs /\ lost' = lost
    BY <1>5, StreamClass DEF php_uv_read_cb, IsStream, IsReading
  <2>2. CASE nread = "data"
    <3>1. DoCallback(h, "read", GC_ADDREF(obj[h]))
      BY <1>5, <2>2 DEF php_uv_read_cb, DoCallback
    <3>2. QED
      BY <1>1, <2>1, <3>1, StreamClass, WatchedCallStep
  <2>3. CASE nread = "eof"
    <3>1. DoCallback(h, "read_end", [obj[h] EXCEPT !.active = FALSE])
      BY <1>5, <2>3 DEF php_uv_read_cb, DoCallback
    <3>2. QED
      BY <1>1, <2>1, <3>1, StreamClass, StoppedCallStep
  <2>4. QED
    BY <2>2, <2>3 DEF CleanEnvironment
<1>6. QED
  BY <1>2, <1>3, <1>4, <1>5

(* All of them.                                                            *)
LEMMA StreamLife ==
  ASSUME StreamInv, HandleInv', CleanEnvironment, NEW h \in Handles, StreamNext(h)
  PROVE  LifeStep(h) \/ UNCHANGED handleVars
<1>1. CASE uv_tcp_init(h) \/ uv_pipe_init(h) \/ uv_tty_init(h)
  BY <1>1, StreamClass, InitStep DEF StreamInv, uv_tcp_init, uv_pipe_init, uv_tty_init, InitStream
<1>2. CASE php_uv_handle_open(h) \/ \E client \in Handles : uv_accept(h, client)
  BY <1>2 DEF php_uv_handle_open, uv_accept
<1>3. CASE php_uv_read_cb_return(h)
  BY <1>3 DEF php_uv_read_cb_return, StreamInv
<1>4. QED
  BY <1>1, <1>2, <1>3, ActivityStep, RequestStep, RequestCallbackStep DEF StreamNext, uv_write2

(* Streams implement HandleLifetime, without what must happen: a stream is *)
(* never freed under an owner, be it a read, a request or a variable, and  *)
(* its memory goes with the last one.                                      *)
THEOREM StreamKeepsLifetime ==
  ASSUME CleanEnvironment
  PROVE  Safety => KeepsLifetime
<1>1. StreamInit => Lifetime!Init
  BY InitLife DEF StreamInit
<1>2. StreamInv /\ StreamInv' /\ [Next]_allStreamVars
      => [Lifetime!LifeNext]_Lifetime!lifeVars
  <2> SUFFICES ASSUME StreamInv, StreamInv', [Next]_allStreamVars,
                      ~UNCHANGED Lifetime!lifeVars
               PROVE  Lifetime!LifeNext
    OBVIOUS
  <2>1. PICK h \in Handles : StreamNext(h) \/ HandleNext(h)
    BY QuietLife DEF Next, allStreamVars
  <2>2. HandleInv /\ HandleInv'
    BY DEF StreamInv
  <2>3. LifeStep(h)
    BY <2>1, <2>2, StreamLife, HandleNextLife, QuietLife
  <2>4. QED
    BY <2>3 DEF LifeStep, Lifetime!LifeNext
<1>3. QED
  BY <1>1, <1>2, StreamInvariant, PTL DEF Safety, KeepsLifetime, Lifetime!LifeSafety
=============================================================================
