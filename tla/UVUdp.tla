-------------------------------- MODULE UVUdp --------------------------------
(***************************************************************************)
(* Datagram sockets.  A socket that receives owns one reference, a send    *)
(* owns one while it is in flight; libuv counts both as activity, and still*)
(* counts a send while its callback runs.  A close takes over one          *)
(* reference of an active socket, whoever took it, and a send that is      *)
(* answered on a closing socket drops none.                                *)
(***************************************************************************)
EXTENDS UVHandle

CONSTANTS
  AbandonsSenders,  \* whether the script lets go of a socket that only sends
  StopsSenders      \* whether it calls uv_udp_recv_stop where only sends are active

ASSUME UdpAssumption == AbandonsSenders \in BOOLEAN /\ StopsSenders \in BOOLEAN

VARIABLES
  sends,      \* sends[h]: in flight
  receiving   \* receiving[h]: libuv polls the socket for datagrams

udpVars == <<sends, receiving>>

allUdpVars == <<handleVars, udpVars>>

(* Sends are all that holds the socket: a variable or a receive do not.    *)
(* The end of the last of them destroys it while libuv counts it as active.*)
HeldBySends(h) ==
  /\ obj[h].phase = "open" /\ vars[h] = 0 /\ ~receiving[h]
  /\ sends[h] > 0 \/ frame = [handle |-> h, cb |-> "send"]

StaysHeld(h) == AbandonsSenders \/ ~HeldBySends(h)'

uv_udp_init(h) == CreateHandle(h, "udp") /\ UNCHANGED udpVars

(* Refused on an active socket, even if only sends make it active.         *)
uv_udp_recv_start(h) ==
  /\ Usable(h)
  /\ obj[h].ce = "udp"
  /\ ~obj[h].active
  /\ obj' = [obj EXCEPT ![h] = [GC_ADDREF(@) EXCEPT !.active = TRUE]]
  /\ receiving' = [receiving EXCEPT ![h] = TRUE]
  /\ UNCHANGED <<vars, reqs, frame, lost, sends>>

(* libuv keeps the socket active while it waits to send, until the last    *)
(* send is reported, but not for datagrams that are sent and not reported. *)
uv_udp_recv_stop(h) ==
  /\ Usable(h)
  /\ obj[h].ce = "udp"
  /\ obj[h].active
  /\ receiving[h] \/ StopsSenders
  /\ \E waits \in BOOLEAN :
       /\ waits => sends[h] > 0 \/ frame = [handle |-> h, cb |-> "send"]
       /\ obj' = [obj EXCEPT ![h] = OBJ_RELEASE([@ EXCEPT !.active = waits])]
  /\ receiving' = [receiving EXCEPT ![h] = FALSE]
  /\ UNCHANGED <<vars, reqs, frame, lost, sends>>
  /\ StaysHeld(h)

php_uv_udp_recv_cb(h) ==
  /\ obj[h].life = "live"
  /\ receiving[h]
  /\ CallPHP(h, "recv", GC_ADDREF(obj[h]))
  /\ UNCHANGED <<vars, reqs, lost, udpVars>>

-----------------------------------------------------------------------------
(* Mutant of php_uv_udp_send: the request owns nothing.                    *)
SendUnowned(h) ==
  /\ Usable(h)
  /\ obj[h].ce = "udp"
  /\ sends[h] < MaxReqs
  /\ sends' = [sends EXCEPT ![h] = @ + 1]
  /\ obj' = [obj EXCEPT ![h].active = TRUE]
  /\ UNCHANGED <<vars, reqs, frame, receiving, lost>>

(* libuv's answer is ignored: a refused send is never called back.         *)
php_uv_udp_send(h) ==
  /\ Usable(h)
  /\ obj[h].ce = "udp"
  /\ \/ /\ sends[h] < MaxReqs
        /\ sends' = [sends EXCEPT ![h] = @ + 1]
        /\ obj' = [obj EXCEPT ![h] = [GC_ADDREF(@) EXCEPT !.active = TRUE]]
        /\ UNCHANGED lost
     \/ /\ lost[h] < MaxLost
        /\ lost' = [lost EXCEPT ![h] = @ + 1]
        /\ obj' = [obj EXCEPT ![h] = GC_ADDREF(@)]
        /\ UNCHANGED sends
  /\ UNCHANGED <<vars, reqs, frame, receiving>>
  /\ StaysHeld(h)

(* Mutant of DropSend: a closing socket gives its reference back as well.  *)
DropAlways(o, busy) ==
  [OBJ_RELEASE(o) EXCEPT !.active = @ /\ busy]

(* The end of php_uv_udp_send_cb: the reference of the send is dropped     *)
(* unless the socket is closing; then libuv stops the socket if nothing    *)
(* else is to be sent or received.                                         *)
DropSend(o, busy) ==
  LET d == IF o.phase = "open" THEN OBJ_RELEASE(o) ELSE o
  IN  [d EXCEPT !.active = @ /\ busy]

Busy(h, pending) == receiving[h] \/ pending > 0

(* Mutant of php_uv_udp_send_cb: not called on a closing socket.           *)
ReportOpenOnly(h) ==
  /\ obj[h].phase = "open"
  /\ sends[h] > 0
  /\ sends' = [sends EXCEPT ![h] = @ - 1]
  /\ CallPHP(h, "send", obj[h])
  /\ UNCHANGED <<vars, reqs, lost, receiving>>

(* A send was made, failed or was cancelled.                               *)
php_uv_udp_send_cb(h) ==
  /\ obj[h].life = "live"
  /\ sends[h] > 0
  /\ sends' = [sends EXCEPT ![h] = @ - 1]
  /\ \/ CallPHP(h, "send", obj[h])
     \/ /\ frame = NoFrame
        /\ obj' = [obj EXCEPT ![h] = DropSend(@, Busy(h, sends[h] - 1))]
        /\ UNCHANGED frame
  /\ UNCHANGED <<vars, reqs, lost, receiving>>

php_uv_udp_send_cb_return(h) ==
  /\ frame = [handle |-> h, cb |-> "send"]
  /\ frame' = NoFrame
  /\ obj' = [obj EXCEPT ![h] = DropSend(OBJ_RELEASE(@), Busy(h, sends[h]))]
  /\ UNCHANGED <<vars, reqs, lost, udpVars>>

-----------------------------------------------------------------------------
(* References taken for the socket's activities and not given back: of a   *)
(* receive, of the sends in flight, of the send whose callback runs.       *)
Activities(h) ==
  IF obj[h].phase # "open" THEN 0
  ELSE sends[h] + (IF receiving[h] THEN 1 ELSE 0)
                + (IF frame = [handle |-> h, cb |-> "send"] THEN 1 ELSE 0)

(* uv_close: the close owns one of them, or a new reference if the socket  *)
(* is not active.  The others are abandoned.                               *)
uv_udp_close(h) ==
  LET taken == IF obj[h].active THEN 1 ELSE 0
  IN  /\ Usable(h)
      /\ obj[h].ce = "udp"
      /\ lost[h] + Activities(h) - taken <= MaxLost
      /\ \E callable \in BOOLEAN :
           obj' = [obj EXCEPT ![h] = php_uv_close([@ EXCEPT !.notify = callable])]
      /\ lost' = [lost EXCEPT ![h] = @ + Activities(h) - taken]
      /\ receiving' = [receiving EXCEPT ![h] = FALSE]
      /\ UNCHANGED <<vars, reqs, frame, sends>>

UnsetSocket(h) == UnsetVariable(h) /\ UNCHANGED udpVars /\ StaysHeld(h)

(* libuv reports the close after all sends.                                *)
php_uv_udp_closed(h) == sends[h] = 0 /\ php_uv_close_cb(h) /\ UNCHANGED udpVars

php_uv_udp_closed_return(h) == php_uv_close_cb_return(h) /\ UNCHANGED udpVars

CallbackReturns(h) ==
  \/ php_uv_udp_send_cb_return(h) \/ php_uv_udp_closed_return(h)
  \/ ReturnFromCallback(h) /\ UNCHANGED udpVars

UdpNext(h) ==
  \/ uv_udp_init(h)
  \/ uv_udp_recv_start(h) \/ uv_udp_recv_stop(h) \/ php_uv_udp_recv_cb(h)
  \/ php_uv_udp_send(h) \/ php_uv_udp_send_cb(h)
  \/ uv_udp_close(h)
  \/ UnsetSocket(h)
  \/ CopyVariable(h) /\ UNCHANGED udpVars
  \/ php_uv_udp_closed(h) \/ CallbackReturns(h)

UdpInit ==
  /\ HandleInit
  /\ sends = [h \in Handles |-> 0]
  /\ receiving = [h \in Handles |-> FALSE]

Next == \E h \in Handles : UdpNext(h)

Safety == UdpInit /\ [][Next]_allUdpVars

(* The loop runs and callbacks return; libuv cancels the sends of a        *)
(* closing socket before it reports the close.                             *)
UdpFairness ==
  /\ WF_allUdpVars(\E h \in Handles : CallbackReturns(h))
  /\ \A h \in Handles :
       SF_allUdpVars(php_uv_udp_send_cb(h)) /\ SF_allUdpVars(php_uv_udp_closed(h))

-----------------------------------------------------------------------------
UdpTypeOK ==
  /\ HandleTypeOK
  /\ sends \in [Handles -> 0 .. MaxReqs]
  /\ receiving \in [Handles -> BOOLEAN]

(* Once the socket is closing, the callback of a send holds only what Zend *)
(* copied.                                                                 *)
CallRefs(h) ==
  IF frame.handle # h THEN 0
  ELSE IF frame.cb = "send" THEN 1
  ELSE 2

(* The reference count of a live socket: variables, the running callback,  *)
(* its activities while it is open, its close, and what was abandoned.     *)
UdpRefCountExact ==
  \A h \in Handles : obj[h].life = "live" /\ obj[h].ce = "udp" =>
    obj[h].rc = vars[h] + CallRefs(h) + Activities(h) + CloseRef(obj[h]) + lost[h]

(* A datagram in flight keeps its socket in memory, through uv_close and   *)
(* whatever the script lets go of, the last variable included, and is      *)
(* reported before the close is.  (False if uv_udp_recv_stop is called     *)
(* where only sends are active: it drops the reference of a send.)         *)
SendsKeepSocket ==
  \A h \in Handles :
    sends[h] > 0 => obj[h].life = "live" /\ obj[h].phase \in {"open", "closing"}

(* The sends of a closing socket are all answered, then its close is.      *)
ClosingDrains ==
  \A h \in Handles :
    (obj[h].phase = "closing" /\ sends[h] > 0) ~> (sends[h] = 0 /\ obj[h].phase = "closed")
=============================================================================
