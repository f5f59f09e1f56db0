------------------------------ MODULE UVEvents ------------------------------
(***************************************************************************)
(* A program that waits for others: datagram sockets, wake-ups, directory  *)
(* watches and child processes on one loop.  All of them count what they   *)
(* do in their own way (UVUdp, UVDevice), and share what UVHandle says of  *)
(* every object; in the callback of one the script may close any other.    *)
(***************************************************************************)
EXTENDS UVUdp, UVDevice

eventVars == <<handleVars, udpVars, deviceVars>>

EventInit == UdpInit /\ DeviceInit

EventNext ==
  \E h \in Handles :
    \/ UdpNext(h) /\ UNCHANGED deviceVars
    \/ DeviceNext(h) /\ UNCHANGED udpVars

EventSafety == EventInit /\ [][EventNext]_eventVars

Events == EventSafety /\ UdpFairness /\ DeviceFairness

-----------------------------------------------------------------------------
(* The callback that runs on h; the receives of h, one or none.            *)
RunningOn(h) == IF frame.handle = h THEN frame.cb ELSE "none"
Receives(h)  == IF receiving[h] THEN 1 ELSE 0

CallShare(f) == IF f = "none" THEN 0 ELSE IF f = "send" THEN 1 ELSE 2

SendShare(f)  == IF f = "send" THEN 1 ELSE 0
ChildShare(c) == IF c \in {"running", "exited"} THEN 1 ELSE 0

(* Who holds an object o, each counted as its class does: v variables, the *)
(* callback f, its close, l abandoned references; and while it is open, s  *)
(* sends, r receives, the send being reported, a child process (c).        *)
EventCount(o, v, f, l, s, r, c) ==
  v + CallShare(f) + CloseRef(o) + l +
  (IF o.phase = "open" THEN s + r + SendShare(f) + ChildShare(c) ELSE 0)

(* What a live object does.  A socket libuv counts as active has someone   *)
(* who holds a reference for it; if the script keeps its sockets while they*)
(* send, sends alone never hold one.                                       *)
EventUse(o, v, f, s, r, c) ==
  /\ LiveShape(o)
  /\ f # "none" => (f = "close" <=> o.phase = "closed")
  /\ s > 0 => o.phase # "closed"
  /\ \/ /\ o.ce = "udp" /\ c = "none"
        /\ o.active => s > 0 \/ r > 0 \/ f = "send"
        /\ r > 0 => o.active
        /\ o.phase = "open" /\ (s > 0 \/ f = "send") => AbandonsSenders \/ v > 0 \/ r > 0
     \/ /\ o.ce \in DeviceClasses /\ s = 0 /\ r = 0 /\ f # "send"
        /\ o.phase = "open" /\ c \in {"running", "exited"} => o.active

EventHeld(o, v, f, l, s, r, c) ==
  EventUse(o, v, f, s, r, c) /\ o.rc > 0 /\ o.rc = EventCount(o, v, f, l, s, r, c)

(* What was freed is closed; but an abandoned sender goes with its last    *)
(* send, before libuv has closed it.                                       *)
EventFreed(o) ==
  /\ o.life = "freed" /\ o.rc = 0 /\ ~o.active
  /\ o.phase = "closed" \/ (AbandonsSenders /\ o.ce = "udp" /\ o.phase = "closing")

EventShape(o, v, f, l, s, r, c) ==
  \/ o = Absent /\ v = 0 /\ f = "none" /\ l = 0 /\ s = 0 /\ r = 0 /\ c = "none"
  \/ EventHeld(o, v, f, l, s, r, c)
  \/ EventFreed(o) /\ v = 0 /\ f = "none" /\ l = 0 /\ s = 0 /\ r = 0

(* The count of every object is the number of places that hold it; nothing *)
(* that was freed is still in use, but by libuv's close of an abandoned    *)
(* sender.                                                                 *)
EventInv ==
  /\ UdpTypeOK /\ DeviceTypeOK
  /\ frame = NoFrame \/ (frame.handle \in Handles /\ frame.cb # "none")
  /\ \A h \in Handles :
       /\ reqs[h] = NoReqs
       /\ EventShape(obj[h], vars[h], RunningOn(h), lost[h], sends[h], Receives(h), child[h])

-----------------------------------------------------------------------------
(* The abstraction to HandleLifetime.  The loop owns a socket that receives*)
(* and a process that is to be reported, a request each datagram in flight;*)
(* nothing owns a wake-up or a watch for being active.                     *)
EventOwners(h) ==
  {o \in {"script", "call", "loop", "request", "close", "lost"} :
     \/ o = "script"  /\ vars[h] > 0
     \/ o = "call"    /\ frame.handle = h
     \/ o = "loop"    /\ (receiving[h] \/ Unreported(h))
     \/ o = "request" /\ sends[h] > 0
     \/ o = "close"   /\ obj[h].phase = "closing"
     \/ o = "lost"    /\ lost[h] > 0}

EventLifetime == INSTANCE HandleLifetime WITH
                   stage  <- [h \in Handles |-> StageOf(h)],
                   owners <- [h \in Handles |-> EventOwners(h)]

(* What HandleLifetime does not allow: the epilogue of its last send frees *)
(* an open socket that the script has let go of.  libuv still counts it as *)
(* active, so that the close which the destructor begins has no reference. *)
FreedByLastSend(h) ==
  /\ AbandonsSenders
  /\ StageOf(h) = "open" /\ EventOwners(h) \in {{"call"}, {"request"}}
  /\ EventLifetime!Become(h, "freed", {"close"})

(* Sockets, wake-ups, watches and processes keep the promise too, but for  *)
(* that: whatever overlaps, the last owner that lets go closes an open     *)
(* object and frees a closed one, and nothing else does but uv_close.      *)
EventsKeepLifetime ==
  /\ EventLifetime!Init
  /\ [][EventLifetime!LifeNext \/ \E h \in Handles : FreedByLastSend(h)]_(EventLifetime!lifeVars)
=============================================================================
