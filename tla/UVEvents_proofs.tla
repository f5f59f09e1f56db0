---------------------------- MODULE UVEvents_proofs --------------------------
(***************************************************************************)
(* Datagram sockets, wake-ups, directory watches and child processes.  The *)
(* first part says what the C functions do to an object that is counted as *)
(* its class does (EventShape); the second that every action keeps the     *)
(* shape of its object and touches no other; the third draws the           *)
(* conclusions; the last shows every step to be one that HandleLifetime    *)
(* allows, or the last send of a socket the script has let go of.          *)
(***************************************************************************)
EXTENDS UVEvents, UVHandle_proofs

(* The parts of the count.                                                 *)
LEMMA Parts ==
  /\ \A o : CloseRef(o) \in {0, 1}
  /\ \A f : /\ CallShare(f) \in {0, 1, 2} /\ SendShare(f) \in {0, 1}
            /\ CallShare(f) = 0 <=> f = "none"
            /\ CallShare(f) = 1 <=> f = "send"
            /\ SendShare(f) = 1 <=> f = "send"
  /\ \A c : ChildShare(c) \in {0, 1} /\ (ChildShare(c) = 1 <=> c \in {"running", "exited"})
  BY DEF CallShare, CloseRef, SendShare, ChildShare

(* The count, by phase.                                                    *)
LEMMA CountByPhase ==
  ASSUME NEW o \in Object, NEW v \in Nat, NEW f, NEW l \in Nat, NEW s \in Nat,
         NEW r \in Nat, NEW c
  PROVE  /\ EventCount(o, v, f, l, s, r, c) \in Nat
         /\ o.phase = "open" =>
              EventCount(o, v, f, l, s, r, c) =
                v + CallShare(f) + l + s + r + SendShare(f)
                  + ChildShare(c)
         /\ o.phase = "closing" => EventCount(o, v, f, l, s, r, c) = v + CallShare(f) + 1 + l
         /\ o.phase \notin {"open", "closing"} =>
              EventCount(o, v, f, l, s, r, c) = v + CallShare(f) + l
<1> DEFINE a == CallShare(f)  d == SendShare(f)  e == ChildShare(c)
<1>1. a \in {0, 1, 2} /\ d \in {0, 1} /\ e \in {0, 1}
  BY Parts
<1>2. EventCount(o, v, f, l, s, r, c) =
        v + a + CloseRef(o) + l + (IF o.phase = "open" THEN s + r + d + e ELSE 0)
  BY DEF EventCount
<1> HIDE DEF a, d, e
<1>3. /\ EventCount(o, v, f, l, s, r, c) \in Nat
      /\ o.phase = "open" => EventCount(o, v, f, l, s, r, c) = v + a + l + s + r + d + e
      /\ o.phase = "closing" => EventCount(o, v, f, l, s, r, c) = v + a + 1 + l
      /\ o.phase \notin {"open", "closing"} => EventCount(o, v, f, l, s, r, c) = v + a + l
  BY <1>1, <1>2 DEF CloseRef
<1>4. QED
  BY <1>3 DEF a, d, e

(* An object that nobody holds.                                            *)
LEMMA CountZero ==
  ASSUME NEW o, NEW v \in Nat, NEW f, NEW l \in Nat, NEW s \in Nat,
         NEW r \in Nat, NEW c, EventCount(o, v, f, l, s, r, c) = 0
  PROVE  /\ v = 0 /\ f = "none" /\ l = 0 /\ o.phase # "closing"
         /\ o.phase = "open" => s = 0 /\ r = 0 /\ c \notin {"running", "exited"}
<1> DEFINE a == CallShare(f)  d == SendShare(f)  e == ChildShare(c)
           k == CloseRef(o)
<1>1. /\ a \in Nat /\ d \in Nat /\ e \in Nat /\ k \in Nat
      /\ (a = 0 <=> f = "none") /\ (e = 1 <=> c \in {"running", "exited"})
      /\ k = 0 => o.phase # "closing"
  BY DEF CallShare, CloseRef, SendShare, ChildShare
<1>2. v + a + k + l + (IF o.phase = "open" THEN s + r + d + e ELSE 0) = 0
  BY DEF EventCount
<1> HIDE DEF a, d, e, k
<1>3. /\ v = 0 /\ a = 0 /\ k = 0 /\ l = 0
      /\ o.phase = "open" => s = 0 /\ r = 0 /\ e = 0
  BY <1>1, <1>2
<1>4. QED
  BY <1>1, <1>3

(* A record that differs in count, notification and flags EventUse does    *)
(* not look at.                                                            *)
LEMMA UseKept ==
  ASSUME NEW o, NEW q, NEW v, NEW f, NEW s, NEW r \in Nat, NEW c, EventUse(o, v, f, s, r, c),
         q.life = o.life, q.ce = o.ce, q.phase = o.phase, q.dtored = o.dtored,
         q.active = o.active
  PROVE  EventUse(q, v, f, s, r, c)
  BY DEF EventUse, LiveShape

(* OBJ_RELEASE on an object that has one reference more than it needs.     *)
LEMMA ReleaseShape ==
  ASSUME NEW o \in Object, NEW v \in Nat, NEW f, NEW l \in Nat, NEW s \in Nat,
         NEW r \in Nat, NEW c, EventUse(o, v, f, s, r, c),
         o.rc = EventCount(o, v, f, l, s, r, c) + 1
  PROVE  /\ OBJ_RELEASE(o) \in Object
         /\ EventShape(OBJ_RELEASE(o), v, f, l, s, r, c)
         /\ EventCount(o, v, f, l, s, r, c) > 0 =>
              /\ EventUse(OBJ_RELEASE(o), v, f, s, r, c)
              /\ OBJ_RELEASE(o).rc = o.rc - 1 /\ OBJ_RELEASE(o).phase = o.phase
              /\ OBJ_RELEASE(o).active = o.active
<1> DEFINE q == OBJ_RELEASE(o)  n == EventCount(o, v, f, l, s, r, c)
<1>1. n \in Nat /\ o.rc = n + 1
  BY CountByPhase
<1>2. CASE n > 0
  <2>1. /\ q \in Object /\ q.rc = o.rc - 1 /\ q.ce = o.ce /\ q.life = o.life
        /\ q.dtored = o.dtored /\ q.phase = o.phase /\ q.active = o.active
    <3>1. o.rc > 1
      BY <1>1, <1>2
    <3>2. QED
      BY <3>1, ReleaseFields
  <2>2. n = EventCount(q, v, f, l, s, r, c)
    BY <2>1 DEF EventCount, CloseRef
  <2> HIDE DEF q, n
  <2>3. EventUse(q, v, f, s, r, c)
    BY <2>1, UseKept
  <2>4. q.rc > 0 /\ q.rc = EventCount(q, v, f, l, s, r, c)
    BY <1>1, <1>2, <2>1, <2>2
  <2>5. EventShape(q, v, f, l, s, r, c)
    BY <2>3, <2>4 DEF EventShape, EventHeld
  <2>6. QED
    BY <2>1, <2>3, <2>5 DEF q, n
<1>3. CASE n = 0
  <2>1. o.rc = 1 /\ LiveShape(o)
    BY <1>1, <1>3 DEF EventUse
  <2>2. v = 0 /\ f = "none" /\ l = 0 /\ o.phase # "closing"
    BY <1>3, CountZero
  <2>3. CASE o.dtored
    <3>1. o.phase = "closed" /\ ~o.active
      BY <2>1, <2>2, <2>3 DEF LiveShape, Object, Phases
    <3>2. q \in Object /\ q.rc = 0 /\ q.life = "freed" /\ q.phase = o.phase /\ q.active = o.active
      BY <2>1, <2>3, ReleaseLastFields
    <3>3. s = 0 /\ r = 0
      BY <3>1 DEF EventUse, LiveShape
    <3> HIDE DEF q
    <3>4. EventShape(q, v, f, l, s, r, c)
      BY <2>2, <3>1, <3>2, <3>3 DEF EventShape, EventFreed
    <3>5. QED
      BY <1>3, <3>2, <3>4 DEF q
  <2>4. CASE ~o.dtored
    <3>1. o.phase = "open"
      BY <2>1, <2>4 DEF LiveShape
    <3>2. s = 0 /\ r = 0 /\ c \notin {"running", "exited"}
      BY <1>3, <3>1, CountZero
    <3>3. ~php_uv_is_handle_referenced(o)
      BY <2>2, <3>1, <3>2 DEF EventUse, php_uv_is_handle_referenced, ReferencedClasses, DeviceClasses
    <3>4. /\ q \in Object /\ q.rc = 1 /\ q.life = o.life /\ q.ce = o.ce
          /\ q.phase = "closing" /\ q.dtored /\ ~q.active
      BY <2>1, <2>4, <3>1, <3>3, ReleaseDestructs
    <3> HIDE DEF q
    <3>5. EventUse(q, v, f, s, r, c)
      BY <2>1, <2>2, <3>1, <3>2, <3>4 DEF EventUse, LiveShape
    <3>6. EventCount(q, v, f, l, s, r, c) = 1
      BY <2>2, <3>4 DEF EventCount, CloseRef, CallShare
    <3>7. QED
      BY <1>3, <3>4, <3>5, <3>6 DEF EventShape, EventHeld, q
  <2>5. QED
    BY <2>3, <2>4
<1>4. QED
  BY <1>1, <1>2, <1>3

-----------------------------------------------------------------------------
(* A step on one object.                                                   *)

(* The counters of the classes, which say of every other object what they  *)
(* said before.                                                            *)
OwnElsewhere(h) ==
  /\ sends' \in [Handles -> 0 .. MaxReqs] /\ receiving' \in [Handles -> BOOLEAN]
  /\ sent' \in [Handles -> BOOLEAN]
  /\ child' \in [Handles -> {"none", "running", "exited", "reported"}]
  /\ \A k \in Handles \ {h} :
       sends'[k] = sends[k] /\ receiving'[k] = receiving[k] /\ child'[k] = child[k]

(* The types, one by one.                                                  *)
LEMMA EventTypes ==
  ASSUME EventInv
  PROVE  /\ HandleTypeOK
         /\ vars \in [Handles -> 0 .. MaxVars] /\ lost \in [Handles -> 0 .. MaxLost]
         /\ sends \in [Handles -> 0 .. MaxReqs] /\ receiving \in [Handles -> BOOLEAN]
         /\ sent \in [Handles -> BOOLEAN]
         /\ child \in [Handles -> {"none", "running", "exited", "reported"}]
         /\ reqs \in [Handles -> [ReqKinds -> 0 .. MaxReqs]]
         /\ frame \in [handle : Handles \cup {NoHandle}, cb : Callbacks]
  BY DEF EventInv, UdpTypeOK, DeviceTypeOK, HandleTypeOK

(* What is known of one object.                                            *)
LEMMA EventFacts ==
  ASSUME EventInv, NEW h \in Handles
  PROVE  /\ obj[h] \in Object
         /\ vars[h] \in Nat /\ lost[h] \in Nat /\ sends[h] \in Nat /\ Receives(h) \in {0, 1}
         /\ Receives(h) > 0 <=> receiving[h]
         /\ EventShape(obj[h], vars[h], RunningOn(h), lost[h], sends[h], Receives(h), child[h])
         /\ obj[h].life = "live" =>
              EventHeld(obj[h], vars[h], RunningOn(h), lost[h], sends[h], Receives(h), child[h])
         /\ RunningOn(h) # "none" <=> frame.handle = h
         /\ frame = [handle |-> h, cb |-> "send"] <=> RunningOn(h) = "send"
<1>1. /\ obj[h] \in Object
      /\ vars[h] \in Nat /\ lost[h] \in Nat /\ sends[h] \in Nat /\ Receives(h) \in {0, 1}
      /\ Receives(h) > 0 <=> receiving[h]
  BY EventTypes, HandleAssumption DEF HandleTypeOK, Receives
<1>2. /\ EventShape(obj[h], vars[h], RunningOn(h), lost[h], sends[h], Receives(h), child[h])
      /\ frame = NoFrame \/ (frame.handle \in Handles /\ frame.cb # "none")
  BY DEF EventInv
<1>3. obj[h].life = "live" =>
        EventHeld(obj[h], vars[h], RunningOn(h), lost[h], sends[h], Receives(h), child[h])
  BY <1>2 DEF EventShape, EventFreed, Absent
<1>4. RunningOn(h) # "none" <=> frame.handle = h
  BY <1>2, HandleAssumption DEF RunningOn, NoFrame
<1>5. frame = [handle |-> h, cb |-> "send"] <=> RunningOn(h) = "send"
  BY EventTypes DEF RunningOn
<1>6. QED
  BY <1>1, <1>2, <1>3, <1>4, <1>5

(* The step.                                                               *)
LEMMA EventBecomes ==
  ASSUME EventInv, NEW h \in Handles, NEW q \in Object, obj' = [obj EXCEPT ![h] = q],
         Elsewhere(h), FrameElsewhere(h), OwnElsewhere(h), reqs' = reqs,
         frame' = NoFrame \/ (frame'.handle \in Handles /\ frame'.cb # "none"),
         NEW v, vars'[h] = v, NEW f, RunningOn(h)' = f, NEW l, lost'[h] = l,
         NEW s, sends'[h] = s, NEW r, Receives(h)' = r, NEW c, child'[h] = c,
         EventShape(q, v, f, l, s, r, c)
  PROVE  EventInv'
<1>1. obj'[h] = q /\ (\A k \in Handles \ {h} : obj'[k] = obj[k]) /\ HandleTypeOK'
  BY EventTypes DEF HandleTypeOK, Elsewhere, FrameElsewhere
<1>2. (UdpTypeOK /\ DeviceTypeOK)'
  BY <1>1 DEF OwnElsewhere, UdpTypeOK, DeviceTypeOK
<1>3. ASSUME NEW k \in Handles
      PROVE  EventShape(obj[k], vars[k], RunningOn(k), lost[k], sends[k], Receives(k), child[k])'
  <2>1. CASE k = h
    BY <1>1, <2>1
  <2>2. CASE k # h
    <3>1. /\ obj'[k] = obj[k] /\ vars'[k] = vars[k] /\ lost'[k] = lost[k]
          /\ sends'[k] = sends[k] /\ receiving'[k] = receiving[k] /\ child'[k] = child[k]
      BY <1>1, <2>2 DEF Elsewhere, OwnElsewhere
    <3>2. RunningOn(k)' = RunningOn(k)
      BY <2>2 DEF FrameElsewhere, RunningOn
    <3>3. EventShape(obj[k], vars[k], RunningOn(k), lost[k], sends[k], Receives(k), child[k])
      BY DEF EventInv
    <3>4. Receives(k)' = Receives(k)
      BY <3>1 DEF Receives
    <3>5. QED
      BY <3>1, <3>2, <3>3, <3>4
  <2>3. QED
    BY <2>1, <2>2
<1>4. ASSUME NEW k \in Handles PROVE reqs'[k] = NoReqs
  BY DEF EventInv
<1>5. QED
  BY <1>2, <1>3, <1>4 DEF EventInv

(* A step that leaves the callback, the requests and all but obj alone.    *)
LEMMA EventQuiet ==
  ASSUME EventInv, NEW h \in Handles
  PROVE  /\ vars' = vars /\ reqs' = reqs /\ lost' = lost => Elsewhere(h)
         /\ frame' = frame => FrameElsewhere(h) /\ RunningOn(h)' = RunningOn(h)
                /\ (frame' = NoFrame \/ (frame'.handle \in Handles /\ frame'.cb # "none"))
         /\ UNCHANGED udpVars /\ UNCHANGED deviceVars => OwnElsewhere(h)
         /\ UNCHANGED udpVars => sends'[h] = sends[h] /\ Receives(h)' = Receives(h)
<1>1. vars' = vars /\ reqs' = reqs /\ lost' = lost => Elsewhere(h)
  BY EventTypes DEF Elsewhere
<1>2. frame' = frame => FrameElsewhere(h) /\ RunningOn(h)' = RunningOn(h)
  BY EventTypes DEF FrameElsewhere, RunningOn
<1>3. frame' = frame => frame' = NoFrame \/ (frame'.handle \in Handles /\ frame'.cb # "none")
  BY DEF EventInv
<1>4. UNCHANGED udpVars /\ UNCHANGED deviceVars => OwnElsewhere(h)
  BY EventTypes DEF OwnElsewhere, udpVars, deviceVars
<1>5. UNCHANGED udpVars => sends'[h] = sends[h] /\ Receives(h)' = Receives(h)
  BY DEF udpVars, Receives
<1>6. QED
  BY <1>1, <1>2, <1>3, <1>4, <1>5

(* A callback begins, or ends.                                             *)
LEMMA EventFrame ==
  ASSUME EventInv, NEW h \in Handles
  PROVE  /\ \A cb \in Callbacks \ {"none"} :
              frame = NoFrame /\ frame' = [handle |-> h, cb |-> cb] =>
                /\ FrameElsewhere(h) /\ RunningOn(h) = "none" /\ RunningOn(h)' = cb
                /\ frame'.handle \in Handles /\ frame'.cb # "none"
         /\ frame.handle = h /\ frame' = NoFrame =>
                /\ FrameElsewhere(h) /\ RunningOn(h) = frame.cb /\ RunningOn(h)' = "none"
  BY HandleAssumption, EventTypes
  DEF FrameElsewhere, RunningOn, NoFrame, Callbacks

-----------------------------------------------------------------------------
(* What the C functions do to what is counted.                             *)

(* The shape depends on the record only through these fields.              *)
LEMMA CountKept ==
  ASSUME NEW o, NEW q, NEW v, NEW f, NEW l, NEW s, NEW r, NEW c, q.phase = o.phase
  PROVE  EventCount(q, v, f, l, s, r, c) = EventCount(o, v, f, l, s, r, c)
  BY DEF EventCount, CloseRef

(* What one holder more does to the count.                                 *)
LEMMA CountMore ==
  ASSUME NEW o, NEW v \in Nat, NEW f, NEW l \in Nat, NEW s \in Nat, NEW r \in Nat, NEW c
  PROVE  LET n == EventCount(o, v, f, l, s, r, c)
         IN  /\ n \in Nat
             /\ EventCount(o, v + 1, f, l, s, r, c) = n + 1
             /\ EventCount(o, v, f, l + 1, s, r, c) = n + 1
             /\ EventCount(o, v, f, l, s + 1, r, c) = IF o.phase = "open" THEN n + 1 ELSE n
<1> DEFINE a == CallShare(f)  d == SendShare(f)  e == ChildShare(c)
           k == CloseRef(o)
<1>1. a \in Nat /\ d \in Nat /\ e \in Nat /\ k \in Nat
  BY DEF CallShare, CloseRef, SendShare, ChildShare
<1>2. \A x, y, z : EventCount(o, x, f, y, z, r, c) =
                     x + a + k + y + (IF o.phase = "open" THEN z + r + d + e ELSE 0)
  BY DEF EventCount
<1> HIDE DEF a, d, e, k
<1>3. QED
  BY <1>1, <1>2

(* The same of the callback, the receive and the child.                    *)
LEMMA CountOther ==
  ASSUME NEW o, NEW v \in Nat, NEW f, NEW l \in Nat, NEW s \in Nat, NEW r \in Nat, NEW c
  PROVE  LET open == o.phase = "open"
         IN  /\ f \notin {"none", "send"} =>
                  EventCount(o, v, f, l, s, r, c) = EventCount(o, v, "none", l, s, r, c) + 2
             /\ EventCount(o, v, "send", l, s, r, c) =
                  EventCount(o, v, "none", l, s, r, c) + (IF open THEN 2 ELSE 1)
             /\ EventCount(o, v, f, l, s, 1, c) =
                  EventCount(o, v, f, l, s, 0, c) + (IF open THEN 1 ELSE 0)
             /\ c \in {"running", "exited"} =>
                  EventCount(o, v, f, l, s, r, c) =
                    EventCount(o, v, f, l, s, r, "reported") + (IF open THEN 1 ELSE 0)
<1> DEFINE a == CallShare(f)  d == SendShare(f)  e == ChildShare(c)
           k == CloseRef(o)
<1>1. a \in Nat /\ d \in Nat /\ e \in Nat /\ k \in Nat
  BY DEF CallShare, CloseRef, SendShare, ChildShare
<1>2. EventCount(o, v, f, l, s, r, c) =
        v + a + k + l + (IF o.phase = "open" THEN s + r + d + e ELSE 0)
  BY DEF EventCount
<1>3. /\ EventCount(o, v, "none", l, s, r, c) =
           v + 0 + k + l + (IF o.phase = "open" THEN s + r + 0 + e ELSE 0)
      /\ EventCount(o, v, "send", l, s, r, c) =
           v + 1 + k + l + (IF o.phase = "open" THEN s + r + 1 + e ELSE 0)
  BY DEF EventCount, CallShare, SendShare
<1>4. f \notin {"none", "send"} => a = 2 /\ d = 0
  BY DEF CallShare, SendShare
<1>5. \A x : EventCount(o, v, f, l, s, x, c) =
               v + a + k + l + (IF o.phase = "open" THEN s + x + d + e ELSE 0)
  BY DEF EventCount
<1>6. EventCount(o, v, f, l, s, r, "reported") =
        v + a + k + l + (IF o.phase = "open" THEN s + r + d + 0 ELSE 0)
  BY DEF EventCount, ChildShare
<1>7. c \in {"running", "exited"} => e = 1
  BY DEF ChildShare
<1> HIDE DEF a, d, e, k
<1>8. QED
  BY <1>1, <1>2, <1>3, <1>4, <1>5, <1>6, <1>7

(* A running callback other than a send's holds the object and its own zval. *)
LEMMA CountCall ==
  ASSUME NEW o, NEW v \in Nat, NEW f, NEW l \in Nat, NEW s \in Nat, NEW r \in Nat, NEW c,
         f \notin {"none", "send"}
  PROVE  EventCount(o, v, f, l, s, r, c) = EventCount(o, v, "none", l, s, r, c) + 2
<1> DEFINE e == ChildShare(c)
           k == CloseRef(o)
<1>1. e \in Nat /\ k \in Nat
  BY DEF CloseRef, ChildShare
<1>2. EventCount(o, v, f, l, s, r, c) =
        v + 2 + k + l + (IF o.phase = "open" THEN s + r + 0 + e ELSE 0)
  BY DEF EventCount, CallShare, SendShare
<1>3. EventCount(o, v, "none", l, s, r, c) =
        v + 0 + k + l + (IF o.phase = "open" THEN s + r + 0 + e ELSE 0)
  BY DEF EventCount, CallShare, SendShare
<1> HIDE DEF e, k
<1>4. QED
  BY <1>1, <1>2, <1>3

(* An open object: what the script may use, and what libuv calls.          *)
LEMMA EventOpen ==
  ASSUME EventInv, NEW h \in Handles, obj[h].life = "live"
  PROVE  /\ Usable(h) => obj[h].phase = "open"
         /\ obj[h].active => obj[h].phase = "open"
         /\ obj[h].phase # "aborted" /\ obj[h].rc > 0
         /\ obj[h].dtored <=> obj[h].phase # "open"
         /\ obj[h].ce = "udp" => child[h] = "none"
         /\ obj[h].ce # "udp" => sends[h] = 0 /\ Receives(h) = 0 /\ RunningOn(h) # "send"
  BY EventFacts DEF EventHeld, EventUse, LiveShape, Usable, Visible, DeviceClasses

(* A new object.                                                           *)
LEMMA EventCreate ==
  ASSUME EventInv, NEW h \in Handles, obj[h].life = "none",
         NEW q \in Object, obj' = [obj EXCEPT ![h] = q], LiveShape(q), q.phase = "open",
         vars' = [vars EXCEPT ![h] = 1], UNCHANGED <<reqs, frame, lost, udpVars, sent>>,
         NEW c, child' = [child EXCEPT ![h] = c],
         \/ q.ce = "udp" /\ ~q.active /\ c = "none" /\ q.rc = 1
         \/ q.ce \in DeviceClasses /\ q.active /\ c = "none" /\ q.rc = 1
         \/ q.ce = "process" /\ q.active /\ c = "running" /\ q.rc = 2
  PROVE  EventInv'
<1>1. /\ RunningOn(h) = "none" /\ lost[h] = 0 /\ sends[h] = 0 /\ Receives(h) = 0
  BY EventFacts DEF EventShape, EventFreed, EventHeld, EventUse, LiveShape
<1>2. /\ Elsewhere(h) /\ FrameElsewhere(h) /\ OwnElsewhere(h) /\ RunningOn(h)' = "none"
      /\ frame' = NoFrame \/ (frame'.handle \in Handles /\ frame'.cb # "none")
  BY <1>1, EventTypes, EventQuiet, HandleAssumption DEF Elsewhere, OwnElsewhere, udpVars
<1>3. vars'[h] = 1 /\ lost'[h] = 0 /\ sends'[h] = 0 /\ Receives(h)' = 0 /\ child'[h] = c
  BY <1>1, EventTypes, EventQuiet
<1>4. EventUse(q, 1, "none", 0, 0, c)
  BY DEF EventUse, DeviceClasses
<1>5. EventCount(q, 1, "none", 0, 0, 0, c) = q.rc /\ q.rc > 0
  BY DEF EventCount, CallShare, CloseRef, SendShare, ChildShare
<1>6. EventShape(q, 1, "none", 0, 0, 0, c)
  BY <1>4, <1>5 DEF EventShape, EventHeld
<1>7. QED
  BY <1>2, <1>3, <1>6, EventBecomes

(* The uv_*_init functions and uv_spawn.                                   *)
LEMMA InitEvent ==
  ASSUME EventInv, NEW h \in Handles,
         \/ uv_udp_init(h) /\ UNCHANGED deviceVars
         \/ (uv_async_init(h) \/ uv_fs_event_init(h) \/ uv_spawn(h)) /\ UNCHANGED udpVars
  PROVE  EventInv'
<1>2. ASSUME NEW class \in Classes
      PROVE  LET o == create_uv(class)
             IN  /\ o \in Object /\ LiveShape(o) /\ o.phase = "open" /\ o.rc = 1
                 /\ o.ce = class /\ ~o.active /\ ~o.dtored
  BY DEF create_uv, Absent, Object, LiveShape, Lives, Phases
<1>3. ASSUME NEW o \in Object, LiveShape(o), o.phase = "open"
      PROVE  LET q == [o EXCEPT !.active = TRUE]
             IN  /\ q \in Object /\ LiveShape(q) /\ q.phase = "open" /\ q.rc = o.rc
                 /\ q.ce = o.ce /\ q.active
  BY <1>3 DEF Object, LiveShape
<1>4. CASE uv_udp_init(h) /\ UNCHANGED deviceVars
  <2>1. "udp" \in Classes /\ child' = [child EXCEPT ![h] = "none"]
    BY <1>4, EventTypes, EventFacts
    DEF Classes, deviceVars, uv_udp_init, CreateHandle, EventShape, EventFreed, EventHeld, EventUse, LiveShape
  <2> DEFINE o == create_uv("udp")
  <2>2. o \in Object /\ LiveShape(o) /\ o.phase = "open" /\ o.rc = 1 /\ o.ce = "udp" /\ ~o.active
    BY <1>2, <2>1
  <2>3. /\ obj[h].life = "none" /\ obj' = [obj EXCEPT ![h] = o] /\ vars' = [vars EXCEPT ![h] = 1]
        /\ UNCHANGED <<reqs, frame, lost, udpVars, sent>>
    BY <1>4 DEF uv_udp_init, CreateHandle, deviceVars
  <2> HIDE DEF o
  <2>4. QED
    BY <2>1, <2>2, <2>3, EventCreate
<1>5. CASE (uv_async_init(h) \/ uv_fs_event_init(h)) /\ UNCHANGED udpVars
  <2>1. PICK class \in {"async", "fs_event"} : CreateActive(h, class) /\ UNCHANGED deviceVars
    BY <1>5 DEF uv_async_init, uv_fs_event_init
  <2>2. class \in Classes /\ class \in DeviceClasses
    BY DEF Classes, DeviceClasses
  <2>3. child[h] = "none" /\ child' = [child EXCEPT ![h] = "none"]
    BY <2>1, EventTypes, EventFacts
    DEF CreateActive, deviceVars, EventShape, EventFreed, EventHeld, EventUse, LiveShape
  <2> DEFINE o == create_uv(class)
             q == [o EXCEPT !.active = TRUE]
  <2>4. o \in Object /\ LiveShape(o) /\ o.phase = "open" /\ o.rc = 1 /\ o.ce = class
    BY <1>2, <2>2
  <2>5. obj' = [obj EXCEPT ![h] = q]
    BY <2>1 DEF CreateActive
  <2> HIDE DEF o
  <2>6. /\ q \in Object /\ LiveShape(q) /\ q.phase = "open" /\ q.rc = 1 /\ q.ce = class /\ q.active
    BY <1>3, <2>4
  <2> HIDE DEF q
  <2>7. /\ obj[h].life = "none" /\ vars' = [vars EXCEPT ![h] = 1]
        /\ UNCHANGED <<reqs, frame, lost, udpVars, sent>>
    BY <1>5, <2>1 DEF CreateActive, deviceVars
  <2>8. q.ce \in DeviceClasses
    BY <2>2, <2>6
  <2>9. QED
    BY <2>3, <2>5, <2>6, <2>7, <2>8, EventCreate
<1>6. CASE uv_spawn(h) /\ UNCHANGED udpVars
  <2> DEFINE o == create_uv("process")
             q == [GC_ADDREF(o) EXCEPT !.active = TRUE]
  <2>1. o \in Object /\ LiveShape(o) /\ o.phase = "open" /\ o.rc = 1 /\ o.ce = "process" /\ ~o.active
    BY <1>2 DEF Classes
  <2>2. CASE obj' = [obj EXCEPT ![h] = q] /\ vars' = [vars EXCEPT ![h] = 1]
             /\ child' = [child EXCEPT ![h] = "running"]
    <3> HIDE DEF o
    <3>1. GC_ADDREF(o) \in Object /\ LiveShape(GC_ADDREF(o)) /\ GC_ADDREF(o).phase = "open"
          /\ GC_ADDREF(o).rc = 2 /\ GC_ADDREF(o).ce = "process"
      BY <2>1, AddRefFields DEF LiveShape
    <3>2. /\ q \in Object /\ LiveShape(q) /\ q.phase = "open" /\ q.rc = 2 /\ q.ce = "process" /\ q.active
      BY <1>3, <3>1
    <3> HIDE DEF q
    <3>3. obj[h].life = "none" /\ UNCHANGED <<reqs, frame, lost, udpVars, sent>>
      BY <1>6 DEF uv_spawn
    <3>4. QED
      BY <2>2, <3>2, <3>3, EventCreate
  <2>3. CASE obj' = [obj EXCEPT ![h] = OBJ_RELEASE(o)] /\ UNCHANGED <<vars, child>>
    <3>1. /\ RunningOn(h) = "none" /\ vars[h] = 0 /\ lost[h] = 0 /\ sends[h] = 0
          /\ Receives(h) = 0 /\ child[h] = "none"
      BY <1>6, EventFacts DEF uv_spawn, EventShape, EventFreed, EventHeld, EventUse, LiveShape
    <3>2. EventUse(o, 0, "none", 0, 0, "none")
      BY <2>1 DEF EventUse, DeviceClasses
    <3>3. EventCount(o, 0, "none", 0, 0, 0, "none") = 0
      BY <2>1 DEF EventCount, CallShare, CloseRef, SendShare, ChildShare
    <3> HIDE DEF o
    <3>4. o.rc = EventCount(o, 0, "none", 0, 0, 0, "none") + 1
      BY <2>1, <3>3
    <3>5. OBJ_RELEASE(o) \in Object /\ EventShape(OBJ_RELEASE(o), 0, "none", 0, 0, 0, "none")
      BY <2>1, <3>2, <3>4, ReleaseShape
    <3>6. /\ Elsewhere(h) /\ FrameElsewhere(h) /\ OwnElsewhere(h) /\ RunningOn(h)' = "none"
          /\ frame' = NoFrame \/ (frame'.handle \in Handles /\ frame'.cb # "none")
      BY <1>6, <2>3, <3>1, EventQuiet DEF uv_spawn, deviceVars
    <3>7. /\ reqs' = reqs /\ vars'[h] = 0 /\ lost'[h] = 0 /\ sends'[h] = 0 /\ Receives(h)' = 0
          /\ child'[h] = "none"
      BY <1>6, <2>3, <3>1, EventQuiet DEF uv_spawn
    <3>8. QED
      BY <1>6, <2>3, <3>5, <3>6, <3>7, EventBecomes DEF uv_spawn
  <2>4. QED
    BY <1>6, <2>2, <2>3 DEF uv_spawn
<1>7. QED
  BY <1>4, <1>5, <1>6

-----------------------------------------------------------------------------
(* The script's variables, and closes.                                     *)

(* $b = $a.                                                                *)
LEMMA CopyEvent ==
  ASSUME EventInv, NEW h \in Handles, CopyVariable(h), UNCHANGED udpVars, UNCHANGED deviceVars
  PROVE  EventInv'
<1> DEFINE q == GC_ADDREF(obj[h])
           v == vars[h]  f == RunningOn(h)  l == lost[h]  s == sends[h]  r == Receives(h)  c == child[h]
<1>1. /\ obj[h] \in Object /\ obj[h].life = "live" /\ v \in Nat /\ l \in Nat /\ s \in Nat /\ r \in Nat
      /\ EventHeld(obj[h], v, f, l, s, r, c)
  BY EventFacts DEF CopyVariable, Visible
<1>2. /\ obj' = [obj EXCEPT ![h] = q] /\ vars[h] < MaxVars /\ vars' = [vars EXCEPT ![h] = @ + 1]
      /\ reqs' = reqs /\ frame' = frame /\ lost' = lost
  BY DEF CopyVariable
<1>3. /\ Elsewhere(h) /\ FrameElsewhere(h) /\ OwnElsewhere(h)
      /\ frame' = NoFrame \/ (frame'.handle \in Handles /\ frame'.cb # "none")
      /\ vars'[h] = v + 1 /\ RunningOn(h)' = f /\ lost'[h] = l /\ sends'[h] = s /\ Receives(h)' = r
      /\ child'[h] = c
  BY <1>2, EventTypes, EventQuiet, HandleAssumption DEF Elsewhere, deviceVars
<1>4. /\ q \in Object /\ q.rc = obj[h].rc + 1 /\ q.ce = obj[h].ce /\ q.life = obj[h].life
      /\ q.phase = obj[h].phase /\ q.dtored = obj[h].dtored /\ q.active = obj[h].active
  BY <1>1, AddRefFields
<1> HIDE DEF q, v, f, l, s, r, c
<1>5. EventUse(q, v + 1, f, s, r, c)
  BY <1>1, <1>4 DEF EventHeld, EventUse, LiveShape
<1>6. EventCount(q, v + 1, f, l, s, r, c) = EventCount(obj[h], v, f, l, s, r, c) + 1
      /\ EventCount(obj[h], v, f, l, s, r, c) \in Nat
  BY <1>1, <1>4, CountMore, CountKept
<1>7. EventShape(q, v + 1, f, l, s, r, c)
  BY <1>1, <1>4, <1>5, <1>6 DEF EventShape, EventHeld
<1>8. QED
  BY <1>2, <1>3, <1>4, <1>7, EventBecomes

(* Sends become all that holds a socket only if the script abandons it.    *)
LEMMA StaysFacts ==
  ASSUME EventInv, NEW h \in Handles, StaysHeld(h), Elsewhere(h), frame' = frame
  PROVE  obj'[h].phase = "open" /\ (sends'[h] > 0 \/ RunningOn(h)' = "send")
           => AbandonsSenders \/ vars'[h] > 0 \/ Receives(h)' > 0
<1>1. vars'[h] \in Nat /\ RunningOn(h)' = RunningOn(h)
  BY EventQuiet, HandleAssumption DEF Elsewhere
<1>2. frame' = [handle |-> h, cb |-> "send"] <=> RunningOn(h)' = "send"
  BY <1>1, EventFacts
<1>3. Receives(h)' > 0 <=> receiving'[h]
  BY DEF Receives
<1>4. \/ AbandonsSenders
      \/ ~(/\ obj'[h].phase = "open" /\ vars'[h] = 0 /\ ~receiving'[h]
           /\ sends'[h] > 0 \/ frame' = [handle |-> h, cb |-> "send"])
  BY DEF StaysHeld, HeldBySends
<1>5. QED
  BY <1>1, <1>2, <1>3, <1>4

(* unset($a), or its scope ends.                                           *)
LEMMA UnsetEvent ==
  ASSUME EventInv, NEW h \in Handles, UnsetSocket(h), UNCHANGED deviceVars
  PROVE  EventInv'
<1> DEFINE o == obj[h]
           v == vars[h] - 1  f == RunningOn(h)  l == lost[h]  s == sends[h]  r == Receives(h)  c == child[h]
<1>1. /\ o \in Object /\ o.life = "live" /\ v \in Nat /\ v + 1 = vars[h]
      /\ l \in Nat /\ s \in Nat /\ r \in Nat /\ EventHeld(o, v + 1, f, l, s, r, c)
  BY EventFacts DEF UnsetSocket, UnsetVariable, Visible
<1>2. /\ obj' = [obj EXCEPT ![h] = OBJ_RELEASE(o)] /\ vars' = [vars EXCEPT ![h] = @ - 1]
      /\ reqs' = reqs /\ frame' = frame /\ lost' = lost /\ UNCHANGED udpVars /\ vars[h] > 0
  BY DEF UnsetSocket, UnsetVariable
<1>3. /\ Elsewhere(h) /\ FrameElsewhere(h) /\ OwnElsewhere(h)
      /\ frame' = NoFrame \/ (frame'.handle \in Handles /\ frame'.cb # "none")
      /\ vars'[h] = v /\ RunningOn(h)' = f /\ lost'[h] = l /\ sends'[h] = s /\ Receives(h)' = r
      /\ child'[h] = c /\ reqs' = reqs
  BY <1>2, EventTypes, EventQuiet, HandleAssumption DEF Elsewhere, deviceVars
<1>4. obj'[h] = OBJ_RELEASE(o)
  BY <1>2, EventTypes DEF HandleTypeOK
<1>5. obj'[h].phase = "open" /\ (s > 0 \/ f = "send") => AbandonsSenders \/ v > 0 \/ r > 0
  BY <1>2, <1>3, StaysFacts DEF UnsetSocket
<1> HIDE DEF o, v, f, l, s, r, c
<1>6. o.rc = EventCount(o, v, f, l, s, r, c) + 1 /\ EventCount(o, v, f, l, s, r, c) \in Nat
  BY <1>1, CountMore DEF EventHeld
<1>7. o.phase = "open" /\ (s > 0 \/ f = "send") => AbandonsSenders \/ v > 0 \/ r > 0
  <2>1. CASE EventCount(o, v, f, l, s, r, c) = 0
    BY <1>1, <2>1, CountZero
  <2>2. CASE EventCount(o, v, f, l, s, r, c) # 0
    <3>1. o.rc > 1
      BY <1>6, <2>2
    <3>2. OBJ_RELEASE(o).phase = o.phase
      BY <1>1, <3>1, ReleaseFields
    <3>3. QED
      BY <1>4, <1>5, <3>2
  <2>3. QED
    BY <2>1, <2>2
<1>8. EventUse(o, v, f, s, r, c)
  BY <1>1, <1>7 DEF EventHeld, EventUse
<1> DEFINE q == OBJ_RELEASE(o)
<1>9. q \in Object /\ EventShape(q, v, f, l, s, r, c) /\ obj' = [obj EXCEPT ![h] = q]
  BY <1>1, <1>2, <1>6, <1>8, ReleaseShape
<1> HIDE DEF q
<1>10. QED
  BY <1>3, <1>9, EventBecomes

(* uv_close of a socket: one activity pays for the close, the others are   *)
(* abandoned.                                                              *)
LEMMA UdpCloseEvent ==
  ASSUME EventInv, NEW h \in Handles, uv_udp_close(h), UNCHANGED deviceVars
  PROVE  EventInv'
<1> DEFINE v == vars[h]  f == RunningOn(h)  l == lost[h]  s == sends[h]  r == Receives(h)  c == child[h]
<1>1. /\ obj[h] \in Object /\ obj[h].life = "live" /\ obj[h].phase = "open" /\ obj[h].ce = "udp"
      /\ v \in Nat /\ l \in Nat /\ s \in Nat /\ r \in {0, 1}
      /\ EventHeld(obj[h], v, f, l, s, r, c) /\ c = "none"
  BY EventFacts, EventOpen DEF uv_udp_close, Usable, Visible
<1>2. PICK callable \in BOOLEAN :
        obj' = [obj EXCEPT ![h] = php_uv_close([@ EXCEPT !.notify = callable])]
  BY DEF uv_udp_close
<1> DEFINE o == [obj[h] EXCEPT !.notify = callable]
           q == php_uv_close(o)
           taken == IF obj[h].active THEN 1 ELSE 0
           a == Activities(h)
<1>3. /\ o \in Object /\ o.rc = obj[h].rc /\ o.ce = "udp" /\ o.life = "live" /\ o.phase = "open"
      /\ o.active = obj[h].active
  BY <1>1 DEF Object
<1>4. obj' = [obj EXCEPT ![h] = q]
  BY <1>2
<1>5. /\ vars' = vars /\ reqs' = reqs /\ frame' = frame /\ sends' = sends /\ l + a - taken <= MaxLost
      /\ lost' = [lost EXCEPT ![h] = @ + a - taken] /\ receiving' = [receiving EXCEPT ![h] = FALSE]
  BY DEF uv_udp_close
<1>6. a = s + r + SendShare(f)
  BY <1>1, EventFacts DEF Activities, Receives, SendShare
<1>7. a \in Nat /\ (taken = 1 => a > 0) /\ taken \in {0, 1} /\ SendShare(f) \in {0, 1}
  <2>1. obj[h].active => s > 0 \/ r > 0 \/ f = "send"
    BY <1>1 DEF EventHeld, EventUse, DeviceClasses
  <2>2. SendShare(f) \in {0, 1} /\ (SendShare(f) = 1 <=> f = "send")
    BY DEF SendShare
  <2> HIDE DEF a, s, r, f
  <2>3. QED
    BY <1>1, <1>6, <2>1, <2>2
<1> HIDE DEF o
<1>8. /\ q \in Object /\ q.rc = o.rc + 1 - taken /\ q.ce = "udp" /\ q.life = "live"
      /\ q.dtored /\ q.phase = "closing" /\ ~q.active
  BY <1>1, <1>3, CloseFields DEF php_uv_is_handle_referenced, ReferencedClasses, Object
<1> HIDE DEF q, taken, a
<1>9. lost' \in [Handles -> 0 .. MaxLost] /\ lost'[h] = l + a - taken /\ l + a - taken \in Nat
  BY <1>1, <1>5, <1>7, EventTypes, HandleAssumption
<1>10. /\ Elsewhere(h) /\ FrameElsewhere(h) /\ OwnElsewhere(h)
       /\ frame' = NoFrame \/ (frame'.handle \in Handles /\ frame'.cb # "none")
       /\ vars'[h] = v /\ RunningOn(h)' = f /\ sends'[h] = s /\ Receives(h)' = 0
       /\ child'[h] = c
  <2>1. Elsewhere(h)
    BY <1>5, <1>9, EventTypes DEF Elsewhere
  <2>2. OwnElsewhere(h) /\ sends'[h] = s /\ child'[h] = c
    BY <1>5, EventTypes DEF OwnElsewhere, deviceVars
  <2>3. Receives(h)' = 0
    BY <1>5, EventTypes DEF Receives
  <2>4. QED
    BY <1>5, <2>1, <2>2, <2>3, EventQuiet
<1> HIDE DEF v, f, l, s, r, c
<1>11. EventUse(q, v, f, s, 0, c)
  BY <1>1, <1>8 DEF EventHeld, EventUse, LiveShape, Classes
<1>12. q.rc = EventCount(q, v, f, l + a - taken, s, 0, c) /\ q.rc > 0
  <2> DEFINE k == CallShare(f)
  <2>1. k \in Nat
    BY DEF CallShare
  <2>2. EventCount(q, v, f, l + a - taken, s, 0, c) = v + k + 1 + (l + a - taken) + 0
    BY <1>8 DEF EventCount, CloseRef
  <2>3. obj[h].rc = v + k + 0 + l + (s + r + SendShare(f) + 0)
    BY <1>1 DEF EventHeld, EventCount, CloseRef, ChildShare
  <2> HIDE DEF k
  <2>4. QED
    BY <1>1, <1>3, <1>6, <1>7, <1>8, <2>1, <2>2, <2>3
<1>13. EventShape(q, v, f, l + a - taken, s, 0, c)
  BY <1>11, <1>12 DEF EventShape, EventHeld
<1>14. QED
  BY <1>4, <1>5, <1>8, <1>9, <1>10, <1>13, EventBecomes

(* uv_close of a device: the reference of an unreported process is lost.   *)
LEMMA DeviceCloseEvent ==
  ASSUME EventInv, NEW h \in Handles, uv_device_close(h), UNCHANGED udpVars
  PROVE  EventInv'
<1> DEFINE v == vars[h]  f == RunningOn(h)  l == lost[h]  c == child[h]  w == lost'[h]
<1>1. /\ obj[h] \in Object /\ obj[h].life = "live" /\ obj[h].phase = "open" /\ obj[h].ce \in DeviceClasses
      /\ v \in Nat /\ l \in Nat /\ sends[h] = 0 /\ Receives(h) = 0 /\ f # "send"
      /\ EventHeld(obj[h], v, f, l, 0, 0, c)
  <2>1. obj[h].life = "live" /\ obj[h].ce \in DeviceClasses /\ obj[h].ce # "udp"
    BY DEF uv_device_close, Usable, Visible, DeviceClasses
  <2>2. sends[h] = 0 /\ Receives(h) = 0 /\ f # "send" /\ obj[h].phase = "open"
    BY <2>1, EventOpen DEF uv_device_close
  <2>3. QED
    BY <2>1, <2>2, EventFacts
<1>2. PICK callable \in BOOLEAN :
        obj' = [obj EXCEPT ![h] = php_uv_close([@ EXCEPT !.notify = callable])]
  BY DEF uv_device_close
<1> DEFINE o == [obj[h] EXCEPT !.notify = callable]
           q == php_uv_close(o)
<1>3. /\ o \in Object /\ o.rc = obj[h].rc /\ o.ce = obj[h].ce /\ o.life = "live" /\ o.phase = "open"
  BY <1>1 DEF Object
<1>4. obj' = [obj EXCEPT ![h] = q]
  BY <1>2
<1>5. ~php_uv_is_handle_referenced(o)
  BY <1>1, <1>3 DEF php_uv_is_handle_referenced, ReferencedClasses, DeviceClasses
<1> HIDE DEF o
<1>6. /\ q \in Object /\ q.rc = o.rc + 1 /\ q.ce = o.ce /\ q.life = "live"
      /\ q.dtored /\ q.phase = "closing" /\ ~q.active
  BY <1>3, <1>5, CloseFields
<1> HIDE DEF q
<1>7. lost' \in [Handles -> 0 .. MaxLost] /\ w = l + ChildShare(c) /\ w \in Nat
      /\ \A k \in Handles \ {h} : lost'[k] = lost[k]
  <2>1. Unreported(h) <=> c \in {"running", "exited"}
    BY <1>1 DEF Unreported
  <2>2. CASE Unreported(h)
    <3>1. lost[h] < MaxLost /\ lost' = [lost EXCEPT ![h] = @ + 1] /\ ChildShare(c) = 1
      BY <2>1, <2>2 DEF uv_device_close, ChildShare
    <3>2. QED
      BY <1>1, <3>1, EventTypes, HandleAssumption
  <2>3. CASE ~Unreported(h)
    <3>1. lost' = lost /\ ChildShare(c) = 0
      BY <2>1, <2>3 DEF uv_device_close, ChildShare
    <3>2. QED
      BY <1>1, <3>1, EventTypes
  <2>4. QED
    BY <2>2, <2>3
<1>8. /\ Elsewhere(h) /\ FrameElsewhere(h) /\ OwnElsewhere(h) /\ reqs' = reqs
      /\ frame' = NoFrame \/ (frame'.handle \in Handles /\ frame'.cb # "none")
      /\ vars'[h] = v /\ RunningOn(h)' = f /\ sends'[h] = 0 /\ Receives(h)' = 0
      /\ child'[h] = c /\ lost'[h] = w
  <2>1. /\ vars' = vars /\ reqs' = reqs /\ frame' = frame /\ UNCHANGED deviceVars
    BY DEF uv_device_close
  <2>2. Elsewhere(h)
    BY <1>7, <2>1, EventTypes DEF Elsewhere
  <2>3. QED
    BY <1>1, <2>1, <2>2, EventQuiet DEF deviceVars
<1> HIDE DEF v, f, l, c, w
<1>9. EventUse(q, v, f, 0, 0, c)
  BY <1>1, <1>3, <1>6 DEF EventHeld, EventUse, LiveShape, DeviceClasses
<1>10. q.rc = EventCount(q, v, f, w, 0, 0, c) /\ q.rc > 0
  <2> DEFINE k == CallShare(f)  e == ChildShare(c)
  <2>1. k \in Nat /\ e \in Nat
    BY DEF CallShare, ChildShare
  <2>2. EventCount(q, v, f, w, 0, 0, c) = v + k + 1 + w + 0
    BY <1>6 DEF EventCount, CloseRef
  <2>3. obj[h].rc = v + k + 0 + l + (0 + 0 + 0 + e)
    BY <1>1 DEF EventHeld, EventCount, CloseRef, SendShare
  <2>4. w = l + e
    BY <1>7
  <2> HIDE DEF k, e
  <2>5. QED
    BY <1>1, <1>3, <1>6, <1>7, <2>1, <2>2, <2>3, <2>4
<1>11. EventShape(q, v, f, w, 0, 0, c)
  BY <1>9, <1>10 DEF EventShape, EventHeld
<1>12. QED
  BY <1>4, <1>6, <1>8, <1>11, EventBecomes

-----------------------------------------------------------------------------
(* Sending and receiving.                                                  *)

(* uv_udp_recv_start.                                                      *)
LEMMA ReceiveEvent ==
  ASSUME EventInv, NEW h \in Handles, uv_udp_recv_start(h), UNCHANGED deviceVars
  PROVE  EventInv'
<1> DEFINE v == vars[h]  f == RunningOn(h)  l == lost[h]  s == sends[h]  c == child[h]
           a == GC_ADDREF(obj[h])
           q == [a EXCEPT !.active = TRUE]
<1>1. /\ obj[h] \in Object /\ obj[h].life = "live" /\ obj[h].phase = "open" /\ obj[h].ce = "udp"
      /\ ~obj[h].active /\ Receives(h) \in {0, 1} /\ v \in Nat /\ l \in Nat /\ s \in Nat
      /\ EventHeld(obj[h], v, f, l, s, Receives(h), c)
  BY EventFacts, EventOpen DEF uv_udp_recv_start, Usable, Visible
<1>2. Receives(h) = 0
  BY <1>1 DEF EventHeld, EventUse
<1>3. a \in Object /\ a.rc = obj[h].rc + 1 /\ a.phase = "open" /\ a.ce = "udp" /\ a.life = "live" /\ ~a.dtored
  BY <1>1, AddRefFields DEF EventHeld, EventUse, LiveShape
<1>4. obj' = [obj EXCEPT ![h] = q]
  BY DEF uv_udp_recv_start
<1> HIDE DEF a
<1>5. q \in Object /\ q.rc = obj[h].rc + 1 /\ q.phase = "open" /\ q.ce = "udp" /\ q.life = "live" /\ ~q.dtored /\ q.active
  BY <1>3 DEF Object
<1> HIDE DEF q
<1>6. /\ Elsewhere(h) /\ FrameElsewhere(h) /\ OwnElsewhere(h) /\ reqs' = reqs
      /\ frame' = NoFrame \/ (frame'.handle \in Handles /\ frame'.cb # "none")
      /\ vars'[h] = v /\ RunningOn(h)' = f /\ sends'[h] = s /\ Receives(h)' = 1
      /\ child'[h] = c /\ lost'[h] = l
  <2>1. /\ vars' = vars /\ reqs' = reqs /\ frame' = frame /\ lost' = lost /\ sends' = sends
        /\ receiving' = [receiving EXCEPT ![h] = TRUE]
    BY DEF uv_udp_recv_start
  <2>2. OwnElsewhere(h)
    BY <2>1, EventTypes DEF OwnElsewhere, deviceVars
  <2>3. Receives(h)' = 1
    BY <2>1, EventTypes DEF Receives
  <2>4. QED
    BY <2>1, <2>2, <2>3, EventQuiet DEF deviceVars
<1> HIDE DEF v, f, l, s, c
<1>7. EventUse(q, v, f, s, 1, c)
  BY <1>1, <1>2, <1>5 DEF EventHeld, EventUse, LiveShape, DeviceClasses
<1>8. EventCount(q, v, f, l, s, 1, c) = EventCount(q, v, f, l, s, 0, c) + 1
      /\ EventCount(q, v, f, l, s, 0, c) = EventCount(obj[h], v, f, l, s, 0, c)
      /\ EventCount(q, v, f, l, s, 0, c) \in Nat
  BY <1>1, <1>5, CountOther, CountKept, CountMore
<1>9. q.rc > 0 /\ q.rc = EventCount(q, v, f, l, s, 1, c)
  BY <1>1, <1>2, <1>5, <1>8 DEF EventHeld
<1>10. EventShape(q, v, f, l, s, 1, c)
  BY <1>7, <1>9 DEF EventShape, EventHeld
<1>11. QED
  BY <1>4, <1>5, <1>6, <1>10, EventBecomes

(* uv_udp_recv_stop, on a socket that receives.                            *)
LEMMA ReceiveStopEvent ==
  ASSUME EventInv, ~StopsSenders, NEW h \in Handles, uv_udp_recv_stop(h),
         UNCHANGED deviceVars
  PROVE  EventInv'
<1> DEFINE v == vars[h]  f == RunningOn(h)  l == lost[h]  s == sends[h]  c == child[h]
<1>1. /\ obj[h] \in Object /\ obj[h].life = "live" /\ obj[h].phase = "open" /\ obj[h].ce = "udp"
      /\ Receives(h) = 1 /\ v \in Nat /\ l \in Nat /\ s \in Nat
      /\ EventHeld(obj[h], v, f, l, s, 1, c)
  BY EventFacts, EventOpen DEF uv_udp_recv_stop, Usable, Visible, Receives
<1>2. PICK waits \in BOOLEAN :
        /\ waits => sends[h] > 0 \/ frame = [handle |-> h, cb |-> "send"]
        /\ obj' = [obj EXCEPT ![h] = OBJ_RELEASE([@ EXCEPT !.active = waits])]
  BY DEF uv_udp_recv_stop
<1> DEFINE o == [obj[h] EXCEPT !.active = waits]
           q == OBJ_RELEASE(o)
<1>3. /\ o \in Object /\ o.rc = obj[h].rc /\ o.phase = "open" /\ o.ce = "udp" /\ o.life = "live"
      /\ o.dtored = obj[h].dtored /\ (o.active => s > 0 \/ f = "send")
  BY <1>1, <1>2, EventFacts DEF Object
<1>4. obj' = [obj EXCEPT ![h] = q] /\ obj'[h] = q
  BY <1>2, EventTypes DEF HandleTypeOK
<1>5. /\ Elsewhere(h) /\ FrameElsewhere(h) /\ OwnElsewhere(h) /\ reqs' = reqs
      /\ frame' = NoFrame \/ (frame'.handle \in Handles /\ frame'.cb # "none")
      /\ vars'[h] = v /\ RunningOn(h)' = f /\ sends'[h] = s /\ Receives(h)' = 0
      /\ child'[h] = c /\ lost'[h] = l /\ frame' = frame
  <2>1. /\ vars' = vars /\ reqs' = reqs /\ frame' = frame /\ lost' = lost /\ sends' = sends
        /\ receiving' = [receiving EXCEPT ![h] = FALSE]
    BY DEF uv_udp_recv_stop
  <2>2. OwnElsewhere(h)
    BY <2>1, EventTypes DEF OwnElsewhere, deviceVars
  <2>3. Receives(h)' = 0
    BY <2>1, EventTypes DEF Receives
  <2>4. QED
    BY <2>1, <2>2, <2>3, EventQuiet DEF deviceVars
<1>6. q.phase = "open" /\ (s > 0 \/ f = "send") => AbandonsSenders \/ v > 0
  BY <1>4, <1>5, StaysFacts DEF uv_udp_recv_stop
<1> HIDE DEF o, v, f, l, s, c
<1>7. /\ EventCount(o, v, f, l, s, 1, c) = EventCount(o, v, f, l, s, 0, c) + 1
      /\ EventCount(o, v, f, l, s, 1, c) = EventCount(obj[h], v, f, l, s, 1, c)
      /\ EventCount(o, v, f, l, s, 0, c) \in Nat
  BY <1>1, <1>3, CountOther, CountKept, CountMore
<1>8. o.rc = EventCount(o, v, f, l, s, 0, c) + 1
  BY <1>1, <1>3, <1>7 DEF EventHeld
<1>9. s > 0 \/ f = "send" => AbandonsSenders \/ v > 0
  <2>1. CASE EventCount(o, v, f, l, s, 0, c) = 0
    BY <1>1, <1>3, <2>1, CountZero
  <2>2. CASE EventCount(o, v, f, l, s, 0, c) # 0
    <3>1. o.rc > 1
      BY <1>7, <1>8, <2>2
    <3>2. q.phase = "open"
      BY <1>3, <3>1, ReleaseFields
    <3>3. QED
      BY <1>6, <3>2
  <2>3. QED
    BY <2>1, <2>2
<1>10. EventUse(o, v, f, s, 0, c)
  BY <1>1, <1>3, <1>9 DEF EventHeld, EventUse, LiveShape, DeviceClasses
<1>11. q \in Object /\ EventShape(q, v, f, l, s, 0, c)
  BY <1>1, <1>3, <1>8, <1>10, ReleaseShape
<1> HIDE DEF q
<1>12. QED
  BY <1>4, <1>5, <1>11, EventBecomes

(* php_uv_udp_send, accepted or not.                                       *)
LEMMA SendEvent ==
  ASSUME EventInv, NEW h \in Handles, php_uv_udp_send(h), UNCHANGED deviceVars
  PROVE  EventInv'
<1> DEFINE v == vars[h]  f == RunningOn(h)  l == lost[h]  s == sends[h]  r == Receives(h)  c == child[h]
           a == GC_ADDREF(obj[h])
<1>1. /\ obj[h] \in Object /\ obj[h].life = "live" /\ obj[h].phase = "open" /\ obj[h].ce = "udp"
      /\ v \in Nat /\ l \in Nat /\ s \in Nat /\ r \in Nat
      /\ EventHeld(obj[h], v, f, l, s, r, c)
  BY EventFacts, EventOpen DEF php_uv_udp_send, Usable, Visible
<1>2. /\ a \in Object /\ a.rc = obj[h].rc + 1 /\ a.phase = "open" /\ a.ce = "udp" /\ a.life = "live"
      /\ a.dtored = obj[h].dtored /\ a.active = obj[h].active
  BY <1>1, AddRefFields
<1>3. vars' = vars /\ reqs' = reqs /\ frame' = frame /\ receiving' = receiving /\ StaysHeld(h)
  BY DEF php_uv_udp_send
<1>4. Receives(h)' = r /\ child'[h] = c /\ child' = child /\ sent' = sent
  BY <1>3 DEF Receives, deviceVars
<1>5. CASE sends[h] < MaxReqs /\ sends' = [sends EXCEPT ![h] = @ + 1] /\ lost' = lost
           /\ obj' = [obj EXCEPT ![h] = [GC_ADDREF(@) EXCEPT !.active = TRUE]]
  <2> DEFINE q == [a EXCEPT !.active = TRUE]
  <2>1. obj' = [obj EXCEPT ![h] = q] /\ obj'[h] = q
    BY <1>5, EventTypes DEF HandleTypeOK
  <2> HIDE DEF a
  <2>2. /\ q \in Object /\ q.rc = obj[h].rc + 1 /\ q.phase = "open" /\ q.ce = "udp" /\ q.life = "live"
        /\ q.dtored = obj[h].dtored /\ q.active
    BY <1>2 DEF Object
  <2> HIDE DEF q
  <2>3. /\ Elsewhere(h) /\ FrameElsewhere(h) /\ OwnElsewhere(h) /\ reqs' = reqs
        /\ frame' = NoFrame \/ (frame'.handle \in Handles /\ frame'.cb # "none")
        /\ vars'[h] = v /\ RunningOn(h)' = f /\ sends'[h] = s + 1 /\ lost'[h] = l
    <3>1. OwnElsewhere(h) /\ sends'[h] = s + 1
      BY <1>3, <1>4, <1>5, EventTypes, HandleAssumption DEF OwnElsewhere
    <3>2. QED
      BY <1>3, <1>5, <3>1, EventQuiet
  <2>4. AbandonsSenders \/ v > 0 \/ r > 0
    BY <1>1, <1>3, <1>4, <2>1, <2>2, <2>3, StaysFacts
  <2> HIDE DEF v, f, l, s, r, c
  <2>5. EventUse(q, v, f, s + 1, r, c)
    BY <1>1, <2>2, <2>4 DEF EventHeld, EventUse, LiveShape, DeviceClasses
  <2>6. EventCount(q, v, f, l, s + 1, r, c) = EventCount(q, v, f, l, s, r, c) + 1
        /\ EventCount(q, v, f, l, s, r, c) = EventCount(obj[h], v, f, l, s, r, c)
        /\ EventCount(q, v, f, l, s, r, c) \in Nat
    BY <1>1, <2>2, CountKept, CountMore
  <2>7. EventShape(q, v, f, l, s + 1, r, c)
    BY <1>1, <2>2, <2>5, <2>6 DEF EventShape, EventHeld
  <2>8. QED
    BY <1>4, <2>1, <2>2, <2>3, <2>7, EventBecomes
<1>6. CASE lost[h] < MaxLost /\ lost' = [lost EXCEPT ![h] = @ + 1] /\ sends' = sends
           /\ obj' = [obj EXCEPT ![h] = GC_ADDREF(@)]
  <2>1. obj' = [obj EXCEPT ![h] = a]
    BY <1>6
  <2>2. /\ Elsewhere(h) /\ FrameElsewhere(h) /\ OwnElsewhere(h) /\ reqs' = reqs
        /\ frame' = NoFrame \/ (frame'.handle \in Handles /\ frame'.cb # "none")
        /\ vars'[h] = v /\ RunningOn(h)' = f /\ sends'[h] = s /\ lost'[h] = l + 1
    <3>1. Elsewhere(h) /\ lost'[h] = l + 1
      BY <1>3, <1>6, EventTypes, HandleAssumption DEF Elsewhere
    <3>2. QED
      BY <1>3, <1>4, <1>6, <3>1, EventQuiet DEF udpVars, deviceVars
  <2> HIDE DEF a, v, f, l, s, r, c
  <2>3. EventUse(a, v, f, s, r, c)
    BY <1>1, <1>2 DEF EventHeld, EventUse, LiveShape, DeviceClasses
  <2>4. EventCount(a, v, f, l + 1, s, r, c) = EventCount(a, v, f, l, s, r, c) + 1
        /\ EventCount(a, v, f, l, s, r, c) = EventCount(obj[h], v, f, l, s, r, c)
        /\ EventCount(a, v, f, l, s, r, c) \in Nat
    BY <1>1, <1>2, CountKept, CountMore
  <2>5. EventShape(a, v, f, l + 1, s, r, c)
    BY <1>1, <1>2, <2>3, <2>4 DEF EventShape, EventHeld
  <2>6. QED
    BY <1>2, <1>4, <2>1, <2>2, <2>5, EventBecomes
<1>7. QED
  BY <1>5, <1>6 DEF php_uv_udp_send

-----------------------------------------------------------------------------
(* Callbacks.                                                              *)

(* A callback begins.                                                      *)
LEMMA CallEvent ==
  ASSUME EventInv, NEW h \in Handles, NEW cb \in Callbacks \ {"none"}, NEW o \in Object,
         CallPHP(h, cb, o), vars' = vars, reqs' = reqs, lost' = lost, OwnElsewhere(h),
         NEW s \in Nat, sends'[h] = s, NEW r \in Nat, Receives(h)' = r, NEW c, child'[h] = c,
         EventUse(o, vars[h], cb, s, r, c),
         o.rc + 1 = EventCount(o, vars[h], cb, lost[h], s, r, c)
  PROVE  EventInv'
<1> DEFINE q == GC_ADDREF(o)
           v == vars[h]  l == lost[h]
<1>1. /\ q \in Object /\ q.rc = o.rc + 1 /\ q.ce = o.ce /\ q.life = o.life
      /\ q.phase = o.phase /\ q.dtored = o.dtored /\ q.active = o.active
  BY AddRefFields
<1>2. obj' = [obj EXCEPT ![h] = q]
  BY DEF CallPHP
<1>3. /\ Elsewhere(h) /\ FrameElsewhere(h)
      /\ frame' = NoFrame \/ (frame'.handle \in Handles /\ frame'.cb # "none")
      /\ vars'[h] = v /\ RunningOn(h)' = cb /\ lost'[h] = l
  BY EventQuiet, EventFrame DEF CallPHP
<1> HIDE DEF q, v, l
<1>4. q.rc > 0
  BY <1>1 DEF Object
<1>5. EventUse(q, v, cb, s, r, c)
  BY <1>1, UseKept DEF v
<1>6. q.rc = EventCount(q, v, cb, l, s, r, c)
  BY <1>1, CountKept DEF v, l
<1>7. EventShape(q, v, cb, l, s, r, c)
  BY <1>4, <1>5, <1>6 DEF EventShape, EventHeld
<1>8. QED
  BY <1>1, <1>2, <1>3, <1>7, EventBecomes

(* An active object hands its callback a reference of its own.             *)
LEMMA WatchedCallEvent ==
  ASSUME EventInv, NEW h \in Handles, NEW cb \in Callbacks \ {"none", "send", "close"},
         obj[h].life = "live", obj[h].active, Receives(h) > 0 \/ obj[h].ce # "udp",
         CallPHP(h, cb, GC_ADDREF(obj[h])), vars' = vars, reqs' = reqs, lost' = lost,
         UNCHANGED udpVars, sent' \in [Handles -> BOOLEAN], child' = child
  PROVE  EventInv'
<1> DEFINE o == GC_ADDREF(obj[h])
           v == vars[h]  l == lost[h]  s == sends[h]  r == Receives(h)  c == child[h]
<1>1. /\ obj[h] \in Object /\ v \in Nat /\ l \in Nat /\ s \in Nat /\ r \in Nat
      /\ EventHeld(obj[h], v, "none", l, s, r, c) /\ obj[h].phase = "open"
  BY EventFacts, EventOpen, EventFrame DEF CallPHP
<1>2. /\ o \in Object /\ o.rc = obj[h].rc + 1 /\ o.ce = obj[h].ce /\ o.life = obj[h].life
      /\ o.phase = obj[h].phase /\ o.dtored = obj[h].dtored /\ o.active = obj[h].active
  BY <1>1, AddRefFields
<1>3. OwnElsewhere(h) /\ sends'[h] = s /\ Receives(h)' = r /\ child'[h] = c
  BY EventTypes, EventQuiet DEF OwnElsewhere, udpVars
<1> HIDE DEF v, l, s, r, c
<1>4. EventUse(o, v, cb, s, r, c)
  <2>1. EventUse(obj[h], v, cb, s, r, c)
    BY <1>1 DEF EventHeld, EventUse, r
  <2> HIDE DEF o
  <2>2. QED
    BY <1>1, <1>2, <2>1, UseKept
<1> HIDE DEF o
<1>5. /\ EventCount(o, v, cb, l, s, r, c) = EventCount(o, v, "none", l, s, r, c) + 2
      /\ EventCount(o, v, "none", l, s, r, c) = EventCount(obj[h], v, "none", l, s, r, c)
      /\ EventCount(o, v, "none", l, s, r, c) \in Nat
  <2>1. EventCount(o, v, cb, l, s, r, c) = EventCount(o, v, "none", l, s, r, c) + 2
    <3>1. cb \notin {"none", "send"}
      OBVIOUS
    <3>2. QED
      BY <1>1, <3>1, CountCall
  <2>2. EventCount(o, v, "none", l, s, r, c) = EventCount(obj[h], v, "none", l, s, r, c)
    BY <1>2, CountKept
  <2>3. EventCount(o, v, "none", l, s, r, c) \in Nat
    BY <1>1, CountMore
  <2>4. QED
    BY <2>1, <2>2, <2>3
<1>6. o.rc + 1 = EventCount(o, v, cb, l, s, r, c)
  BY <1>1, <1>2, <1>5 DEF EventHeld
<1>7. CallPHP(h, cb, o)
  BY DEF o
<1>8. QED
  BY <1>1, <1>2, <1>3, <1>4, <1>6, <1>7, CallEvent DEF v, l

(* Datagrams, wake-ups and changes of a directory.                         *)
LEMMA DeliverEvent ==
  ASSUME EventInv, NEW h \in Handles,
         \/ php_uv_udp_recv_cb(h) /\ UNCHANGED deviceVars
         \/ (php_uv_async_cb(h) \/ php_uv_fs_event_cb(h)) /\ UNCHANGED udpVars
  PROVE  EventInv'
<1>1. \A cb \in {"recv", "async", "fs_event"} : cb \in Callbacks \ {"none", "send", "close"}
  BY DEF Callbacks, Classes
<1>2. CASE php_uv_udp_recv_cb(h) /\ UNCHANGED deviceVars
  <2>1. obj[h].life = "live" /\ Receives(h) > 0
    BY <1>2 DEF php_uv_udp_recv_cb, Receives
  <2>2. obj[h].active
    BY <2>1, EventFacts DEF EventHeld, EventUse
  <2>3. QED
    BY <1>1, <1>2, <2>1, <2>2, EventTypes, WatchedCallEvent DEF php_uv_udp_recv_cb, deviceVars
<1>3. CASE php_uv_async_cb(h) /\ UNCHANGED udpVars
  <2>1. sent' \in [Handles -> BOOLEAN] /\ child' = child
    BY <1>3, EventTypes DEF php_uv_async_cb
  <2>2. QED
    BY <1>1, <1>3, <2>1, WatchedCallEvent DEF php_uv_async_cb, DeviceCallback
<1>4. CASE php_uv_fs_event_cb(h) /\ UNCHANGED udpVars
  BY <1>1, <1>4, EventTypes, WatchedCallEvent DEF php_uv_fs_event_cb, DeviceCallback, deviceVars
<1>5. QED
  BY <1>2, <1>3, <1>4

(* The exit of a process is reported: its reference goes to the callback.  *)
LEMMA ExitEvent ==
  ASSUME EventInv, NEW h \in Handles, php_uv_process_close_cb(h), UNCHANGED udpVars
  PROVE  EventInv'
<1> DEFINE o == [obj[h] EXCEPT !.active = FALSE]
           v == vars[h]  l == lost[h]
<1>1. /\ obj[h] \in Object /\ v \in Nat /\ l \in Nat /\ obj[h].life = "live" /\ obj[h].phase = "open"
      /\ child[h] = "exited" /\ sends[h] \in Nat /\ Receives(h) \in Nat
      /\ EventHeld(obj[h], v, "none", l, sends[h], Receives(h), "exited")
  BY EventFacts, EventOpen, EventFrame DEF php_uv_process_close_cb, CallPHP, Callbacks, Classes
<1>2. obj[h].ce \in DeviceClasses /\ sends[h] = 0 /\ Receives(h) = 0
  BY <1>1 DEF EventHeld, EventUse
<1>3. /\ o \in Object /\ o.rc = obj[h].rc /\ o.ce = obj[h].ce /\ o.life = "live" /\ o.phase = "open"
      /\ o.dtored = obj[h].dtored /\ ~o.active
  BY <1>1 DEF Object
<1>4. /\ CallPHP(h, "process", o) /\ vars' = vars /\ reqs' = reqs /\ lost' = lost
      /\ "process" \in Callbacks \ {"none"}
  BY DEF php_uv_process_close_cb, Callbacks, Classes
<1>5. /\ OwnElsewhere(h) /\ sends'[h] = 0 /\ Receives(h)' = 0 /\ child'[h] = "reported"
  <2>1. child' = [child EXCEPT ![h] = "reported"] /\ sent' = sent
    BY DEF php_uv_process_close_cb
  <2>2. QED
    BY <1>2, <2>1, EventTypes, EventQuiet DEF OwnElsewhere, udpVars
<1> HIDE DEF o, v, l
<1>6. EventUse(o, v, "process", 0, 0, "reported")
  BY <1>1, <1>2, <1>3 DEF EventHeld, EventUse, LiveShape
<1>7. o.rc + 1 = EventCount(o, v, "process", l, 0, 0, "reported")
  <2>1. obj[h].rc = v + 0 + 0 + l + (0 + 0 + 0 + 1)
    BY <1>1, <1>2 DEF EventHeld, EventCount, CallShare, CloseRef, SendShare, ChildShare
  <2>2. EventCount(o, v, "process", l, 0, 0, "reported") = v + 2 + 0 + l + (0 + 0 + 0 + 0)
    BY <1>3 DEF EventCount, CallShare, CloseRef, SendShare, ChildShare
  <2>3. QED
    BY <1>1, <1>3, <2>1, <2>2
<1>8. QED
  BY <1>3, <1>4, <1>5, <1>6, <1>7, CallEvent DEF v, l

(* A child ends; a wake-up is asked for.                                   *)
LEMMA SignalledEvent ==
  ASSUME EventInv, NEW h \in Handles, ChildExits(h) \/ uv_async_send(h), UNCHANGED udpVars
  PROVE  EventInv'
<1>1. /\ vars' = vars /\ reqs' = reqs /\ frame' = frame /\ lost' = lost /\ obj' = obj
      /\ sends' = sends /\ receiving' = receiving
  BY DEF ChildExits, uv_async_send, handleVars, udpVars
<1> DEFINE o == obj[h]  v == vars[h]  f == RunningOn(h)  l == lost[h]  s == sends[h]  r == Receives(h)
           c == child[h]  d == child'[h]
<1>2. /\ OwnElsewhere(h) /\ (d = c \/ (c = "running" /\ d = "exited"))
  BY <1>1, EventTypes DEF ChildExits, uv_async_send, OwnElsewhere
<1>3. o \in Object /\ EventShape(o, v, f, l, s, r, c)
  BY EventFacts
<1>4. /\ Elsewhere(h) /\ FrameElsewhere(h) /\ reqs' = reqs
      /\ frame' = NoFrame \/ (frame'.handle \in Handles /\ frame'.cb # "none")
      /\ obj' = [obj EXCEPT ![h] = o]
      /\ vars'[h] = v /\ RunningOn(h)' = f /\ sends'[h] = s /\ lost'[h] = l /\ Receives(h)' = r
      /\ child'[h] = d
  BY <1>1, EventTypes, EventQuiet DEF HandleTypeOK, udpVars
<1> HIDE DEF o, v, f, l, s, r, c, d
<1>5. EventShape(o, v, f, l, s, r, d)
  <2>1. EventCount(o, v, f, l, s, r, d) = EventCount(o, v, f, l, s, r, c)
    BY <1>2 DEF EventCount, ChildShare
  <2>2. EventUse(o, v, f, s, r, c) => EventUse(o, v, f, s, r, d)
    BY <1>2 DEF EventUse
  <2>3. QED
    BY <1>2, <1>3, <2>1, <2>2 DEF EventShape, EventHeld
<1>6. QED
  BY <1>2, <1>3, <1>4, <1>5, EventBecomes

(* The last reference of an open handle that libuv counts as active: the   *)
(* close adds none, and the object is freed before libuv has closed it.    *)
LEMMA ReleaseAbandons ==
  ASSUME NEW o \in Object, o.rc = 1, ~o.dtored, o.phase = "open", php_uv_is_handle_referenced(o)
  PROVE  /\ OBJ_RELEASE(o) \in Object
         /\ OBJ_RELEASE(o).rc = 0 /\ OBJ_RELEASE(o).life = "freed"
         /\ OBJ_RELEASE(o).ce = o.ce /\ OBJ_RELEASE(o).phase = "closing"
         /\ OBJ_RELEASE(o).dtored /\ ~OBJ_RELEASE(o).active
<1> DEFINE d == [o EXCEPT !.rc = 1, !.dtored = TRUE]
           k == php_uv_close(d)
<1>1. OBJ_RELEASE(o) = IF k.rc > 1 THEN [k EXCEPT !.rc = @ - 1] ELSE zend_free(k)
  BY DEF OBJ_RELEASE, destruct_uv
<1>2. d \in Object /\ d.phase = "open" /\ d.rc = 1 /\ d.ce = o.ce /\ php_uv_is_handle_referenced(d)
  BY DEF Object, php_uv_is_handle_referenced
<1> HIDE DEF d
<1>3. k \in Object /\ k.rc = 1 /\ k.ce = o.ce /\ k.dtored /\ k.phase = "closing" /\ ~k.active
  BY <1>2, CloseFields
<1> HIDE DEF k
<1>4. OBJ_RELEASE(o) = zend_free(k)
  BY <1>1, <1>3
<1>5. ASSUME NEW x \in Object
      PROVE  /\ zend_free(x) \in Object /\ zend_free(x).rc = 0 /\ zend_free(x).life = "freed"
             /\ zend_free(x).ce = x.ce /\ zend_free(x).phase = x.phase
             /\ zend_free(x).dtored = x.dtored /\ zend_free(x).active = x.active
  BY DEF zend_free, Object, Lives
<1>6. QED
  BY <1>3, <1>4, <1>5

(* DropSend, once the send in flight is no longer counted.                 *)
LEMMA DropSendShape ==
  ASSUME NEW o \in Object, NEW v \in Nat, NEW l \in Nat, NEW s \in Nat, NEW r \in Nat, NEW c,
         NEW busy \in BOOLEAN, busy <=> s > 0 \/ r > 0,
         EventUse(o, v, "send", s, r, c),
         o.rc = EventCount(o, v, "none", l, s, r, c) + (IF o.phase = "open" THEN 1 ELSE 0)
  PROVE  DropSend(o, busy) \in Object /\ EventShape(DropSend(o, busy), v, "none", l, s, r, c)
<1> DEFINE n == EventCount(o, v, "none", l, s, r, c)
           d == IF o.phase = "open" THEN OBJ_RELEASE(o) ELSE o
           q == [d EXCEPT !.active = @ /\ busy]
<1>1. n \in Nat /\ LiveShape(o) /\ o.ce = "udp" /\ o.phase # "closed"
  BY CountMore DEF EventUse
<1>2. DropSend(o, busy) = q
  BY DEF DropSend
<1>3. CASE n > 0
  <2>1. /\ d \in Object /\ d.rc = n /\ d.ce = "udp" /\ d.life = "live" /\ d.phase = o.phase
        /\ d.dtored = o.dtored /\ d.active = o.active
    <3>1. CASE o.phase = "open"
      <4>1. o.rc > 1 /\ o.rc = n + 1
        BY <1>1, <1>3, <3>1
      <4>2. QED
        BY <1>1, <3>1, <4>1, ReleaseFields DEF LiveShape
    <3>2. CASE o.phase # "open"
      BY <1>1, <3>2 DEF LiveShape
    <3>3. QED
      BY <3>1, <3>2
  <2> HIDE DEF d
  <2>2. /\ q \in Object /\ q.rc = n /\ q.ce = "udp" /\ q.life = "live" /\ q.phase = o.phase
        /\ q.dtored = o.dtored /\ (q.active <=> o.active /\ busy)
    BY <2>1 DEF Object
  <2> HIDE DEF q
  <2>3. EventUse(q, v, "none", s, r, c)
    BY <1>1, <2>2 DEF EventUse, LiveShape, DeviceClasses
  <2>4. EventCount(q, v, "none", l, s, r, c) = n
    BY <2>2, CountKept
  <2>5. EventShape(q, v, "none", l, s, r, c)
    BY <1>3, <2>2, <2>3, <2>4 DEF EventShape, EventHeld
  <2>6. QED
    BY <1>2, <2>2, <2>5
<1>4. CASE n = 0
  <2>1. /\ v = 0 /\ l = 0 /\ o.phase = "open" /\ s = 0 /\ r = 0 /\ ~o.dtored /\ o.rc = 1
        /\ o.life = "live" /\ ~busy /\ c = "none"
    <3>1. v = 0 /\ l = 0 /\ o.phase # "closing" /\ (o.phase = "open" => s = 0 /\ r = 0)
      BY <1>4, CountZero
    <3>2. o.phase = "open" /\ ~o.dtored /\ o.life = "live" /\ c = "none"
      BY <1>1, <3>1 DEF EventUse, LiveShape, Object, Phases, DeviceClasses
    <3>3. QED
      BY <1>4, <3>1, <3>2
  <2>2. d \in Object /\ d.ce = "udp" /\ d.phase = "closing" /\ d.dtored /\ ~d.active
        /\ IF o.active THEN AbandonsSenders /\ d.life = "freed" /\ d.rc = 0
           ELSE d.life = "live" /\ d.rc = 1
    <3>1. CASE o.active
      <4>1. AbandonsSenders
        BY <2>1 DEF EventUse, DeviceClasses
      <4>2. php_uv_is_handle_referenced(o)
        BY <1>1, <3>1 DEF php_uv_is_handle_referenced, ReferencedClasses
      <4>3. QED
        BY <1>1, <2>1, <3>1, <4>1, <4>2, ReleaseAbandons
    <3>2. CASE ~o.active
      <4>1. ~php_uv_is_handle_referenced(o)
        BY <3>2 DEF php_uv_is_handle_referenced
      <4>2. QED
        BY <1>1, <2>1, <3>2, <4>1, ReleaseDestructs
    <3>3. QED
      BY <3>1, <3>2
  <2> HIDE DEF d
  <2>3. /\ q \in Object /\ q.ce = "udp" /\ q.phase = "closing" /\ q.dtored /\ ~q.active
        /\ q.life = d.life /\ q.rc = d.rc
    BY <2>2 DEF Object
  <2> HIDE DEF q
  <2>4. CASE o.active
    BY <1>2, <2>1, <2>2, <2>3, <2>4 DEF EventShape, EventFreed
  <2>5. CASE ~o.active
    <3>1. EventUse(q, v, "none", s, r, c)
      BY <2>1, <2>2, <2>3, <2>5 DEF EventUse, LiveShape, DeviceClasses
    <3>2. EventCount(q, v, "none", l, s, r, c) = 1
      BY <2>1, <2>3 DEF EventCount, CallShare, CloseRef
    <3>3. QED
      BY <1>2, <2>2, <2>3, <2>5, <3>1, <3>2 DEF EventShape, EventHeld
  <2>6. QED
    BY <2>4, <2>5
<1>5. QED
  BY <1>1, <1>3, <1>4

(* A send is answered, whether its callback is called or not.              *)
LEMMA SentEvent ==
  ASSUME EventInv, NEW h \in Handles, php_uv_udp_send_cb(h), UNCHANGED deviceVars
  PROVE  EventInv'
<1> DEFINE o == obj[h]
           v == vars[h]  l == lost[h]  s == sends[h] - 1  r == Receives(h)  c == child[h]
<1>1. /\ o \in Object /\ v \in Nat /\ l \in Nat /\ s \in Nat /\ r \in Nat /\ s + 1 = sends[h]
      /\ RunningOn(h) = "none" /\ EventHeld(o, v, "none", l, s + 1, r, c)
  <2>1. frame = NoFrame /\ "send" \in Callbacks
    BY DEF php_uv_udp_send_cb, CallPHP, Callbacks
  <2>2. RunningOn(h) = "none"
    BY <2>1, HandleAssumption DEF RunningOn, NoFrame
  <2>3. QED
    BY <2>2, EventFacts DEF php_uv_udp_send_cb
<1>2. /\ vars' = vars /\ reqs' = reqs /\ lost' = lost /\ receiving' = receiving
      /\ sends' = [sends EXCEPT ![h] = @ - 1] /\ sends[h] > 0
  BY DEF php_uv_udp_send_cb
<1>3. /\ OwnElsewhere(h) /\ sends'[h] = s /\ Receives(h)' = r /\ child'[h] = c
  <2>1. OwnElsewhere(h) /\ sends'[h] = s
    BY <1>1, <1>2, EventTypes, HandleAssumption DEF OwnElsewhere, deviceVars
  <2>2. QED
    BY <1>2, <2>1 DEF Receives, deviceVars
<1>4. EventUse(o, v, "send", s, r, c)
  <2> HIDE DEF o, v, l, s, r, c
  <2>1. QED
    BY <1>1 DEF EventHeld, EventUse
<1>5. o.rc = EventCount(o, v, "none", l, s, r, c) + (IF o.phase = "open" THEN 1 ELSE 0)
      /\ EventCount(o, v, "none", l, s, r, c) \in Nat
  <2> HIDE DEF o, v, l, s, r, c
  <2>1. QED
    BY <1>1, CountMore DEF EventHeld
<1>6. CASE CallPHP(h, "send", obj[h])
  <2>1. o.rc + 1 = EventCount(o, v, "send", l, s, r, c)
    <3> HIDE DEF o, v, l, s, r, c
    <3>1. EventCount(o, v, "send", l, s, r, c) =
            EventCount(o, v, "none", l, s, r, c) + (IF o.phase = "open" THEN 2 ELSE 1)
      BY <1>1, CountOther
    <3>2. QED
      BY <1>5, <3>1
  <2>2. "send" \in Callbacks \ {"none"}
    BY DEF Callbacks
  <2> HIDE DEF s, r, c
  <2>3. QED
    BY <1>1, <1>2, <1>3, <1>4, <1>6, <2>1, <2>2, CallEvent
<1>7. CASE frame = NoFrame /\ obj' = [obj EXCEPT ![h] = DropSend(@, Busy(h, sends[h] - 1))]
           /\ UNCHANGED frame
  <2> DEFINE busy == Busy(h, s)
             q == DropSend(o, busy)
  <2>1. busy \in BOOLEAN /\ (busy <=> s > 0 \/ r > 0)
    BY EventTypes, EventFacts DEF Busy
  <2>2. obj' = [obj EXCEPT ![h] = q]
    BY <1>7
  <2>3. /\ Elsewhere(h) /\ FrameElsewhere(h) /\ reqs' = reqs
        /\ frame' = NoFrame \/ (frame'.handle \in Handles /\ frame'.cb # "none")
        /\ vars'[h] = v /\ RunningOn(h)' = "none" /\ lost'[h] = l
    BY <1>1, <1>2, <1>7, EventQuiet
  <2> HIDE DEF o, v, l, s, r, c, busy
  <2>4. q \in Object /\ EventShape(q, v, "none", l, s, r, c)
    BY <1>1, <1>4, <1>5, <2>1, DropSendShape
  <2> HIDE DEF q
  <2>5. QED
    BY <1>3, <2>2, <2>3, <2>4, EventBecomes
<1>8. QED
  BY <1>6, <1>7 DEF php_uv_udp_send_cb

(* The callback of a send returns.                                         *)
LEMMA SentReturnEvent ==
  ASSUME EventInv, NEW h \in Handles, php_uv_udp_send_cb_return(h), UNCHANGED deviceVars
  PROVE  EventInv'
<1> DEFINE v == vars[h]  l == lost[h]  s == sends[h]  r == Receives(h)  c == child[h]
           o == OBJ_RELEASE(obj[h])
           busy == Busy(h, sends[h])
           q == DropSend(o, busy)
<1>1. /\ obj[h] \in Object /\ v \in Nat /\ l \in Nat /\ s \in Nat /\ r \in Nat
      /\ RunningOn(h) = "send" /\ EventHeld(obj[h], v, "send", l, s, r, c)
  BY EventFacts DEF php_uv_udp_send_cb_return, EventShape, EventFreed
<1>2. obj' = [obj EXCEPT ![h] = q]
  BY DEF php_uv_udp_send_cb_return
<1>3. /\ Elsewhere(h) /\ FrameElsewhere(h) /\ reqs' = reqs /\ frame' = NoFrame /\ OwnElsewhere(h)
      /\ vars'[h] = v /\ RunningOn(h)' = "none" /\ lost'[h] = l /\ sends'[h] = s
      /\ Receives(h)' = r /\ child'[h] = c
  <2>1. frame.handle = h /\ frame' = NoFrame /\ vars' = vars /\ reqs' = reqs /\ lost' = lost
        /\ UNCHANGED udpVars
    BY DEF php_uv_udp_send_cb_return
  <2>2. QED
    BY <2>1, EventQuiet, EventFrame DEF deviceVars
<1>4. busy \in BOOLEAN /\ (busy <=> s > 0 \/ r > 0)
  BY EventTypes, EventFacts DEF Busy
<1> HIDE DEF v, l, s, r, c, busy
<1>5. obj[h].rc = EventCount(obj[h], v, "none", l, s, r, c) + (IF obj[h].phase = "open" THEN 2 ELSE 1)
      /\ EventCount(obj[h], v, "none", l, s, r, c) \in Nat
  BY <1>1, CountOther, CountMore DEF EventHeld
<1>6. obj[h].rc > 1
  <2>1. ASSUME EventCount(obj[h], v, "none", l, s, r, c) = 0, obj[h].phase # "open" PROVE FALSE
    BY <1>1, <2>1, CountZero DEF EventHeld, EventUse, LiveShape, Object, Phases
  <2>2. QED
    BY <1>5, <2>1
<1>7. /\ o \in Object /\ o.rc = obj[h].rc - 1 /\ o.ce = obj[h].ce /\ o.life = obj[h].life
      /\ o.phase = obj[h].phase /\ o.dtored = obj[h].dtored /\ o.active = obj[h].active
  BY <1>1, <1>6, ReleaseFields
<1> HIDE DEF o
<1>8. EventUse(o, v, "send", s, r, c)
  BY <1>1, <1>7, UseKept DEF EventHeld
<1>9. EventCount(o, v, "none", l, s, r, c) = EventCount(obj[h], v, "none", l, s, r, c)
  BY <1>7, CountKept
<1>10. o.rc = EventCount(o, v, "none", l, s, r, c) + (IF o.phase = "open" THEN 1 ELSE 0)
  BY <1>5, <1>7, <1>9
<1>11. q \in Object /\ EventShape(q, v, "none", l, s, r, c)
  BY <1>1, <1>4, <1>7, <1>8, <1>10, DropSendShape
<1> HIDE DEF q
<1>12. QED
  BY <1>2, <1>3, <1>11, EventBecomes

(* Any other callback but that of a close returns.                         *)
LEMMA ReturnEvent ==
  ASSUME EventInv, NEW h \in Handles, ReturnFromCallback(h), UNCHANGED udpVars, UNCHANGED deviceVars
  PROVE  EventInv'
<1> DEFINE v == vars[h]  f == RunningOn(h)  l == lost[h]  s == sends[h]  r == Receives(h)  c == child[h]
           o == OBJ_RELEASE(obj[h])
           q == OBJ_RELEASE(o)
<1>1. /\ obj[h] \in Object /\ v \in Nat /\ l \in Nat /\ s \in Nat /\ r \in Nat
      /\ f \notin {"none", "close", "send"} /\ EventHeld(obj[h], v, f, l, s, r, c)
  BY EventFacts, EventFrame DEF ReturnFromCallback, EventShape, EventFreed
<1>2. obj' = [obj EXCEPT ![h] = q]
  BY DEF ReturnFromCallback
<1>3. /\ Elsewhere(h) /\ FrameElsewhere(h) /\ reqs' = reqs /\ frame' = NoFrame /\ OwnElsewhere(h)
      /\ vars'[h] = v /\ RunningOn(h)' = "none" /\ lost'[h] = l /\ sends'[h] = s
      /\ Receives(h)' = r /\ child'[h] = c
  BY EventQuiet, EventFrame DEF ReturnFromCallback, deviceVars
<1> HIDE DEF v, f, l, s, r, c
<1>4. obj[h].rc = EventCount(obj[h], v, "none", l, s, r, c) + 2
      /\ EventCount(obj[h], v, "none", l, s, r, c) \in Nat
  BY <1>1, CountOther, CountMore DEF EventHeld
<1>5. /\ o \in Object /\ o.rc = obj[h].rc - 1 /\ o.ce = obj[h].ce /\ o.life = obj[h].life
      /\ o.phase = obj[h].phase /\ o.dtored = obj[h].dtored /\ o.active = obj[h].active
  <2>1. obj[h].rc > 1
    BY <1>4
  <2>2. QED
    BY <1>1, <2>1, ReleaseFields
<1> HIDE DEF o
<1>6. EventUse(o, v, "none", s, r, c)
  <2>1. EventUse(obj[h], v, "none", s, r, c)
    BY <1>1 DEF EventHeld, EventUse
  <2>2. QED
    BY <1>1, <1>5, <2>1, UseKept
<1>7. o.rc = EventCount(o, v, "none", l, s, r, c) + 1
  BY <1>4, <1>5, CountKept
<1>8. q \in Object /\ EventShape(q, v, "none", l, s, r, c)
  BY <1>1, <1>5, <1>6, <1>7, ReleaseShape
<1> HIDE DEF q
<1>9. QED
  BY <1>2, <1>3, <1>8, EventBecomes

(* libuv is done with a closing handle: the reference of its close goes to *)
(* the callback, or is dropped.                                            *)
LEMMA ClosedEvent ==
  ASSUME EventInv, NEW h \in Handles, php_uv_udp_closed(h), UNCHANGED deviceVars
  PROVE  EventInv'
<1> DEFINE v == vars[h]  l == lost[h]  c == child[h]
           o == [obj[h] EXCEPT !.phase = "closed"]
<1>1. /\ obj[h] \in Object /\ obj[h].life = "live" /\ obj[h].phase = "closing" /\ v \in Nat /\ l \in Nat
      /\ sends[h] = 0 /\ Receives(h) \in Nat /\ RunningOn(h) = "none"
      /\ EventHeld(obj[h], v, "none", l, 0, Receives(h), c)
  <2>1. frame = NoFrame
    BY DEF php_uv_udp_closed, php_uv_close_cb
  <2>2. RunningOn(h) = "none"
    BY <2>1, HandleAssumption DEF RunningOn, NoFrame
  <2>3. QED
    BY <2>2, EventFacts DEF php_uv_udp_closed, php_uv_close_cb
<1>2. Receives(h) = 0
  BY <1>1 DEF EventHeld, EventUse, LiveShape
<1>3. /\ vars' = vars /\ reqs' = reqs /\ lost' = lost /\ UNCHANGED udpVars
  BY DEF php_uv_udp_closed, php_uv_close_cb
<1>4. OwnElsewhere(h) /\ Elsewhere(h) /\ sends'[h] = 0 /\ Receives(h)' = 0 /\ child'[h] = c
      /\ vars'[h] = v /\ lost'[h] = l
  BY <1>1, <1>2, <1>3, EventQuiet DEF deviceVars
<1>5. \/ o.notify /\ CallPHP(h, "close", o)
      \/ obj' = [obj EXCEPT ![h] = OBJ_RELEASE(clean_uv_handle(o))] /\ frame' = frame
  BY DEF php_uv_udp_closed, php_uv_close_cb
<1>6. /\ o \in Object /\ o.rc = obj[h].rc /\ o.ce = obj[h].ce /\ o.life = "live" /\ o.phase = "closed"
      /\ o.dtored /\ ~o.active
  BY <1>1 DEF Object, Phases, EventHeld, EventUse, LiveShape
<1>7. obj[h].rc = v + 1 + l
  BY <1>1 DEF EventHeld, EventCount, CallShare, CloseRef
<1> HIDE DEF o, c
<1>8. EventUse(o, v, "none", 0, 0, c) /\ EventUse(o, v, "close", 0, 0, c)
  BY <1>1, <1>6 DEF EventHeld, EventUse, LiveShape
<1>9. /\ EventCount(o, v, "none", l, 0, 0, c) = v + l
      /\ EventCount(o, v, "close", l, 0, 0, c) = v + 2 + l
  BY <1>1, <1>6 DEF EventCount, CallShare, CloseRef
<1>10. CASE o.notify /\ CallPHP(h, "close", o)
  <2>1. "close" \in Callbacks \ {"none"} /\ o.rc + 1 = EventCount(o, v, "close", l, 0, 0, c)
    BY <1>1, <1>6, <1>7, <1>9 DEF Callbacks
  <2>2. QED
    BY <1>3, <1>4, <1>6, <1>8, <1>10, <2>1, CallEvent
<1>11. CASE obj' = [obj EXCEPT ![h] = OBJ_RELEASE(clean_uv_handle(o))] /\ frame' = frame
  <2> DEFINE k == clean_uv_handle(o)
             q == OBJ_RELEASE(k)
  <2>1. k \in Object /\ k.rc = o.rc /\ k.ce = o.ce /\ k.life = o.life /\ k.phase = o.phase
        /\ k.dtored /\ k.active = o.active
    BY <1>6, CleanFields
  <2> HIDE DEF k, v, l
  <2>2. EventUse(k, v, "none", 0, 0, c)
    BY <1>6, <1>8, <2>1, UseKept
  <2>3. k.rc = EventCount(k, v, "none", l, 0, 0, c) + 1
    BY <1>1, <1>6, <1>7, <1>9, <2>1, CountKept
  <2>4. q \in Object /\ EventShape(q, v, "none", l, 0, 0, c)
    BY <1>1, <2>1, <2>2, <2>3, ReleaseShape
  <2>5. obj' = [obj EXCEPT ![h] = q]
    BY <1>11 DEF k
  <2>6. /\ FrameElsewhere(h) /\ RunningOn(h)' = "none"
        /\ frame' = NoFrame \/ (frame'.handle \in Handles /\ frame'.cb # "none")
    BY <1>1, <1>11, EventQuiet
  <2> HIDE DEF q
  <2>7. QED
    BY <1>3, <1>4, <2>4, <2>5, <2>6, EventBecomes
<1>12. QED
  BY <1>5, <1>10, <1>11

(* The callback of a close returns.                                        *)
LEMMA ClosedReturnEvent ==
  ASSUME EventInv, NEW h \in Handles, php_uv_udp_closed_return(h), UNCHANGED deviceVars
  PROVE  EventInv'
<1> DEFINE v == vars[h]  l == lost[h]  s == sends[h]  r == Receives(h)  c == child[h]
           o == OBJ_RELEASE(obj[h])
           k == clean_uv_handle(o)
           q == OBJ_RELEASE(k)
<1>1. /\ obj[h] \in Object /\ v \in Nat /\ l \in Nat /\ s \in Nat /\ r \in Nat
      /\ EventHeld(obj[h], v, "close", l, s, r, c)
  <2>1. frame.handle = h /\ RunningOn(h) = "close"
    BY DEF php_uv_udp_closed_return, php_uv_close_cb_return, RunningOn
  <2>2. QED
    BY <2>1, EventFacts DEF EventShape, EventFreed
<1>2. obj' = [obj EXCEPT ![h] = q]
  BY DEF php_uv_udp_closed_return, php_uv_close_cb_return
<1>3. /\ Elsewhere(h) /\ FrameElsewhere(h) /\ reqs' = reqs /\ frame' = NoFrame /\ OwnElsewhere(h)
      /\ vars'[h] = v /\ RunningOn(h)' = "none" /\ lost'[h] = l /\ sends'[h] = s
      /\ Receives(h)' = r /\ child'[h] = c
  <2>1. frame.handle = h /\ frame' = NoFrame /\ vars' = vars /\ reqs' = reqs /\ lost' = lost
        /\ UNCHANGED udpVars
    BY DEF php_uv_udp_closed_return, php_uv_close_cb_return
  <2>2. QED
    BY <2>1, EventQuiet, EventFrame DEF deviceVars
<1> HIDE DEF v, l, s, r, c
<1>4. obj[h].phase = "closed" /\ obj[h].dtored
  BY <1>1 DEF EventHeld, EventUse, LiveShape
<1>5. obj[h].rc = EventCount(obj[h], v, "none", l, s, r, c) + 2
      /\ EventCount(obj[h], v, "none", l, s, r, c) \in Nat
  BY <1>1, CountOther, CountMore DEF EventHeld
<1>6. /\ o \in Object /\ o.rc = obj[h].rc - 1 /\ o.ce = obj[h].ce /\ o.life = obj[h].life
      /\ o.phase = obj[h].phase /\ o.dtored = obj[h].dtored /\ o.active = obj[h].active
  <2>1. obj[h].rc > 1
    BY <1>5
  <2>2. QED
    BY <1>1, <2>1, ReleaseFields
<1> HIDE DEF o
<1>7. k \in Object /\ k.rc = o.rc /\ k.ce = o.ce /\ k.life = o.life /\ k.phase = o.phase
      /\ k.dtored /\ k.active = o.active
  BY <1>6, CleanFields
<1> HIDE DEF k
<1>8. EventUse(k, v, "none", s, r, c)
  <2>1. EventUse(obj[h], v, "none", s, r, c)
    BY <1>1 DEF EventHeld, EventUse
  <2>2. QED
    BY <1>1, <1>4, <1>6, <1>7, <2>1, UseKept
<1>9. k.rc = EventCount(k, v, "none", l, s, r, c) + 1
  BY <1>5, <1>6, <1>7, CountKept
<1>10. q \in Object /\ EventShape(q, v, "none", l, s, r, c)
  BY <1>1, <1>7, <1>8, <1>9, ReleaseShape
<1> HIDE DEF q
<1>11. QED
  BY <1>2, <1>3, <1>10, EventBecomes

-----------------------------------------------------------------------------
(* The invariant.                                                          *)

LEMMA InitEventInv == EventInit => EventInv
<1> SUFFICES ASSUME EventInit PROVE EventInv
  OBVIOUS
<1>1. /\ obj = [h \in Handles |-> Absent] /\ vars = [h \in Handles |-> 0]
      /\ reqs = [h \in Handles |-> NoReqs] /\ frame = NoFrame
      /\ lost = [h \in Handles |-> 0] /\ sends = [h \in Handles |-> 0]
      /\ receiving = [h \in Handles |-> FALSE] /\ sent = [h \in Handles |-> FALSE]
      /\ child = [h \in Handles |-> "none"]
  BY DEF EventInit, UdpInit, DeviceInit, HandleInit
<1>2. HandleInit
  BY DEF EventInit, UdpInit
<1>3. HandleTypeOK
  BY <1>2, InitInv DEF HandleInv
<1>4. UdpTypeOK /\ DeviceTypeOK
  BY <1>1, <1>3, HandleAssumption DEF UdpTypeOK, DeviceTypeOK
<1>5. ASSUME NEW h \in Handles
      PROVE  /\ reqs[h] = NoReqs
             /\ EventShape(obj[h], vars[h], RunningOn(h), lost[h], sends[h], Receives(h), child[h])
  <2>1. RunningOn(h) = "none" /\ Receives(h) = 0
    BY <1>1, HandleAssumption DEF RunningOn, NoFrame, Receives
  <2>2. QED
    BY <1>1, <2>1 DEF EventShape
<1>6. QED
  BY <1>1, <1>4, <1>5 DEF EventInv

LEMMA EventStutter ==
  ASSUME EventInv, UNCHANGED eventVars
  PROVE  EventInv'
<1>1. /\ obj' = obj /\ vars' = vars /\ reqs' = reqs /\ frame' = frame /\ lost' = lost
      /\ sends' = sends /\ receiving' = receiving /\ sent' = sent /\ child' = child
  BY DEF eventVars, handleVars, udpVars, deviceVars
<1>2. (UdpTypeOK /\ DeviceTypeOK)'
  BY <1>1 DEF EventInv, UdpTypeOK, DeviceTypeOK, HandleTypeOK
<1>3. ASSUME NEW h \in Handles
      PROVE  /\ reqs'[h] = NoReqs
             /\ EventShape(obj[h], vars[h], RunningOn(h), lost[h], sends[h], Receives(h), child[h])'
  <2>1. RunningOn(h)' = RunningOn(h) /\ Receives(h)' = Receives(h)
    BY <1>1 DEF RunningOn, Receives
  <2>2. QED
    BY <1>1, <2>1 DEF EventInv
<1>4. QED
  BY <1>1, <1>2, <1>3 DEF EventInv

LEMMA EventNextInv ==
  ASSUME ~StopsSenders, EventInv, [EventNext]_eventVars
  PROVE  EventInv'
<1>1. CASE UNCHANGED eventVars
  BY <1>1, EventStutter
<1>2. ASSUME NEW h \in Handles, UdpNext(h), UNCHANGED deviceVars
      PROVE  EventInv'
  <2>1. CASE uv_udp_init(h)
    BY <1>2, <2>1, InitEvent
  <2>2. CASE uv_udp_recv_start(h)
    BY <1>2, <2>2, ReceiveEvent
  <2>3. CASE uv_udp_recv_stop(h)
    BY <1>2, <2>3, ReceiveStopEvent
  <2>4. CASE php_uv_udp_recv_cb(h)
    BY <1>2, <2>4, DeliverEvent
  <2>5. CASE php_uv_udp_send(h)
    BY <1>2, <2>5, SendEvent
  <2>6. CASE php_uv_udp_send_cb(h)
    BY <1>2, <2>6, SentEvent
  <2>7. CASE uv_udp_close(h)
    BY <1>2, <2>7, UdpCloseEvent
  <2>8. CASE UnsetSocket(h)
    BY <1>2, <2>8, UnsetEvent
  <2>9. CASE CopyVariable(h) /\ UNCHANGED udpVars
    BY <1>2, <2>9, CopyEvent
  <2>10. CASE php_uv_udp_closed(h)
    BY <1>2, <2>10, ClosedEvent
  <2>11. CASE php_uv_udp_send_cb_return(h)
    BY <1>2, <2>11, SentReturnEvent
  <2>12. CASE php_uv_udp_closed_return(h)
    BY <1>2, <2>12, ClosedReturnEvent
  <2>13. CASE ReturnFromCallback(h) /\ UNCHANGED udpVars
    BY <1>2, <2>13, ReturnEvent
  <2>14. QED
    BY <1>2, <2>1, <2>2, <2>3, <2>4, <2>5, <2>6, <2>7, <2>8, <2>9, <2>10, <2>11, <2>12, <2>13
    DEF UdpNext, CallbackReturns
<1>3. ASSUME NEW h \in Handles, DeviceNext(h), UNCHANGED udpVars
      PROVE  EventInv'
  <2>1. CASE uv_async_init(h) \/ uv_fs_event_init(h) \/ uv_spawn(h)
    BY <1>3, <2>1, InitEvent
  <2>2. CASE php_uv_async_cb(h) \/ php_uv_fs_event_cb(h)
    BY <1>3, <2>2, DeliverEvent
  <2>3. CASE uv_async_send(h) \/ ChildExits(h)
    BY <1>3, <2>3, SignalledEvent
  <2>4. CASE php_uv_process_close_cb(h)
    BY <1>3, <2>4, ExitEvent
  <2>5. CASE uv_device_close(h)
    BY <1>3, <2>5, DeviceCloseEvent
  <2>6. QED
    BY <1>3, <2>1, <2>2, <2>3, <2>4, <2>5 DEF DeviceNext
<1>4. QED
  BY <1>1, <1>2, <1>3 DEF EventNext

(* Every object is held by exactly those its count stands for, in every    *)
(* state of a program whose sockets, wake-ups, watches and processes run   *)
(* through each other's callbacks: php_uv_udp_send, uv_spawn, uv_close and *)
(* the epilogues of the callbacks balance.                                 *)
THEOREM EventInvariant ==
  ASSUME ~StopsSenders
  PROVE  EventSafety => []EventInv
<1>1. EventInit => EventInv
  BY InitEventInv
<1>2. EventInv /\ [EventNext]_eventVars => EventInv'
  BY EventNextInv
<1>3. QED
  BY <1>1, <1>2, PTL DEF EventSafety

-----------------------------------------------------------------------------
(* What follows from it.                                                   *)

LEMMA EventRefs == EventInv => UdpRefCountExact /\ DeviceRefCountExact
<1> SUFFICES ASSUME EventInv PROVE UdpRefCountExact /\ DeviceRefCountExact
  OBVIOUS
<1>1. ASSUME NEW h \in Handles, obj[h].life = "live"
      PROVE  /\ EventHeld(obj[h], vars[h], RunningOn(h), lost[h], sends[h], Receives(h), child[h])
             /\ vars[h] \in Nat /\ lost[h] \in Nat /\ sends[h] \in Nat /\ Receives(h) \in {0, 1}
             /\ Receives(h) = (IF receiving[h] THEN 1 ELSE 0)
             /\ RunningOn(h) # "none" <=> frame.handle = h
             /\ frame = [handle |-> h, cb |-> "send"] <=> RunningOn(h) = "send"
  BY <1>1, EventFacts DEF Receives
<1>2. ASSUME NEW h \in Handles, obj[h].life = "live", obj[h].ce = "udp"
      PROVE  obj[h].rc = vars[h] + CallRefs(h) + Activities(h) + CloseRef(obj[h]) + lost[h]
  <2> DEFINE v == vars[h]  f == RunningOn(h)  l == lost[h]  s == sends[h]  r == Receives(h)
  <2>1. CallRefs(h) = CallShare(f)
    BY <1>1, <1>2 DEF CallRefs, CallShare, RunningOn
  <2>2. Activities(h) = IF obj[h].phase = "open" THEN s + r + SendShare(f) ELSE 0
    BY <1>1, <1>2 DEF Activities, SendShare
  <2>3. obj[h].rc = v + CallShare(f) + CloseRef(obj[h]) + l
                      + (IF obj[h].phase = "open" THEN s + r + SendShare(f) + 0 ELSE 0)
    BY <1>1, <1>2 DEF EventHeld, EventUse, EventCount, ChildShare, DeviceClasses
  <2>4. CallShare(f) \in Nat /\ SendShare(f) \in Nat /\ CloseRef(obj[h]) \in Nat
    BY DEF CallShare, SendShare, CloseRef
  <2>5. v \in Nat /\ l \in Nat /\ s \in Nat /\ r \in Nat
    BY <1>1, <1>2
  <2> HIDE DEF v, f, l, s, r
  <2>6. QED
    BY <2>1, <2>2, <2>3, <2>4, <2>5 DEF v, l
<1>3. ASSUME NEW h \in Handles, obj[h].life = "live", obj[h].ce \in DeviceClasses
      PROVE  obj[h].rc = Holders(h) + (IF Unreported(h) THEN 1 ELSE 0)
  <2> DEFINE v == vars[h]  f == RunningOn(h)  l == lost[h]
  <2>1. /\ EventUse(obj[h], v, f, sends[h], Receives(h), child[h])
        /\ obj[h].rc = EventCount(obj[h], v, f, l, sends[h], Receives(h), child[h])
    BY <1>1, <1>3 DEF EventHeld
  <2>2. sends[h] = 0 /\ Receives(h) = 0 /\ f # "send"
    BY <1>3, <2>1 DEF EventUse, DeviceClasses
  <2>3. FrameRefs(h) = CallShare(f) /\ SendShare(f) = 0
    BY <1>1, <1>3, <2>2 DEF FrameRefs, CallShare, SendShare
  <2>4. LoopRef(obj[h]) = 0 /\ Pending(h) = 0
    BY <1>3 DEF LoopRef, php_uv_is_handle_referenced, ReferencedClasses, DeviceClasses, Pending,
                EventInv, NoReqs, ReqKinds
  <2>5. (IF Unreported(h) THEN 1 ELSE 0) = (IF obj[h].phase = "open" THEN ChildShare(child[h]) ELSE 0)
    BY DEF Unreported, ChildShare
  <2>6. obj[h].rc = v + CallShare(f) + CloseRef(obj[h]) + l
                      + (IF obj[h].phase = "open" THEN 0 + 0 + 0 + ChildShare(child[h]) ELSE 0)
    BY <2>1, <2>2, <2>3 DEF EventCount
  <2>7. CallShare(f) \in Nat /\ ChildShare(child[h]) \in Nat /\ CloseRef(obj[h]) \in Nat
    BY DEF CallShare, ChildShare, CloseRef
  <2>8. v \in Nat /\ l \in Nat
    BY <1>1, <1>3
  <2> HIDE DEF v, f, l
  <2>9. Holders(h) = 0 + CloseRef(obj[h]) + 0 + v + CallShare(f) + l
    BY <2>3, <2>4 DEF Holders, v, l
  <2>10. QED
    BY <2>5, <2>6, <2>7, <2>8, <2>9
<1>4. QED
  BY <1>2, <1>3 DEF UdpRefCountExact, DeviceRefCountExact

(* The counts of sockets and of the other objects, as UVUdp and UVDevice   *)
(* state them.                                                             *)
THEOREM EventRefCountExact ==
  ASSUME ~StopsSenders
  PROVE  EventSafety => [](UdpRefCountExact /\ DeviceRefCountExact)
BY EventInvariant, EventRefs, PTL

LEMMA EventUnreachable ==
  ASSUME ~AbandonsSenders
  PROVE  EventInv => FreedIsUnreachable
<1> SUFFICES ASSUME EventInv, NEW h \in Handles, obj[h].life = "freed"
             PROVE  /\ vars[h] = 0 /\ Pending(h) = 0 /\ frame.handle # h
                    /\ obj[h].phase = "closed" /\ ~obj[h].active
  BY DEF FreedIsUnreachable
<1>1. Pending(h) = 0
  BY DEF Pending, EventInv, NoReqs, ReqKinds
<1>2. vars[h] = 0 /\ RunningOn(h) = "none" /\ obj[h].phase = "closed" /\ ~obj[h].active
  BY EventFacts DEF EventShape, EventFreed, EventHeld, EventUse, LiveShape, Absent
<1>3. QED
  BY <1>1, <1>2, EventFacts

(* No variable, callback or request reaches a freed object, and libuv is   *)
(* done with the handle in it.                                             *)
THEOREM EventFreedIsUnreachable ==
  ASSUME ~AbandonsSenders, ~StopsSenders
  PROVE  EventSafety => []FreedIsUnreachable
BY EventInvariant, EventUnreachable, PTL

LEMMA EventSends == EventInv => SendsKeepSocket
<1> SUFFICES ASSUME EventInv, NEW h \in Handles, sends[h] > 0
             PROVE  obj[h].life = "live" /\ obj[h].phase \in {"open", "closing"}
  BY DEF SendsKeepSocket
<1>1. obj[h].phase \in Phases
  BY EventFacts DEF Object
<1>2. EventHeld(obj[h], vars[h], RunningOn(h), lost[h], sends[h], Receives(h), child[h])
  BY EventFacts DEF EventShape, EventFreed
<1>3. QED
  BY <1>1, <1>2 DEF EventHeld, EventUse, LiveShape, Phases

(* A datagram in flight keeps its socket in memory, though the script lets *)
(* go of the last variable, stops receiving or closes the socket, and is   *)
(* reported before the close of the socket is.                             *)
THEOREM EventSendsKeepSocket ==
  ASSUME ~StopsSenders
  PROVE  EventSafety => []SendsKeepSocket
BY EventInvariant, EventSends, PTL

-----------------------------------------------------------------------------
(* A process is kept.                                                      *)

(* An object with a process to report has a reference for it.              *)
LEMMA ProcessFacts ==
  ASSUME EventInv, NEW h \in Handles, Unreported(h)
  PROVE  /\ obj[h] \in Object /\ obj[h].life = "live" /\ obj[h].phase = "open"
         /\ obj[h].ce # "udp" /\ sends[h] = 0 /\ ~receiving[h]
         /\ RunningOn(h) \notin {"send", "close"}
         /\ vars[h] > 0 => obj[h].rc > 1
         /\ RunningOn(h) # "none" => obj[h].rc > 2
<1> DEFINE v == vars[h]  f == RunningOn(h)  l == lost[h]  k == CallShare(f)  a == SendShare(f)
<1>1. /\ EventHeld(obj[h], v, f, l, sends[h], Receives(h), child[h])
      /\ v \in Nat /\ l \in Nat /\ obj[h] \in Object /\ obj[h].life = "live" /\ obj[h].phase = "open"
  BY EventFacts DEF Unreported, EventShape, EventFreed, EventHeld, EventUse, LiveShape, Absent
<1>2. child[h] \in {"running", "exited"} /\ obj[h].ce # "udp"
  BY <1>1 DEF EventHeld, EventUse, Unreported, DeviceClasses
<1>3. sends[h] = 0 /\ Receives(h) = 0 /\ f # "send" /\ (f = "close" => f = "none")
  BY <1>1, <1>2, EventOpen DEF EventHeld, EventUse
<1>4. obj[h].rc = v + k + 0 + l + (0 + 0 + a + 1)
  BY <1>1, <1>2, <1>3 DEF EventHeld, EventCount, CloseRef, ChildShare
<1>5. k \in Nat /\ a \in Nat /\ (f # "none" => k = 2)
  BY <1>3 DEF CallShare, SendShare
<1>6. ~receiving[h]
  BY <1>3, EventFacts
<1> HIDE DEF v, l, k, a
<1>7. (v > 0 => obj[h].rc > 1) /\ (k = 2 => obj[h].rc > 2)
  BY <1>1, <1>4, <1>5
<1>8. QED
  BY <1>1, <1>2, <1>3, <1>5, <1>6, <1>7 DEF v

EventStep(h) ==
  \/ UdpNext(h) /\ UNCHANGED deviceVars
  \/ DeviceNext(h) /\ UNCHANGED udpVars

(* Nothing of k changes.                                                   *)
Untouched(k) ==
  /\ obj'[k] = obj[k] /\ vars'[k] = vars[k] /\ lost'[k] = lost[k]
  /\ sends'[k] = sends[k] /\ receiving'[k] = receiving[k] /\ child'[k] = child[k]
  /\ frame'.handle = k <=> frame.handle = k

(* A step is about one object.                                             *)
LEMMA EventApart ==
  ASSUME EventInv, NEW h \in Handles, EventStep(h), NEW k \in Handles \ {h}
  PROVE  Untouched(k)
<1>1. /\ obj \in [Handles -> Object]
      /\ vars \in [Handles -> 0 .. MaxVars] /\ lost \in [Handles -> 0 .. MaxLost]
      /\ sends \in [Handles -> 0 .. MaxReqs] /\ receiving \in [Handles -> BOOLEAN]
      /\ child \in [Handles -> {"none", "running", "exited", "reported"}]
  BY EventTypes DEF HandleTypeOK
<1>2. ASSUME NEW cb, NEW o, CallPHP(h, cb, o)
      PROVE  obj'[k] = obj[k] /\ (frame'.handle = k <=> frame.handle = k)
  BY <1>1, <1>2, HandleAssumption DEF CallPHP, NoFrame
<1>3. frame.handle = h /\ frame' = NoFrame => (frame'.handle = k <=> frame.handle = k)
  BY HandleAssumption DEF NoFrame
<1>4. CASE uv_udp_init(h) /\ UNCHANGED deviceVars
  BY <1>1, <1>4 DEF Untouched, uv_udp_init, CreateHandle, udpVars, deviceVars
<1>5. CASE (uv_udp_recv_start(h) \/ uv_udp_recv_stop(h) \/ php_uv_udp_send(h) \/ uv_udp_close(h))
           /\ UNCHANGED deviceVars
  BY <1>1, <1>5 DEF Untouched, uv_udp_recv_start, uv_udp_recv_stop, php_uv_udp_send, uv_udp_close, deviceVars
<1>6. CASE (UnsetSocket(h) \/ (CopyVariable(h) /\ UNCHANGED udpVars)) /\ UNCHANGED deviceVars
  BY <1>1, <1>6 DEF Untouched, UnsetSocket, UnsetVariable, CopyVariable, udpVars, deviceVars
<1>7. CASE php_uv_udp_recv_cb(h) /\ UNCHANGED deviceVars
  BY <1>1, <1>2, <1>7 DEF Untouched, php_uv_udp_recv_cb, udpVars, deviceVars
<1>8. CASE php_uv_udp_send_cb(h) /\ UNCHANGED deviceVars
  BY <1>1, <1>2, <1>8 DEF Untouched, php_uv_udp_send_cb, deviceVars
<1>9. CASE php_uv_udp_closed(h) /\ UNCHANGED deviceVars
  BY <1>1, <1>2, <1>9 DEF Untouched, php_uv_udp_closed, php_uv_close_cb, udpVars, deviceVars
<1>10. CASE CallbackReturns(h) /\ UNCHANGED deviceVars
  BY <1>1, <1>3, <1>10
  DEF Untouched, CallbackReturns, php_uv_udp_send_cb_return, php_uv_udp_closed_return,
      php_uv_close_cb_return, ReturnFromCallback, udpVars, deviceVars
<1>11. CASE (uv_async_init(h) \/ uv_fs_event_init(h) \/ uv_spawn(h)) /\ UNCHANGED udpVars
  BY <1>1, <1>11
  DEF Untouched, uv_async_init, uv_fs_event_init, uv_spawn, CreateActive, udpVars, deviceVars
<1>12. CASE (php_uv_async_cb(h) \/ php_uv_fs_event_cb(h) \/ php_uv_process_close_cb(h)) /\ UNCHANGED udpVars
  BY <1>1, <1>2, <1>12
  DEF Untouched, php_uv_async_cb, php_uv_fs_event_cb, php_uv_process_close_cb, DeviceCallback,
      udpVars, deviceVars
<1>13. CASE (uv_async_send(h) \/ ChildExits(h) \/ uv_device_close(h)) /\ UNCHANGED udpVars
  BY <1>1, <1>13
  DEF Untouched, uv_async_send, ChildExits, uv_device_close, handleVars, udpVars, deviceVars
<1>14. CASE UdpNext(h) /\ UNCHANGED deviceVars
  BY <1>4, <1>5, <1>6, <1>7, <1>8, <1>9, <1>10, <1>14 DEF UdpNext
<1>15. CASE DeviceNext(h) /\ UNCHANGED udpVars
  BY <1>11, <1>12, <1>13, <1>15 DEF DeviceNext
<1>16. QED
  BY <1>14, <1>15 DEF EventStep

(* What a step does to an object with a process to report.                 *)
LEMMA ProcessStep ==
  ASSUME EventInv, NEW h \in Handles, UdpNext(h) \/ DeviceNext(h), Unreported(h)
  PROVE  obj'[h].phase = "open" \/ uv_device_close(h)
<1>1. /\ obj[h] \in Object /\ obj[h].life = "live" /\ obj[h].phase = "open"
      /\ obj[h].ce # "udp" /\ sends[h] = 0 /\ ~receiving[h]
      /\ RunningOn(h) \notin {"send", "close"}
      /\ vars[h] > 0 => obj[h].rc > 1
      /\ RunningOn(h) # "none" => obj[h].rc > 2
  BY ProcessFacts
<1>2. obj \in [Handles -> Object]
  BY EventTypes DEF HandleTypeOK
<1>3. GC_ADDREF(obj[h]).phase = "open"
  BY <1>1, AddRefFields
<1>4. CASE CopyVariable(h)
  BY <1>2, <1>3, <1>4 DEF CopyVariable
<1>5. CASE UnsetSocket(h)
  <2>1. obj'[h] = OBJ_RELEASE(obj[h]) /\ obj[h].rc > 1
    BY <1>1, <1>2, <1>5 DEF UnsetSocket, UnsetVariable
  <2>2. QED
    BY <1>1, <2>1, ReleaseFields
<1>6. CASE ReturnFromCallback(h)
  <2>1. obj'[h] = OBJ_RELEASE(OBJ_RELEASE(obj[h])) /\ obj[h].rc > 2
    BY <1>1, <1>2, <1>6, EventFacts DEF ReturnFromCallback
  <2>2. OBJ_RELEASE(obj[h]) \in Object /\ OBJ_RELEASE(obj[h]).rc > 1
        /\ OBJ_RELEASE(obj[h]).phase = "open"
    BY <1>1, <2>1, ReleaseFields DEF Object
  <2>3. QED
    BY <2>1, <2>2, ReleaseFields
<1>7. CASE php_uv_async_cb(h) \/ php_uv_fs_event_cb(h)
  <2>1. obj'[h] = GC_ADDREF(GC_ADDREF(obj[h]))
    BY <1>2, <1>7 DEF php_uv_async_cb, php_uv_fs_event_cb, DeviceCallback, CallPHP
  <2>2. QED
    BY <1>1, <1>3, <2>1, AddRefFields
<1>8. CASE php_uv_process_close_cb(h)
  <2> DEFINE o == [obj[h] EXCEPT !.active = FALSE]
  <2>1. obj'[h] = GC_ADDREF(o)
    BY <1>2, <1>8 DEF php_uv_process_close_cb, CallPHP
  <2>2. o \in Object /\ o.phase = "open"
    BY <1>1 DEF Object
  <2> HIDE DEF o
  <2>3. QED
    BY <2>1, <2>2, AddRefFields
<1>9. CASE uv_async_send(h) \/ ChildExits(h)
  BY <1>1, <1>9 DEF uv_async_send, ChildExits, handleVars
<1>10. CASE php_uv_udp_closed_return(h) \/ php_uv_udp_send_cb_return(h)
  BY <1>1, <1>10, EventFacts
  DEF php_uv_udp_closed_return, php_uv_close_cb_return, php_uv_udp_send_cb_return, RunningOn
<1>11. ~(\/ uv_udp_init(h) \/ uv_udp_recv_start(h) \/ uv_udp_recv_stop(h) \/ php_uv_udp_recv_cb(h)
         \/ php_uv_udp_send(h) \/ php_uv_udp_send_cb(h) \/ uv_udp_close(h) \/ php_uv_udp_closed(h)
         \/ uv_async_init(h) \/ uv_fs_event_init(h) \/ uv_spawn(h))
  BY <1>1 DEF uv_udp_init, CreateHandle, uv_udp_recv_start, uv_udp_recv_stop, php_uv_udp_recv_cb,
              php_uv_udp_send, php_uv_udp_send_cb, uv_udp_close, php_uv_udp_closed, php_uv_close_cb,
              uv_async_init, uv_fs_event_init, uv_spawn, CreateActive
<1>12. QED
  BY <1>4, <1>5, <1>6, <1>7, <1>8, <1>9, <1>10, <1>11 DEF UdpNext, CallbackReturns, DeviceNext

(* A child process is not forgotten because the script lets go of its      *)
(* variable, a callback returns or another handle is closed: until its exit*)
(* is reported only uv_close of this very handle takes it from libuv.      *)
THEOREM EventProcessIsKept ==
  ASSUME ~StopsSenders
  PROVE  EventSafety => ProcessIsKept
<1> DEFINE KeepsProcess(h) == Unreported(h) /\ obj'[h].phase # "open" => Visible(h) /\ UNCHANGED <<vars, frame>>
           Step == \A h \in Handles : KeepsProcess(h)
<1>1. EventInv /\ [EventNext]_eventVars => [Step]_allDeviceVars
  <2> SUFFICES ASSUME EventInv, [EventNext]_eventVars, ~UNCHANGED allDeviceVars, NEW k \in Handles
               PROVE  KeepsProcess(k)
    OBVIOUS
  <2>1. PICK h \in Handles : EventStep(h)
    BY DEF EventNext, EventStep, eventVars, allDeviceVars
  <2>2. CASE k # h
    <3>1. obj'[k] = obj[k]
      BY <2>1, <2>2, EventApart DEF Untouched
    <3>2. QED
      BY <3>1 DEF Unreported
  <2>3. CASE k = h
    <3>1. ASSUME Unreported(k), obj'[k].phase # "open"
          PROVE  Visible(k) /\ UNCHANGED <<vars, frame>>
      <4>1. uv_device_close(k)
        BY <2>1, <2>3, <3>1, ProcessStep DEF EventStep
      <4>2. QED
        BY <4>1 DEF uv_device_close, Usable
    <3>2. QED
      BY <3>1
  <2>4. QED
    BY <2>2, <2>3
<1>2. QED
  BY <1>1, EventInvariant, PTL DEF EventSafety, ProcessIsKept

-----------------------------------------------------------------------------
(* The refinement.  A step moves one object along its life; who owns it    *)
(* follows from the invariant before and after, and only where the stage   *)
(* changes from the step.                                                  *)

EventLifeStep(h) ==
  \/ EventLifetime!Create(h) \/ EventLifetime!Spawn(h) \/ EventLifetime!Share(h)
  \/ EventLifetime!Close(h) \/ EventLifetime!Abandon(h) \/ EventLifetime!Finish(h)
  \/ EventLifetime!Free(h) \/ FreedByLastSend(h)

(* Who owns an object, one owner at a time.                                *)
LEMMA EventOwnersFacts ==
  ASSUME NEW h \in Handles
  PROVE  /\ EventOwners(h) \subseteq {"script", "call", "loop", "request", "close", "lost"}
         /\ "script" \in EventOwners(h) <=> vars[h] > 0
         /\ "call" \in EventOwners(h) <=> frame.handle = h
         /\ "loop" \in EventOwners(h) <=> receiving[h] \/ Unreported(h)
         /\ "request" \in EventOwners(h) <=> sends[h] > 0
         /\ "close" \in EventOwners(h) <=> obj[h].phase = "closing"
         /\ "lost" \in EventOwners(h) <=> lost[h] > 0
  BY DEF EventOwners

(* The same after a step.                                                  *)
LEMMA EventOwnersAfter ==
  ASSUME NEW h \in Handles
  PROVE  /\ EventOwners(h)' \subseteq {"script", "call", "loop", "request", "close", "lost"}
         /\ "script" \in EventOwners(h)' <=> vars'[h] > 0
         /\ "call" \in EventOwners(h)' <=> frame'.handle = h
         /\ "loop" \in EventOwners(h)' <=> receiving'[h] \/ Unreported(h)'
         /\ "request" \in EventOwners(h)' <=> sends'[h] > 0
         /\ "close" \in EventOwners(h)' <=> obj'[h].phase = "closing"
         /\ "lost" \in EventOwners(h)' <=> lost'[h] > 0
  BY DEF EventOwners

(* Nothing changes, nothing is seen to change.                             *)
LEMMA UntouchedLife ==
  ASSUME NEW k \in Handles, Untouched(k)
  PROVE  StageOf(k)' = StageOf(k) /\ EventOwners(k)' = EventOwners(k)
<1>1. StageOf(k)' = StageOf(k)
  BY DEF Untouched, StageOf
<1>2. Unreported(k)' <=> Unreported(k)
  BY DEF Untouched, Unreported
<1>3. \A o : o \in EventOwners(k)' <=> o \in EventOwners(k)
  BY <1>2, EventOwnersFacts, EventOwnersAfter DEF Untouched
<1>4. QED
  BY <1>1, <1>3

(* What h becomes is all that changes.                                     *)
LEMMA EventBecome ==
  ASSUME NEW h \in Handles, \A k \in Handles \ {h} : Untouched(k),
         NEW s, NEW os, StageOf(h)' = s, EventOwners(h)' = os
  PROVE  EventLifetime!Become(h, s, os)
<1>1. \A k \in Handles \ {h} : StageOf(k)' = StageOf(k) /\ EventOwners(k)' = EventOwners(k)
  BY UntouchedLife
<1>2. [k \in Handles |-> StageOf(k)'] = [[k \in Handles |-> StageOf(k)] EXCEPT ![h] = s]
  BY <1>1
<1>3. [k \in Handles |-> EventOwners(k)'] = [[k \in Handles |-> EventOwners(k)] EXCEPT ![h] = os]
  BY <1>1
<1>4. QED
  BY <1>2, <1>3 DEF EventLifetime!Become

(* A live object has an owner, and its count is that of its owners.        *)
LEMMA EventOwned ==
  ASSUME EventInv, NEW h \in Handles, obj[h].life = "live"
  PROVE  /\ EventOwners(h) # {}
         /\ "loop" \in EventOwners(h) => obj[h].phase = "open"
<1> DEFINE o == obj[h]  v == vars[h]  f == RunningOn(h)  l == lost[h]  s == sends[h]  r == Receives(h)
           c == child[h]
<1>1. /\ EventUse(o, v, f, s, r, c) /\ EventCount(o, v, f, l, s, r, c) > 0
      /\ v \in Nat /\ l \in Nat /\ s \in Nat /\ r \in {0, 1} /\ (r > 0 <=> receiving[h])
      /\ f # "none" <=> frame.handle = h
  BY EventFacts DEF EventHeld
<1>2. r > 0 => o.phase = "open"
  BY <1>1 DEF EventUse, LiveShape
<1>3. ASSUME v = 0, f = "none", l = 0, s = 0, r = 0, o.phase # "closing",
             o.phase = "open" => c \notin {"running", "exited"}
      PROVE  FALSE
  <2>1. EventCount(o, v, f, l, s, r, c) = 0
    <3> HIDE DEF o, v, f, l, s, r, c
    <3>1. QED
      BY <1>3 DEF EventCount, CallShare, CloseRef, SendShare, ChildShare
  <2>2. QED
    BY <1>1, <2>1
<1>4. Unreported(h) <=> o.phase = "open" /\ c \in {"running", "exited"}
  BY DEF Unreported
<1>5. QED
  BY <1>1, <1>2, <1>3, <1>4, EventOwnersFacts

LEMMA EventOwnedAll ==
  EventInv => \A h \in Handles :
                obj[h].life = "live" =>
                  EventOwners(h) # {} /\ ("loop" \in EventOwners(h) => obj[h].phase = "open")
  BY EventOwned

(* The same after a step.                                                  *)
LEMMA EventOwnedAfter ==
  (EventInv => \A h \in Handles :
                 obj[h].life = "live" =>
                   EventOwners(h) # {} /\ ("loop" \in EventOwners(h) => obj[h].phase = "open"))'
  BY EventOwnedAll, PTL

(* A step that leaves a live object in its stage lends it or takes it back.*)
LEMMA EventShare ==
  ASSUME EventInv, EventInv', NEW h \in Handles, \A k \in Handles \ {h} : Untouched(k),
         obj[h].life = "live", obj'[h].life = "live", obj'[h].phase = obj[h].phase
  PROVE  EventLifetime!Share(h)
<1>1. EventOwners(h) # {} /\ EventOwners(h)' # {}
  BY EventOwned, EventOwnedAfter
<1>2. StageOf(h) = obj[h].phase /\ StageOf(h)' = obj[h].phase
  BY DEF StageOf
<1>3. /\ [k \in Handles |-> StageOf(k)'] = [k \in Handles |-> StageOf(k)]
      /\ \A k \in Handles \ {h} : EventOwners(k)' = EventOwners(k)
  BY <1>2, UntouchedLife
<1>4. EventOwners(h)' \subseteq EventLifetime!Owners
  BY EventOwnersAfter DEF EventLifetime!Owners
<1>5. "loop" \in EventOwners(h)' => obj[h].phase = "open"
  BY EventOwnedAfter
<1>6. "close" \in EventOwners(h)' <=> obj[h].phase = "closing"
  BY EventOwnersAfter
<1>7. EventOwners(h)' \in (SUBSET EventLifetime!Owners) \ {{}}
  BY <1>1, <1>4
<1>8. EventLifetime!Share(h)
       <=> /\ EventOwners(h) # {}
           /\ [k \in Handles |-> StageOf(k)'] = [k \in Handles |-> StageOf(k)]
           /\ \A k \in Handles \ {h} : EventOwners(k)' = EventOwners(k)
           /\ EventOwners(h)' \in (SUBSET EventLifetime!Owners) \ {{}}
           /\ "loop" \in EventOwners(h)' => StageOf(h) = "open"
           /\ "close" \in EventOwners(h)' <=> StageOf(h) = "closing"
  BY DEF EventLifetime!Share
<1>9. QED
  BY <1>1, <1>2, <1>3, <1>5, <1>6, <1>7, <1>8

(* The count of a live object, by its parts.                               *)
LEMMA EventCounts ==
  ASSUME EventInv, NEW h \in Handles, obj[h].life = "live"
  PROVE  /\ obj[h] \in Object /\ LiveShape(obj[h])
         /\ vars[h] \in Nat /\ lost[h] \in Nat /\ sends[h] \in Nat /\ Receives(h) \in Nat
         /\ CallShare(RunningOn(h)) \in Nat /\ CloseRef(obj[h]) \in Nat
         /\ SendShare(RunningOn(h)) \in Nat /\ ChildShare(child[h]) \in Nat
         /\ obj[h].rc = vars[h] + CallShare(RunningOn(h)) + CloseRef(obj[h]) + lost[h]
              + (IF obj[h].phase = "open"
                 THEN sends[h] + Receives(h) + SendShare(RunningOn(h)) + ChildShare(child[h]) ELSE 0)
<1>1. /\ obj[h] \in Object /\ vars[h] \in Nat /\ lost[h] \in Nat /\ sends[h] \in Nat /\ Receives(h) \in Nat
      /\ EventHeld(obj[h], vars[h], RunningOn(h), lost[h], sends[h], Receives(h), child[h])
  BY EventFacts
<1>2. /\ CallShare(RunningOn(h)) \in Nat /\ CloseRef(obj[h]) \in Nat
      /\ SendShare(RunningOn(h)) \in Nat /\ ChildShare(child[h]) \in Nat
  BY DEF CallShare, CloseRef, SendShare, ChildShare
<1>3. QED
  BY <1>1, <1>2 DEF EventHeld, EventUse, EventCount

(* An object held by variables and a callback alone.                       *)
LEMMA OnlyHeld ==
  ASSUME EventInv, NEW h \in Handles, obj[h].life = "live",
         obj[h].rc = vars[h] + CallShare(RunningOn(h))
  PROVE  /\ lost[h] = 0 /\ sends[h] = 0 /\ ~receiving[h] /\ ~Unreported(h)
         /\ obj[h].phase \in {"open", "closed"} /\ ~php_uv_is_handle_referenced(obj[h])
         /\ obj[h].dtored <=> obj[h].phase # "open"
<1> DEFINE o == obj[h]  v == vars[h]  l == lost[h]  s == sends[h]  r == Receives(h)  f == RunningOn(h)
           a == CallShare(f)  b == CloseRef(o)  d == SendShare(f)  e == ChildShare(child[h])
<1>1. /\ v \in Nat /\ l \in Nat /\ s \in Nat /\ r \in Nat /\ a \in Nat /\ b \in Nat /\ d \in Nat /\ e \in Nat
      /\ o.rc = v + a + b + l + (IF o.phase = "open" THEN s + r + d + e ELSE 0)
      /\ o.rc = v + a
  BY EventCounts
<1>2. o \in Object /\ EventUse(o, v, f, s, r, child[h]) /\ LiveShape(o)
  BY EventFacts, EventCounts DEF EventHeld
<1>3. b = 0 /\ l = 0 /\ (o.phase = "open" => s = 0 /\ r = 0 /\ d = 0 /\ e = 0)
  <2> HIDE DEF o, v, l, s, r, f, a, b, d, e
  <2>1. QED
    BY <1>1
<1>4. o.phase \in {"open", "closed"}
  BY <1>2, <1>3 DEF CloseRef, LiveShape, Object, Phases
<1>5. s = 0 /\ r = 0
  <2> HIDE DEF o, v, l, s, r, f, a, b, d, e
  <2>1. QED
    BY <1>1, <1>2, <1>3, <1>4 DEF EventUse, LiveShape
<1>6. ~Unreported(h)
  BY <1>3 DEF Unreported, ChildShare
<1>7. f # "send" \/ o.phase # "open"
  BY <1>3 DEF SendShare
<1>8. ~php_uv_is_handle_referenced(o)
  BY <1>2, <1>5, <1>7 DEF php_uv_is_handle_referenced, EventUse, LiveShape, ReferencedClasses, DeviceClasses
<1>9. ~receiving[h]
  BY <1>5, EventFacts
<1>10. QED
  BY <1>2, <1>3, <1>4, <1>5, <1>6, <1>8, <1>9 DEF LiveShape

(* OBJ_RELEASE of the last reference ends a stage.                         *)
LEMMA EventReleaseLast ==
  ASSUME NEW o \in Object, o.life = "live", o.rc = 1, o.phase \in {"open", "closed"},
         o.dtored <=> o.phase # "open", ~php_uv_is_handle_referenced(o)
  PROVE  /\ o.phase = "open" => OBJ_RELEASE(o).life = "live" /\ OBJ_RELEASE(o).phase = "closing"
         /\ o.phase = "closed" => OBJ_RELEASE(o).life = "freed" /\ OBJ_RELEASE(o).phase = "closed"
<1>1. CASE o.phase = "open"
  BY <1>1, ReleaseDestructs
<1>2. CASE o.phase = "closed"
  BY <1>2, ReleaseLastFields
<1>3. QED
  BY <1>1, <1>2

(* The last owner lets go.                                                 *)
LEMMA EventLetsGo ==
  ASSUME EventInv, NEW h \in Handles, \A k \in Handles \ {h} : Untouched(k),
         obj[h].life = "live", obj[h].rc = vars[h] + CallShare(RunningOn(h)),
         vars[h] > 0 \/ frame.handle = h, ~(vars[h] > 0 /\ frame.handle = h),
         vars'[h] = 0, frame'.handle # h, lost'[h] = lost[h], sends'[h] = sends[h],
         receiving'[h] = receiving[h],
         \/ obj[h].phase = "open" /\ obj'[h].life = "live" /\ obj'[h].phase = "closing"
         \/ obj[h].phase = "closed" /\ obj'[h].life = "freed" /\ obj'[h].phase = "closed"
  PROVE  EventLifeStep(h)
<1>1. /\ lost[h] = 0 /\ sends[h] = 0 /\ ~receiving[h] /\ ~Unreported(h)
      /\ obj[h].phase \in {"open", "closed"}
  BY OnlyHeld
<1>2. EventOwners(h) \in {{"script"}, {"call"}}
  <2>1. \/ \A x : x \in EventOwners(h) <=> x = "script"
        \/ \A x : x \in EventOwners(h) <=> x = "call"
    BY <1>1, EventFacts, EventOwnersFacts
  <2>2. QED
    BY <2>1
<1>3. ~Unreported(h)'
  BY DEF Unreported
<1>4. EventOwners(h)' = IF obj'[h].phase = "closing" THEN {"close"} ELSE {}
  <2>1. \A x : x \in EventOwners(h)' <=> x = "close" /\ obj'[h].phase = "closing"
    BY <1>1, <1>3, EventOwnersAfter
  <2>2. QED
    BY <2>1
<1>5. CASE obj[h].phase = "open"
  <2>1. StageOf(h) = "open" /\ StageOf(h)' = "closing" /\ EventOwners(h)' = {"close"}
    BY <1>4, <1>5 DEF StageOf
  <2>2. QED
    BY <1>2, <2>1, EventBecome DEF EventLifeStep, EventLifetime!Abandon
<1>6. CASE obj[h].phase = "closed"
  <2>1. StageOf(h) = "closed" /\ StageOf(h)' = "freed" /\ EventOwners(h)' = {}
    BY <1>4, <1>6 DEF StageOf
  <2>2. QED
    BY <1>2, <2>1, EventBecome DEF EventLifeStep, EventLifetime!Free
<1>7. QED
  BY <1>1, <1>5, <1>6

(* unset($a), or its scope ends.                                           *)
LEMMA UnsetLife ==
  ASSUME EventInv, EventInv', NEW h \in Handles, \A k \in Handles \ {h} : Untouched(k),
         UnsetSocket(h)
  PROVE  EventLifeStep(h)
<1>1. /\ obj[h].life = "live" /\ vars[h] > 0 /\ obj' = [obj EXCEPT ![h] = OBJ_RELEASE(@)]
      /\ vars' = [vars EXCEPT ![h] = @ - 1] /\ frame' = frame /\ lost' = lost /\ UNCHANGED udpVars
  BY DEF UnsetSocket, UnsetVariable, Visible
<1>2. obj'[h] = OBJ_RELEASE(obj[h]) /\ vars'[h] = vars[h] - 1
  BY <1>1, EventTypes DEF HandleTypeOK
<1>3. obj[h] \in Object /\ obj[h].rc \in Nat
  BY EventFacts DEF Object
<1>4. CASE obj[h].rc > 1
  <2>1. obj'[h].life = "live" /\ obj'[h].phase = obj[h].phase
    BY <1>1, <1>2, <1>3, <1>4, ReleaseFields
  <2>2. QED
    BY <1>1, <2>1, EventShare DEF EventLifeStep
<1>5. CASE ~(obj[h].rc > 1)
  <2>1. obj[h].rc = 1 /\ vars[h] = 1 /\ CallShare(RunningOn(h)) = 0
    BY <1>1, <1>3, <1>5, EventCounts DEF CallShare, CloseRef, SendShare, ChildShare
  <2>2. frame.handle # h
    BY <2>1, Parts, EventFacts
  <2>3. /\ obj[h].phase \in {"open", "closed"} /\ ~php_uv_is_handle_referenced(obj[h])
        /\ obj[h].dtored <=> obj[h].phase # "open"
    BY <1>1, <2>1, OnlyHeld
  <2>4. \/ obj[h].phase = "open" /\ obj'[h].life = "live" /\ obj'[h].phase = "closing"
        \/ obj[h].phase = "closed" /\ obj'[h].life = "freed" /\ obj'[h].phase = "closed"
    BY <1>1, <1>2, <1>3, <2>1, <2>3, EventReleaseLast
  <2>5. vars'[h] = 0 /\ obj[h].rc = vars[h] + CallShare(RunningOn(h))
    BY <1>2, <2>1
  <2>6. QED
    BY <1>1, <2>1, <2>2, <2>4, <2>5, EventLetsGo DEF udpVars
<1>6. QED
  BY <1>4, <1>5

(* A callback returns that holds two references.                           *)
LEMMA TwoReleases ==
  ASSUME EventInv, NEW h \in Handles, frame.handle = h, RunningOn(h) # "send"
  PROVE  /\ obj[h] \in Object /\ obj[h].life = "live" /\ obj[h].rc > 1
         /\ OBJ_RELEASE(obj[h]) \in Object
         /\ OBJ_RELEASE(obj[h]).rc = obj[h].rc - 1 /\ OBJ_RELEASE(obj[h]).life = "live"
         /\ OBJ_RELEASE(obj[h]).phase = obj[h].phase /\ OBJ_RELEASE(obj[h]).dtored = obj[h].dtored
         /\ OBJ_RELEASE(obj[h]).ce = obj[h].ce /\ OBJ_RELEASE(obj[h]).active = obj[h].active
         /\ ~(obj[h].rc > 2) => obj[h].rc = 2 /\ vars[h] = 0 /\ CallShare(RunningOn(h)) = 2
<1>1. obj[h].life = "live" /\ CallShare(RunningOn(h)) = 2
  BY EventFacts DEF EventShape, EventFreed, EventHeld, EventUse, LiveShape, CallShare
<1>2. obj[h] \in Object /\ obj[h].rc \in Nat /\ obj[h].rc > 1
      /\ (~(obj[h].rc > 2) => obj[h].rc = 2 /\ vars[h] = 0)
  <2> DEFINE n == obj[h].rc  v == vars[h]  l == lost[h]  s == sends[h]  r == Receives(h)
             a == CallShare(RunningOn(h))  b == CloseRef(obj[h])  d == SendShare(RunningOn(h))
             e == ChildShare(child[h])
  <2>1. /\ obj[h] \in Object /\ v \in Nat /\ l \in Nat /\ s \in Nat /\ r \in Nat
        /\ b \in Nat /\ d \in Nat /\ e \in Nat /\ a = 2
        /\ n = v + a + b + l + (IF obj[h].phase = "open" THEN s + r + d + e ELSE 0)
    BY <1>1, EventCounts
  <2> HIDE DEF n, v, l, s, r, a, b, d, e
  <2>2. n \in Nat /\ n > 1 /\ (~(n > 2) => n = 2 /\ v = 0)
    BY <2>1
  <2>3. QED
    BY <2>1, <2>2 DEF n, v
<1>3. QED
  BY <1>1, <1>2, ReleaseFields

LEMMA ReturnLife ==
  ASSUME EventInv, EventInv', NEW h \in Handles, \A k \in Handles \ {h} : Untouched(k),
         \/ ReturnFromCallback(h) /\ UNCHANGED udpVars
         \/ php_uv_udp_closed_return(h)
  PROVE  EventLifeStep(h)
<1> DEFINE o == OBJ_RELEASE(obj[h])
<1>1. /\ frame.handle = h /\ frame.cb # "send" /\ frame' = NoFrame /\ vars' = vars /\ lost' = lost
      /\ UNCHANGED udpVars
  BY DEF ReturnFromCallback, php_uv_udp_closed_return, php_uv_close_cb_return
<1>2. RunningOn(h) # "send" /\ frame'.handle # h
  BY <1>1, HandleAssumption DEF RunningOn, NoFrame
<1>3. /\ o \in Object /\ o.rc = obj[h].rc - 1 /\ o.life = "live" /\ o.phase = obj[h].phase
      /\ o.dtored = obj[h].dtored /\ o.ce = obj[h].ce /\ o.active = obj[h].active
      /\ obj[h] \in Object /\ obj[h].life = "live" /\ obj[h].rc > 1 /\ obj[h].rc \in Nat
      /\ ~(obj[h].rc > 2) => obj[h].rc = 2 /\ vars[h] = 0 /\ CallShare(RunningOn(h)) = 2
  BY <1>1, <1>2, TwoReleases DEF Object
<1>4. PICK p \in Object : /\ obj' = [obj EXCEPT ![h] = OBJ_RELEASE(p)]
                          /\ p.rc = o.rc /\ p.life = "live" /\ p.phase = obj[h].phase
                          /\ p.dtored = obj[h].dtored /\ p.ce = obj[h].ce /\ p.active = obj[h].active
  <2>1. CASE ReturnFromCallback(h)
    BY <1>3, <2>1 DEF ReturnFromCallback
  <2>2. CASE php_uv_udp_closed_return(h)
    <3>1. obj' = [obj EXCEPT ![h] = OBJ_RELEASE(clean_uv_handle(o))] /\ RunningOn(h) = "close"
      BY <2>2 DEF php_uv_udp_closed_return, php_uv_close_cb_return, RunningOn
    <3>2. obj[h].dtored
      BY <1>3, <3>1, EventFacts DEF EventHeld, EventUse, LiveShape
    <3> HIDE DEF o
    <3>3. /\ clean_uv_handle(o) \in Object
          /\ clean_uv_handle(o).rc = o.rc /\ clean_uv_handle(o).life = o.life
          /\ clean_uv_handle(o).ce = o.ce /\ clean_uv_handle(o).phase = o.phase
          /\ clean_uv_handle(o).dtored /\ clean_uv_handle(o).active = o.active
      BY <1>3, CleanFields
    <3>4. QED
      BY <1>3, <3>1, <3>2, <3>3
  <2>3. QED
    BY <2>1, <2>2
<1>5. obj'[h] = OBJ_RELEASE(p)
  BY <1>4, EventTypes DEF HandleTypeOK
<1> HIDE DEF o
<1>6. CASE obj[h].rc > 2
  <2>1. p.rc > 1
    BY <1>3, <1>4, <1>6
  <2>2. obj'[h].life = "live" /\ obj'[h].phase = obj[h].phase
    BY <1>4, <1>5, <2>1, ReleaseFields
  <2>3. QED
    BY <1>3, <2>2, EventShare DEF EventLifeStep
<1>7. CASE ~(obj[h].rc > 2)
  <2>1. obj[h].rc = vars[h] + CallShare(RunningOn(h)) /\ vars[h] = 0 /\ p.rc = 1
    BY <1>3, <1>4, <1>7
  <2>2. /\ obj[h].phase \in {"open", "closed"} /\ ~php_uv_is_handle_referenced(obj[h])
        /\ obj[h].dtored <=> obj[h].phase # "open"
    BY <1>3, <2>1, OnlyHeld
  <2>3. ~php_uv_is_handle_referenced(p)
    BY <1>4, <2>2 DEF php_uv_is_handle_referenced
  <2>4. \/ obj[h].phase = "open" /\ obj'[h].life = "live" /\ obj'[h].phase = "closing"
        \/ obj[h].phase = "closed" /\ obj'[h].life = "freed" /\ obj'[h].phase = "closed"
    BY <1>4, <1>5, <2>1, <2>2, <2>3, EventReleaseLast
  <2>5. QED
    BY <1>1, <1>2, <1>3, <2>1, <2>4, EventLetsGo DEF udpVars
<1>8. QED
  BY <1>6, <1>7

(* libuv is done with a closing handle.                                    *)
LEMMA ClosedLife ==
  ASSUME EventInv, EventInv', NEW h \in Handles, \A k \in Handles \ {h} : Untouched(k),
         php_uv_udp_closed(h)
  PROVE  EventLifetime!Finish(h)
<1> DEFINE o == [obj[h] EXCEPT !.phase = "closed"]
           k == clean_uv_handle(o)
<1>1. /\ obj[h].life = "live" /\ obj[h].phase = "closing" /\ frame = NoFrame /\ sends[h] = 0
      /\ vars' = vars /\ lost' = lost /\ UNCHANGED udpVars
      /\ \/ CallPHP(h, "close", o)
         \/ obj' = [obj EXCEPT ![h] = OBJ_RELEASE(k)] /\ frame' = frame
  BY DEF php_uv_udp_closed, php_uv_close_cb
<1>2. frame.handle # h /\ RunningOn(h) = "none"
  BY <1>1, HandleAssumption DEF NoFrame, RunningOn
<1>3. obj \in [Handles -> Object] /\ obj[h] \in Object
  BY EventTypes DEF HandleTypeOK
<1>4. o \in Object /\ o.rc = obj[h].rc /\ o.life = "live" /\ o.phase = "closed"
  BY <1>1, <1>3 DEF Object, Phases
<1>5. ~receiving[h] /\ ~receiving'[h] /\ ~Unreported(h)
  <2>1. Receives(h) = 0
    BY <1>1, EventFacts DEF EventHeld, EventUse, LiveShape
  <2>2. QED
    BY <1>1, <2>1, EventFacts DEF Unreported, udpVars
<1>6. StageOf(h) = "closing" /\ "close" \in EventOwners(h)
  BY <1>1, EventOwnersFacts DEF StageOf
<1> HIDE DEF o
<1>7. CASE CallPHP(h, "close", o)
  <2>1. obj'[h] = GC_ADDREF(o) /\ frame'.handle = h
    BY <1>3, <1>7 DEF CallPHP
  <2>2. obj'[h].life = "live" /\ obj'[h].phase = "closed"
    BY <1>4, <2>1, AddRefFields
  <2>3. StageOf(h)' = "closed" /\ ~Unreported(h)'
    BY <2>2 DEF StageOf, Unreported
  <2>4. EventOwners(h)' = (EventOwners(h) \ {"close"}) \cup {"call"}
    <3>1. \A x : x \in EventOwners(h)' <=> x \in (EventOwners(h) \ {"close"}) \cup {"call"}
      BY <1>1, <1>2, <1>5, <2>1, <2>2, <2>3, EventOwnersFacts, EventOwnersAfter DEF udpVars
    <3>2. QED
      BY <3>1
  <2>5. QED
    BY <1>6, <2>3, <2>4, EventBecome DEF EventLifetime!Finish
<1>8. CASE obj' = [obj EXCEPT ![h] = OBJ_RELEASE(k)] /\ frame' = frame
  <2>1. /\ k \in Object /\ k.rc = obj[h].rc /\ k.life = "live" /\ k.phase = "closed" /\ k.dtored
    BY <1>4, CleanFields
  <2> HIDE DEF k
  <2>2. obj'[h] = OBJ_RELEASE(k)
    BY <1>3, <1>8
  <2>3. obj[h].rc = vars[h] + 1 + lost[h] /\ vars[h] \in Nat /\ lost[h] \in Nat
    BY <1>1, <1>2, EventCounts DEF CallShare, CloseRef
  <2>4. CASE vars[h] + lost[h] > 0
    <3>1. obj'[h].life = "live" /\ obj'[h].phase = "closed"
      BY <2>1, <2>2, <2>3, <2>4, ReleaseFields
    <3>2. StageOf(h)' = "closed" /\ ~Unreported(h)'
      BY <3>1 DEF StageOf, Unreported
    <3>3. EventOwners(h)' = EventOwners(h) \ {"close"}
      <4>1. \A x : x \in EventOwners(h)' <=> x \in EventOwners(h) \ {"close"}
        BY <1>1, <1>2, <1>5, <1>8, <3>1, <3>2, EventOwnersFacts, EventOwnersAfter DEF udpVars
      <4>2. QED
        BY <4>1
    <3>4. EventOwners(h) # {"close"}
      BY <2>3, <2>4, EventOwnersFacts
    <3>5. QED
      BY <1>6, <3>2, <3>3, <3>4, EventBecome DEF EventLifetime!Finish
  <2>5. CASE ~(vars[h] + lost[h] > 0)
    <3>1. vars[h] = 0 /\ lost[h] = 0 /\ k.rc = 1
      BY <2>1, <2>3, <2>5
    <3>2. obj'[h].life = "freed" /\ obj'[h].phase = "closed"
      BY <2>1, <2>2, <3>1, ReleaseLastFields
    <3>3. StageOf(h)' = "freed" /\ ~Unreported(h)'
      BY <3>2 DEF StageOf, Unreported
    <3>4. EventOwners(h)' = {} /\ EventOwners(h) = {"close"}
      <4>1. \A x : x \notin EventOwners(h)' /\ (x \in EventOwners(h) <=> x = "close")
        BY <1>1, <1>2, <1>5, <1>8, <3>1, <3>2, <3>3, EventOwnersFacts, EventOwnersAfter DEF udpVars
      <4>2. QED
        BY <4>1
    <3>5. QED
      BY <1>6, <3>3, <3>4, EventBecome DEF EventLifetime!Finish
  <2>6. QED
    BY <2>4, <2>5
<1>9. QED
  BY <1>1, <1>7, <1>8

(* The uv_*_init functions and uv_spawn, started or not.                   *)
LEMMA CreateLife ==
  ASSUME EventInv, EventInv', NEW h \in Handles, \A k \in Handles \ {h} : Untouched(k),
         \/ uv_udp_init(h) /\ UNCHANGED deviceVars
         \/ (uv_async_init(h) \/ uv_fs_event_init(h) \/ uv_spawn(h)) /\ UNCHANGED udpVars
  PROVE  EventLifeStep(h)
<1>1. obj[h].life = "none" /\ frame' = frame /\ lost' = lost /\ sends' = sends /\ receiving' = receiving
  BY DEF uv_udp_init, CreateHandle, uv_async_init, uv_fs_event_init, CreateActive, uv_spawn, udpVars
<1>2. /\ vars[h] = 0 /\ frame.handle # h /\ lost[h] = 0 /\ sends[h] = 0 /\ ~receiving[h] /\ child[h] = "none"
  BY <1>1, EventFacts DEF EventShape, EventFreed, EventHeld, EventUse, LiveShape
<1>3. obj \in [Handles -> Object] /\ vars \in [Handles -> 0 .. MaxVars]
      /\ child \in [Handles -> {"none", "running", "exited", "reported"}]
  BY EventTypes DEF HandleTypeOK
<1>4. StageOf(h) = "none"
  BY <1>1 DEF StageOf
<1>5. CASE vars' = [vars EXCEPT ![h] = 1] /\ child' = child
           /\ obj'[h].life = "live" /\ obj'[h].phase = "open"
  <2>1. StageOf(h)' = "open" /\ ~Unreported(h)' /\ vars'[h] = 1
    BY <1>2, <1>3, <1>5 DEF StageOf, Unreported
  <2>2. \A x : x \in EventOwners(h)' <=> x = "script"
    BY <1>1, <1>2, <1>5, <2>1, EventOwnersAfter
  <2>3. EventOwners(h)' = {"script"}
    BY <2>2
  <2>4. QED
    BY <1>4, <2>1, <2>3, EventBecome DEF EventLifeStep, EventLifetime!Create
<1>6. CASE vars' = [vars EXCEPT ![h] = 1] /\ child' = [child EXCEPT ![h] = "running"]
           /\ obj'[h].life = "live" /\ obj'[h].phase = "open"
  <2>1. StageOf(h)' = "open" /\ Unreported(h)' /\ vars'[h] = 1
    BY <1>2, <1>3, <1>6 DEF StageOf, Unreported
  <2>2. \A x : x \in EventOwners(h)' <=> x \in {"script", "loop"}
    BY <1>1, <1>2, <1>6, <2>1, EventOwnersAfter
  <2>3. EventOwners(h)' = {"script", "loop"}
    BY <2>2
  <2>4. QED
    BY <1>4, <2>1, <2>3, EventBecome DEF EventLifeStep, EventLifetime!Spawn
<1>7. CASE vars' = vars /\ child' = child
           /\ obj'[h].life = "live" /\ obj'[h].phase = "closing"
  <2>1. StageOf(h)' = "closing" /\ ~Unreported(h)'
    BY <1>7 DEF StageOf, Unreported
  <2>2. \A x : x \in EventOwners(h)' <=> x = "close"
    BY <1>1, <1>2, <1>7, <2>1, EventOwnersAfter
  <2>3. EventOwners(h)' = {"close"}
    BY <2>2
  <2>4. QED
    BY <1>4, <2>1, <2>3, EventBecome DEF EventLifeStep, EventLifetime!Spawn
<1>8. ASSUME NEW class \in Classes
      PROVE  LET o == create_uv(class)
             IN  o \in Object /\ o.life = "live" /\ o.phase = "open" /\ o.rc = 1 /\ o.ce = class
                 /\ ~o.active /\ ~o.dtored
  BY DEF create_uv, Absent, Object, Lives, Phases
<1>9. ASSUME NEW o \in Object
      PROVE  LET q == [o EXCEPT !.active = TRUE] IN q.life = o.life /\ q.phase = o.phase
  BY DEF Object
<1>10. CASE uv_udp_init(h) /\ UNCHANGED deviceVars
  <2>1. obj'[h] = create_uv("udp") /\ "udp" \in Classes
    BY <1>3, <1>10 DEF uv_udp_init, CreateHandle, Classes
  <2>2. QED
    BY <1>5, <1>8, <1>10, <2>1 DEF uv_udp_init, CreateHandle, deviceVars
<1>11. CASE (uv_async_init(h) \/ uv_fs_event_init(h)) /\ UNCHANGED udpVars
  <2>1. PICK class \in {"async", "fs_event"} : CreateActive(h, class) /\ UNCHANGED deviceVars
    BY <1>11 DEF uv_async_init, uv_fs_event_init
  <2>2. class \in Classes /\ obj'[h] = [create_uv(class) EXCEPT !.active = TRUE]
    BY <1>3, <2>1 DEF CreateActive, Classes
  <2>3. obj'[h].life = "live" /\ obj'[h].phase = "open"
    BY <1>8, <1>9, <2>2
  <2>4. QED
    BY <1>5, <2>1, <2>3 DEF CreateActive, deviceVars
<1>12. CASE uv_spawn(h) /\ UNCHANGED udpVars
  <2> DEFINE o == create_uv("process")
  <2>1. o \in Object /\ o.life = "live" /\ o.phase = "open" /\ o.rc = 1 /\ o.ce = "process"
        /\ ~o.active /\ ~o.dtored
    BY <1>8 DEF Classes
  <2>2. \/ /\ obj'[h] = [GC_ADDREF(o) EXCEPT !.active = TRUE]
           /\ vars' = [vars EXCEPT ![h] = 1] /\ child' = [child EXCEPT ![h] = "running"]
        \/ obj'[h] = OBJ_RELEASE(o) /\ vars' = vars /\ child' = child
    BY <1>3, <1>12 DEF uv_spawn
  <2> HIDE DEF o
  <2>3. CASE obj'[h] = [GC_ADDREF(o) EXCEPT !.active = TRUE] /\ vars' = [vars EXCEPT ![h] = 1]
             /\ child' = [child EXCEPT ![h] = "running"]
    <3>1. GC_ADDREF(o) \in Object /\ GC_ADDREF(o).life = "live" /\ GC_ADDREF(o).phase = "open"
      BY <2>1, AddRefFields
    <3>2. QED
      BY <1>6, <1>9, <2>3, <3>1
  <2>4. CASE obj'[h] = OBJ_RELEASE(o) /\ vars' = vars /\ child' = child
    <3>1. ~php_uv_is_handle_referenced(o)
      BY <2>1 DEF php_uv_is_handle_referenced
    <3>2. OBJ_RELEASE(o).life = "live" /\ OBJ_RELEASE(o).phase = "closing"
      BY <2>1, <3>1, EventReleaseLast
    <3>3. QED
      BY <1>7, <2>4, <3>2
  <2>5. QED
    BY <2>2, <2>3, <2>4
<1>13. QED
  BY <1>10, <1>11, <1>12

(* uv_close: the close takes the place of what libuv did, and what it does *)
(* not take over is lost.                                                  *)
LEMMA CloseLife ==
  ASSUME EventInv, EventInv', NEW h \in Handles, \A k \in Handles \ {h} : Untouched(k),
         \/ uv_udp_close(h)
         \/ uv_device_close(h) /\ UNCHANGED udpVars
  PROVE  EventLifetime!Close(h)
<1>1. obj[h].life = "live" /\ Usable(h) /\ vars' = vars /\ frame' = frame /\ sends' = sends
      /\ \E callable \in BOOLEAN :
           obj' = [obj EXCEPT ![h] = php_uv_close([@ EXCEPT !.notify = callable])]
  BY DEF uv_udp_close, uv_device_close, Usable, Visible, udpVars
<1>2. obj[h].phase = "open" /\ obj[h] \in Object /\ obj \in [Handles -> Object]
  BY <1>1, EventOpen, EventTypes DEF HandleTypeOK
<1>3. PICK callable \in BOOLEAN : obj'[h] = php_uv_close([obj[h] EXCEPT !.notify = callable])
  BY <1>1, <1>2
<1>4. obj'[h].life = "live" /\ obj'[h].phase = "closing"
  <2> DEFINE o == [obj[h] EXCEPT !.notify = callable]
  <2>1. o \in Object /\ o.life = "live" /\ o.phase = "open"
    BY <1>1, <1>2 DEF Object
  <2> HIDE DEF o
  <2>2. php_uv_close(o).life = "live" /\ php_uv_close(o).phase = "closing"
    BY <2>1, CloseFields
  <2>3. QED
    BY <1>3, <2>2 DEF o
<1>5. ~receiving'[h] /\ ~Unreported(h)'
  <2>1. ~Unreported(h)'
    BY <1>4 DEF Unreported
  <2>2. CASE uv_udp_close(h)
    BY <2>1, <2>2, EventTypes DEF uv_udp_close
  <2>3. CASE uv_device_close(h) /\ UNCHANGED udpVars
    <3>1. obj[h].ce # "udp"
      BY <2>3 DEF uv_device_close, DeviceClasses
    <3>2. Receives(h) = 0
      BY <1>1, <3>1, EventOpen
    <3>3. QED
      BY <2>1, <2>3, <3>2, EventFacts DEF udpVars
  <2>4. QED
    BY <2>2, <2>3
<1>6. lost[h] > 0 => lost'[h] > 0
  <2>1. CASE uv_udp_close(h)
    <3> DEFINE l == lost[h]  a == Activities(h)  s == sends[h]  r == Receives(h)  d == SendShare(RunningOn(h))
               taken == IF obj[h].active THEN 1 ELSE 0
    <3>1. lost'[h] = l + a - taken
      BY <2>1, EventTypes DEF uv_udp_close
    <3>2. a = s + r + d /\ s \in Nat /\ r \in Nat /\ d \in Nat /\ l \in Nat
      BY <1>2, EventFacts DEF Activities, Receives, SendShare
    <3>3. obj[h].active => s > 0 \/ r > 0 \/ d = 1
      BY <1>1, <2>1, EventFacts DEF EventHeld, EventUse, DeviceClasses, uv_udp_close, SendShare
    <3> HIDE DEF l, a, s, r, d
    <3>4. l > 0 => l + a - taken > 0
      BY <3>2, <3>3
    <3>5. QED
      BY <3>1, <3>4 DEF l
  <2>2. CASE uv_device_close(h)
    BY <2>2, EventTypes, HandleAssumption DEF uv_device_close
  <2>3. QED
    BY <2>1, <2>2
<1>7. StageOf(h) = "open" /\ StageOf(h)' = "closing"
  BY <1>1, <1>2, <1>4 DEF StageOf
<1> DEFINE forgotten == IF lost'[h] > 0 THEN {"lost"} ELSE {}
<1>8. EventOwners(h)' = (EventOwners(h) \ {"loop"}) \cup {"close"} \cup forgotten
  <2>1. \A x : x \in forgotten <=> x = "lost" /\ lost'[h] > 0
    OBVIOUS
  <2> HIDE DEF forgotten
  <2>2. \A x : x \in EventOwners(h)' <=> x \in (EventOwners(h) \ {"loop"}) \cup {"close"} \cup forgotten
    BY <1>1, <1>4, <1>5, <1>6, <2>1, EventOwnersFacts, EventOwnersAfter
  <2>3. QED
    BY <2>2
<1>9. forgotten \in SUBSET {"lost"}
  OBVIOUS
<1> HIDE DEF forgotten
<1>10. EventLifetime!Become(h, "closing", (EventOwners(h) \ {"loop"}) \cup {"close"} \cup forgotten)
  BY <1>7, <1>8, EventBecome
<1>11. QED
  BY <1>7, <1>9, <1>10 DEF EventLifetime!Close

(* A reference more, with or without the handle starting or stopping.      *)
LEMMA StaysAdded ==
  ASSUME NEW o \in Object, o.life = "live", NEW b \in BOOLEAN
  PROVE  LET q == [o EXCEPT !.active = b]
             Stays(p) == p.life = "live" /\ p.phase = o.phase
         IN  /\ q \in Object /\ q.rc = o.rc /\ Stays(q)
             /\ Stays(GC_ADDREF(o)) /\ Stays(GC_ADDREF(q)) /\ Stays(GC_ADDREF(GC_ADDREF(o)))
             /\ Stays([GC_ADDREF(o) EXCEPT !.active = b])
  BY DEF GC_ADDREF, Object

(* One less of several.                                                    *)
LEMMA StaysReleased ==
  ASSUME NEW o \in Object, o.life = "live", NEW busy \in BOOLEAN, o.phase = "open" => o.rc > 1
  PROVE  DropSend(o, busy).life = "live" /\ DropSend(o, busy).phase = o.phase
<1> DEFINE d == IF o.phase = "open" THEN OBJ_RELEASE(o) ELSE o
<1>1. d \in Object /\ d.life = "live" /\ d.phase = o.phase
  BY ReleaseFields
<1>2. DropSend(o, busy) = [d EXCEPT !.active = @ /\ busy]
  BY DEF DropSend
<1> HIDE DEF d
<1>3. QED
  BY <1>1, <1>2 DEF Object

(* Watching, sending, receiving, signalling and the callbacks for them,    *)
(* but for that of a send: the object stays in its stage.                  *)
LEMMA WorkStays ==
  ASSUME EventInv, NEW h \in Handles, ~StopsSenders, obj[h].life = "live",
         \/ uv_udp_recv_start(h) \/ uv_udp_recv_stop(h) \/ php_uv_udp_recv_cb(h)
         \/ php_uv_udp_send(h) \/ CopyVariable(h) \/ uv_async_send(h) \/ php_uv_async_cb(h) \/ php_uv_fs_event_cb(h)
         \/ php_uv_process_close_cb(h) \/ ChildExits(h)
  PROVE  obj'[h].life = "live" /\ obj'[h].phase = obj[h].phase
<1>1. obj \in [Handles -> Object] /\ obj[h] \in Object /\ obj[h].rc \in Nat
  BY EventTypes DEF HandleTypeOK, Object
<1> DEFINE Stays(p) == p.life = "live" /\ p.phase = obj[h].phase
<1>2. ASSUME NEW b \in BOOLEAN
      PROVE  /\ [obj[h] EXCEPT !.active = b] \in Object /\ [obj[h] EXCEPT !.active = b].rc = obj[h].rc
             /\ Stays([obj[h] EXCEPT !.active = b]) /\ Stays(GC_ADDREF([obj[h] EXCEPT !.active = b]))
             /\ Stays([GC_ADDREF(obj[h]) EXCEPT !.active = b])
  BY <1>1, StaysAdded
<1>3. Stays(GC_ADDREF(obj[h])) /\ Stays(GC_ADDREF(GC_ADDREF(obj[h])))
  BY <1>1, StaysAdded
<1>4. CASE uv_udp_recv_start(h) \/ CopyVariable(h) \/ uv_async_send(h) \/ ChildExits(h)
  BY <1>1, <1>2, <1>3, <1>4 DEF uv_udp_recv_start, CopyVariable, uv_async_send, ChildExits, handleVars
<1>5. CASE php_uv_udp_send(h)
  <2>1. obj'[h] = GC_ADDREF(obj[h]) \/ obj'[h] = [GC_ADDREF(obj[h]) EXCEPT !.active = TRUE]
    BY <1>1, <1>5 DEF php_uv_udp_send
  <2>2. QED
    BY <1>2, <1>3, <2>1
<1>6. CASE php_uv_udp_recv_cb(h) \/ php_uv_async_cb(h) \/ php_uv_fs_event_cb(h)
  BY <1>1, <1>3, <1>6
  DEF php_uv_udp_recv_cb, php_uv_async_cb, php_uv_fs_event_cb, DeviceCallback, CallPHP
<1>7. CASE php_uv_process_close_cb(h)
  BY <1>1, <1>2, <1>7 DEF php_uv_process_close_cb, CallPHP
<1>8. CASE uv_udp_recv_stop(h)
  <2>1. PICK waits \in BOOLEAN : obj'[h] = OBJ_RELEASE([obj[h] EXCEPT !.active = waits])
    BY <1>1, <1>8 DEF uv_udp_recv_stop
  <2>2. receiving[h] /\ Usable(h) /\ (vars[h] > 0 \/ frame.handle = h) /\ obj[h].phase = "open"
    BY <1>8, EventOpen DEF uv_udp_recv_stop, Usable, Visible
  <2>3. Receives(h) = 1 /\ (vars[h] > 0 \/ CallShare(RunningOn(h)) > 0)
    BY <2>2, EventFacts DEF CallShare, Receives
  <2>4. obj[h].rc > 1
    <3> DEFINE n == obj[h].rc  v == vars[h]  l == lost[h]  s == sends[h]
               a == CallShare(RunningOn(h))  b == CloseRef(obj[h])  d == SendShare(RunningOn(h))
               e == ChildShare(child[h])
    <3>1. /\ n = v + a + b + l + (s + 1 + d + e) /\ v \in Nat /\ a \in Nat /\ b \in Nat /\ l \in Nat
          /\ s \in Nat /\ d \in Nat /\ e \in Nat /\ (v > 0 \/ a > 0)
      BY <2>2, <2>3, EventCounts
    <3> HIDE DEF n, v, l, s, a, b, d, e
    <3>2. n > 1
      BY <3>1
    <3>3. QED
      BY <3>2 DEF n
  <2> DEFINE o == [obj[h] EXCEPT !.active = waits]
  <2>5. o \in Object /\ o.rc > 1 /\ Stays(o) /\ obj'[h] = OBJ_RELEASE(o)
    BY <1>2, <2>1, <2>4
  <2> HIDE DEF o
  <2>6. QED
    BY <2>5, ReleaseFields
<1>9. QED
  BY <1>4, <1>5, <1>6, <1>7, <1>8

LEMMA WorkLife ==
  ASSUME EventInv, EventInv', NEW h \in Handles, \A k \in Handles \ {h} : Untouched(k),
         ~StopsSenders,
         \/ uv_udp_recv_start(h) \/ uv_udp_recv_stop(h) \/ php_uv_udp_recv_cb(h)
         \/ php_uv_udp_send(h) \/ CopyVariable(h) \/ uv_async_send(h) \/ php_uv_async_cb(h) \/ php_uv_fs_event_cb(h)
         \/ php_uv_process_close_cb(h)
  PROVE  EventLifetime!Share(h)
<1>1. obj[h].life = "live"
  BY DEF uv_udp_recv_start, uv_udp_recv_stop, php_uv_udp_recv_cb, php_uv_udp_send,
         CopyVariable, uv_async_send, php_uv_async_cb, php_uv_fs_event_cb, php_uv_process_close_cb,
         DeviceCallback, Usable, Visible
<1>2. obj'[h].life = "live" /\ obj'[h].phase = obj[h].phase
  BY <1>1, WorkStays
<1>3. QED
  BY <1>1, <1>2, EventShare

(* The epilogue of the last send of a socket nobody else holds: it is      *)
(* closed, or freed if libuv still counts it as active.                    *)
LEMMA LastSendLife ==
  ASSUME EventInv, NEW h \in Handles, \A k \in Handles \ {h} : Untouched(k),
         EventHeld(obj[h], vars[h], RunningOn(h), lost[h], sends[h], Receives(h), child[h]),
         obj[h].phase = "open", vars[h] = 0, lost[h] = 0, Receives(h) = 0,
         \/ sends[h] = 0 /\ RunningOn(h) = "send"
         \/ sends[h] > 0 /\ RunningOn(h) = "none",
         NEW p \in Object, p.rc = 1, p.life = "live", p.phase = "open", ~p.dtored,
         NEW busy \in BOOLEAN, obj'[h] = DropSend(p, busy),
         vars'[h] = 0, lost'[h] = 0, sends'[h] = 0, receiving'[h] = receiving[h], frame'.handle # h
  PROVE  EventLifeStep(h)
<1>1. obj[h].ce = "udp" /\ child[h] = "none" /\ AbandonsSenders /\ obj[h].life = "live"
  BY DEF EventHeld, EventUse, LiveShape, DeviceClasses
<1> DEFINE d == OBJ_RELEASE(p)
<1>2. d \in Object /\ d.phase = "closing" /\ d.life \in {"live", "freed"}
  BY ReleaseAbandons, ReleaseDestructs
<1>3. obj'[h] = [d EXCEPT !.active = @ /\ busy]
  BY DEF DropSend
<1> HIDE DEF d
<1>4. obj'[h].phase = "closing" /\ obj'[h].life = d.life
  BY <1>2, <1>3 DEF Object
<1>5. ~receiving[h] /\ ~Unreported(h) /\ ~Unreported(h)'
  BY <1>1, <1>4, EventFacts DEF Unreported
<1>6. EventOwners(h) \in {{"call"}, {"request"}}
  <2>1. CASE sends[h] = 0 /\ RunningOn(h) = "send"
    <3>1. \A x : x \in EventOwners(h) <=> x = "call"
      BY <1>5, <2>1, EventFacts, EventOwnersFacts
    <3>2. QED
      BY <3>1
  <2>2. CASE sends[h] > 0 /\ RunningOn(h) = "none"
    <3>1. \A x : x \in EventOwners(h) <=> x = "request"
      BY <1>5, <2>2, EventFacts, EventOwnersFacts
    <3>2. QED
      BY <3>1
  <2>3. QED
    BY <2>1, <2>2
<1>7. EventOwners(h)' = {"close"}
  <2>1. \A x : x \in EventOwners(h)' <=> x = "close"
    BY <1>4, <1>5, EventOwnersAfter
  <2>2. QED
    BY <2>1
<1>8. StageOf(h) = "open"
  BY <1>1 DEF StageOf
<1>9. CASE d.life = "live"
  <2>1. EventLifetime!Become(h, "closing", {"close"})
    BY <1>4, <1>7, <1>9, EventBecome DEF StageOf
  <2>2. QED
    BY <1>6, <1>8, <2>1 DEF EventLifeStep, EventLifetime!Abandon
<1>10. CASE d.life = "freed"
  <2>1. EventLifetime!Become(h, "freed", {"close"})
    BY <1>4, <1>7, <1>10, EventBecome DEF StageOf
  <2>2. QED
    BY <1>1, <1>6, <1>8, <2>1 DEF EventLifeStep, FreedByLastSend
<1>11. QED
  BY <1>2, <1>9, <1>10

(* The report of a send.  The object stays in its stage while there is     *)
(* another reference than the one that php_uv_udp_send_cb gives back.      *)
LEMMA SendLife ==
  ASSUME EventInv, EventInv', NEW h \in Handles, \A k \in Handles \ {h} : Untouched(k),
         php_uv_udp_send_cb(h) \/ php_uv_udp_send_cb_return(h)
  PROVE  EventLifeStep(h)
<1> DEFINE n == obj[h].rc  v == vars[h]  l == lost[h]  s == sends[h]  r == Receives(h)  f == RunningOn(h)
           b == CloseRef(obj[h])  e == ChildShare(child[h])
<1>1. /\ obj[h].life = "live" /\ vars' = vars /\ lost' = lost /\ receiving' = receiving
      /\ obj \in [Handles -> Object] /\ obj[h] \in Object
  BY EventFacts, EventTypes
  DEF php_uv_udp_send_cb, php_uv_udp_send_cb_return, EventShape, EventFreed, EventHeld, EventUse,
      LiveShape, HandleTypeOK, udpVars
<1>2. /\ EventHeld(obj[h], v, f, l, s, r, child[h]) /\ (obj[h].phase = "open" => ~obj[h].dtored)
      /\ n \in Nat /\ v \in Nat /\ l \in Nat /\ s \in Nat /\ r \in Nat /\ b \in Nat /\ e \in Nat
      /\ obj[h].phase = "open" => b = 0
      /\ n = v + CallShare(f) + b + l + (IF obj[h].phase = "open" THEN s + r + SendShare(f) + e ELSE 0)
  BY <1>1, EventFacts, EventCounts DEF EventHeld, EventUse, LiveShape, CloseRef, Object
<1>3. CASE php_uv_udp_send_cb(h) /\ CallPHP(h, "send", obj[h])
  <2>1. obj'[h] = GC_ADDREF(obj[h])
    BY <1>1, <1>3 DEF CallPHP
  <2>2. QED
    BY <1>1, <2>1, AddRefFields, EventShare DEF EventLifeStep
<1>4. ASSUME NEW p \in Object, p.life = "live", p.phase = obj[h].phase, p.dtored = obj[h].dtored,
             NEW busy \in BOOLEAN, obj'[h] = DropSend(p, busy), p.phase = "open" => p.rc > 1
      PROVE  EventLifeStep(h)
  BY <1>1, <1>4, StaysReleased, EventShare DEF EventLifeStep
<1>5. CASE php_uv_udp_send_cb(h) /\ ~CallPHP(h, "send", obj[h])
  <2>1. /\ frame = NoFrame /\ frame' = frame /\ s > 0 /\ sends'[h] = s - 1
        /\ obj'[h] = DropSend(obj[h], Busy(h, s - 1)) /\ Busy(h, s - 1) \in BOOLEAN
    BY <1>1, <1>5, EventTypes DEF php_uv_udp_send_cb, Busy
  <2>2. frame'.handle # h /\ f = "none"
    BY <2>1, HandleAssumption DEF NoFrame, RunningOn
  <2>3. CASE obj[h].phase = "open" => n > 1
    BY <1>1, <1>4, <2>1, <2>3
  <2>4. CASE obj[h].phase = "open" /\ ~(n > 1)
    <3>1. n = v + 0 + 0 + l + (s + r + 0 + e)
      BY <1>2, <2>2, <2>4 DEF CallShare, SendShare
    <3>2. n = 1 /\ v = 0 /\ l = 0 /\ r = 0 /\ s = 1
      <4> HIDE DEF n, v, l, s, r, f, b, e
      <4>1. n \in Nat /\ v \in Nat /\ l \in Nat /\ s \in Nat /\ r \in Nat /\ e \in Nat /\ s > 0
        BY <1>2, <2>1
      <4>2. QED
        BY <2>4, <3>1, <4>1
    <3>3. QED
      BY <1>1, <1>2, <2>1, <2>2, <2>4, <3>2, LastSendLife
  <2>5. QED
    BY <2>3, <2>4
<1>6. CASE php_uv_udp_send_cb_return(h)
  <2> DEFINE o == OBJ_RELEASE(obj[h])
  <2>1. f = "send" /\ frame'.handle # h /\ sends' = sends
    BY <1>6, HandleAssumption DEF php_uv_udp_send_cb_return, RunningOn, NoFrame, udpVars
  <2>2. n = v + 1 + b + l + (IF obj[h].phase = "open" THEN s + r + 1 + e ELSE 0)
    BY <1>2, <2>1 DEF CallShare, SendShare
  <2>3. obj[h].phase \in {"open", "closing"}
    <3>1. EventUse(obj[h], v, "send", s, r, child[h])
      BY <1>2, <2>1 DEF EventHeld
    <3>2. obj[h].phase # "closed"
      <4> HIDE DEF v, s, r
      <4>1. QED
        BY <3>1 DEF EventUse
    <3>3. QED
      BY <1>1, <3>2, EventCounts DEF LiveShape, Object, Phases
  <2>4. n > 1
    <3>1. obj[h].phase = "closing" => b = 1
      BY DEF CloseRef
    <3> HIDE DEF n, v, l, s, r, b, e
    <3>2. QED
      BY <1>2, <2>2, <2>3, <3>1
  <2>5. o \in Object /\ o.life = "live" /\ o.phase = obj[h].phase /\ o.dtored = obj[h].dtored /\ o.rc = n - 1
    BY <1>1, <2>4, ReleaseFields
  <2>6. obj'[h] = DropSend(o, Busy(h, s)) /\ Busy(h, s) \in BOOLEAN
    BY <1>1, <1>6, EventTypes DEF php_uv_udp_send_cb_return, Busy
  <2> HIDE DEF o
  <2>7. CASE obj[h].phase = "open" => n > 2
    BY <1>2, <1>4, <2>5, <2>6, <2>7
  <2>8. CASE obj[h].phase = "open" /\ ~(n > 2)
    <3>1. n = 2 /\ v = 0 /\ l = 0 /\ r = 0 /\ s = 0
      <4> HIDE DEF n, v, l, s, r, b, e
      <4>1. QED
        BY <1>2, <2>2, <2>8
    <3>2. o.rc = 1 /\ ~o.dtored /\ o.phase = "open"
      BY <1>2, <2>5, <2>8, <3>1
    <3>3. QED
      BY <1>1, <1>2, <2>1, <2>5, <2>6, <2>8, <3>1, <3>2, LastSendLife
  <2>9. QED
    BY <2>7, <2>8
<1>7. QED
  BY <1>3, <1>5, <1>6

(* The exit of a child changes nothing of who owns its object.             *)
LEMMA ExitLife ==
  ASSUME EventInv, EventInv', NEW h \in Handles, \A k \in Handles \ {h} : Untouched(k),
         ~StopsSenders, ChildExits(h), UNCHANGED udpVars
  PROVE  EventLifetime!Share(h) \/ UNCHANGED EventLifetime!lifeVars
<1>1. CASE obj[h].life = "live"
  BY <1>1, WorkStays, EventShare
<1>2. CASE obj[h].life # "live"
  <2>1. obj'[h] = obj[h] /\ vars' = vars /\ frame' = frame /\ lost' = lost /\ UNCHANGED udpVars
    BY DEF ChildExits, handleVars
  <2>2. obj[h].phase # "open" \/ child[h] = "none"
    BY <1>2, EventFacts DEF EventShape, EventFreed, EventHeld, EventUse, LiveShape
  <2>3. ~Unreported(h) /\ ~Unreported(h)'
    BY <2>1, <2>2 DEF Unreported, ChildExits
  <2>4. StageOf(h)' = StageOf(h)
    BY <2>1 DEF StageOf
  <2>5. \A x : x \in EventOwners(h)' <=> x \in EventOwners(h)
    BY <2>1, <2>3, EventOwnersFacts, EventOwnersAfter DEF udpVars
  <2>6. EventOwners(h)' = EventOwners(h)
    BY <2>5
  <2>7. \A k \in Handles : StageOf(k)' = StageOf(k) /\ EventOwners(k)' = EventOwners(k)
    BY <2>4, <2>6, UntouchedLife
  <2>8. QED
    BY <2>7 DEF EventLifetime!lifeVars
<1>3. QED
  BY <1>1, <1>2

(* Every step about h is one of the abstract object's, or none.            *)
LEMMA EventLife ==
  ASSUME EventInv, EventInv', NEW h \in Handles, ~StopsSenders, EventStep(h)
  PROVE  EventLifeStep(h) \/ UNCHANGED EventLifetime!lifeVars
<1>1. \A k \in Handles \ {h} : Untouched(k)
  BY EventApart
<1>2. CASE UdpNext(h) /\ UNCHANGED deviceVars
  <2>1. CASE uv_udp_init(h)
    BY <1>1, <1>2, <2>1, CreateLife
  <2>2. CASE \/ uv_udp_recv_start(h) \/ uv_udp_recv_stop(h) \/ php_uv_udp_recv_cb(h)
             \/ php_uv_udp_send(h) \/ CopyVariable(h)
    BY <1>1, <2>2, WorkLife DEF EventLifeStep
  <2>3. CASE uv_udp_close(h)
    BY <1>1, <2>3, CloseLife DEF EventLifeStep
  <2>4. CASE UnsetSocket(h)
    BY <1>1, <2>4, UnsetLife
  <2>5. CASE php_uv_udp_closed(h)
    BY <1>1, <2>5, ClosedLife DEF EventLifeStep
  <2>6. CASE php_uv_udp_closed_return(h) \/ (ReturnFromCallback(h) /\ UNCHANGED udpVars)
    BY <1>1, <2>6, ReturnLife
  <2>7. CASE php_uv_udp_send_cb(h) \/ php_uv_udp_send_cb_return(h)
    BY <1>1, <2>7, SendLife
  <2>8. QED
    BY <1>2, <2>1, <2>2, <2>3, <2>4, <2>5, <2>6, <2>7 DEF UdpNext, CallbackReturns
<1>3. CASE DeviceNext(h) /\ UNCHANGED udpVars
  <2>1. CASE uv_async_init(h) \/ uv_fs_event_init(h) \/ uv_spawn(h)
    BY <1>1, <1>3, <2>1, CreateLife
  <2>2. CASE uv_async_send(h) \/ php_uv_async_cb(h) \/ php_uv_fs_event_cb(h)
             \/ php_uv_process_close_cb(h)
    BY <1>1, <2>2, WorkLife DEF EventLifeStep
  <2>3. CASE ChildExits(h)
    BY <1>1, <1>3, <2>3, ExitLife DEF EventLifeStep
  <2>4. CASE uv_device_close(h)
    BY <1>1, <1>3, <2>4, CloseLife DEF EventLifeStep
  <2>5. QED
    BY <1>3, <2>1, <2>2, <2>3, <2>4 DEF DeviceNext
<1>4. QED
  BY <1>2, <1>3 DEF EventStep

(* The abstract initial state.                                             *)
LEMMA InitEventLife == EventInit => EventLifetime!Init
<1> SUFFICES ASSUME EventInit PROVE EventLifetime!Init
  OBVIOUS
<1>1. ASSUME NEW h \in Handles PROVE StageOf(h) = "none" /\ EventOwners(h) = {}
  <2>1. /\ obj[h] = Absent /\ vars[h] = 0 /\ lost[h] = 0 /\ sends[h] = 0 /\ ~receiving[h]
        /\ child[h] = "none" /\ frame.handle # h
    BY HandleAssumption DEF EventInit, UdpInit, DeviceInit, HandleInit, NoFrame
  <2>2. StageOf(h) = "none" /\ ~Unreported(h) /\ obj[h].phase # "closing"
    BY <2>1 DEF StageOf, Absent, Unreported
  <2>3. \A x : x \notin EventOwners(h)
    BY <2>1, <2>2, EventOwnersFacts
  <2>4. QED
    BY <2>2, <2>3
<1>2. QED
  BY <1>1 DEF EventLifetime!Init

LEMMA EventLifeStutter ==
  ASSUME UNCHANGED eventVars
  PROVE  UNCHANGED EventLifetime!lifeVars
  BY DEF eventVars, handleVars, udpVars, deviceVars, EventLifetime!lifeVars, StageOf, EventOwners, Unreported

(* Sockets, wake-ups, watches and child processes keep what HandleLifetime *)
(* promises of the memory of every UV object, with any number of objects   *)
(* and in each other's callbacks: an object nobody owns is closed, then    *)
(* freed, and no other step of the C code closes or frees one, but the     *)
(* epilogue of the last send of a socket that the script has let go of.    *)
THEOREM EventsImplementLifetime ==
  ASSUME ~StopsSenders
  PROVE  EventSafety => EventsKeepLifetime
<1> DEFINE Step == EventLifetime!LifeNext \/ \E h \in Handles : FreedByLastSend(h)
<1>1. EventInit => EventLifetime!Init
  BY InitEventLife
<1>2. EventInv /\ EventInv' /\ [EventNext]_eventVars
      => [Step]_(EventLifetime!lifeVars)
  <2> SUFFICES ASSUME EventInv, EventInv', [EventNext]_eventVars, ~UNCHANGED EventLifetime!lifeVars
               PROVE  Step
    OBVIOUS
  <2>1. PICK h \in Handles : EventStep(h)
    BY EventLifeStutter DEF EventNext, EventStep
  <2>2. EventLifeStep(h)
    BY <2>1, EventLife
  <2>3. QED
    BY <2>2 DEF EventLifeStep, EventLifetime!LifeNext
<1>3. QED
  BY <1>1, <1>2, EventInvariant, PTL DEF EventSafety, EventsKeepLifetime
=============================================================================
