--------------------------- MODULE UVHandle_proofs --------------------------
(***************************************************************************)
(* What every handle class needs for its proof.  First, what the C         *)
(* functions of UVHandle return, field by field.  Then the shape of a step:*)
(* every action replaces one object's record, either by a record with the  *)
(* right count (KeepInv) or by the release of one whose count is one more  *)
(* than its remaining holders (DropInv).  Last, the actions all classes    *)
(* share, which keep HandleInv.                                            *)
(***************************************************************************)
EXTENDS UVHandle, TLAPS

(* Taking a reference changes the count and nothing else.                  *)
LEMMA AddRefFields ==
  ASSUME NEW o \in Object
  PROVE  /\ GC_ADDREF(o) \in Object
         /\ GC_ADDREF(o).rc = o.rc + 1
         /\ GC_ADDREF(o).ce = o.ce /\ GC_ADDREF(o).life = o.life
         /\ GC_ADDREF(o).dtored = o.dtored /\ GC_ADDREF(o).phase = o.phase
         /\ GC_ADDREF(o).active = o.active /\ GC_ADDREF(o).notify = o.notify
  BY DEF GC_ADDREF, Object

(* Closing an open handle costs a reference exactly when its activity does *)
(* not own one already.                                                    *)
LEMMA CloseFields ==
  ASSUME NEW o \in Object, o.phase = "open"
  PROVE  /\ php_uv_close(o) \in Object
         /\ php_uv_close(o).rc = IF php_uv_is_handle_referenced(o) THEN o.rc ELSE o.rc + 1
         /\ php_uv_close(o).ce = o.ce /\ php_uv_close(o).life = o.life
         /\ php_uv_close(o).dtored /\ php_uv_close(o).phase = "closing"
         /\ ~php_uv_close(o).active /\ php_uv_close(o).notify = o.notify
<1> DEFINE held == IF php_uv_is_handle_referenced(o) THEN o ELSE GC_ADDREF(o)
<1>1. /\ held \in Object
      /\ held.rc = IF php_uv_is_handle_referenced(o) THEN o.rc ELSE o.rc + 1
      /\ held.ce = o.ce /\ held.life = o.life /\ held.phase = "open"
      /\ held.notify = o.notify
  BY AddRefFields
<1>2. php_uv_close(o) = [held EXCEPT !.phase = "closing", !.active = FALSE, !.dtored = TRUE]
  <2>1. php_uv_close(o) = [libuv_close(held) EXCEPT !.dtored = TRUE]
    BY DEF php_uv_close
  <2>2. libuv_close(held) = [held EXCEPT !.phase = "closing", !.active = FALSE]
    BY <1>1 DEF libuv_close
  <2> HIDE DEF held
  <2>3. QED
    BY <2>1, <2>2, <1>1 DEF Object
<1> HIDE DEF held
<1>3. QED
  BY <1>1, <1>2 DEF Object, Phases

(* Dropping a reference that is not the last one only counts.              *)
LEMMA ReleaseFields ==
  ASSUME NEW o \in Object, o.rc > 1
  PROVE  /\ OBJ_RELEASE(o) \in Object
         /\ OBJ_RELEASE(o).rc = o.rc - 1
         /\ OBJ_RELEASE(o).ce = o.ce /\ OBJ_RELEASE(o).life = o.life
         /\ OBJ_RELEASE(o).dtored = o.dtored /\ OBJ_RELEASE(o).phase = o.phase
         /\ OBJ_RELEASE(o).active = o.active /\ OBJ_RELEASE(o).notify = o.notify
  BY DEF OBJ_RELEASE, Object

(* Dropping the last reference of an object whose close has begun frees it.*)
LEMMA ReleaseLastFields ==
  ASSUME NEW o \in Object, o.rc = 1, o.dtored
  PROVE  /\ OBJ_RELEASE(o) \in Object
         /\ OBJ_RELEASE(o).rc = 0 /\ OBJ_RELEASE(o).life = "freed"
         /\ OBJ_RELEASE(o).ce = o.ce /\ OBJ_RELEASE(o).phase = o.phase
         /\ OBJ_RELEASE(o).dtored
         /\ OBJ_RELEASE(o).active = o.active /\ OBJ_RELEASE(o).notify = o.notify
<1>1. OBJ_RELEASE(o) = zend_free(o)
  BY DEF OBJ_RELEASE
<1>2. zend_free(o) \in Object
  BY DEF zend_free, Object, Lives
<1>3. /\ zend_free(o).rc = 0 /\ zend_free(o).life = "freed"
      /\ zend_free(o).ce = o.ce /\ zend_free(o).phase = o.phase
      /\ zend_free(o).dtored = o.dtored /\ zend_free(o).active = o.active
      /\ zend_free(o).notify = o.notify
  BY DEF zend_free, Object
<1>4. QED
  BY <1>1, <1>2, <1>3

(* Dropping the last reference of an open handle that no activity pays for *)
(* runs its destructor: the object survives, held by its close.            *)
LEMMA ReleaseDestructs ==
  ASSUME NEW o \in Object, o.rc = 1, ~o.dtored, o.phase = "open",
         ~php_uv_is_handle_referenced(o)
  PROVE  /\ OBJ_RELEASE(o) \in Object
         /\ OBJ_RELEASE(o).rc = 1 /\ OBJ_RELEASE(o).life = o.life
         /\ OBJ_RELEASE(o).ce = o.ce /\ OBJ_RELEASE(o).phase = "closing"
         /\ OBJ_RELEASE(o).dtored
         /\ ~OBJ_RELEASE(o).active /\ OBJ_RELEASE(o).notify = o.notify
<1> DEFINE d == [o EXCEPT !.rc = 1, !.dtored = TRUE]
<1>1. /\ d \in Object /\ d.phase = "open" /\ ~php_uv_is_handle_referenced(d)
      /\ d.rc = 1 /\ d.ce = o.ce /\ d.life = o.life /\ d.notify = o.notify
  BY DEF Object, php_uv_is_handle_referenced
<1>3. OBJ_RELEASE(o) = IF php_uv_close(d).rc > 1
                       THEN [php_uv_close(d) EXCEPT !.rc = @ - 1]
                       ELSE zend_free(php_uv_close(d))
  BY DEF OBJ_RELEASE, destruct_uv
<1> HIDE DEF d
<1>2. /\ php_uv_close(d) \in Object /\ php_uv_close(d).rc = 2
      /\ php_uv_close(d).ce = o.ce /\ php_uv_close(d).life = o.life
      /\ php_uv_close(d).dtored /\ php_uv_close(d).phase = "closing"
      /\ ~php_uv_close(d).active /\ php_uv_close(d).notify = o.notify
  BY <1>1, CloseFields
<1>4. QED
  BY <1>2, <1>3 DEF Object

(* Cleaning changes neither the count nor the life of the object.          *)
LEMMA CleanFields ==
  ASSUME NEW o \in Object
  PROVE  /\ clean_uv_handle(o) \in Object
         /\ clean_uv_handle(o).rc = o.rc /\ clean_uv_handle(o).life = o.life
         /\ clean_uv_handle(o).ce = o.ce /\ clean_uv_handle(o).phase = o.phase
         /\ clean_uv_handle(o).dtored /\ clean_uv_handle(o).active = o.active
  BY DEF clean_uv_handle, Object

(* php_uv_close, on any object.                                            *)
LEMMA CloseAny ==
  ASSUME NEW o \in Object
  PROVE  /\ php_uv_close(o) \in Object
         /\ ~php_uv_close(o).active /\ php_uv_close(o).phase \in {"closing", "aborted"}
         /\ php_uv_close(o).ce = o.ce
<1> DEFINE held == IF php_uv_is_handle_referenced(o) THEN o ELSE GC_ADDREF(o)
           p == IF held.phase = "open" THEN "closing" ELSE "aborted"
<1>1. held \in Object /\ held.ce = o.ce
  BY AddRefFields
<1>2. libuv_close(held) = [held EXCEPT !.phase = p, !.active = FALSE]
  BY DEF libuv_close
<1>3. php_uv_close(o) = [libuv_close(held) EXCEPT !.dtored = TRUE]
  BY DEF php_uv_close
<1> HIDE DEF held
<1>4. p \in {"closing", "aborted"} /\ p \in Phases
  BY DEF Phases
<1> HIDE DEF p
<1> DEFINE stopped == [held EXCEPT !.phase = p, !.active = FALSE]
<1>5. stopped \in Object /\ ~stopped.active /\ stopped.phase = p /\ stopped.ce = o.ce
  BY <1>1, <1>4 DEF Object
<1>6. php_uv_close(o) = [stopped EXCEPT !.dtored = TRUE]
  BY <1>2, <1>3
<1> HIDE DEF stopped
<1>7. QED
  BY <1>4, <1>5, <1>6 DEF Object

(* OBJ_RELEASE, on any object.                                             *)
LEMMA ReleaseAny ==
  ASSUME NEW o \in Object
  PROVE  OBJ_RELEASE(o) \in Object /\ OBJ_RELEASE(o).ce = o.ce
<1>1. CASE o.rc > 1
  BY <1>1, ReleaseFields
<1>2. ASSUME NEW x \in Object PROVE zend_free(x) \in Object /\ zend_free(x).ce = x.ce
  BY DEF zend_free, Object, Lives
<1>3. CASE ~(o.rc > 1) /\ ~o.dtored
  <2> DEFINE i == [o EXCEPT !.rc = 1, !.dtored = TRUE]
             d == php_uv_close(i)
  <2>1. OBJ_RELEASE(o) = IF d.rc > 1 THEN [d EXCEPT !.rc = @ - 1] ELSE zend_free(d)
    BY <1>3 DEF OBJ_RELEASE, destruct_uv
  <2>2. i \in Object /\ i.ce = o.ce
    BY DEF Object
  <2> HIDE DEF i
  <2>3. d \in Object /\ d.ce = o.ce
    BY <2>2, CloseAny
  <2> HIDE DEF d
  <2>4. QED
    BY <1>2, <2>1, <2>3 DEF Object
<1>4. CASE ~(o.rc > 1) /\ o.dtored
  BY <1>2, <1>4 DEF OBJ_RELEASE
<1>5. QED
  BY <1>1, <1>3, <1>4

-----------------------------------------------------------------------------
(* Exact counting survives a release.  n is the number of holders other    *)
(* than libuv that remain once the reference is dropped: the object stays  *)
(* as it was, or begins to close because nobody is left, or is freed       *)
(* because nobody is left and libuv is done with it.                       *)
LEMMA ReleaseExact ==
  ASSUME NEW o \in Object, NEW n \in Nat, LiveShape(o),
         o.rc = LoopRef(o) + CloseRef(o) + n + 1
  PROVE  LET r == OBJ_RELEASE(o)
         IN  /\ r \in Object
             /\ \/ /\ LiveShape(r) /\ r.rc > 0
                   /\ r.rc = LoopRef(r) + CloseRef(r) + n
                   /\ \/ r.phase = o.phase
                      \/ /\ o.phase = "open" /\ r.phase = "closing"
                         /\ n = 0 /\ LoopRef(o) = 0
                   /\ r.phase = "closed" <=> o.phase = "closed"
                \/ /\ r.life = "freed" /\ r.rc = 0 /\ n = 0
                   /\ o.phase = "closed" /\ r.phase = "closed" /\ ~r.active
<1> DEFINE r == OBJ_RELEASE(o)
<1>1. LoopRef(o) \in {0, 1} /\ CloseRef(o) \in {0, 1} /\ o.rc \in Nat
  BY DEF LoopRef, CloseRef, Object
<1>2. CASE o.rc > 1
  <2>1. /\ r \in Object /\ r.rc = o.rc - 1
        /\ r.ce = o.ce /\ r.life = o.life /\ r.dtored = o.dtored
        /\ r.phase = o.phase /\ r.active = o.active
    BY <1>2, ReleaseFields
  <2> HIDE DEF r
  <2>2. LiveShape(r) /\ LoopRef(r) = LoopRef(o) /\ CloseRef(r) = CloseRef(o)
    BY <2>1 DEF LiveShape, LoopRef, CloseRef, php_uv_is_handle_referenced
  <2>3. QED
    BY <1>1, <1>2, <2>1, <2>2 DEF r
<1>3. CASE ~(o.rc > 1)
  <2>1. o.rc = 1 /\ n = 0 /\ LoopRef(o) = 0 /\ CloseRef(o) = 0
    BY <1>1, <1>3
  <2>2. ~php_uv_is_handle_referenced(o) /\ o.phase # "closing"
    BY <2>1 DEF LoopRef, CloseRef
  <2>3. CASE o.dtored
    <3>1. o.phase = "closed" /\ ~o.active
      BY <2>2, <2>3 DEF LiveShape, Object, Phases
    <3>2. r \in Object /\ r.rc = 0 /\ r.life = "freed" /\ r.phase = o.phase /\ r.active = o.active
      BY <2>1, <2>3, ReleaseLastFields
    <3>3. QED
      BY <2>1, <3>1, <3>2
  <2>4. CASE ~o.dtored
    <3>1. o.phase = "open"
      BY <2>4 DEF LiveShape
    <3>2. /\ r \in Object /\ r.rc = 1 /\ r.life = o.life /\ r.ce = o.ce
          /\ r.phase = "closing" /\ r.dtored /\ ~r.active
      BY <2>1, <2>2, <2>4, <3>1, ReleaseDestructs
    <3> HIDE DEF r
    <3>3. LiveShape(r) /\ LoopRef(r) = 0 /\ CloseRef(r) = 1
      BY <3>2 DEF LiveShape, LoopRef, CloseRef, php_uv_is_handle_referenced
    <3>4. QED
      BY <2>1, <3>1, <3>2, <3>3 DEF r
  <2>5. QED
    BY <2>3, <2>4
<1>4. QED
  BY <1>2, <1>3

-----------------------------------------------------------------------------
(* A step on h: the counters have their types, and say about every other   *)
(* object what they said before.                                           *)
Elsewhere(h) ==
  /\ vars' \in [Handles -> 0 .. MaxVars]
  /\ reqs' \in [Handles -> [ReqKinds -> 0 .. MaxReqs]]
  /\ lost' \in [Handles -> 0 .. MaxLost]
  /\ \A k \in Handles \ {h} :
       vars'[k] = vars[k] /\ reqs'[k] = reqs[k] /\ lost'[k] = lost[k]

(* The same of the running callback.                                       *)
FrameElsewhere(h) ==
  /\ frame' \in [handle : Handles \cup {NoHandle}, cb : Callbacks]
  /\ \A k \in Handles \ {h} :
       /\ frame'.handle = k <=> frame.handle = k
       /\ frame'.handle = k => frame' = frame

(* The holders of h other than libuv, without and with a running callback. *)
Kept(h)   == vars[h] + Pending(h) + lost[h]
Others(h) == Kept(h) + FrameRefs(h)

(* The counters are natural numbers, before a step...                      *)
LEMMA CountersNat ==
  ASSUME HandleInv, NEW h \in Handles
  PROVE  /\ vars[h] \in Nat /\ Pending(h) \in Nat /\ lost[h] \in Nat
         /\ Kept(h) \in Nat /\ FrameRefs(h) \in {0, 2}
  BY HandleAssumption DEF HandleInv, HandleTypeOK, Pending, ReqKinds, Kept, FrameRefs

(* ... and after it.                                                       *)
LEMMA CountersNatAfter ==
  ASSUME NEW h \in Handles, Elsewhere(h)
  PROVE  /\ vars'[h] \in Nat /\ Pending(h)' \in Nat /\ lost'[h] \in Nat
         /\ Kept(h)' = vars'[h] + Pending(h)' + lost'[h]
         /\ Kept(h)' \in Nat /\ FrameRefs(h)' \in {0, 2}
  BY HandleAssumption DEF Elsewhere, Pending, ReqKinds, Kept, FrameRefs

(* A step that touches only h leaves the invariant of the others intact.   *)
LEMMA OneObject ==
  ASSUME HandleInv, NEW h \in Handles, NEW o \in Object,
         obj' = [obj EXCEPT ![h] = o], Elsewhere(h), FrameElsewhere(h),
         WellFormed(h)', WellCounted(h)'
  PROVE  HandleInv'
<1>1. HandleTypeOK'
  BY DEF HandleInv, HandleTypeOK, Elsewhere, FrameElsewhere
<1>2. SUFFICES ASSUME NEW k \in Handles, k # h
               PROVE  WellFormed(k)' /\ WellCounted(k)'
  BY <1>1 DEF HandleInv
<1>3. WellFormed(k) /\ WellCounted(k)
  BY DEF HandleInv
<1>4. /\ obj'[k] = obj[k] /\ vars'[k] = vars[k] /\ reqs'[k] = reqs[k] /\ lost'[k] = lost[k]
      /\ frame'.handle = k <=> frame.handle = k
      /\ frame'.handle = k => frame' = frame
  BY <1>2 DEF HandleInv, HandleTypeOK, Elsewhere, FrameElsewhere
<1>5. Pending(k)' = Pending(k)
  BY <1>4 DEF Pending
<1>6. WellFormed(k)'
  BY <1>3, <1>4, <1>5 DEF WellFormed, LiveShape
<1>7. Holders(k)' = Holders(k)
  BY <1>4, <1>5 DEF Holders, FrameRefs, LoopRef, CloseRef, php_uv_is_handle_referenced
<1>8. WellCounted(k)'
  BY <1>3, <1>4, <1>7 DEF WellCounted
<1>9. QED
  BY <1>6, <1>8

(* A step that gives h a record with the right count keeps the invariant.  *)
LEMMA KeepInv ==
  ASSUME HandleInv, NEW h \in Handles, NEW o \in Object,
         obj' = [obj EXCEPT ![h] = o], Elsewhere(h), FrameElsewhere(h),
         LiveShape(o),
         frame'.handle = h => (frame'.cb = "close" <=> o.phase = "closed"),
         o.rc > 0,
         o.rc = LoopRef(o) + CloseRef(o) + Others(h)'
  PROVE  HandleInv'
<1>1. obj'[h] = o
  BY DEF HandleInv, HandleTypeOK
<1>2. LoopRef(o) \in Nat /\ CloseRef(o) \in Nat
  BY DEF LoopRef, CloseRef
<1>3. WellFormed(h)'
  BY <1>1 DEF WellFormed
<1>4. Holders(h)' = LoopRef(o) + CloseRef(o) + Pending(h)' + vars'[h] + FrameRefs(h)' + lost'[h]
  BY <1>1 DEF Holders, LoopRef, CloseRef, php_uv_is_handle_referenced
<1>5. WellCounted(h)'
  BY <1>1, <1>2, <1>4, CountersNatAfter DEF WellCounted, Others
<1>6. QED
  BY <1>3, <1>5, OneObject

(* So does a step that releases one reference more than h has holders.     *)
LEMMA DropInv ==
  ASSUME HandleInv, NEW h \in Handles, NEW o \in Object,
         obj' = [obj EXCEPT ![h] = OBJ_RELEASE(o)], Elsewhere(h), FrameElsewhere(h),
         LiveShape(o),
         frame'.handle = h => (frame'.cb = "close" <=> o.phase = "closed"),
         o.rc = LoopRef(o) + CloseRef(o) + Others(h)' + 1
  PROVE  HandleInv'
<1> DEFINE r == OBJ_RELEASE(o)
           n == Others(h)'
<1>1. n = Kept(h)' + FrameRefs(h)' /\ n \in Nat
  BY CountersNatAfter DEF Others
<1>2. /\ r \in Object
      /\ \/ /\ LiveShape(r) /\ r.rc > 0
            /\ r.rc = LoopRef(r) + CloseRef(r) + n
            /\ r.phase = o.phase \/ n = 0
            /\ r.phase = "closed" <=> o.phase = "closed"
         \/ /\ r.life = "freed" /\ r.rc = 0 /\ n = 0
            /\ r.phase = "closed" /\ ~r.active
  BY <1>1, ReleaseExact
<1> HIDE DEF r, n
<1>3. obj' = [obj EXCEPT ![h] = r]
  BY DEF r
<1>4. CASE LiveShape(r)
  <2>1. r.life = "live"
    BY <1>4 DEF LiveShape
  <2>2. QED
    BY <1>2, <1>3, <1>4, <2>1, KeepInv DEF n
<1>5. CASE r.life = "freed" /\ r.rc = 0 /\ n = 0 /\ r.phase = "closed" /\ ~r.active
  <2>0. /\ vars'[h] \in Nat /\ Pending(h)' \in Nat /\ lost'[h] \in Nat
        /\ Kept(h)' = vars'[h] + Pending(h)' + lost'[h]
        /\ Kept(h)' \in Nat /\ FrameRefs(h)' \in {0, 2}
    BY CountersNatAfter
  <2>1. vars'[h] = 0 /\ Pending(h)' = 0 /\ lost'[h] = 0 /\ FrameRefs(h)' = 0
    <3> DEFINE a == vars'[h]  b == Pending(h)'  c == lost'[h]  f == FrameRefs(h)'
               k == Kept(h)'
    <3>1. /\ a \in Nat /\ b \in Nat /\ c \in Nat /\ k = a + b + c /\ f \in Nat
          /\ k + f = 0
      BY <1>1, <1>5, <2>0
    <3> HIDE DEF a, b, c, f, k
    <3>2. a = 0 /\ b = 0 /\ c = 0 /\ f = 0
      BY <3>1
    <3>3. QED
      BY <3>2 DEF a, b, c, f
  <2>2. frame'.handle # h
    BY <2>1 DEF FrameRefs
  <2>3. obj'[h] = r
    BY <1>3 DEF HandleInv, HandleTypeOK
  <2>4. WellFormed(h)' /\ WellCounted(h)'
    BY <1>5, <2>1, <2>2, <2>3 DEF WellFormed, WellCounted
  <2>5. QED
    BY <1>2, <1>3, <2>4, OneObject
<1>6. QED
  BY <1>2, <1>4, <1>5

-----------------------------------------------------------------------------
(* The invariant holds before the script creates anything.                 *)
LEMMA InitInv == HandleInit => HandleInv
<1> SUFFICES ASSUME HandleInit PROVE HandleInv
  OBVIOUS
<1>1. Absent \in Object
  BY DEF Absent, Object, Lives, Phases
<1>2. NoFrame \in [handle : Handles \cup {NoHandle}, cb : Callbacks]
  BY DEF NoFrame, Callbacks
<1>3. NoReqs \in [ReqKinds -> 0 .. MaxReqs] /\ \A h \in Handles : Pending(h) = 0
  BY HandleAssumption DEF HandleInit, NoReqs, Pending, ReqKinds
<1>4. HandleTypeOK
  BY <1>1, <1>2, <1>3, HandleAssumption DEF HandleInit, HandleTypeOK
<1>5. ASSUME NEW h \in Handles PROVE WellFormed(h) /\ WellCounted(h)
  BY <1>3, HandleAssumption DEF HandleInit, WellFormed, WellCounted, Absent, NoFrame
<1>6. QED
  BY <1>4, <1>5 DEF HandleInv

(* What the invariant says of a live object.                               *)
LEMMA LiveFacts ==
  ASSUME HandleInv, NEW h \in Handles, obj[h].life = "live"
  PROVE  /\ obj[h] \in Object /\ LiveShape(obj[h]) /\ obj[h].rc > 0
         /\ obj[h].rc = LoopRef(obj[h]) + CloseRef(obj[h]) + Others(h)
         /\ LoopRef(obj[h]) \in {0, 1} /\ CloseRef(obj[h]) \in {0, 1}
         /\ frame.handle = h => (frame.cb = "close" <=> obj[h].phase = "closed")
<1>1. HandleTypeOK /\ WellFormed(h) /\ WellCounted(h)
  BY DEF HandleInv
<1>2. LoopRef(obj[h]) \in {0, 1} /\ CloseRef(obj[h]) \in {0, 1}
  BY DEF LoopRef, CloseRef
<1>3. obj[h] \in Object
  BY <1>1 DEF HandleTypeOK
<1>4. LiveShape(obj[h])
  BY <1>1 DEF WellFormed, Absent
<1>5. frame.handle = h => (frame.cb = "close" <=> obj[h].phase = "closed")
  BY <1>1 DEF WellFormed, Absent
<1>6. obj[h].rc = LoopRef(obj[h]) + CloseRef(obj[h]) + Others(h)
  BY <1>1, <1>2, CountersNat DEF WellCounted, Holders, Others, Kept
<1>7. QED
  BY <1>1, <1>2, <1>3, <1>4, <1>5, <1>6 DEF WellCounted

(* A step that leaves everything but obj as it is.                         *)
LEMMA QuietElsewhere ==
  ASSUME HandleInv, NEW h \in Handles, vars' = vars, reqs' = reqs, frame' = frame, lost' = lost
  PROVE  /\ Elsewhere(h) /\ FrameElsewhere(h)
         /\ Kept(h)' = Kept(h) /\ Others(h)' = Others(h)
<1>1. Elsewhere(h) /\ FrameElsewhere(h)
  BY DEF HandleInv, HandleTypeOK, Elsewhere, FrameElsewhere
<1>2. Kept(h)' = Kept(h) /\ FrameRefs(h)' = FrameRefs(h)
  BY DEF Kept, Pending, FrameRefs
<1>3. QED
  BY <1>1, <1>2 DEF Others

(* GC_ADDREF on a live object, read off the invariant.                     *)
LEMMA AddRefLive ==
  ASSUME HandleInv, NEW h \in Handles, obj[h].life = "live"
  PROVE  LET o == GC_ADDREF(obj[h])
         IN  /\ o \in Object /\ LiveShape(o)
             /\ o.phase = obj[h].phase /\ o.active = obj[h].active /\ o.ce = obj[h].ce
             /\ LoopRef(o) = LoopRef(obj[h]) /\ CloseRef(o) = CloseRef(obj[h])
             /\ o.rc = LoopRef(o) + CloseRef(o) + Others(h) + 1
<1> DEFINE o == GC_ADDREF(obj[h])
<1>1. /\ o \in Object /\ o.rc = obj[h].rc + 1 /\ o.ce = obj[h].ce
      /\ o.life = obj[h].life /\ o.dtored = obj[h].dtored
      /\ o.phase = obj[h].phase /\ o.active = obj[h].active
  BY LiveFacts, AddRefFields
<1> HIDE DEF o
<1>2. LiveShape(o) /\ LoopRef(o) = LoopRef(obj[h]) /\ CloseRef(o) = CloseRef(obj[h])
  BY <1>1, LiveFacts DEF LiveShape, LoopRef, CloseRef, php_uv_is_handle_referenced
<1>3. Others(h) \in Nat
  BY CountersNat DEF Others
<1>4. o.rc = LoopRef(o) + CloseRef(o) + Others(h) + 1
  BY <1>1, <1>2, <1>3, LiveFacts
<1>5. QED
  BY <1>1, <1>2, <1>4 DEF o

-----------------------------------------------------------------------------
(* The actions every class shares.                                         *)

(* A new object has one reference, the script's.                           *)
LEMMA CreateInv ==
  ASSUME HandleInv, NEW h \in Handles, NEW class \in Classes, CreateHandle(h, class)
  PROVE  HandleInv'
<1> DEFINE o == create_uv(class)
<1>1. /\ o \in Object /\ o.ce = class /\ o.life = "live" /\ o.rc = 1
      /\ ~o.dtored /\ o.phase = "open" /\ ~o.active
  BY DEF create_uv, Absent, Object, Lives, Phases
<1>2. obj' = [obj EXCEPT ![h] = o]
  BY DEF CreateHandle
<1> HIDE DEF o
<1>3. LiveShape(o) /\ LoopRef(o) = 0 /\ CloseRef(o) = 0
  BY <1>1 DEF LiveShape, LoopRef, CloseRef, php_uv_is_handle_referenced
<1>4. vars[h] = 0 /\ Pending(h) = 0 /\ lost[h] = 0 /\ frame.handle # h
  BY DEF HandleInv, CreateHandle, WellFormed, LiveShape
<1>5. vars' = [vars EXCEPT ![h] = 1] /\ reqs' = reqs /\ frame' = frame /\ lost' = lost
  BY DEF CreateHandle
<1>6. Elsewhere(h) /\ FrameElsewhere(h)
  BY <1>5, HandleAssumption DEF HandleInv, HandleTypeOK, Elsewhere, FrameElsewhere
<1>7. Others(h)' = 1
  <2>1. vars'[h] = 1 /\ Pending(h)' = 0 /\ lost'[h] = 0 /\ FrameRefs(h)' = 0
    BY <1>4, <1>5 DEF HandleInv, HandleTypeOK, Pending, FrameRefs
  <2>2. QED
    BY <2>1 DEF Others, Kept
<1>8. o.rc > 0 /\ o.rc = LoopRef(o) + CloseRef(o) + Others(h)'
  BY <1>1, <1>3, <1>7
<1>9. frame'.handle # h
  BY <1>4, <1>5
<1>10. QED
  BY <1>1, <1>2, <1>3, <1>6, <1>8, <1>9, KeepInv

(* A new variable takes a reference.                                       *)
LEMMA CopyInv ==
  ASSUME HandleInv, NEW h \in Handles, CopyVariable(h)
  PROVE  HandleInv'
<1> DEFINE o == GC_ADDREF(obj[h])
<1>1. obj' = [obj EXCEPT ![h] = o] /\ obj[h].life = "live"
  BY DEF CopyVariable, Visible
<1>2. /\ o \in Object /\ LiveShape(o) /\ o.phase = obj[h].phase
      /\ o.rc = LoopRef(o) + CloseRef(o) + Others(h) + 1
  BY <1>1, AddRefLive
<1> HIDE DEF o
<1>3. /\ vars' = [vars EXCEPT ![h] = @ + 1] /\ vars[h] < MaxVars
      /\ reqs' = reqs /\ frame' = frame /\ lost' = lost
  BY DEF CopyVariable
<1>4. Elsewhere(h) /\ FrameElsewhere(h)
  BY <1>3, HandleAssumption DEF HandleInv, HandleTypeOK, Elsewhere, FrameElsewhere
<1>5. Others(h)' = Others(h) + 1 /\ Others(h) \in Nat
  <2>1. vars'[h] = vars[h] + 1 /\ Pending(h)' = Pending(h) /\ lost'[h] = lost[h] /\ FrameRefs(h)' = FrameRefs(h)
    BY <1>3 DEF HandleInv, HandleTypeOK, Pending, FrameRefs
  <2>2. QED
    BY <2>1, CountersNat DEF Others, Kept
<1>6. LoopRef(o) \in Nat /\ CloseRef(o) \in Nat
  BY DEF LoopRef, CloseRef
<1>7. o.rc > 0 /\ o.rc = LoopRef(o) + CloseRef(o) + Others(h)'
  BY <1>2, <1>5, <1>6
<1>8. QED
  BY <1>1, <1>2, <1>3, <1>4, <1>7, LiveFacts, KeepInv

(* A variable that goes away gives one back.                               *)
LEMMA UnsetInv ==
  ASSUME HandleInv, NEW h \in Handles, UnsetVariable(h)
  PROVE  HandleInv'
<1>1. obj' = [obj EXCEPT ![h] = OBJ_RELEASE(obj[h])] /\ obj[h].life = "live"
  BY DEF UnsetVariable, Visible
<1>2. /\ vars' = [vars EXCEPT ![h] = @ - 1] /\ vars[h] > 0
      /\ reqs' = reqs /\ frame' = frame /\ lost' = lost
  BY DEF UnsetVariable
<1>3. Elsewhere(h) /\ FrameElsewhere(h)
  BY <1>2, HandleAssumption DEF HandleInv, HandleTypeOK, Elsewhere, FrameElsewhere
<1>4. Others(h)' + 1 = Others(h) /\ Others(h)' \in Nat
  <2>1. vars'[h] = vars[h] - 1 /\ Pending(h)' = Pending(h) /\ lost'[h] = lost[h] /\ FrameRefs(h)' = FrameRefs(h)
    BY <1>2 DEF HandleInv, HandleTypeOK, Pending, FrameRefs
  <2>2. QED
    BY <2>1, <1>2, CountersNat DEF Others, Kept
<1>5. obj[h].rc = LoopRef(obj[h]) + CloseRef(obj[h]) + Others(h)' + 1
  BY <1>1, <1>4, LiveFacts
<1>6. frame'.handle = h => (frame'.cb = "close" <=> obj[h].phase = "closed")
  BY <1>1, <1>2, LiveFacts
<1>7. QED
  BY <1>1, <1>3, <1>5, <1>6, LiveFacts, DropInv

(* uv_close hands the reference of the activity to the close, or takes one.*)
LEMMA CloseInv ==
  ASSUME HandleInv, NEW h \in Handles, uv_close(h)
  PROVE  HandleInv'
<1>1. PICK callable \in BOOLEAN :
        obj' = [obj EXCEPT ![h] = php_uv_close([@ EXCEPT !.notify = callable])]
  BY DEF uv_close
<1> DEFINE i == [obj[h] EXCEPT !.notify = callable]
           o == php_uv_close(i)
<1>2. obj' = [obj EXCEPT ![h] = o] /\ obj[h].life = "live" /\ ~obj[h].dtored
  BY <1>1 DEF uv_close, Usable, Visible
<1>3. LiveShape(obj[h]) /\ obj[h].phase = "open"
  BY <1>2, LiveFacts DEF LiveShape
<1>4. /\ i \in Object /\ i.rc = obj[h].rc /\ i.ce = obj[h].ce /\ i.life = "live"
      /\ i.phase = "open" /\ i.active = obj[h].active
  BY <1>2, <1>3, LiveFacts DEF Object
<1> HIDE DEF i
<1>5. /\ o \in Object /\ o.ce = i.ce /\ o.life = i.life /\ o.dtored
      /\ o.rc = IF php_uv_is_handle_referenced(i) THEN i.rc ELSE i.rc + 1
      /\ o.phase = "closing" /\ ~o.active
  BY <1>4, CloseFields
<1> HIDE DEF o
<1>6. /\ LiveShape(o) /\ LoopRef(o) = 0 /\ CloseRef(o) = 1
      /\ LoopRef(i) = LoopRef(obj[h]) /\ CloseRef(obj[h]) = 0
  BY <1>3, <1>4, <1>5 DEF LiveShape, LoopRef, CloseRef, php_uv_is_handle_referenced
<1>7. vars' = vars /\ reqs' = reqs /\ frame' = frame /\ lost' = lost
  BY DEF uv_close
<1>8. Others(h) \in Nat /\ Others(h)' = Others(h) /\ Elsewhere(h) /\ FrameElsewhere(h)
  BY <1>7, CountersNat, QuietElsewhere DEF Others
<1>9. o.rc > 0 /\ o.rc = LoopRef(o) + CloseRef(o) + Others(h)'
  BY <1>2, <1>4, <1>5, <1>6, <1>8, LiveFacts DEF LoopRef
<1>10. frame'.handle = h => (frame'.cb = "close" <=> o.phase = "closed")
  BY <1>2, <1>3, <1>5, <1>7, LiveFacts
<1>11. QED
  BY <1>2, <1>5, <1>6, <1>8, <1>9, <1>10, KeepInv

-----------------------------------------------------------------------------
(* Callbacks.                                                              *)

(* Entering a PHP callback with o, when the C callback holds a reference   *)
(* for params[0].                                                          *)
LEMMA CallInv ==
  ASSUME HandleInv, NEW h \in Handles, NEW cb \in Callbacks, NEW o \in Object,
         CallPHP(h, cb, o), Elsewhere(h), LiveShape(o),
         cb = "close" <=> o.phase = "closed",
         o.rc = LoopRef(o) + CloseRef(o) + Kept(h)' + 1
  PROVE  HandleInv'
<1> DEFINE r == GC_ADDREF(o)
<1>1. /\ obj' = [obj EXCEPT ![h] = r]
      /\ frame = NoFrame /\ frame' = [handle |-> h, cb |-> cb]
  BY DEF CallPHP
<1>2. /\ r \in Object /\ r.rc = o.rc + 1 /\ r.ce = o.ce /\ r.life = o.life
      /\ r.dtored = o.dtored /\ r.phase = o.phase /\ r.active = o.active
  BY AddRefFields
<1> HIDE DEF r
<1>3. LiveShape(r) /\ LoopRef(r) = LoopRef(o) /\ CloseRef(r) = CloseRef(o)
  BY <1>2 DEF LiveShape, LoopRef, CloseRef, php_uv_is_handle_referenced
<1>4. frame.handle = NoHandle /\ \A k \in Handles : k # NoHandle
  BY <1>1, HandleAssumption DEF NoFrame
<1>5. FrameRefs(h)' = 2 /\ frame'.handle = h /\ frame'.cb = cb
  BY <1>1 DEF FrameRefs
<1>6. FrameElsewhere(h)
  BY <1>1, <1>4 DEF FrameElsewhere
<1>7. Others(h)' = Kept(h)' + 2 /\ Kept(h)' \in Nat
  BY <1>5, CountersNatAfter DEF Others
<1>8. LoopRef(o) \in Nat /\ CloseRef(o) \in Nat
  BY DEF LoopRef, CloseRef
<1>9. r.rc > 0 /\ r.rc = LoopRef(r) + CloseRef(r) + Others(h)'
  BY <1>2, <1>3, <1>7, <1>8
<1>10. QED
  BY <1>1, <1>2, <1>3, <1>5, <1>6, <1>9, KeepInv

(* Without a running callback, the kept references are all there are.      *)
LEMMA NoFrameKept ==
  ASSUME NEW h \in Handles, HandleInv, frame = NoFrame
  PROVE  Others(h) = Kept(h)
<1>1. FrameRefs(h) = 0
  BY HandleAssumption DEF FrameRefs, NoFrame
<1>2. QED
  BY <1>1, CountersNat DEF Others

(* A C callback with o, whether or not there is a callable to call.        *)
LEMMA DoCallbackInv ==
  ASSUME HandleInv, NEW h \in Handles, NEW cb \in Callbacks, NEW o \in Object,
         DoCallback(h, cb, o), Elsewhere(h), LiveShape(o),
         cb # "close", o.phase # "closed",
         o.rc = LoopRef(o) + CloseRef(o) + Kept(h)' + 1
  PROVE  HandleInv'
<1>1. CASE CallPHP(h, cb, o)
  BY <1>1, CallInv
<1>2. CASE frame = NoFrame /\ obj' = [obj EXCEPT ![h] = OBJ_RELEASE(o)] /\ frame' = frame
  <2>1. FrameElsewhere(h) /\ frame'.handle # h /\ FrameRefs(h)' = 0
    BY <1>2, HandleAssumption DEF HandleInv, HandleTypeOK, FrameElsewhere, FrameRefs, NoFrame
  <2>2. Others(h)' = Kept(h)'
    BY <2>1, CountersNatAfter DEF Others
  <2>3. QED
    BY <1>2, <2>1, <2>2, DropInv
<1>3. QED
  BY <1>1, <1>2 DEF DoCallback

(* Leaving a callback drops the argument's copy; one release remains.      *)
LEMMA LeaveFacts ==
  ASSUME HandleInv, NEW h \in Handles, frame.handle = h, frame' = NoFrame,
         vars' = vars, reqs' = reqs, lost' = lost
  PROVE  /\ obj[h].life = "live" /\ obj[h].rc > 1
         /\ LET o == OBJ_RELEASE(obj[h])
            IN  /\ o \in Object /\ LiveShape(o) /\ o.phase = obj[h].phase
                /\ o.rc = LoopRef(o) + CloseRef(o) + Others(h)' + 1
         /\ Elsewhere(h) /\ FrameElsewhere(h) /\ frame'.handle # h
<1> DEFINE o == OBJ_RELEASE(obj[h])
<1>1. obj[h].life = "live"
  BY DEF HandleInv, WellFormed, LiveShape
<1>2. frame'.handle # h /\ FrameRefs(h) = 2 /\ FrameRefs(h)' = 0 /\ Kept(h)' = Kept(h)
  BY HandleAssumption DEF FrameRefs, NoFrame, Kept, Pending
<1>3. Others(h) = Others(h)' + 2 /\ Others(h)' \in Nat
  BY <1>2, CountersNat DEF Others
<1>4. obj[h].rc > 1
  BY <1>1, <1>3, LiveFacts
<1>5. /\ o \in Object /\ o.rc = obj[h].rc - 1 /\ o.ce = obj[h].ce
      /\ o.life = obj[h].life /\ o.dtored = obj[h].dtored
      /\ o.phase = obj[h].phase /\ o.active = obj[h].active
  BY <1>1, <1>4, LiveFacts, ReleaseFields
<1> HIDE DEF o
<1>6. LiveShape(o) /\ LoopRef(o) = LoopRef(obj[h]) /\ CloseRef(o) = CloseRef(obj[h])
  BY <1>1, <1>5, LiveFacts DEF LiveShape, LoopRef, CloseRef, php_uv_is_handle_referenced
<1>7. o.rc = LoopRef(o) + CloseRef(o) + Others(h)' + 1
  BY <1>1, <1>3, <1>5, <1>6, LiveFacts
<1>8. Elsewhere(h) /\ FrameElsewhere(h)
  BY HandleAssumption DEF HandleInv, HandleTypeOK, Elsewhere, FrameElsewhere, NoFrame, Callbacks
<1>9. QED
  BY <1>1, <1>2, <1>4, <1>5, <1>6, <1>7, <1>8 DEF o

(* The return of any callback but the close callback.                      *)
LEMMA ReturnInv ==
  ASSUME HandleInv, NEW h \in Handles, ReturnFromCallback(h)
  PROVE  HandleInv'
<1>1. /\ frame.handle = h /\ frame' = NoFrame
      /\ vars' = vars /\ reqs' = reqs /\ lost' = lost
      /\ obj' = [obj EXCEPT ![h] = OBJ_RELEASE(OBJ_RELEASE(obj[h]))]
  BY DEF ReturnFromCallback
<1>2. QED
  BY <1>1, LeaveFacts, DropInv

(* Cleaning a closed object leaves its count as it was.                    *)
LEMMA CleanClosed ==
  ASSUME NEW o \in Object, LiveShape(o), o.phase = "closed"
  PROVE  LET c == clean_uv_handle(o)
         IN  /\ c \in Object /\ LiveShape(c) /\ c.phase = "closed" /\ c.rc = o.rc
             /\ LoopRef(c) = LoopRef(o) /\ CloseRef(c) = CloseRef(o)
<1> DEFINE c == clean_uv_handle(o)
<1>1. /\ c \in Object /\ c.rc = o.rc /\ c.life = o.life /\ c.ce = o.ce
      /\ c.phase = o.phase /\ c.dtored /\ c.active = o.active
  BY CleanFields
<1> HIDE DEF c
<1>2. LiveShape(c) /\ LoopRef(c) = LoopRef(o) /\ CloseRef(c) = CloseRef(o)
  BY <1>1 DEF LiveShape, LoopRef, CloseRef, php_uv_is_handle_referenced
<1>3. QED
  BY <1>1, <1>2 DEF c

(* The return of the close callback.                                       *)
LEMMA CloseReturnInv ==
  ASSUME HandleInv, NEW h \in Handles, php_uv_close_cb_return(h)
  PROVE  HandleInv'
<1> DEFINE o == OBJ_RELEASE(obj[h])
           c == clean_uv_handle(o)
<1>1. /\ frame.handle = h /\ frame.cb = "close"
      /\ frame' = NoFrame /\ vars' = vars /\ reqs' = reqs /\ lost' = lost
      /\ obj' = [obj EXCEPT ![h] = OBJ_RELEASE(c)]
  BY DEF php_uv_close_cb_return
<1>2. /\ o \in Object /\ LiveShape(o) /\ o.phase = obj[h].phase
      /\ o.rc = LoopRef(o) + CloseRef(o) + Others(h)' + 1
      /\ Elsewhere(h) /\ FrameElsewhere(h) /\ frame'.handle # h /\ obj[h].life = "live"
  BY <1>1, LeaveFacts
<1> HIDE DEF o
<1>3. o.phase = "closed"
  BY <1>1, <1>2, LiveFacts
<1>4. /\ c \in Object /\ LiveShape(c) /\ c.phase = "closed" /\ c.rc = o.rc
      /\ LoopRef(c) = LoopRef(o) /\ CloseRef(c) = CloseRef(o)
  BY <1>2, <1>3, CleanClosed
<1> HIDE DEF c
<1>5. QED
  BY <1>1, <1>2, <1>4, DropInv

(* The end of a close, with or without a callback to call.                 *)
LEMMA CloseCallbackInv ==
  ASSUME HandleInv, NEW h \in Handles, php_uv_close_cb(h)
  PROVE  HandleInv'
<1> DEFINE o == [obj[h] EXCEPT !.phase = "closed"]
           c == clean_uv_handle(o)
<1>1. /\ frame = NoFrame /\ obj[h].life = "live" /\ obj[h].phase = "closing"
      /\ vars' = vars /\ reqs' = reqs /\ lost' = lost
      /\ \/ CallPHP(h, "close", o)
         \/ obj' = [obj EXCEPT ![h] = OBJ_RELEASE(c)] /\ frame' = frame
  BY DEF php_uv_close_cb
<1>2. /\ o \in Object /\ o.rc = obj[h].rc /\ o.ce = obj[h].ce /\ o.life = "live"
      /\ o.dtored = obj[h].dtored /\ o.phase = "closed" /\ o.active = obj[h].active
  BY <1>1, LiveFacts DEF Object, Phases
<1> HIDE DEF o
<1>3. LiveShape(obj[h]) /\ ~obj[h].active /\ obj[h].dtored
  BY <1>1, LiveFacts DEF LiveShape
<1>4. /\ LiveShape(o) /\ LoopRef(o) = 0 /\ CloseRef(o) = 0
      /\ LoopRef(obj[h]) = 0 /\ CloseRef(obj[h]) = 1
  BY <1>1, <1>2, <1>3 DEF LiveShape, LoopRef, CloseRef, php_uv_is_handle_referenced
<1>5. Elsewhere(h) /\ Kept(h)' = Kept(h) /\ Kept(h) \in Nat
  BY <1>1, CountersNat DEF HandleInv, HandleTypeOK, Elsewhere, Kept, Pending
<1>6. o.rc = LoopRef(o) + CloseRef(o) + Kept(h)' + 1
  BY <1>1, <1>2, <1>4, <1>5, LiveFacts, NoFrameKept
<1>7. CASE CallPHP(h, "close", o)
  BY <1>2, <1>4, <1>5, <1>6, <1>7, CallInv DEF Callbacks
<1>8. CASE obj' = [obj EXCEPT ![h] = OBJ_RELEASE(c)] /\ frame' = frame
  <2>1. /\ c \in Object /\ LiveShape(c) /\ c.phase = "closed" /\ c.rc = o.rc
        /\ LoopRef(c) = LoopRef(o) /\ CloseRef(c) = CloseRef(o)
    BY <1>2, <1>4, CleanClosed
  <2> HIDE DEF c
  <2>2. FrameElsewhere(h) /\ Others(h)' = Kept(h)'
    BY <1>1, <1>5, <1>8, QuietElsewhere, NoFrameKept
  <2>3. frame'.handle # h
    BY <1>1, <1>8, HandleAssumption DEF NoFrame
  <2>4. QED
    BY <1>5, <1>6, <1>8, <2>1, <2>2, <2>3, DropInv
<1>9. QED
  BY <1>1, <1>7, <1>8

(* All of them.                                                            *)
LEMMA HandleNextInv ==
  ASSUME HandleInv, NEW h \in Handles, HandleNext(h)
  PROVE  HandleInv'
  BY CopyInv, UnsetInv, CloseInv, ReturnInv, CloseCallbackInv, CloseReturnInv DEF HandleNext

(* A step that changes nothing of it.                                      *)
LEMMA StutterInv ==
  ASSUME HandleInv, UNCHANGED handleVars
  PROVE  HandleInv'
  BY DEF HandleInv, handleVars, HandleTypeOK, WellFormed, LiveShape, WellCounted, Holders,
         Pending, FrameRefs, LoopRef, CloseRef, php_uv_is_handle_referenced

-----------------------------------------------------------------------------
(* What the invariant implies.                                             *)

(* The counts are exact.                                                   *)
LEMMA InvExact == HandleInv => RefCountExact
  BY DEF HandleInv, WellCounted, RefCountExact

(* A freed object is out of reach.                                         *)
LEMMA InvFreed == HandleInv => FreedIsUnreachable
<1> SUFFICES ASSUME HandleInv, NEW h \in Handles, obj[h].life = "freed"
             PROVE  /\ vars[h] = 0 /\ Pending(h) = 0 /\ frame.handle # h
                    /\ obj[h].phase = "closed" /\ ~obj[h].active
  BY DEF FreedIsUnreachable
<1>1. obj[h] # Absent /\ ~LiveShape(obj[h])
  BY DEF Absent, LiveShape
<1>2. QED
  BY <1>1 DEF HandleInv, WellFormed

(* No handle is closed twice.                                              *)
LEMMA InvClosed == HandleInv => ClosedOnce
<1> SUFFICES ASSUME HandleInv, NEW h \in Handles PROVE obj[h].phase # "aborted"
  BY DEF ClosedOnce
<1>1. Absent.phase = "open"
  BY DEF Absent
<1>2. QED
  BY <1>1 DEF HandleInv, WellFormed, LiveShape

-----------------------------------------------------------------------------
(* What the families' actions do to a handle.                              *)

(* A start that takes a reference and makes an inactive handle active.     *)
LEMMA StartInv ==
  ASSUME HandleInv, NEW h \in Handles, Usable(h), ~obj[h].active,
         obj[h].ce \in ReferencedClasses,
         obj' = [obj EXCEPT ![h] = [GC_ADDREF(@) EXCEPT !.active = TRUE]],
         vars' = vars, reqs' = reqs, frame' = frame, lost' = lost
  PROVE  HandleInv'
<1> DEFINE a == GC_ADDREF(obj[h])
           o == [a EXCEPT !.active = TRUE]
<1>1. obj[h].life = "live" /\ ~obj[h].dtored /\ obj' = [obj EXCEPT ![h] = o]
  BY DEF Usable, Visible
<1>2. /\ a \in Object /\ LiveShape(a) /\ a.phase = obj[h].phase /\ a.ce = obj[h].ce
      /\ a.active = obj[h].active
      /\ a.rc = LoopRef(a) + CloseRef(a) + Others(h) + 1
  BY <1>1, AddRefLive
<1> HIDE DEF a
<1>3. obj[h].phase = "open"
  BY <1>1, LiveFacts DEF LiveShape
<1>4. /\ o \in Object /\ o.rc = a.rc /\ o.ce = a.ce /\ o.life = a.life
      /\ o.dtored = a.dtored /\ o.phase = a.phase /\ o.active
  BY <1>2 DEF Object
<1> HIDE DEF o
<1>5. /\ LiveShape(o) /\ LoopRef(o) = 1 /\ LoopRef(a) = 0
      /\ CloseRef(o) = CloseRef(a) /\ CloseRef(a) = 0
  BY <1>2, <1>3, <1>4 DEF LiveShape, LoopRef, CloseRef, php_uv_is_handle_referenced
<1>6. Others(h)' = Others(h) /\ Others(h) \in Nat /\ Elsewhere(h) /\ FrameElsewhere(h)
  BY QuietElsewhere, CountersNat DEF Others
<1>7. o.rc > 0 /\ o.rc = LoopRef(o) + CloseRef(o) + Others(h)'
  BY <1>2, <1>4, <1>5, <1>6
<1>8. frame'.handle = h => (frame'.cb = "close" <=> o.phase = "closed")
  BY <1>1, <1>2, <1>4, LiveFacts
<1>9. QED
  BY <1>1, <1>4, <1>5, <1>6, <1>7, <1>8, KeepInv

(* The record of an active handle that stops and keeps its reference.      *)
LEMMA StoppedLive ==
  ASSUME HandleInv, NEW h \in Handles, obj[h].life = "live", obj[h].active,
         obj[h].ce \in ReferencedClasses
  PROVE  LET o == [obj[h] EXCEPT !.active = FALSE]
         IN  /\ o \in Object /\ LiveShape(o) /\ o.phase = "open"
             /\ obj[h].phase = "open"
             /\ LoopRef(o) = 0 /\ CloseRef(o) = 0
             /\ o.rc = LoopRef(o) + CloseRef(o) + Others(h) + 1
<1> DEFINE o == [obj[h] EXCEPT !.active = FALSE]
<1>1. obj[h].phase = "open" /\ LiveShape(obj[h])
  BY LiveFacts DEF LiveShape
<1>2. /\ o \in Object /\ o.rc = obj[h].rc /\ o.ce = obj[h].ce /\ o.life = obj[h].life
      /\ o.dtored = obj[h].dtored /\ o.phase = obj[h].phase /\ ~o.active
  BY LiveFacts DEF Object
<1> HIDE DEF o
<1>3. /\ LiveShape(o) /\ LoopRef(o) = 0 /\ CloseRef(o) = 0
      /\ LoopRef(obj[h]) = 1 /\ CloseRef(obj[h]) = 0
  BY <1>1, <1>2 DEF LiveShape, LoopRef, CloseRef, php_uv_is_handle_referenced
<1>4. Others(h) \in Nat
  BY CountersNat DEF Others
<1>5. o.rc = LoopRef(o) + CloseRef(o) + Others(h) + 1
  BY <1>2, <1>3, <1>4, LiveFacts
<1>6. QED
  BY <1>1, <1>2, <1>3, <1>5 DEF o

(* A stop that gives the reference of the activity back.                   *)
LEMMA StopInv ==
  ASSUME HandleInv, NEW h \in Handles, Usable(h), obj[h].active,
         obj[h].ce \in ReferencedClasses,
         obj' = [obj EXCEPT ![h] = OBJ_RELEASE([@ EXCEPT !.active = FALSE])],
         vars' = vars, reqs' = reqs, frame' = frame, lost' = lost
  PROVE  HandleInv'
<1> DEFINE o == [obj[h] EXCEPT !.active = FALSE]
<1>1. obj[h].life = "live" /\ obj' = [obj EXCEPT ![h] = OBJ_RELEASE(o)]
  BY DEF Usable, Visible
<1>2. /\ o \in Object /\ LiveShape(o) /\ o.phase = "open" /\ obj[h].phase = "open"
      /\ o.rc = LoopRef(o) + CloseRef(o) + Others(h) + 1
  BY <1>1, StoppedLive
<1> HIDE DEF o
<1>3. Others(h)' = Others(h) /\ Elsewhere(h) /\ FrameElsewhere(h)
  BY QuietElsewhere
<1>4. frame'.handle = h => (frame'.cb = "close" <=> o.phase = "closed")
  BY <1>1, <1>2, LiveFacts
<1>5. QED
  BY <1>1, <1>2, <1>3, <1>4, DropInv

(* One more lost reference.                                                *)
LEMMA LoseOne ==
  ASSUME HandleInv, NEW h \in Handles, lost[h] < MaxLost,
         vars' = vars, reqs' = reqs, frame' = frame, lost' = [lost EXCEPT ![h] = @ + 1]
  PROVE  /\ Elsewhere(h) /\ FrameElsewhere(h)
         /\ Others(h)' = Others(h) + 1 /\ Others(h) \in Nat
<1>1. Elsewhere(h) /\ FrameElsewhere(h)
  BY HandleAssumption DEF HandleInv, HandleTypeOK, Elsewhere, FrameElsewhere
<1>2. vars'[h] = vars[h] /\ Pending(h)' = Pending(h) /\ lost'[h] = lost[h] + 1 /\ FrameRefs(h)' = FrameRefs(h)
  BY DEF HandleInv, HandleTypeOK, Pending, FrameRefs
<1>3. QED
  BY <1>1, <1>2, CountersNat DEF Others, Kept

(* A reference taken and abandoned.                                        *)
LEMMA ForgetInv ==
  ASSUME HandleInv, NEW h \in Handles, obj[h].life = "live", lost[h] < MaxLost,
         obj' = [obj EXCEPT ![h] = GC_ADDREF(@)],
         vars' = vars, reqs' = reqs, frame' = frame, lost' = [lost EXCEPT ![h] = @ + 1]
  PROVE  HandleInv'
<1> DEFINE o == GC_ADDREF(obj[h])
<1>1. obj' = [obj EXCEPT ![h] = o]
  OBVIOUS
<1>2. /\ o \in Object /\ LiveShape(o) /\ o.phase = obj[h].phase
      /\ o.rc = LoopRef(o) + CloseRef(o) + Others(h) + 1
  BY AddRefLive
<1> HIDE DEF o
<1>3. Elsewhere(h) /\ FrameElsewhere(h) /\ Others(h)' = Others(h) + 1 /\ Others(h) \in Nat
  BY LoseOne
<1>4. LoopRef(o) \in Nat /\ CloseRef(o) \in Nat
  BY DEF LoopRef, CloseRef
<1>5. o.rc > 0 /\ o.rc = LoopRef(o) + CloseRef(o) + Others(h)'
  BY <1>2, <1>3, <1>4
<1>6. QED
  BY <1>1, <1>2, <1>3, <1>5, LiveFacts, KeepInv

(* A callback that takes a reference of its own.                           *)
LEMMA WatchedCallInv ==
  ASSUME HandleInv, NEW h \in Handles, NEW cb \in Callbacks,
         obj[h].life = "live", obj[h].active, cb # "close",
         DoCallback(h, cb, GC_ADDREF(obj[h])),
         vars' = vars, reqs' = reqs, lost' = lost
  PROVE  HandleInv'
<1> DEFINE o == GC_ADDREF(obj[h])
<1>1. /\ o \in Object /\ LiveShape(o) /\ o.phase = obj[h].phase
      /\ o.rc = LoopRef(o) + CloseRef(o) + Others(h) + 1
  BY AddRefLive
<1>2. obj[h].phase = "open"
  BY LiveFacts DEF LiveShape
<1>3. frame = NoFrame
  BY DEF DoCallback, CallPHP
<1>4. Elsewhere(h) /\ Kept(h)' = Others(h)
  BY <1>3, NoFrameKept DEF HandleInv, HandleTypeOK, Elsewhere, Kept, Pending
<1> HIDE DEF o
<1>5. QED
  BY <1>1, <1>2, <1>4, DoCallbackInv DEF o

(* A callback that inherits the reference of an activity that has ended.   *)
LEMMA StoppedCallInv ==
  ASSUME HandleInv, NEW h \in Handles, NEW cb \in Callbacks,
         obj[h].life = "live", obj[h].active, obj[h].ce \in ReferencedClasses, cb # "close",
         DoCallback(h, cb, [obj[h] EXCEPT !.active = FALSE]),
         vars' = vars, reqs' = reqs, lost' = lost
  PROVE  HandleInv'
<1> DEFINE o == [obj[h] EXCEPT !.active = FALSE]
<1>1. /\ o \in Object /\ LiveShape(o) /\ o.phase = "open"
      /\ o.rc = LoopRef(o) + CloseRef(o) + Others(h) + 1
  BY StoppedLive
<1>2. frame = NoFrame
  BY DEF DoCallback, CallPHP
<1>3. Elsewhere(h) /\ Kept(h)' = Others(h)
  BY <1>2, NoFrameKept DEF HandleInv, HandleTypeOK, Elsewhere, Kept, Pending
<1> HIDE DEF o
<1>4. QED
  BY <1>1, <1>3, DoCallbackInv DEF o

-----------------------------------------------------------------------------
(* The steps of HandleLifetime.  An action on h moves h alone along its    *)
(* life, and who owns it follows from the counters.                        *)

(* A step that changes nothing but h.                                      *)
OnlyAt(h) ==
  /\ \E o \in Object : obj' = [obj EXCEPT ![h] = o]
  /\ Elsewhere(h)
  /\ FrameElsewhere(h)

LifeStep(h) ==
  \/ Lifetime!Create(h) \/ Lifetime!Share(h) \/ Lifetime!Close(h)
  \/ Lifetime!Abandon(h) \/ Lifetime!Finish(h) \/ Lifetime!Free(h)

(* Who owns an object, one owner at a time.                                *)
LEMMA OwnersFacts ==
  ASSUME NEW h \in Handles
  PROVE  /\ OwnersOf(h) \subseteq {"script", "call", "loop", "request", "close", "lost"}
         /\ "script" \in OwnersOf(h) <=> vars[h] > 0
         /\ "call" \in OwnersOf(h) <=> frame.handle = h
         /\ "loop" \in OwnersOf(h) <=> php_uv_is_handle_referenced(obj[h])
         /\ "request" \in OwnersOf(h) <=> Pending(h) > 0
         /\ "close" \in OwnersOf(h) <=> obj[h].phase = "closing"
         /\ "lost" \in OwnersOf(h) <=> lost[h] > 0
  BY DEF OwnersOf, FrameRefs, LoopRef, CloseRef

(* The same after a step.                                                  *)
LEMMA OwnersFactsAfter ==
  ASSUME NEW h \in Handles
  PROVE  /\ OwnersOf(h)' \subseteq {"script", "call", "loop", "request", "close", "lost"}
         /\ "script" \in OwnersOf(h)' <=> vars'[h] > 0
         /\ "call" \in OwnersOf(h)' <=> frame'.handle = h
         /\ "loop" \in OwnersOf(h)' <=> php_uv_is_handle_referenced(obj'[h])
         /\ "request" \in OwnersOf(h)' <=> Pending(h)' > 0
         /\ "close" \in OwnersOf(h)' <=> obj'[h].phase = "closing"
         /\ "lost" \in OwnersOf(h)' <=> lost'[h] > 0
  BY DEF OwnersOf, FrameRefs, LoopRef, CloseRef, php_uv_is_handle_referenced

(* The other objects keep their stage and their owners.                    *)
LEMMA LifeElsewhere ==
  ASSUME HandleInv, NEW h \in Handles, OnlyAt(h), NEW k \in Handles \ {h}
  PROVE  StageOf(k)' = StageOf(k) /\ OwnersOf(k)' = OwnersOf(k)
<1>1. /\ obj'[k] = obj[k] /\ vars'[k] = vars[k] /\ reqs'[k] = reqs[k] /\ lost'[k] = lost[k]
      /\ frame'.handle = k <=> frame.handle = k
  BY DEF HandleInv, HandleTypeOK, OnlyAt, Elsewhere, FrameElsewhere
<1>2. StageOf(k)' = StageOf(k)
  BY <1>1 DEF StageOf
<1>3. OwnersOf(k)' = OwnersOf(k)
  <2>1. Pending(k)' = Pending(k)
    BY <1>1 DEF Pending
  <2>2. \A o : o \in OwnersOf(k)' <=> o \in OwnersOf(k)
    BY <1>1, <2>1, OwnersFacts, OwnersFactsAfter
  <2>3. QED
    BY <2>2
<1>4. QED
  BY <1>2, <1>3

(* What h becomes is all that changes.                                     *)
LEMMA BecomeStep ==
  ASSUME HandleInv, NEW h \in Handles, OnlyAt(h),
         NEW s, NEW os, StageOf(h)' = s, OwnersOf(h)' = os
  PROVE  Lifetime!Become(h, s, os)
<1>1. \A k \in Handles \ {h} : StageOf(k)' = StageOf(k) /\ OwnersOf(k)' = OwnersOf(k)
  BY LifeElsewhere
<1>2. [k \in Handles |-> StageOf(k)'] = [[k \in Handles |-> StageOf(k)] EXCEPT ![h] = s]
  BY <1>1
<1>3. [k \in Handles |-> OwnersOf(k)'] = [[k \in Handles |-> OwnersOf(k)] EXCEPT ![h] = os]
  BY <1>1
<1>4. QED
  BY <1>2, <1>3 DEF Lifetime!Become

(* A live object has an owner.                                             *)
LEMMA LiveOwned ==
  ASSUME HandleInv, NEW h \in Handles, obj[h].life = "live"
  PROVE  OwnersOf(h) # {}
<1>1. obj[h].rc > 0 /\ obj[h].rc = LoopRef(obj[h]) + CloseRef(obj[h]) + Others(h)
  BY LiveFacts
<1>2. Others(h) = vars[h] + Pending(h) + lost[h] + FrameRefs(h)
  BY DEF Others, Kept
<1>3. vars[h] > 0 \/ Pending(h) > 0 \/ lost[h] > 0 \/ FrameRefs(h) > 0
      \/ LoopRef(obj[h]) > 0 \/ CloseRef(obj[h]) > 0
  <2> DEFINE a == vars[h]  b == Pending(h)  c == lost[h]  f == FrameRefs(h)
             l == LoopRef(obj[h])  d == CloseRef(obj[h])  n == obj[h].rc
  <2>1. a \in Nat /\ b \in Nat /\ c \in Nat /\ f \in Nat /\ l \in Nat /\ d \in Nat
    BY CountersNat, LiveFacts
  <2>2. n > 0 /\ n = l + d + (a + b + c + f)
    BY <1>1, <1>2
  <2> HIDE DEF a, b, c, f, l, d, n
  <2>3. a > 0 \/ b > 0 \/ c > 0 \/ f > 0 \/ l > 0 \/ d > 0
    BY <2>1, <2>2
  <2>4. QED
    BY <2>3 DEF a, b, c, f, l, d
<1>4. QED
  BY <1>3, OwnersFacts DEF FrameRefs, LoopRef, CloseRef

(* Together, what the invariant says of a live object's owners and record. *)
LEMMA LiveOwnedShape ==
  HandleInv => \A h \in Handles :
                 obj[h].life = "live" => OwnersOf(h) # {} /\ LiveShape(obj[h]) /\ obj[h] \in Object
  BY LiveOwned, LiveFacts

(* The same after a step.                                                  *)
LEMMA LiveOwnedAfter ==
  (HandleInv => \A h \in Handles :
                  obj[h].life = "live" => OwnersOf(h) # {} /\ LiveShape(obj[h]) /\ obj[h] \in Object)'
  BY LiveOwnedShape, PTL

(* A step that leaves a live object in its stage lends it or takes it back.*)
LEMMA ShareStep ==
  ASSUME HandleInv, HandleInv', NEW h \in Handles, OnlyAt(h),
         obj[h].life = "live", obj'[h].life = "live", obj'[h].phase = obj[h].phase
  PROVE  Lifetime!Share(h)
<1>1. OwnersOf(h) # {} /\ OwnersOf(h)' # {}
  BY LiveOwned, LiveOwnedAfter
<1>2. StageOf(h) = obj[h].phase /\ StageOf(h)' = obj[h].phase
  BY DEF StageOf
<1>3. /\ [k \in Handles |-> StageOf(k)'] = [k \in Handles |-> StageOf(k)]
      /\ \A k \in Handles \ {h} : OwnersOf(k)' = OwnersOf(k)
  BY <1>2, LifeElsewhere
<1>4. OwnersOf(h)' \subseteq Lifetime!Owners
  BY OwnersFactsAfter DEF Lifetime!Owners
<1>5. "loop" \in OwnersOf(h)' => obj[h].phase = "open"
  BY OwnersFactsAfter, LiveOwnedAfter DEF LiveShape, php_uv_is_handle_referenced
<1>6. "close" \in OwnersOf(h)' <=> obj[h].phase = "closing"
  BY OwnersFactsAfter
<1>7. OwnersOf(h)' \in (SUBSET Lifetime!Owners) \ {{}}
  BY <1>1, <1>4
<1>8. Lifetime!Share(h)
       <=> /\ OwnersOf(h) # {}
           /\ [k \in Handles |-> StageOf(k)'] = [k \in Handles |-> StageOf(k)]
           /\ \A k \in Handles \ {h} : OwnersOf(k)' = OwnersOf(k)
           /\ OwnersOf(h)' \in (SUBSET Lifetime!Owners) \ {{}}
           /\ "loop" \in OwnersOf(h)' => StageOf(h) = "open"
           /\ "close" \in OwnersOf(h)' <=> StageOf(h) = "closing"
  BY DEF Lifetime!Share
<1>9. QED
  BY <1>1, <1>2, <1>3, <1>5, <1>6, <1>7, <1>8

(* A new object belongs to the script.                                     *)
LEMMA CreateStep ==
  ASSUME HandleInv, NEW h \in Handles, OnlyAt(h),
         obj[h].life = "none", obj'[h].life = "live", obj'[h].phase = "open",
         ~php_uv_is_handle_referenced(obj'[h]),
         vars'[h] = 1, reqs' = reqs, frame' = frame, lost' = lost
  PROVE  Lifetime!Create(h)
<1>1. Pending(h) = 0 /\ lost[h] = 0 /\ frame.handle # h
  BY DEF HandleInv, WellFormed, LiveShape
<1>2. Pending(h)' = Pending(h)
  BY DEF Pending
<1>3. OwnersOf(h)' = {"script"}
  BY <1>1, <1>2, OwnersFactsAfter
<1>4. StageOf(h) = "none" /\ StageOf(h)' = "open"
  BY DEF StageOf
<1>5. QED
  BY <1>3, <1>4, BecomeStep DEF Lifetime!Create

(* uv_close: the close takes the place of the loop.                        *)
LEMMA CloseStep ==
  ASSUME HandleInv, NEW h \in Handles, uv_close(h)
  PROVE  Lifetime!Close(h)
<1>1. PICK callable \in BOOLEAN :
        obj' = [obj EXCEPT ![h] = php_uv_close([@ EXCEPT !.notify = callable])]
  BY DEF uv_close
<1> DEFINE i == [obj[h] EXCEPT !.notify = callable]
           o == php_uv_close(i)
<1>2. /\ obj' = [obj EXCEPT ![h] = o] /\ obj[h].life = "live" /\ ~obj[h].dtored
      /\ vars' = vars /\ reqs' = reqs /\ frame' = frame /\ lost' = lost
  BY <1>1 DEF uv_close, Usable, Visible
<1>3. obj[h] \in Object /\ obj[h].phase = "open"
  BY <1>2, LiveFacts DEF LiveShape
<1>4. i \in Object /\ i.life = "live" /\ i.phase = "open"
  BY <1>2, <1>3 DEF Object
<1> HIDE DEF i
<1>5. o \in Object /\ o.life = "live" /\ o.phase = "closing" /\ ~o.active
  BY <1>4, CloseFields
<1> HIDE DEF o
<1>6. OnlyAt(h) /\ obj'[h] = o
  BY <1>2, <1>5, QuietElsewhere DEF OnlyAt, HandleInv, HandleTypeOK
<1>7. Pending(h)' = Pending(h)
  BY <1>2 DEF Pending
<1>8. OwnersOf(h)' = (OwnersOf(h) \ {"loop"}) \cup {"close"}
  <2>1. ~php_uv_is_handle_referenced(obj'[h]) /\ obj'[h].phase = "closing"
    BY <1>5, <1>6 DEF php_uv_is_handle_referenced
  <2>2. \A x : x \in OwnersOf(h)' <=> x \in (OwnersOf(h) \ {"loop"}) \cup {"close"}
    BY <1>2, <1>7, <2>1, OwnersFacts, OwnersFactsAfter
  <2>3. QED
    BY <2>2
<1>9. StageOf(h) = "open" /\ StageOf(h)' = "closing"
  BY <1>2, <1>3, <1>5, <1>6 DEF StageOf
<1>10. Lifetime!Become(h, "closing", (OwnersOf(h) \ {"loop"}) \cup {"close"} \cup {})
  BY <1>6, <1>8, <1>9, BecomeStep
<1>11. {} \in SUBSET {"lost"}
  OBVIOUS
<1>12. QED
  BY <1>9, <1>10, <1>11 DEF Lifetime!Close

(* A release: one owner fewer, or the end of the stage when it was the     *)
(* last.                                                                   *)
LEMMA ReleaseStep ==
  ASSUME HandleInv, HandleInv', NEW h \in Handles, NEW o \in Object,
         obj' = [obj EXCEPT ![h] = OBJ_RELEASE(o)], Elsewhere(h), FrameElsewhere(h),
         LiveShape(o), obj[h].life = "live", o.phase = obj[h].phase,
         o.rc = LoopRef(o) + CloseRef(o) + Others(h)' + 1,
         Others(h)' = 0 /\ LoopRef(o) = 0 =>
           \/ OwnersOf(h) \in {{"script"}, {"call"}}
           \/ obj[h].phase = "open" /\ OwnersOf(h) \in {{"request"}, {"loop"}}
           \/ obj[h].phase = "closing"
  PROVE  LifeStep(h)
<1> DEFINE r == OBJ_RELEASE(o)
           n == Others(h)'
<1>1. n = Kept(h)' + FrameRefs(h)' /\ n \in Nat
  BY CountersNatAfter DEF Others
<1>2. /\ r \in Object
      /\ \/ /\ LiveShape(r) /\ r.rc > 0
            /\ r.rc = LoopRef(r) + CloseRef(r) + n
            /\ \/ r.phase = o.phase
               \/ /\ o.phase = "open" /\ r.phase = "closing"
                  /\ n = 0 /\ LoopRef(o) = 0
            /\ r.phase = "closed" <=> o.phase = "closed"
         \/ /\ r.life = "freed" /\ r.rc = 0 /\ n = 0
            /\ o.phase = "closed" /\ r.phase = "closed" /\ ~r.active
  BY <1>1, ReleaseExact
<1> HIDE DEF r
<1>3. OnlyAt(h) /\ obj'[h] = r
  BY <1>2 DEF OnlyAt, HandleInv, HandleTypeOK, r
<1>4. CASE LiveShape(r) /\ r.phase = o.phase
  <2>1. r.life = "live"
    BY <1>4 DEF LiveShape
  <2>2. QED
    BY <1>3, <1>4, <2>1, ShareStep DEF LifeStep
<1>5. CASE ~(LiveShape(r) /\ r.phase = o.phase)
  <2>1. /\ n = 0 /\ ~r.active
        /\ \/ o.phase = "open" /\ r.phase = "closing" /\ r.life = "live" /\ LoopRef(o) = 0
           \/ o.phase = "closed" /\ r.phase = "closed" /\ r.life = "freed"
    BY <1>2, <1>5 DEF LiveShape
  <2>2. vars'[h] = 0 /\ Pending(h)' = 0 /\ lost'[h] = 0 /\ FrameRefs(h)' = 0
    <3> DEFINE a == vars'[h]  b == Pending(h)'  c == lost'[h]  f == FrameRefs(h)'
    <3>1. /\ a \in Nat /\ b \in Nat /\ c \in Nat /\ f \in Nat
          /\ Kept(h)' = a + b + c /\ Kept(h)' + f = 0
      BY <1>1, <2>1, CountersNatAfter
    <3> HIDE DEF a, b, c, f
    <3>2. a = 0 /\ b = 0 /\ c = 0 /\ f = 0
      BY <3>1
    <3>3. QED
      BY <3>2 DEF a, b, c, f
  <2>3. frame'.handle # h
    BY <2>2 DEF FrameRefs
  <2>4. ~php_uv_is_handle_referenced(obj'[h])
    BY <1>3, <2>1 DEF php_uv_is_handle_referenced
  <2>5. OwnersOf(h)' = IF r.phase = "closing" THEN {"close"} ELSE {}
    <3>1. \A x : x \in OwnersOf(h)' <=> x = "close" /\ r.phase = "closing"
      BY <1>3, <2>2, <2>3, <2>4, OwnersFactsAfter
    <3>2. QED
      BY <3>1
  <2>6. LoopRef(o) = 0
    BY <2>1 DEF LiveShape, LoopRef, php_uv_is_handle_referenced
  <2>7. CASE o.phase = "open"
    <3>1. OwnersOf(h) \in {{"script"}, {"call"}, {"request"}, {"loop"}}
      BY <2>1, <2>6, <2>7
    <3>2. StageOf(h) = "open" /\ StageOf(h)' = "closing" /\ OwnersOf(h)' = {"close"}
      BY <1>3, <2>1, <2>5, <2>7 DEF StageOf
    <3>3. QED
      BY <1>3, <3>1, <3>2, BecomeStep DEF LifeStep, Lifetime!Abandon
  <2>8. CASE o.phase = "closed"
    <3>1. OwnersOf(h) \in {{"script"}, {"call"}}
      BY <2>1, <2>6, <2>8
    <3>2. StageOf(h) = "closed" /\ StageOf(h)' = "freed" /\ OwnersOf(h)' = {}
      BY <1>3, <2>1, <2>5, <2>8 DEF StageOf
    <3>3. QED
      BY <1>3, <3>1, <3>2, BecomeStep DEF LifeStep, Lifetime!Free
  <2>9. QED
    BY <2>1, <2>7, <2>8
<1>6. QED
  BY <1>4, <1>5

(* When nobody is left after a step, every counter is at zero.             *)
LEMMA NobodyLeft ==
  ASSUME NEW h \in Handles, Elsewhere(h), Others(h)' = 0
  PROVE  vars'[h] = 0 /\ Pending(h)' = 0 /\ lost'[h] = 0 /\ frame'.handle # h
<1> DEFINE a == vars'[h]  b == Pending(h)'  c == lost'[h]  f == FrameRefs(h)'
<1>1. /\ a \in Nat /\ b \in Nat /\ c \in Nat /\ f \in Nat
      /\ Kept(h)' = a + b + c /\ Kept(h)' + f = 0
  BY CountersNatAfter DEF Others
<1> HIDE DEF a, b, c, f
<1>2. a = 0 /\ b = 0 /\ c = 0 /\ f = 0
  BY <1>1
<1>3. QED
  BY <1>2 DEF a, b, c, f, FrameRefs

(* Only an object that does nothing else is owned by one owner alone.      *)
LEMMA SoleOwner ==
  ASSUME NEW h \in Handles, obj[h].phase # "closing", lost[h] = 0
  PROVE  /\ ~php_uv_is_handle_referenced(obj[h]) /\ Pending(h) = 0 /\ vars[h] > 0
              /\ frame.handle # h => OwnersOf(h) = {"script"}
         /\ ~php_uv_is_handle_referenced(obj[h]) /\ Pending(h) = 0 /\ vars[h] = 0
              /\ frame.handle = h => OwnersOf(h) = {"call"}
         /\ php_uv_is_handle_referenced(obj[h]) /\ Pending(h) = 0 /\ vars[h] = 0
              /\ frame.handle # h => OwnersOf(h) = {"loop"}
         /\ ~php_uv_is_handle_referenced(obj[h]) /\ Pending(h) > 0 /\ vars[h] = 0
              /\ frame.handle # h => OwnersOf(h) = {"request"}
<1>1. ~(lost[h] > 0) /\ (vars[h] = 0 => ~(vars[h] > 0)) /\ (Pending(h) = 0 => ~(Pending(h) > 0))
  OBVIOUS
<1>2. ASSUME ~php_uv_is_handle_referenced(obj[h]), Pending(h) = 0, vars[h] > 0, frame.handle # h
      PROVE  OwnersOf(h) = {"script"}
  <2>1. \A x : x \in OwnersOf(h) <=> x \in {"script"}
    BY <1>1, <1>2, OwnersFacts
  <2>2. QED
    BY <2>1
<1>3. ASSUME ~php_uv_is_handle_referenced(obj[h]), Pending(h) = 0, vars[h] = 0, frame.handle = h
      PROVE  OwnersOf(h) = {"call"}
  <2>1. \A x : x \in OwnersOf(h) <=> x \in {"call"}
    BY <1>1, <1>3, OwnersFacts
  <2>2. QED
    BY <2>1
<1>4. ASSUME php_uv_is_handle_referenced(obj[h]), Pending(h) = 0, vars[h] = 0, frame.handle # h
      PROVE  OwnersOf(h) = {"loop"}
  <2>1. \A x : x \in OwnersOf(h) <=> x \in {"loop"}
    BY <1>1, <1>4, OwnersFacts
  <2>2. QED
    BY <2>1
<1>5. ASSUME ~php_uv_is_handle_referenced(obj[h]), Pending(h) > 0, vars[h] = 0, frame.handle # h
      PROVE  OwnersOf(h) = {"request"}
  <2>1. \A x : x \in OwnersOf(h) <=> x \in {"request"}
    BY <1>1, <1>5, OwnersFacts
  <2>2. QED
    BY <2>1
<1>6. QED
  BY <1>2, <1>3, <1>4, <1>5

(* What the script can reach, something other than libuv holds.            *)
LEMMA VisibleHeld ==
  ASSUME HandleInv, NEW h \in Handles, Visible(h)
  PROVE  obj[h].life = "live" /\ Others(h) > 0
  BY CountersNat DEF Visible, Others, Kept, FrameRefs

(* A new variable.                                                         *)
LEMMA CopyStep ==
  ASSUME HandleInv, HandleInv', NEW h \in Handles, CopyVariable(h)
  PROVE  LifeStep(h)
<1>1. /\ obj' = [obj EXCEPT ![h] = GC_ADDREF(obj[h])] /\ obj[h].life = "live"
      /\ vars' = [vars EXCEPT ![h] = @ + 1] /\ vars[h] < MaxVars
      /\ reqs' = reqs /\ frame' = frame /\ lost' = lost
  BY DEF CopyVariable, Visible
<1>2. /\ GC_ADDREF(obj[h]) \in Object /\ GC_ADDREF(obj[h]).phase = obj[h].phase
      /\ GC_ADDREF(obj[h]).life = "live"
  BY <1>1, LiveFacts, AddRefFields
<1>3. OnlyAt(h) /\ obj'[h] = GC_ADDREF(obj[h])
  BY <1>1, <1>2, HandleAssumption DEF HandleInv, HandleTypeOK, OnlyAt, Elsewhere, FrameElsewhere
<1>4. QED
  BY <1>1, <1>2, <1>3, ShareStep DEF LifeStep

(* A variable that goes away.                                              *)
LEMMA UnsetStep ==
  ASSUME HandleInv, HandleInv', NEW h \in Handles, UnsetVariable(h)
  PROVE  LifeStep(h)
<1>1. /\ obj' = [obj EXCEPT ![h] = OBJ_RELEASE(obj[h])] /\ obj[h].life = "live"
      /\ vars' = [vars EXCEPT ![h] = @ - 1] /\ vars[h] > 0
      /\ reqs' = reqs /\ frame' = frame /\ lost' = lost
  BY DEF UnsetVariable, Visible
<1>2. Elsewhere(h) /\ FrameElsewhere(h)
  BY <1>1, HandleAssumption DEF HandleInv, HandleTypeOK, Elsewhere, FrameElsewhere
<1>3. Others(h)' + 1 = Others(h) /\ Others(h)' \in Nat /\ Pending(h)' = Pending(h)
  <2>1. vars'[h] = vars[h] - 1 /\ Pending(h)' = Pending(h) /\ lost'[h] = lost[h] /\ FrameRefs(h)' = FrameRefs(h)
    BY <1>1 DEF HandleInv, HandleTypeOK, Pending, FrameRefs
  <2>2. QED
    BY <2>1, <1>1, CountersNat DEF Others, Kept
<1>4. obj[h].rc = LoopRef(obj[h]) + CloseRef(obj[h]) + Others(h)' + 1
  BY <1>1, <1>3, LiveFacts
<1>5. ASSUME Others(h)' = 0, LoopRef(obj[h]) = 0, obj[h].phase # "closing"
      PROVE  OwnersOf(h) = {"script"}
  <2>1. Pending(h) = 0 /\ lost[h] = 0 /\ frame.handle # h
    BY <1>1, <1>2, <1>3, <1>5, NobodyLeft
  <2>2. ~php_uv_is_handle_referenced(obj[h])
    BY <1>5 DEF LoopRef
  <2>3. QED
    BY <1>1, <1>5, <2>1, <2>2, SoleOwner
<1>6. QED
  BY <1>1, <1>2, <1>4, <1>5, LiveFacts, ReleaseStep

(* The return of a callback: the last release of two.                      *)
LEMMA ReturnStep ==
  ASSUME HandleInv, HandleInv', NEW h \in Handles, ReturnFromCallback(h)
  PROVE  LifeStep(h)
<1> DEFINE o == OBJ_RELEASE(obj[h])
<1>1. /\ frame.handle = h /\ frame' = NoFrame /\ frame.cb # "close"
      /\ vars' = vars /\ reqs' = reqs /\ lost' = lost
      /\ obj' = [obj EXCEPT ![h] = OBJ_RELEASE(o)]
  BY DEF ReturnFromCallback
<1>2. /\ o \in Object /\ LiveShape(o) /\ o.phase = obj[h].phase /\ obj[h].life = "live"
      /\ o.rc = LoopRef(o) + CloseRef(o) + Others(h)' + 1
      /\ o.ce = obj[h].ce /\ o.active = obj[h].active
      /\ Elsewhere(h) /\ FrameElsewhere(h)
  BY <1>1, LeaveFacts, LiveFacts, ReleaseFields
<1> HIDE DEF o
<1>3. ASSUME Others(h)' = 0, LoopRef(o) = 0, obj[h].phase # "closing"
      PROVE  OwnersOf(h) = {"call"}
  <2>1. Pending(h) = 0 /\ lost[h] = 0 /\ vars[h] = 0
    BY <1>1, <1>2, <1>3, NobodyLeft DEF Pending
  <2>2. ~php_uv_is_handle_referenced(obj[h])
    BY <1>2, <1>3 DEF LoopRef, php_uv_is_handle_referenced
  <2>3. QED
    BY <1>1, <1>3, <2>1, <2>2, SoleOwner
<1>4. QED
  BY <1>1, <1>2, <1>3, ReleaseStep

(* The return of the close callback.                                       *)
LEMMA CloseReturnStep ==
  ASSUME HandleInv, HandleInv', NEW h \in Handles, php_uv_close_cb_return(h)
  PROVE  LifeStep(h)
<1> DEFINE o == OBJ_RELEASE(obj[h])
           c == clean_uv_handle(o)
<1>1. /\ frame.handle = h /\ frame.cb = "close"
      /\ frame' = NoFrame /\ vars' = vars /\ reqs' = reqs /\ lost' = lost
      /\ obj' = [obj EXCEPT ![h] = OBJ_RELEASE(c)]
  BY DEF php_uv_close_cb_return
<1>2. /\ o \in Object /\ LiveShape(o) /\ o.phase = obj[h].phase
      /\ o.rc = LoopRef(o) + CloseRef(o) + Others(h)' + 1
      /\ Elsewhere(h) /\ FrameElsewhere(h) /\ obj[h].life = "live"
  BY <1>1, LeaveFacts
<1> HIDE DEF o
<1>3. o.phase = "closed" /\ ~php_uv_is_handle_referenced(obj[h]) /\ obj[h].phase = "closed"
  BY <1>1, <1>2, LiveFacts DEF LiveShape, php_uv_is_handle_referenced
<1>4. /\ c \in Object /\ LiveShape(c) /\ c.phase = "closed" /\ c.rc = o.rc
      /\ LoopRef(c) = LoopRef(o) /\ CloseRef(c) = CloseRef(o)
  BY <1>2, <1>3, CleanClosed
<1> HIDE DEF c
<1>5. ASSUME Others(h)' = 0
      PROVE  OwnersOf(h) = {"call"}
  <2>1. Pending(h) = 0 /\ lost[h] = 0 /\ vars[h] = 0
    BY <1>1, <1>2, <1>5, NobodyLeft DEF Pending
  <2>2. QED
    BY <1>1, <1>3, <2>1, SoleOwner
<1>6. QED
  BY <1>1, <1>2, <1>3, <1>4, <1>5, ReleaseStep

(* The end of a close: the close gives the object to its callback, or to   *)
(* the owners that remain, or frees it when there is none.                 *)
LEMMA FinishStep ==
  ASSUME HandleInv, HandleInv', NEW h \in Handles, php_uv_close_cb(h)
  PROVE  Lifetime!Finish(h)
<1> DEFINE o == [obj[h] EXCEPT !.phase = "closed"]
           c == clean_uv_handle(o)
<1>1. /\ frame = NoFrame /\ obj[h].life = "live" /\ obj[h].phase = "closing"
      /\ vars' = vars /\ reqs' = reqs /\ lost' = lost
      /\ \/ CallPHP(h, "close", o)
         \/ obj' = [obj EXCEPT ![h] = OBJ_RELEASE(c)] /\ frame' = frame
  BY DEF php_uv_close_cb
<1>2. /\ o \in Object /\ o.rc = obj[h].rc /\ o.ce = obj[h].ce /\ o.life = "live"
      /\ o.dtored = obj[h].dtored /\ o.phase = "closed" /\ o.active = obj[h].active
  BY <1>1, LiveFacts DEF Object, Phases
<1> HIDE DEF o
<1>3. LiveShape(obj[h]) /\ ~obj[h].active /\ obj[h].dtored
  BY <1>1, LiveFacts DEF LiveShape
<1>4. LiveShape(o) /\ LoopRef(o) = 0 /\ CloseRef(o) = 0 /\ ~php_uv_is_handle_referenced(obj[h])
  BY <1>2, <1>3 DEF LiveShape, LoopRef, CloseRef, php_uv_is_handle_referenced
<1>5. Elsewhere(h) /\ Pending(h)' = Pending(h) /\ frame.handle # h
  BY <1>1, HandleAssumption DEF HandleInv, HandleTypeOK, Elsewhere, Pending, NoFrame
<1>6. StageOf(h) = "closing"
  BY <1>1 DEF StageOf
<1>7. CASE CallPHP(h, "close", o)
  <2>1. /\ obj' = [obj EXCEPT ![h] = GC_ADDREF(o)] /\ frame' = [handle |-> h, cb |-> "close"]
    BY <1>7 DEF CallPHP
  <2>2. /\ GC_ADDREF(o) \in Object /\ GC_ADDREF(o).life = "live"
        /\ GC_ADDREF(o).phase = "closed" /\ ~GC_ADDREF(o).active
    BY <1>2, <1>3, AddRefFields
  <2>3. FrameElsewhere(h)
    BY <1>1, <2>1, HandleAssumption DEF FrameElsewhere, NoFrame, Callbacks
  <2>4. OnlyAt(h) /\ obj'[h] = GC_ADDREF(o)
    BY <1>5, <2>1, <2>2, <2>3 DEF OnlyAt, HandleInv, HandleTypeOK
  <2>5. OwnersOf(h)' = (OwnersOf(h) \ {"close"}) \cup {"call"}
    <3>1. ~php_uv_is_handle_referenced(obj'[h]) /\ obj'[h].phase # "closing" /\ frame'.handle = h
      BY <2>1, <2>2, <2>4 DEF php_uv_is_handle_referenced
    <3>2. \A x : x \in OwnersOf(h)' <=> x \in (OwnersOf(h) \ {"close"}) \cup {"call"}
      BY <1>1, <1>4, <1>5, <3>1, OwnersFacts, OwnersFactsAfter
    <3>3. QED
      BY <3>2
  <2>6. StageOf(h)' = "closed"
    BY <2>2, <2>4 DEF StageOf
  <2>7. QED
    BY <1>6, <2>4, <2>5, <2>6, BecomeStep DEF Lifetime!Finish
<1>8. CASE obj' = [obj EXCEPT ![h] = OBJ_RELEASE(c)] /\ frame' = frame
  <2>1. /\ c \in Object /\ LiveShape(c) /\ c.phase = "closed" /\ c.rc = o.rc
        /\ LoopRef(c) = LoopRef(o) /\ CloseRef(c) = CloseRef(o)
    BY <1>2, <1>4, CleanClosed
  <2> DEFINE r == OBJ_RELEASE(c)
             n == Others(h)'
  <2>2. FrameElsewhere(h) /\ Others(h)' = Others(h) /\ n \in Nat
    BY <1>1, <1>8, QuietElsewhere, CountersNat DEF Others
  <2>3. c.rc = LoopRef(c) + CloseRef(c) + n + 1
    <3>1. CloseRef(obj[h]) = 1 /\ LoopRef(obj[h]) = 0
      BY <1>1, <1>4 DEF CloseRef, LoopRef
    <3>2. QED
      BY <1>1, <1>2, <1>4, <2>1, <2>2, <3>1, LiveFacts
  <2> HIDE DEF c
  <2>4. /\ r \in Object
        /\ \/ LiveShape(r) /\ r.rc > 0 /\ r.phase = "closed"
           \/ r.life = "freed" /\ n = 0 /\ r.phase = "closed" /\ ~r.active
    BY <2>1, <2>2, <2>3, ReleaseExact
  <2> HIDE DEF r
  <2>5. OnlyAt(h) /\ obj'[h] = r
    BY <1>5, <1>8, <2>2, <2>4 DEF OnlyAt, HandleInv, HandleTypeOK, r
  <2>6. ~php_uv_is_handle_referenced(obj'[h]) /\ obj'[h].phase = "closed"
    BY <2>4, <2>5 DEF LiveShape, php_uv_is_handle_referenced
  <2>7. OwnersOf(h)' = OwnersOf(h) \ {"close"} /\ "close" \in OwnersOf(h)
    <3>1. \A x : x \in OwnersOf(h)' <=> x \in OwnersOf(h) \ {"close"}
      BY <1>1, <1>4, <1>5, <1>8, <2>6, OwnersFacts, OwnersFactsAfter
    <3>2. QED
      BY <1>1, <3>1, OwnersFacts
  <2>8. CASE LiveShape(r)
    <3>1. StageOf(h)' = "closed" /\ OwnersOf(h)' # {}
      BY <2>5, <2>6, <2>8, LiveOwnedAfter DEF StageOf, LiveShape
    <3>2. OwnersOf(h) # {"close"}
      BY <2>7, <3>1
    <3>3. QED
      BY <1>6, <2>5, <2>7, <3>1, <3>2, BecomeStep DEF Lifetime!Finish
  <2>9. CASE r.life = "freed" /\ n = 0
    <3>1. StageOf(h)' = "freed"
      BY <2>5, <2>9 DEF StageOf
    <3>2. vars'[h] = 0 /\ Pending(h)' = 0 /\ lost'[h] = 0 /\ frame'.handle # h
      BY <1>5, <2>9, NobodyLeft
    <3>3. OwnersOf(h)' = {}
      <4>1. \A x : x \notin OwnersOf(h)'
        BY <2>6, <3>2, OwnersFactsAfter
      <4>2. QED
        BY <4>1
    <3>4. OwnersOf(h) = {"close"}
      BY <2>7, <3>3
    <3>5. QED
      BY <1>6, <2>5, <3>1, <3>3, <3>4, BecomeStep DEF Lifetime!Finish
  <2>10. QED
    BY <2>4, <2>8, <2>9
<1>9. QED
  BY <1>1, <1>7, <1>8

(* The shared actions are steps of HandleLifetime.                         *)
LEMMA HandleNextLife ==
  ASSUME HandleInv, HandleInv', NEW h \in Handles, HandleNext(h)
  PROVE  LifeStep(h)
  BY CopyStep, UnsetStep, CloseStep, ReturnStep, FinishStep, CloseReturnStep
  DEF HandleNext, LifeStep

(* A C callback with a record that has one reference more than it needs,   *)
(* the one the callback owns.                                              *)
LEMMA CallStep ==
  ASSUME HandleInv, HandleInv', NEW h \in Handles, NEW cb \in Callbacks, NEW o \in Object,
         DoCallback(h, cb, o), Elsewhere(h),
         LiveShape(o), obj[h].life = "live", o.phase = obj[h].phase,
         o.rc = LoopRef(o) + CloseRef(o) + Kept(h)' + 1,
         Kept(h)' = 0 /\ LoopRef(o) = 0 =>
           \/ obj[h].phase = "open" /\ OwnersOf(h) \in {{"request"}, {"loop"}}
           \/ obj[h].phase = "closing"
  PROVE  LifeStep(h)
<1>1. CASE CallPHP(h, cb, o)
  <2>1. obj' = [obj EXCEPT ![h] = GC_ADDREF(o)] /\ frame = NoFrame /\ frame' = [handle |-> h, cb |-> cb]
    BY <1>1 DEF CallPHP
  <2>2. /\ GC_ADDREF(o) \in Object /\ GC_ADDREF(o).phase = obj[h].phase
        /\ GC_ADDREF(o).life = "live"
    BY AddRefFields DEF LiveShape
  <2>3. FrameElsewhere(h)
    BY <2>1, HandleAssumption DEF FrameElsewhere, NoFrame
  <2>4. OnlyAt(h) /\ obj'[h] = GC_ADDREF(o)
    BY <2>1, <2>2, <2>3 DEF OnlyAt, HandleInv, HandleTypeOK
  <2>5. QED
    BY <2>2, <2>4, ShareStep DEF LifeStep
<1>2. CASE frame = NoFrame /\ obj' = [obj EXCEPT ![h] = OBJ_RELEASE(o)] /\ frame' = frame
  <2>1. FrameElsewhere(h) /\ FrameRefs(h)' = 0
    BY <1>2, HandleAssumption DEF HandleInv, HandleTypeOK, FrameElsewhere, FrameRefs, NoFrame
  <2>2. Others(h)' = Kept(h)'
    BY <2>1, CountersNatAfter DEF Others
  <2>3. QED
    BY <1>2, <2>1, <2>2, ReleaseStep
<1>3. QED
  BY <1>1, <1>2 DEF DoCallback

(* A callback that takes a reference of its own.                           *)
LEMMA WatchedCallStep ==
  ASSUME HandleInv, HandleInv', NEW h \in Handles, NEW cb \in Callbacks,
         obj[h].life = "live", obj[h].active, obj[h].ce \in ReferencedClasses,
         DoCallback(h, cb, GC_ADDREF(obj[h])),
         vars' = vars, reqs' = reqs, lost' = lost
  PROVE  LifeStep(h)
<1> DEFINE o == GC_ADDREF(obj[h])
<1>1. /\ o \in Object /\ LiveShape(o) /\ o.phase = obj[h].phase
      /\ LoopRef(o) = LoopRef(obj[h])
      /\ o.rc = LoopRef(o) + CloseRef(o) + Others(h) + 1
  BY AddRefLive
<1>2. LoopRef(o) = 1
  BY <1>1 DEF LoopRef, php_uv_is_handle_referenced
<1>3. frame = NoFrame
  BY DEF DoCallback, CallPHP
<1>4. Elsewhere(h) /\ Kept(h)' = Others(h)
  BY <1>3, NoFrameKept DEF HandleInv, HandleTypeOK, Elsewhere, Kept, Pending
<1> HIDE DEF o
<1>5. QED
  BY <1>1, <1>2, <1>4, CallStep DEF o

(* A callback that inherits the reference of an activity that has ended.   *)
LEMMA StoppedCallStep ==
  ASSUME HandleInv, HandleInv', NEW h \in Handles, NEW cb \in Callbacks,
         obj[h].life = "live", obj[h].active, obj[h].ce \in ReferencedClasses,
         DoCallback(h, cb, [obj[h] EXCEPT !.active = FALSE]),
         vars' = vars, reqs' = reqs, lost' = lost
  PROVE  LifeStep(h)
<1> DEFINE o == [obj[h] EXCEPT !.active = FALSE]
<1>1. /\ o \in Object /\ LiveShape(o) /\ o.phase = "open" /\ obj[h].phase = "open"
      /\ o.rc = LoopRef(o) + CloseRef(o) + Others(h) + 1
  BY StoppedLive
<1>2. frame = NoFrame /\ frame.handle # h
  BY HandleAssumption DEF DoCallback, CallPHP, NoFrame
<1>3. Elsewhere(h) /\ Kept(h)' = Others(h)
  BY <1>2, NoFrameKept DEF HandleInv, HandleTypeOK, Elsewhere, Kept, Pending
<1>4. ASSUME Kept(h)' = 0
      PROVE  OwnersOf(h) = {"loop"}
  <2> DEFINE a == vars[h]  b == Pending(h)  l == lost[h]
  <2>1. /\ a \in Nat /\ b \in Nat /\ l \in Nat /\ Kept(h) = 0 /\ Kept(h) = a + b + l
    BY <1>2, <1>3, <1>4, CountersNat, NoFrameKept DEF Kept
  <2> HIDE DEF a, b, l
  <2>2. a = 0 /\ b = 0 /\ l = 0
    BY <2>1
  <2>3. php_uv_is_handle_referenced(obj[h]) /\ obj[h].phase # "closing"
    BY <1>1 DEF php_uv_is_handle_referenced
  <2>4. QED
    BY <1>2, <2>2, <2>3, SoleOwner DEF a, b, l
<1> HIDE DEF o
<1>5. QED
  BY <1>1, <1>3, <1>4, CallStep DEF o

(* A step in which only the record of h changes, and neither the life nor  *)
(* the phase in it.                                                        *)
LEMMA RecordStep ==
  ASSUME HandleInv, HandleInv', NEW h \in Handles, NEW o \in Object,
         obj' = [obj EXCEPT ![h] = o], obj[h].life = "live",
         o.life = "live", o.phase = obj[h].phase,
         Elsewhere(h), FrameElsewhere(h)
  PROVE  LifeStep(h)
<1>1. OnlyAt(h) /\ obj'[h] = o
  BY DEF OnlyAt, HandleInv, HandleTypeOK
<1>2. QED
  BY <1>1, ShareStep DEF LifeStep

(* The stop of what the script can reach.                                  *)
LEMMA StopStep ==
  ASSUME HandleInv, HandleInv', NEW h \in Handles, Usable(h), obj[h].active,
         obj[h].ce \in ReferencedClasses,
         obj' = [obj EXCEPT ![h] = OBJ_RELEASE([@ EXCEPT !.active = FALSE])],
         vars' = vars, reqs' = reqs, frame' = frame, lost' = lost
  PROVE  LifeStep(h)
<1> DEFINE o == [obj[h] EXCEPT !.active = FALSE]
<1>1. obj[h].life = "live" /\ obj' = [obj EXCEPT ![h] = OBJ_RELEASE(o)] /\ Others(h) > 0
  BY VisibleHeld DEF Usable
<1>2. /\ o \in Object /\ LiveShape(o) /\ o.phase = "open" /\ obj[h].phase = "open"
      /\ o.rc = LoopRef(o) + CloseRef(o) + Others(h) + 1
  BY <1>1, StoppedLive
<1> HIDE DEF o
<1>3. Others(h)' = Others(h) /\ Elsewhere(h) /\ FrameElsewhere(h) /\ Others(h)' # 0
  BY <1>1, QuietElsewhere
<1>4. QED
  BY <1>1, <1>2, <1>3, ReleaseStep

(* The record of a class with its activity set.                            *)
LEMMA SetActive ==
  ASSUME NEW o \in Object, NEW b \in BOOLEAN
  PROVE  LET r == [o EXCEPT !.active = b]
         IN  /\ r \in Object /\ r.ce = o.ce /\ r.life = o.life
             /\ r.phase = o.phase /\ r.active = b
  BY DEF Object

(* A new object.                                                           *)
LEMMA NewObject ==
  ASSUME NEW class
  PROVE  LET o == create_uv(class)
         IN  /\ o.ce = class /\ o.life = "live" /\ o.phase = "open" /\ ~o.active
             /\ class \in Classes => o \in Object
  BY DEF create_uv, Absent, Object, Lives, Phases

(* A start that takes a reference, for the activity or for nothing.        *)
LEMMA StartStep ==
  ASSUME HandleInv, HandleInv', NEW h \in Handles, obj[h].life = "live",
         NEW b \in BOOLEAN, NEW o \in {obj[h], GC_ADDREF(obj[h])},
         \/ obj' = [obj EXCEPT ![h] = o]
         \/ obj' = [obj EXCEPT ![h] = [o EXCEPT !.active = b]],
         vars' = vars, reqs' = reqs, frame' = frame,
         lost' = lost \/ (lost[h] < MaxLost /\ lost' = [lost EXCEPT ![h] = @ + 1])
  PROVE  LifeStep(h)
<1>1. o \in Object /\ o.life = "live" /\ o.phase = obj[h].phase
  BY LiveFacts, AddRefFields
<1>2. /\ [o EXCEPT !.active = b] \in Object
      /\ [o EXCEPT !.active = b].life = "live" /\ [o EXCEPT !.active = b].phase = obj[h].phase
  BY <1>1, SetActive
<1>3. Elsewhere(h) /\ FrameElsewhere(h)
  BY QuietElsewhere, LoseOne
<1>4. QED
  BY <1>1, <1>2, <1>3, RecordStep

(* A new object of the program.                                            *)
LEMMA InitStep ==
  ASSUME HandleInv, NEW h \in Handles, NEW class \in Classes, CreateHandle(h, class)
  PROVE  LifeStep(h)
<1> DEFINE o == create_uv(class)
<1>1. /\ obj[h].life = "none" /\ obj' = [obj EXCEPT ![h] = o]
      /\ vars' = [vars EXCEPT ![h] = 1] /\ reqs' = reqs /\ frame' = frame /\ lost' = lost
  BY DEF CreateHandle
<1>2. o \in Object /\ o.life = "live" /\ o.phase = "open" /\ ~o.active
  BY NewObject
<1> HIDE DEF o
<1>3. obj'[h] = o /\ vars'[h] = 1
  BY <1>1 DEF HandleInv, HandleTypeOK
<1>4. Elsewhere(h) /\ FrameElsewhere(h)
  BY <1>1, HandleAssumption DEF HandleInv, HandleTypeOK, Elsewhere, FrameElsewhere
<1>5. OnlyAt(h)
  BY <1>1, <1>2, <1>4 DEF OnlyAt
<1>6. QED
  BY <1>1, <1>2, <1>3, <1>5, CreateStep DEF LifeStep, php_uv_is_handle_referenced

(* A step that touches nothing of it.                                      *)
LEMMA QuietLife ==
  ASSUME UNCHANGED handleVars
  PROVE  UNCHANGED Lifetime!lifeVars
  BY DEF handleVars, Lifetime!lifeVars, StageOf, OwnersOf, Pending, FrameRefs,
         LoopRef, CloseRef, php_uv_is_handle_referenced

(* The abstract initial state.                                             *)
LEMMA InitLife == HandleInit => Lifetime!Init
<1> SUFFICES ASSUME HandleInit PROVE Lifetime!Init
  OBVIOUS
<1>1. ASSUME NEW h \in Handles PROVE StageOf(h) = "none" /\ OwnersOf(h) = {}
  <2>1. /\ obj[h] = Absent /\ vars[h] = 0 /\ Pending(h) = 0 /\ lost[h] = 0
        /\ frame.handle # h
    BY HandleAssumption DEF HandleInit, NoReqs, ReqKinds, Pending, NoFrame
  <2>2. /\ StageOf(h) = "none" /\ ~php_uv_is_handle_referenced(obj[h])
        /\ obj[h].phase # "closing"
    BY <2>1 DEF StageOf, Absent, php_uv_is_handle_referenced
  <2>3. \A x : x \notin OwnersOf(h)
    BY <2>1, <2>2, OwnersFacts
  <2>4. QED
    BY <2>2, <2>3
<1>2. QED
  BY <1>1 DEF Lifetime!Init

-----------------------------------------------------------------------------
(* What a started handle has to fear from the steps of others, and from    *)
(* its own callbacks: nothing.                                             *)

Survives(h) == obj'[h].life = "live" /\ obj'[h].active /\ obj'[h].phase = "open"

(* What pays for its activity has a reference for it.                      *)
LEMMA ActiveFacts ==
  ASSUME HandleInv, NEW h \in Handles, obj[h].active
  PROVE  /\ obj[h].life = "live" /\ obj[h].phase = "open" /\ ~obj[h].dtored /\ obj[h] \in Object
         /\ frame.handle = h => frame.cb # "close"
         /\ obj[h].ce \in ReferencedClasses => obj[h].rc = 1 + Others(h)
<1>1. obj[h].life = "live"
  BY DEF HandleInv, WellFormed, Absent, LiveShape
<1>2. obj[h].phase = "open" /\ ~obj[h].dtored
  BY <1>1, LiveFacts DEF LiveShape
<1>3. ASSUME obj[h].ce \in ReferencedClasses
      PROVE  obj[h].rc = 1 + Others(h)
  <2>1. LoopRef(obj[h]) = 1 /\ CloseRef(obj[h]) = 0 /\ Others(h) \in Nat
    BY <1>2, <1>3, CountersNat DEF LoopRef, CloseRef, php_uv_is_handle_referenced, Others
  <2>2. QED
    BY <1>1, <2>1, LiveFacts
<1>4. QED
  BY <1>1, <1>2, <1>3, LiveFacts

(* The reference of a variable or of a callback is never its last.         *)
LEMMA ReleaseKeepsActive ==
  ASSUME NEW o \in Object, o.rc > 1, o.life = "live", o.active, o.phase = "open"
  PROVE  LET r == OBJ_RELEASE(o)
         IN  r \in Object /\ r.life = "live" /\ r.active /\ r.phase = "open" /\ r.rc = o.rc - 1
  BY ReleaseFields

(* The shared actions: they leave the variables and the running callback   *)
(* as they are, or an active handle active.                                *)
LEMMA HandleNextKeeps ==
  ASSUME HandleInv, NEW h \in Handles, HandleNext(h),
         obj[h].active, obj[h].ce \in ReferencedClasses
  PROVE  (vars' = vars /\ frame' = frame) \/ Survives(h)
<1>0. /\ obj[h].life = "live" /\ obj[h].phase = "open" /\ ~obj[h].dtored /\ obj[h] \in Object
      /\ frame.handle = h => frame.cb # "close"
      /\ obj[h].rc = 1 + Others(h)
      /\ Others(h) = vars[h] + Pending(h) + lost[h] + FrameRefs(h)
      /\ vars[h] \in Nat /\ Pending(h) \in Nat /\ lost[h] \in Nat /\ FrameRefs(h) \in {0, 2}
  BY ActiveFacts, CountersNat DEF Others, Kept
<1>1. CASE CopyVariable(h)
  <2>1. obj'[h] = GC_ADDREF(obj[h])
    BY <1>1 DEF CopyVariable, HandleInv, HandleTypeOK
  <2>2. QED
    BY <1>0, <2>1, AddRefFields DEF Survives
<1>2. CASE UnsetVariable(h)
  <2>1. obj'[h] = OBJ_RELEASE(obj[h]) /\ vars[h] > 0
    BY <1>2 DEF UnsetVariable, HandleInv, HandleTypeOK
  <2>2. obj[h].rc > 1
    BY <1>0, <2>1
  <2>3. QED
    BY <1>0, <2>1, <2>2, ReleaseKeepsActive DEF Survives
<1>3. CASE ReturnFromCallback(h)
  <2>1. obj'[h] = OBJ_RELEASE(OBJ_RELEASE(obj[h])) /\ FrameRefs(h) = 2
    BY <1>3 DEF ReturnFromCallback, HandleInv, HandleTypeOK, FrameRefs
  <2>2. obj[h].rc > 2
    BY <1>0, <2>1
  <2>3. LET r == OBJ_RELEASE(obj[h])
        IN  r \in Object /\ r.life = "live" /\ r.active /\ r.phase = "open" /\ r.rc > 1
    BY <1>0, <2>2, ReleaseKeepsActive
  <2>4. QED
    BY <2>1, <2>3, ReleaseKeepsActive DEF Survives
<1>4. CASE uv_close(h)
  BY <1>4 DEF uv_close
<1>5. QED
  BY <1>0, <1>1, <1>2, <1>3, <1>4 DEF HandleNext, php_uv_close_cb, php_uv_close_cb_return

(* They leave the records of the others alone, and every class as it is.   *)
LEMMA HandleNextElsewhere ==
  ASSUME HandleTypeOK, NEW h \in Handles, HandleNext(h)
  PROVE  /\ \A k \in Handles \ {h} : obj'[k] = obj[k]
         /\ obj'[h].ce = obj[h].ce
<1>0. obj \in [Handles -> Object] /\ obj[h] \in Object
  BY DEF HandleTypeOK
<1>1. CASE CopyVariable(h)
  BY <1>0, <1>1, AddRefFields DEF CopyVariable
<1>2. CASE UnsetVariable(h)
  BY <1>0, <1>2, ReleaseAny DEF UnsetVariable
<1>3. CASE ReturnFromCallback(h)
  BY <1>0, <1>3, ReleaseAny DEF ReturnFromCallback
<1>4. CASE uv_close(h)
  <2>1. PICK callable \in BOOLEAN :
          obj' = [obj EXCEPT ![h] = php_uv_close([@ EXCEPT !.notify = callable])]
    BY <1>4 DEF uv_close
  <2> DEFINE i == [obj[h] EXCEPT !.notify = callable]
  <2>2. i \in Object /\ i.ce = obj[h].ce
    BY <1>0 DEF Object
  <2>3. obj' = [obj EXCEPT ![h] = php_uv_close(i)]
    BY <2>1
  <2> HIDE DEF i
  <2>4. QED
    BY <1>0, <2>2, <2>3, CloseAny
<1>5. CASE php_uv_close_cb(h)
  <2> DEFINE o == [obj[h] EXCEPT !.phase = "closed"]
  <2>1. o \in Object /\ o.ce = obj[h].ce
    BY <1>0 DEF Object, Phases
  <2>2. \/ obj' = [obj EXCEPT ![h] = GC_ADDREF(o)]
        \/ obj' = [obj EXCEPT ![h] = OBJ_RELEASE(clean_uv_handle(o))]
    BY <1>5 DEF php_uv_close_cb, CallPHP
  <2> HIDE DEF o
  <2>3. QED
    BY <1>0, <2>1, <2>2, AddRefFields, CleanFields, ReleaseAny
<1>6. CASE php_uv_close_cb_return(h)
  <2>1. obj' = [obj EXCEPT ![h] = OBJ_RELEASE(clean_uv_handle(OBJ_RELEASE(obj[h])))]
    BY <1>6 DEF php_uv_close_cb_return
  <2>2. QED
    BY <1>0, <2>1, CleanFields, ReleaseAny
<1>7. QED
  BY <1>1, <1>2, <1>3, <1>4, <1>5, <1>6 DEF HandleNext
=============================================================================
