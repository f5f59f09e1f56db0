--------------------------- MODULE UVRequest_proofs --------------------------
(***************************************************************************)
(* The object of a request outlives its job, whatever the order in which   *)
(* jobs run, are cancelled and are answered, and the script ends; and it   *)
(* goes with the answer.  For any number of requests and workers.          *)
(***************************************************************************)
EXTENDS UVRequest, FiniteSetTheorems, TLAPS

-----------------------------------------------------------------------------
(* The sum over all requests of the streams they store.                    *)

StoresOf(u, f) == {p \in Requests \X {"fs_fd", "fs_fd_alt"} : u[p[1]][p[2]] = f}

OtherStores(u, r, f) == {p \in StoresOf(u, f) : p[1] # r}

(* One request has its part in it.                                         *)
LEMMA StoresCount ==
  ASSUME NEW u, NEW r \in Requests, NEW f, IsFiniteSet(OtherStores(u, r, f))
  PROVE  /\ IsFiniteSet(StoresOf(u, f))
         /\ Cardinality(OtherStores(u, r, f)) \in Nat
         /\ Cardinality(StoresOf(u, f)) = Cardinality(OtherStores(u, r, f)) + Stored(u[r], f)
<1> DEFINE S == OtherStores(u, r, f)
           x == <<r, "fs_fd">>  y == <<r, "fs_fd_alt">>
<1>1. x \notin S /\ y \notin S /\ x # y
  BY DEF OtherStores
<1>2. /\ x \in StoresOf(u, f) <=> u[r].fs_fd = f
      /\ y \in StoresOf(u, f) <=> u[r].fs_fd_alt = f
  BY DEF StoresOf
<1>3. \A p \in StoresOf(u, f) : p \in S \/ p = x \/ p = y
  BY DEF StoresOf, OtherStores
<1>4. S \subseteq StoresOf(u, f) /\ Cardinality(S) \in Nat
  BY FS_CardinalityType DEF OtherStores
<1>5. /\ IsFiniteSet(S \cup {x}) /\ Cardinality(S \cup {x}) = Cardinality(S) + 1
      /\ IsFiniteSet(S \cup {y}) /\ Cardinality(S \cup {y}) = Cardinality(S) + 1
      /\ IsFiniteSet((S \cup {x}) \cup {y})
      /\ Cardinality((S \cup {x}) \cup {y}) = (Cardinality(S) + 1) + 1
  <2> HIDE DEF S, x, y
  <2>1. y \notin S \cup {x}
    BY <1>1
  <2>2. IsFiniteSet(S)
    BY DEF S
  <2>3. IsFiniteSet(S \cup {x}) /\ Cardinality(S \cup {x}) = Cardinality(S) + 1
    BY <1>1, <2>2, FS_AddElement
  <2>4. IsFiniteSet(S \cup {y}) /\ Cardinality(S \cup {y}) = Cardinality(S) + 1
    BY <1>1, <2>2, FS_AddElement
  <2>5. /\ IsFiniteSet((S \cup {x}) \cup {y})
        /\ Cardinality((S \cup {x}) \cup {y}) = Cardinality(S \cup {x}) + 1
    BY <2>1, <2>3, FS_AddElement
  <2>6. QED
    BY <2>3, <2>4, <2>5
<1> HIDE DEF S, x, y
<1>6. StoresOf(u, f) = IF u[r].fs_fd = f
                       THEN IF u[r].fs_fd_alt = f THEN (S \cup {x}) \cup {y} ELSE S \cup {x}
                       ELSE IF u[r].fs_fd_alt = f THEN S \cup {y} ELSE S
  BY <1>2, <1>3, <1>4
<1>7. /\ IsFiniteSet(StoresOf(u, f))
      /\ Cardinality(StoresOf(u, f)) = Cardinality(S) + Stored(u[r], f)
  BY <1>4, <1>5, <1>6 DEF Stored, S
<1>8. QED
  BY <1>4, <1>7 DEF S

(* The sum after a step of one request.                                    *)
LEMMA StoresStep ==
  ASSUME NEW u, NEW w, NEW r \in Requests, NEW f, IsFiniteSet(StoresOf(u, f)),
         \A k \in Requests \ {r} : w[k] = u[k]
  PROVE  /\ IsFiniteSet(StoresOf(w, f))
         /\ Cardinality(StoresOf(u, f)) \in Nat /\ Cardinality(StoresOf(w, f)) \in Nat
         /\ Cardinality(StoresOf(w, f)) =
              Cardinality(StoresOf(u, f)) - Stored(u[r], f) + Stored(w[r], f)
<1>1. OtherStores(w, r, f) = OtherStores(u, r, f)
  BY DEF OtherStores, StoresOf
<1>2. IsFiniteSet(OtherStores(u, r, f))
  <2>1. OtherStores(u, r, f) \in SUBSET StoresOf(u, f)
    BY DEF OtherStores
  <2>2. QED
    BY <2>1, FS_Subset
<1>3. /\ Cardinality(OtherStores(u, r, f)) \in Nat
      /\ Cardinality(StoresOf(u, f)) = Cardinality(OtherStores(u, r, f)) + Stored(u[r], f)
  BY <1>2, StoresCount
<1>4. /\ IsFiniteSet(StoresOf(w, f))
      /\ Cardinality(StoresOf(w, f)) = Cardinality(OtherStores(u, r, f)) + Stored(w[r], f)
  BY <1>1, <1>2, StoresCount
<1>5. Stored(u[r], f) \in Nat /\ Stored(w[r], f) \in Nat
  BY DEF Stored
<1>6. QED
  BY <1>3, <1>4, <1>5

(* What a request stores is counted.                                       *)
LEMMA StoredCounted ==
  ASSUME NEW r \in Requests, NEW f, IsFiniteSet(Stores(f)), uv[r].fs_fd = f
  PROVE  Cardinality(Stores(f)) \in Nat /\ Cardinality(Stores(f)) > 0
<1>1. <<r, "fs_fd">> \in Stores(f)
  BY DEF Stores
<1>2. QED
  BY <1>1, FS_CardinalityType, FS_EmptySet

-----------------------------------------------------------------------------
(* A new request has one reference and is not destroyed.                   *)
LEMMA RequestShape ==
  ASSUME NEW op \in FsOperations \cup {"getaddrinfo", "work"},
         NEW fd \in Files \cup {NoFile}, NEW alt \in Files \cup {NoFile}
  PROVE  /\ Request(op, fd, alt) \in Object
         /\ Request(op, fd, alt).life = "live"
         /\ Request(op, fd, alt).rc = 1
         /\ ~Request(op, fd, alt).dtored /\ Request(op, fd, alt).slots = "set"
         /\ Request(op, fd, alt).op = op /\ Request(op, fd, alt).fs_fd = fd
  BY DEF Request, Absent, Object

(* clean_uv_handle frees the slots, not the object.                        *)
LEMMA CleanShape ==
  ASSUME NEW o \in Object
  PROVE  /\ clean_uv_handle(o) \in Object
         /\ clean_uv_handle(o).life = o.life
         /\ clean_uv_handle(o).rc = o.rc
         /\ clean_uv_handle(o).dtored /\ clean_uv_handle(o).op = o.op
         /\ clean_uv_handle(o).slots = "freed"
  BY DEF clean_uv_handle, Object

(* OBJ_RELEASE drops one reference and frees with the last.                *)
LEMMA ReleaseShape ==
  ASSUME NEW o \in Object
  PROVE  /\ OBJ_RELEASE(o) \in Object
         /\ OBJ_RELEASE(o).op = o.op /\ OBJ_RELEASE(o).dtored = o.dtored
         /\ o.rc = 1 => OBJ_RELEASE(o).life = "freed"
<1>1. o.rc \in Nat
  BY DEF Object
<1>2. CASE o.rc > 1
  <2>1. OBJ_RELEASE(o) = [o EXCEPT !.rc = o.rc - 1] /\ o.rc - 1 \in Nat /\ o.rc # 1
    BY <1>1, <1>2 DEF OBJ_RELEASE
  <2>2. /\ [o EXCEPT !.rc = o.rc - 1] \in Object /\ [o EXCEPT !.rc = o.rc - 1].op = o.op
        /\ [o EXCEPT !.rc = o.rc - 1].dtored = o.dtored
    BY <2>1 DEF Object
  <2>3. QED
    BY <2>1, <2>2
<1>3. CASE ~(o.rc > 1)
  BY <1>3 DEF OBJ_RELEASE, Object
<1>4. QED
  BY <1>2, <1>3

-----------------------------------------------------------------------------
(* The parts of the invariant.                                             *)
LEMMA RequestTypes ==
  ASSUME RequestInv
  PROVE  /\ RequestTypeOK
         /\ \A f \in Files : /\ IsFiniteSet(Stores(f)) /\ Cardinality(Stores(f)) \in Nat
                             /\ refs[f] = Cardinality(Stores(f)) + lost[f] + (IF script[f] THEN 1 ELSE 0)
                             /\ closed[f] => lost[f] > 0
         /\ \A r \in Requests : /\ LifeOf(uv[r], job[r], ended) /\ LentOf(uv[r], job[r], lent[r], lost)
                                /\ uv[r] \in Object /\ job[r] \in Jobs
                                /\ lent[r] \in [fd : Files0, alt : Files0]
  BY FS_CardinalityType DEF RequestInv, RequestTypeOK, FileRefsExact

(* What is forgotten stays forgotten.                                      *)
LEMMA LentKept ==
  ASSUME NEW o, NEW j, NEW t \in [fd : Files0, alt : Files0],
         NEW g \in [Files -> Nat], NEW w \in [Files -> Nat],
         \A f \in Files : w[f] >= g[f], LentOf(o, j, t, g)
  PROVE  LentOf(o, j, t, w)
<1>1. /\ t.fd \in Files \/ t.fd = NoFile
      /\ t.alt \in Files \/ t.alt = NoFile
  BY DEF Files0
<1>2. \A f \in Files : g[f] > 0 => w[f] > 0
  OBVIOUS
<1>3. QED
  BY <1>1, <1>2 DEF LentOf

(* A step of one request (Become) keeps the invariant if what it makes of  *)
(* the request has the right shape.                                        *)
LEMMA OneRequest ==
  ASSUME RequestInv, NEW r \in Requests, NEW o \in Object, NEW j \in Jobs,
         NEW t \in [fd : Files0, alt : Files0], NEW g \in Files0, NEW w,
         Become(r, o, g), job' = [job EXCEPT ![r] = j], lent' = [lent EXCEPT ![r] = t],
         UNCHANGED <<script, closed, ended>>, lost' = w,
         LifeOf(o, j, ended), LentOf(o, j, t, w)
  PROVE  RequestInv'
<1> DEFINE u == [uv EXCEPT ![r] = o]
<1>1. /\ uv \in [Requests -> Object] /\ uv' = u /\ u \in [Requests -> Object] /\ u[r] = o
      /\ \A k \in Requests \ {r} : u[k] = uv[k]
  BY RequestTypes DEF Become, RequestTypeOK
<1> HIDE DEF u
<1>2. /\ lost \in [Files -> Nat] /\ w \in [Files -> Nat]
      /\ \A f \in Files : w[f] = lost[f] + (IF f = g THEN 1 ELSE 0)
  BY RequestTypes DEF Become, RequestTypeOK
<1>3. ASSUME NEW f \in Files
      PROVE  /\ IsFiniteSet(Stores(f)') /\ Cardinality(Stores(f)') \in Nat
             /\ refs'[f] = Cardinality(Stores(f)') + w[f] + (IF script[f] THEN 1 ELSE 0)
  <2>1. Stores(f)' = StoresOf(u, f) /\ Stores(f) = StoresOf(uv, f)
    BY <1>1 DEF Stores, StoresOf
  <2>2. /\ IsFiniteSet(StoresOf(u, f)) /\ Cardinality(StoresOf(uv, f)) \in Nat
        /\ Cardinality(StoresOf(u, f)) \in Nat
        /\ Cardinality(StoresOf(u, f)) = Cardinality(StoresOf(uv, f)) - Stored(uv[r], f) + Stored(o, f)
    <3>1. IsFiniteSet(StoresOf(uv, f))
      BY <2>1, RequestTypes
    <3>2. QED
      BY <1>1, <3>1, StoresStep
  <2>3. refs'[f] = refs[f] - Stored(uv[r], f) + Stored(o, f) + (IF f = g THEN 1 ELSE 0)
    BY DEF Become
  <2>4. refs[f] = Cardinality(StoresOf(uv, f)) + lost[f] + (IF script[f] THEN 1 ELSE 0)
    BY <2>1, RequestTypes
  <2>5. Stored(uv[r], f) \in Nat /\ Stored(o, f) \in Nat /\ lost[f] \in Nat
    BY <1>2 DEF Stored
  <2> DEFINE a == Cardinality(StoresOf(uv, f))  b == Cardinality(StoresOf(u, f))
             c == Stored(uv[r], f)  d == Stored(o, f)  i == IF f = g THEN 1 ELSE 0
             e == IF script[f] THEN 1 ELSE 0
  <2>6. i \in Nat /\ e \in Nat
    OBVIOUS
  <2>7. w[f] = lost[f] + i
    BY <1>2
  <2> HIDE DEF a, b, c, d, e, i
  <2>8. refs'[f] = b + w[f] + e
    <3>1. b = a - c + d /\ refs[f] = a + lost[f] + e /\ refs'[f] = refs[f] - c + d + i
      BY <2>2, <2>3, <2>4 DEF a, b, c, d, e, i
    <3>2. a \in Nat /\ b \in Nat /\ c \in Nat /\ d \in Nat /\ lost[f] \in Nat
      BY <2>2, <2>5 DEF a, b, c, d
    <3>3. QED
      BY <2>6, <2>7, <3>1, <3>2
  <2>9. QED
    BY <2>1, <2>2, <2>8 DEF b, e
<1>4. refs' \in [Files -> Nat]
  <2>1. refs' = [f \in Files |-> refs'[f]]
    BY DEF Become
  <2>2. ASSUME NEW f \in Files PROVE refs'[f] \in Nat
    <3>1. w[f] \in Nat
      BY <1>2
    <3>2. QED
      BY <1>3, <3>1
  <2>3. QED
    BY <2>1, <2>2
<1>5. RequestTypeOK'
  BY <1>1, <1>2, <1>4, RequestTypes DEF RequestTypeOK
<1>6. FileRefsExact'
  BY <1>3 DEF FileRefsExact
<1>7. \A f \in Files : IsFiniteSet(Stores(f)') /\ (closed'[f] => lost'[f] > 0)
  BY <1>2, <1>3, RequestTypes
<1>8. ASSUME NEW k \in Requests
      PROVE  LifeOf(uv[k], job[k], ended)' /\ LentOf(uv[k], job[k], lent[k], lost)'
  <2>1. CASE k = r
    <3>1. uv'[k] = o /\ job'[k] = j /\ lent'[k] = t /\ ended' = ended
      BY <1>1, <2>1, RequestTypes DEF RequestTypeOK
    <3>2. QED
      BY <3>1
  <2>2. CASE k # r
    <3>1. uv'[k] = uv[k] /\ job'[k] = job[k] /\ lent'[k] = lent[k] /\ ended' = ended
      BY <1>1, <2>2, RequestTypes DEF RequestTypeOK
    <3>2. \A f \in Files : w[f] >= lost[f]
      BY <1>2
    <3>3. LentOf(uv[k], job[k], lent[k], w)
      BY <1>2, <3>2, LentKept, RequestTypes
    <3>4. QED
      BY <3>1, <3>3, RequestTypes
  <2>3. QED
    BY <2>1, <2>2
<1>9. QED
  BY <1>5, <1>6, <1>7, <1>8 DEF RequestInv

(* A step that leaves the objects and the sums alone.                      *)
LEMMA JobStep ==
  ASSUME RequestInv, NEW r \in Requests, NEW j \in Jobs, UNCHANGED <<uv, refs, lost, script, lent, ended>>,
         job' = [job EXCEPT ![r] = j], closed' \in [Files -> BOOLEAN],
         \A f \in Files : closed'[f] => lost[f] > 0,
         LifeOf(uv[r], j, ended), LentOf(uv[r], j, lent[r], lost)
  PROVE  RequestInv'
<1>1. RequestTypeOK'
  BY RequestTypes DEF RequestTypeOK
<1>2. \A f \in Files : Stores(f)' = Stores(f)
  BY DEF Stores
<1>3. FileRefsExact' /\ \A f \in Files : IsFiniteSet(Stores(f)') /\ (closed'[f] => lost'[f] > 0)
  BY <1>2, RequestTypes DEF FileRefsExact
<1>4. ASSUME NEW k \in Requests
      PROVE  LifeOf(uv[k], job[k], ended)' /\ LentOf(uv[k], job[k], lent[k], lost)'
  <2>1. job'[k] = (IF k = r THEN j ELSE job[k]) /\ uv' = uv /\ ended' = ended /\ lent' = lent /\ lost' = lost
    BY RequestTypes DEF RequestTypeOK
  <2>2. QED
    BY <2>1, RequestTypes
<1>5. QED
  BY <1>1, <1>3, <1>4 DEF RequestInv

-----------------------------------------------------------------------------
(* Submitting a request, accepted or refused.                              *)

(* What Become loses.                                                      *)
LEMMA BecomeLost ==
  ASSUME NEW r, NEW o, NEW g, Become(r, o, g)
  PROVE  \A f \in Files : lost'[f] = lost[f] + (IF f = g THEN 1 ELSE 0)
  BY DEF Become

LEMMA SubmitFile ==
  ASSUME RequestInv, NEW r \in Requests, NEW op \in FsOperations, NEW fd \in Files0, NEW alt \in Files0,
         php_uv_fs_common(r, op, fd, alt)
  PROVE  RequestInv'
<1> DEFINE o == Request(op, fd, alt)
           q == OBJ_RELEASE(clean_uv_handle(o))
           g == IF op = "copy" THEN alt ELSE fd
           t == [fd |-> fd, alt |-> alt]
           w == lost'
<1>1. /\ o \in Object /\ o.life = "live" /\ o.rc = 1 /\ ~o.dtored /\ o.op = op /\ o.fs_fd = fd
      /\ o.slots = "set"
  BY RequestShape DEF Files0
<1>2. q \in Object /\ q.op = op /\ q.dtored
  <2> HIDE DEF o
  <2>1. clean_uv_handle(o) \in Object /\ clean_uv_handle(o).op = op /\ clean_uv_handle(o).dtored
    BY <1>1, CleanShape
  <2>2. QED
    BY <2>1, ReleaseShape
<1>3. /\ ~ended /\ (fd # NoFile <=> op # "path") /\ (alt # NoFile <=> op = "copy")
      /\ lent' = [lent EXCEPT ![r] = t] /\ UNCHANGED <<script, closed, ended>>
      /\ \/ Become(r, o, g) /\ job' = [job EXCEPT ![r] = "queued"]
         \/ Become(r, q, g) /\ job' = [job EXCEPT ![r] = "refused"]
  BY DEF php_uv_fs_common
<1>4. t \in [fd : Files0, alt : Files0] /\ g \in Files0 /\ t.fd = fd /\ t.alt = alt
  OBVIOUS
<1>5. g \in Files => w[g] > 0
  <2> HIDE DEF g
  <2>1. \A f \in Files : w[f] = lost[f] + (IF f = g THEN 1 ELSE 0) /\ lost[f] \in Nat
    BY <1>3, BecomeLost, RequestTypes DEF RequestTypeOK
  <2>2. QED
    BY <2>1
<1>6. /\ fd # NoFile /\ op # "copy" => w[fd] > 0
      /\ alt # NoFile => w[alt] > 0
  BY <1>3, <1>5 DEF Files0
<1> HIDE DEF o, q, g, t, w
<1>7. LentOf(o, "queued", t, w) /\ LentOf(q, "refused", t, w)
  BY <1>1, <1>2, <1>3, <1>4, <1>6 DEF LentOf, FsOperations
<1>8. LifeOf(o, "queued", ended) /\ LifeOf(q, "refused", ended)
  BY <1>1, <1>3 DEF LifeOf
<1>9. "queued" \in Jobs /\ "refused" \in Jobs /\ lost' = w
  BY DEF Jobs, w
<1>10. CASE Become(r, o, g) /\ job' = [job EXCEPT ![r] = "queued"]
  BY <1>1, <1>3, <1>4, <1>7, <1>8, <1>9, <1>10, OneRequest
<1>11. CASE Become(r, q, g) /\ job' = [job EXCEPT ![r] = "refused"]
  BY <1>2, <1>3, <1>4, <1>7, <1>8, <1>9, <1>11, OneRequest
<1>12. QED
  BY <1>3, <1>10, <1>11

LEMMA SubmitOther ==
  ASSUME RequestInv, NEW r \in Requests, uv_getaddrinfo(r) \/ uv_queue_work(r)
  PROVE  RequestInv'
<1>1. PICK op \in {"getaddrinfo", "work"}, j \in {"queued", "refused"} :
        /\ Become(r, Request(op, NoFile, NoFile), NoFile)
        /\ job' = [job EXCEPT ![r] = j]
  BY DEF uv_getaddrinfo, uv_queue_work
<1> DEFINE o == Request(op, NoFile, NoFile)
           t == lent[r]
           w == lost'
<1>2. job[r] = "none" /\ ~ended /\ lent' = lent /\ UNCHANGED <<script, closed, ended>>
  BY DEF uv_getaddrinfo, uv_queue_work, fileVars
<1>3. t \in [fd : Files0, alt : Files0] /\ t.fd = NoFile /\ t.alt = NoFile
      /\ lent' = [lent EXCEPT ![r] = t]
  BY <1>2, RequestTypes DEF LentOf, RequestTypeOK
<1>4. /\ o \in Object /\ o.life = "live" /\ o.rc = 1 /\ ~o.dtored /\ o.op = op /\ o.fs_fd = NoFile
      /\ o.slots = "set"
  BY RequestShape
<1>5. Become(r, o, NoFile) /\ NoFile \in Files0 /\ j \in Jobs /\ lost' = w
  BY <1>1 DEF Files0, Jobs
<1> HIDE DEF o, t, w
<1>6. LentOf(o, j, t, w) /\ LifeOf(o, j, ended)
  BY <1>2, <1>3, <1>4 DEF LentOf, LifeOf
<1>7. QED
  BY <1>1, <1>2, <1>3, <1>4, <1>5, <1>6, OneRequest

-----------------------------------------------------------------------------
(* The workers.                                                            *)
LEMMA WorkerInv ==
  ASSUME RequestInv, NEW r \in Requests, WorkerStarts(r) \/ WorkerEnds(r)
  PROVE  RequestInv'
<1> USE DEF Jobs
<1>1. CASE WorkerStarts(r)
  <2>1. LifeOf(uv[r], "running", ended) /\ LentOf(uv[r], "running", lent[r], lost)
    BY <1>1, RequestTypes DEF WorkerStarts, LifeOf, LentOf
  <2>2. closed' \in [Files -> BOOLEAN] /\ \A f \in Files : closed'[f] => lost[f] > 0
    BY <1>1, RequestTypes DEF WorkerStarts, fileVars, RequestTypeOK
  <2>3. QED
    BY <1>1, <2>1, <2>2, JobStep DEF WorkerStarts, fileVars
<1>2. CASE WorkerEnds(r)
  <2>1. LifeOf(uv[r], "finished", ended) /\ LentOf(uv[r], "finished", lent[r], lost)
    BY <1>2, RequestTypes DEF WorkerEnds, LifeOf, LentOf
  <2>2. closed' \in [Files -> BOOLEAN] /\ \A f \in Files : closed'[f] => lost[f] > 0
    <3>1. closed \in [Files -> BOOLEAN] /\ \A f \in Files : closed[f] => lost[f] > 0
      BY RequestTypes DEF RequestTypeOK
    <3>2. uv[r].op = "close" => lost[lent[r].fd] > 0
      BY RequestTypes DEF LentOf
    <3>3. QED
      BY <1>2, <3>1, <3>2 DEF WorkerEnds
  <2>3. QED
    BY <1>2, <2>1, <2>2, JobStep DEF WorkerEnds
<1>3. QED
  BY <1>1, <1>2

(* What is answered before the script ends had one reference, which goes.  *)
LEMMA AnswerInv ==
  ASSUME RequestInv, NEW r \in Requests, Callback(r)
  PROVE  RequestInv'
<1> DEFINE o == OBJ_RELEASE(clean_uv_handle(uv[r]))
           q == OBJ_RELEASE(uv[r])
           t == lent[r]
           w == lost'
<1>1. /\ uv[r] \in Object /\ (uv[r].dtored \/ uv[r].rc = 1) /\ (uv[r].dtored => ended)
      /\ LentOf(uv[r], job[r], t, lost)
  BY RequestTypes DEF LifeOf, Callback, php_uv_fs_cb, php_uv_getaddrinfo_cb, php_uv_after_work_cb, Due
<1>2. /\ job' = [job EXCEPT ![r] = "answered"] /\ UNCHANGED <<script, closed, ended, lent>>
      /\ \E g \in Files0 : Become(r, o, g) \/ (uv[r].dtored /\ Become(r, q, g))
  BY <1>1 DEF Callback, php_uv_fs_cb, php_uv_getaddrinfo_cb, php_uv_after_work_cb, fileVars, Files0, Object
<1>3. PICK g \in Files0 : Become(r, o, g) \/ (uv[r].dtored /\ Become(r, q, g))
  BY <1>2
<1>4. /\ o \in Object /\ (uv[r].rc = 1 => o.life = "freed") /\ o.op = uv[r].op
      /\ q \in Object /\ q.op = uv[r].op
  <2>1. clean_uv_handle(uv[r]) \in Object /\ clean_uv_handle(uv[r]).rc = uv[r].rc
        /\ clean_uv_handle(uv[r]).op = uv[r].op
    BY <1>1, CleanShape
  <2>2. QED
    BY <1>1, <2>1, ReleaseShape
<1>5. t \in [fd : Files0, alt : Files0] /\ lent' = [lent EXCEPT ![r] = t]
  BY <1>2, RequestTypes DEF RequestTypeOK
<1>6. LentOf(uv[r], job[r], t, w)
  <2>1. /\ lost \in [Files -> Nat]
    BY RequestTypes DEF RequestTypeOK
  <2>2. \A f \in Files : w[f] = lost[f] + (IF f = g THEN 1 ELSE 0)
    BY <1>3, BecomeLost
  <2>3. w = [f \in Files |-> w[f]]
    BY <1>3 DEF Become
  <2>4. w \in [Files -> Nat] /\ \A f \in Files : w[f] >= lost[f]
    <3> HIDE DEF w
    <3>1. \A f \in Files : w[f] \in Nat /\ w[f] >= lost[f]
      BY <2>1, <2>2
    <3>2. QED
      BY <2>3, <3>1
  <2> HIDE DEF w, t
  <2>5. QED
    BY <1>1, <1>5, <2>1, <2>4, LentKept
<1>7. "answered" \in Jobs /\ lost' = w
  BY DEF Jobs
<1> HIDE DEF o, q, t, w
<1>8. LentOf(o, "answered", t, w) /\ LentOf(q, "answered", t, w)
  <2>1. job[r] # "none"
    BY DEF Callback, php_uv_fs_cb, php_uv_getaddrinfo_cb, php_uv_after_work_cb, Due
  <2>2. QED
    BY <1>4, <1>6, <2>1 DEF LentOf
<1>9. LifeOf(o, "answered", ended) /\ (uv[r].dtored => LifeOf(q, "answered", ended))
  BY <1>1, <1>4 DEF LifeOf
<1>10. CASE Become(r, o, g)
  BY <1>2, <1>4, <1>5, <1>7, <1>8, <1>9, <1>10, OneRequest
<1>11. CASE uv[r].dtored /\ Become(r, q, g)
  BY <1>2, <1>4, <1>5, <1>7, <1>8, <1>9, <1>11, OneRequest
<1>12. QED
  BY <1>3, <1>10, <1>11

(* The destructor cancels what is queued and adds a reference to the rest. *)
LEMMA DestructInv ==
  ASSUME RequestInv, NEW r \in Requests, destruct_uv(r)
  PROVE  RequestInv'
<1> DEFINE t == lent[r]
           w == lost'
<1>1. /\ uv[r] \in Object /\ job[r] \in Jobs /\ ended /\ LifeOf(uv[r], job[r], ended)
      /\ ~uv[r].dtored /\ uv[r].life = "live" /\ LentOf(uv[r], job[r], t, lost)
      /\ UNCHANGED <<script, closed, ended, lent>>
  BY RequestTypes DEF destruct_uv, fileVars
<1>2. t \in [fd : Files0, alt : Files0] /\ lent' = [lent EXCEPT ![r] = t]
      /\ NoFile \in Files0 /\ job[r] # "none"
  <2>1. job[r] # "none"
    BY <1>1 DEF LifeOf, Absent
  <2>2. QED
    BY <1>1, <2>1, RequestTypes DEF RequestTypeOK, Files0
<1>3. lost' = lost
  <2>1. \A f \in Files : lost'[f] = lost[f]
    BY RequestAssumption, RequestTypes DEF destruct_uv, Become, RequestTypeOK
  <2>2. lost' = [f \in Files |-> lost'[f]]
    BY DEF destruct_uv, Become
  <2>3. lost = [f \in Files |-> lost[f]]
    BY RequestTypes DEF RequestTypeOK
  <2>4. QED
    BY <2>1, <2>2, <2>3
<1>4. CASE /\ job[r] \in {"queued", "refused"} /\ Become(r, clean_uv_handle(uv[r]), NoFile)
           /\ job' = [job EXCEPT ![r] = IF @ = "queued" THEN "cancelled" ELSE @]
  <2> DEFINE o == clean_uv_handle(uv[r])
             j == IF job[r] = "queued" THEN "cancelled" ELSE "refused"
  <2>1. /\ o \in Object /\ o.life = "live" /\ (job[r] = "queued" => o.rc = 1) /\ o.dtored
        /\ o.op = uv[r].op /\ o.slots = "freed"
    BY <1>1, <1>4, CleanShape DEF LifeOf
  <2>2. Become(r, o, NoFile) /\ job' = [job EXCEPT ![r] = j] /\ j \in Jobs
    BY <1>4 DEF Jobs
  <2> HIDE DEF o, t, w
  <2>3. LifeOf(o, j, ended) /\ LentOf(o, j, t, w)
    BY <1>1, <1>2, <1>3, <1>4, <2>1 DEF LifeOf, LentOf, w
  <2> HIDE DEF j
  <2>4. QED
    BY <1>1, <1>2, <2>1, <2>2, <2>3, OneRequest DEF w
<1>5. CASE /\ job[r] # "queued" /\ Become(r, clean_uv_handle([uv[r] EXCEPT !.rc = @ + 1]), NoFile)
           /\ UNCHANGED job
  <2> DEFINE kept == [uv[r] EXCEPT !.rc = @ + 1]
             o == clean_uv_handle(kept)
  <2>1. kept \in Object /\ kept.life = "live" /\ kept.rc = uv[r].rc + 1 /\ kept.op = uv[r].op
    BY <1>1 DEF Object
  <2> HIDE DEF kept
  <2>2. /\ o \in Object /\ o.life = "live" /\ o.rc = uv[r].rc + 1 /\ o.dtored /\ o.op = uv[r].op
        /\ o.slots = "freed"
    BY <2>1, CleanShape
  <2>3. Become(r, o, NoFile) /\ job' = [job EXCEPT ![r] = job[r]]
    BY <1>5, RequestTypes DEF RequestTypeOK, kept
  <2> HIDE DEF o, t, w
  <2>4. LifeOf(o, job[r], ended) /\ LentOf(o, job[r], t, w)
    BY <1>1, <1>2, <1>3, <1>5, <2>2 DEF LifeOf, LentOf, w
  <2>5. QED
    BY <1>1, <1>2, <2>2, <2>3, <2>4, OneRequest DEF w
<1>6. QED
  BY <1>4, <1>5 DEF destruct_uv

-----------------------------------------------------------------------------
(* The script's variables.                                                 *)

(* What they do not change.                                                *)
LEMMA ScriptStep ==
  ASSUME RequestInv, UNCHANGED <<uv, job, lost, lent, closed>>, ended' \in BOOLEAN, ended => ended',
         script' \in [Files -> BOOLEAN], NEW s \in [Files -> Nat], refs' = s,
         \A f \in Files : s[f] = refs[f] - (IF script[f] /\ ~script'[f] THEN 1 ELSE 0),
         \A f \in Files : script'[f] => script[f],
         ended' = ended \/ AbandonsWork \/ \A k \in Requests : Pending(k) => uv[k].op \in FsOperations
  PROVE  RequestInv'
<1>1. RequestTypeOK'
  BY RequestTypes DEF RequestTypeOK
<1>2. \A f \in Files : Stores(f)' = Stores(f)
  BY DEF Stores
<1>3. FileRefsExact'
  <2>1. ASSUME NEW f \in Files
        PROVE  s[f] = Cardinality(Stores(f)) + lost[f] + (IF script'[f] THEN 1 ELSE 0)
    <3>1. /\ Cardinality(Stores(f)) \in Nat /\ lost[f] \in Nat
          /\ refs[f] = Cardinality(Stores(f)) + lost[f] + (IF script[f] THEN 1 ELSE 0)
      BY RequestTypes DEF RequestTypeOK
    <3>2. s[f] = refs[f] - (IF script[f] /\ ~script'[f] THEN 1 ELSE 0) /\ (script'[f] => script[f])
      OBVIOUS
    <3>3. QED
      BY <3>1, <3>2
  <2>2. QED
    BY <1>2, <2>1 DEF FileRefsExact
<1>4. \A f \in Files : IsFiniteSet(Stores(f)') /\ (closed'[f] => lost'[f] > 0)
  BY <1>2, RequestTypes
<1>5. ASSUME NEW k \in Requests
      PROVE  LifeOf(uv[k], job[k], ended)' /\ LentOf(uv[k], job[k], lent[k], lost)'
  <2>1. LifeOf(uv[k], job[k], ended) /\ LentOf(uv[k], job[k], lent[k], lost)
    BY RequestTypes
  <2>2. QED
    BY <2>1 DEF LifeOf, LentOf, Pending
<1>6. QED
  BY <1>1, <1>3, <1>4, <1>5 DEF RequestInv

LEMMA ScriptInv ==
  ASSUME RequestInv, ScriptEnd \/ \E f \in Files : DropFile(f)
  PROVE  RequestInv'
<1>1. ASSUME NEW f \in Files
      PROVE  refs[f] \in Nat /\ (script[f] => refs[f] > 0) /\ script[f] \in BOOLEAN
  <2>1. /\ Cardinality(Stores(f)) \in Nat /\ lost[f] \in Nat /\ script[f] \in BOOLEAN
        /\ refs[f] = Cardinality(Stores(f)) + lost[f] + (IF script[f] THEN 1 ELSE 0)
    BY RequestTypes DEF RequestTypeOK
  <2>2. QED
    BY <2>1
<1>2. refs \in [Files -> Nat] /\ script \in [Files -> BOOLEAN] /\ ended \in BOOLEAN
  BY RequestTypes DEF RequestTypeOK
<1>3. CASE ScriptEnd
  <2>1. /\ UNCHANGED <<uv, job, lost, lent, closed>> /\ ended' = TRUE
        /\ script' = [f \in Files |-> FALSE]
        /\ refs' = [f \in Files |-> refs[f] - (IF script[f] THEN 1 ELSE 0)]
        /\ AbandonsWork \/ \A k \in Requests : Pending(k) => uv[k].op \in FsOperations
    BY <1>3 DEF ScriptEnd
  <2>2. /\ refs' \in [Files -> Nat]
        /\ \A f \in Files : refs'[f] = refs[f] - (IF script[f] /\ ~script'[f] THEN 1 ELSE 0)
    BY <1>1, <2>1
  <2>3. QED
    BY <2>1, <2>2, ScriptStep
<1>4. ASSUME NEW f \in Files, DropFile(f)
      PROVE  RequestInv'
  <2>1. /\ UNCHANGED <<uv, job, lost, lent, closed, ended>> /\ script[f]
        /\ script' = [script EXCEPT ![f] = FALSE] /\ refs' = [refs EXCEPT ![f] = @ - 1]
    BY <1>4 DEF DropFile
  <2>2. /\ refs' \in [Files -> Nat] /\ script' \in [Files -> BOOLEAN]
        /\ \A e \in Files : refs'[e] = refs[e] - (IF script[e] /\ ~script'[e] THEN 1 ELSE 0)
        /\ \A e \in Files : script'[e] => script[e]
    BY <1>1, <1>2, <2>1
  <2>3. QED
    BY <1>2, <2>1, <2>2, ScriptStep
<1>5. QED
  BY <1>3, <1>4

-----------------------------------------------------------------------------
(* Every step keeps the invariant.                                         *)
LEMMA NextRequest == RequestInv /\ [Next]_requestVars => RequestInv'
<1> SUFFICES ASSUME RequestInv, [Next]_requestVars
             PROVE  RequestInv'
  OBVIOUS
<1>1. CASE UNCHANGED requestVars
  <2>1. UNCHANGED <<uv, job, refs, lost, script, lent, closed, ended>>
    BY <1>1 DEF requestVars, fileVars
  <2>2. \A f \in Files : Stores(f)' = Stores(f)
    BY <2>1 DEF Stores
  <2>3. QED
    BY <2>1, <2>2 DEF RequestInv, RequestTypeOK, FileRefsExact
<1>2. CASE ScriptEnd \/ \E f \in Files : DropFile(f)
  BY <1>2, ScriptInv
<1>3. ASSUME NEW r \in Requests, RequestNext(r)
      PROVE  RequestInv'
  BY <1>3, SubmitFile, SubmitOther, WorkerInv, AnswerInv, DestructInv DEF RequestNext
<1>4. QED
  BY <1>1, <1>2, <1>3 DEF Next

LEMMA InitRequest == Init => RequestInv
<1> SUFFICES ASSUME Init PROVE RequestInv
  OBVIOUS
<1>1. Absent \in Object
  BY DEF Absent, Object
<1>2. RequestTypeOK
  BY <1>1 DEF Init, RequestTypeOK, Jobs, Files0
<1>3. ASSUME NEW f \in Files
      PROVE  Stores(f) = {} /\ refs[f] = 1 /\ lost[f] = 0 /\ script[f] /\ ~closed[f]
  BY RequestAssumption DEF Init, Stores, Absent
<1>4. FileRefsExact /\ \A f \in Files : IsFiniteSet(Stores(f)) /\ (closed[f] => lost[f] > 0)
  BY <1>3, FS_EmptySet DEF FileRefsExact
<1>5. ASSUME NEW r \in Requests
      PROVE  LifeOf(uv[r], job[r], ended) /\ LentOf(uv[r], job[r], lent[r], lost)
  BY DEF Init, LifeOf, LentOf, Absent
<1>6. QED
  BY <1>2, <1>4, <1>5 DEF RequestInv

(* The references of streams and requests add up, in whatever order jobs   *)
(* run, are cancelled and are answered, and the script ends.               *)
THEOREM RequestInvariant == Safety => []RequestInv
BY InitRequest, NextRequest, PTL DEF Safety

(* libuv and its workers never lose the object of a pending request to the *)
(* end of the script or to an answer.                                      *)
THEOREM RequestPendingIsLive == Safety => []PendingIsLive
<1>1. RequestInv => PendingIsLive
  <2> SUFFICES ASSUME RequestInv, NEW r \in Requests, Pending(r)
               PROVE  uv[r].life = "live" /\ uv[r].rc > 0
    BY DEF PendingIsLive
  <2>1. LifeOf(uv[r], job[r], ended)
    BY RequestTypes
  <2>2. QED
    BY <2>1 DEF LifeOf, Pending
<1>2. QED
  BY <1>1, RequestInvariant, PTL

(* The callbacks of requests read no freed slot, of those either that do   *)
(* not ask whether the destructor has run, if the script does not end while*)
(* a lookup or a work function is pending.                                 *)
THEOREM RequestSlotsAllocated ==
  ASSUME ~AbandonsWork
  PROVE  Safety => []SlotsAllocated
<1>1. RequestInv => SlotsAllocated
  <2> SUFFICES ASSUME RequestInv, NEW r \in Requests, ReadsSlots(r)
               PROVE  uv[r].slots = "set"
    BY DEF SlotsAllocated
  <2>1. LifeOf(uv[r], job[r], ended)
    BY RequestTypes
  <2>2. ~uv[r].dtored
    BY <2>1 DEF LifeOf, ReadsSlots, Pending, FsOperations
  <2>3. QED
    BY <2>1, <2>2 DEF LifeOf, ReadsSlots, Pending
<1>2. QED
  BY <1>1, RequestInvariant, PTL

(* While the script runs, an answered request leaves nothing behind.       *)
THEOREM RequestAnsweredIsReleased == Safety => []AnsweredIsReleased
<1>1. RequestInv => AnsweredIsReleased
  BY RequestTypes DEF LifeOf, AnsweredIsReleased
<1>2. QED
  BY <1>1, RequestInvariant, PTL

(* A worker's stream is not closed under it.                               *)
THEOREM RequestFileOpenWhileUsed == Safety => []FileOpenWhileUsed
<1>1. RequestInv => FileOpenWhileUsed
  <2> SUFFICES ASSUME RequestInv, NEW r \in Requests, job[r] = "running"
               PROVE  /\ lent[r].alt # NoFile => refs[lent[r].alt] > 0
                      /\ lent[r].fd # NoFile /\ ~(ended /\ uv[r].op = "copy") => refs[lent[r].fd] > 0
    BY DEF FileOpenWhileUsed
  <2>1. /\ lent[r].fd \in Files \/ lent[r].fd = NoFile
        /\ lent[r].alt \in Files \/ lent[r].alt = NoFile
    BY RequestTypes DEF Files0
  <2>2. ASSUME NEW f \in Files, lost[f] > 0 \/ Cardinality(Stores(f)) > 0
        PROVE  refs[f] > 0
    <3>1. /\ Cardinality(Stores(f)) \in Nat /\ lost[f] \in Nat
          /\ refs[f] = Cardinality(Stores(f)) + lost[f] + (IF script[f] THEN 1 ELSE 0)
      BY RequestTypes DEF RequestTypeOK
    <3>2. QED
      BY <2>2, <3>1
  <2>3. LentOf(uv[r], job[r], lent[r], lost) /\ LifeOf(uv[r], job[r], ended)
    BY RequestTypes
  <2>4. ASSUME lent[r].fd # NoFile, ~ended
        PROVE  Cardinality(Stores(lent[r].fd)) > 0
    <3>1. uv[r].fs_fd = lent[r].fd /\ lent[r].fd \in Files
      BY <2>1, <2>3, <2>4 DEF LentOf, LifeOf
    <3>2. QED
      BY <3>1, StoredCounted, RequestTypes
  <2>5. QED
    BY <2>1, <2>2, <2>3, <2>4 DEF LentOf
<1>2. QED
  BY <1>1, RequestInvariant, PTL

(* PHP never closes the descriptor that uv_fs_close has closed.            *)
THEOREM RequestDescriptorClosedOnce == Safety => []DescriptorClosedOnce
<1>1. RequestInv => DescriptorClosedOnce
  <2> SUFFICES ASSUME RequestInv, NEW f \in Files, closed[f]
               PROVE  refs[f] > 0
    BY DEF DescriptorClosedOnce
  <2>1. /\ Cardinality(Stores(f)) \in Nat /\ lost[f] \in Nat /\ lost[f] > 0
        /\ refs[f] = Cardinality(Stores(f)) + lost[f] + (IF script[f] THEN 1 ELSE 0)
    BY RequestTypes DEF RequestTypeOK
  <2>2. QED
    BY <2>1
<1>2. QED
  BY <1>1, RequestInvariant, PTL
=============================================================================
