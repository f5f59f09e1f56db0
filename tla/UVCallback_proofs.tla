--------------------------- MODULE UVCallback_proofs --------------------------
(***************************************************************************)
(* Callbacks are counted, but for what php_uv_cb_init mixes up; what runs  *)
(* is alive; and an answer calls the function its question named.  With    *)
(* the collector (UVGc): handles and loops are counted for exactly what    *)
(* owns them, the collector destroys nothing that is needed, and finds     *)
(* what is not.  For any number of handles, loops, writes, functions and   *)
(* objects.                                                                *)
(***************************************************************************)
EXTENDS UVGc, FiniteSetTheorems, FunctionTheorems, SequenceTheorems, TLAPS

-----------------------------------------------------------------------------
(* Sets that change in one element, or in one row.                         *)

LEMMA CountChange ==
  ASSUME NEW A, NEW B, NEW x, IsFiniteSet(A), A \ {x} = B \ {x}
  PROVE  /\ IsFiniteSet(B) /\ Cardinality(A) \in Nat /\ Cardinality(B) \in Nat
         /\ Cardinality(B) = Cardinality(A) + (IF x \in B THEN 1 ELSE 0)
                                            - (IF x \in A THEN 1 ELSE 0)
<1> DEFINE C == A \ {x}
<1>1. /\ IsFiniteSet(C) /\ Cardinality(A) \in Nat /\ Cardinality(C) \in Nat
      /\ Cardinality(C) = IF x \in A THEN Cardinality(A) - 1 ELSE Cardinality(A)
  BY FS_RemoveElement, FS_CardinalityType
<1>2. IsFiniteSet(C \cup {x}) /\ Cardinality(C \cup {x}) = Cardinality(C) + 1
  <2>1. x \notin C
    OBVIOUS
  <2> HIDE DEF C
  <2>2. QED
    BY <1>1, <2>1, FS_AddElement
<1>3. /\ x \in B => B = C \cup {x}
      /\ x \notin B => B = C
  OBVIOUS
<1> HIDE DEF C
<1>4. CASE x \in B
  <2>1. IsFiniteSet(B) /\ Cardinality(B) = Cardinality(C) + 1
    BY <1>2, <1>3, <1>4, Zenon
  <2>2. QED
    BY <1>1, <1>4, <2>1
<1>5. CASE x \notin B
  <2>1. IsFiniteSet(B) /\ Cardinality(B) = Cardinality(C)
    BY <1>1, <1>3, <1>5, Zenon
  <2>2. QED
    BY <1>1, <1>5, <2>1
<1>6. QED
  BY <1>4, <1>5

LEMMA OwnsNumber ==
  ASSUME NEW cb, NEW n
  PROVE  Owns(cb, n) \in {0, 1} /\ (Owns(cb, n) = 1 <=> n \in {cb.fn, cb.object})
BY DEF Owns, One

LEMMA NullOwnsNothing ==
  ASSUME NEW n \in Things
  PROVE  Owns(NullSlot, n) = 0 /\ Runs(NoFunction, n) = 0
BY CallbackAssumption DEF Owns, One, NullSlot, Runs

(* One slot changes from old to new.                                       *)
LEMMA SlotChange ==
  ASSUME NEW n, NEW h \in Handles, NEW s \in Slots, NEW old, NEW new,
         IsFiniteSet(SlotsOf(n)),
         uv[h].slot[s] = old, uv'[h].slot[s] = new,
         \A g \in Handles, t \in Slots : g # h \/ t # s => uv'[g].slot[t] = uv[g].slot[t]
  PROVE  /\ IsFiniteSet(SlotsOf(n))'
         /\ Cardinality(SlotsOf(n)) \in Nat /\ Cardinality(SlotsOf(n))' \in Nat
         /\ Cardinality(SlotsOf(n))' = Cardinality(SlotsOf(n)) + Owns(new, n) - Owns(old, n)
<1> DEFINE x == <<h, s>>
<1>1. \A p \in Handles \X Slots : p # x => uv'[p[1]].slot[p[2]] = uv[p[1]].slot[p[2]]
  OBVIOUS
<1>2. SlotsOf(n) \ {x} = SlotsOf(n)' \ {x}
  <2>1. \A p \in Handles \X Slots : p # x =>
          (Owns(uv[p[1]].slot[p[2]], n) = 1 <=> Owns(uv'[p[1]].slot[p[2]], n) = 1)
    BY <1>1 DEF Owns, One
  <2>2. QED
    BY <2>1 DEF SlotsOf
<1>3. x \in SlotsOf(n) <=> Owns(old, n) = 1
  BY DEF SlotsOf
<1>4. x \in SlotsOf(n)' <=> Owns(new, n) = 1
  BY DEF SlotsOf, Owns, One
<1> HIDE DEF x
<1>5. /\ IsFiniteSet(SlotsOf(n)') /\ Cardinality(SlotsOf(n)) \in Nat /\ Cardinality(SlotsOf(n)') \in Nat
      /\ Cardinality(SlotsOf(n)') = Cardinality(SlotsOf(n)) + (IF x \in SlotsOf(n)' THEN 1 ELSE 0)
                                                          - (IF x \in SlotsOf(n) THEN 1 ELSE 0)
  BY <1>2, CountChange
<1>6. QED
  BY <1>3, <1>4, <1>5, OwnsNumber

(* All slots of a handle are released.                                     *)
LEMMA CleanChange ==
  ASSUME NEW n \in Things, NEW h \in Handles, IsFiniteSet(SlotsOf(n)),
         \A s \in Slots : uv'[h].slot[s] = NullSlot,
         \A g \in Handles, t \in Slots : g # h => uv'[g].slot[t] = uv[g].slot[t]
  PROVE  /\ IsFiniteSet(SlotsOf(n))'
         /\ Cardinality(SlotsOf(n)) \in Nat /\ Cardinality(SlotsOf(n))' \in Nat
         /\ Cardinality(SlotsOf(n))' = Cardinality(SlotsOf(n)) + clean_uv_handle(h)[n]
         /\ clean_uv_handle(h)[n] \in Int
<1> DEFINE A == SlotsOf(n)
           S == {s \in Slots : Owns(uv[h].slot[s], n) = 1}
           row == {p \in A : p[1] = h}
           f == [s \in S |-> <<h, s>>]
<1>1. SlotsOf(n)' = A \ row
  <2>1. \A s \in Slots : Owns(uv'[h].slot[s], n) = 0
    BY NullOwnsNothing
  <2>2. \A p \in Handles \X Slots : p[1] # h =>
          (Owns(uv[p[1]].slot[p[2]], n) = 1 <=> Owns(uv'[p[1]].slot[p[2]], n) = 1)
    BY DEF Owns, One
  <2>3. \A p \in Handles \X Slots : p[1] = h => Owns(uv'[p[1]].slot[p[2]], n) # 1
    BY <2>1
  <2>4. QED
    BY <2>2, <2>3 DEF SlotsOf
<1>2. IsFiniteSet(row) /\ row = A \cap row /\ row \subseteq A
  BY FS_Subset
<1>3. f \in Bijection(S, row)
  <2>1. \A s \in S : <<h, s>> \in row
    BY DEF SlotsOf
  <2>2. \A p \in row : p[2] \in S /\ p = <<h, p[2]>>
    BY DEF SlotsOf
  <2>3. f \in [S -> row]
    BY <2>1
  <2>4. \A s, t \in S : f[s] = f[t] => s = t
    OBVIOUS
  <2>5. \A p \in row : \E s \in S : f[s] = p
    BY <2>2
  <2> HIDE DEF f, S, row
  <2>6. QED
    BY <2>3, <2>4, <2>5, Fun_IsBij
<1>4. IsFiniteSet(S) /\ Cardinality(row) = Cardinality(S) /\ Cardinality(S) \in Nat
  <2> HIDE DEF f, S, row
  <2>1. ExistsBijection(row, S)
    BY <1>3, Fun_ExistsBij, Fun_ExistsBijSymmetric
  <2>2. QED
    BY <1>2, <2>1, FS_Bijection, FS_CardinalityType
<1>5. /\ IsFiniteSet(A \ row) /\ Cardinality(A \ row) = Cardinality(A) - Cardinality(row)
      /\ Cardinality(A) \in Nat /\ Cardinality(A \ row) \in Nat
  <2> HIDE DEF row, A
  <2>1. IsFiniteSet(A)
    BY DEF A
  <2>2. Cardinality(A \cap row) = Cardinality(row)
    BY <1>2
  <2>3. IsFiniteSet(A \ row) /\ Cardinality(A \ row) = Cardinality(A) - Cardinality(A \cap row)
    BY <2>1, FS_Difference
  <2>4. Cardinality(A) \in Nat /\ Cardinality(A \ row) \in Nat
    BY <2>1, <2>3, FS_CardinalityType
  <2>5. QED
    BY <2>2, <2>3, <2>4
<1>6. clean_uv_handle(h)[n] = -Cardinality(S)
  BY DEF clean_uv_handle
<1> HIDE DEF S, row, f
<1>7. QED
  BY <1>1, <1>4, <1>5, <1>6

(* One write changes from old to new.                                      *)
LEMMA WriteChange ==
  ASSUME NEW n, NEW w \in Writes, NEW old, NEW new,
         IsFiniteSet(WritesOf(n)),
         write[w].cb = old, write'[w].cb = new,
         \A v \in Writes : v # w => write'[v] = write[v]
  PROVE  /\ IsFiniteSet(WritesOf(n))'
         /\ Cardinality(WritesOf(n)) \in Nat /\ Cardinality(WritesOf(n))' \in Nat
         /\ Cardinality(WritesOf(n))' = Cardinality(WritesOf(n)) + Owns(new, n) - Owns(old, n)
<1>1. WritesOf(n) \ {w} = WritesOf(n)' \ {w}
  BY DEF WritesOf
<1>2. w \in WritesOf(n) <=> Owns(old, n) = 1
  BY DEF WritesOf
<1>3. w \in WritesOf(n)' <=> Owns(new, n) = 1
  BY DEF WritesOf, Owns, One
<1>4. /\ IsFiniteSet(WritesOf(n)') /\ Cardinality(WritesOf(n)) \in Nat /\ Cardinality(WritesOf(n)') \in Nat
      /\ Cardinality(WritesOf(n)') = Cardinality(WritesOf(n)) + (IF w \in WritesOf(n)' THEN 1 ELSE 0)
                                                          - (IF w \in WritesOf(n) THEN 1 ELSE 0)
  BY <1>1, CountChange
<1>5. QED
  BY <1>2, <1>3, <1>4, OwnsNumber

-----------------------------------------------------------------------------
(* What has an owner is alive.                                             *)

ThingObjects == [life : {"none", "live", "freed"}, rc : Int, named : BOOLEAN,
                 this : Objects \cup {NoObject}]

UvObjects == [ce : Classes \cup {"none"},
              stage : {"none", "open", "closing", "closed", "queued", "running", "finished"},
              slot : [Slots -> Callbacks]]

WriteObjects == [on : Handles \cup {NoHandle}, cb : Callbacks, ask : Asks]

Frames == [kind : Slots \cup {"none", "write"}, handle : Handles \cup {NoHandle},
           cb : Callbacks, own : Callbacks, ask : Asks]

(* A step keeps the counts, and what holds the object of the callback.     *)
KeepsInv == CountInv' /\ (FrameHolds => FrameHolds')

LEMMA Types ==
  ASSUME CountInv
  PROVE  /\ thing \in [Things -> ThingObjects] /\ uv \in [Handles -> UvObjects]
         /\ asked \in [Handles -> Seq(Asks)] /\ write \in [Writes -> WriteObjects]
         /\ frame \in Frames /\ drift \in [Objects -> -MaxDrift .. MaxDrift]
         /\ short \subseteq Objects
         /\ \A n \in Things : thing[n] \in ThingObjects
         /\ \A h \in Handles : uv[h] \in UvObjects /\ \A s \in Slots : uv[h].slot[s] \in Callbacks
         /\ \A w \in Writes : write[w] \in WriteObjects
         /\ \A n \in Things : Wrong(n) \in Int
<1>1. /\ thing \in [Things -> ThingObjects] /\ uv \in [Handles -> UvObjects]
      /\ asked \in [Handles -> Seq(Asks)] /\ write \in [Writes -> WriteObjects]
      /\ frame \in Frames /\ drift \in [Objects -> -MaxDrift .. MaxDrift]
      /\ short \subseteq Objects
  BY DEF CountInv, CallbackTypeOK, ThingObjects, UvObjects, WriteObjects, Frames
<1>2. \A h \in Handles : uv[h] \in UvObjects /\ \A s \in Slots : uv[h].slot[s] \in Callbacks
  BY <1>1 DEF UvObjects
<1>3. \A n \in Things : Wrong(n) \in Int
  <2>1. \A o \in Objects : drift[o] \in Int
    BY <1>1, CallbackAssumption
  <2>2. QED
    BY <2>1 DEF Wrong
<1>4. QED
  BY <1>1, <1>2, <1>3

LEMMA OwnerNumbers ==
  ASSUME CountInv, NEW n \in Things
  PROVE  /\ IsFiniteSet(BoundTo(n)) /\ Cardinality(BoundTo(n)) \in Nat
         /\ IsFiniteSet(SlotsOf(n)) /\ Cardinality(SlotsOf(n)) \in Nat
         /\ IsFiniteSet(WritesOf(n)) /\ Cardinality(WritesOf(n)) \in Nat
         /\ One(thing[n].named) \in {0, 1}
         /\ Owns(frame.own, n) \in {0, 1} /\ Runs(frame.cb.fn, n) \in {0, 1}
         /\ Owners(n) = One(thing[n].named) + Cardinality(BoundTo(n)) + Cardinality(SlotsOf(n))
                        + Cardinality(WritesOf(n)) + Owns(frame.own, n) + Runs(frame.cb.fn, n)
         /\ Owners(n) \in Nat
<1>1. IsFiniteSet(BoundTo(n)) /\ IsFiniteSet(SlotsOf(n)) /\ IsFiniteSet(WritesOf(n))
  BY DEF CountInv, CountsExact
<1>2. /\ Cardinality(BoundTo(n)) \in Nat /\ Cardinality(SlotsOf(n)) \in Nat
      /\ Cardinality(WritesOf(n)) \in Nat
  BY <1>1, FS_CardinalityType
<1>3. /\ One(thing[n].named) \in {0, 1}
      /\ Owns(frame.own, n) \in {0, 1} /\ Runs(frame.cb.fn, n) \in {0, 1}
  BY DEF One, Owns, Runs
<1>4. Owners(n) = One(thing[n].named) + Cardinality(BoundTo(n)) + Cardinality(SlotsOf(n))
                  + Cardinality(WritesOf(n)) + Owns(frame.own, n) + Runs(frame.cb.fn, n)
  BY DEF Owners
<1>5. QED
  BY <1>1, <1>2, <1>3, <1>4

LEMMA OwnedIsLive ==
  ASSUME CountInv, Defined, NEW n \in Things, Owners(n) > 0
  PROVE  thing[n].life = "live"
<1>1. thing[n].life \in {"none", "live", "freed"}
  BY Types DEF ThingObjects
<1>2. thing[n].life # "none"
  BY DEF CountInv, CountsExact
<1>3. thing[n].life # "freed"
  BY DEF Defined, Dangling
<1>4. QED
  BY <1>1, <1>2, <1>3

LEMMA NotEmptyCounts ==
  ASSUME NEW A, NEW x \in A, IsFiniteSet(A)
  PROVE  Cardinality(A) > 0
<1>1. Cardinality(A) \in Nat /\ Cardinality(A) # 0
  BY FS_CardinalityType, FS_EmptySet
<1>2. QED
  BY <1>1

(* What a slot, a write or a live closure refers to.                       *)
LEMMA ReferredIsLive ==
  ASSUME CountInv, Defined, NEW n \in Things,
         \/ \E h \in Handles, s \in Slots : n \in {uv[h].slot[s].fn, uv[h].slot[s].object}
         \/ \E w \in Writes : n \in {write[w].cb.fn, write[w].cb.object}
         \/ \E f \in Functions : thing[f].life = "live" /\ thing[f].this = n
  PROVE  thing[n].life = "live" /\ Owners(n) > 0
<1>1. CASE \E h \in Handles, s \in Slots : n \in {uv[h].slot[s].fn, uv[h].slot[s].object}
  <2>1. PICK h \in Handles, s \in Slots : n \in {uv[h].slot[s].fn, uv[h].slot[s].object}
    BY <1>1
  <2>2. <<h, s>> \in SlotsOf(n)
    BY <2>1 DEF SlotsOf, Owns, One
  <2>3. Cardinality(SlotsOf(n)) > 0
    BY <2>2, NotEmptyCounts, OwnerNumbers
  <2>4. QED
    BY <2>3, OwnerNumbers, OwnedIsLive
<1>2. CASE \E w \in Writes : n \in {write[w].cb.fn, write[w].cb.object}
  <2>1. PICK w \in Writes : n \in {write[w].cb.fn, write[w].cb.object}
    BY <1>2
  <2>2. w \in WritesOf(n)
    BY <2>1 DEF WritesOf, Owns, One
  <2>3. Cardinality(WritesOf(n)) > 0
    BY <2>2, NotEmptyCounts, OwnerNumbers
  <2>4. QED
    BY <2>3, OwnerNumbers, OwnedIsLive
<1>3. CASE \E f \in Functions : thing[f].life = "live" /\ thing[f].this = n
  <2>1. PICK f \in Functions : f \in BoundTo(n)
    BY <1>3 DEF BoundTo
  <2>2. Cardinality(BoundTo(n)) > 0
    BY <2>1, NotEmptyCounts, OwnerNumbers
  <2>3. QED
    BY <2>2, OwnerNumbers, OwnedIsLive
<1>4. QED
  BY <1>1, <1>2, <1>3

(* What a callable of the script refers to.                                *)
LEMMA CallableIsLive ==
  ASSUME CountInv, Defined, NEW f, Callable(f)
  PROVE  /\ f \in Functions \cup {NoFunction}
         /\ Fci(f) \in Callbacks /\ Fci(f).fn = f /\ Fci(f).set
         /\ \A n \in Things : Owns(Fci(f), n) = 1 => thing[n].life = "live"
<1>1. f \in Functions \cup {NoFunction} /\ (f \in Functions => thing[f].life = "live")
  BY CallbackAssumption DEF Callable, CanName, Things
<1>2. f \in Functions => thing[f].this \in Objects \cup {NoObject}
  BY Types DEF Things, ThingObjects
<1>3. Fci(f) \in Callbacks /\ Fci(f).fn = f /\ Fci(f).set
  BY <1>1, <1>2 DEF Fci, Callbacks
<1>4. ASSUME NEW n \in Things, Owns(Fci(f), n) = 1
      PROVE  thing[n].life = "live"
  <2>1. n = f \/ (f # NoFunction /\ n = thing[f].this)
    BY <1>4, CallbackAssumption DEF Owns, One, Fci
  <2>2. CASE n = f
    BY <1>1, <2>2, CallbackAssumption
  <2>3. CASE f # NoFunction /\ n = thing[f].this
    BY <1>1, <2>3, ReferredIsLive
  <2>4. QED
    BY <2>1, <2>2, <2>3
<1>5. QED
  BY <1>1, <1>3, <1>4

-----------------------------------------------------------------------------
(* What a step has to do about counts, and about the object of the callback*)
(* that runs.                                                              *)

LEMMA CountStep ==
  ASSUME CountInv, Defined, short \subseteq short',
         \A n \in Things :
           /\ thing'[n].life = thing[n].life
           /\ IsFiniteSet(BoundTo(n))' /\ IsFiniteSet(SlotsOf(n))' /\ IsFiniteSet(WritesOf(n))'
           /\ Owners(n)' \in Nat /\ Wrong(n)' \in Int
           /\ thing'[n].rc = thing[n].rc + (Owners(n)' - Owners(n)) + (Wrong(n)' - Wrong(n))
           /\ Owners(n)' > Owners(n) => thing[n].life = "live"
           /\ Wrong(n)' # Wrong(n) => thing[n].life = "live"
           /\ Wrong(n)' < 0 => n \in short'
  PROVE  CountsExact' /\ NoneFreedEarly'
<1>1. ASSUME NEW n \in Things
      PROVE  /\ thing'[n].life = "live" => thing'[n].rc = Owners(n)' + Wrong(n)'
             /\ thing'[n].life = "none" => Owners(n)' = 0 /\ Wrong(n)' = 0
             /\ ~Dangling(n)'
  <2>1. Owners(n) \in Nat /\ Wrong(n) \in Int /\ thing[n].rc \in Int
    BY OwnerNumbers, Types DEF ThingObjects
  <2>2. /\ thing[n].life = "live" => thing[n].rc = Owners(n) + Wrong(n)
        /\ thing[n].life = "none" => Owners(n) = 0 /\ Wrong(n) = 0
    BY DEF CountInv, CountsExact
  <2>3. thing[n].life = "freed" => Owners(n) = 0
    BY <2>1 DEF Defined, Dangling
  <2>4. PICK before, after \in Nat : before = Owners(n) /\ after = Owners(n)'
    BY <2>1
  <2>5. /\ thing'[n].life = thing[n].life /\ Wrong(n)' \in Int
        /\ thing'[n].rc = thing[n].rc + (after - before) + (Wrong(n)' - Wrong(n))
        /\ after > before => thing[n].life = "live"
        /\ Wrong(n)' # Wrong(n) => thing[n].life = "live"
    BY <2>4
  <2>6. thing'[n].life = "freed" => after = 0
    BY <2>3, <2>4, <2>5
  <2>7. thing'[n].life = "none" => after = 0 /\ Wrong(n)' = 0
    BY <2>2, <2>4, <2>5
  <2>8. thing'[n].life = "live" => thing'[n].rc = after + Wrong(n)'
    BY <2>1, <2>2, <2>4, <2>5
  <2>9. ~Dangling(n)'
    BY <2>4, <2>6 DEF Dangling
  <2>10. QED
    BY <2>4, <2>7, <2>8, <2>9
<1>2. QED
  BY <1>1 DEF CountsExact, NoneFreedEarly

LEMMA HoldStep ==
  ASSUME CountInv, short \subseteq short', frame' = frame,
         \A o \in Objects \ short' : frame.cb.object = o /\ thing[o].life = "live" =>
           /\ thing'[o].life = "live"
           /\ Cardinality(SlotsOf(o))' + drift'[o] >= Cardinality(SlotsOf(o)) + drift[o]
           /\ Cardinality(SlotsOf(o))' \in Int /\ drift'[o] \in Int
  PROVE  FrameHolds => FrameHolds'
<1> SUFFICES ASSUME FrameHolds, NEW o \in Objects \ short', frame.cb.object = o
             PROVE  /\ thing'[o].life = "live"
                    /\ frame.own.object = o \/ Cardinality(SlotsOf(o))' + drift'[o] > 0
  BY DEF FrameHolds
<1>1. /\ thing[o].life = "live"
      /\ frame.own.object = o \/ Cardinality(SlotsOf(o)) + drift[o] > 0
  BY DEF FrameHolds
<1>2. Cardinality(SlotsOf(o)) \in Nat /\ drift[o] \in Int
  <2>1. o \in Things /\ Wrong(o) = drift[o]
    BY DEF Things, Wrong
  <2>2. QED
    BY <2>1, OwnerNumbers, Types
<1>3. QED
  BY <1>1, <1>2

LEMMA SlotsKept ==
  ASSUME NEW n, \A g \in Handles, t \in Slots : uv'[g].slot[t] = uv[g].slot[t]
  PROVE  SlotsOf(n)' = SlotsOf(n)
BY DEF SlotsOf

LEMMA WritesKept ==
  ASSUME NEW n, write' = write
  PROVE  WritesOf(n)' = WritesOf(n)
BY DEF WritesOf

LEMMA BoundKept ==
  ASSUME NEW n, \A f \in Functions : thing'[f].life = thing[f].life /\ thing'[f].this = thing[f].this
  PROVE  BoundTo(n)' = BoundTo(n)
BY DEF BoundTo

(* The counts change by delta, and nothing else of the things.             *)
LEMMA CountFacts ==
  ASSUME CountInv, NEW delta, \A n \in Things : delta[n] \in Int, Count(delta)
  PROVE  /\ thing' \in [Things -> ThingObjects]
         /\ \A n \in Things :
              /\ thing'[n].life = thing[n].life /\ thing'[n].this = thing[n].this
              /\ thing'[n].named = thing[n].named
              /\ thing'[n].rc = thing[n].rc + delta[n]
         /\ \A n : BoundTo(n)' = BoundTo(n)
<1>1. ASSUME NEW n \in Things
      PROVE  /\ thing'[n] \in ThingObjects
             /\ thing'[n].life = thing[n].life /\ thing'[n].this = thing[n].this
             /\ thing'[n].named = thing[n].named
             /\ thing'[n].rc = thing[n].rc + delta[n]
  <2>1. thing[n] \in ThingObjects /\ thing'[n] = [thing[n] EXCEPT !.rc = @ + delta[n]]
    BY Types DEF Count
  <2>2. QED
    BY <2>1 DEF ThingObjects
<1>2. \A n : BoundTo(n)' = BoundTo(n)
  BY <1>1 DEF BoundTo, Things
<1>3. thing' \in [Things -> ThingObjects]
  BY <1>1 DEF Count
<1>4. QED
  BY <1>1, <1>2, <1>3

-----------------------------------------------------------------------------
(* Steps that touch no callback.                                           *)

LEMMA StageStep ==
  ASSUME CountInv, uv' \in [Handles -> UvObjects],
         \A g \in Handles, t \in Slots : uv'[g].slot[t] = uv[g].slot[t],
         SlotShape',
         UNCHANGED <<thing, asked, write, frame, drift, short>>
  PROVE  KeepsInv
<1>1. \A n : /\ SlotsOf(n)' = SlotsOf(n) /\ WritesOf(n)' = WritesOf(n) /\ BoundTo(n)' = BoundTo(n)
             /\ Wrong(n)' = Wrong(n)
  BY SlotsKept DEF WritesOf, BoundTo, Wrong
<1>2. \A n \in Things : Owners(n)' = Owners(n)
  BY <1>1 DEF Owners
<1>3. CallbackTypeOK'
  BY Types DEF CountInv, CallbackTypeOK, UvObjects
<1>4. AskedMatches'
  BY DEF CountInv, AskedMatches, Slots
<1>5. CountsExact' /\ NoneFreedEarly'
  BY <1>1, <1>2 DEF CountInv, CountsExact, NoneFreedEarly, Dangling
<1>6. (FrameHolds => FrameHolds')
  BY <1>1 DEF CountInv, FrameHolds
<1>7. QED
  BY <1>3, <1>4, <1>5, <1>6 DEF KeepsInv, CountInv

(* The stages of the handles S change, to ones that ask for nothing more.  *)
LEMMA StagesStep ==
  ASSUME CountInv, uv' \in [Handles -> UvObjects],
         \A g \in Handles : uv'[g].slot = uv[g].slot,
         \A g \in Handles : uv'[g].stage # uv[g].stage =>
           \/ uv[g].stage = "none" /\ uv'[g].stage = "open"
           \/ uv[g].stage = "open" /\ uv'[g].stage = "closing"
           \/ uv[g].stage = "running" /\ uv'[g].stage = "finished",
         UNCHANGED <<thing, asked, write, frame, drift, short>>
  PROVE  KeepsInv
<1>1. SlotShape
  BY DEF CountInv
<1>2. ASSUME NEW g \in Handles
      PROVE  /\ uv'[g].stage = "none" => \A s \in Slots : uv'[g].slot[s] = NullSlot
             /\ uv'[g].stage = "open" => uv'[g].slot["close"] = NullSlot
             /\ uv'[g].stage \in {"queued", "running", "finished"} => uv'[g].slot["work"].fn \in Functions
             /\ asked'[g] # <<>> => uv'[g].stage \in {"open", "closing"}
  BY <1>1, <1>2 DEF SlotShape, Slots
<1>3. frame'.kind \in {"close", "after_work"} =>
        /\ frame'.handle \in Handles
        /\ uv'[frame'.handle].stage \in {"closing", "finished"}
        /\ asked'[frame'.handle] = <<>>
  BY <1>1 DEF SlotShape
<1>4. SlotShape'
  BY <1>2, <1>3 DEF SlotShape
<1>5. QED
  BY <1>4, StageStep

LEMMA CreateKeeps ==
  ASSUME CountInv, NEW h \in Handles, NEW ce \in Classes, Create(h, ce)
  PROVE  KeepsInv
<1>1. uv[h] \in UvObjects /\ uv \in [Handles -> UvObjects]
  BY Types
<1>2. PICK o \in UvObjects : o = [uv[h] EXCEPT !.ce = ce, !.stage = "open"]
  BY <1>1 DEF UvObjects
<1>3. uv' = [uv EXCEPT ![h] = o] /\ o.slot = uv[h].slot /\ o.stage = "open" /\ uv[h].stage = "none"
  BY <1>1, <1>2 DEF Create, UvObjects
<1>4. UNCHANGED <<thing, asked, write, frame, drift, short>>
  BY DEF Create
<1>5. uv' \in [Handles -> UvObjects] /\ uv'[h] = o /\ \A g \in Handles : g # h => uv'[g] = uv[g]
  BY <1>1, <1>3
<1>6. QED
  BY <1>3, <1>4, <1>5, StagesStep

LEMMA DestructKeeps ==
  ASSUME CountInv, NEW h \in Handles, destruct_uv(h) \/ WorkEnds(h)
  PROVE  KeepsInv
<1>1. uv[h] \in UvObjects /\ uv \in [Handles -> UvObjects]
  BY Types
<1>2. PICK o \in UvObjects :
        o = [uv[h] EXCEPT !.stage = IF uv[h].stage = "open" THEN "closing" ELSE "finished"]
  BY <1>1 DEF UvObjects
<1>3. /\ uv' = [uv EXCEPT ![h] = o] /\ o.slot = uv[h].slot
      /\ \/ uv[h].stage = "open" /\ o.stage = "closing"
         \/ uv[h].stage = "running" /\ o.stage = "finished"
      /\ UNCHANGED <<thing, asked, write, frame, drift, short>>
  BY <1>1, <1>2 DEF destruct_uv, WorkEnds, Usable, UvObjects
<1>4. uv' \in [Handles -> UvObjects] /\ uv'[h] = o /\ \A g \in Handles : g # h => uv'[g] = uv[g]
  BY <1>1, <1>3
<1>5. QED
  BY <1>3, <1>4, StagesStep

-----------------------------------------------------------------------------
(* The script's own objects.                                               *)

(* A step on things only; which of the closures are live and what they are *)
(* bound to may change too.                                                *)
LEMMA ThingStep ==
  ASSUME CountInv, thing' \in [Things -> ThingObjects],
         \A o \in Objects : thing'[o].this = NoObject,
         CountsExact', NoneFreedEarly',
         FrameHolds => \A o \in Objects \ short : frame.cb.object = o => thing'[o].life = "live",
         UNCHANGED <<uv, asked, write, frame, drift, short>>
  PROVE  KeepsInv
<1>1. \A n : SlotsOf(n)' = SlotsOf(n)
  BY DEF SlotsOf
<1>2. CallbackTypeOK'
  BY DEF CountInv, CallbackTypeOK, ThingObjects
<1>3. SlotShape' /\ AskedMatches'
  BY DEF CountInv, SlotShape, AskedMatches
<1>4. (FrameHolds => FrameHolds')
  BY <1>1 DEF CountInv, FrameHolds
<1>5. QED
  BY <1>2, <1>3, <1>4 DEF KeepsInv, CountInv

(* Owners when only things change.                                         *)
LEMMA ThingOwners ==
  ASSUME CountInv, UNCHANGED <<uv, asked, write, frame, drift, short>>, NEW n \in Things,
         IsFiniteSet(BoundTo(n))'
  PROVE  /\ Wrong(n)' = Wrong(n) /\ Wrong(n) \in Int
         /\ IsFiniteSet(SlotsOf(n))' /\ IsFiniteSet(WritesOf(n))'
         /\ Wrong(n)' < 0 => n \in short'
         /\ Owners(n) \in Nat /\ Owners(n)' \in Nat
         /\ Owners(n)' = Owners(n) + (Cardinality(BoundTo(n))' - Cardinality(BoundTo(n)))
                                   + (One(thing'[n].named) - One(thing[n].named))
         /\ Cardinality(BoundTo(n)) \in Nat /\ Cardinality(BoundTo(n))' \in Nat
         /\ IsFiniteSet(BoundTo(n)) /\ Cardinality(BoundTo(n)) <= Owners(n)
<1>1. SlotsOf(n)' = SlotsOf(n) /\ WritesOf(n)' = WritesOf(n) /\ Wrong(n)' = Wrong(n)
  BY DEF SlotsOf, WritesOf, Wrong
<1>2. /\ One(thing[n].named) \in {0, 1} /\ One(thing[n].named)' \in {0, 1}
      /\ Cardinality(BoundTo(n)) \in Nat /\ Cardinality(SlotsOf(n)) \in Nat
      /\ Cardinality(WritesOf(n)) \in Nat
      /\ Owns(frame.own, n) \in {0, 1} /\ Runs(frame.cb.fn, n) \in {0, 1}
  BY OwnerNumbers DEF One
<1>3. /\ Owners(n) = One(thing[n].named) + Cardinality(BoundTo(n)) + Cardinality(SlotsOf(n))
                     + Cardinality(WritesOf(n)) + Owns(frame.own, n) + Runs(frame.cb.fn, n)
      /\ Owners(n)' = One(thing'[n].named) + Cardinality(BoundTo(n))' + Cardinality(SlotsOf(n))
                      + Cardinality(WritesOf(n)) + Owns(frame.own, n) + Runs(frame.cb.fn, n)
  BY <1>1 DEF Owners
<1>4. Cardinality(BoundTo(n))' \in Nat
  <2>1. IsFiniteSet(BoundTo(n)')
    OBVIOUS
  <2>2. Cardinality(BoundTo(n)') \in Nat
    BY <2>1, FS_CardinalityType
  <2>3. QED
    BY <2>2
<1>5. /\ Wrong(n) \in Int /\ (Wrong(n) < 0 => n \in short)
      /\ IsFiniteSet(BoundTo(n)) /\ IsFiniteSet(SlotsOf(n)) /\ IsFiniteSet(WritesOf(n))
  BY Types DEF CountInv, CountsExact
<1>6. /\ Owners(n) \in Nat /\ Owners(n)' \in Nat
      /\ Owners(n)' = Owners(n) + (Cardinality(BoundTo(n))' - Cardinality(BoundTo(n)))
                                + (One(thing'[n].named) - One(thing[n].named))
      /\ Cardinality(BoundTo(n)) <= Owners(n)
  BY <1>2, <1>3, <1>4
<1>7. QED
  BY <1>1, <1>2, <1>4, <1>5, <1>6

LEMMA UnsetKeeps ==
  ASSUME CountInv, NEW n \in Things, Unset(n)
  PROVE  KeepsInv
<1>1. /\ thing[n].named /\ Defined
      /\ thing' = [thing EXCEPT ![n].named = FALSE, ![n].rc = @ - 1]
      /\ UNCHANGED <<uv, asked, write, frame, drift, short>>
  BY DEF Unset
<1>2. thing \in [Things -> ThingObjects] /\ thing[n] \in ThingObjects
  BY Types
<1>3. /\ thing' \in [Things -> ThingObjects]
      /\ thing'[n].life = thing[n].life /\ thing'[n].this = thing[n].this
      /\ ~thing'[n].named /\ thing'[n].rc = thing[n].rc - 1
      /\ \A m \in Things : m # n => thing'[m] = thing[m]
  BY <1>1, <1>2 DEF ThingObjects
<1>4. \A m : BoundTo(m)' = BoundTo(m)
  BY <1>3 DEF BoundTo, Things
<1>5. ASSUME NEW m \in Things
      PROVE  /\ thing'[m].life = thing[m].life
             /\ IsFiniteSet(BoundTo(m))' /\ IsFiniteSet(SlotsOf(m))' /\ IsFiniteSet(WritesOf(m))'
             /\ Owners(m)' \in Nat /\ Wrong(m)' \in Int
             /\ thing'[m].rc = thing[m].rc + (Owners(m)' - Owners(m)) + (Wrong(m)' - Wrong(m))
             /\ Owners(m)' > Owners(m) => thing[m].life = "live"
             /\ Wrong(m)' # Wrong(m) => thing[m].life = "live"
             /\ Wrong(m)' < 0 => m \in short'
  <2>1. IsFiniteSet(BoundTo(m))'
    BY <1>4, OwnerNumbers
  <2>2. /\ Wrong(m)' = Wrong(m) /\ Wrong(m) \in Int
        /\ IsFiniteSet(SlotsOf(m))' /\ IsFiniteSet(WritesOf(m))'
        /\ Wrong(m)' < 0 => m \in short'
        /\ Owners(m) \in Nat /\ Owners(m)' \in Nat
        /\ Owners(m)' = Owners(m) + (Cardinality(BoundTo(m))' - Cardinality(BoundTo(m)))
                                  + (One(thing'[m].named) - One(thing[m].named))
        /\ Cardinality(BoundTo(m)) \in Nat
    BY <1>1, <2>1, ThingOwners
  <2>3. Cardinality(BoundTo(m))' = Cardinality(BoundTo(m))
    BY <1>4
  <2>4. One(thing'[m].named) - One(thing[m].named) = IF m = n THEN -1 ELSE 0
    BY <1>1, <1>3 DEF One
  <2>5. Owners(m)' = Owners(m) + (IF m = n THEN -1 ELSE 0)
    BY <2>2, <2>3, <2>4
  <2>6. thing[m].rc \in Int /\ thing'[m].rc = thing[m].rc + (IF m = n THEN -1 ELSE 0)
    BY <1>2, <1>3, Types DEF ThingObjects
  <2>7. thing'[m].life = thing[m].life
    BY <1>3
  <2>8. QED
    BY <2>1, <2>2, <2>5, <2>6, <2>7
<1>6. CountsExact' /\ NoneFreedEarly'
  BY <1>1, <1>5, CountStep
<1>7. QED
  BY <1>1, <1>3, <1>6, ThingStep DEF Things, CountInv, CallbackTypeOK

ThingsTyped == thing \in [Things -> ThingObjects]

(* A new thing n has one owner, the variable that names it; what it is     *)
(* bound to has one more.                                                  *)
LEMMA NewThing ==
  ASSUME CountInv, Defined, NEW n \in Things, NEW o \in Objects \cup {NoObject},
         thing[n].life = "none",
         thing'[n].life = "live", thing'[n].rc = 1, thing'[n].named = TRUE, thing'[n].this = o,
         n \in Objects => o = NoObject,
         o # NoObject => thing[o].life = "live",
         ThingsTyped',
         \A m \in Things : m # n =>
           /\ thing'[m].life = thing[m].life /\ thing'[m].named = thing[m].named
           /\ thing'[m].this = thing[m].this
           /\ thing'[m].rc = thing[m].rc + (IF m = o THEN 1 ELSE 0),
         UNCHANGED <<uv, asked, write, frame, drift, short>>
  PROVE  KeepsInv
<1>1. /\ o # n /\ NoObject \notin Things
      /\ \A m \in Things : thing[m].rc \in Int /\ thing[m].life \in {"none", "live", "freed"}
  <2>1. \A m \in Things : thing[m] \in ThingObjects
    BY Types
  <2>2. QED
    BY <2>1, CallbackAssumption DEF ThingObjects, Things
<1>2. ASSUME NEW m \in Things
      PROVE  /\ BoundTo(m) \ {n} = BoundTo(m)' \ {n}
             /\ n \notin BoundTo(m)
             /\ n \in BoundTo(m)' <=> m = o
  BY <1>1, CallbackAssumption DEF BoundTo, Things
<1>3. ASSUME NEW m \in Things
      PROVE  /\ IsFiniteSet(BoundTo(m))'
             /\ Cardinality(BoundTo(m))' = Cardinality(BoundTo(m)) + (IF m = o THEN 1 ELSE 0)
  <2>1. PICK A, B : A = BoundTo(m) /\ B = BoundTo(m)'
    OBVIOUS
  <2>2. IsFiniteSet(A) /\ A \ {n} = B \ {n}
    BY <1>2, <2>1, OwnerNumbers
  <2>3. /\ IsFiniteSet(B) /\ Cardinality(B) \in Nat /\ Cardinality(A) \in Nat
        /\ Cardinality(B) = Cardinality(A) + (IF n \in B THEN 1 ELSE 0)
                                            - (IF n \in A THEN 1 ELSE 0)
    BY <2>2, CountChange
  <2>4. (n \in B <=> m = o) /\ n \notin A
    BY <1>2, <2>1
  <2>5. Cardinality(B) = Cardinality(A) + (IF m = o THEN 1 ELSE 0)
    BY <2>3, <2>4 DEF One
  <2>6. QED
    BY <2>1, <2>3, <2>5
<1>4. ASSUME NEW m \in Things
      PROVE  /\ Wrong(m)' = Wrong(m) /\ Wrong(m) \in Int
             /\ IsFiniteSet(SlotsOf(m))' /\ IsFiniteSet(WritesOf(m))'
             /\ Wrong(m)' < 0 => m \in short'
             /\ Owners(m) \in Nat /\ Owners(m)' \in Nat
             /\ Owners(m)' = Owners(m) + (IF m = o THEN 1 ELSE 0) + (IF m = n THEN 1 ELSE 0)
  <2>1. /\ Wrong(m)' = Wrong(m) /\ Wrong(m) \in Int
        /\ IsFiniteSet(SlotsOf(m))' /\ IsFiniteSet(WritesOf(m))'
        /\ Wrong(m)' < 0 => m \in short'
        /\ Owners(m) \in Nat /\ Owners(m)' \in Nat
        /\ Owners(m)' = Owners(m) + (Cardinality(BoundTo(m))' - Cardinality(BoundTo(m)))
                                  + (One(thing'[m].named) - One(thing[m].named))
        /\ Cardinality(BoundTo(m)) \in Nat
    BY <1>3, ThingOwners
  <2>2. Owners(n) = 0
    BY DEF CountInv, CountsExact
  <2>3. One(thing[n].named) = 0
    <3>1. thing[n].named \in BOOLEAN /\ One(thing[n].named) \in {0, 1}
      BY Types DEF ThingObjects, One
    <3>2. QED
      BY <2>2, <3>1, OwnerNumbers
  <2>4. One(thing'[m].named) - One(thing[m].named) = IF m = n THEN 1 ELSE 0
    BY <2>3 DEF One
  <2>5. (IF m = o THEN 1 ELSE 0) \in Int
    BY DEF One
  <2>6. QED
    BY <1>3, <2>1, <2>4, <2>5
<1>5. ASSUME NEW m \in Things
      PROVE  /\ thing'[m].life = "live" => thing'[m].rc = Owners(m)' + Wrong(m)'
             /\ thing'[m].life = "none" => Owners(m)' = 0 /\ Wrong(m)' = 0
             /\ ~Dangling(m)'
  <2>1. PICK before, after \in Nat, w \in Int :
          before = Owners(m) /\ after = Owners(m)' /\ w = Wrong(m)
    BY <1>4
  <2>2. after = before + (IF m = o THEN 1 ELSE 0) + (IF m = n THEN 1 ELSE 0) /\ Wrong(m)' = w
    BY <1>4, <2>1
  <2>3. /\ thing[m].life = "live" => thing[m].rc = before + w
        /\ thing[m].life = "none" => before = 0 /\ w = 0
        /\ thing[m].life = "freed" => before = 0
    BY <2>1 DEF CountInv, CountsExact, Defined, Dangling
  <2>4. CASE m = n
    <3>1. after = 1 /\ w = 0
      BY <1>1, <2>2, <2>3, <2>4 DEF One
    <3>2. QED
      BY <2>1, <2>2, <2>4, <3>1 DEF Dangling
  <2>5. CASE m # n /\ m = o
    <3>1. after = before + 1 /\ thing[m].life = "live" /\ thing[m].rc = before + w
      BY <1>1, <2>2, <2>3, <2>5 DEF One
    <3>2. thing'[m].life = "live" /\ thing'[m].rc = thing[m].rc + 1
      BY <3>1, <2>5 DEF One
    <3>3. QED
      BY <2>1, <2>2, <3>1, <3>2 DEF Dangling
  <2>6. CASE m # n /\ m # o
    <3>1. after = before
      BY <2>2, <2>6 DEF One
    <3>2. thing'[m].life = thing[m].life /\ thing'[m].rc = thing[m].rc
      BY <1>1, <2>6 DEF One
    <3>3. QED
      BY <2>1, <2>2, <2>3, <3>1, <3>2 DEF Dangling
  <2>7. QED
    BY <2>4, <2>5, <2>6
<1>6. CountsExact' /\ NoneFreedEarly'
  BY <1>3, <1>4, <1>5 DEF CountsExact, NoneFreedEarly
<1>7. ASSUME NEW p \in Objects
      PROVE  thing'[p].this = NoObject
  <2>1. thing[p].this = NoObject /\ p \in Things
    BY DEF CountInv, CallbackTypeOK, Things
  <2>2. QED
    BY <2>1
<1>8. FrameHolds => \A p \in Objects \ short : frame.cb.object = p => thing'[p].life = "live"
  BY DEF FrameHolds, Things
<1>9. QED
  BY <1>6, <1>7, <1>8, ThingStep DEF ThingsTyped

LEMMA NewObjectKeeps ==
  ASSUME CountInv, NEW o \in Objects, NewObject(o)
  PROVE  KeepsInv
<1>1. /\ thing[o].life = "none" /\ Defined
      /\ thing' = [thing EXCEPT ![o] = [Absent EXCEPT !.life = "live", !.rc = 1, !.named = TRUE]]
      /\ UNCHANGED <<uv, asked, write, frame, drift, short>>
  BY DEF NewObject
<1>2. PICK r : r = [Absent EXCEPT !.life = "live", !.rc = 1, !.named = TRUE]
  OBVIOUS
<1>3. r.life = "live" /\ r.rc = 1 /\ r.named = TRUE /\ r.this = NoObject /\ r \in ThingObjects
  <2>1. PICK b \in BOOLEAN : b
    OBVIOUS
  <2>2. r = [life |-> "live", rc |-> 1, named |-> b, this |-> NoObject]
    BY <1>2, <2>1 DEF Absent
  <2>3. QED
    BY <2>1, <2>2 DEF ThingObjects
<1>4. thing \in [Things -> ThingObjects] /\ o \in Things /\ NoObject \notin Things
  BY Types, CallbackAssumption DEF Things
<1>5. thing' \in [Things -> ThingObjects] /\ thing'[o] = r /\ \A m \in Things : m # o => thing'[m] = thing[m]
  BY <1>1, <1>2, <1>3, <1>4
<1>6. \A m \in Things : m # o =>
        /\ thing'[m].life = thing[m].life /\ thing'[m].named = thing[m].named
        /\ thing'[m].this = thing[m].this
        /\ thing'[m].rc = thing[m].rc + One(m = NoObject)
  <2>1. \A m \in Things : One(m = NoObject) = 0 /\ thing[m].rc \in Int
    BY <1>4, CallbackAssumption DEF One, ThingObjects
  <2>2. QED
    BY <1>5, <2>1
<1>7. /\ thing'[o].life = "live" /\ thing'[o].rc = 1 /\ thing'[o].named = TRUE
      /\ thing'[o].this = NoObject
  BY <1>3, <1>5
<1>8. PICK p \in Objects \cup {NoObject} : p = NoObject
  OBVIOUS
<1>9. \A m \in Things : m # o =>
        /\ thing'[m].life = thing[m].life /\ thing'[m].named = thing[m].named
        /\ thing'[m].this = thing[m].this
        /\ thing'[m].rc = thing[m].rc + (IF m = p THEN 1 ELSE 0)
  BY <1>6, <1>8 DEF One
<1>10. ThingsTyped'
  BY <1>5 DEF ThingsTyped
<1>11. /\ thing[o].life = "none" /\ Defined /\ o \in Things
       /\ UNCHANGED <<uv, asked, write, frame, drift, short>>
  BY <1>1, <1>4
<1>12. /\ p \in Objects \cup {NoObject} /\ thing'[o].this = p
       /\ (p # NoObject => thing[p].life = "live")
       /\ thing'[o].life = "live" /\ thing'[o].rc = 1 /\ thing'[o].named = TRUE
       /\ (o \in Objects => p = NoObject)
  BY <1>7, <1>8
<1>13. QED
  BY <1>9, <1>10, <1>11, <1>12, NewThing

LEMMA NewFunctionKeeps ==
  ASSUME CountInv, NEW f \in Functions, NEW o \in Objects \cup {NoObject}, NewFunction(f, o)
  PROVE  KeepsInv
<1>1. /\ thing[f].life = "none" /\ Defined
      /\ o # NoObject => CanName(o)
      /\ thing' = [n \in Things |->
           IF n = f THEN [life |-> "live", rc |-> 1, named |-> TRUE, this |-> o]
           ELSE [thing[n] EXCEPT !.rc = @ + One(n = o)]]
      /\ UNCHANGED <<uv, asked, write, frame, drift, short>>
  BY DEF NewFunction
<1>2. PICK r : r = [life |-> "live", rc |-> 1, named |-> TRUE, this |-> o]
  OBVIOUS
<1>3. r.life = "live" /\ r.rc = 1 /\ r.named = TRUE /\ r.this = o /\ r \in ThingObjects
  <2>1. PICK b \in BOOLEAN : b
    OBVIOUS
  <2>2. r = [life |-> "live", rc |-> 1, named |-> b, this |-> o]
    BY <1>2, <2>1
  <2>3. QED
    BY <2>1, <2>2 DEF ThingObjects
<1>4. thing \in [Things -> ThingObjects] /\ f \in Things /\ f \notin Objects
  BY Types, CallbackAssumption DEF Things
<1>5. ASSUME NEW m \in Things, m # f
      PROVE  /\ thing'[m] \in ThingObjects
             /\ thing'[m].life = thing[m].life /\ thing'[m].named = thing[m].named
             /\ thing'[m].this = thing[m].this
             /\ thing'[m].rc = thing[m].rc + (IF m = o THEN 1 ELSE 0)
  <2>1. thing'[m] = [thing[m] EXCEPT !.rc = @ + One(m = o)] /\ thing[m] \in ThingObjects
    BY <1>1, <1>4, <1>5
  <2>2. One(m = o) \in Int
    BY DEF One
  <2>3. QED
    BY <2>1, <2>2 DEF ThingObjects, One
<1>6. thing' \in [Things -> ThingObjects] /\ thing'[f] = r
  BY <1>1, <1>2, <1>3, <1>4, <1>5
<1>7. o # NoObject => thing[o].life = "live"
  BY <1>1 DEF CanName
<1>8. /\ thing'[f].life = "live" /\ thing'[f].rc = 1 /\ thing'[f].named = TRUE
      /\ thing'[f].this = o /\ ThingsTyped'
  BY <1>3, <1>6 DEF ThingsTyped
<1>9. /\ thing[f].life = "none" /\ Defined /\ f \in Things /\ f \notin Objects
      /\ UNCHANGED <<uv, asked, write, frame, drift, short>>
  BY <1>1, <1>4
<1>10. \A m \in Things : m # f =>
         /\ thing'[m].life = thing[m].life /\ thing'[m].named = thing[m].named
         /\ thing'[m].this = thing[m].this
         /\ thing'[m].rc = thing[m].rc + (IF m = o THEN 1 ELSE 0)
  BY <1>5
<1>11. QED
  BY <1>7, <1>8, <1>9, <1>10, NewThing

(* The object of the callback that runs is counted by what holds it.       *)
LEMMA FrameObjectCounted ==
  ASSUME CountInv, FrameHolds, NEW o \in Objects \ short, frame.cb.object = o
  PROVE  thing[o].rc > 0
<1>1. o \in Things /\ Wrong(o) = drift[o] /\ drift[o] \in Int
  <2>1. o \in Things /\ Wrong(o) = drift[o]
    BY DEF Things, Wrong
  <2>2. QED
    BY <2>1, Types
<1>2. /\ thing[o].rc = Owners(o) + drift[o]
      /\ drift[o] >= 0
      /\ frame.own.object = o \/ Cardinality(SlotsOf(o)) + drift[o] > 0
  BY <1>1 DEF CountInv, CountsExact, FrameHolds
<1>3. frame.own.object = o => Owns(frame.own, o) = 1
  BY DEF Owns, One
<1>4. /\ Owners(o) \in Nat /\ Cardinality(SlotsOf(o)) \in Nat
      /\ Owners(o) >= Cardinality(SlotsOf(o)) + Owns(frame.own, o) /\ Owns(frame.own, o) \in {0, 1}
  BY <1>1, OwnerNumbers
<1>5. QED
  BY <1>1, <1>2, <1>3, <1>4

LEMMA FreeKeeps ==
  ASSUME CountInv, NEW n \in Things, Free(n)
  PROVE  KeepsInv
<1>1. /\ thing[n].life = "live" /\ thing[n].rc <= 0
      /\ thing' = [m \in Things |->
           IF m = n THEN [thing[m] EXCEPT !.life = "freed", !.this = NoObject]
           ELSE [thing[m] EXCEPT !.rc = @ - One(thing[n].this = m)]]
      /\ UNCHANGED <<uv, asked, write, frame, drift, short>>
  BY DEF Free
<1>2. PICK t : t = thing[n].this
  OBVIOUS
<1>3. /\ t # n /\ (t \in Things => n \in Functions) /\ NoObject \notin Things
  <2>1. thing[n] \in ThingObjects /\ (n \in Objects => t = NoObject)
    BY <1>2, Types DEF CountInv, CallbackTypeOK
  <2>2. t \in Objects \cup {NoObject}
    BY <1>2, <2>1 DEF ThingObjects
  <2>3. QED
    BY <2>1, <2>2, CallbackAssumption DEF Things
<1>4. ASSUME NEW m \in Things, m # n
      PROVE  /\ thing'[m] \in ThingObjects
             /\ thing'[m].life = thing[m].life /\ thing'[m].named = thing[m].named
             /\ thing'[m].this = thing[m].this
             /\ thing'[m].rc = thing[m].rc - (IF m = t THEN 1 ELSE 0)
  <2>1. thing'[m] = [thing[m] EXCEPT !.rc = @ - One(t = m)] /\ thing[m] \in ThingObjects
    BY <1>1, <1>2, <1>4, Types
  <2>2. One(t = m) = (IF m = t THEN 1 ELSE 0)
    BY DEF One
  <2>3. QED
    BY <2>1, <2>2 DEF ThingObjects
<1>5. /\ thing'[n] \in ThingObjects
      /\ thing'[n].life = "freed" /\ thing'[n].named = thing[n].named /\ thing'[n].this = NoObject
      /\ thing[n].rc \in Int
  <2>1. thing'[n] = [thing[n] EXCEPT !.life = "freed", !.this = NoObject] /\ thing[n] \in ThingObjects
    BY <1>1, Types
  <2>2. QED
    BY <2>1 DEF ThingObjects
<1>6. ASSUME NEW m \in Things
      PROVE  /\ BoundTo(m) \ {n} = BoundTo(m)' \ {n}
             /\ n \in BoundTo(m) <=> m = t
             /\ n \notin BoundTo(m)'
  <2>1. \A f \in Functions : f # n => (thing'[f].life = thing[f].life /\ thing'[f].this = thing[f].this)
    BY <1>4 DEF Things
  <2>2. BoundTo(m) \ {n} = BoundTo(m)' \ {n}
    BY <2>1 DEF BoundTo
  <2>3. n \in BoundTo(m) <=> m = t
    BY <1>1, <1>2, <1>3 DEF BoundTo
  <2>4. n \notin BoundTo(m)'
    BY <1>5 DEF BoundTo
  <2>5. QED
    BY <2>2, <2>3, <2>4
<1>7. ASSUME NEW m \in Things
      PROVE  /\ IsFiniteSet(BoundTo(m))'
             /\ Cardinality(BoundTo(m))' = Cardinality(BoundTo(m)) - (IF m = t THEN 1 ELSE 0)
  <2>1. PICK A, B : A = BoundTo(m) /\ B = BoundTo(m)'
    OBVIOUS
  <2>2. IsFiniteSet(A) /\ A \ {n} = B \ {n}
    BY <1>6, <2>1, OwnerNumbers
  <2>3. /\ IsFiniteSet(B) /\ Cardinality(B) \in Nat /\ Cardinality(A) \in Nat
        /\ Cardinality(B) = Cardinality(A) + (IF n \in B THEN 1 ELSE 0)
                                            - (IF n \in A THEN 1 ELSE 0)
    BY <2>2, CountChange
  <2>4. (n \in A <=> m = t) /\ n \notin B
    BY <1>6, <2>1
  <2>5. Cardinality(B) = Cardinality(A) - (IF m = t THEN 1 ELSE 0)
    BY <2>3, <2>4
  <2>6. QED
    BY <2>1, <2>3, <2>5
<1>8. ASSUME NEW m \in Things
      PROVE  /\ Wrong(m)' = Wrong(m) /\ Wrong(m) \in Int
             /\ IsFiniteSet(SlotsOf(m))' /\ IsFiniteSet(WritesOf(m))'
             /\ Wrong(m)' < 0 => m \in short'
             /\ Owners(m) \in Nat /\ Owners(m)' \in Nat
             /\ Owners(m)' = Owners(m) - (IF m = t THEN 1 ELSE 0)
  <2>1. /\ Wrong(m)' = Wrong(m) /\ Wrong(m) \in Int
        /\ IsFiniteSet(SlotsOf(m))' /\ IsFiniteSet(WritesOf(m))'
        /\ Wrong(m)' < 0 => m \in short'
        /\ Owners(m) \in Nat /\ Owners(m)' \in Nat
        /\ Owners(m)' = Owners(m) + (Cardinality(BoundTo(m))' - Cardinality(BoundTo(m)))
                                  + (One(thing'[m].named) - One(thing[m].named))
        /\ Cardinality(BoundTo(m)) \in Nat
    BY <1>1, <1>7, ThingOwners
  <2>2. One(thing'[m].named) - One(thing[m].named) = 0
    BY <1>4, <1>5 DEF One
  <2>3. QED
    BY <1>7, <2>1, <2>2
<1>9. ASSUME NEW m \in Things
      PROVE  /\ thing'[m].life = "live" => thing'[m].rc = Owners(m)' + Wrong(m)'
             /\ thing'[m].life = "none" => Owners(m)' = 0 /\ Wrong(m)' = 0
             /\ Dangling(m)' => Wrong(m)' < 0
  <2>1. PICK before, after \in Nat, w \in Int :
          before = Owners(m) /\ after = Owners(m)' /\ w = Wrong(m)
    BY <1>8
  <2>2. after = before - (IF m = t THEN 1 ELSE 0) /\ Wrong(m)' = w
    BY <1>8, <2>1
  <2>3. /\ thing[m].life = "live" => thing[m].rc = before + w
        /\ thing[m].life = "none" => before = 0 /\ w = 0
        /\ thing[m].life = "freed" => (before > 0 => w < 0)
        /\ thing[m].rc \in Int
    BY <2>1, Types DEF CountInv, CountsExact, NoneFreedEarly, Dangling, ThingObjects
  <2>4. CASE m = n
    <3>1. m # t /\ thing[m].life = "live" /\ thing[m].rc <= 0
      BY <1>1, <1>3, <2>4
    <3>2. after > 0 => w < 0
      BY <2>2, <2>3, <3>1
    <3>3. QED
      BY <1>5, <2>1, <2>2, <2>4, <3>2 DEF Dangling
  <2>5. CASE m # n
    <3>1. thing'[m].life = thing[m].life /\ thing'[m].rc = thing[m].rc - (IF m = t THEN 1 ELSE 0)
      BY <1>4, <2>5
    <3>2. thing[m].life = "live" => thing'[m].rc = after + w
      BY <2>2, <2>3, <3>1
    <3>3. thing[m].life = "none" => after = 0 /\ w = 0
      BY <2>2, <2>3
    <3>4. thing[m].life = "freed" => (after > 0 => w < 0)
      BY <2>2, <2>3
    <3>5. QED
      BY <2>1, <2>2, <3>1, <3>2, <3>3, <3>4 DEF Dangling
  <2>6. QED
    BY <2>4, <2>5
<1>10. CountsExact' /\ NoneFreedEarly'
  BY <1>7, <1>8, <1>9 DEF CountsExact, NoneFreedEarly
<1>11. thing' \in [Things -> ThingObjects]
  BY <1>1, <1>4, <1>5
<1>12. ASSUME NEW o \in Objects
       PROVE  thing'[o].this = NoObject
  <2>1. thing[o].this = NoObject /\ o \in Things
    BY DEF CountInv, CallbackTypeOK, Things
  <2>2. QED
    BY <1>4, <1>5, <2>1
<1>13. ASSUME FrameHolds, NEW o \in Objects \ short, frame.cb.object = o
       PROVE  thing'[o].life = "live"
  <2>1. thing[o].rc > 0 /\ o \in Things
    BY <1>13, FrameObjectCounted DEF Things
  <2>2. ~(thing[o].rc <= 0)
    BY <2>1, Types DEF ThingObjects
  <2>3. o # n
    BY <1>1, <2>2
  <2>4. thing[o].life = "live"
    BY <1>13 DEF FrameHolds
  <2>5. QED
    BY <1>4, <1>13, <2>1, <2>3, <2>4
<1>14. QED
  BY <1>1, <1>10, <1>11, <1>12, <1>13, ThingStep

-----------------------------------------------------------------------------
(* Callbacks that are put into slots.                                      *)

LEMMA OwnersChange ==
  ASSUME CountInv, NEW n \in Things,
         BoundTo(n)' = BoundTo(n), thing'[n].named = thing[n].named,
         IsFiniteSet(SlotsOf(n))', IsFiniteSet(WritesOf(n))'
  PROVE  /\ IsFiniteSet(BoundTo(n))'
         /\ Owners(n) \in Nat /\ Owners(n)' \in Nat
         /\ Owners(n)' = Owners(n) + (Cardinality(SlotsOf(n))' - Cardinality(SlotsOf(n)))
                                   + (Cardinality(WritesOf(n))' - Cardinality(WritesOf(n)))
                                   + (Owns(frame'.own, n) - Owns(frame.own, n))
                                   + (Runs(frame'.cb.fn, n) - Runs(frame.cb.fn, n))
<1>1. PICK A, B : A = SlotsOf(n)' /\ B = WritesOf(n)'
  OBVIOUS
<1>2. Cardinality(A) \in Nat /\ Cardinality(B) \in Nat
  BY <1>1, FS_CardinalityType
<1>3. /\ Owns(frame'.own, n) \in {0, 1} /\ Runs(frame'.cb.fn, n) \in {0, 1}
      /\ Owns(frame.own, n) \in {0, 1} /\ Runs(frame.cb.fn, n) \in {0, 1}
      /\ One(thing[n].named) \in {0, 1}
  BY DEF Owns, Runs, One
<1>4. Owners(n)' = One(thing[n].named) + Cardinality(BoundTo(n)) + Cardinality(A)
                   + Cardinality(B) + Owns(frame'.own, n) + Runs(frame'.cb.fn, n)
  BY <1>1 DEF Owners, Owns, Runs
<1>5. /\ Owners(n) = One(thing[n].named) + Cardinality(BoundTo(n)) + Cardinality(SlotsOf(n))
                     + Cardinality(WritesOf(n)) + Owns(frame.own, n) + Runs(frame.cb.fn, n)
      /\ Cardinality(BoundTo(n)) \in Nat /\ Cardinality(SlotsOf(n)) \in Nat
      /\ Cardinality(WritesOf(n)) \in Nat /\ IsFiniteSet(BoundTo(n))
  BY OwnerNumbers
<1>6. /\ Owners(n) \in Nat /\ Owners(n)' \in Nat
      /\ Owners(n)' = Owners(n) + (Cardinality(A) - Cardinality(SlotsOf(n)))
                                + (Cardinality(B) - Cardinality(WritesOf(n)))
                                + (Owns(frame'.own, n) - Owns(frame.own, n))
                                + (Runs(frame'.cb.fn, n) - Runs(frame.cb.fn, n))
  BY <1>2, <1>3, <1>4, <1>5
<1>7. IsFiniteSet(BoundTo(n))'
  BY <1>5
<1>8. QED
  BY <1>1, <1>6, <1>7

(* The slots own gain more of each n; delta is what was counted.           *)
LEMMA SlotStep ==
  ASSUME CountInv, Defined, NEW delta, NEW gain,
         Count(delta),
         \A n \in Things :
           /\ delta[n] \in Int /\ gain[n] \in Int /\ Wrong(n)' \in Int
           /\ IsFiniteSet(SlotsOf(n))'
           /\ Cardinality(SlotsOf(n))' = Cardinality(SlotsOf(n)) + gain[n]
           /\ delta[n] = gain[n] + (Wrong(n)' - Wrong(n))
           /\ gain[n] > 0 => thing[n].life = "live"
           /\ Wrong(n)' # Wrong(n) => thing[n].life = "live"
           /\ Wrong(n)' < 0 => n \in short',
         \A o \in Objects : drift'[o] \in Int /\ gain[o] + drift'[o] >= drift[o],
         short \subseteq short', write' = write, frame' = frame
  PROVE  /\ thing' \in [Things -> ThingObjects]
         /\ \A o \in Objects : thing'[o].this = NoObject
         /\ CountsExact' /\ NoneFreedEarly' /\ (FrameHolds => FrameHolds')
<1>1. /\ thing' \in [Things -> ThingObjects]
      /\ \A n \in Things :
           /\ thing'[n].life = thing[n].life /\ thing'[n].this = thing[n].this
           /\ thing'[n].named = thing[n].named
           /\ thing'[n].rc = thing[n].rc + delta[n]
      /\ \A n : BoundTo(n)' = BoundTo(n)
  BY CountFacts
<1>2. ASSUME NEW n \in Things
      PROVE  /\ thing'[n].life = thing[n].life
             /\ IsFiniteSet(BoundTo(n))' /\ IsFiniteSet(SlotsOf(n))' /\ IsFiniteSet(WritesOf(n))'
             /\ Owners(n)' \in Nat /\ Wrong(n)' \in Int
             /\ thing'[n].rc = thing[n].rc + (Owners(n)' - Owners(n)) + (Wrong(n)' - Wrong(n))
             /\ Owners(n)' > Owners(n) => thing[n].life = "live"
             /\ Wrong(n)' # Wrong(n) => thing[n].life = "live"
             /\ Wrong(n)' < 0 => n \in short'
  <2>1. WritesOf(n)' = WritesOf(n) /\ IsFiniteSet(WritesOf(n)) /\ Cardinality(WritesOf(n)) \in Nat
    BY WritesKept, OwnerNumbers
  <2>2. IsFiniteSet(WritesOf(n))' /\ Cardinality(WritesOf(n))' = Cardinality(WritesOf(n))
    BY <2>1
  <2>3. BoundTo(n)' = BoundTo(n) /\ thing'[n].named = thing[n].named
    BY <1>1
  <2>4. /\ IsFiniteSet(BoundTo(n))'
        /\ Owners(n) \in Nat /\ Owners(n)' \in Nat
        /\ Owners(n)' = Owners(n) + (Cardinality(SlotsOf(n))' - Cardinality(SlotsOf(n)))
                                  + (Cardinality(WritesOf(n))' - Cardinality(WritesOf(n)))
                                  + (Owns(frame'.own, n) - Owns(frame.own, n))
                                  + (Runs(frame'.cb.fn, n) - Runs(frame.cb.fn, n))
    BY <2>2, <2>3, OwnersChange
  <2>5. Owns(frame'.own, n) - Owns(frame.own, n) = 0 /\ Runs(frame'.cb.fn, n) - Runs(frame.cb.fn, n) = 0
    BY DEF Owns, Runs, One
  <2>6. Cardinality(SlotsOf(n)) \in Nat
    BY OwnerNumbers
  <2>7. Owners(n)' = Owners(n) + gain[n]
    BY <2>1, <2>2, <2>4, <2>5, <2>6
  <2>8. thing[n].rc \in Int /\ thing'[n].rc = thing[n].rc + delta[n] /\ thing'[n].life = thing[n].life
    BY <1>1, Types DEF ThingObjects
  <2>9. Wrong(n) \in Int
    BY Types
  <2>10. QED
    BY <2>2, <2>4, <2>7, <2>8, <2>9
<1>3. CountsExact' /\ NoneFreedEarly'
  BY <1>2, CountStep
<1>4. ASSUME NEW o \in Objects
      PROVE  /\ thing'[o].life = thing[o].life
             /\ Cardinality(SlotsOf(o))' + drift'[o] >= Cardinality(SlotsOf(o)) + drift[o]
             /\ Cardinality(SlotsOf(o))' \in Int /\ drift'[o] \in Int
             /\ thing'[o].this = NoObject
  <2>1. o \in Things /\ thing[o].this = NoObject /\ drift[o] \in Int /\ Wrong(o) = drift[o]
    <3>1. o \in Things /\ thing[o].this = NoObject /\ Wrong(o) = drift[o]
      BY DEF Things, CountInv, CallbackTypeOK, Wrong
    <3>2. QED
      BY <3>1, Types
  <2>2. /\ Cardinality(SlotsOf(o)) \in Nat /\ gain[o] \in Int
        /\ Cardinality(SlotsOf(o))' = Cardinality(SlotsOf(o)) + gain[o]
        /\ drift'[o] \in Int /\ gain[o] + drift'[o] >= drift[o]
    BY <2>1, OwnerNumbers
  <2>3. QED
    BY <1>1, <2>1, <2>2
<1>5. (FrameHolds => FrameHolds')
  BY <1>4, HoldStep
<1>6. QED
  BY <1>1, <1>3, <1>4, <1>5

LEMMA FunctionOrObject ==
  ASSUME NEW cb \in Callbacks, NEW n \in Things
  PROVE  /\ n \in Functions => n \notin Objects /\ cb.object # n
         /\ n \in Objects => cb.fn # n
         /\ Owns(cb, n) = One(cb.fn = n) + One(cb.object = n)
         /\ One(cb.fn = n) \in {0, 1} /\ One(cb.object = n) \in {0, 1}
<1>1. cb.fn \in Functions \cup {NoFunction} /\ cb.object \in Objects \cup {NoObject}
  BY DEF Callbacks
<1>2. /\ n \in Functions => n \notin Objects /\ cb.object # n
      /\ n \in Objects => cb.fn # n
      /\ n \in Functions \cup Objects
  BY <1>1, CallbackAssumption DEF Things
<1>3. Owns(cb, n) = One(cb.fn = n) + One(cb.object = n)
  BY <1>2 DEF Owns, One
<1>4. QED
  BY <1>2, <1>3 DEF One

(* A callback takes the place of another in a slot: what php_uv_cb_init    *)
(* counts is what the slot owns, and drift the rest.                       *)
LEMMA RebindStep ==
  ASSUME CountInv, Defined, NEW h \in Handles, NEW s \in Slots, NEW f, Callable(f),
         NEW old, NEW new, old = uv[h].slot[s], new = Fci(f),
         Count(Rebound(old, new)),
         uv'[h].slot[s] = new,
         \A g \in Handles, t \in Slots : g # h \/ t # s => uv'[g].slot[t] = uv[g].slot[t],
         \A o \in Objects :
           /\ drift'[o] = drift[o] + One(old.object = o) - One(old.set /\ new.object = o)
           /\ drift'[o] < 0 => o \in short',
         short \subseteq short', write' = write, frame' = frame
  PROVE  /\ thing' \in [Things -> ThingObjects]
         /\ \A o \in Objects : thing'[o].this = NoObject
         /\ CountsExact' /\ NoneFreedEarly' /\ (FrameHolds => FrameHolds')
<1>1. old \in Callbacks /\ new \in Callbacks /\ \A n \in Things : Owns(new, n) = 1 => thing[n].life = "live"
  BY Types, CallableIsLive
<1>2. PICK gain : gain = [n \in Things |-> Owns(new, n) - Owns(old, n)]
  OBVIOUS
<1>3. PICK delta : delta = Rebound(old, new)
  OBVIOUS
<1>4. ASSUME NEW n \in Things
      PROVE  /\ delta[n] \in Int /\ gain[n] \in Int /\ Wrong(n)' \in Int
             /\ IsFiniteSet(SlotsOf(n))'
             /\ Cardinality(SlotsOf(n))' = Cardinality(SlotsOf(n)) + gain[n]
             /\ delta[n] = gain[n] + (Wrong(n)' - Wrong(n))
             /\ gain[n] > 0 => thing[n].life = "live"
             /\ Wrong(n)' # Wrong(n) => thing[n].life = "live"
             /\ Wrong(n)' < 0 => n \in short'
             /\ n \in Objects => drift'[n] \in Int /\ gain[n] + drift'[n] >= drift[n]
  <2>1. PICK a, b, c, d, e \in {0, 1} :
          /\ a = One(new.fn = n) /\ b = One(old.fn = n)
          /\ c = One(new.object = n) /\ d = One(old.object = n)
          /\ e = One(old.set /\ new.object = n)
    BY DEF One
  <2>2. Owns(new, n) = a + c /\ Owns(old, n) = b + d
    BY <1>1, <2>1, FunctionOrObject
  <2>3. delta[n] = a - b + c - e /\ gain[n] = (a + c) - (b + d)
    BY <1>2, <1>3, <2>1, <2>2 DEF Rebound
  <2>4. e <= c
    BY <2>1 DEF One
  <2>5. Wrong(n) \in Int /\ (n \in Functions \/ n \in Objects)
    BY Types DEF Things
  <2>6. n \in Objects => (Wrong(n)' = Wrong(n) + d - e /\ a = 0 /\ b = 0
                          /\ Wrong(n) = drift[n] /\ Wrong(n)' = drift'[n])
    <3>1. n \in Objects => (Wrong(n) = drift[n] /\ Wrong(n)' = drift'[n])
      BY DEF Wrong
    <3>2. n \in Objects => drift'[n] = drift[n] + d - e
      BY <2>1
    <3>3. n \in Objects => (new.fn # n /\ old.fn # n)
      BY <1>1, FunctionOrObject
    <3>4. n \in Objects => (a = 0 /\ b = 0)
      BY <2>1, <3>3 DEF One
    <3>5. QED
      BY <3>1, <3>2, <3>4
  <2>7. n \in Functions => (Wrong(n)' = 0 /\ Wrong(n) = 0 /\ c = 0 /\ d = 0 /\ e = 0)
    <3>1. n \in Functions => (n \notin Objects /\ new.object # n /\ old.object # n)
      BY <1>1, FunctionOrObject
    <3>2. QED
      BY <2>1, <3>1 DEF Wrong, One
  <2>8. d = 1 => thing[n].life = "live"
    <3>1. d = 1 => n = uv[h].slot[s].object
      BY <2>1 DEF One
    <3>2. QED
      BY <3>1, ReferredIsLive
  <2>9. a + c > 0 => thing[n].life = "live"
    <3>1. Owns(new, n) \in {0, 1}
      BY OwnsNumber
    <3>2. QED
      BY <1>1, <2>2, <3>1
  <2>10. IsFiniteSet(SlotsOf(n))' /\ Cardinality(SlotsOf(n))' = Cardinality(SlotsOf(n)) + gain[n]
    <3>1. IsFiniteSet(SlotsOf(n)) /\ Cardinality(SlotsOf(n)) \in Nat
      BY OwnerNumbers
    <3>2. /\ IsFiniteSet(SlotsOf(n))'
          /\ Cardinality(SlotsOf(n))' = Cardinality(SlotsOf(n)) + Owns(new, n) - Owns(old, n)
      BY <3>1, SlotChange
    <3>3. QED
      BY <2>2, <2>3, <3>1, <3>2
  <2>11. n \in Objects => (Wrong(n)' < 0 => n \in short')
    BY <2>6
  <2>12. CASE n \in Objects
    BY <2>3, <2>4, <2>5, <2>6, <2>8, <2>9, <2>10, <2>11, <2>12
  <2>13. CASE n \in Functions
    <3>1. n \notin Objects
      BY <2>13, CallbackAssumption
    <3>2. QED
      BY <2>3, <2>5, <2>7, <2>9, <2>10, <2>13, <3>1
  <2>14. QED
    BY <2>5, <2>12, <2>13
<1>5. \A o \in Objects : drift'[o] \in Int /\ gain[o] + drift'[o] >= drift[o]
  BY <1>4 DEF Things
<1>6. Count(delta)
  BY <1>3
<1>7. QED
  BY <1>4, <1>5, <1>6, SlotStep

LEMMA OpenShape ==
  ASSUME CountInv, NEW h \in Handles, uv[h].stage = "open",
         uv'[h].stage \in {"open", "closing"},
         uv'[h].stage = "open" => uv'[h].slot["close"] = NullSlot,
         \A g \in Handles : g # h => uv'[g] = uv[g] /\ asked'[g] = asked[g],
         frame' = frame
  PROVE  SlotShape'
<1>1. SlotShape
  BY DEF CountInv
<1>2. ASSUME NEW g \in Handles
      PROVE  /\ uv'[g].stage = "none" => \A s \in Slots : uv'[g].slot[s] = NullSlot
             /\ uv'[g].stage = "open" => uv'[g].slot["close"] = NullSlot
             /\ uv'[g].stage \in {"queued", "running", "finished"} => uv'[g].slot["work"].fn \in Functions
             /\ asked'[g] # <<>> => uv'[g].stage \in {"open", "closing"}
  <2>1. CASE g = h
    BY <2>1
  <2>2. CASE g # h
    BY <1>1, <2>2 DEF SlotShape
  <2>3. QED
    BY <2>1, <2>2
<1>3. ASSUME frame'.kind \in {"close", "after_work"}
      PROVE  /\ frame'.handle \in Handles
             /\ uv'[frame'.handle].stage \in {"closing", "finished"}
             /\ asked'[frame'.handle] = <<>>
  <2>1. /\ frame.handle \in Handles /\ uv[frame.handle].stage \in {"closing", "finished"}
        /\ asked[frame.handle] = <<>>
    BY <1>1, <1>3 DEF SlotShape
  <2>2. frame.handle # h
    BY <2>1
  <2>3. QED
    BY <2>1, <2>2
<1>4. QED
  BY <1>2, <1>3 DEF SlotShape

(* php_uv_cb_init, on a handle in use.                                     *)
LEMMA InitSlot ==
  ASSUME CountInv, Defined, NEW h \in Handles, NEW s \in Slots \ {"close"}, NEW f, Callable(f),
         uv[h].stage = "open", php_uv_cb_init(h, s, f), UNCHANGED <<write, frame>>
  PROVE  /\ thing' \in [Things -> ThingObjects]
         /\ \A o \in Objects : thing'[o].this = NoObject
         /\ CountsExact' /\ NoneFreedEarly' /\ (FrameHolds => FrameHolds')
         /\ uv' \in [Handles -> UvObjects]
         /\ drift' \in [Objects -> -MaxDrift .. MaxDrift] /\ short' \subseteq Objects
         /\ uv'[h].stage = "open" /\ uv'[h].slot["close"] = NullSlot
         /\ uv'[h].slot[s] = Fci(f)
         /\ \A g \in Handles : g # h => uv'[g] = uv[g]
         /\ \A g \in Handles, t \in Slots : g # h \/ t # s => uv'[g].slot[t] = uv[g].slot[t]
<1>1. PICK old, new : old = uv[h].slot[s] /\ new = Fci(f)
  OBVIOUS
<1>2. /\ Count(Rebound(old, new))
      /\ uv' = [uv EXCEPT ![h].slot[s] = new]
      /\ drift' = Drifted(old, new)
      /\ \A o \in Objects : drift'[o] \in -MaxDrift .. MaxDrift
      /\ short' = short \cup {o \in Objects : drift'[o] < 0}
  BY <1>1 DEF php_uv_cb_init
<1>3. new \in Callbacks /\ uv[h] \in UvObjects
  BY <1>1, Types, CallableIsLive
<1>4. PICK o : o = [uv[h] EXCEPT !.slot[s] = new]
  OBVIOUS
<1>5. /\ o \in UvObjects /\ o.slot = [uv[h].slot EXCEPT ![s] = new] /\ o.stage = "open"
      /\ uv' = [uv EXCEPT ![h] = o]
  BY <1>2, <1>3, <1>4 DEF UvObjects
<1>6. /\ uv' \in [Handles -> UvObjects] /\ uv'[h] = o /\ o.slot[s] = new
      /\ \A t \in Slots : t # s => o.slot[t] = uv[h].slot[t]
      /\ \A g \in Handles : g # h => uv'[g] = uv[g]
      /\ \A g \in Handles, t \in Slots : g # h \/ t # s => uv'[g].slot[t] = uv[g].slot[t]
  <2>1. uv \in [Handles -> UvObjects] /\ uv[h].slot \in [Slots -> Callbacks]
    BY Types DEF UvObjects
  <2>2. /\ uv' \in [Handles -> UvObjects] /\ uv'[h] = o
        /\ \A g \in Handles : g # h => uv'[g] = uv[g]
    BY <1>5, <2>1
  <2>3. o.slot[s] = new /\ \A t \in Slots : t # s => o.slot[t] = uv[h].slot[t]
    BY <1>5, <2>1
  <2>4. \A g \in Handles, t \in Slots : g # h \/ t # s => uv'[g].slot[t] = uv[g].slot[t]
    BY <2>2, <2>3
  <2>5. QED
    BY <2>2, <2>3, <2>4
<1>7. \A p \in Objects :
        /\ drift'[p] = drift[p] + One(old.object = p) - One(old.set /\ new.object = p)
        /\ drift'[p] < 0 => p \in short'
  BY <1>2 DEF Drifted
<1>8. short \subseteq short' /\ uv'[h].slot[s] = new
  BY <1>2, <1>6
<1>9. /\ thing' \in [Things -> ThingObjects]
      /\ \A p \in Objects : thing'[p].this = NoObject
      /\ CountsExact' /\ NoneFreedEarly' /\ (FrameHolds => FrameHolds')
  BY <1>1, <1>2, <1>6, <1>7, <1>8, RebindStep
<1>10. drift' \in [Objects -> -MaxDrift .. MaxDrift] /\ short' \subseteq Objects
  BY <1>2, Types DEF Drifted
<1>11. uv'[h].stage = "open" /\ uv'[h].slot["close"] = NullSlot
  <2>1. uv[h].slot["close"] = NullSlot
    BY DEF CountInv, SlotShape
  <2>2. QED
    BY <1>5, <1>6, <2>1 DEF Slots
<1>12. QED
  BY <1>1, <1>6, <1>8, <1>9, <1>10, <1>11

LEMMA PollStartKeeps ==
  ASSUME CountInv, NEW h \in Handles, NEW f, uv_poll_start(h, f)
  PROVE  KeepsInv
<1>1. /\ Defined /\ uv[h].stage = "open" /\ Callable(f)
      /\ php_uv_cb_init(h, "poll", f) /\ UNCHANGED <<asked, write, frame>>
  BY DEF uv_poll_start, Usable
<1>2. "poll" \in Slots \ {"close"}
  BY DEF Slots
<1>3. /\ thing' \in [Things -> ThingObjects]
      /\ \A o \in Objects : thing'[o].this = NoObject
      /\ CountsExact' /\ NoneFreedEarly' /\ (FrameHolds => FrameHolds')
      /\ uv' \in [Handles -> UvObjects]
      /\ drift' \in [Objects -> -MaxDrift .. MaxDrift] /\ short' \subseteq Objects
      /\ uv'[h].stage = "open" /\ uv'[h].slot["close"] = NullSlot
      /\ \A g \in Handles : g # h => uv'[g] = uv[g]
      /\ \A g \in Handles, t \in Slots : g # h \/ t # "poll" => uv'[g].slot[t] = uv[g].slot[t]
  BY <1>1, <1>2, InitSlot
<1>4. SlotShape'
  BY <1>1, <1>3, OpenShape
<1>5. AskedMatches'
  <2>1. \A g \in Handles : uv'[g].slot["send"] = uv[g].slot["send"]
    BY <1>3 DEF Slots
  <2>2. QED
    BY <1>1, <2>1 DEF CountInv, AskedMatches
<1>6. CallbackTypeOK'
  BY <1>1, <1>3, Types DEF CallbackTypeOK, ThingObjects, UvObjects, WriteObjects, Frames
<1>7. QED
  BY <1>3, <1>4, <1>5, <1>6 DEF KeepsInv, CountInv

LEMMA SendKeeps ==
  ASSUME CountInv, NEW h \in Handles, NEW f, php_uv_udp_send(h, f)
  PROVE  KeepsInv
<1> DEFINE earlier == [i \in DOMAIN asked[h] |->
                        [asked[h][i] EXCEPT !.overtaken = @ \/ asked[h][i].fn # f]]
<1>1. /\ Defined /\ uv[h].stage = "open" /\ Callable(f)
      /\ php_uv_cb_init(h, "send", f) /\ UNCHANGED <<write, frame>>
      /\ \/ asked' = [asked EXCEPT ![h] = Append(earlier, Ask(f))]
         \/ asked' = [asked EXCEPT ![h] = earlier]
  BY DEF php_uv_udp_send, Usable
<1>2. "send" \in Slots \ {"close"}
  BY DEF Slots
<1>3. /\ thing' \in [Things -> ThingObjects]
      /\ \A o \in Objects : thing'[o].this = NoObject
      /\ CountsExact' /\ NoneFreedEarly' /\ (FrameHolds => FrameHolds')
      /\ uv' \in [Handles -> UvObjects]
      /\ drift' \in [Objects -> -MaxDrift .. MaxDrift] /\ short' \subseteq Objects
      /\ uv'[h].stage = "open" /\ uv'[h].slot["close"] = NullSlot
      /\ uv'[h].slot["send"] = Fci(f)
      /\ \A g \in Handles : g # h => uv'[g] = uv[g]
  BY <1>1, <1>2, InitSlot
<1>4. f \in Functions \cup {NoFunction} /\ Fci(f).fn = f
  BY <1>1, CallableIsLive
<1>5. asked[h] \in Seq(Asks) /\ asked \in [Handles -> Seq(Asks)]
  BY Types
<1>6. ASSUME NEW i \in DOMAIN asked[h]
      PROVE  /\ earlier[i] \in Asks
             /\ earlier[i].overtaken \/ earlier[i].fn = f
  <2>1. asked[h][i] \in Asks
    BY <1>5
  <2>2. PICK b \in BOOLEAN : b = (asked[h][i].overtaken \/ asked[h][i].fn # f)
    OBVIOUS
  <2>3. earlier[i] = [asked[h][i] EXCEPT !.overtaken = b]
    BY <2>2
  <2>4. earlier[i].overtaken = b /\ earlier[i].fn = asked[h][i].fn /\ earlier[i] \in Asks
    BY <2>1, <2>3 DEF Asks
  <2>5. QED
    BY <2>2, <2>4
<1>7. earlier \in Seq(Asks) /\ Len(earlier) = Len(asked[h]) /\ DOMAIN asked[h] = 1 .. Len(earlier)
  <2>1. DOMAIN asked[h] = 1 .. Len(asked[h]) /\ Len(asked[h]) \in Nat
    BY <1>5
  <2>2. earlier \in [1 .. Len(asked[h]) -> Asks]
    BY <1>6, <2>1
  <2> HIDE DEF earlier
  <2>3. QED
    BY <2>1, <2>2
<1>8. Ask(f) \in Asks /\ Ask(f).fn = f
  BY <1>4 DEF Ask, Asks
<1>9. PICK q : /\ asked' = [asked EXCEPT ![h] = q]
               /\ q = earlier \/ q = Append(earlier, Ask(f))
  BY <1>1, Zenon
<1>10. /\ q \in Seq(Asks)
       /\ \A i \in DOMAIN q : q[i].overtaken \/ q[i].fn = f
  <2>1. CASE q = earlier
    BY <1>6, <1>7, <2>1
  <2>2. CASE q = Append(earlier, Ask(f))
    <3>1. \A i \in 1 .. Len(earlier) : earlier[i].overtaken \/ earlier[i].fn = f
      BY <1>6, <1>7, Zenon
    <3> HIDE DEF earlier
    <3>2. q \in Seq(Asks) /\ DOMAIN q = 1 .. Len(earlier) + 1 /\ Len(earlier) \in Nat
      BY <1>7, <1>8, <2>2
    <3>3. ASSUME NEW i \in DOMAIN q
          PROVE  q[i].overtaken \/ q[i].fn = f
      <4>1. CASE i = Len(earlier) + 1
        BY <1>7, <1>8, <2>2, <4>1
      <4>2. CASE i # Len(earlier) + 1
        <5>1. i \in 1 .. Len(earlier)
          BY <3>2, <3>3, <4>2
        <5>2. q[i] = earlier[i]
          BY <1>7, <1>8, <2>2, <5>1
        <5>3. QED
          BY <3>1, <5>1, <5>2
      <4>3. QED
        BY <4>1, <4>2
    <3>4. QED
      BY <3>2, <3>3
  <2>3. QED
    BY <1>9, <2>1, <2>2
<1>11. /\ asked' \in [Handles -> Seq(Asks)] /\ asked'[h] = q
       /\ \A g \in Handles : g # h => asked'[g] = asked[g]
  BY <1>5, <1>9, <1>10
<1>12. SlotShape'
  BY <1>1, <1>3, <1>11, OpenShape
<1>13. AskedMatches'
  <2>1. ASSUME NEW g \in Handles, NEW i \in DOMAIN asked'[g]
        PROVE  asked'[g][i].overtaken \/ asked'[g][i].fn = uv'[g].slot["send"].fn
    <3>1. CASE g = h
      BY <1>3, <1>4, <1>10, <1>11, <2>1, <3>1
    <3>2. CASE g # h
      BY <1>3, <1>11, <2>1, <3>2 DEF CountInv, AskedMatches
    <3>3. QED
      BY <3>1, <3>2
  <2>2. QED
    BY <1>1, <2>1 DEF CountInv, AskedMatches
<1>14. CallbackTypeOK'
  BY <1>1, <1>3, <1>11, Types DEF CallbackTypeOK, ThingObjects, UvObjects, WriteObjects, Frames
<1>15. QED
  BY <1>3, <1>12, <1>13, <1>14 DEF KeepsInv, CountInv

LEMMA CloseKeeps ==
  ASSUME CountInv, NEW h \in Handles, NEW f, uv_close(h, f)
  PROVE  KeepsInv
<1>1. PICK old, new : old = uv[h].slot["close"] /\ new = Fci(f)
  OBVIOUS
<1>2. /\ Defined /\ uv[h].stage = "open" /\ Callable(f)
      /\ Count(Rebound(old, new))
      /\ uv' = [uv EXCEPT ![h].stage = "closing", ![h].slot["close"] = new]
      /\ UNCHANGED <<asked, write, frame, drift, short>>
  BY <1>1 DEF uv_close, Usable
<1>3. "close" \in Slots
  BY DEF Slots
<1>4. new \in Callbacks /\ uv[h] \in UvObjects /\ uv[h].slot \in [Slots -> Callbacks]
      /\ uv \in [Handles -> UvObjects]
  BY <1>1, <1>2, Types, CallableIsLive DEF UvObjects
<1>5. PICK o : o = [uv[h] EXCEPT !.stage = "closing", !.slot["close"] = new]
  OBVIOUS
<1>6. uv' = [uv EXCEPT ![h] = o] /\ o \in UvObjects
  <2>1. o \in UvObjects
    BY <1>4, <1>5 DEF UvObjects
  <2>2. uv' = [uv EXCEPT ![h] = o]
    BY <1>2, <1>4, <1>5
  <2>3. QED
    BY <2>1, <2>2
<1>7. /\ o.slot["close"] = new /\ o.stage = "closing"
      /\ \A t \in Slots : t # "close" => o.slot[t] = uv[h].slot[t]
  BY <1>3, <1>4, <1>5 DEF UvObjects
<1>8. /\ uv' \in [Handles -> UvObjects] /\ uv'[h] = o
      /\ \A g \in Handles : g # h => uv'[g] = uv[g]
  BY <1>4, <1>6
<1>9. \A g \in Handles, t \in Slots : g # h \/ t # "close" => uv'[g].slot[t] = uv[g].slot[t]
  BY <1>7, <1>8
<1>10. uv'[h].slot["close"] = new
  BY <1>7, <1>8
<1>11. \A p \in Objects :
         /\ drift'[p] = drift[p] + One(old.object = p) - One(old.set /\ new.object = p)
         /\ drift'[p] < 0 => p \in short'
  <2>1. old = NullSlot
    BY <1>1, <1>2 DEF CountInv, SlotShape
  <2>2. \A p \in Objects : One(old.object = p) = 0 /\ One(old.set /\ new.object = p) = 0
    BY <2>1, CallbackAssumption DEF NullSlot, One, Things
  <2>3. \A p \in Objects : p \in Things /\ Wrong(p) = drift[p]
    BY DEF Wrong, Things
  <2>4. \A p \in Objects : drift[p] \in Int /\ (drift[p] < 0 => p \in short)
    BY <2>3, Types DEF CountInv, CountsExact
  <2>5. QED
    BY <1>2, <2>2, <2>4
<1>12. short \subseteq short'
  BY <1>2
<1>13. /\ thing' \in [Things -> ThingObjects]
       /\ \A p \in Objects : thing'[p].this = NoObject
       /\ CountsExact' /\ NoneFreedEarly' /\ (FrameHolds => FrameHolds')
  <2>1. /\ Defined /\ Callable(f) /\ Count(Rebound(old, new))
        /\ write' = write /\ frame' = frame
    BY <1>2
  <2>2. QED
    BY <1>1, <1>3, <1>9, <1>10, <1>11, <1>12, <2>1, RebindStep
<1>14. SlotShape'
  BY <1>2, <1>7, <1>8, OpenShape
<1>15. AskedMatches'
  <2>1. \A g \in Handles : uv'[g].slot["send"] = uv[g].slot["send"]
    BY <1>9 DEF Slots
  <2>2. QED
    BY <1>2, <2>1 DEF CountInv, AskedMatches
<1>16. CallbackTypeOK'
  BY <1>2, <1>8, <1>13, Types DEF CallbackTypeOK, ThingObjects, UvObjects, WriteObjects, Frames
<1>17. QED
  BY <1>13, <1>14, <1>15, <1>16 DEF KeepsInv, CountInv

-----------------------------------------------------------------------------
(* Work requests.                                                          *)

(* The worker forgets the object of its function: the reference to it is   *)
(* counted, and nobody's.                                                  *)
LEMMA WorkStartKeeps ==
  ASSUME CountInv, NEW h \in Handles, php_uv_do_callback3(h)
  PROVE  KeepsInv
<1>1. PICK old : old = uv[h].slot["work"]
  OBVIOUS
<1>2. /\ uv[h].stage = "queued" /\ Defined
      /\ uv' = [uv EXCEPT ![h].stage = "running", ![h].slot["work"].object = NoObject]
      /\ drift' = [o \in Objects |-> drift[o] + One(old.object = o)]
      /\ \A o \in Objects : drift'[o] <= MaxDrift
      /\ UNCHANGED <<thing, asked, write, frame, short>>
  BY <1>1 DEF php_uv_do_callback3
<1>3. "work" \in Slots
  BY DEF Slots
<1>4. PICK new : new = [old EXCEPT !.object = NoObject]
  OBVIOUS
<1>5. /\ old \in Callbacks /\ new \in Callbacks /\ new.fn = old.fn /\ new.object = NoObject
      /\ uv[h] \in UvObjects /\ uv[h].slot \in [Slots -> Callbacks] /\ uv \in [Handles -> UvObjects]
  <2>1. uv[h] \in UvObjects /\ uv \in [Handles -> UvObjects] /\ old \in Callbacks
    BY <1>1, <1>3, Types
  <2>2. new \in Callbacks /\ new.fn = old.fn /\ new.object = NoObject
    BY <1>4, <2>1 DEF Callbacks
  <2>3. uv[h].slot \in [Slots -> Callbacks]
    BY <2>1 DEF UvObjects
  <2>4. QED
    BY <2>1, <2>2, <2>3
<1>6. PICK o : o = [uv[h] EXCEPT !.stage = "running", !.slot["work"] = new]
  OBVIOUS
<1>7. uv' = [uv EXCEPT ![h] = o] /\ o \in UvObjects
  <2>1. o \in UvObjects
    BY <1>5, <1>6 DEF UvObjects
  <2>2. o = [uv[h] EXCEPT !.stage = "running", !.slot["work"].object = NoObject]
    BY <1>1, <1>3, <1>4, <1>5, <1>6 DEF UvObjects
  <2>3. uv' = [uv EXCEPT ![h] = o]
    BY <1>2, <1>5, <2>2
  <2>4. QED
    BY <2>1, <2>3
<1>8. /\ o.slot["work"] = new /\ o.stage = "running"
      /\ \A t \in Slots : t # "work" => o.slot[t] = uv[h].slot[t]
  BY <1>3, <1>5, <1>6 DEF UvObjects
<1>9. /\ uv' \in [Handles -> UvObjects] /\ uv'[h] = o
      /\ \A g \in Handles : g # h => uv'[g] = uv[g]
  BY <1>5, <1>7
<1>10. /\ \A g \in Handles, t \in Slots : g # h \/ t # "work" => uv'[g].slot[t] = uv[g].slot[t]
       /\ uv'[h].slot["work"] = new
  BY <1>8, <1>9
<1>11. PICK gain : gain = [n \in Things |-> Owns(new, n) - Owns(old, n)]
  OBVIOUS
<1>12. PICK delta : delta = [n \in Things |-> 0]
  OBVIOUS
<1>13. \A p \in Objects : drift[p] \in Int /\ p \in Things /\ Wrong(p) = drift[p] /\ Wrong(p)' = drift'[p]
                          /\ drift'[p] = drift[p] + One(old.object = p)
  <2>1. \A p \in Objects : p \in Things /\ Wrong(p) = drift[p] /\ Wrong(p)' = drift'[p]
    BY DEF Wrong, Things
  <2>2. QED
    BY <1>2, <2>1, Types
<1>14. ASSUME NEW n \in Things
       PROVE  /\ delta[n] \in Int /\ gain[n] \in Int /\ Wrong(n)' \in Int
              /\ IsFiniteSet(SlotsOf(n))'
              /\ Cardinality(SlotsOf(n))' = Cardinality(SlotsOf(n)) + gain[n]
              /\ delta[n] = gain[n] + (Wrong(n)' - Wrong(n))
              /\ gain[n] > 0 => thing[n].life = "live"
              /\ Wrong(n)' # Wrong(n) => thing[n].life = "live"
              /\ Wrong(n)' < 0 => n \in short'
              /\ n \in Objects => drift'[n] \in Int /\ gain[n] + drift'[n] >= drift[n]
  <2>1. PICK d \in {0, 1} : d = One(old.object = n)
    BY DEF One
  <2>2. gain[n] = -d
    <3>1. One(new.object = n) = 0 /\ One(new.fn = n) = One(old.fn = n)
      BY <1>5, CallbackAssumption DEF One
    <3>2. /\ Owns(new, n) = One(new.fn = n) + One(new.object = n)
          /\ Owns(old, n) = One(old.fn = n) + One(old.object = n)
          /\ One(old.fn = n) \in {0, 1}
      BY <1>5, FunctionOrObject
    <3>3. QED
      BY <1>11, <2>1, <3>1, <3>2
  <2>3. Wrong(n)' = Wrong(n) + d /\ Wrong(n) \in Int
    <3>1. n \notin Objects => (Wrong(n) = 0 /\ Wrong(n)' = 0 /\ d = 0)
      <4>1. n \notin Objects => n \in Functions
        BY DEF Things
      <4>2. n \notin Objects => old.object # n
        BY <1>5, <4>1, FunctionOrObject
      <4>3. QED
        BY <2>1, <4>2 DEF Wrong, One
    <3>2. QED
      BY <1>13, <2>1, <3>1
  <2>4. d = 1 => thing[n].life = "live"
    <3>1. d = 1 => n = uv[h].slot["work"].object
      BY <1>1, <2>1 DEF One
    <3>2. QED
      BY <1>2, <1>3, <3>1, ReferredIsLive
  <2>5. IsFiniteSet(SlotsOf(n))' /\ Cardinality(SlotsOf(n))' = Cardinality(SlotsOf(n)) + gain[n]
    <3>1. IsFiniteSet(SlotsOf(n)) /\ Cardinality(SlotsOf(n)) \in Nat
      BY OwnerNumbers
    <3>2. /\ IsFiniteSet(SlotsOf(n))'
          /\ Cardinality(SlotsOf(n))' = Cardinality(SlotsOf(n)) + Owns(new, n) - Owns(old, n)
      BY <1>1, <1>3, <1>10, <3>1, SlotChange
    <3>3. Owns(new, n) \in {0, 1} /\ Owns(old, n) \in {0, 1}
      BY OwnsNumber
    <3>4. QED
      BY <1>11, <3>1, <3>2, <3>3
  <2>6. Wrong(n)' < 0 => n \in short'
    <3>1. Wrong(n) < 0 => n \in short
      BY DEF CountInv, CountsExact
    <3>2. QED
      BY <1>2, <2>3, <3>1
  <2>7. n \in Objects => drift'[n] \in Int /\ gain[n] + drift'[n] >= drift[n]
    BY <1>13, <2>1, <2>2
  <2>8. delta[n] = 0
    BY <1>12
  <2>9. QED
    BY <2>2, <2>3, <2>4, <2>5, <2>6, <2>7, <2>8
<1>15. \A p \in Objects : drift'[p] \in Int /\ gain[p] + drift'[p] >= drift[p]
  BY <1>14 DEF Things
<1>16. Count(delta)
  <2>1. \A n \in Things : [thing[n] EXCEPT !.rc = @ + 0] = thing[n]
    BY Types DEF ThingObjects
  <2>2. thing = [n \in Things |-> thing[n]]
    BY Types
  <2>3. QED
    BY <1>2, <1>12, <2>1, <2>2 DEF Count
<1>17. /\ thing' \in [Things -> ThingObjects]
       /\ \A p \in Objects : thing'[p].this = NoObject
       /\ CountsExact' /\ NoneFreedEarly' /\ (FrameHolds => FrameHolds')
  <2>1. Defined /\ short \subseteq short' /\ write' = write /\ frame' = frame
    BY <1>2
  <2>2. QED
    BY <1>14, <1>15, <1>16, <2>1, SlotStep
<1>18. SlotShape'
  <2>1. SlotShape
    BY DEF CountInv
  <2>2. ASSUME NEW g \in Handles
        PROVE  /\ uv'[g].stage = "none" => \A s \in Slots : uv'[g].slot[s] = NullSlot
               /\ uv'[g].stage = "open" => uv'[g].slot["close"] = NullSlot
               /\ uv'[g].stage \in {"queued", "running", "finished"} => uv'[g].slot["work"].fn \in Functions
               /\ asked'[g] # <<>> => uv'[g].stage \in {"open", "closing"}
    <3>1. CASE g = h
      BY <1>1, <1>2, <1>5, <1>8, <1>9, <2>1, <3>1 DEF SlotShape
    <3>2. CASE g # h
      BY <1>2, <1>9, <2>1, <3>2 DEF SlotShape
    <3>3. QED
      BY <3>1, <3>2
  <2>3. ASSUME frame'.kind \in {"close", "after_work"}
        PROVE  /\ frame'.handle \in Handles
               /\ uv'[frame'.handle].stage \in {"closing", "finished"}
               /\ asked'[frame'.handle] = <<>>
    <3>1. /\ frame.handle \in Handles /\ uv[frame.handle].stage \in {"closing", "finished"}
          /\ asked[frame.handle] = <<>>
      BY <1>2, <2>1, <2>3 DEF SlotShape
    <3>2. frame.handle # h
      BY <1>2, <3>1
    <3>3. QED
      BY <1>2, <1>9, <3>1, <3>2
  <2>4. QED
    BY <2>2, <2>3 DEF SlotShape
<1>19. AskedMatches'
  <2>1. \A g \in Handles : uv'[g].slot["send"] = uv[g].slot["send"]
    BY <1>10 DEF Slots
  <2>2. UNCHANGED <<asked, write, frame>>
    BY <1>2
  <2>3. QED
    BY <2>1, <2>2 DEF CountInv, AskedMatches
<1>20. drift' \in [Objects -> -MaxDrift .. MaxDrift]
  <2>1. \A p \in Objects : drift'[p] \in -MaxDrift .. MaxDrift
    <3>1. \A p \in Objects : drift[p] \in -MaxDrift .. MaxDrift /\ One(old.object = p) \in {0, 1}
      BY Types DEF One
    <3>2. QED
      BY <1>2, <1>13, <3>1, CallbackAssumption
  <2>2. QED
    BY <1>2, <2>1
<1>21. CallbackTypeOK'
  BY <1>2, <1>9, <1>17, <1>20, Types DEF CallbackTypeOK, ThingObjects, UvObjects, WriteObjects, Frames
<1>22. QED
  BY <1>17, <1>18, <1>19, <1>21 DEF KeepsInv, CountInv

(* A work request takes two slots that were empty.                         *)
LEMMA QueueWorkKeeps ==
  ASSUME CountInv, NEW h \in Handles, NEW f \in Functions, NEW g \in Functions, uv_queue_work(h, f, g)
  PROVE  KeepsInv
<1>1. PICK c, d : c = Fci(f) /\ d = Fci(g)
  OBVIOUS
<1>2. /\ uv[h].stage = "none" /\ Defined /\ Callable(f) /\ Callable(g)
      /\ uv' = [uv EXCEPT ![h].ce = "work", ![h].stage = "queued",
                          ![h].slot["work"] = c, ![h].slot["after_work"] = d]
      /\ Count([n \in Things |-> Owns(c, n) + Owns(d, n)])
      /\ UNCHANGED <<asked, write, frame, drift, short>>
  BY <1>1 DEF uv_queue_work
<1>3. "work" \in Slots /\ "after_work" \in Slots
  BY DEF Slots
<1>4. /\ c \in Callbacks /\ c.fn = f /\ \A n \in Things : Owns(c, n) = 1 => thing[n].life = "live"
      /\ d \in Callbacks /\ \A n \in Things : Owns(d, n) = 1 => thing[n].life = "live"
  BY <1>1, <1>2, CallableIsLive
<1>5. uv[h] \in UvObjects /\ uv \in [Handles -> UvObjects] /\ uv[h].slot \in [Slots -> Callbacks]
  BY Types DEF UvObjects
<1>6. PICK o : o = [uv[h] EXCEPT !.ce = "work", !.stage = "queued",
                                 !.slot["work"] = c, !.slot["after_work"] = d]
  OBVIOUS
<1>7. uv' = [uv EXCEPT ![h] = o] /\ o \in UvObjects
  <2>1. o \in UvObjects
    BY <1>4, <1>5, <1>6 DEF UvObjects, Classes
  <2>2. uv' = [uv EXCEPT ![h] = o]
    BY <1>2, <1>5, <1>6
  <2>3. QED
    BY <2>1, <2>2
<1>8. /\ o.slot["work"] = c /\ o.slot["after_work"] = d /\ o.stage = "queued"
      /\ \A t \in Slots : t \notin {"work", "after_work"} => o.slot[t] = uv[h].slot[t]
  BY <1>3, <1>5, <1>6 DEF UvObjects
<1>9. /\ uv' \in [Handles -> UvObjects] /\ uv'[h] = o
      /\ \A k \in Handles : k # h => uv'[k] = uv[k]
  BY <1>5, <1>7
<1>10. \A t \in Slots : uv[h].slot[t] = NullSlot
  BY <1>2 DEF CountInv, SlotShape
<1>11. PICK gain : gain = [n \in Things |-> Owns(c, n) + Owns(d, n)]
  OBVIOUS
<1>12. ASSUME NEW n \in Things
       PROVE  IsFiniteSet(SlotsOf(n))' /\ Cardinality(SlotsOf(n))' = Cardinality(SlotsOf(n)) + gain[n]
  <2>1. PICK A, B, x, y : /\ A = SlotsOf(n) /\ B = SlotsOf(n)'
                          /\ x = <<h, "work">> /\ y = <<h, "after_work">>
    OBVIOUS
  <2>2. x # y /\ x \notin A /\ y \notin A
    BY <1>10, <2>1, NullOwnsNothing DEF SlotsOf
  <2>3. (x \in B <=> Owns(c, n) = 1) /\ (y \in B <=> Owns(d, n) = 1)
    <3>1. uv'[h].slot["work"] = c /\ uv'[h].slot["after_work"] = d
      BY <1>8, <1>9
    <3>2. x \in B <=> Owns(uv'[h].slot["work"], n) = 1
      BY <1>3, <2>1 DEF SlotsOf, Owns, One
    <3>3. y \in B <=> Owns(uv'[h].slot["after_work"], n) = 1
      BY <1>3, <2>1 DEF SlotsOf, Owns, One
    <3>4. QED
      BY <3>1, <3>2, <3>3
  <2>4. A \ {x} = (B \ {y}) \ {x}
    <3>1. \A k \in Handles, t \in Slots :
            <<k, t>> \notin {x, y} => uv'[k].slot[t] = uv[k].slot[t]
      BY <1>8, <1>9, <2>1
    <3>2. \A p \in Handles \X Slots : p = <<p[1], p[2]>>
      OBVIOUS
    <3>3. \A p \in Handles \X Slots : p \notin {x, y} => (p \in A <=> p \in B)
      BY <2>1, <3>1, <3>2 DEF SlotsOf, Owns, One
    <3>4. A \subseteq Handles \X Slots /\ B \subseteq Handles \X Slots
      BY <2>1 DEF SlotsOf
    <3>5. QED
      BY <2>2, <3>3, <3>4
  <2>5. IsFiniteSet(A)
    BY <2>1, OwnerNumbers
  <2>6. PICK M : M = B \ {y}
    OBVIOUS
  <2>7. /\ IsFiniteSet(M) /\ Cardinality(A) \in Nat /\ Cardinality(M) \in Nat
        /\ Cardinality(M) = Cardinality(A) + (IF x \in M THEN 1 ELSE 0)
                                            - (IF x \in A THEN 1 ELSE 0)
    BY <2>4, <2>5, <2>6, CountChange
  <2>8. M \ {y} = B \ {y}
    BY <2>6
  <2>9. /\ IsFiniteSet(B) /\ Cardinality(B) \in Nat
        /\ Cardinality(B) = Cardinality(M) + (IF y \in B THEN 1 ELSE 0)
                                            - (IF y \in M THEN 1 ELSE 0)
    BY <2>7, <2>8, CountChange
  <2>10. (x \in M <=> x \in B) /\ y \notin M
    BY <2>2, <2>6
  <2>11. Owns(c, n) \in {0, 1} /\ Owns(d, n) \in {0, 1}
    BY OwnsNumber
  <2>12. Cardinality(B) = Cardinality(A) + gain[n]
    BY <1>11, <2>2, <2>3, <2>7, <2>9, <2>10, <2>11
  <2>13. QED
    BY <2>1, <2>9, <2>12
<1>13. ASSUME NEW n \in Things
       PROVE  /\ gain[n] \in Int /\ gain[n] >= 0 /\ Wrong(n)' \in Int
              /\ gain[n] = gain[n] + (Wrong(n)' - Wrong(n))
              /\ gain[n] > 0 => thing[n].life = "live"
              /\ Wrong(n)' = Wrong(n)
              /\ Wrong(n)' < 0 => n \in short'
              /\ n \in Objects => drift'[n] \in Int /\ gain[n] + drift'[n] >= drift[n]
  <2>1. Wrong(n)' = Wrong(n) /\ Wrong(n) \in Int /\ (Wrong(n) < 0 => n \in short)
    BY <1>2, Types DEF Wrong, CountInv, CountsExact
  <2>2. Owns(c, n) \in {0, 1} /\ Owns(d, n) \in {0, 1} /\ gain[n] = Owns(c, n) + Owns(d, n)
    BY <1>11, OwnsNumber
  <2>3. n \in Objects => drift'[n] = drift[n] /\ Wrong(n) = drift[n]
    BY <1>2 DEF Wrong
  <2>4. gain[n] > 0 => thing[n].life = "live"
    BY <1>4, <2>2
  <2>5. QED
    BY <1>2, <2>1, <2>2, <2>3, <2>4
<1>14. /\ thing' \in [Things -> ThingObjects]
       /\ \A p \in Objects : thing'[p].this = NoObject
       /\ CountsExact' /\ NoneFreedEarly' /\ (FrameHolds => FrameHolds')
  <2>1. /\ Defined /\ Count(gain) /\ short \subseteq short' /\ write' = write /\ frame' = frame
    BY <1>2, <1>11
  <2>2. \A p \in Objects : drift'[p] \in Int /\ gain[p] + drift'[p] >= drift[p]
    BY <1>13 DEF Things
  <2>3. QED
    BY <1>12, <1>13, <2>1, <2>2, SlotStep
<1>15. SlotShape'
  <2>1. SlotShape
    BY DEF CountInv
  <2>2. ASSUME NEW k \in Handles
        PROVE  /\ uv'[k].stage = "none" => \A s \in Slots : uv'[k].slot[s] = NullSlot
               /\ uv'[k].stage = "open" => uv'[k].slot["close"] = NullSlot
               /\ uv'[k].stage \in {"queued", "running", "finished"} => uv'[k].slot["work"].fn \in Functions
               /\ asked'[k] # <<>> => uv'[k].stage \in {"open", "closing"}
    <3>1. CASE k = h
      BY <1>2, <1>4, <1>8, <1>9, <2>1, <3>1 DEF SlotShape
    <3>2. CASE k # h
      BY <1>2, <1>9, <2>1, <3>2 DEF SlotShape
    <3>3. QED
      BY <3>1, <3>2
  <2>3. ASSUME frame'.kind \in {"close", "after_work"}
        PROVE  /\ frame'.handle \in Handles
               /\ uv'[frame'.handle].stage \in {"closing", "finished"}
               /\ asked'[frame'.handle] = <<>>
    <3>1. /\ frame.handle \in Handles /\ uv[frame.handle].stage \in {"closing", "finished"}
          /\ asked[frame.handle] = <<>>
      BY <1>2, <2>1, <2>3 DEF SlotShape
    <3>2. frame.handle # h
      BY <1>2, <3>1
    <3>3. QED
      BY <1>2, <1>9, <3>1, <3>2
  <2>4. QED
    BY <2>2, <2>3 DEF SlotShape
<1>16. AskedMatches'
  <2>1. \A k \in Handles : uv'[k].slot["send"] = uv[k].slot["send"]
    BY <1>8, <1>9 DEF Slots
  <2>2. QED
    BY <1>2, <2>1 DEF CountInv, AskedMatches
<1>17. CallbackTypeOK'
  BY <1>2, <1>9, <1>14, Types DEF CallbackTypeOK, ThingObjects, UvObjects, WriteObjects, Frames
<1>18. QED
  BY <1>14, <1>15, <1>16, <1>17 DEF KeepsInv, CountInv

-----------------------------------------------------------------------------
(* Steps that change who owns what, but no drift: slots, writes and the    *)
(* frame own gain more of each n, and delta is gain.                       *)
LEMMA OwnStep ==
  ASSUME CountInv, Defined, NEW delta, Count(delta),
         \A n \in Things :
           /\ delta[n] \in Int /\ IsFiniteSet(SlotsOf(n))' /\ IsFiniteSet(WritesOf(n))'
           /\ delta[n] = (Cardinality(SlotsOf(n))' - Cardinality(SlotsOf(n)))
                         + (Cardinality(WritesOf(n))' - Cardinality(WritesOf(n)))
                         + (Owns(frame'.own, n) - Owns(frame.own, n))
                         + (Runs(frame'.cb.fn, n) - Runs(frame.cb.fn, n))
           /\ delta[n] > 0 => thing[n].life = "live",
         UNCHANGED <<drift, short>>
  PROVE  /\ thing' \in [Things -> ThingObjects]
         /\ \A o \in Objects : thing'[o].this = NoObject
         /\ \A n \in Things : thing'[n].life = thing[n].life
         /\ CountsExact' /\ NoneFreedEarly'
<1>1. /\ thing' \in [Things -> ThingObjects]
      /\ \A n \in Things :
           /\ thing'[n].life = thing[n].life /\ thing'[n].this = thing[n].this
           /\ thing'[n].named = thing[n].named
           /\ thing'[n].rc = thing[n].rc + delta[n]
      /\ \A n : BoundTo(n)' = BoundTo(n)
  BY CountFacts
<1>2. ASSUME NEW n \in Things
      PROVE  /\ thing'[n].life = thing[n].life
             /\ IsFiniteSet(BoundTo(n))' /\ IsFiniteSet(SlotsOf(n))' /\ IsFiniteSet(WritesOf(n))'
             /\ Owners(n)' \in Nat /\ Wrong(n)' \in Int
             /\ thing'[n].rc = thing[n].rc + (Owners(n)' - Owners(n)) + (Wrong(n)' - Wrong(n))
             /\ Owners(n)' > Owners(n) => thing[n].life = "live"
             /\ Wrong(n)' # Wrong(n) => thing[n].life = "live"
             /\ Wrong(n)' < 0 => n \in short'
  <2>1. BoundTo(n)' = BoundTo(n) /\ thing'[n].named = thing[n].named
    BY <1>1
  <2>2. /\ IsFiniteSet(BoundTo(n))'
        /\ Owners(n) \in Nat /\ Owners(n)' \in Nat
        /\ Owners(n)' = Owners(n) + (Cardinality(SlotsOf(n))' - Cardinality(SlotsOf(n)))
                                  + (Cardinality(WritesOf(n))' - Cardinality(WritesOf(n)))
                                  + (Owns(frame'.own, n) - Owns(frame.own, n))
                                  + (Runs(frame'.cb.fn, n) - Runs(frame.cb.fn, n))
    BY <2>1, OwnersChange
  <2>3. Wrong(n)' = Wrong(n) /\ Wrong(n) \in Int /\ (Wrong(n) < 0 => n \in short)
    BY Types DEF Wrong, CountInv, CountsExact
  <2>4. thing[n].rc \in Int /\ thing'[n].rc = thing[n].rc + delta[n] /\ thing'[n].life = thing[n].life
    BY <1>1, Types DEF ThingObjects
  <2>5. PICK a, b, c, d, x, y, z, w :
          /\ a = Cardinality(SlotsOf(n))' /\ b = Cardinality(SlotsOf(n))
          /\ c = Cardinality(WritesOf(n))' /\ d = Cardinality(WritesOf(n))
          /\ x = Owns(frame'.own, n) /\ y = Owns(frame.own, n)
          /\ z = Runs(frame'.cb.fn, n) /\ w = Runs(frame.cb.fn, n)
    OBVIOUS
  <2>6. a \in Nat /\ b \in Nat /\ c \in Nat /\ d \in Nat /\ x \in Nat /\ y \in Nat /\ z \in Nat /\ w \in Nat
    <3>1. b \in Nat /\ d \in Nat
      BY <2>5, OwnerNumbers
    <3>2. x \in Nat /\ y \in Nat /\ z \in Nat /\ w \in Nat
      BY <2>5 DEF Owns, Runs, One
    <3>3. PICK A, B : A = SlotsOf(n)' /\ B = WritesOf(n)'
      OBVIOUS
    <3>4. Cardinality(A) \in Nat /\ Cardinality(B) \in Nat
      BY <3>3, FS_CardinalityType
    <3>5. QED
      BY <2>5, <3>1, <3>2, <3>3, <3>4
  <2>7. Owners(n)' = Owners(n) + delta[n]
    <3>1. delta[n] = (a - b) + (c - d) + (x - y) + (z - w)
      BY <2>5
    <3>2. Owners(n)' = Owners(n) + (a - b) + (c - d) + (x - y) + (z - w)
      BY <2>2, <2>5
    <3>3. QED
      BY <2>2, <2>6, <3>1, <3>2
  <2>8. QED
    BY <2>2, <2>3, <2>4, <2>7
<1>3. CountsExact' /\ NoneFreedEarly'
  BY <1>2, CountStep
<1>4. \A o \in Objects : thing'[o].this = NoObject
  BY <1>1 DEF Things, CountInv, CallbackTypeOK
<1>5. QED
  BY <1>1, <1>3, <1>4

LEMMA SlotsSame ==
  ASSUME CountInv, NEW n \in Things, \A g \in Handles, t \in Slots : uv'[g].slot[t] = uv[g].slot[t]
  PROVE  IsFiniteSet(SlotsOf(n))' /\ Cardinality(SlotsOf(n))' - Cardinality(SlotsOf(n)) = 0
<1>1. SlotsOf(n)' = SlotsOf(n)
  BY SlotsKept
<1>2. IsFiniteSet(SlotsOf(n)) /\ Cardinality(SlotsOf(n)) \in Nat
  BY OwnerNumbers
<1>3. Cardinality(SlotsOf(n))' = Cardinality(SlotsOf(n)) /\ IsFiniteSet(SlotsOf(n))'
  BY <1>1, <1>2
<1>4. QED
  BY <1>2, <1>3

LEMMA WritesSame ==
  ASSUME CountInv, NEW n \in Things, write' = write
  PROVE  IsFiniteSet(WritesOf(n))' /\ Cardinality(WritesOf(n))' - Cardinality(WritesOf(n)) = 0
<1>1. WritesOf(n)' = WritesOf(n)
  BY WritesKept
<1>2. IsFiniteSet(WritesOf(n)) /\ Cardinality(WritesOf(n)) \in Nat
  BY OwnerNumbers
<1>3. Cardinality(WritesOf(n))' = Cardinality(WritesOf(n)) /\ IsFiniteSet(WritesOf(n))'
  BY <1>1, <1>2
<1>4. QED
  BY <1>2, <1>3

LEMMA FrameSame ==
  ASSUME NEW n \in Things, frame' = frame
  PROVE  /\ Owns(frame'.own, n) - Owns(frame.own, n) = 0
         /\ Runs(frame'.cb.fn, n) - Runs(frame.cb.fn, n) = 0
BY DEF Owns, Runs, One

LEMMA WriteKeeps ==
  ASSUME CountInv, NEW w \in Writes, NEW h \in Handles, NEW f, uv_write(w, h, f)
  PROVE  KeepsInv
<1>1. PICK c : c = Fci(f)
  OBVIOUS
<1>2. /\ Defined /\ write[w] = NoWrite /\ Callable(f)
      /\ write' = [write EXCEPT ![w] = [on |-> h, cb |-> c, ask |-> Ask(f)]]
      /\ Count([n \in Things |-> Owns(c, n)])
      /\ UNCHANGED <<uv, asked, frame, drift, short>>
  BY <1>1 DEF uv_write, Usable
<1>3. /\ c \in Callbacks /\ c.fn = f /\ f \in Functions \cup {NoFunction}
      /\ \A n \in Things : Owns(c, n) = 1 => thing[n].life = "live"
  BY <1>1, <1>2, CallableIsLive
<1>4. PICK r : r = [on |-> h, cb |-> c, ask |-> Ask(f)]
  OBVIOUS
<1>5. r \in WriteObjects /\ r.cb = c /\ r.ask.fn = f /\ r.ask \in Asks /\ r.on = h
  BY <1>3, <1>4 DEF WriteObjects, Ask, Asks
<1>6. /\ write' \in [Writes -> WriteObjects] /\ write'[w] = r
      /\ \A v \in Writes : v # w => write'[v] = write[v]
  <2>1. write \in [Writes -> WriteObjects]
    BY Types
  <2>2. QED
    BY <1>2, <1>4, <1>5, <2>1
<1>7. PICK delta : delta = [n \in Things |-> Owns(c, n)]
  OBVIOUS
<1>8. ASSUME NEW n \in Things
      PROVE  /\ delta[n] \in Int /\ IsFiniteSet(SlotsOf(n))' /\ IsFiniteSet(WritesOf(n))'
             /\ delta[n] = (Cardinality(SlotsOf(n))' - Cardinality(SlotsOf(n)))
                           + (Cardinality(WritesOf(n))' - Cardinality(WritesOf(n)))
                           + (Owns(frame'.own, n) - Owns(frame.own, n))
                           + (Runs(frame'.cb.fn, n) - Runs(frame.cb.fn, n))
             /\ delta[n] > 0 => thing[n].life = "live"
  <2>1. IsFiniteSet(SlotsOf(n))' /\ Cardinality(SlotsOf(n))' - Cardinality(SlotsOf(n)) = 0
    BY <1>2, SlotsSame
  <2>2. /\ Owns(frame'.own, n) - Owns(frame.own, n) = 0
        /\ Runs(frame'.cb.fn, n) - Runs(frame.cb.fn, n) = 0
    BY <1>2, FrameSame
  <2>3. IsFiniteSet(WritesOf(n)) /\ Owns(c, n) \in {0, 1} /\ Owns(NullSlot, n) = 0
    BY OwnerNumbers, OwnsNumber, NullOwnsNothing
  <2>4. write[w].cb = NullSlot /\ write'[w].cb = c
    BY <1>2, <1>5, <1>6 DEF NoWrite
  <2>5. /\ IsFiniteSet(WritesOf(n))'
        /\ Cardinality(WritesOf(n)) \in Nat /\ Cardinality(WritesOf(n))' \in Nat
        /\ Cardinality(WritesOf(n))' = Cardinality(WritesOf(n)) + Owns(c, n) - Owns(NullSlot, n)
    BY <1>6, <2>3, <2>4, WriteChange
  <2>6. delta[n] = Owns(c, n)
    BY <1>7
  <2>7. delta[n] > 0 => thing[n].life = "live"
    BY <1>3, <2>3, <2>6
  <2>8. QED
    BY <2>1, <2>2, <2>3, <2>5, <2>6, <2>7
<1>9. /\ thing' \in [Things -> ThingObjects]
      /\ \A o \in Objects : thing'[o].this = NoObject
      /\ \A n \in Things : thing'[n].life = thing[n].life
      /\ CountsExact' /\ NoneFreedEarly'
  <2>1. Defined /\ Count(delta) /\ UNCHANGED <<drift, short>>
    BY <1>2, <1>7
  <2>2. QED
    BY <1>8, <2>1, OwnStep
<1>10. (FrameHolds => FrameHolds')
  <2>1. \A o \in Objects : SlotsOf(o)' = SlotsOf(o) /\ o \in Things
    BY <1>2 DEF SlotsOf, Things
  <2>2. QED
    BY <1>2, <1>9, <2>1 DEF CountInv, FrameHolds
<1>11. SlotShape'
  BY <1>2 DEF CountInv, SlotShape
<1>12. AskedMatches'
  <2>1. c.fn = NoFunction => c.object = NoObject
    BY <1>1, <1>3 DEF Fci
  <2>2. \A v \in Writes : /\ write'[v].ask.fn = write'[v].cb.fn
                          /\ write'[v].cb.fn = NoFunction => write'[v].cb.object = NoObject
    BY <1>3, <1>5, <1>6, <2>1 DEF CountInv, AskedMatches
  <2>3. QED
    BY <1>2, <2>2 DEF CountInv, AskedMatches
<1>13. CallbackTypeOK'
  BY <1>2, <1>6, <1>9, Types DEF CallbackTypeOK, ThingObjects, UvObjects, WriteObjects, Frames
<1>14. QED
  BY <1>9, <1>10, <1>11, <1>12, <1>13 DEF KeepsInv, CountInv

-----------------------------------------------------------------------------
(* Calls and returns.                                                      *)

(* Nothing runs: no function is held, no callback of a write is kept.      *)
LEMMA NoFrameFacts ==
  ASSUME NEW n \in Things
  PROVE  /\ Owns(NoFrame.own, n) = 0 /\ Runs(NoFrame.cb.fn, n) = 0
         /\ NoFrame.kind = "none" /\ NoFrame.cb.object \notin Objects
         /\ NoFrame.cb = NullSlot /\ NoFrame.own = NullSlot /\ NoFrame \in Frames
<1>1. NoFrame.cb = NullSlot /\ NoFrame.own = NullSlot /\ NoFrame.kind = "none"
  BY DEF NoFrame, Frame
<1>2. Owns(NullSlot, n) = 0 /\ Runs(NoFunction, n) = 0 /\ NullSlot.fn = NoFunction
  BY NullOwnsNothing DEF NullSlot
<1>3. NullSlot.object \notin Objects
  BY CallbackAssumption DEF NullSlot, Things
<1>4. NullSlot \in Callbacks
  BY DEF NullSlot, Callbacks
<1>5. NoFrame \in Frames
  BY <1>4 DEF NoFrame, Frame, Frames, Ask, Asks
<1>6. QED
  BY <1>1, <1>2, <1>3, <1>5

(* The function that is called is held by its slot, or by the write whose  *)
(* callback the frame takes over.                                          *)
LEMMA CallStep ==
  ASSUME CountInv, LoopRuns, NEW kind \in Slots \cup {"write"}, NEW h \in Handles \cup {NoHandle},
         NEW cb \in Callbacks, NEW own \in Callbacks, NEW ask \in Asks,
         Call(kind, h, cb, own, ask),
         asked' \in [Handles -> Seq(Asks)], write' \in [Writes -> WriteObjects],
         \A n \in Things :
           /\ IsFiniteSet(WritesOf(n))'
           /\ Cardinality(WritesOf(n))' - Cardinality(WritesOf(n)) = -Owns(own, n)
           /\ n \in {cb.fn, cb.object} => thing[n].life = "live",
         own = cb \/ \E k \in Handles, t \in Slots : uv[k].slot[t] = cb,
         \A k \in Handles : asked'[k] # <<>> => asked[k] # <<>>,
         kind \in {"close", "after_work"} =>
           h \in Handles /\ uv[h].stage \in {"closing", "finished"} /\ asked'[h] = <<>>,
         ask.overtaken \/ ask.fn = cb.fn,
         \A k \in Handles : \A i \in DOMAIN asked'[k] :
           asked'[k][i].overtaken \/ asked'[k][i].fn = uv[k].slot["send"].fn,
         \A w \in Writes :
           /\ write'[w].ask.fn = write'[w].cb.fn
           /\ write'[w].cb.fn = NoFunction => write'[w].cb.object = NoObject
  PROVE  KeepsInv
<1>1. /\ frame = NoFrame /\ Defined /\ cb.fn # NoFunction
      /\ frame' = Frame(kind, h, cb, own, ask)
      /\ Count([n \in Things |-> Runs(cb.fn, n)])
      /\ UNCHANGED <<uv, drift, short>>
  BY DEF LoopRuns, Call
<1>2. /\ frame' \in Frames /\ frame'.cb = cb /\ frame'.own = own /\ frame'.ask = ask
      /\ frame'.kind = kind /\ frame'.handle = h
  BY <1>1 DEF Frame, Frames
<1>3. PICK delta : delta = [n \in Things |-> Runs(cb.fn, n)]
  OBVIOUS
<1>4. ASSUME NEW n \in Things
      PROVE  /\ delta[n] \in Int /\ IsFiniteSet(SlotsOf(n))' /\ IsFiniteSet(WritesOf(n))'
             /\ delta[n] = (Cardinality(SlotsOf(n))' - Cardinality(SlotsOf(n)))
                           + (Cardinality(WritesOf(n))' - Cardinality(WritesOf(n)))
                           + (Owns(frame'.own, n) - Owns(frame.own, n))
                           + (Runs(frame'.cb.fn, n) - Runs(frame.cb.fn, n))
             /\ delta[n] > 0 => thing[n].life = "live"
  <2>1. IsFiniteSet(SlotsOf(n))' /\ Cardinality(SlotsOf(n))' - Cardinality(SlotsOf(n)) = 0
    BY <1>1, SlotsSame
  <2>2. Owns(frame.own, n) = 0 /\ Runs(frame.cb.fn, n) = 0
    BY <1>1, NoFrameFacts
  <2>3. Owns(frame'.own, n) = Owns(own, n) /\ Runs(frame'.cb.fn, n) = Runs(cb.fn, n)
    BY <1>2 DEF Owns, Runs
  <2>4. Owns(own, n) \in {0, 1} /\ Runs(cb.fn, n) \in {0, 1} /\ (Runs(cb.fn, n) = 1 => n = cb.fn)
    BY DEF Owns, Runs, One
  <2>5. delta[n] = Runs(cb.fn, n)
    BY <1>3
  <2>6. QED
    BY <2>1, <2>2, <2>3, <2>4, <2>5
<1>5. /\ thing' \in [Things -> ThingObjects]
      /\ \A o \in Objects : thing'[o].this = NoObject
      /\ \A n \in Things : thing'[n].life = thing[n].life
      /\ CountsExact' /\ NoneFreedEarly'
  <2>1. Defined /\ Count(delta) /\ UNCHANGED <<drift, short>>
    BY <1>1, <1>3
  <2>2. QED
    BY <1>4, <2>1, OwnStep
<1>6. (FrameHolds => FrameHolds')
  <2> SUFFICES ASSUME NEW o \in Objects \ short, cb.object = o
               PROVE  /\ thing'[o].life = "live"
                      /\ own.object = o \/ Cardinality(SlotsOf(o))' + drift[o] > 0
    BY <1>1, <1>2 DEF FrameHolds
  <2>1. o \in Things /\ thing'[o].life = "live"
    BY <1>5 DEF Things
  <2>2. ASSUME NEW k \in Handles, NEW t \in Slots, uv[k].slot[t] = cb
        PROVE  Cardinality(SlotsOf(o))' + drift[o] > 0
    <3>1. <<k, t>> \in SlotsOf(o)
      BY <2>2 DEF SlotsOf, Owns, One
    <3>2. IsFiniteSet(SlotsOf(o)) /\ Cardinality(SlotsOf(o)) \in Nat
      BY <2>1, OwnerNumbers
    <3>3. Cardinality(SlotsOf(o)) > 0
      BY <3>1, <3>2, NotEmptyCounts
    <3>4. Cardinality(SlotsOf(o))' = Cardinality(SlotsOf(o))
      BY <1>1 DEF SlotsOf
    <3>5. drift[o] \in Int /\ ~(drift[o] < 0)
      <4>1. Wrong(o) = drift[o]
        BY DEF Wrong
      <4>2. QED
        BY <2>1, <4>1, Types DEF CountInv, CountsExact
    <3>6. QED
      BY <3>2, <3>3, <3>4, <3>5
  <2>3. QED
    BY <2>1, <2>2
<1>7. SlotShape'
  <2>1. SlotShape
    BY DEF CountInv
  <2>2. ASSUME NEW k \in Handles
        PROVE  /\ uv'[k].stage = "none" => \A s \in Slots : uv'[k].slot[s] = NullSlot
               /\ uv'[k].stage = "open" => uv'[k].slot["close"] = NullSlot
               /\ uv'[k].stage \in {"queued", "running", "finished"} => uv'[k].slot["work"].fn \in Functions
               /\ asked'[k] # <<>> => uv'[k].stage \in {"open", "closing"}
    BY <1>1, <2>1 DEF SlotShape
  <2>3. frame'.kind \in {"close", "after_work"} =>
          /\ frame'.handle \in Handles
          /\ uv'[frame'.handle].stage \in {"closing", "finished"}
          /\ asked'[frame'.handle] = <<>>
    BY <1>1, <1>2
  <2>4. QED
    BY <2>2, <2>3 DEF SlotShape
<1>8. AskedMatches'
  BY <1>1, <1>2 DEF AskedMatches
<1>9. CallbackTypeOK'
  BY <1>1, <1>2, <1>5, Types DEF CallbackTypeOK, ThingObjects, UvObjects, WriteObjects, Frames
<1>10. QED
  BY <1>5, <1>6, <1>7, <1>8, <1>9 DEF KeepsInv, CountInv

(* A call of the callback of a slot.                                       *)
LEMMA SlotCall ==
  ASSUME CountInv, LoopRuns, NEW h \in Handles, NEW s \in Slots, NEW ask \in Asks,
         Call(s, h, uv[h].slot[s], NullSlot, ask),
         asked' \in [Handles -> Seq(Asks)], write' = write,
         \A k \in Handles : asked'[k] # <<>> => asked[k] # <<>>,
         s \in {"close", "after_work"} =>
           uv[h].stage \in {"closing", "finished"} /\ asked'[h] = <<>>,
         ask.overtaken \/ ask.fn = uv[h].slot[s].fn,
         \A k \in Handles : \A i \in DOMAIN asked'[k] :
           asked'[k][i].overtaken \/ asked'[k][i].fn = uv[k].slot["send"].fn
  PROVE  KeepsInv
<1>1. PICK cb, own : cb = uv[h].slot[s] /\ own = NullSlot
  OBVIOUS
<1>2. cb \in Callbacks /\ own \in Callbacks
  BY <1>1, Types DEF NullSlot, Callbacks
<1>3. ASSUME NEW n \in Things
      PROVE  /\ IsFiniteSet(WritesOf(n))'
             /\ Cardinality(WritesOf(n))' - Cardinality(WritesOf(n)) = -Owns(own, n)
             /\ n \in {cb.fn, cb.object} => thing[n].life = "live"
  <2>1. n \in {cb.fn, cb.object} => thing[n].life = "live"
    BY <1>1, ReferredIsLive DEF LoopRuns
  <2>2. Owns(own, n) = 0
    BY <1>1, NullOwnsNothing
  <2>3. QED
    BY <2>1, <2>2, WritesSame
<1>4. \A w \in Writes :
        /\ write'[w].ask.fn = write'[w].cb.fn
        /\ write'[w].cb.fn = NoFunction => write'[w].cb.object = NoObject
  BY DEF CountInv, AskedMatches
<1>5. write' \in [Writes -> WriteObjects]
  BY Types
<1>6. \E k \in Handles, t \in Slots : uv[k].slot[t] = cb
  BY <1>1
<1>7. Call(s, h, cb, own, ask) /\ (ask.overtaken \/ ask.fn = cb.fn)
  BY <1>1
<1>8. QED
  BY <1>2, <1>3, <1>4, <1>5, <1>6, <1>7, CallStep

LEMMA PollCallKeeps ==
  ASSUME CountInv, NEW h \in Handles, php_uv_poll_cb(h)
  PROVE  KeepsInv
<1>1. PICK ask : ask = Ask(uv[h].slot["poll"].fn)
  OBVIOUS
<1>2. /\ LoopRuns /\ Call("poll", h, uv[h].slot["poll"], NullSlot, ask)
      /\ asked' = asked /\ write' = write
  BY <1>1 DEF php_uv_poll_cb
<1>3. "poll" \in Slots /\ uv[h].slot["poll"] \in Callbacks
  BY Types DEF Slots
<1>4. ask \in Asks /\ ask.fn = uv[h].slot["poll"].fn
  BY <1>1, <1>3 DEF Ask, Asks, Callbacks
<1>5. /\ asked' \in [Handles -> Seq(Asks)]
      /\ \A k \in Handles : asked'[k] # <<>> => asked[k] # <<>>
  BY <1>2, Types
<1>6. \A k \in Handles : \A i \in DOMAIN asked'[k] :
        asked'[k][i].overtaken \/ asked'[k][i].fn = uv[k].slot["send"].fn
  BY <1>2 DEF CountInv, AskedMatches
<1>7. QED
  BY <1>2, <1>3, <1>4, <1>5, <1>6, SlotCall

(* Only what is asked, or is answered without a callback, changes.         *)
LEMMA AnswerStep ==
  ASSUME CountInv, asked' \in [Handles -> Seq(Asks)],
         \A k \in Handles : asked'[k] # <<>> => asked[k] # <<>>,
         \A k \in Handles : \A i \in DOMAIN asked'[k] :
           asked'[k][i].overtaken \/ asked'[k][i].fn = uv[k].slot["send"].fn,
         frame = NoFrame,
         UNCHANGED <<thing, uv, write, frame, drift, short>>
  PROVE  KeepsInv
<1>1. \A n : /\ SlotsOf(n)' = SlotsOf(n) /\ WritesOf(n)' = WritesOf(n) /\ BoundTo(n)' = BoundTo(n)
             /\ Wrong(n)' = Wrong(n)
  BY DEF SlotsOf, WritesOf, BoundTo, Wrong
<1>2. \A n \in Things : Owners(n)' = Owners(n)
  BY <1>1 DEF Owners
<1>3. CallbackTypeOK'
  BY DEF CountInv, CallbackTypeOK
<1>4. SlotShape'
  BY DEF CountInv, SlotShape, NoFrame, Frame
<1>5. AskedMatches'
  BY DEF CountInv, AskedMatches
<1>6. CountsExact' /\ NoneFreedEarly' /\ (FrameHolds => FrameHolds')
  BY <1>1, <1>2 DEF CountInv, CountsExact, NoneFreedEarly, Dangling, FrameHolds
<1>7. QED
  BY <1>3, <1>4, <1>5, <1>6 DEF KeepsInv, CountInv

LEMMA SendCallKeeps ==
  ASSUME CountInv, NEW h \in Handles, php_uv_udp_send_cb(h)
  PROVE  KeepsInv
<1>1. PICK ask, q : ask = Head(asked[h]) /\ q = Tail(asked[h])
  OBVIOUS
<1>2. /\ LoopRuns /\ asked[h] # <<>> /\ write' = write
      /\ asked' = [asked EXCEPT ![h] = q]
      /\ \/ Call("send", h, uv[h].slot["send"], NullSlot, ask)
         \/ UNCHANGED <<thing, uv, frame, drift, short>>
  BY <1>1 DEF php_uv_udp_send_cb
<1>3. asked[h] \in Seq(Asks) /\ asked \in [Handles -> Seq(Asks)]
  BY Types
<1>4. /\ ask \in Asks /\ ask = asked[h][1] /\ 1 \in DOMAIN asked[h]
      /\ q \in Seq(Asks) /\ \A i \in DOMAIN q : q[i] = asked[h][i + 1] /\ i + 1 \in DOMAIN asked[h]
  BY <1>1, <1>2, <1>3
<1>5. /\ asked' \in [Handles -> Seq(Asks)] /\ asked'[h] = q
      /\ \A k \in Handles : k # h => asked'[k] = asked[k]
  BY <1>2, <1>3, <1>4
<1>6. \A i \in DOMAIN asked[h] : asked[h][i].overtaken \/ asked[h][i].fn = uv[h].slot["send"].fn
  BY DEF CountInv, AskedMatches
<1>7. ask.overtaken \/ ask.fn = uv[h].slot["send"].fn
  BY <1>4, <1>6
<1>8. ASSUME NEW k \in Handles, NEW i \in DOMAIN asked'[k]
      PROVE  asked'[k][i].overtaken \/ asked'[k][i].fn = uv[k].slot["send"].fn
  <2>1. CASE k = h
    BY <1>4, <1>5, <1>6, <1>8, <2>1
  <2>2. CASE k # h
    BY <1>5, <1>8, <2>2 DEF CountInv, AskedMatches
  <2>3. QED
    BY <2>1, <2>2
<1>9. \A k \in Handles : asked'[k] # <<>> => asked[k] # <<>>
  BY <1>2, <1>5
<1>10. "send" \in Slots /\ "send" \notin {"close", "after_work"}
  BY DEF Slots
<1>11. CASE Call("send", h, uv[h].slot["send"], NullSlot, ask)
  <2>1. /\ LoopRuns /\ write' = write /\ ask \in Asks /\ asked' \in [Handles -> Seq(Asks)]
    BY <1>2, <1>4, <1>5
  <2>2. QED
    BY <1>7, <1>8, <1>9, <1>10, <1>11, <2>1, SlotCall
<1>12. CASE UNCHANGED <<thing, uv, frame, drift, short>>
  <2>1. frame = NoFrame /\ write' = write
    BY <1>2 DEF LoopRuns
  <2>2. QED
    BY <1>5, <1>8, <1>9, <1>12, <2>1, AnswerStep
<1>13. QED
  BY <1>2, <1>11, <1>12

LEMMA WriteCallKeeps ==
  ASSUME CountInv, NEW w \in Writes, php_uv_write_cb(w)
  PROVE  KeepsInv
<1>1. PICK cb, sock, ask : cb = write[w].cb /\ sock = write[w].on /\ ask = write[w].ask
  OBVIOUS
<1>2. /\ LoopRuns /\ asked' = asked
      /\ write' = [write EXCEPT ![w] = NoWrite]
      /\ \/ Call("write", sock, cb, cb, ask)
         \/ cb.fn = NoFunction /\ UNCHANGED <<thing, uv, frame, drift, short>>
  BY <1>1 DEF php_uv_write_cb
<1>3. write[w] \in WriteObjects /\ write \in [Writes -> WriteObjects]
  BY Types
<1>4. cb \in Callbacks /\ sock \in Handles \cup {NoHandle} /\ ask \in Asks /\ ask.fn = cb.fn
  BY <1>1, <1>3 DEF WriteObjects, CountInv, AskedMatches
<1>5. NoWrite \in WriteObjects /\ NoWrite.cb = NullSlot /\ NoWrite.ask.fn = NullSlot.fn
  BY DEF NoWrite, WriteObjects, NullSlot, Callbacks, Ask, Asks
<1>6. /\ write' \in [Writes -> WriteObjects] /\ write'[w] = NoWrite
      /\ \A v \in Writes : v # w => write'[v] = write[v]
  BY <1>2, <1>3, <1>5
<1>7. ASSUME NEW n \in Things
      PROVE  /\ IsFiniteSet(WritesOf(n))'
             /\ Cardinality(WritesOf(n))' - Cardinality(WritesOf(n)) = -Owns(cb, n)
             /\ n \in {cb.fn, cb.object} => thing[n].life = "live"
  <2>1. n \in {cb.fn, cb.object} => thing[n].life = "live"
    BY <1>1, <1>2, ReferredIsLive DEF LoopRuns
  <2>2. IsFiniteSet(WritesOf(n)) /\ Owns(cb, n) \in {0, 1} /\ Owns(NullSlot, n) = 0
    BY OwnerNumbers, OwnsNumber, NullOwnsNothing
  <2>3. /\ IsFiniteSet(WritesOf(n))'
        /\ Cardinality(WritesOf(n)) \in Nat /\ Cardinality(WritesOf(n))' \in Nat
        /\ Cardinality(WritesOf(n))' = Cardinality(WritesOf(n)) + Owns(NullSlot, n) - Owns(cb, n)
    BY <1>1, <1>5, <1>6, <2>2, WriteChange
  <2>4. QED
    BY <2>1, <2>2, <2>3
<1>8. \A v \in Writes :
        /\ write'[v].ask.fn = write'[v].cb.fn
        /\ write'[v].cb.fn = NoFunction => write'[v].cb.object = NoObject
  BY <1>5, <1>6 DEF CountInv, AskedMatches, NullSlot
<1>9. \A k \in Handles : \A i \in DOMAIN asked'[k] :
        asked'[k][i].overtaken \/ asked'[k][i].fn = uv[k].slot["send"].fn
  BY <1>2 DEF CountInv, AskedMatches
<1>10. CASE Call("write", sock, cb, cb, ask)
  <2>1. /\ LoopRuns /\ asked' \in [Handles -> Seq(Asks)] /\ write' \in [Writes -> WriteObjects]
        /\ \A k \in Handles : asked'[k] # <<>> => asked[k] # <<>>
    BY <1>2, <1>6, Types
  <2>2. "write" \notin {"close", "after_work"} /\ "write" \in Slots \cup {"write"}
    OBVIOUS
  <2>3. QED
    BY <1>4, <1>7, <1>8, <1>9, <1>10, <2>1, <2>2, CallStep
<1>11. CASE cb.fn = NoFunction /\ UNCHANGED <<thing, uv, frame, drift, short>>
  <2>1. PICK delta : delta = [n \in Things |-> 0]
    OBVIOUS
  <2>2. cb.object = NoObject /\ frame = NoFrame
    BY <1>1, <1>2, <1>11 DEF CountInv, AskedMatches, LoopRuns
  <2>3. ASSUME NEW n \in Things
        PROVE  /\ delta[n] \in Int /\ IsFiniteSet(SlotsOf(n))' /\ IsFiniteSet(WritesOf(n))'
               /\ delta[n] = (Cardinality(SlotsOf(n))' - Cardinality(SlotsOf(n)))
                             + (Cardinality(WritesOf(n))' - Cardinality(WritesOf(n)))
                             + (Owns(frame'.own, n) - Owns(frame.own, n))
                             + (Runs(frame'.cb.fn, n) - Runs(frame.cb.fn, n))
               /\ delta[n] > 0 => thing[n].life = "live"
    <3>1. Owns(cb, n) = 0
      BY <1>11, <2>2, CallbackAssumption DEF Owns, One
    <3>2. IsFiniteSet(WritesOf(n))' /\ Cardinality(WritesOf(n))' - Cardinality(WritesOf(n)) = 0
      BY <1>7, <3>1
    <3>3. IsFiniteSet(SlotsOf(n))' /\ Cardinality(SlotsOf(n))' - Cardinality(SlotsOf(n)) = 0
      BY <1>11, SlotsSame
    <3>4. /\ Owns(frame'.own, n) - Owns(frame.own, n) = 0
          /\ Runs(frame'.cb.fn, n) - Runs(frame.cb.fn, n) = 0
      BY <1>11, FrameSame
    <3>5. delta[n] = 0
      BY <2>1
    <3>6. QED
      BY <3>2, <3>3, <3>4, <3>5
  <2>4. Count(delta)
    <3>1. \A n \in Things : [thing[n] EXCEPT !.rc = @ + 0] = thing[n]
      BY Types DEF ThingObjects
    <3>2. thing = [n \in Things |-> thing[n]]
      BY Types
    <3>3. QED
      BY <1>11, <2>1, <3>1, <3>2 DEF Count
  <2>5. CountsExact' /\ NoneFreedEarly'
    <3>1. Defined /\ UNCHANGED <<drift, short>>
      BY <1>2, <1>11 DEF LoopRuns
    <3>2. QED
      BY <2>3, <2>4, <3>1, OwnStep
  <2>6. CallbackTypeOK'
    BY <1>2, <1>6, <1>11, Types
       DEF CountInv, CallbackTypeOK, ThingObjects, UvObjects, WriteObjects, Frames
  <2>7. SlotShape' /\ (FrameHolds => FrameHolds')
    <3>1. NoFrame.kind = "none" /\ NoFrame.cb.object = NoObject
      BY DEF NoFrame, Frame, NullSlot
    <3>2. SlotShape'
      BY <1>2, <1>11, <2>2, <3>1 DEF CountInv, SlotShape
    <3>3. (FrameHolds => FrameHolds')
      BY <1>11, <2>2, <3>1, CallbackAssumption DEF FrameHolds, Things
    <3>4. QED
      BY <3>2, <3>3
  <2>8. AskedMatches'
    BY <1>2, <1>8, <1>9, <1>11 DEF CountInv, AskedMatches
  <2>9. QED
    BY <2>5, <2>6, <2>7, <2>8 DEF KeepsInv, CountInv
<1>12. QED
  BY <1>2, <1>10, <1>11

LEMMA CleanLoses ==
  ASSUME NEW h \in Handles, NEW n \in Things
  PROVE  ~(clean_uv_handle(h)[n] > 0)
<1>1. PICK S : S = {s \in Slots : Owns(uv[h].slot[s], n) = 1}
  OBVIOUS
<1>2. clean_uv_handle(h)[n] = -Cardinality(S)
  BY <1>1 DEF clean_uv_handle
<1>3. IsFiniteSet(Slots)
  <2>1. IsFiniteSet({}) /\ \A A, x : IsFiniteSet(A) => IsFiniteSet(A \cup {x})
    BY FS_EmptySet, FS_AddElement
  <2>2. IsFiniteSet(((((({} \cup {"poll"}) \cup {"send"}) \cup {"close"}) \cup {"work"}) \cup {"after_work"}))
    BY <2>1, Zenon
  <2>3. Slots = ((((({} \cup {"poll"}) \cup {"send"}) \cup {"close"}) \cup {"work"}) \cup {"after_work"})
    BY DEF Slots
  <2>4. QED
    BY <2>2, <2>3, Zenon
<1>4. Cardinality(S) \in Nat
  BY <1>1, <1>3, FS_Subset, FS_CardinalityType
<1>5. QED
  BY <1>2, <1>4

(* The slots of a handle whose last callback is over are released.         *)
LEMMA CleanedFacts ==
  ASSUME CountInv, NEW h \in Handles, uv' = [uv EXCEPT ![h] = Cleaned(h)]
  PROVE  /\ uv' \in [Handles -> UvObjects] /\ uv'[h].stage = "closed"
         /\ \A s \in Slots : uv'[h].slot[s] = NullSlot
         /\ \A g \in Handles : g # h => uv'[g] = uv[g]
         /\ \A g \in Handles, t \in Slots : g # h => uv'[g].slot[t] = uv[g].slot[t]
<1>1. uv \in [Handles -> UvObjects] /\ uv[h] \in UvObjects
  BY Types
<1>2. PICK o : o = Cleaned(h)
  OBVIOUS
<1>3. NullSlot \in Callbacks
  BY DEF NullSlot, Callbacks
<1>4. o \in UvObjects /\ o.stage = "closed" /\ o.slot = [s \in Slots |-> NullSlot]
  BY <1>1, <1>2, <1>3 DEF Cleaned, UvObjects
<1>5. uv' \in [Handles -> UvObjects] /\ uv'[h] = o /\ \A g \in Handles : g # h => uv'[g] = uv[g]
  BY <1>1, <1>2, <1>4
<1>6. QED
  BY <1>4, <1>5

LEMMA CleanSteps ==
  ASSUME CountInv, NEW h \in Handles, asked[h] = <<>>,
         uv[h].stage \in {"closing", "finished"},
         uv' = [uv EXCEPT ![h] = Cleaned(h)], UNCHANGED <<asked, write>>,
         frame' = NoFrame
  PROVE  SlotShape' /\ AskedMatches' /\ (FrameHolds => FrameHolds')
<1>1. /\ uv'[h].stage = "closed"
      /\ \A g \in Handles : g # h => uv'[g] = uv[g]
  BY CleanedFacts
<1>2. /\ NoFrame.kind = "none" /\ NoFrame.cb.object = NoObject
      /\ NoFrame.ask.fn = NoFrame.cb.fn
  BY DEF NoFrame, Frame, NullSlot, Ask
<1>3. SlotShape'
  <2>1. SlotShape
    BY DEF CountInv
  <2>2. ASSUME NEW k \in Handles
        PROVE  /\ uv'[k].stage = "none" => \A s \in Slots : uv'[k].slot[s] = NullSlot
               /\ uv'[k].stage = "open" => uv'[k].slot["close"] = NullSlot
               /\ uv'[k].stage \in {"queued", "running", "finished"} => uv'[k].slot["work"].fn \in Functions
               /\ asked'[k] # <<>> => uv'[k].stage \in {"open", "closing"}
    <3>1. CASE k = h
      BY <1>1, <3>1
    <3>2. CASE k # h
      BY <1>1, <2>1, <3>2 DEF SlotShape
    <3>3. QED
      BY <3>1, <3>2
  <2>3. frame'.kind \notin {"close", "after_work"}
    BY <1>2
  <2>4. QED
    BY <2>2, <2>3 DEF SlotShape
<1>4. AskedMatches'
  <2>1. ASSUME NEW k \in Handles, NEW i \in DOMAIN asked'[k]
        PROVE  asked'[k][i].overtaken \/ asked'[k][i].fn = uv'[k].slot["send"].fn
    <3>1. CASE k = h
      BY <2>1, <3>1
    <3>2. CASE k # h
      BY <1>1, <2>1, <3>2 DEF CountInv, AskedMatches
    <3>3. QED
      BY <3>1, <3>2
  <2>2. QED
    BY <1>2, <2>1 DEF CountInv, AskedMatches
<1>5. (FrameHolds => FrameHolds')
  BY <1>2, CallbackAssumption DEF FrameHolds, Things
<1>6. QED
  BY <1>3, <1>4, <1>5

LEMMA LastCallKeeps ==
  ASSUME CountInv, NEW h \in Handles, php_uv_close_cb(h) \/ php_uv_after_work_cb(h)
  PROVE  KeepsInv
<1>1. PICK s \in {"close", "after_work"} :
        /\ LoopRuns /\ asked' = asked /\ write' = write
        /\ uv[h].stage \in {"closing", "finished"}
        /\ s = "close" => ~InFlight(h)
        /\ s = "after_work" => uv[h].stage = "finished"
        /\ \/ Call(s, h, uv[h].slot[s], NullSlot, Ask(uv[h].slot[s].fn))
           \/ /\ Count(clean_uv_handle(h)) /\ uv' = [uv EXCEPT ![h] = Cleaned(h)]
              /\ UNCHANGED <<frame, drift, short>>
  BY DEF php_uv_close_cb, php_uv_after_work_cb, LastCallback
<1>2. s \in Slots
  BY DEF Slots
<1>3. asked[h] = <<>>
  BY <1>1 DEF InFlight, CountInv, SlotShape
<1>4. CASE Call(s, h, uv[h].slot[s], NullSlot, Ask(uv[h].slot[s].fn))
  <2>1. PICK ask : ask = Ask(uv[h].slot[s].fn)
    OBVIOUS
  <2>2. uv[h].slot[s] \in Callbacks
    BY <1>2, Types
  <2>3. ask \in Asks /\ ask.fn = uv[h].slot[s].fn
    BY <2>1, <2>2 DEF Ask, Asks, Callbacks
  <2>4. /\ asked' \in [Handles -> Seq(Asks)] /\ write' = write /\ LoopRuns
        /\ \A k \in Handles : asked'[k] # <<>> => asked[k] # <<>>
        /\ uv[h].stage \in {"closing", "finished"} /\ asked'[h] = <<>>
    BY <1>1, <1>3, Types
  <2>5. \A k \in Handles : \A i \in DOMAIN asked'[k] :
          asked'[k][i].overtaken \/ asked'[k][i].fn = uv[k].slot["send"].fn
    BY <1>1 DEF CountInv, AskedMatches
  <2>6. Call(s, h, uv[h].slot[s], NullSlot, ask)
    BY <1>4, <2>1
  <2>7. QED
    BY <1>2, <2>3, <2>4, <2>5, <2>6, SlotCall
<1>5. CASE /\ Count(clean_uv_handle(h)) /\ uv' = [uv EXCEPT ![h] = Cleaned(h)]
           /\ UNCHANGED <<frame, drift, short>>
  <2>1. /\ uv' \in [Handles -> UvObjects]
        /\ \A t \in Slots : uv'[h].slot[t] = NullSlot
        /\ \A g \in Handles, t \in Slots : g # h => uv'[g].slot[t] = uv[g].slot[t]
    BY <1>5, CleanedFacts
  <2>2. PICK delta : delta = clean_uv_handle(h)
    OBVIOUS
  <2>3. ASSUME NEW n \in Things
        PROVE  /\ delta[n] \in Int /\ IsFiniteSet(SlotsOf(n))' /\ IsFiniteSet(WritesOf(n))'
               /\ delta[n] = (Cardinality(SlotsOf(n))' - Cardinality(SlotsOf(n)))
                             + (Cardinality(WritesOf(n))' - Cardinality(WritesOf(n)))
                             + (Owns(frame'.own, n) - Owns(frame.own, n))
                             + (Runs(frame'.cb.fn, n) - Runs(frame.cb.fn, n))
               /\ delta[n] > 0 => thing[n].life = "live"
    <3>1. IsFiniteSet(SlotsOf(n))
      BY OwnerNumbers
    <3>2. /\ IsFiniteSet(SlotsOf(n))'
          /\ Cardinality(SlotsOf(n)) \in Nat /\ Cardinality(SlotsOf(n))' \in Nat
          /\ Cardinality(SlotsOf(n))' = Cardinality(SlotsOf(n)) + delta[n]
          /\ delta[n] \in Int
      BY <2>1, <2>2, <3>1, CleanChange
    <3>3. IsFiniteSet(WritesOf(n))' /\ Cardinality(WritesOf(n))' - Cardinality(WritesOf(n)) = 0
      BY <1>1, WritesSame
    <3>4. /\ Owns(frame'.own, n) - Owns(frame.own, n) = 0
          /\ Runs(frame'.cb.fn, n) - Runs(frame.cb.fn, n) = 0
      BY <1>5, FrameSame
    <3>5. ~(delta[n] > 0)
      BY <2>2, CleanLoses
    <3>6. QED
      BY <3>2, <3>3, <3>4, <3>5
  <2>4. /\ thing' \in [Things -> ThingObjects]
        /\ \A o \in Objects : thing'[o].this = NoObject
        /\ CountsExact' /\ NoneFreedEarly'
    <3>1. Defined /\ Count(delta) /\ UNCHANGED <<drift, short>>
      BY <1>1, <1>5, <2>2 DEF LoopRuns
    <3>2. QED
      BY <2>3, <3>1, OwnStep
  <2>5. SlotShape' /\ AskedMatches' /\ (FrameHolds => FrameHolds')
    <3>1. frame' = NoFrame /\ UNCHANGED <<asked, write>>
      BY <1>1, <1>5 DEF LoopRuns
    <3>2. QED
      BY <1>1, <1>3, <1>5, <3>1, CleanSteps
  <2>6. CallbackTypeOK'
    BY <1>1, <1>5, <2>1, <2>4, Types DEF CallbackTypeOK, ThingObjects, UvObjects, WriteObjects, Frames
  <2>7. QED
    BY <2>4, <2>5, <2>6 DEF KeepsInv, CountInv
<1>6. QED
  BY <1>1, <1>4, <1>5

LEMMA ReturnKeeps ==
  ASSUME CountInv, ReturnFromCallback
  PROVE  KeepsInv
<1> DEFINE last == frame.kind \in {"close", "after_work"}
<1>1. PICK h, delta :
        /\ h = frame.handle
        /\ delta = [n \in Things |->
             -Runs(frame.cb.fn, n) - Owns(frame.own, n) + (IF last THEN clean_uv_handle(h)[n] ELSE 0)]
  OBVIOUS
<1>2. /\ Defined /\ frame' = NoFrame /\ Count(delta)
      /\ last => uv' = [uv EXCEPT ![h] = Cleaned(h)]
      /\ ~last => uv' = uv
      /\ UNCHANGED <<asked, write, drift, short>>
  BY <1>1 DEF ReturnFromCallback
<1>3. last => h \in Handles /\ uv[h].stage \in {"closing", "finished"} /\ asked[h] = <<>>
  BY <1>1 DEF CountInv, SlotShape
<1>4. uv' \in [Handles -> UvObjects]
  BY <1>2, <1>3, CleanedFacts, Types
<1>5. ASSUME NEW n \in Things
      PROVE  /\ delta[n] \in Int /\ IsFiniteSet(SlotsOf(n))' /\ IsFiniteSet(WritesOf(n))'
             /\ delta[n] = (Cardinality(SlotsOf(n))' - Cardinality(SlotsOf(n)))
                           + (Cardinality(WritesOf(n))' - Cardinality(WritesOf(n)))
                           + (Owns(frame'.own, n) - Owns(frame.own, n))
                           + (Runs(frame'.cb.fn, n) - Runs(frame.cb.fn, n))
             /\ delta[n] > 0 => thing[n].life = "live"
  <2>1. PICK clean : clean = IF last THEN clean_uv_handle(h)[n] ELSE 0
    OBVIOUS
  <2>2. /\ IsFiniteSet(SlotsOf(n))'
        /\ Cardinality(SlotsOf(n))' - Cardinality(SlotsOf(n)) = clean
        /\ clean \in Int /\ ~(clean > 0)
    <3>1. CASE last
      <4>1. /\ h \in Handles
            /\ \A t \in Slots : uv'[h].slot[t] = NullSlot
            /\ \A g \in Handles, t \in Slots : g # h => uv'[g].slot[t] = uv[g].slot[t]
        BY <1>2, <1>3, <3>1, CleanedFacts
      <4>2. IsFiniteSet(SlotsOf(n)) /\ clean = clean_uv_handle(h)[n]
        BY <2>1, <3>1, OwnerNumbers
      <4>3. /\ IsFiniteSet(SlotsOf(n))'
            /\ Cardinality(SlotsOf(n)) \in Nat /\ Cardinality(SlotsOf(n))' \in Nat
            /\ Cardinality(SlotsOf(n))' = Cardinality(SlotsOf(n)) + clean
            /\ clean \in Int
        BY <4>1, <4>2, CleanChange
      <4>4. ~(clean > 0)
        BY <4>1, <4>2, CleanLoses
      <4>5. QED
        BY <4>3, <4>4
    <3>2. CASE ~last
      BY <1>2, <2>1, <3>2, SlotsSame
    <3>3. QED
      BY <3>1, <3>2
  <2>3. IsFiniteSet(WritesOf(n))' /\ Cardinality(WritesOf(n))' - Cardinality(WritesOf(n)) = 0
    BY <1>2, WritesSame
  <2>4. Owns(frame'.own, n) = 0 /\ Runs(frame'.cb.fn, n) = 0
    BY <1>2, NoFrameFacts
  <2>5. Owns(frame.own, n) \in {0, 1} /\ Runs(frame.cb.fn, n) \in {0, 1}
    BY OwnerNumbers
  <2>6. delta[n] = -Runs(frame.cb.fn, n) - Owns(frame.own, n) + clean
    BY <1>1, <2>1
  <2>7. QED
    BY <2>2, <2>3, <2>4, <2>5, <2>6
<1>6. /\ thing' \in [Things -> ThingObjects]
      /\ \A o \in Objects : thing'[o].this = NoObject
      /\ CountsExact' /\ NoneFreedEarly'
  <2>1. UNCHANGED <<drift, short>>
    BY <1>2
  <2>2. QED
    BY <1>2, <1>5, <2>1, OwnStep
<1>7. SlotShape' /\ AskedMatches' /\ (FrameHolds => FrameHolds')
  <2>1. CASE last
    <3>1. frame' = NoFrame /\ UNCHANGED <<asked, write>>
      BY <1>2
    <3>2. QED
      BY <1>2, <1>3, <2>1, <3>1, CleanSteps
  <2>2. CASE ~last
    <3>1. /\ NoFrame.kind = "none" /\ NoFrame.cb.object = NoObject
          /\ NoFrame.ask.fn = NoFrame.cb.fn
      BY DEF NoFrame, Frame, NullSlot, Ask
    <3>2. SlotShape' /\ AskedMatches'
      BY <1>2, <2>2, <3>1 DEF CountInv, SlotShape, AskedMatches
    <3>3. (FrameHolds => FrameHolds')
      BY <1>2, <3>1, CallbackAssumption DEF FrameHolds, Things
    <3>4. QED
      BY <3>2, <3>3
  <2>3. QED
    BY <2>1, <2>2
<1>8. CallbackTypeOK'
  <2>1. frame' \in Frames
    <3>1. NullSlot \in Callbacks /\ Ask(NoFunction) \in Asks
      BY DEF NullSlot, Callbacks, Ask, Asks
    <3>2. QED
      BY <1>2, <3>1 DEF NoFrame, Frame, Frames
  <2>2. QED
    BY <1>2, <1>4, <1>6, <2>1, Types DEF CallbackTypeOK, ThingObjects, UvObjects, WriteObjects, Frames
<1>9. QED
  BY <1>6, <1>7, <1>8 DEF KeepsInv, CountInv

-----------------------------------------------------------------------------
(* The invariant.                                                          *)

LEMMA CallbackInit == Init => CallbackInv
<1> SUFFICES ASSUME Init PROVE CallbackInv
  OBVIOUS
<1>1. /\ NullSlot \in Callbacks /\ NoFrame \in Frames /\ Absent \in ThingObjects
      /\ NoWrite \in WriteObjects
  <2>1. NullSlot \in Callbacks /\ Ask(NoFunction) \in Asks
    BY DEF NullSlot, Callbacks, Ask, Asks
  <2>2. NoFrame \in Frames /\ NoWrite \in WriteObjects
    BY <2>1 DEF NoFrame, Frame, Frames, NoWrite, WriteObjects
  <2>3. PICK b \in BOOLEAN : b = FALSE
    OBVIOUS
  <2>4. Absent = [life |-> "none", rc |-> 0, named |-> b, this |-> NoObject]
    BY <2>3 DEF Absent
  <2>5. QED
    BY <2>1, <2>2, <2>4 DEF ThingObjects
<1>2. /\ thing \in [Things -> ThingObjects] /\ \A n \in Things : thing[n] = Absent
      /\ write \in [Writes -> WriteObjects] /\ \A w \in Writes : write[w] = NoWrite
      /\ frame = NoFrame
  BY <1>1 DEF Init
<1>3. PICK r : r = [ce |-> "none", stage |-> "none", slot |-> [s \in Slots |-> NullSlot]]
  OBVIOUS
<1>4. /\ uv \in [Handles -> UvObjects]
      /\ \A h \in Handles : uv[h] = r
      /\ r.stage = "none" /\ \A s \in Slots : r.slot[s] = NullSlot
  <2>1. r \in UvObjects /\ r.stage = "none" /\ r.slot = [s \in Slots |-> NullSlot]
    BY <1>1, <1>3 DEF UvObjects
  <2>2. uv = [h \in Handles |-> r]
    BY <1>3 DEF Init
  <2>3. QED
    BY <2>1, <2>2
<1>5. /\ asked \in [Handles -> Seq(Asks)] /\ \A h \in Handles : asked[h] = <<>>
      /\ drift \in [Objects -> -MaxDrift .. MaxDrift] /\ \A o \in Objects : drift[o] = 0
      /\ short = {}
  BY CallbackAssumption DEF Init
<1>6. CallbackTypeOK
  <2>1. \A o \in Objects : thing[o].this = NoObject
    BY <1>2 DEF Absent, Things
  <2>2. QED
    BY <1>2, <1>4, <1>5, <1>1, <2>1 DEF CallbackTypeOK, ThingObjects, UvObjects, WriteObjects, Frames
<1>7. SlotShape
  BY <1>2, <1>4, <1>5 DEF SlotShape, NoFrame, Frame
<1>8. AskedMatches
  BY <1>2, <1>5 DEF AskedMatches, NoWrite, NoFrame, Frame, Ask, NullSlot
<1>9. ASSUME NEW n \in Things
      PROVE  /\ BoundTo(n) = {} /\ SlotsOf(n) = {} /\ WritesOf(n) = {}
             /\ Owners(n) = 0 /\ Wrong(n) = 0 /\ thing[n].life = "none"
  <2>1. thing[n].life = "none" /\ One(thing[n].named) = 0
    BY <1>2 DEF Absent, One
  <2>2. BoundTo(n) = {}
    BY <1>2 DEF BoundTo, Absent, Things
  <2>3. SlotsOf(n) = {}
    BY <1>4, NullOwnsNothing DEF SlotsOf
  <2>4. WritesOf(n) = {}
    <3>1. \A w \in Writes : write[w].cb = NullSlot
      BY <1>2 DEF NoWrite
    <3>2. QED
      BY <3>1, NullOwnsNothing DEF WritesOf
  <2>5. Owns(frame.own, n) = 0 /\ Runs(frame.cb.fn, n) = 0
    BY <1>2, NoFrameFacts
  <2>6. Cardinality(BoundTo(n)) = 0 /\ Cardinality(SlotsOf(n)) = 0 /\ Cardinality(WritesOf(n)) = 0
    <3>1. Cardinality({}) = 0
      BY FS_EmptySet
    <3>2. QED
      BY <2>2, <2>3, <2>4, <3>1, Zenon
  <2>7. Owners(n) = 0
    BY <2>1, <2>5, <2>6 DEF Owners
  <2>8. Wrong(n) = 0
    BY <1>5 DEF Wrong
  <2>9. QED
    BY <2>1, <2>2, <2>3, <2>4, <2>7, <2>8
<1>10. CountsExact /\ NoneFreedEarly
  <2>1. IsFiniteSet({})
    BY FS_EmptySet
  <2>2. QED
    BY <1>9, <2>1 DEF CountsExact, NoneFreedEarly, Dangling
<1>11. FrameHolds
  <2>1. frame.cb.object = NoObject
    BY <1>2 DEF NoFrame, Frame, NullSlot
  <2>2. QED
    BY <2>1, CallbackAssumption DEF FrameHolds, Things
<1>12. QED
  BY <1>6, <1>7, <1>8, <1>10, <1>11 DEF CallbackInv, CountInv

LEMMA StutterKeeps ==
  ASSUME CountInv, UNCHANGED callbackVars
  PROVE  KeepsInv
<1>1. \A n : /\ SlotsOf(n)' = SlotsOf(n) /\ WritesOf(n)' = WritesOf(n) /\ BoundTo(n)' = BoundTo(n)
             /\ Wrong(n)' = Wrong(n)
  BY DEF SlotsOf, WritesOf, BoundTo, Wrong, callbackVars
<1>2. \A n \in Things : Owners(n)' = Owners(n)
  BY <1>1 DEF Owners, callbackVars
<1>3. QED
  BY <1>1, <1>2 DEF KeepsInv, CountInv, CallbackTypeOK, SlotShape, AskedMatches, CountsExact,
                    FrameHolds, NoneFreedEarly, Dangling, callbackVars

LEMMA CountNext == CountInv /\ [Next]_callbackVars => KeepsInv
<1> SUFFICES ASSUME CountInv, [Next]_callbackVars PROVE KeepsInv
  OBVIOUS
<1>1. CASE ThingNext
  BY <1>1, FreeKeeps, UnsetKeeps, NewObjectKeeps, NewFunctionKeeps DEF ThingNext
<1>2. CASE LoopNext
  BY <1>2, PollCallKeeps, SendCallKeeps, LastCallKeeps, WorkStartKeeps, DestructKeeps,
     WriteCallKeeps, ReturnKeeps DEF LoopNext
<1>3. ASSUME NEW h \in Handles, CallNext(h)
      PROVE  KeepsInv
  <2>1. \A ce \in {"poll", "udp", "tcp"} : ce \in Classes
    BY DEF Classes
  <2>2. CASE \E ce \in {"poll", "udp", "tcp"} : Create(h, ce)
    BY <2>1, <2>2, CreateKeeps
  <2>3. CASE destruct_uv(h)
    BY <2>3, DestructKeeps
  <2>4. ASSUME NEW f \in Functions \cup {NoFunction},
               uv_poll_start(h, f) \/ php_uv_udp_send(h, f) \/ uv_close(h, f)
        PROVE  KeepsInv
    BY <2>4, PollStartKeeps, SendKeeps, CloseKeeps
  <2>5. ASSUME NEW f \in Functions \cup {NoFunction}, NEW w \in Writes, uv_write(w, h, f)
        PROVE  KeepsInv
    BY <2>5, WriteKeeps
  <2>6. ASSUME NEW f \in Functions \cup {NoFunction}, NEW g \in Functions, uv_queue_work(h, f, g)
        PROVE  KeepsInv
    <3>1. f \in Functions
      BY <2>6 DEF uv_queue_work
    <3>2. QED
      BY <2>6, <3>1, QueueWorkKeeps
  <2>7. QED
    BY <1>3, <2>2, <2>3, <2>4, <2>5, <2>6 DEF CallNext
<1>4. CASE UNCHANGED callbackVars
  BY <1>4, StutterKeeps
<1>5. QED
  BY <1>1, <1>2, <1>3, <1>4 DEF Next

LEMMA CallbackNext == CallbackInv /\ [Next]_callbackVars => CallbackInv'
BY CountNext DEF CallbackInv, KeepsInv

(* However callbacks are put into slots, called, and replaced while they   *)
(* run: every function and object is counted for what owns it, but for     *)
(* what php_uv_cb_init mixes up, and what runs is kept.                    *)
THEOREM CallbackInvariant == Safety => []CallbackInv
<1>1. Init => CallbackInv
  BY CallbackInit
<1>2. CallbackInv /\ [Next]_callbackVars => CallbackInv'
  BY CallbackNext
<1>3. QED
  BY <1>1, <1>2, PTL DEF Safety

(* Nothing that has an owner is freed, unless php_uv_cb_init counted it    *)
(* too low.                                                                *)
THEOREM CallbackNoneFreedEarly == Safety => []NoneFreedEarly
<1>1. CallbackInv => NoneFreedEarly
  BY DEF CallbackInv, CountInv
<1>2. QED
  BY <1>1, CallbackInvariant, PTL

(* An answer calls the function its question named, unless a later send    *)
(* named another.                                                          *)
THEOREM CallbackAnsweredAsAsked == Safety => []AnsweredAsAsked
<1>1. CallbackInv => AnsweredAsAsked
  BY DEF CallbackInv, CountInv, AskedMatches, AnsweredAsAsked
<1>2. QED
  BY <1>1, CallbackInvariant, PTL

(* A function's count is never wrong, so that one that is owned is alive.  *)
LEMMA OwnedFunctionIsLive ==
  ASSUME CountInv, NEW f \in Functions, Owners(f) > 0
  PROVE  thing[f].life = "live"
<1>1. f \in Things /\ Wrong(f) = 0
  BY CallbackAssumption DEF Things, Wrong
<1>2. thing[f].life \in {"none", "live", "freed"}
  BY <1>1, Types DEF ThingObjects
<1>3. thing[f].life # "none"
  BY <1>1 DEF CountInv, CountsExact
<1>4. thing[f].life # "freed"
  BY <1>1 DEF CountInv, NoneFreedEarly, Dangling
<1>5. QED
  BY <1>2, <1>3, <1>4

(* A closure that runs is alive, so is the object it runs on unless its    *)
(* count once was too low, and a function on a worker.                     *)
THEOREM CallbackRunsAlive == Safety => []RunsAlive
<1>1. ASSUME CallbackInv
      PROVE  RunsAlive
  <2> CountInv /\ FrameHolds
    BY <1>1 DEF CallbackInv
  <2>1. ASSUME NEW n \in {frame.cb.fn, frame.cb.object} \cap (Things \ Methods)
        PROVE  thing[n].life = "live" \/ n \in short
    <3>1. n \in Things /\ frame.cb \in Callbacks
      BY Types DEF Frames
    <3>2. CASE n \in Objects
      <4>1. n = frame.cb.object
        BY <3>1, <3>2, FunctionOrObject
      <4>2. QED
        BY <3>2, <4>1 DEF FrameHolds
    <3>3. CASE n \in Functions
      <4>1. n = frame.cb.fn
        BY <3>1, <3>3, FunctionOrObject
      <4>2. Runs(frame.cb.fn, n) = 1
        BY <4>1 DEF Runs, One
      <4>3. Owners(n) > 0
        BY <3>1, <4>2, OwnerNumbers
      <4>4. QED
        BY <3>3, <4>3, OwnedFunctionIsLive
    <3>4. QED
      BY <3>1, <3>2, <3>3 DEF Things
  <2>2. ASSUME NEW h \in Handles, uv[h].stage = "running"
        PROVE  thing[uv[h].slot["work"].fn].life = "live"
    <3>1. PICK f \in Functions : f = uv[h].slot["work"].fn
      BY <2>2 DEF CountInv, SlotShape
    <3>2. f \in Things /\ <<h, "work">> \in SlotsOf(f)
      BY <3>1 DEF Things, Slots, SlotsOf, Owns, One
    <3>3. Cardinality(SlotsOf(f)) > 0
      BY <3>2, NotEmptyCounts, OwnerNumbers
    <3>4. Owners(f) > 0
      BY <3>2, <3>3, OwnerNumbers
    <3>5. QED
      BY <3>1, <3>4, OwnedFunctionIsLive
  <2>3. QED
    BY <2>1, <2>2 DEF RunsAlive
<1>2. QED
  BY <1>1, CallbackInvariant, PTL

-----------------------------------------------------------------------------
(* Garbage collection: the counts of handles and loops.                    *)

LEMMA GcTypes ==
  ASSUME GcInv
  PROVE  /\ CountInv
         /\ node \in [Nodes -> NodeObjects] /\ \A x \in Nodes : node[x] \in NodeObjects
         /\ on \in [Handles -> Loops]
         /\ \A h \in Handles : h \in Nodes /\ h \notin Loops /\ on[h] \in Loops /\ on[h] \in Nodes
         /\ \A l \in Loops : l \in Nodes /\ l \notin Handles
         /\ \A x \in Nodes : x \notin Things /\ (x \in Handles \/ x \in Loops)
         /\ DefaultLoop \in Loops
         /\ active \subseteq Handles
         /\ points \in [Things -> SUBSET Nodes] /\ \A n \in Things : points[n] \subseteq Nodes
         /\ gc_data \in [Handles -> Objects \cup {NoObject, Unwritten}]
         /\ doomed \subseteq Nodes
<1>1. /\ CountInv /\ node \in [Nodes -> NodeObjects] /\ on \in [Handles -> Loops]
      /\ active \subseteq Handles /\ points \in [Things -> SUBSET Nodes]
      /\ gc_data \in [Handles -> Objects \cup {NoObject, Unwritten}] /\ doomed \subseteq Nodes
  BY DEF GcInv, GcTypeOK
<1>2. /\ \A h \in Handles : h \in Nodes /\ h \notin Loops
      /\ \A l \in Loops : l \in Nodes /\ l \notin Handles
      /\ \A x \in Nodes : x \notin Things /\ (x \in Handles \/ x \in Loops)
      /\ DefaultLoop \in Loops
  BY GcAssumption DEF Nodes
<1>3. \A h \in Handles : on[h] \in Loops /\ on[h] \in Nodes
  BY <1>1, <1>2
<1>4. /\ \A x \in Nodes : node[x] \in NodeObjects
      /\ \A n \in Things : points[n] \subseteq Nodes
  BY <1>1
<1>5. QED
  BY <1>1, <1>2, <1>3, <1>4

(* A node that is being closed, and one that a callback runs on.           *)
ClosesNode(x) == One(x \in Handles /\ uv[x].stage = "closing")
RunsNode(x) == One(frame # NoFrame /\ (x = frame.handle \/ x = on[frame.handle]))

LEMMA OneNumber == \A b : One(b) \in {0, 1} /\ One(b) \in Int
BY DEF One

LEMMA NodeOwnerNumbers ==
  ASSUME GcInv, NEW x \in Nodes
  PROVE  /\ IsFiniteSet(Holders(x)) /\ Cardinality(Holders(x)) \in Nat
         /\ NodeOwners(x) = One(node[x].named) + One(x = DefaultLoop) + Cardinality(Holders(x))
                            + One(x \in active) + ClosesNode(x) + RunsNode(x)
         /\ NodeOwners(x) \in Nat
         /\ One(node[x].named) \in {0, 1} /\ One(x = DefaultLoop) \in {0, 1}
         /\ One(x \in active) \in {0, 1} /\ ClosesNode(x) \in {0, 1} /\ RunsNode(x) \in {0, 1}
         /\ node[x].life = "live" => node[x].rc = NodeOwners(x)
         /\ node[x].life # "live" => NodeOwners(x) = 0
<1>1. IsFiniteSet(Holders(x))
  BY DEF GcInv, NodesCounted
<1>2. Cardinality(Holders(x)) \in Nat
  BY <1>1, FS_CardinalityType
<1>3. /\ One(node[x].named) \in {0, 1} /\ One(x = DefaultLoop) \in {0, 1}
      /\ One(x \in active) \in {0, 1} /\ ClosesNode(x) \in {0, 1} /\ RunsNode(x) \in {0, 1}
  BY DEF One, ClosesNode, RunsNode
<1>4. NodeOwners(x) = One(node[x].named) + One(x = DefaultLoop) + Cardinality(Holders(x))
                      + One(x \in active) + ClosesNode(x) + RunsNode(x)
  BY DEF NodeOwners, ClosesNode, RunsNode
<1>5. /\ node[x].life = "live" => node[x].rc = NodeOwners(x)
      /\ node[x].life # "live" => NodeOwners(x) = 0
  BY DEF GcInv, NodesCounted
<1>6. QED
  BY <1>1, <1>2, <1>3, <1>4, <1>5

(* What has an owner is live.                                              *)
LEMMA OwnedNodeIsLive ==
  ASSUME GcInv, NEW x \in Nodes,
         \/ node[x].named \/ x = DefaultLoop \/ (\E n \in Things : x \in points[n])
         \/ x \in active \/ (x \in Handles /\ uv[x].stage = "closing")
         \/ frame # NoFrame /\ (x = frame.handle \/ x = on[frame.handle])
  PROVE  node[x].life = "live"
<1>1. (\E n \in Things : x \in points[n]) => Cardinality(Holders(x)) > 0
  <2>1. ASSUME NEW n \in Things, x \in points[n]
        PROVE  Cardinality(Holders(x)) > 0
    <3>1. n \in Holders(x)
      BY <2>1 DEF Holders
    <3>2. QED
      BY <3>1, NodeOwnerNumbers, NotEmptyCounts
  <2>2. QED
    BY <2>1
<1>2. /\ node[x].named => One(node[x].named) = 1
      /\ x = DefaultLoop => One(x = DefaultLoop) = 1
      /\ x \in active => One(x \in active) = 1
      /\ x \in Handles /\ uv[x].stage = "closing" => ClosesNode(x) = 1
      /\ frame # NoFrame /\ (x = frame.handle \/ x = on[frame.handle]) => RunsNode(x) = 1
  BY DEF One, ClosesNode, RunsNode
<1>3. NodeOwners(x) > 0
  BY <1>1, <1>2, NodeOwnerNumbers
<1>4. QED
  BY <1>3, NodeOwnerNumbers

(* Owners after a step.                                                    *)
LEMMA NodeOwnersChange ==
  ASSUME GcInv, NEW x \in Nodes, IsFiniteSet(Holders(x))'
  PROVE  /\ NodeOwners(x)' \in Nat
         /\ Cardinality(Holders(x))' \in Nat
         /\ NodeOwners(x)' = NodeOwners(x) + (One(node'[x].named) - One(node[x].named))
              + (Cardinality(Holders(x))' - Cardinality(Holders(x)))
              + (One(x \in active') - One(x \in active))
              + (ClosesNode(x)' - ClosesNode(x)) + (RunsNode(x)' - RunsNode(x))
<1>1. PICK H : H = Holders(x)'
  OBVIOUS
<1>2. Cardinality(H) \in Nat
  BY <1>1, FS_CardinalityType
<1>3. /\ One(node'[x].named) \in {0, 1} /\ One(x = DefaultLoop) \in {0, 1}
      /\ One(x \in active') \in {0, 1} /\ ClosesNode(x)' \in {0, 1} /\ RunsNode(x)' \in {0, 1}
  BY DEF One, ClosesNode, RunsNode
<1>4. NodeOwners(x)' = One(node'[x].named) + One(x = DefaultLoop) + Cardinality(H)
                       + One(x \in active') + ClosesNode(x)' + RunsNode(x)'
  BY <1>1 DEF NodeOwners, ClosesNode, RunsNode, One
<1>5. QED
  BY <1>1, <1>2, <1>3, <1>4, NodeOwnerNumbers

LEMMA NodeCountStep ==
  ASSUME GcInv,
         \A x \in Nodes :
           /\ node'[x].life = node[x].life
           /\ IsFiniteSet(Holders(x))'
           /\ node'[x].rc = node[x].rc + (NodeOwners(x)' - NodeOwners(x))
           /\ NodeOwners(x)' > NodeOwners(x) => node[x].life = "live"
  PROVE  NodesCounted'
<1>1. {x \in Nodes : node'[x].life # "none"} = {x \in Nodes : node[x].life # "none"}
  OBVIOUS
<1>2. IsFiniteSet({x \in Nodes : node'[x].life # "none"})
  BY <1>1 DEF GcInv, NodesCounted
<1>3. ASSUME NEW x \in Nodes
      PROVE  IF node'[x].life = "live" THEN node'[x].rc = NodeOwners(x)' ELSE NodeOwners(x)' = 0
  <2>1. PICK before, after \in Nat : before = NodeOwners(x) /\ after = NodeOwners(x)'
    BY NodeOwnerNumbers, NodeOwnersChange
  <2>2. /\ node'[x].life = node[x].life
        /\ node'[x].rc = node[x].rc + (after - before)
        /\ after > before => node[x].life = "live"
        /\ node[x].life = "live" => node[x].rc = before
        /\ node[x].life # "live" => before = 0
    BY <2>1, NodeOwnerNumbers
  <2>3. QED
    BY <2>1, <2>2
<1>4. QED
  BY <1>2, <1>3 DEF NodesCounted

LEMMA AddFacts ==
  ASSUME GcInv, NEW S, NEW delta \in Int, node' = Add(S, delta)
  PROVE  /\ node' \in [Nodes -> NodeObjects]
         /\ \A x \in Nodes :
              /\ node'[x].life = node[x].life /\ node'[x].named = node[x].named
              /\ node'[x].dtored = node[x].dtored
              /\ node'[x].rc = node[x].rc + (IF x \in S THEN delta ELSE 0)
<1>1. ASSUME NEW x \in Nodes
      PROVE  /\ node'[x] \in NodeObjects
             /\ node'[x].life = node[x].life /\ node'[x].named = node[x].named
             /\ node'[x].dtored = node[x].dtored
             /\ node'[x].rc = node[x].rc + (IF x \in S THEN delta ELSE 0)
  <2>1. node[x] \in NodeObjects /\ node'[x] = [node[x] EXCEPT !.rc = @ + delta * One(x \in S)]
    BY GcTypes DEF Add
  <2>2. delta * One(x \in S) = IF x \in S THEN delta ELSE 0
    BY DEF One
  <2>3. QED
    BY <2>1, <2>2 DEF NodeObjects
<1>2. QED
  BY <1>1 DEF Add

(* A step that adds delta to the counts of the nodes S, where each of them *)
(* gains delta owners and the others keep theirs.                          *)
LEMMA AddStep ==
  ASSUME GcInv, NEW S, NEW delta \in {1, -1}, node' = Add(S, delta),
         \A x \in Nodes :
           /\ IsFiniteSet(Holders(x))'
           /\ (Cardinality(Holders(x))' - Cardinality(Holders(x)))
              + (One(x \in active') - One(x \in active))
              + (ClosesNode(x)' - ClosesNode(x)) + (RunsNode(x)' - RunsNode(x))
              = IF x \in S THEN delta ELSE 0,
         delta = 1 => \A x \in Nodes : x \in S => node[x].life = "live"
  PROVE  node' \in [Nodes -> NodeObjects] /\ NodesCounted'
<1>1. /\ node' \in [Nodes -> NodeObjects]
      /\ \A x \in Nodes :
           /\ node'[x].life = node[x].life /\ node'[x].named = node[x].named
           /\ node'[x].dtored = node[x].dtored
           /\ node'[x].rc = node[x].rc + (IF x \in S THEN delta ELSE 0)
  BY AddFacts
<1>2. ASSUME NEW x \in Nodes
      PROVE  /\ node'[x].life = node[x].life
             /\ IsFiniteSet(Holders(x))'
             /\ node'[x].rc = node[x].rc + (NodeOwners(x)' - NodeOwners(x))
             /\ NodeOwners(x)' > NodeOwners(x) => node[x].life = "live"
  <2>1. NodeOwners(x)' = NodeOwners(x) + (IF x \in S THEN delta ELSE 0)
    <3>1. /\ NodeOwners(x)' \in Nat /\ Cardinality(Holders(x))' \in Nat
          /\ NodeOwners(x)' = NodeOwners(x) + (One(node'[x].named) - One(node[x].named))
               + (Cardinality(Holders(x))' - Cardinality(Holders(x)))
               + (One(x \in active') - One(x \in active))
               + (ClosesNode(x)' - ClosesNode(x)) + (RunsNode(x)' - RunsNode(x))
      BY NodeOwnersChange
    <3>2. One(node'[x].named) = One(node[x].named) /\ One(node[x].named) \in {0, 1}
      BY <1>1, OneNumber
    <3>3. /\ One(x \in active') \in {0, 1} /\ One(x \in active) \in {0, 1}
          /\ ClosesNode(x)' \in {0, 1} /\ RunsNode(x)' \in {0, 1}
          /\ ClosesNode(x) \in {0, 1} /\ RunsNode(x) \in {0, 1}
          /\ NodeOwners(x) \in Nat /\ Cardinality(Holders(x)) \in Nat
      BY NodeOwnerNumbers DEF One, ClosesNode, RunsNode
    <3>4. PICK d \in Int : d = IF x \in S THEN delta ELSE 0
      OBVIOUS
    <3>5. (Cardinality(Holders(x))' - Cardinality(Holders(x)))
          + (One(x \in active') - One(x \in active))
          + (ClosesNode(x)' - ClosesNode(x)) + (RunsNode(x)' - RunsNode(x)) = d
      BY <3>4
    <3>6. NodeOwners(x)' = NodeOwners(x) + d
      BY <3>1, <3>2, <3>3, <3>5
    <3>7. QED
      BY <3>4, <3>6
  <2>2. NodeOwners(x) \in Nat /\ node[x].rc \in Int
    BY NodeOwnerNumbers, GcTypes DEF NodeObjects
  <2>3. NodeOwners(x)' > NodeOwners(x) => delta = 1 /\ x \in S
    BY <2>1, <2>2
  <2>4. QED
    BY <1>1, <2>1, <2>2, <2>3
<1>3. QED
  BY <1>1, <1>2, NodeCountStep

(* Steps that touch no node, and no property or captured variable.         *)
LEMMA NodesSame ==
  ASSUME GcInv, UNCHANGED <<node, active, points, on>>, frame' = frame,
         \A h \in Handles : uv'[h].stage = uv[h].stage
  PROVE  NodesCounted'
<1>1. ASSUME NEW x \in Nodes
      PROVE  Holders(x)' = Holders(x) /\ NodeOwners(x)' = NodeOwners(x)
  BY DEF Holders, NodeOwners, One
<1>2. QED
  BY <1>1 DEF GcInv, NodesCounted

LEMMA ShapeSame ==
  ASSUME GcInv, UNCHANGED <<node, active, on>>, doomed' \subseteq doomed,
         \A h \in Handles : uv'[h].stage = uv[h].stage,
         \A n \in Things : thing'[n].life # "live" \/ n \in Methods => points'[n] = {}
  PROVE  NodeShape'
BY DEF GcInv, NodeShape

(* What a slot or a frame is bound to does not change; what is new is in   *)
(* none of them.                                                           *)
LEMMA PollSame ==
  ASSUME GcInv, UNCHANGED <<asked, write, frame>>,
         \A h \in Handles : uv'[h].slot = uv[h].slot,
         \A h \in Handles : uv'[h].stage = "closed" => uv[h].stage = "closed",
         \A f \in Functions :
           thing[f].life # "none" =>
             \/ thing'[f].life = "freed"
             \/ thing'[f].life = thing[f].life /\ thing'[f].this = thing[f].this
  PROVE  PollShape'
<1>1. PollShape
  BY DEF GcInv
<1>2. ASSUME NEW cb, BoundAs(cb), cb.fn \in Functions
      PROVE  thing'[cb.fn].life = "freed" \/ (thing'[cb.fn].life = "live" /\ thing'[cb.fn].this = cb.object)
  BY <1>2 DEF BoundAs
<1>3. ASSUME NEW h \in Handles
      PROVE  /\ asked'[h] = <<>>
             /\ \A s \in Slots : s # "poll" \/ uv'[h].stage = "closed" => uv'[h].slot[s] = NullSlot
             /\ BoundAs(uv[h].slot["poll"])'
  <2>1. /\ asked[h] = <<>>
        /\ \A s \in Slots : s # "poll" \/ uv[h].stage = "closed" => uv[h].slot[s] = NullSlot
        /\ BoundAs(uv[h].slot["poll"])
    BY <1>1 DEF PollShape
  <2>2. asked'[h] = asked[h]
    OBVIOUS
  <2>3. BoundAs(uv[h].slot["poll"])'
    <3>1. PICK cb : cb = uv[h].slot["poll"]
      OBVIOUS
    <3>2. BoundAs(cb)
      BY <2>1, <3>1
    <3>3. cb.fn \in Functions => thing'[cb.fn].life = "freed" \/ (thing'[cb.fn].life = "live" /\ thing'[cb.fn].this = cb.object)
      BY <1>2, <3>2
    <3>4. uv'[h].slot["poll"] = cb
      BY <3>1
    <3>5. QED
      BY <3>3, <3>4 DEF BoundAs
  <2>4. QED
    BY <2>1, <2>2, <2>3
<1>4. BoundAs(frame.cb)'
  <2>1. BoundAs(frame.cb) /\ frame' = frame
    BY <1>1 DEF PollShape
  <2>2. frame.cb.fn \in Functions =>
          thing'[frame.cb.fn].life = "freed"
          \/ (thing'[frame.cb.fn].life = "live" /\ thing'[frame.cb.fn].this = frame.cb.object)
    BY <1>2, <2>1
  <2>3. QED
    BY <2>1, <2>2 DEF BoundAs
<1>5. /\ \A w \in Writes : write'[w] = NoWrite
      /\ \/ frame' = NoFrame
         \/ /\ frame'.kind = "poll" /\ frame'.handle \in Handles
            /\ frame'.cb.fn \in Functions /\ frame'.own = NullSlot
  BY <1>1 DEF PollShape
<1>6. QED
  BY <1>3, <1>4, <1>5 DEF PollShape

(* Steps of the script on its own functions and objects.                   *)
LEMMA GcThingKeeps ==
  ASSUME GcInv, NEW n \in Things,
         \/ n \in Objects /\ GcNewObject(n)
         \/ GcUnset(n)
  PROVE  GcInv'
<1>1. CountInv'
  BY NewObjectKeeps, UnsetKeeps DEF GcInv, KeepsInv, GcNewObject, GcUnset
<1>2. UNCHANGED <<node, on, active, points, gc_data, doomed, uv, asked, write, frame>>
  BY DEF GcNewObject, GcUnset, NewObject, Unset
<1>3. thing \in [Things -> ThingObjects] /\ Functions \cap Objects = {} /\ n \in Things
  BY Types, CallbackAssumption DEF GcInv
<1>4. \A m \in Things :
        /\ thing'[m].this = thing[m].this \/ m \in Objects
        /\ thing'[m].life = thing[m].life \/ (m \in Objects /\ thing[m].life = "none")
  BY <1>3 DEF GcNewObject, GcUnset, NewObject, Unset, ThingObjects
<1>5. \A m \in Things : thing'[m].life # "live" \/ m \in Methods => points'[m] = {}
  <2>1. \A m \in Things : thing[m].life # "live" \/ m \in Methods => points[m] = {}
    BY DEF GcInv, NodeShape
  <2>2. \A m \in Things : thing'[m].life # "live" => thing[m].life # "live"
    BY <1>4
  <2>3. QED
    BY <1>2, <2>1, <2>2
<1>6. NodesCounted'
  BY <1>2, NodesSame
<1>7. NodeShape'
  BY <1>2, <1>5, ShapeSame
<1>8. PollShape'
  <2>1. \A f \in Functions : thing'[f].life = thing[f].life /\ thing'[f].this = thing[f].this
    BY <1>3, <1>4 DEF Things
  <2>2. QED
    BY <1>2, <2>1, PollSame
<1>9. GcTypeOK'
  BY <1>2 DEF GcInv, GcTypeOK
<1>10. QED
  BY <1>1, <1>6, <1>7, <1>8, <1>9 DEF GcInv

(* What n refers to changes to S.                                          *)
LEMMA HolderChange ==
  ASSUME GcInv, NEW n \in Things, NEW S, points' = [points EXCEPT ![n] = S], NEW x \in Nodes
  PROVE  /\ IsFiniteSet(Holders(x))'
         /\ Cardinality(Holders(x))' \in Nat /\ Cardinality(Holders(x)) \in Nat
         /\ Cardinality(Holders(x))' - Cardinality(Holders(x))
              = (IF x \in S THEN 1 ELSE 0) - (IF x \in points[n] THEN 1 ELSE 0)
<1>1. PICK A, B : A = Holders(x) /\ B = Holders(x)'
  OBVIOUS
<1>2. points'[n] = S /\ \A m \in Things : m # n => points'[m] = points[m]
  BY GcTypes
<1>3. /\ A \ {n} = B \ {n}
      /\ n \in A <=> x \in points[n]
      /\ n \in B <=> x \in S
  BY <1>1, <1>2 DEF Holders
<1>4. IsFiniteSet(A)
  BY <1>1, NodeOwnerNumbers
<1>5. /\ IsFiniteSet(B) /\ Cardinality(A) \in Nat /\ Cardinality(B) \in Nat
      /\ Cardinality(B) = Cardinality(A) + (IF n \in B THEN 1 ELSE 0)
                                          - (IF n \in A THEN 1 ELSE 0)
  BY <1>3, <1>4, CountChange
<1>6. Cardinality(B) - Cardinality(A) = (IF x \in S THEN 1 ELSE 0) - (IF x \in points[n] THEN 1 ELSE 0)
  BY <1>3, <1>5
<1>7. QED
  BY <1>1, <1>5, <1>6

LEMMA HoldersSame ==
  ASSUME GcInv, points' = points, NEW x \in Nodes
  PROVE  /\ IsFiniteSet(Holders(x))' /\ Holders(x)' = Holders(x)
         /\ Cardinality(Holders(x)) \in Nat
         /\ Cardinality(Holders(x))' - Cardinality(Holders(x)) = 0
<1>1. Holders(x)' = Holders(x) /\ IsFiniteSet(Holders(x)) /\ Cardinality(Holders(x)) \in Nat
  BY NodeOwnerNumbers DEF Holders
<1>2. QED
  BY <1>1

LEMMA PartsSame ==
  ASSUME NEW x
  PROVE  /\ active' = active => One(x \in active') - One(x \in active) = 0
         /\ (\A h \in Handles : uv'[h].stage = uv[h].stage) => ClosesNode(x)' - ClosesNode(x) = 0
         /\ frame' = frame /\ (\A h \in Handles : on'[h] = on[h]) /\ (frame = NoFrame \/ frame.handle \in Handles)
              => RunsNode(x)' - RunsNode(x) = 0
BY DEF ClosesNode, RunsNode, One

LEMMA FrameOfPoll ==
  ASSUME GcInv
  PROVE  /\ frame = NoFrame \/ (/\ frame.handle \in Handles /\ frame.kind = "poll"
                                /\ frame.cb.fn \in Functions /\ frame.own = NullSlot)
BY DEF GcInv, PollShape

LEMMA UsableIsLive ==
  ASSUME NEW x, UsableNode(x)
  PROVE  node[x].life = "live" /\ ~node[x].dtored
BY DEF UsableNode

(* What n refers to is counted again: a closure that captures, an object   *)
(* that is given a property.                                               *)
LEMMA PointStep ==
  ASSUME GcInv, NEW n \in Things, NEW S \in SUBSET Nodes, NEW more,
         points' = [points EXCEPT ![n] = S], node' = Add(more, 1),
         \A x \in Nodes : x \in S <=> (x \in points[n] \/ x \in more),
         \A x \in Nodes : x \in more => (x \notin points[n] /\ node[x].life = "live"),
         UNCHANGED <<on, active, frame>>, \A h \in Handles : uv'[h].stage = uv[h].stage
  PROVE  node' \in [Nodes -> NodeObjects] /\ NodesCounted' /\ points' \in [Things -> SUBSET Nodes]
<1>1. ASSUME NEW x \in Nodes
      PROVE  /\ IsFiniteSet(Holders(x))'
             /\ (Cardinality(Holders(x))' - Cardinality(Holders(x)))
                + (One(x \in active') - One(x \in active))
                + (ClosesNode(x)' - ClosesNode(x)) + (RunsNode(x)' - RunsNode(x))
                = IF x \in more THEN 1 ELSE 0
  <2>1. /\ IsFiniteSet(Holders(x))'
        /\ Cardinality(Holders(x))' - Cardinality(Holders(x))
             = (IF x \in S THEN 1 ELSE 0) - (IF x \in points[n] THEN 1 ELSE 0)
    BY HolderChange
  <2>2. /\ One(x \in active') - One(x \in active) = 0
        /\ ClosesNode(x)' - ClosesNode(x) = 0 /\ RunsNode(x)' - RunsNode(x) = 0
    BY PartsSame, FrameOfPoll
  <2>3. (IF x \in S THEN 1 ELSE 0) - (IF x \in points[n] THEN 1 ELSE 0) = IF x \in more THEN 1 ELSE 0
    OBVIOUS
  <2>4. QED
    BY <2>1, <2>2, <2>3
<1>2. node' \in [Nodes -> NodeObjects] /\ NodesCounted'
  <2>1. PICK delta \in {1, -1} : delta = 1
    OBVIOUS
  <2>2. QED
    BY <1>1, <2>1, AddStep
<1>3. points' \in [Things -> SUBSET Nodes]
  BY GcTypes
<1>4. QED
  BY <1>2, <1>3

LEMMA ActiveShape ==
  ASSUME GcInv, NEW S, NEW delta \in {1, -1}, node' = Add(S, delta), on' = on,
         \A h \in active' : h \in active \/ (h \in Handles /\ uv[h].stage = "open"),
         doomed' \subseteq doomed,
         \A h \in Handles : uv'[h].stage = uv[h].stage,
         \A n \in Things : thing'[n].life # "live" \/ n \in Methods => points'[n] = {}
  PROVE  NodeShape'
<1>1. \A x \in Nodes : node'[x].life = node[x].life /\ node'[x].dtored = node[x].dtored
  <2>1. delta \in Int
    OBVIOUS
  <2>2. QED
    BY <2>1, AddFacts
<1>2. \A h \in Handles : h \in Nodes /\ on[h] \in Nodes
  BY GcTypes
<1>3. \A x \in doomed : x \in Nodes
  BY GcTypes
<1>4. NodeShape
  BY DEF GcInv
<1>5. \A h \in Handles : h \in active' => uv'[h].stage = "open"
  BY <1>4 DEF NodeShape
<1>6. QED
  BY <1>1, <1>2, <1>3, <1>4, <1>5 DEF NodeShape

LEMMA SameShape ==
  ASSUME GcInv, NEW S, NEW delta \in {1, -1}, node' = Add(S, delta),
         UNCHANGED <<active, on>>, doomed' \subseteq doomed,
         \A h \in Handles : uv'[h].stage = uv[h].stage,
         \A n \in Things : thing'[n].life # "live" \/ n \in Methods => points'[n] = {}
  PROVE  NodeShape'
BY ActiveShape

LEMMA GcNewFunctionKeeps ==
  ASSUME GcInv, NEW f \in Functions, NEW o \in Objects \cup {NoObject},
         NEW captured \in SUBSET Nodes, GcNewFunction(f, o, captured)
  PROVE  GcInv'
<1>1. CountInv'
  BY NewFunctionKeeps DEF GcInv, KeepsInv, GcNewFunction
<1>2. /\ thing[f].life = "none" /\ f \in Things /\ f \notin Objects
      /\ f \in Methods => captured = {}
      /\ \A x \in captured : node[x].life = "live"
      /\ points' = [points EXCEPT ![f] = captured] /\ node' = Add(captured, 1)
      /\ UNCHANGED <<on, active, gc_data, doomed, uv, asked, write, frame>>
  BY CallbackAssumption DEF GcNewFunction, NewFunction, UsableNode, Things
<1>3. /\ thing'[f].life = "live"
      /\ \A m \in Things : m # f => (thing'[m].life = thing[m].life /\ thing'[m].this = thing[m].this)
  <2>1. thing \in [Things -> ThingObjects]
    BY Types DEF GcInv
  <2>2. QED
    BY <1>2, <2>1 DEF GcNewFunction, NewFunction, ThingObjects
<1>4. \A m \in Things : thing[m].life # "live" \/ m \in Methods => points[m] = {}
  BY DEF GcInv, NodeShape
<1>5. points[f] = {}
  BY <1>2, <1>4
<1>6. node' \in [Nodes -> NodeObjects] /\ NodesCounted' /\ points' \in [Things -> SUBSET Nodes]
  BY <1>2, <1>5, PointStep
<1>7. \A m \in Things : thing'[m].life # "live" \/ m \in Methods => points'[m] = {}
  <2>1. points'[f] = captured /\ \A m \in Things : m # f => points'[m] = points[m]
    BY <1>2, GcTypes
  <2>2. QED
    BY <1>2, <1>3, <1>4, <2>1
<1>8. NodeShape'
  BY <1>2, <1>7, SameShape
<1>9. PollShape'
  <2>1. \A g \in Functions : thing[g].life # "none" => (thing'[g].life = thing[g].life /\ thing'[g].this = thing[g].this)
    BY <1>2, <1>3 DEF Things
  <2>2. QED
    BY <1>2, <2>1, PollSame
<1>10. GcTypeOK'
  BY <1>2, <1>6 DEF GcInv, GcTypeOK
<1>11. QED
  BY <1>1, <1>6, <1>8, <1>9, <1>10 DEF GcInv

LEMMA SetPropertyKeeps ==
  ASSUME GcInv, NEW o \in Objects, NEW x \in Nodes, SetProperty(o, x)
  PROVE  GcInv'
<1>1. /\ thing[o].life = "live" /\ o \in Things /\ o \notin Methods
      /\ node[x].life = "live" /\ x \notin points[o]
      /\ points' = [points EXCEPT ![o] = points[o] \cup {x}] /\ node' = Add({x}, 1)
      /\ UNCHANGED <<on, active, gc_data, doomed>> /\ UNCHANGED callbackVars
  <2>1. o \in Things /\ o \notin Methods
    BY CallbackAssumption DEF Things
  <2>2. points' = [points EXCEPT ![o] = points[o] \cup {x}]
    BY <2>1, GcTypes DEF SetProperty
  <2>3. QED
    BY <2>1, <2>2 DEF SetProperty, CanName, UsableNode
<1>2. CountInv'
  BY <1>1, StutterKeeps DEF GcInv, KeepsInv
<1>3. node' \in [Nodes -> NodeObjects] /\ NodesCounted' /\ points' \in [Things -> SUBSET Nodes]
  <2>1. PICK S \in SUBSET Nodes : S = points[o] \cup {x}
    BY <1>1, GcTypes
  <2>2. PICK more : more = {x}
    OBVIOUS
  <2>3. UNCHANGED <<on, active, frame>> /\ \A h \in Handles : uv'[h].stage = uv[h].stage
    BY <1>1 DEF callbackVars
  <2>4. /\ points' = [points EXCEPT ![o] = S] /\ node' = Add(more, 1)
        /\ \A y \in Nodes : y \in S <=> (y \in points[o] \/ y \in more)
        /\ \A y \in Nodes : y \in more => (y \notin points[o] /\ node[y].life = "live")
    BY <1>1, <2>1, <2>2
  <2>5. QED
    BY <1>1, <2>3, <2>4, PointStep
<1>4. \A m \in Things : thing'[m].life # "live" \/ m \in Methods => points'[m] = {}
  <2>1. \A m \in Things : m # o => points'[m] = points[m]
    BY <1>1, GcTypes
  <2>2. QED
    BY <1>1, <2>1 DEF callbackVars, GcInv, NodeShape
<1>5. NodeShape'
  <2>1. \A h \in Handles : uv'[h].stage = uv[h].stage
    BY <1>1 DEF callbackVars
  <2>2. QED
    BY <1>1, <1>4, <2>1, SameShape
<1>6. PollShape'
  BY <1>1, PollSame DEF callbackVars
<1>7. GcTypeOK'
  BY <1>1, <1>3 DEF GcInv, GcTypeOK
<1>8. QED
  BY <1>2, <1>3, <1>5, <1>6, <1>7 DEF GcInv

LEMMA GcFreeKeeps ==
  ASSUME GcInv, NEW n \in Things, GcFree(n)
  PROVE  GcInv'
<1>1. CountInv'
  BY FreeKeeps DEF GcInv, KeepsInv, GcFree
<1>2. /\ points' = [points EXCEPT ![n] = {}] /\ node' = Add(points[n], -1)
      /\ UNCHANGED <<on, active, gc_data, doomed, uv, asked, write, frame>>
  BY DEF GcFree, Free
<1>3. /\ thing'[n].life = "freed"
      /\ \A m \in Things : m # n => (thing'[m].life = thing[m].life /\ thing'[m].this = thing[m].this)
  <2>1. thing \in [Things -> ThingObjects]
    BY Types DEF GcInv
  <2>2. QED
    BY <2>1 DEF GcFree, Free, ThingObjects
<1>4. ASSUME NEW x \in Nodes
      PROVE  /\ IsFiniteSet(Holders(x))'
             /\ (Cardinality(Holders(x))' - Cardinality(Holders(x)))
                + (One(x \in active') - One(x \in active))
                + (ClosesNode(x)' - ClosesNode(x)) + (RunsNode(x)' - RunsNode(x))
                = IF x \in points[n] THEN -1 ELSE 0
  <2> PICK S : S = {}
    OBVIOUS
  <2>1. /\ IsFiniteSet(Holders(x))'
        /\ Cardinality(Holders(x))' - Cardinality(Holders(x))
             = (IF x \in S THEN 1 ELSE 0) - (IF x \in points[n] THEN 1 ELSE 0)
    BY <1>2, HolderChange
  <2>2. /\ One(x \in active') - One(x \in active) = 0
        /\ ClosesNode(x)' - ClosesNode(x) = 0 /\ RunsNode(x)' - RunsNode(x) = 0
    BY <1>2, PartsSame, FrameOfPoll
  <2>3. (IF x \in S THEN 1 ELSE 0) - (IF x \in points[n] THEN 1 ELSE 0) = IF x \in points[n] THEN -1 ELSE 0
    OBVIOUS
  <2>4. QED
    BY <2>1, <2>2, <2>3
<1>5. node' \in [Nodes -> NodeObjects] /\ NodesCounted'
  <2>1. PICK delta \in {1, -1} : delta = -1
    OBVIOUS
  <2>2. PICK S : S = points[n]
    OBVIOUS
  <2>3. QED
    BY <1>2, <1>4, <2>1, <2>2, AddStep
<1>6. \A m \in Things : thing'[m].life # "live" \/ m \in Methods => points'[m] = {}
  <2>1. points'[n] = {} /\ \A m \in Things : m # n => points'[m] = points[m]
    BY <1>2, GcTypes
  <2>2. QED
    BY <1>3, <2>1 DEF GcInv, NodeShape
<1>7. NodeShape'
  <2>1. PICK delta \in {1, -1} : delta = -1
    OBVIOUS
  <2>2. node' = Add(points[n], delta) /\ doomed' \subseteq doomed
    BY <1>2, <2>1
  <2>3. QED
    BY <1>2, <1>6, <2>2, SameShape
<1>8. PollShape'
  <2>1. \A g \in Functions : \/ thing'[g].life = "freed"
                             \/ thing'[g].life = thing[g].life /\ thing'[g].this = thing[g].this
    BY <1>3 DEF Things
  <2>2. QED
    BY <1>2, <2>1, PollSame
<1>9. GcTypeOK'
  <2>1. points' \in [Things -> SUBSET Nodes]
    BY <1>2, GcTypes
  <2>2. QED
    BY <1>2, <1>5, <2>1 DEF GcInv, GcTypeOK
<1>10. QED
  BY <1>1, <1>5, <1>7, <1>8, <1>9 DEF GcInv

(* A variable lets go of a node.                                           *)
LEMMA UnsetNodeKeeps ==
  ASSUME GcInv, NEW x \in Nodes, UnsetNode(x)
  PROVE  GcInv'
<1>1. /\ node[x].named
      /\ node' = [node EXCEPT ![x].named = FALSE, ![x].rc = @ - 1]
      /\ UNCHANGED <<on, active, points, gc_data, doomed>> /\ UNCHANGED callbackVars
  BY DEF UnsetNode
<1>2. CountInv'
  BY <1>1, StutterKeeps DEF GcInv, KeepsInv
<1>3. /\ node' \in [Nodes -> NodeObjects]
      /\ \A y \in Nodes :
           /\ node'[y].life = node[y].life /\ node'[y].dtored = node[y].dtored
           /\ y = x => ~node'[y].named /\ node'[y].rc = node[y].rc - 1
           /\ y # x => node'[y] = node[y]
  <2>1. node \in [Nodes -> NodeObjects] /\ node[x] \in NodeObjects
    BY GcTypes
  <2>2. QED
    BY <1>1, <2>1 DEF NodeObjects
<1>4. ASSUME NEW y \in Nodes
      PROVE  /\ node'[y].life = node[y].life
             /\ IsFiniteSet(Holders(y))'
             /\ node'[y].rc = node[y].rc + (NodeOwners(y)' - NodeOwners(y))
             /\ NodeOwners(y)' > NodeOwners(y) => node[y].life = "live"
  <2>1. /\ IsFiniteSet(Holders(y))' /\ Cardinality(Holders(y))' - Cardinality(Holders(y)) = 0
    BY <1>1, HoldersSame
  <2>2. /\ One(y \in active') - One(y \in active) = 0
        /\ ClosesNode(y)' - ClosesNode(y) = 0 /\ RunsNode(y)' - RunsNode(y) = 0
    BY <1>1, PartsSame, FrameOfPoll DEF callbackVars
  <2>3. NodeOwners(y) \in Nat /\ NodeOwners(y)' = NodeOwners(y) + (One(node'[y].named) - One(node[y].named))
    BY <2>1, <2>2, NodeOwnersChange, NodeOwnerNumbers, OneNumber
  <2>4. One(node'[y].named) - One(node[y].named) = IF y = x THEN -1 ELSE 0
    BY <1>1, <1>3 DEF One
  <2>5. node[y].rc \in Int
    BY GcTypes DEF NodeObjects
  <2>6. QED
    BY <1>3, <2>1, <2>3, <2>4, <2>5
<1>5. NodesCounted'
  BY <1>4, NodeCountStep
<1>6. NodeShape'
  <2>1. \A h \in Handles : h \in Nodes /\ on[h] \in Nodes
    BY GcTypes
  <2>2. \A y \in doomed : y \in Nodes
    BY GcTypes
  <2>3. QED
    BY <1>1, <1>3, <2>1, <2>2 DEF GcInv, NodeShape, callbackVars
<1>7. PollShape'
  BY <1>1, PollSame DEF callbackVars
<1>8. GcTypeOK'
  BY <1>1, <1>3 DEF GcInv, GcTypeOK
<1>9. QED
  BY <1>2, <1>5, <1>6, <1>7, <1>8 DEF GcInv

(* A new node has one owner, the variable that names it.                   *)
LEMMA NewNodeStep ==
  ASSUME GcInv, NEW x \in Nodes, node[x].life = "none",
         node' = [node EXCEPT ![x] = NewNode], UNCHANGED <<points, active>>,
         \A y \in Nodes : ClosesNode(y)' = ClosesNode(y) /\ RunsNode(y)' = RunsNode(y)
  PROVE  /\ node' \in [Nodes -> NodeObjects] /\ NodesCounted'
         /\ node'[x].life = "live" /\ ~node'[x].dtored
         /\ \A y \in Nodes : y # x => node'[y] = node[y]
<1>1. PICK r : r = NewNode
  OBVIOUS
<1>2. r.life = "live" /\ r.rc = 1 /\ r.named = TRUE /\ r.dtored = FALSE /\ r \in NodeObjects
  <2>1. PICK b \in BOOLEAN, c \in BOOLEAN : b = TRUE /\ c = FALSE
    OBVIOUS
  <2>2. r = [life |-> "live", rc |-> 1, named |-> b, dtored |-> c]
    BY <1>1, <2>1 DEF NewNode
  <2>3. QED
    BY <2>1, <2>2 DEF NodeObjects
<1>3. /\ node' \in [Nodes -> NodeObjects] /\ node'[x] = r
      /\ \A y \in Nodes : y # x => node'[y] = node[y]
  BY <1>1, <1>2, GcTypes
<1>4. ASSUME NEW y \in Nodes
      PROVE  /\ IsFiniteSet(Holders(y))' /\ NodeOwners(y) \in Nat
             /\ NodeOwners(y)' = NodeOwners(y) + (IF y = x THEN 1 ELSE 0)
  <2>1. IsFiniteSet(Holders(y))' /\ Cardinality(Holders(y))' - Cardinality(Holders(y)) = 0
    BY HoldersSame
  <2>2. /\ One(y \in active') - One(y \in active) = 0
        /\ ClosesNode(y)' - ClosesNode(y) = 0 /\ RunsNode(y)' - RunsNode(y) = 0
    BY PartsSame, NodeOwnerNumbers
  <2>3. NodeOwners(y) \in Nat /\ NodeOwners(y)' = NodeOwners(y) + (One(node'[y].named) - One(node[y].named))
    BY <2>1, <2>2, NodeOwnersChange, NodeOwnerNumbers, OneNumber
  <2>4. ~node[x].named
    BY OwnedNodeIsLive
  <2>5. One(node'[y].named) - One(node[y].named) = IF y = x THEN 1 ELSE 0
    BY <1>2, <1>3, <2>4 DEF One
  <2>6. QED
    BY <2>1, <2>3, <2>5
<1>5. NodeOwners(x) = 0
  BY NodeOwnerNumbers
<1>6. IsFiniteSet({y \in Nodes : node'[y].life # "none"})
  <2>1. PICK A, B : A = {y \in Nodes : node[y].life # "none"} /\ B = {y \in Nodes : node'[y].life # "none"}
    OBVIOUS
  <2>2. IsFiniteSet(A) /\ x \notin A /\ B = A \cup {x}
    BY <1>2, <1>3, <2>1 DEF GcInv, NodesCounted
  <2>3. IsFiniteSet(B)
    BY <2>2, FS_AddElement
  <2>4. QED
    BY <2>1, <2>3
<1>7. ASSUME NEW y \in Nodes
      PROVE  IF node'[y].life = "live" THEN node'[y].rc = NodeOwners(y)' ELSE NodeOwners(y)' = 0
  <2>1. CASE y = x
    BY <1>2, <1>3, <1>4, <1>5, <2>1
  <2>2. CASE y # x
    <3>1. node'[y] = node[y] /\ NodeOwners(y)' = NodeOwners(y)
      BY <1>3, <1>4, <2>2
    <3>2. QED
      BY <3>1, NodeOwnerNumbers
  <2>3. QED
    BY <2>1, <2>2
<1>8. QED
  BY <1>2, <1>3, <1>4, <1>6, <1>7 DEF NodesCounted

LEMMA LoopNewKeeps ==
  ASSUME GcInv, NEW l \in Loops, uv_loop_new(l)
  PROVE  GcInv'
<1>1. /\ node[l].life = "none" /\ node' = [node EXCEPT ![l] = NewNode] /\ l \in Nodes
      /\ UNCHANGED <<on, active, points, gc_data, doomed>> /\ UNCHANGED callbackVars
  BY DEF uv_loop_new, Nodes
<1>2. CountInv'
  BY <1>1, StutterKeeps DEF GcInv, KeepsInv
<1>3. /\ node' \in [Nodes -> NodeObjects] /\ NodesCounted'
      /\ node'[l].life = "live" /\ ~node'[l].dtored
      /\ \A y \in Nodes : y # l => node'[y] = node[y]
  <2>1. \A y \in Nodes : ClosesNode(y)' = ClosesNode(y) /\ RunsNode(y)' = RunsNode(y)
    BY <1>1 DEF ClosesNode, RunsNode, callbackVars
  <2>2. QED
    BY <1>1, <2>1, NewNodeStep
<1>4. NodeShape'
  <2>1. \A h \in Handles : h \in Nodes /\ h # l /\ on[h] \in Nodes
    BY GcTypes
  <2>2. \A y \in doomed : y \in Nodes
    BY GcTypes
  <2>3. QED
    BY <1>1, <1>3, <2>1, <2>2 DEF GcInv, NodeShape, callbackVars
<1>5. PollShape'
  BY <1>1, PollSame DEF callbackVars
<1>6. GcTypeOK'
  BY <1>1, <1>3 DEF GcInv, GcTypeOK
<1>7. QED
  BY <1>2, <1>3, <1>4, <1>5, <1>6 DEF GcInv

LEMMA PollInitKeeps ==
  ASSUME GcInv, NEW h \in Handles, NEW l \in Loops, uv_poll_init(h, l)
  PROVE  GcInv'
<1>1. CountInv'
  BY CreateKeeps DEF GcInv, KeepsInv, uv_poll_init, Classes
<1>2. /\ uv[h].stage = "none" /\ h \in Nodes /\ l \in Nodes /\ h # l
      /\ node[l].life = "live" /\ ~node[l].dtored
      /\ node' = [node EXCEPT ![h] = NewNode] /\ on' = [on EXCEPT ![h] = l]
      /\ UNCHANGED <<active, points, gc_data, doomed, thing, asked, write, frame>>
      /\ uv' = [uv EXCEPT ![h].ce = "poll", ![h].stage = "open"]
  BY GcTypes DEF uv_poll_init, Create, UsableNode
<1>3. /\ uv'[h].stage = "open" /\ uv'[h].slot = uv[h].slot
      /\ \A g \in Handles : g # h => uv'[g] = uv[g]
  <2>1. uv[h] \in UvObjects /\ uv \in [Handles -> UvObjects]
    BY Types DEF GcInv
  <2>2. QED
    BY <1>2, <2>1 DEF UvObjects
<1>4. /\ node[h].life = "none"
      /\ frame # NoFrame => frame.handle # h /\ frame.handle \in Handles
  <2>1. node[h].life = "none"
    BY <1>2 DEF GcInv, NodeShape
  <2>2. QED
    BY <1>2, <2>1, OwnedNodeIsLive, FrameOfPoll
<1>5. on' \in [Handles -> Loops] /\ on'[h] = l /\ \A g \in Handles : g # h => on'[g] = on[g]
  BY <1>2, GcTypes
<1>6. /\ node' \in [Nodes -> NodeObjects] /\ NodesCounted'
      /\ node'[h].life = "live" /\ ~node'[h].dtored
      /\ \A y \in Nodes : y # h => node'[y] = node[y]
  <2>1. \A y \in Nodes : ClosesNode(y)' = ClosesNode(y)
    BY <1>2, <1>3 DEF ClosesNode
  <2>2. \A y \in Nodes : RunsNode(y)' = RunsNode(y)
    BY <1>2, <1>4, <1>5 DEF RunsNode
  <2>3. QED
    BY <1>2, <1>4, <2>1, <2>2, NewNodeStep
<1>7. NodeShape'
  <2>1. NodeShape
    BY DEF GcInv
  <2>2. \A x \in Nodes : node'[x].life = "freed" => node'[x].dtored
    BY <1>6, <2>1 DEF NodeShape
  <2>3. ASSUME NEW g \in Handles
        PROVE  /\ uv'[g].stage = "none" <=> node'[g].life = "none"
               /\ uv'[g].stage \in {"none", "open", "closing", "closed"}
               /\ uv'[g].stage = "open" <=> node'[g].life = "live" /\ ~node'[g].dtored
               /\ uv'[g].stage = "open" => node'[on'[g]].life = "live" /\ ~node'[on'[g]].dtored
               /\ uv'[g].stage = "closing" => node'[on'[g]].life = "live"
               /\ g \in active' => uv'[g].stage = "open"
    <3>1. g \in Nodes /\ on[g] \in Nodes /\ on[g] # h
      BY GcTypes
    <3>2. CASE g = h
      BY <1>2, <1>3, <1>5, <1>6, <3>2
    <3>3. CASE g # h
      <4>1. uv'[g] = uv[g] /\ node'[g] = node[g] /\ on'[g] = on[g] /\ node'[on[g]] = node[on[g]] /\ active' = active
        BY <1>2, <1>3, <1>5, <1>6, <3>1, <3>3
      <4>2. QED
        BY <2>1, <4>1 DEF NodeShape
    <3>4. QED
      BY <3>2, <3>3
  <2>4. \A x \in doomed : node'[x].life # "none"
    BY <1>6, <2>1, GcTypes DEF NodeShape
  <2>5. \A n \in Things : thing'[n].life # "live" \/ n \in Methods => points'[n] = {}
    BY <1>2, <2>1 DEF NodeShape
  <2>6. QED
    BY <1>2, <2>2, <2>3, <2>4, <2>5 DEF NodeShape
<1>8. PollShape'
  <2>1. \A g \in Handles : uv'[g].slot = uv[g].slot /\ (uv'[g].stage = "closed" => uv[g].stage = "closed")
    BY <1>3
  <2>2. QED
    BY <1>2, <2>1, PollSame
<1>9. GcTypeOK'
  BY <1>2, <1>5, <1>6 DEF GcInv, GcTypeOK
<1>10. QED
  BY <1>1, <1>6, <1>7, <1>8, <1>9 DEF GcInv

LEMMA CountSame ==
  ASSUME CountInv, NEW delta, Count(delta)
  PROVE  \A n \in Things : thing'[n].life = thing[n].life /\ thing'[n].this = thing[n].this
<1>1. \A n \in Things : thing[n] \in ThingObjects /\ thing'[n] = [thing[n] EXCEPT !.rc = @ + delta[n]]
  BY Types DEF Count
<1>2. QED
  BY <1>1 DEF ThingObjects

(* Only counts, slots and the frame change.                                *)
LEMMA PollStep ==
  ASSUME GcInv, UNCHANGED <<asked, write>>,
         \A n \in Things : thing'[n].life = thing[n].life /\ thing'[n].this = thing[n].this,
         \A h \in Handles :
           /\ \A s \in Slots : s # "poll" \/ uv'[h].stage = "closed" => uv'[h].slot[s] = NullSlot
           /\ BoundAs(uv'[h].slot["poll"]),
         \/ frame' = NoFrame
         \/ /\ frame'.kind = "poll" /\ frame'.handle \in Handles
            /\ frame'.cb.fn \in Functions /\ frame'.own = NullSlot,
         BoundAs(frame'.cb)
  PROVE  PollShape'
<1>1. ASSUME NEW cb, BoundAs(cb), cb.fn \in Functions
      PROVE  thing'[cb.fn].life = "freed" \/ (thing'[cb.fn].life = "live" /\ thing'[cb.fn].this = cb.object)
  <2>1. cb.fn \in Things
    BY <1>1 DEF Things
  <2>2. QED
    BY <1>1, <2>1 DEF BoundAs
<1>2. \A h \in Handles : BoundAs(uv[h].slot["poll"])'
  <2>1. ASSUME NEW h \in Handles
        PROVE  BoundAs(uv[h].slot["poll"])'
    <3>1. PICK cb : cb = uv'[h].slot["poll"]
      OBVIOUS
    <3>2. BoundAs(cb)
      BY <3>1
    <3>3. QED
      BY <1>1, <3>1, <3>2 DEF BoundAs
  <2>2. QED
    BY <2>1
<1>3. BoundAs(frame.cb)'
  <2>1. PICK cb : cb = frame'.cb
    OBVIOUS
  <2>2. BoundAs(cb)
    BY <2>1
  <2>3. QED
    BY <1>1, <2>1, <2>2 DEF BoundAs
<1>4. (\A h \in Handles : asked'[h] = <<>>) /\ (\A w \in Writes : write'[w] = NoWrite)
  <2>1. (\A h \in Handles : asked[h] = <<>>) /\ (\A w \in Writes : write[w] = NoWrite)
    BY DEF GcInv, PollShape
  <2>2. QED
    BY <2>1
<1>5. QED
  BY <1>2, <1>3, <1>4 DEF PollShape

LEMMA BoundFci ==
  ASSUME CountInv, NEW f, Callable(f)
  PROVE  BoundAs(Fci(f))
<1>1. f \in Functions => f # NoFunction /\ thing[f].life = "live"
  BY CallbackAssumption DEF Callable, CanName, Things
<1>2. QED
  BY <1>1 DEF BoundAs, Fci

LEMMA GcPollStartKeeps ==
  ASSUME GcInv, NEW h \in Handles, NEW f, GcPollStart(h, f)
  PROVE  GcInv'
<1>1. CountInv /\ CountInv'
  BY PollStartKeeps DEF GcInv, KeepsInv, GcPollStart
<1>2. /\ Defined /\ uv[h].stage = "open" /\ Callable(f)
      /\ php_uv_cb_init(h, "poll", f) /\ UNCHANGED <<asked, write, frame>>
      /\ node' = Add({h} \ active, 1) /\ active' = active \cup {h}
      /\ UNCHANGED <<on, points, gc_data, doomed>>
      /\ node[h].life = "live" /\ h \in Nodes
  BY GcTypes DEF GcPollStart, uv_poll_start, Usable, UsableNode
<1>3. "poll" \in Slots \ {"close"}
  BY DEF Slots
<1>4. /\ uv'[h].stage = "open" /\ uv'[h].slot["poll"] = Fci(f)
      /\ \A g \in Handles : g # h => uv'[g] = uv[g]
      /\ \A g \in Handles, t \in Slots : g # h \/ t # "poll" => uv'[g].slot[t] = uv[g].slot[t]
  BY <1>1, <1>2, <1>3, InitSlot
<1>5. \A g \in Handles : uv'[g].stage = uv[g].stage
  BY <1>2, <1>4
<1>6. \A n \in Things : thing'[n].life = thing[n].life /\ thing'[n].this = thing[n].this
  <2>1. PICK delta : Count(delta)
    BY <1>2 DEF php_uv_cb_init
  <2>2. QED
    BY <1>1, <2>1, CountSame
<1>7. PollShape'
  <2>1. /\ \A g \in Handles : \A s \in Slots : s # "poll" \/ uv[g].stage = "closed" => uv[g].slot[s] = NullSlot
        /\ \A g \in Handles : BoundAs(uv[g].slot["poll"])
        /\ BoundAs(frame.cb)
    BY DEF GcInv, PollShape
  <2>2. BoundAs(Fci(f))
    BY <1>1, <1>2, BoundFci
  <2>3. ASSUME NEW g \in Handles
        PROVE  /\ \A s \in Slots : s # "poll" \/ uv'[g].stage = "closed" => uv'[g].slot[s] = NullSlot
               /\ BoundAs(uv'[g].slot["poll"])
    <3>1. CASE g = h
      BY <1>4, <2>1, <2>2, <3>1
    <3>2. CASE g # h
      <4>1. uv'[g] = uv[g]
        BY <1>4, <3>2
      <4>2. QED
        BY <2>1, <4>1
    <3>3. QED
      BY <3>1, <3>2
  <2>4. frame' = frame
    BY <1>2
  <2>5. BoundAs(frame'.cb)
    BY <2>1, <2>4
  <2>6. \/ frame' = NoFrame
        \/ /\ frame'.kind = "poll" /\ frame'.handle \in Handles
           /\ frame'.cb.fn \in Functions /\ frame'.own = NullSlot
    BY <2>4, FrameOfPoll
  <2>7. QED
    BY <1>2, <1>6, <2>3, <2>5, <2>6, PollStep
<1>8. node' \in [Nodes -> NodeObjects] /\ NodesCounted'
  <2> PICK delta \in {1, -1} : delta = 1
    OBVIOUS
  <2>1. PICK S : S = {h} \ active /\ delta = 1
    OBVIOUS
  <2>2. ASSUME NEW x \in Nodes
        PROVE  /\ IsFiniteSet(Holders(x))'
               /\ (Cardinality(Holders(x))' - Cardinality(Holders(x)))
                  + (One(x \in active') - One(x \in active))
                  + (ClosesNode(x)' - ClosesNode(x)) + (RunsNode(x)' - RunsNode(x))
                  = IF x \in S THEN delta ELSE 0
    <3>1. IsFiniteSet(Holders(x))' /\ Cardinality(Holders(x))' - Cardinality(Holders(x)) = 0
      BY <1>2, HoldersSame
    <3>2. ClosesNode(x)' - ClosesNode(x) = 0 /\ RunsNode(x)' - RunsNode(x) = 0
      BY <1>2, <1>5, PartsSame, FrameOfPoll
    <3>3. One(x \in active') - One(x \in active) = IF x \in S THEN delta ELSE 0
      BY <1>2, <2>1 DEF One
    <3>4. QED
      BY <3>1, <3>2, <3>3
  <2>3. node' = Add(S, delta) /\ \A x \in Nodes : x \in S => node[x].life = "live"
    BY <1>2, <2>1
  <2>4. QED
    BY <2>2, <2>3, AddStep
<1>9. NodeShape'
  <2>1. PICK delta \in {1, -1} : delta = 1
    OBVIOUS
  <2>2. \A n \in Things : thing'[n].life # "live" \/ n \in Methods => points'[n] = {}
    BY <1>2, <1>6 DEF GcInv, NodeShape
  <2>3. node' = Add({h} \ active, delta) /\ doomed' \subseteq doomed
    BY <1>2, <2>1
  <2>4. QED
    BY <1>2, <1>5, <2>2, <2>3, ActiveShape
<1>10. GcTypeOK'
  BY <1>2, <1>8 DEF GcInv, GcTypeOK
<1>11. QED
  BY <1>1, <1>7, <1>8, <1>9, <1>10 DEF GcInv

LEMMA PollStopKeeps ==
  ASSUME GcInv, NEW h \in Handles, uv_poll_stop(h)
  PROVE  GcInv'
<1>1. /\ h \in active /\ active' = active \ {h} /\ node' = Add({h}, -1)
      /\ UNCHANGED <<on, points, gc_data, doomed>> /\ UNCHANGED callbackVars
  BY DEF uv_poll_stop
<1>2. CountInv'
  BY <1>1, StutterKeeps DEF GcInv, KeepsInv
<1>3. \A g \in Handles : uv'[g].stage = uv[g].stage
  BY <1>1 DEF callbackVars
<1> PICK delta \in {1, -1} : delta = -1
  OBVIOUS
<1>4. node' \in [Nodes -> NodeObjects] /\ NodesCounted'
  <2>1. PICK S : S = {h}
    OBVIOUS
  <2>2. ASSUME NEW x \in Nodes
        PROVE  /\ IsFiniteSet(Holders(x))'
               /\ (Cardinality(Holders(x))' - Cardinality(Holders(x)))
                  + (One(x \in active') - One(x \in active))
                  + (ClosesNode(x)' - ClosesNode(x)) + (RunsNode(x)' - RunsNode(x))
                  = IF x \in S THEN delta ELSE 0
    <3>1. IsFiniteSet(Holders(x))' /\ Cardinality(Holders(x))' - Cardinality(Holders(x)) = 0
      BY <1>1, HoldersSame
    <3>2. ClosesNode(x)' - ClosesNode(x) = 0 /\ RunsNode(x)' - RunsNode(x) = 0
      BY <1>1, <1>3, PartsSame, FrameOfPoll DEF callbackVars
    <3>3. One(x \in active') - One(x \in active) = IF x \in S THEN delta ELSE 0
      BY <1>1, <2>1 DEF One
    <3>4. QED
      BY <3>1, <3>2, <3>3
  <2>3. node' = Add(S, delta)
    BY <1>1, <2>1
  <2>4. QED
    BY <2>2, <2>3, AddStep
<1>5. NodeShape'
  <2>1. \A n \in Things : thing'[n].life # "live" \/ n \in Methods => points'[n] = {}
    BY <1>1 DEF GcInv, NodeShape, callbackVars
  <2>2. node' = Add({h}, delta) /\ doomed' \subseteq doomed /\ on' = on
    BY <1>1
  <2>3. QED
    BY <1>1, <1>3, <2>1, <2>2, ActiveShape
<1>6. PollShape'
  BY <1>1, PollSame DEF callbackVars
<1>7. GcTypeOK'
  BY <1>1, <1>4 DEF GcInv, GcTypeOK
<1>8. QED
  BY <1>2, <1>4, <1>5, <1>6, <1>7 DEF GcInv

(* A callback begins or returns, and the nodes it runs on gain or lose an  *)
(* owner.                                                                  *)
LEMMA RunStep ==
  ASSUME GcInv, CountInv', NEW S, NEW delta \in {1, -1}, node' = Add(S, delta),
         UNCHANGED <<asked, write, uv, on, active, points, gc_data, doomed>>,
         \A n \in Things : thing'[n].life = thing[n].life /\ thing'[n].this = thing[n].this,
         \A x \in Nodes : RunsNode(x)' - RunsNode(x) = IF x \in S THEN delta ELSE 0,
         delta = 1 => \A x \in Nodes : x \in S => node[x].life = "live",
         \/ frame' = NoFrame
         \/ /\ frame'.kind = "poll" /\ frame'.handle \in Handles
            /\ frame'.cb.fn \in Functions /\ frame'.own = NullSlot,
         BoundAs(frame'.cb)
  PROVE  GcInv'
<1>1. node' \in [Nodes -> NodeObjects] /\ NodesCounted'
  <2>1. ASSUME NEW x \in Nodes
        PROVE  /\ IsFiniteSet(Holders(x))'
               /\ (Cardinality(Holders(x))' - Cardinality(Holders(x)))
                  + (One(x \in active') - One(x \in active))
                  + (ClosesNode(x)' - ClosesNode(x)) + (RunsNode(x)' - RunsNode(x))
                  = IF x \in S THEN delta ELSE 0
    <3>1. IsFiniteSet(Holders(x))' /\ Cardinality(Holders(x))' - Cardinality(Holders(x)) = 0
      BY HoldersSame
    <3>2. One(x \in active') - One(x \in active) = 0 /\ ClosesNode(x)' - ClosesNode(x) = 0
      BY PartsSame
    <3>3. PICK d \in Int : d = IF x \in S THEN delta ELSE 0
      OBVIOUS
    <3>4. RunsNode(x)' - RunsNode(x) = d
      BY <3>3
    <3>5. QED
      BY <3>1, <3>2, <3>3, <3>4
  <2>2. QED
    BY <2>1, AddStep
<1>2. NodeShape'
  <2>1. \A n \in Things : thing'[n].life # "live" \/ n \in Methods => points'[n] = {}
    BY DEF GcInv, NodeShape
  <2>2. QED
    BY <2>1, SameShape
<1>3. PollShape'
  <2>1. \A h \in Handles :
           /\ \A s \in Slots : s # "poll" \/ uv'[h].stage = "closed" => uv'[h].slot[s] = NullSlot
           /\ BoundAs(uv'[h].slot["poll"])
    BY DEF GcInv, PollShape
  <2>2. QED
    BY <2>1, PollStep
<1>4. GcTypeOK'
  BY <1>1 DEF GcInv, GcTypeOK
<1>5. QED
  BY <1>1, <1>2, <1>3, <1>4 DEF GcInv

LEMMA FrameFields ==
  ASSUME NEW kind, NEW h, NEW cb, NEW own, NEW ask, kind # "none"
  PROVE  /\ Frame(kind, h, cb, own, ask).kind = kind /\ Frame(kind, h, cb, own, ask).handle = h
         /\ Frame(kind, h, cb, own, ask).cb = cb /\ Frame(kind, h, cb, own, ask).own = own
         /\ Frame(kind, h, cb, own, ask) # NoFrame
BY DEF Frame, NoFrame

LEMMA GcPollCallbackKeeps ==
  ASSUME GcInv, NEW h \in Handles, GcPollCallback(h)
  PROVE  GcInv'
<1>1. CountInv /\ CountInv'
  BY PollCallKeeps DEF GcInv, KeepsInv, GcPollCallback
<1>2. PICK cb, ask : cb = uv[h].slot["poll"] /\ ask = Ask(cb.fn)
  OBVIOUS
<1>3. /\ frame = NoFrame /\ cb.fn # NoFunction
      /\ frame' = Frame("poll", h, cb, NullSlot, ask)
      /\ Count([n \in Things |-> Runs(cb.fn, n)])
      /\ UNCHANGED <<asked, write, uv, on, active, points, gc_data, doomed>>
      /\ node' = Add({h, on[h]}, 1) /\ h \in active
      /\ node[h].life = "live" /\ node[on[h]].life = "live"
  <2>1. h \in active /\ h \in Nodes
    BY GcTypes DEF GcPollCallback
  <2>2. node[h].life = "live"
    BY <2>1, OwnedNodeIsLive
  <2>3. QED
    BY <1>2, <2>1, <2>2 DEF GcPollCallback, php_uv_poll_cb, LoopRuns, Call, UsableNode
<1>4. /\ frame'.kind = "poll" /\ frame'.handle = h /\ frame'.cb = cb /\ frame'.own = NullSlot
      /\ frame' # NoFrame
  BY <1>3, FrameFields
<1>5. cb.fn \in Functions
  <2>1. cb \in Callbacks
    BY <1>1, <1>2, Types DEF Slots
  <2>2. QED
    BY <1>3, <2>1 DEF Callbacks
<1>6. BoundAs(frame'.cb)
  BY <1>2, <1>4 DEF GcInv, PollShape
<1>7. \A n \in Things : thing'[n].life = thing[n].life /\ thing'[n].this = thing[n].this
  BY <1>1, <1>3, CountSame
<1> PICK delta \in {1, -1} : delta = 1
  OBVIOUS
<1>8. PICK S : S = {h, on[h]}
  OBVIOUS
<1>9. \A x \in Nodes : RunsNode(x)' - RunsNode(x) = IF x \in S THEN delta ELSE 0
  BY <1>3, <1>4, <1>8 DEF RunsNode, One
<1>10. node' = Add(S, delta) /\ \A x \in Nodes : x \in S => node[x].life = "live"
  BY <1>3, <1>8
<1>11. QED
  BY <1>1, <1>3, <1>4, <1>5, <1>6, <1>7, <1>9, <1>10, RunStep

LEMMA GcReturnKeeps ==
  ASSUME GcInv, GcReturn
  PROVE  GcInv'
<1>1. CountInv /\ CountInv'
  BY ReturnKeeps DEF GcInv, KeepsInv, GcReturn
<1>2. /\ frame # NoFrame /\ frame' = NoFrame /\ frame.kind = "poll" /\ frame.handle \in Handles
      /\ node' = Add({frame.handle, on[frame.handle]}, -1)
      /\ UNCHANGED <<on, active, points, gc_data, doomed>>
  BY FrameOfPoll DEF GcReturn, ReturnFromCallback
<1>3. UNCHANGED <<asked, write, uv>> /\ \E delta : Count(delta)
  BY <1>2 DEF GcReturn, ReturnFromCallback
<1>4. \A n \in Things : thing'[n].life = thing[n].life /\ thing'[n].this = thing[n].this
  BY <1>1, <1>3, CountSame
<1>5. BoundAs(frame'.cb)
  BY <1>2, CallbackAssumption DEF BoundAs, NoFrame, Frame, NullSlot, Things
<1> PICK delta \in {1, -1} : delta = -1
  OBVIOUS
<1>6. PICK S : S = {frame.handle, on[frame.handle]}
  OBVIOUS
<1>7. \A x \in Nodes : RunsNode(x)' - RunsNode(x) = IF x \in S THEN delta ELSE 0
  BY <1>2, <1>3, <1>6 DEF RunsNode, One
<1>8. node' = Add(S, delta)
  BY <1>2, <1>6
<1>9. QED
  BY <1>1, <1>2, <1>3, <1>4, <1>5, <1>7, <1>8, RunStep

(* The handles S begin to close, and the destructors of marked run.        *)
LEMMA CloseStep ==
  ASSUME GcInv, NEW S \in SUBSET Handles, NEW marked \in SUBSET Nodes, php_uv_close(S, marked),
         \A h \in S : uv[h].stage = "open",
         \A x \in marked : node[x].life = "live",
         \A h \in Handles : uv[h].stage = "open" /\ (h \in marked \/ on[h] \in marked) => h \in S,
         UNCHANGED <<on, points, gc_data>>, doomed' \subseteq doomed
  PROVE  GcInv'
<1>1. /\ uv' = [h \in Handles |-> IF h \in S THEN [uv[h] EXCEPT !.stage = "closing"] ELSE uv[h]]
      /\ active' = active \ S
      /\ node' = [x \in Nodes |->
           [node[x] EXCEPT !.rc = @ + One(x \in S \ active), !.dtored = @ \/ x \in S \cup marked]]
      /\ UNCHANGED <<thing, asked, write, frame, drift, short>>
  BY DEF php_uv_close
<1>2. ASSUME NEW h \in Handles
      PROVE  /\ uv'[h] \in UvObjects /\ uv'[h].slot = uv[h].slot
             /\ h \in S => uv'[h].stage = "closing" /\ uv[h].stage = "open"
             /\ h \notin S => uv'[h] = uv[h]
  <2>1. uv[h] \in UvObjects /\ uv'[h] = IF h \in S THEN [uv[h] EXCEPT !.stage = "closing"] ELSE uv[h]
    BY <1>1, Types DEF GcInv
  <2>2. QED
    BY <2>1 DEF UvObjects
<1>3. CountInv'
  <2>1. uv' \in [Handles -> UvObjects]
    BY <1>1, <1>2
  <2>2. \A g \in Handles : uv'[g].stage # uv[g].stage => uv[g].stage = "open" /\ uv'[g].stage = "closing"
    BY <1>2
  <2>3. QED
    BY <1>1, <1>2, <2>1, <2>2, StagesStep DEF GcInv, KeepsInv
<1>4. ASSUME NEW x \in Nodes
      PROVE  /\ node'[x] \in NodeObjects
             /\ node'[x].life = node[x].life /\ node'[x].named = node[x].named
             /\ node'[x].dtored <=> (node[x].dtored \/ x \in S \/ x \in marked)
             /\ node'[x].rc = node[x].rc + (IF x \in S /\ x \notin active THEN 1 ELSE 0)
  <2>1. PICK b \in BOOLEAN : b = (node[x].dtored \/ x \in S \cup marked)
    OBVIOUS
  <2>2. PICK k \in {0, 1} : k = One(x \in S \ active)
    BY DEF One
  <2>3. node[x] \in NodeObjects /\ node'[x] = [node[x] EXCEPT !.rc = @ + k, !.dtored = b]
    BY <1>1, <2>1, <2>2, GcTypes
  <2>4. k = IF x \in S /\ x \notin active THEN 1 ELSE 0
    BY <2>2 DEF One
  <2>5. /\ node'[x] \in NodeObjects
        /\ node'[x].life = node[x].life /\ node'[x].named = node[x].named
        /\ node'[x].dtored = b /\ node'[x].rc = node[x].rc + k
    <3>1. PICK c \in Int : c = node[x].rc + k
      BY <2>3 DEF NodeObjects
    <3>2. node'[x] = [node[x] EXCEPT !.rc = c, !.dtored = b]
      BY <2>3, <3>1
    <3>3. QED
      BY <2>1, <2>3, <3>1, <3>2 DEF NodeObjects
  <2>6. node'[x].dtored <=> (node[x].dtored \/ x \in S \/ x \in marked)
    BY <2>1, <2>5, Zenon
  <2>7. QED
    BY <2>4, <2>5, <2>6
<1>5. ASSUME NEW x \in Nodes
      PROVE  /\ node'[x].life = node[x].life
             /\ IsFiniteSet(Holders(x))'
             /\ node'[x].rc = node[x].rc + (NodeOwners(x)' - NodeOwners(x))
             /\ NodeOwners(x)' > NodeOwners(x) => node[x].life = "live"
  <2>1. IsFiniteSet(Holders(x))' /\ Cardinality(Holders(x))' - Cardinality(Holders(x)) = 0
    BY HoldersSame
  <2>2. /\ One(x \in active') - One(x \in active) = IF x \in S /\ x \in active THEN -1 ELSE 0
        /\ ClosesNode(x)' - ClosesNode(x) = IF x \in S THEN 1 ELSE 0
        /\ RunsNode(x)' - RunsNode(x) = 0
        /\ One(node'[x].named) - One(node[x].named) = 0
    <3>1. One(x \in active') - One(x \in active) = IF x \in S /\ x \in active THEN -1 ELSE 0
      <4>1. active' = active \ S
        BY <1>1
      <4>2. x \in active' <=> (x \in active /\ x \notin S)
        BY <4>1
      <4>3. QED
        BY <4>2 DEF One
    <3>2. x \in Handles => (x \in S => uv'[x].stage = "closing" /\ uv[x].stage = "open")
                         /\ (x \notin S => uv'[x].stage = uv[x].stage)
      BY <1>2
    <3>3. ClosesNode(x)' - ClosesNode(x) = IF x \in S THEN 1 ELSE 0
      BY <3>2 DEF ClosesNode, One
    <3>4. RunsNode(x)' - RunsNode(x) = 0
      BY <1>1, PartsSame, FrameOfPoll
    <3>5. One(node'[x].named) - One(node[x].named) = 0
      BY <1>4, OneNumber
    <3>6. QED
      BY <3>1, <3>3, <3>4, <3>5
  <2>3. NodeOwners(x)' = NodeOwners(x) + (IF x \in S /\ x \notin active THEN 1 ELSE 0) /\ NodeOwners(x) \in Nat
    BY <2>1, <2>2, NodeOwnersChange, NodeOwnerNumbers
  <2>4. x \in S => node[x].life = "live"
    BY DEF GcInv, NodeShape
  <2>5. node[x].rc \in Int
    BY GcTypes DEF NodeObjects
  <2>6. QED
    BY <1>4, <2>1, <2>3, <2>4, <2>5
<1>6. NodesCounted'
  BY <1>5, NodeCountStep
<1>7. NodeShape'
  <2>1. NodeShape
    BY DEF GcInv
  <2>2. ASSUME NEW h \in Handles
        PROVE  /\ uv'[h].stage = "none" <=> node'[h].life = "none"
               /\ uv'[h].stage \in {"none", "open", "closing", "closed"}
               /\ uv'[h].stage = "open" <=> node'[h].life = "live" /\ ~node'[h].dtored
               /\ uv'[h].stage = "open" => node'[on[h]].life = "live" /\ ~node'[on[h]].dtored
               /\ uv'[h].stage = "closing" => node'[on[h]].life = "live"
               /\ h \in active' => uv'[h].stage = "open"
    <3>1. /\ h \in Nodes /\ on[h] \in Nodes /\ on[h] \notin S
          /\ node'[h].life = node[h].life /\ node'[on[h]].life = node[on[h]].life
          /\ node'[h].dtored <=> (node[h].dtored \/ h \in S \/ h \in marked)
          /\ node'[on[h]].dtored <=> (node[on[h]].dtored \/ on[h] \in marked)
      <4>1. h \in Nodes /\ on[h] \in Nodes /\ on[h] \notin S
        BY GcTypes
      <4>2. QED
        BY <1>4, <4>1
    <3>2. CASE h \in S
      <4>1. uv[h].stage = "open" /\ uv'[h].stage = "closing" /\ h \notin active'
        BY <1>1, <1>2, <3>2
      <4>2. node[h].life = "live" /\ node[on[h]].life = "live"
        BY <2>1, <4>1 DEF NodeShape
      <4>3. QED
        BY <3>1, <3>2, <4>1, <4>2
    <3>3. CASE h \notin S
      <4>1. uv'[h] = uv[h] /\ (h \in active' => h \in active)
        BY <1>1, <1>2, <3>3
      <4>2. uv[h].stage = "open" => h \notin marked /\ on[h] \notin marked
        BY <3>3
      <4>3. /\ uv[h].stage = "none" <=> node[h].life = "none"
            /\ uv[h].stage \in {"none", "open", "closing", "closed"}
            /\ uv[h].stage = "open" <=> node[h].life = "live" /\ ~node[h].dtored
            /\ uv[h].stage = "open" => node[on[h]].life = "live" /\ ~node[on[h]].dtored
            /\ uv[h].stage = "closing" => node[on[h]].life = "live"
            /\ h \in active => uv[h].stage = "open"
        BY <2>1 DEF NodeShape
      <4>4. QED
        BY <3>1, <3>3, <4>1, <4>2, <4>3
    <3>4. QED
      BY <3>2, <3>3
  <2>3. \A x \in Nodes : node'[x].life = "freed" => node'[x].dtored
    BY <1>4, <2>1 DEF NodeShape
  <2>4. \A x \in doomed' : node'[x].life # "none"
    BY <1>4, <2>1, GcTypes DEF NodeShape
  <2>5. \A n \in Things : thing'[n].life # "live" \/ n \in Methods => points'[n] = {}
    BY <1>1, <2>1 DEF NodeShape
  <2>6. QED
    BY <2>2, <2>3, <2>4, <2>5 DEF NodeShape
<1>8. PollShape'
  <2>1. \A g \in Handles : uv'[g].slot = uv[g].slot /\ (uv'[g].stage = "closed" => uv[g].stage = "closed")
    BY <1>2
  <2>2. QED
    BY <1>1, <2>1, PollSame
<1>9. GcTypeOK'
  <2>1. node' \in [Nodes -> NodeObjects] /\ active' \subseteq Handles /\ doomed' \subseteq Nodes
    BY <1>1, <1>4, GcTypes
  <2>2. QED
    BY <2>1 DEF GcInv, GcTypeOK
<1>10. QED
  BY <1>3, <1>6, <1>7, <1>8, <1>9 DEF GcInv

LEMMA GcCloseKeeps ==
  ASSUME GcInv, NEW h \in Handles, GcClose(h)
  PROVE  GcInv'
<1>1. PICK S, marked : S = {h} /\ marked = {}
  OBVIOUS
<1>2. php_uv_close(S, marked) /\ UNCHANGED <<on, points, gc_data, doomed>> /\ UsableNode(h)
  BY <1>1 DEF GcClose
<1>3. uv[h].stage = "open"
  BY <1>2, UsableIsLive DEF GcInv, NodeShape
<1>4. QED
  BY <1>1, <1>2, <1>3, CloseStep

LEMMA DestructStep ==
  ASSUME GcInv, NEW x \in Nodes, node[x].life = "live", ~node[x].dtored, Destruct(x),
         UNCHANGED <<on, points, gc_data>>, doomed' \subseteq doomed
  PROVE  GcInv'
<1>1. PICK S, marked : S = (IF x \in Loops THEN OpenOn(x) ELSE {x}) /\ marked = {x}
  OBVIOUS
<1>2. php_uv_close(S, marked)
  BY <1>1 DEF Destruct
<1>3. S \in SUBSET Handles /\ marked \in SUBSET Nodes /\ \A h \in S : uv[h].stage = "open"
  <2>1. CASE x \in Loops
    BY <1>1, <2>1 DEF OpenOn
  <2>2. CASE x \notin Loops
    BY <1>1, <2>2, GcTypes DEF GcInv, NodeShape
  <2>3. QED
    BY <2>1, <2>2
<1>4. \A h \in Handles : uv[h].stage = "open" /\ (h \in marked \/ on[h] \in marked) => h \in S
  BY <1>1, GcTypes DEF OpenOn
<1>5. \A y \in marked : node[y].life = "live"
  BY <1>1
<1>6. QED
  BY <1>2, <1>3, <1>4, <1>5, CloseStep

(* The destructor of a node that nothing counts, or its memory is freed.   *)
LEMMA ReleaseKeeps ==
  ASSUME GcInv, NEW x \in Nodes, Release(x)
  PROVE  GcInv'
<1>1. node[x].life = "live" /\ node[x].rc <= 0 /\ UNCHANGED <<on, points, gc_data, doomed>>
  BY DEF Release
<1>2. CASE ~node[x].dtored /\ Destruct(x)
  <2>1. doomed' \subseteq doomed
    BY <1>1
  <2>2. QED
    BY <1>1, <1>2, <2>1, DestructStep
<1>3. CASE /\ node[x].dtored
           /\ \A h \in Handles : x = on[h] => uv[h].stage # "closing"
           /\ node' = [node EXCEPT ![x].life = "freed"]
           /\ UNCHANGED <<callbackVars, active>>
  <2>1. CountInv'
    BY <1>3, StutterKeeps DEF GcInv, KeepsInv
  <2>2. /\ node' \in [Nodes -> NodeObjects]
        /\ node'[x].life = "freed" /\ node'[x].named = node[x].named /\ node'[x].dtored = node[x].dtored
        /\ \A y \in Nodes : y # x => node'[y] = node[y]
    <3>1. node \in [Nodes -> NodeObjects] /\ node[x] \in NodeObjects
      BY GcTypes
    <3>2. QED
      BY <1>3, <3>1 DEF NodeObjects
  <2>3. ASSUME NEW y \in Nodes
        PROVE  IsFiniteSet(Holders(y))' /\ NodeOwners(y)' = NodeOwners(y)
    <3>1. IsFiniteSet(Holders(y))' /\ Cardinality(Holders(y))' - Cardinality(Holders(y)) = 0
      BY <1>1, HoldersSame
    <3>2. /\ One(y \in active') - One(y \in active) = 0
          /\ ClosesNode(y)' - ClosesNode(y) = 0 /\ RunsNode(y)' - RunsNode(y) = 0
      BY <1>1, <1>3, PartsSame, FrameOfPoll DEF callbackVars
    <3>3. node'[y].named = node[y].named
      BY <2>2
    <3>4. One(node'[y].named) - One(node[y].named) = 0
      BY <3>3, OneNumber
    <3>5. QED
      BY <3>1, <3>2, <3>4, NodeOwnersChange, NodeOwnerNumbers
  <2>4. NodeOwners(x) = 0
    BY <1>1, NodeOwnerNumbers
  <2>5. NodesCounted'
    <3>1. {y \in Nodes : node'[y].life # "none"} = {y \in Nodes : node[y].life # "none"}
      BY <1>1, <2>2
    <3>2. IsFiniteSet({y \in Nodes : node'[y].life # "none"})
      BY <3>1 DEF GcInv, NodesCounted
    <3>3. ASSUME NEW y \in Nodes
          PROVE  IF node'[y].life = "live" THEN node'[y].rc = NodeOwners(y)' ELSE NodeOwners(y)' = 0
      <4>1. CASE y = x
        BY <2>2, <2>3, <2>4, <4>1
      <4>2. CASE y # x
        BY <2>2, <2>3, <4>2, NodeOwnerNumbers
      <4>3. QED
        BY <4>1, <4>2
    <3>4. QED
      BY <2>3, <3>2, <3>3 DEF NodesCounted
  <2>6. NodeShape'
    <3>1. NodeShape
      BY DEF GcInv
    <3>2. \A h \in Handles : h \in Nodes /\ on[h] \in Nodes
      BY GcTypes
    <3>3. \A y \in doomed : y \in Nodes
      BY GcTypes
    <3>4. ASSUME NEW h \in Handles
          PROVE  /\ uv'[h].stage = "none" <=> node'[h].life = "none"
                 /\ uv'[h].stage \in {"none", "open", "closing", "closed"}
                 /\ uv'[h].stage = "open" <=> node'[h].life = "live" /\ ~node'[h].dtored
                 /\ uv'[h].stage = "open" => node'[on'[h]].life = "live" /\ ~node'[on'[h]].dtored
                 /\ uv'[h].stage = "closing" => node'[on'[h]].life = "live"
                 /\ h \in active' => uv'[h].stage = "open"
      <4>1. /\ uv[h].stage = "none" <=> node[h].life = "none"
            /\ uv[h].stage \in {"none", "open", "closing", "closed"}
            /\ uv[h].stage = "open" <=> node[h].life = "live" /\ ~node[h].dtored
            /\ uv[h].stage = "open" => node[on[h]].life = "live" /\ ~node[on[h]].dtored
            /\ uv[h].stage = "closing" => node[on[h]].life = "live"
            /\ h \in active => uv[h].stage = "open"
        BY <3>1 DEF NodeShape
      <4>2. uv' = uv /\ on' = on /\ active' = active
        BY <1>1, <1>3 DEF callbackVars
      <4>3. h = x => uv[h].stage # "none" /\ uv[h].stage # "open"
        BY <1>1, <1>3, <4>1
      <4>4. on[h] = x => uv[h].stage # "open" /\ uv[h].stage # "closing"
        BY <1>3, <4>1
      <4>5. QED
        BY <1>1, <2>2, <3>2, <4>1, <4>2, <4>3, <4>4
    <3>5. \A y \in Nodes : node'[y].life = "freed" => node'[y].dtored
      BY <1>3, <2>2, <3>1 DEF NodeShape
    <3>6. \A y \in doomed' : node'[y].life # "none"
      BY <1>1, <2>2, <3>1, <3>3 DEF NodeShape
    <3>7. \A n \in Things : thing'[n].life # "live" \/ n \in Methods => points'[n] = {}
      BY <1>1, <1>3, <3>1 DEF NodeShape, callbackVars
    <3>8. QED
      BY <3>4, <3>5, <3>6, <3>7 DEF NodeShape
  <2>7. PollShape'
    BY <1>3, PollSame DEF callbackVars
  <2>8. GcTypeOK'
    BY <1>1, <1>3, <2>2 DEF GcInv, GcTypeOK
  <2>9. QED
    BY <2>1, <2>5, <2>6, <2>7, <2>8 DEF GcInv
<1>4. QED
  BY <1>2, <1>3 DEF Release

LEMMA CallDestructorKeeps ==
  ASSUME GcInv, NEW x \in Nodes, CallDestructor(x)
  PROVE  GcInv'
<1>1. /\ x \in doomed /\ doomed' \subseteq doomed /\ UNCHANGED <<on, points, gc_data>>
      /\ IF node[x].dtored THEN UNCHANGED <<callbackVars, node, active>> ELSE Destruct(x)
  BY DEF CallDestructor
<1>2. CASE ~node[x].dtored
  <2>1. node[x].life \in {"none", "live", "freed"}
    BY GcTypes DEF NodeObjects
  <2>2. node[x].life = "live"
    BY <1>1, <1>2, <2>1 DEF GcInv, NodeShape
  <2>3. QED
    BY <1>1, <1>2, <2>2, DestructStep
<1>3. CASE node[x].dtored
  <2>1. UNCHANGED <<callbackVars, node, active>>
    BY <1>1, <1>3
  <2>2. CountInv'
    BY <2>1, StutterKeeps DEF GcInv, KeepsInv
  <2>3. NodesCounted'
    BY <1>1, <2>1, NodesSame DEF callbackVars
  <2>4. NodeShape'
    <3>1. \A n \in Things : thing'[n].life # "live" \/ n \in Methods => points'[n] = {}
      BY <1>1, <2>1 DEF GcInv, NodeShape, callbackVars
    <3>2. QED
      BY <1>1, <2>1, <3>1, ShapeSame DEF callbackVars
  <2>5. PollShape'
    BY <2>1, PollSame DEF callbackVars
  <2>6. GcTypeOK'
    BY <1>1, <2>1 DEF GcInv, GcTypeOK
  <2>7. QED
    BY <2>2, <2>3, <2>4, <2>5, <2>6 DEF GcInv
<1>4. QED
  BY <1>2, <1>3

(* The close of h is reported, while a callback of another loop may run.   *)
LEMMA CleanKeeps ==
  ASSUME CountInv, NEW h \in Handles, Defined, uv[h].stage = "closing", asked[h] = <<>>,
         frame.kind \notin {"close", "after_work"},
         Count(clean_uv_handle(h)), uv' = [uv EXCEPT ![h] = Cleaned(h)],
         UNCHANGED <<asked, write, frame, drift, short>>
  PROVE  CountInv'
<1>1. /\ uv' \in [Handles -> UvObjects] /\ uv'[h].stage = "closed"
      /\ \A t \in Slots : uv'[h].slot[t] = NullSlot
      /\ \A g \in Handles : g # h => uv'[g] = uv[g]
      /\ \A g \in Handles, t \in Slots : g # h => uv'[g].slot[t] = uv[g].slot[t]
  BY CleanedFacts
<1>2. PICK delta : delta = clean_uv_handle(h)
  OBVIOUS
<1>3. ASSUME NEW n \in Things
      PROVE  /\ delta[n] \in Int /\ IsFiniteSet(SlotsOf(n))' /\ IsFiniteSet(WritesOf(n))'
             /\ delta[n] = (Cardinality(SlotsOf(n))' - Cardinality(SlotsOf(n)))
                           + (Cardinality(WritesOf(n))' - Cardinality(WritesOf(n)))
                           + (Owns(frame'.own, n) - Owns(frame.own, n))
                           + (Runs(frame'.cb.fn, n) - Runs(frame.cb.fn, n))
             /\ delta[n] > 0 => thing[n].life = "live"
  <2>1. IsFiniteSet(SlotsOf(n))
    BY OwnerNumbers
  <2>2. /\ IsFiniteSet(SlotsOf(n))'
        /\ Cardinality(SlotsOf(n)) \in Nat /\ Cardinality(SlotsOf(n))' \in Nat
        /\ Cardinality(SlotsOf(n))' = Cardinality(SlotsOf(n)) + delta[n]
        /\ delta[n] \in Int
    BY <1>1, <1>2, <2>1, CleanChange
  <2>3. IsFiniteSet(WritesOf(n))' /\ Cardinality(WritesOf(n))' - Cardinality(WritesOf(n)) = 0
    BY WritesSame
  <2>4. /\ Owns(frame'.own, n) - Owns(frame.own, n) = 0
        /\ Runs(frame'.cb.fn, n) - Runs(frame.cb.fn, n) = 0
    BY FrameSame
  <2>5. ~(delta[n] > 0)
    BY <1>2, CleanLoses
  <2>6. QED
    BY <2>2, <2>3, <2>4, <2>5
<1>4. /\ thing' \in [Things -> ThingObjects]
      /\ \A o \in Objects : thing'[o].this = NoObject
      /\ CountsExact' /\ NoneFreedEarly'
  <2>1. Count(delta) /\ UNCHANGED <<drift, short>>
    BY <1>2
  <2>2. QED
    BY <1>3, <2>1, OwnStep
<1>5. SlotShape'
  <2>1. SlotShape
    BY DEF CountInv
  <2>2. ASSUME NEW k \in Handles
        PROVE  /\ uv'[k].stage = "none" => \A s \in Slots : uv'[k].slot[s] = NullSlot
               /\ uv'[k].stage = "open" => uv'[k].slot["close"] = NullSlot
               /\ uv'[k].stage \in {"queued", "running", "finished"} => uv'[k].slot["work"].fn \in Functions
               /\ asked'[k] # <<>> => uv'[k].stage \in {"open", "closing"}
    <3>1. CASE k = h
      BY <1>1, <3>1
    <3>2. CASE k # h
      BY <1>1, <2>1, <3>2 DEF SlotShape
    <3>3. QED
      BY <3>1, <3>2
  <2>3. frame'.kind \notin {"close", "after_work"}
    OBVIOUS
  <2>4. QED
    BY <2>2, <2>3 DEF SlotShape
<1>6. AskedMatches'
  <2>1. ASSUME NEW k \in Handles, NEW i \in DOMAIN asked'[k]
        PROVE  asked'[k][i].overtaken \/ asked'[k][i].fn = uv'[k].slot["send"].fn
    <3>1. CASE k = h
      BY <2>1, <3>1
    <3>2. CASE k # h
      BY <1>1, <2>1, <3>2 DEF CountInv, AskedMatches
    <3>3. QED
      BY <3>1, <3>2
  <2>2. QED
    BY <2>1 DEF CountInv, AskedMatches
<1>7. CallbackTypeOK'
  BY <1>1, <1>4, Types DEF CallbackTypeOK, ThingObjects, UvObjects, WriteObjects, Frames
<1>8. QED
  BY <1>4, <1>5, <1>6, <1>7 DEF CountInv

(* The close of a handle is reported: its slots are released, and so is    *)
(* the reference that the close had.                                       *)
LEMMA GcCloseCbKeeps ==
  ASSUME GcInv, NEW h \in Handles, GcCloseCb(h)
  PROVE  GcInv'
<1>1. /\ Defined /\ uv[h].stage = "closing"
      /\ frame # NoFrame => on[frame.handle] # on[h]
      /\ Count(clean_uv_handle(h)) /\ uv' = [uv EXCEPT ![h] = Cleaned(h)]
      /\ node' = Add({h}, -1)
      /\ UNCHANGED <<asked, write, frame, drift, short, on, active, points, gc_data, doomed>>
  BY DEF GcCloseCb
<1>2. CountInv /\ asked[h] = <<>> /\ frame.kind \notin {"close", "after_work"}
  BY FrameOfPoll DEF GcInv, PollShape, NoFrame, Frame
<1>3. CountInv'
  BY <1>1, <1>2, CleanKeeps
<1>4. /\ uv'[h].stage = "closed" /\ \A t \in Slots : uv'[h].slot[t] = NullSlot
      /\ \A g \in Handles : g # h => uv'[g] = uv[g]
  BY <1>1, <1>2, CleanedFacts
<1>5. \A n \in Things : thing'[n].life = thing[n].life /\ thing'[n].this = thing[n].this
  <2>1. PICK delta : Count(delta)
    BY <1>1
  <2>2. QED
    BY <1>2, <2>1, CountSame
<1> PICK delta \in {1, -1} : delta = -1
  OBVIOUS
<1>6. PICK S : S = {h}
  OBVIOUS
<1>7. node' = Add(S, delta)
  BY <1>1, <1>6
<1>8. node' \in [Nodes -> NodeObjects] /\ NodesCounted'
  <2>1. ASSUME NEW x \in Nodes
        PROVE  /\ IsFiniteSet(Holders(x))'
               /\ (Cardinality(Holders(x))' - Cardinality(Holders(x)))
                  + (One(x \in active') - One(x \in active))
                  + (ClosesNode(x)' - ClosesNode(x)) + (RunsNode(x)' - RunsNode(x))
                  = IF x \in S THEN delta ELSE 0
    <3>1. IsFiniteSet(Holders(x))' /\ Cardinality(Holders(x))' - Cardinality(Holders(x)) = 0
      BY <1>1, HoldersSame
    <3>2. One(x \in active') - One(x \in active) = 0 /\ RunsNode(x)' - RunsNode(x) = 0
      BY <1>1, PartsSame, FrameOfPoll
    <3>3. ClosesNode(x)' - ClosesNode(x) = IF x \in S THEN delta ELSE 0
      BY <1>1, <1>4, <1>6 DEF ClosesNode, One
    <3>4. QED
      BY <3>1, <3>2, <3>3
  <2>2. QED
    BY <1>7, <2>1, AddStep
<1>9. \A x \in Nodes : node'[x].life = node[x].life /\ node'[x].dtored = node[x].dtored
  <2>1. delta \in Int
    OBVIOUS
  <2>2. QED
    BY <1>7, <2>1, AddFacts
<1>10. NodeShape'
  <2>1. NodeShape
    BY DEF GcInv
  <2>2. ASSUME NEW g \in Handles
        PROVE  /\ uv'[g].stage = "none" <=> node'[g].life = "none"
               /\ uv'[g].stage \in {"none", "open", "closing", "closed"}
               /\ uv'[g].stage = "open" <=> node'[g].life = "live" /\ ~node'[g].dtored
               /\ uv'[g].stage = "open" => node'[on'[g]].life = "live" /\ ~node'[on'[g]].dtored
               /\ uv'[g].stage = "closing" => node'[on'[g]].life = "live"
               /\ g \in active' => uv'[g].stage = "open"
    <3>1. g \in Nodes /\ on[g] \in Nodes
      BY GcTypes
    <3>2. /\ uv[g].stage = "none" <=> node[g].life = "none"
          /\ uv[g].stage \in {"none", "open", "closing", "closed"}
          /\ uv[g].stage = "open" <=> node[g].life = "live" /\ ~node[g].dtored
          /\ uv[g].stage = "open" => node[on[g]].life = "live" /\ ~node[on[g]].dtored
          /\ uv[g].stage = "closing" => node[on[g]].life = "live"
          /\ g \in active => uv[g].stage = "open"
      BY <2>1 DEF NodeShape
    <3>3. /\ node'[g].life = node[g].life /\ node'[g].dtored = node[g].dtored
          /\ node'[on[g]].life = node[on[g]].life /\ node'[on[g]].dtored = node[on[g]].dtored
          /\ on' = on /\ active' = active
      BY <1>1, <1>9, <3>1
    <3>4. CASE g = h
      BY <1>1, <1>4, <3>2, <3>3, <3>4
    <3>5. CASE g # h
      BY <1>4, <3>2, <3>3, <3>5
    <3>6. QED
      BY <3>4, <3>5
  <2>3. \A x \in Nodes : node'[x].life = "freed" => node'[x].dtored
    BY <1>9, <2>1 DEF NodeShape
  <2>4. \A x \in doomed' : node'[x].life # "none"
    <3>1. \A x \in doomed : x \in Nodes /\ node[x].life # "none"
      BY <2>1, GcTypes DEF NodeShape
    <3>2. doomed' = doomed
      BY <1>1
    <3>3. QED
      BY <1>9, <3>1, <3>2
  <2>5. \A n \in Things : thing'[n].life # "live" \/ n \in Methods => points'[n] = {}
    BY <1>1, <1>5, <2>1 DEF NodeShape
  <2>6. QED
    BY <2>2, <2>3, <2>4, <2>5 DEF NodeShape
<1>11. PollShape'
  <2>1. /\ \A g \in Handles : \A s \in Slots : s # "poll" \/ uv[g].stage = "closed" => uv[g].slot[s] = NullSlot
        /\ \A g \in Handles : BoundAs(uv[g].slot["poll"])
        /\ BoundAs(frame.cb)
    BY DEF GcInv, PollShape
  <2>2. BoundAs(NullSlot)
    BY CallbackAssumption DEF BoundAs, NullSlot, Things
  <2>3. ASSUME NEW g \in Handles
        PROVE  /\ \A s \in Slots : s # "poll" \/ uv'[g].stage = "closed" => uv'[g].slot[s] = NullSlot
               /\ BoundAs(uv'[g].slot["poll"])
    <3>1. CASE g = h
      BY <1>4, <2>2, <3>1 DEF Slots
    <3>2. CASE g # h
      BY <1>4, <2>1, <3>2
    <3>3. QED
      BY <3>1, <3>2
  <2>4. BoundAs(frame'.cb)
    BY <1>1, <2>1
  <2>5. \/ frame' = NoFrame
        \/ /\ frame'.kind = "poll" /\ frame'.handle \in Handles
           /\ frame'.cb.fn \in Functions /\ frame'.own = NullSlot
    BY <1>1, FrameOfPoll
  <2>6. QED
    BY <1>1, <1>5, <2>3, <2>4, <2>5, PollStep
<1>12. GcTypeOK'
  BY <1>1, <1>8 DEF GcInv, GcTypeOK
<1>13. QED
  BY <1>3, <1>8, <1>10, <1>11, <1>12 DEF GcInv

(* What a slot's report says stands in the second word.                    *)
LEMMA WordTypes ==
  ASSUME GcInv, NEW h \in Handles
  PROVE  SecondWord(h) \in Objects \cup {NoObject, Unwritten}
<1>1. uv[h].slot["poll"] \in Callbacks
  BY Types DEF GcInv, Slots
<1>2. uv[h].slot["poll"].object \in Objects \cup {NoObject}
  BY <1>1 DEF Callbacks
<1>3. QED
  BY <1>2, GcTypes DEF SecondWord

(* A run of the collector finds what it then destroys.                     *)
LEMMA CollectKeeps ==
  ASSUME GcInv, gc_collect_cycles
  PROVE  GcInv'
<1>1. /\ doomed' \subseteq Undestroyed
      /\ gc_data' = [h \in Handles |-> IF h \in Undestroyed THEN SecondWord(h) ELSE gc_data[h]]
      /\ UNCHANGED <<node, on, active, points>> /\ UNCHANGED callbackVars
  BY DEF gc_collect_cycles
<1>2. CountInv'
  BY <1>1, StutterKeeps DEF GcInv, KeepsInv
<1>3. NodesCounted'
  BY <1>1, NodesSame DEF callbackVars
<1>4. PollShape'
  BY <1>1, PollSame DEF callbackVars
<1>5. \A x \in doomed' : x \in Nodes /\ node[x].life = "live"
  BY <1>1 DEF Undestroyed
<1>6. NodeShape'
  <2>1. NodeShape
    BY DEF GcInv
  <2>2. UNCHANGED <<node, on, active, points, uv, thing>>
    BY <1>1 DEF callbackVars
  <2>3. QED
    BY <1>5, <2>1, <2>2 DEF NodeShape
<1>7. GcTypeOK'
  <2>1. gc_data' \in [Handles -> Objects \cup {NoObject, Unwritten}]
    BY <1>1, WordTypes, GcTypes
  <2>2. QED
    BY <1>1, <1>5, <2>1 DEF GcInv, GcTypeOK
<1>8. QED
  BY <1>2, <1>3, <1>4, <1>6, <1>7 DEF GcInv

LEMMA GcInitInv == GcInit => GcInv
<1> SUFFICES ASSUME GcInit PROVE GcInv
  OBVIOUS
<1>1. CountInv
  BY CallbackInit DEF GcInit, CallbackInv
<1>2. /\ Init
      /\ node = [x \in Nodes |->
           IF x = DefaultLoop THEN [NoNode EXCEPT !.life = "live", !.rc = 1] ELSE NoNode]
      /\ on = [h \in Handles |-> DefaultLoop] /\ active = {}
      /\ points = [n \in Things |-> {}] /\ gc_data = [h \in Handles |-> Unwritten] /\ doomed = {}
  BY DEF GcInit
<1>3. DefaultLoop \in Nodes /\ DefaultLoop \in Loops /\ \A h \in Handles : h \in Nodes /\ h # DefaultLoop
  BY GcAssumption DEF Nodes
<1>4. /\ NoNode \in NodeObjects /\ NoNode.life = "none" /\ NoNode.rc = 0
      /\ NoNode.named = FALSE /\ NoNode.dtored = FALSE
      /\ [NoNode EXCEPT !.life = "live", !.rc = 1] \in NodeObjects
      /\ [NoNode EXCEPT !.life = "live", !.rc = 1].life = "live"
      /\ [NoNode EXCEPT !.life = "live", !.rc = 1].rc = 1
      /\ [NoNode EXCEPT !.life = "live", !.rc = 1].named = FALSE
      /\ [NoNode EXCEPT !.life = "live", !.rc = 1].dtored = FALSE
  <2>1. PICK b \in BOOLEAN, c \in BOOLEAN : b = FALSE /\ c = FALSE
    OBVIOUS
  <2>2. NoNode = [life |-> "none", rc |-> 0, named |-> b, dtored |-> c]
    BY <2>1 DEF NoNode
  <2>3. PICK r : r = [NoNode EXCEPT !.life = "live", !.rc = 1]
    OBVIOUS
  <2>4. r = [life |-> "live", rc |-> 1, named |-> b, dtored |-> c]
    BY <2>2, <2>3
  <2>5. NoNode \in NodeObjects /\ r \in NodeObjects
    BY <2>2, <2>4 DEF NodeObjects
  <2>6. /\ NoNode.life = "none" /\ NoNode.rc = 0 /\ NoNode.named = FALSE /\ NoNode.dtored = FALSE
        /\ r.life = "live" /\ r.rc = 1 /\ r.named = FALSE /\ r.dtored = FALSE
    BY <2>1, <2>2, <2>4
  <2>7. QED
    BY <2>3, <2>5, <2>6
<1>5. /\ node \in [Nodes -> NodeObjects]
      /\ node[DefaultLoop].life = "live" /\ node[DefaultLoop].rc = 1
      /\ ~node[DefaultLoop].named /\ ~node[DefaultLoop].dtored
      /\ \A x \in Nodes : x # DefaultLoop => node[x].life = "none" /\ ~node[x].named
  BY <1>2, <1>3, <1>4
<1>6. /\ frame = NoFrame
      /\ \A h \in Handles : /\ uv[h].stage = "none" /\ asked[h] = <<>>
                            /\ \A s \in Slots : uv[h].slot[s] = NullSlot
      /\ \A w \in Writes : write[w] = NoWrite
      /\ \A n \in Things : thing[n].life = "none"
  BY <1>2 DEF Init, Absent
<1>7. NodesCounted
  <2>1. {x \in Nodes : node[x].life # "none"} = {DefaultLoop}
    BY <1>3, <1>5
  <2>2. IsFiniteSet({x \in Nodes : node[x].life # "none"})
    BY <2>1, FS_Singleton
  <2>3. ASSUME NEW x \in Nodes
        PROVE  /\ Holders(x) = {}
               /\ NodeOwners(x) = IF x = DefaultLoop THEN 1 ELSE 0
    <3>1. Holders(x) = {}
      BY <1>2 DEF Holders
    <3>2. Cardinality(Holders(x)) = 0
      BY <3>1, FS_EmptySet
    <3>3. /\ One(node[x].named) = 0 /\ One(x \in active) = 0
          /\ ClosesNode(x) = 0 /\ RunsNode(x) = 0
      BY <1>2, <1>5, <1>6 DEF One, ClosesNode, RunsNode
    <3>4. NodeOwners(x) = One(node[x].named) + One(x = DefaultLoop) + Cardinality(Holders(x))
                          + One(x \in active) + ClosesNode(x) + RunsNode(x)
      BY DEF NodeOwners, ClosesNode, RunsNode
    <3>5. One(x = DefaultLoop) = IF x = DefaultLoop THEN 1 ELSE 0
      BY DEF One
    <3>6. QED
      BY <3>1, <3>2, <3>3, <3>4, <3>5
  <2>4. \A x \in Nodes : IsFiniteSet(Holders(x))
    BY <2>3, FS_EmptySet
  <2>5. QED
    BY <1>5, <2>2, <2>3, <2>4 DEF NodesCounted
<1>8. NodeShape
  BY <1>2, <1>3, <1>5, <1>6 DEF NodeShape
<1>9. BoundAs(NullSlot) /\ BoundAs(NoFrame.cb)
  BY CallbackAssumption DEF BoundAs, NullSlot, NoFrame, Frame, Things
<1>10. PollShape
  BY <1>6, <1>9 DEF PollShape, Slots
<1>11. GcTypeOK
  BY <1>2, <1>3, <1>5, GcAssumption DEF GcTypeOK
<1>12. QED
  BY <1>1, <1>7, <1>8, <1>10, <1>11 DEF GcInv

LEMMA GcStutterKeeps ==
  ASSUME GcInv, UNCHANGED gcVars
  PROVE  GcInv'
<1>1. UNCHANGED callbackVars /\ UNCHANGED <<node, on, active, points, gc_data, doomed>>
  BY DEF gcVars
<1>2. CountInv'
  BY <1>1, StutterKeeps DEF GcInv, KeepsInv
<1>3. NodesCounted'
  BY <1>1, NodesSame DEF callbackVars
<1>4. PollShape'
  BY <1>1, PollSame DEF callbackVars
<1>5. NodeShape'
  BY <1>1 DEF GcInv, NodeShape, callbackVars
<1>6. GcTypeOK'
  BY <1>1 DEF GcInv, GcTypeOK
<1>7. QED
  BY <1>2, <1>3, <1>4, <1>5, <1>6 DEF GcInv

LEMMA GcNextKeeps == GcInv /\ [GcNext]_gcVars => GcInv'
<1> SUFFICES ASSUME GcInv, [GcNext]_gcVars PROVE GcInv'
  OBVIOUS
<1>1. CASE Quiet /\ QuietNext
  <2>1. ASSUME NEW o \in Objects, GcNewObject(o) \/ \E x \in Nodes : SetProperty(o, x)
        PROVE  GcInv'
    <3>1. o \in Things
      BY DEF Things
    <3>2. QED
      BY <2>1, <3>1, GcThingKeeps, SetPropertyKeeps
  <2>2. ASSUME NEW f \in Functions, NEW o \in Objects \cup {NoObject},
               NEW captured \in {{}} \cup {{x} : x \in Nodes}, GcNewFunction(f, o, captured)
        PROVE  GcInv'
    <3>1. captured \in SUBSET Nodes
      OBVIOUS
    <3>2. QED
      BY <2>2, <3>1, GcNewFunctionKeeps
  <2>3. ASSUME NEW n \in Things, GcUnset(n)
        PROVE  GcInv'
    BY <2>3, GcThingKeeps
  <2>4. ASSUME NEW h \in Handles,
               \/ \E l \in Loops : uv_poll_init(h, l)
               \/ \E f \in Functions : GcPollStart(h, f)
               \/ uv_poll_stop(h) \/ GcPollCallback(h) \/ GcClose(h)
        PROVE  GcInv'
    BY <2>4, PollInitKeeps, GcPollStartKeeps, PollStopKeeps, GcPollCallbackKeeps, GcCloseKeeps
  <2>5. QED
    BY <1>1, <2>1, <2>2, <2>3, <2>4, UnsetNodeKeeps, LoopNewKeeps, GcReturnKeeps, CollectKeeps
    DEF QuietNext
<1>2. CASE \E n \in Things : GcFree(n)
  BY <1>2, GcFreeKeeps
<1>3. CASE \E x \in Nodes : Release(x) \/ CallDestructor(x)
  BY <1>3, ReleaseKeeps, CallDestructorKeeps
<1>4. CASE \E h \in Handles : GcCloseCb(h)
  BY <1>4, GcCloseCbKeeps
<1>5. CASE UNCHANGED gcVars
  BY <1>5, GcStutterKeeps
<1>6. QED
  BY <1>1, <1>2, <1>3, <1>4, <1>5 DEF GcNext

(* Every function, object, handle and loop is counted for exactly what     *)
(* owns it, through closes, destructors and runs of the collector          *)
(* (php_uv_close, destruct_uv_loop, php_uv_get_gc).                        *)
THEOREM GcInvariant == GcSafety => []GcInv
<1>1. GcInit => GcInv
  BY GcInitInv
<1>2. GcInv /\ [GcNext]_gcVars => GcInv'
  BY GcNextKeeps
<1>3. QED
  BY <1>1, <1>2, PTL DEF GcSafety

-----------------------------------------------------------------------------
(* The collector.                                                          *)

(* Reach has S in it, is closed under next, and is the least such set.     *)
LEMMA ReachFacts ==
  ASSUME NEW S, NEW next
  PROVE  /\ Reach(S, next) \subseteq All
         /\ \A n \in All : n \in S => n \in Reach(S, next)
         /\ \A n \in Reach(S, next), m \in All : m \in next[n] => m \in Reach(S, next)
         /\ \A C : /\ C \subseteq All /\ S \subseteq C
                   /\ \A n \in C : next[n] \subseteq C
                   => Reach(S, next) \subseteq C
BY DEF Reach

LEMMA ReachLeast ==
  ASSUME NEW S, NEW next, NEW C \in SUBSET All, S \subseteq C,
         \A n \in C : next[n] \subseteq C
  PROVE  Reach(S, next) \subseteq C
BY DEF Reach

LEMMA AllFacts ==
  /\ \A n \in Things : n \in All /\ n \notin Nodes /\ n \notin Handles /\ n \notin Loops
  /\ \A x \in Nodes : x \in All /\ x \notin Things
  /\ \A h \in Handles : h \in All /\ h \in Nodes /\ h \notin Loops /\ h \notin Things
  /\ \A l \in Loops : l \in All /\ l \in Nodes /\ l \notin Handles /\ l \notin Things
  /\ \A n \in All : n \in Things \/ n \in Handles \/ n \in Loops
  /\ NoObject \notin All /\ NoFunction \notin Things /\ Unwritten \notin Things
BY GcAssumption, CallbackAssumption DEF All, Nodes

(* What each live object reports, by its kind.                             *)
LEMMA ReportsOf ==
  ASSUME GcInv, NEW n \in All, NEW m \in All
  PROVE  m \in Reported[n] <=>
           /\ Live(n)
           /\ \/ n \in Handles /\ node[n].life = "live" /\ ~node[n].dtored
                 /\ m \in Things /\ (m = uv[n].slot["poll"].fn \/ m = SecondWord(n))
              \/ n \in Loops /\ ~node[n].dtored /\ m \in active /\ on[m] = n
              \/ n \in Things /\ (m \in points[n] \/ m = thing[n].this)
<1>1. Reported[n] =
        IF ~Live(n) THEN {}
        ELSE CASE n \in Handles -> php_uv_get_gc(n)
               [] n \in Loops   -> php_uv_loop_get_gc(n)
               [] n \in Things  -> (points[n] \cup {thing[n].this}) \cap All
  BY DEF Reported
<1>2. CASE ~Live(n)
  BY <1>1, <1>2
<1>3. CASE Live(n) /\ n \in Handles
  <2>1. n \notin Loops /\ n \notin Things /\ node[n].life = "live"
    BY <1>3, AllFacts DEF Live
  <2>2. Reported[n] = php_uv_get_gc(n)
    BY <1>1, <1>3, <2>1
  <2>3. QED
    BY <1>3, <2>1, <2>2 DEF php_uv_get_gc
<1>4. CASE Live(n) /\ n \in Loops
  <2>1. n \notin Handles /\ n \notin Things
    BY <1>4, AllFacts
  <2>2. Reported[n] = php_uv_loop_get_gc(n)
    BY <1>1, <1>4, <2>1
  <2>3. active \subseteq Handles
    BY GcTypes
  <2>4. QED
    BY <1>4, <2>1, <2>2, <2>3 DEF php_uv_loop_get_gc, php_uv_loop_get_gc_walk_cb
<1>5. CASE Live(n) /\ n \in Things
  <2>1. n \notin Handles /\ n \notin Loops
    BY <1>5, AllFacts
  <2>2. Reported[n] = (points[n] \cup {thing[n].this}) \cap All
    BY <1>1, <1>5, <2>1
  <2>3. QED
    BY <1>5, <2>1, <2>2
<1>6. QED
  BY <1>2, <1>3, <1>4, <1>5, AllFacts

(* What each live object leads to.                                         *)
LEMMA LeadsOf ==
  ASSUME GcInv, NEW n \in All, NEW m
  PROVE  m \in Leads[n] <=>
           /\ Live(n)
           /\ \/ /\ n \in Handles /\ node[n].life = "live" /\ ~node[n].dtored
                 /\ m \in Things /\ (m = uv[n].slot["poll"].fn \/ m = uv[n].slot["poll"].object)
              \/ n \in Loops /\ m \in active /\ on[m] = n
              \/ n \in Things /\ m \in All /\ (m \in points[n] \/ m = thing[n].this)
<1>1. Leads[n] =
        IF ~Live(n) THEN {}
        ELSE CASE n \in Handles ->
                    LET s == IF uv[n].stage = "open" THEN "poll" ELSE "close"
                    IN  {uv[n].slot[s].fn, uv[n].slot[s].object} \cap Things
               [] n \in Loops   -> {h \in active : on[h] = n}
               [] n \in Things  -> (points[n] \cup {thing[n].this}) \cap All
  BY DEF Leads
<1>2. CASE ~Live(n)
  BY <1>1, <1>2
<1>3. CASE Live(n) /\ n \in Handles
  <2>1. n \notin Loops /\ n \notin Things /\ node[n].life = "live"
    BY <1>3, AllFacts DEF Live
  <2>2. uv[n].stage = "open" <=> ~node[n].dtored
    BY <1>3, <2>1 DEF GcInv, NodeShape
  <2>3. CASE uv[n].stage = "open"
    <3>1. Leads[n] = {uv[n].slot["poll"].fn, uv[n].slot["poll"].object} \cap Things
      BY <1>1, <1>3, <2>1, <2>3
    <3>2. QED
      BY <1>3, <2>1, <2>2, <2>3, <3>1
  <2>4. CASE uv[n].stage # "open"
    <3>1. Leads[n] = {uv[n].slot["close"].fn, uv[n].slot["close"].object} \cap Things
      BY <1>1, <1>3, <2>1, <2>4
    <3>2. uv[n].slot["close"] = NullSlot
      BY <1>3 DEF GcInv, PollShape, Slots
    <3>3. Leads[n] = {}
      BY <3>1, <3>2, CallbackAssumption DEF NullSlot
    <3>4. QED
      BY <2>1, <2>2, <2>4, <3>3
  <2>5. QED
    BY <2>3, <2>4
<1>4. CASE Live(n) /\ n \in Loops
  <2>1. n \notin Handles /\ n \notin Things
    BY <1>4, AllFacts
  <2>2. QED
    BY <1>1, <1>4, <2>1
<1>5. CASE Live(n) /\ n \in Things
  <2>1. n \notin Handles /\ n \notin Loops
    BY <1>5, AllFacts
  <2>2. QED
    BY <1>1, <1>5, <2>1
<1>6. QED
  BY <1>2, <1>3, <1>4, <1>5, AllFacts

(* The polls whose callback is n or is bound to it; those that report n;   *)
(* those that report it for an earlier callback.                           *)
PollsOf(n) == {h \in Handles : n = uv[h].slot["poll"].fn \/ n = uv[h].slot["poll"].object}
PollsReporting(n) ==
  {h \in Handles : h \in Undestroyed /\ (n = uv[h].slot["poll"].fn \/ n = SecondWord(h))}
Earlier(n) == {h \in Handles : ReportsEarlier(h, n)}

LEMMA HandlesFinite ==
  ASSUME GcInv, NEW S \in SUBSET Handles, \A h \in S : node[h].life # "none"
  PROVE  IsFiniteSet(S) /\ Cardinality(S) \in Nat
<1>1. S \in SUBSET {x \in Nodes : node[x].life # "none"}
  BY GcTypes
<1>2. IsFiniteSet({x \in Nodes : node[x].life # "none"})
  BY DEF GcInv, NodesCounted
<1>3. IsFiniteSet(S)
  BY <1>1, <1>2, FS_Subset
<1>4. QED
  BY <1>3, FS_CardinalityType

(* A slot of a handle that is neither open nor being closed owns nothing.  *)
LEMMA PollHolds ==
  ASSUME GcInv, NEW n \in Things, NEW h \in PollsOf(n)
  PROVE  /\ uv[h].stage \in {"open", "closing"} /\ node[h].life # "none"
         /\ uv[h].stage = "open" <=> h \in Undestroyed
<1>1. h \in Handles /\ h \in Nodes /\ uv[h].slot["poll"] # NullSlot
  BY GcTypes, CallbackAssumption DEF PollsOf, NullSlot
<1>2. uv[h].stage # "none" /\ uv[h].stage # "closed"
  BY <1>1 DEF GcInv, CountInv, SlotShape, PollShape, Slots
<1>3. QED
  BY <1>1, <1>2 DEF GcInv, NodeShape, Undestroyed

LEMMA PollsCounted ==
  ASSUME GcInv, NEW n \in Things
  PROVE  /\ IsFiniteSet(PollsOf(n)) /\ Cardinality(PollsOf(n)) \in Nat
         /\ Cardinality(SlotsOf(n)) = Cardinality(PollsOf(n))
<1> DEFINE S == PollsOf(n)
           T == SlotsOf(n)
           f == [h \in S |-> <<h, "poll">>]
<1>1. \A h \in S : <<h, "poll">> \in T
  BY DEF SlotsOf, PollsOf, Owns, One, Slots
<1>2. \A p \in T : p[1] \in S /\ p = <<p[1], "poll">>
  <2>1. ASSUME NEW p \in T
        PROVE  p[1] \in S /\ p = <<p[1], "poll">>
    <3>1. p \in Handles \X Slots /\ Owns(uv[p[1]].slot[p[2]], n) = 1
      BY DEF SlotsOf
    <3>2. uv[p[1]].slot[p[2]] # NullSlot
      BY <3>1, NullOwnsNothing
    <3>3. p[2] = "poll"
      BY <3>1, <3>2 DEF GcInv, PollShape
    <3>4. QED
      BY <3>1, <3>3 DEF PollsOf, Owns, One
  <2>2. QED
    BY <2>1
<1>3. f \in Bijection(S, T)
  <2>1. f \in [S -> T]
    BY <1>1
  <2>2. \A g, h \in S : f[g] = f[h] => g = h
    OBVIOUS
  <2>3. \A p \in T : \E h \in S : f[h] = p
    BY <1>2
  <2> HIDE DEF f, S, T
  <2>4. QED
    BY <2>1, <2>2, <2>3, Fun_IsBij
<1>4. IsFiniteSet(T)
  BY OwnerNumbers DEF GcInv
<1> HIDE DEF f, S, T
<1>5. ExistsBijection(T, S)
  BY <1>3, Fun_ExistsBij, Fun_ExistsBijSymmetric
<1>6. IsFiniteSet(S) /\ Cardinality(T) = Cardinality(S) /\ Cardinality(S) \in Nat
  BY <1>4, <1>5, FS_Bijection, FS_CardinalityType
<1>7. QED
  BY <1>6 DEF S, T

(* What owns a live function or object when there are only polls.          *)
LEMMA ThingCount ==
  ASSUME GcInv, NEW n \in Things, thing[n].life = "live"
  PROVE  /\ thing[n].rc = One(thing[n].named) + Cardinality(BoundTo(n)) + Cardinality(PollsOf(n))
                          + Runs(frame.cb.fn, n) + Wrong(n)
         /\ One(thing[n].named) \in {0, 1} /\ Runs(frame.cb.fn, n) \in {0, 1}
         /\ IsFiniteSet(BoundTo(n)) /\ Cardinality(BoundTo(n)) \in Nat
         /\ IsFiniteSet(PollsOf(n)) /\ Cardinality(PollsOf(n)) \in Nat
         /\ Wrong(n) \in Int
<1>1. CountInv
  BY DEF GcInv
<1>2. WritesOf(n) = {}
  <2>1. \A w \in Writes : write[w].cb = NullSlot
    BY DEF GcInv, PollShape, NoWrite
  <2>2. Owns(NullSlot, n) = 0
    BY NullOwnsNothing
  <2>3. QED
    BY <2>1, <2>2 DEF WritesOf
<1>3. Cardinality(WritesOf(n)) = 0
  BY <1>2, FS_EmptySet
<1>4. Owns(frame.own, n) = 0
  <2>1. frame.own = NullSlot
    BY FrameOfPoll DEF NoFrame, Frame
  <2>2. QED
    BY <2>1, NullOwnsNothing
<1>5. thing[n].rc = Owners(n) + Wrong(n)
  BY <1>1 DEF CountInv, CountsExact
<1>6. Wrong(n) \in Int
  BY <1>1, Types
<1>7. /\ Owners(n) = One(thing[n].named) + Cardinality(BoundTo(n)) + Cardinality(SlotsOf(n))
                     + Cardinality(WritesOf(n)) + Owns(frame.own, n) + Runs(frame.cb.fn, n)
      /\ One(thing[n].named) \in {0, 1} /\ Runs(frame.cb.fn, n) \in {0, 1}
      /\ IsFiniteSet(BoundTo(n)) /\ Cardinality(BoundTo(n)) \in Nat
  BY <1>1, OwnerNumbers
<1>8. QED
  BY <1>3, <1>4, <1>5, <1>6, <1>7, PollsCounted

(* A function or an object is reported by the closures that are bound to   *)
(* it and by the handles whose slots name it.                              *)
LEMMA ThingReporters ==
  ASSUME GcInv, NEW n \in Things
  PROVE  /\ IsFiniteSet(PollsReporting(n)) /\ Cardinality(PollsReporting(n)) \in Nat
         /\ Cardinality(Reporters(n)) = Cardinality(BoundTo(n)) + Cardinality(PollsReporting(n))
<1>1. IsFiniteSet(PollsReporting(n)) /\ Cardinality(PollsReporting(n)) \in Nat
  <2>1. PollsReporting(n) \in SUBSET Handles /\ \A h \in PollsReporting(n) : node[h].life # "none"
    BY DEF PollsReporting, Undestroyed
  <2>2. QED
    BY <2>1, HandlesFinite
<1>2. Reporters(n) = BoundTo(n) \cup PollsReporting(n)
  <2>1. n \in All /\ n \notin Nodes
    BY AllFacts
  <2>2. ASSUME NEW m \in All
        PROVE  m \in Reporters(n) <=> m \in BoundTo(n) \/ m \in PollsReporting(n)
    <3>1. m \in Reporters(n) <=> Live(m) /\ n \in Reported[m]
      BY DEF Reporters
    <3>2. CASE m \in Things
      <4>1. m \notin Handles /\ m \notin Loops
        BY <3>2, AllFacts
      <4>2. n \notin points[m]
        BY <2>1, <3>2, GcTypes
      <4>3. Live(m) <=> thing[m].life = "live"
        BY <3>2 DEF Live
      <4>4. thing[m].this = n => m \in Functions
        <5>1. m \in Objects => thing[m].this = NoObject
          BY DEF GcInv, CountInv, CallbackTypeOK
        <5>2. QED
          BY <3>2, <5>1, CallbackAssumption DEF Things
      <4>5. QED
        BY <2>1, <3>1, <3>2, <4>1, <4>2, <4>3, <4>4, ReportsOf DEF BoundTo, PollsReporting
    <3>3. CASE m \in Handles
      <4>1. m \notin Things /\ m \notin Loops /\ m \in Nodes
        BY <3>3, AllFacts
      <4>2. m \notin BoundTo(n)
        BY <4>1 DEF BoundTo, Things
      <4>3. Live(m) <=> node[m].life = "live"
        BY <4>1 DEF Live
      <4>4. QED
        BY <2>1, <3>1, <3>3, <4>1, <4>2, <4>3, ReportsOf DEF PollsReporting, Undestroyed
    <3>4. CASE m \in Loops
      <4>1. m \notin Things /\ m \notin Handles /\ n \notin active
        BY <3>4, AllFacts, GcTypes
      <4>2. m \notin BoundTo(n) /\ m \notin PollsReporting(n)
        BY <4>1 DEF BoundTo, Things, PollsReporting
      <4>3. QED
        BY <2>1, <3>1, <4>1, <4>2, ReportsOf
    <3>5. QED
      BY <3>2, <3>3, <3>4, AllFacts
  <2>3. Reporters(n) \subseteq All /\ BoundTo(n) \subseteq All /\ PollsReporting(n) \subseteq All
    BY AllFacts DEF Reporters, BoundTo, PollsReporting, Things
  <2>4. QED
    BY <2>2, <2>3
<1>3. BoundTo(n) \cap PollsReporting(n) = {}
  BY AllFacts DEF BoundTo, PollsReporting, Things
<1>4. IsFiniteSet(BoundTo(n)) /\ Cardinality(BoundTo(n)) \in Nat
  BY OwnerNumbers DEF GcInv
<1>5. PICK A, B : A = BoundTo(n) /\ B = PollsReporting(n)
  OBVIOUS
<1>6. Cardinality(A \cup B) = Cardinality(A) + Cardinality(B) - Cardinality(A \cap B)
  BY <1>1, <1>4, <1>5, FS_Union
<1>7. Cardinality(A \cap B) = 0
  BY <1>3, <1>5, FS_EmptySet
<1>8. QED
  BY <1>1, <1>2, <1>4, <1>5, <1>6, <1>7

(* A handle or a loop is reported by whatever holds it in a property or    *)
(* captured it, a handle also by the loop it is active on.                 *)
LEMMA NodeReporters ==
  ASSUME GcInv, NEW x \in Nodes
  PROVE  Cardinality(Reporters(x)) = Cardinality(Holders(x)) + One(x \in active)
<1>1. x \in All /\ x \notin Things /\ x # NoObject
  BY AllFacts
<1>2. x \in active => /\ x \in Handles /\ on[x] \in Loops
                      /\ node[on[x]].life = "live" /\ ~node[on[x]].dtored
  BY GcTypes DEF GcInv, NodeShape
<1>3. PICK L : L = IF x \in active THEN {on[x]} ELSE {}
  OBVIOUS
<1>4. Reporters(x) = Holders(x) \cup L
  <2>1. ASSUME NEW m \in All
        PROVE  m \in Reporters(x) <=> m \in Holders(x) \/ m \in L
    <3>1. m \in Reporters(x) <=> Live(m) /\ x \in Reported[m]
      BY DEF Reporters
    <3>2. CASE m \in Things
      <4>1. m \notin Handles /\ m \notin Loops /\ m \notin L
        BY <1>2, <1>3, <3>2, AllFacts
      <4>2. x # thing[m].this
        <5>1. thing[m] \in ThingObjects
          BY <3>2, Types DEF GcInv
        <5>2. thing[m].this \in Objects \cup {NoObject}
          BY <5>1 DEF ThingObjects
        <5>3. QED
          BY <1>1, <5>2 DEF Things
      <4>3. Live(m) <=> thing[m].life = "live"
        BY <3>2 DEF Live
      <4>4. x \in points[m] => thing[m].life = "live"
        BY <3>2 DEF GcInv, NodeShape
      <4>5. QED
        BY <1>1, <3>1, <3>2, <4>1, <4>2, <4>3, <4>4, ReportsOf DEF Holders
    <3>3. CASE m \in Handles
      <4>1. m \notin Things /\ m \notin Loops /\ m \notin L
        BY <1>2, <1>3, <3>3, AllFacts
      <4>2. QED
        BY <1>1, <3>1, <4>1, ReportsOf DEF Holders
    <3>4. CASE m \in Loops
      <4>1. m \notin Things /\ m \notin Handles
        BY <3>4, AllFacts
      <4>2. Live(m) <=> node[m].life = "live"
        BY <4>1 DEF Live
      <4>3. m \in L <=> x \in active /\ on[x] = m
        BY <1>3
      <4>4. QED
        BY <1>1, <1>2, <3>1, <3>4, <4>1, <4>2, <4>3, ReportsOf DEF Holders
    <3>5. QED
      BY <3>2, <3>3, <3>4, AllFacts
  <2>2. Reporters(x) \subseteq All /\ Holders(x) \subseteq All /\ L \subseteq All
    BY <1>2, <1>3, AllFacts DEF Reporters, Holders
  <2>3. QED
    BY <2>1, <2>2
<1>5. IsFiniteSet(Holders(x)) /\ Cardinality(Holders(x)) \in Nat
  BY NodeOwnerNumbers
<1>6. CASE x \in active
  <2>1. on[x] \notin Holders(x)
    BY <1>2, <1>6, AllFacts DEF Holders
  <2>2. Cardinality(Holders(x) \cup {on[x]}) = Cardinality(Holders(x)) + 1
    BY <1>5, <2>1, FS_AddElement
  <2>3. QED
    BY <1>3, <1>4, <1>6, <2>2 DEF One
<1>7. CASE x \notin active
  BY <1>3, <1>4, <1>5, <1>7 DEF One
<1>8. QED
  BY <1>6, <1>7

(* A node is counted from elsewhere exactly when a variable names it, it   *)
(* is the extension's, a callback runs on it or its close is not reported. *)
LEMMA ExternalNode ==
  ASSUME GcInv, NEW x \in Nodes
  PROVE  /\ x \in External <=> /\ node[x].life = "live"
                               /\ One(node[x].named) + One(x = DefaultLoop) + ClosesNode(x) + RunsNode(x) > 0
         /\ (\/ node[x].named \/ x = DefaultLoop \/ (x \in Handles /\ uv[x].stage = "closing")
             \/ frame # NoFrame /\ (x = frame.handle \/ x = on[frame.handle]))
            => x \in External \/ node[x].life # "live"
<1>1. x \in External <=> node[x].life = "live" /\ node[x].rc > Cardinality(Reporters(x))
  BY AllFacts DEF External, Live, Rc
<1>2. Cardinality(Reporters(x)) = Cardinality(Holders(x)) + One(x \in active)
  BY NodeReporters
<1>3. /\ Cardinality(Holders(x)) \in Nat
      /\ NodeOwners(x) = One(node[x].named) + One(x = DefaultLoop) + Cardinality(Holders(x))
                         + One(x \in active) + ClosesNode(x) + RunsNode(x)
      /\ One(node[x].named) \in {0, 1} /\ One(x = DefaultLoop) \in {0, 1}
      /\ One(x \in active) \in {0, 1} /\ ClosesNode(x) \in {0, 1} /\ RunsNode(x) \in {0, 1}
      /\ node[x].life = "live" => node[x].rc = NodeOwners(x)
  BY NodeOwnerNumbers
<1>4. x \in External <=> /\ node[x].life = "live"
                         /\ One(node[x].named) + One(x = DefaultLoop) + ClosesNode(x) + RunsNode(x) > 0
  BY <1>1, <1>2, <1>3
<1>5. /\ node[x].named => One(node[x].named) = 1
      /\ x = DefaultLoop => One(x = DefaultLoop) = 1
      /\ x \in Handles /\ uv[x].stage = "closing" => ClosesNode(x) = 1
      /\ frame # NoFrame /\ (x = frame.handle \/ x = on[frame.handle]) => RunsNode(x) = 1
  BY DEF One, ClosesNode, RunsNode
<1>6. QED
  BY <1>3, <1>4, <1>5

(* The reports on a function or an object are no more than its slots and   *)
(* the second words that name it for an earlier callback.                  *)
LEMMA ReportsBound ==
  ASSUME GcInv, NEW n \in Things
  PROVE  /\ IsFiniteSet(Earlier(n)) /\ Cardinality(Earlier(n)) \in Nat
         /\ Cardinality(PollsReporting(n)) <= Cardinality(PollsOf(n)) + Cardinality(Earlier(n))
         /\ \A h \in PollsOf(n) : h \notin Undestroyed =>
              Cardinality(PollsReporting(n)) <= Cardinality(PollsOf(n)) - 1 + Cardinality(Earlier(n))
         /\ n \in Functions => Cardinality(Earlier(n)) = 0
<1>1. IsFiniteSet(Earlier(n)) /\ Cardinality(Earlier(n)) \in Nat
  <2>1. Earlier(n) \in SUBSET Handles /\ \A h \in Earlier(n) : node[h].life # "none"
    BY DEF Earlier, ReportsEarlier, Undestroyed
  <2>2. QED
    BY <2>1, HandlesFinite
<1>2. IsFiniteSet(PollsOf(n)) /\ Cardinality(PollsOf(n)) \in Nat
  BY PollsCounted
<1>3. \A h \in PollsReporting(n) : h \in Earlier(n) \/ (h \in PollsOf(n) /\ h \in Undestroyed)
  BY DEF PollsReporting, PollsOf, Earlier, ReportsEarlier
<1>4. ASSUME NEW P, IsFiniteSet(P), \A h \in PollsReporting(n) : h \in Earlier(n) \/ h \in P
      PROVE  Cardinality(PollsReporting(n)) <= Cardinality(P) + Cardinality(Earlier(n))
  <2>1. PICK A, B, C : A = Earlier(n) /\ B = PollsReporting(n) /\ C = A \cap P
    OBVIOUS
  <2>2. /\ IsFiniteSet(P \cup A)
        /\ Cardinality(P \cup A) = Cardinality(P) + Cardinality(A) - Cardinality(P \cap A)
    BY <1>1, <1>4, <2>1, FS_Union
  <2>3. IsFiniteSet(P \cap A)
    <3>1. P \cap A \in SUBSET P
      OBVIOUS
    <3>2. QED
      BY <1>4, <3>1, FS_Subset
  <2>4. B \in SUBSET (P \cup A)
    BY <1>4, <2>1
  <2>5. Cardinality(B) <= Cardinality(P \cup A)
    BY <2>2, <2>4, FS_Subset
  <2>6. /\ Cardinality(P) \in Nat /\ Cardinality(A) \in Nat /\ Cardinality(P \cap A) \in Nat
        /\ IsFiniteSet(B) /\ Cardinality(B) \in Nat
    BY <1>1, <1>4, <2>1, <2>2, <2>3, <2>4, FS_Subset, FS_CardinalityType
  <2>7. QED
    BY <2>1, <2>2, <2>5, <2>6
<1>5. ASSUME NEW h \in PollsOf(n), h \notin Undestroyed
      PROVE  Cardinality(PollsReporting(n)) <= Cardinality(PollsOf(n)) - 1 + Cardinality(Earlier(n))
  <2>1. PICK A, P : A = PollsOf(n) /\ P = A \ {h}
    OBVIOUS
  <2>2. IsFiniteSet(P) /\ Cardinality(P) = Cardinality(A) - 1
    BY <1>2, <1>5, <2>1, FS_RemoveElement
  <2>3. \A g \in PollsReporting(n) : g \in Earlier(n) \/ g \in P
    BY <1>3, <1>5, <2>1
  <2>4. QED
    BY <1>4, <2>1, <2>2, <2>3
<1>6. n \in Functions => Cardinality(Earlier(n)) = 0
  <2>1. ASSUME n \in Functions PROVE Earlier(n) = {}
    <3>1. n \notin Objects /\ n # NoObject /\ n # Unwritten
      BY <2>1, CallbackAssumption, GcAssumption DEF Things
    <3>2. \A h \in Handles : SecondWord(h) # n
      BY <3>1, WordTypes
    <3>3. QED
      BY <3>2 DEF Earlier, ReportsEarlier
  <2>2. QED
    BY <2>1, FS_EmptySet
<1>7. QED
  BY <1>1, <1>2, <1>3, <1>4, <1>5, <1>6

(* What a variable or a running closure holds is counted from elsewhere:   *)
(* what is counted for a replaced callback makes up for the reports of it. *)
LEMMA ExternalThing ==
  ASSUME GcInv, NEW n \in Things, thing[n].life = "live",
         n \in Objects => ~Uncovered(n)
  PROVE  /\ thing[n].named => n \in External
         /\ frame.cb.fn = n /\ n \notin Methods => n \in External
         /\ n \in Objects /\ RunsUnheld(n) => n \in External
         /\ \A h \in PollsOf(n) : h \notin Undestroyed => n \in External
<1>1. n \in External <=> thing[n].rc > Cardinality(Reporters(n))
  BY AllFacts DEF External, Live, Rc
<1>2. /\ thing[n].rc = One(thing[n].named) + Cardinality(BoundTo(n)) + Cardinality(PollsOf(n))
                       + Runs(frame.cb.fn, n) + Wrong(n)
      /\ One(thing[n].named) \in {0, 1} /\ Runs(frame.cb.fn, n) \in {0, 1}
      /\ Cardinality(BoundTo(n)) \in Nat /\ Cardinality(PollsOf(n)) \in Nat
      /\ Wrong(n) \in Int
  BY ThingCount
<1>3. /\ Cardinality(PollsReporting(n)) \in Nat
      /\ Cardinality(Reporters(n)) = Cardinality(BoundTo(n)) + Cardinality(PollsReporting(n))
  BY ThingReporters
<1>4. PICK unheld \in {0, 1} : unheld = One(n \in Objects /\ RunsUnheld(n))
  BY DEF One
<1>5. Cardinality(Earlier(n)) \in Nat /\ Cardinality(Earlier(n)) + unheld <= Wrong(n)
  <2>1. Cardinality(Earlier(n)) \in Nat
    BY ReportsBound
  <2>2. CASE n \in Objects
    <3>1. Wrong(n) = drift[n] /\ unheld = One(RunsUnheld(n))
      BY <1>4, <2>2 DEF Wrong, One
    <3>2. ~(Cardinality(Earlier(n)) + One(RunsUnheld(n)) > drift[n])
      BY <2>2 DEF Uncovered, Earlier
    <3>3. QED
      BY <1>2, <2>1, <3>1, <3>2
  <2>3. CASE n \notin Objects
    <3>1. n \in Functions /\ Wrong(n) = 0 /\ unheld = 0
      BY <1>4, <2>3 DEF Things, Wrong, One
    <3>2. QED
      BY <2>1, <3>1, ReportsBound
  <2>4. QED
    BY <2>2, <2>3
<1>6. Cardinality(PollsReporting(n)) <= Cardinality(PollsOf(n)) + Cardinality(Earlier(n))
  BY ReportsBound
<1>7. One(thing[n].named) + Runs(frame.cb.fn, n) + unheld > 0 => n \in External
  BY <1>1, <1>2, <1>3, <1>5, <1>6
<1>8. /\ thing[n].named => One(thing[n].named) = 1
      /\ frame.cb.fn = n /\ n \notin Methods => Runs(frame.cb.fn, n) = 1
      /\ n \in Objects /\ RunsUnheld(n) => unheld = 1
  BY <1>4 DEF One, Runs
<1>9. ASSUME NEW h \in PollsOf(n), h \notin Undestroyed PROVE n \in External
  <2>1. Cardinality(PollsReporting(n)) <= Cardinality(PollsOf(n)) - 1 + Cardinality(Earlier(n))
    BY <1>9, ReportsBound
  <2>2. QED
    BY <1>1, <1>2, <1>3, <1>5, <2>1
<1>10. QED
  BY <1>2, <1>7, <1>8, <1>9

(* Open handles report what their slots lead to, and nothing else unless   *)
(* their second word is left from an earlier callback.                     *)
LEMMA LeadsReported ==
  ASSUME GcInv, NEW n \in All, NEW m \in All
  PROVE  /\ m \in Leads[n] => m \in Reported[n]
         /\ m \in Reported[n] /\ (\A h \in Handles : m \in Objects => ~ReportsEarlier(h, m)) => m \in Leads[n]
<1>1. n \in Loops /\ m \in active /\ on[m] = n => ~node[n].dtored
  BY GcTypes DEF GcInv, NodeShape
<1>2. ASSUME n \in Handles, m \in Things, m = uv[n].slot["poll"].object
      PROVE  m = SecondWord(n)
  BY <1>2, AllFacts DEF SecondWord
<1>3. ASSUME n \in Handles, n \in Undestroyed, m \in Things, m = SecondWord(n), m \in Objects => ~ReportsEarlier(n, m)
      PROVE  m = uv[n].slot["poll"].object
  <2>1. m \in Objects
    BY <1>3, WordTypes, AllFacts
  <2>2. QED
    BY <1>3, <2>1 DEF ReportsEarlier
<1>4. n \in Handles /\ node[n].life = "live" /\ ~node[n].dtored => n \in Undestroyed
  BY GcTypes DEF Undestroyed
<1>5. m \in Leads[n] => m \in Reported[n]
  BY <1>1, <1>2, ReportsOf, LeadsOf
<1>6. ASSUME m \in Reported[n], \A h \in Handles : m \in Objects => ~ReportsEarlier(h, m)
      PROVE  m \in Leads[n]
  BY <1>3, <1>4, <1>6, ReportsOf, LeadsOf
<1>7. QED
  BY <1>5, <1>6

LEMMA CompleteStep == GcInv => CollectorComplete
<1> SUFFICES ASSUME GcInv, Quiet,
                    \A o \in Objects : drift[o] = 0 /\ \A h \in Handles : ~ReportsEarlier(h, o),
                    \A h \in Handles : uv[h].stage # "closing"
             PROVE  \A x \in Undestroyed \ Needed : x \in Garbage
  BY Zenon DEF CollectorComplete
<1>1. /\ Roots \subseteq All
      /\ \A n \in All : n \in Roots <=>
           \/ n \in Things /\ thing[n].named
           \/ n \in Nodes /\ (node[n].named \/ n = DefaultLoop)
           \/ frame # NoFrame /\ n \in {frame.handle, on[frame.handle], frame.cb.fn, frame.cb.object}
           \/ n \in Handles /\ uv[n].stage = "closing"
  BY GcTypes, AllFacts DEF Roots
<1>2. /\ \A n \in All : n \in Roots => n \in Needed
      /\ \A n \in Needed, m \in All : m \in Leads[n] => m \in Needed
      /\ Needed \subseteq All
  BY ReachFacts DEF Needed
<1>3. \A n \in Needed : Reported[n] \subseteq Needed
  <2>1. ASSUME NEW n \in Needed, NEW m \in Reported[n]
        PROVE  m \in Needed
    <3>1. n \in All
      BY <1>2
    <3>2. m \in All
      <4>1. Reported[n] \subseteq All
        <5>1. points[n] \subseteq Nodes \/ n \notin Things
          BY GcTypes
        <5>2. CASE n \in Things
          <6>1. n \notin Handles /\ n \notin Loops
            BY <5>2, AllFacts
          <6>2. QED
            BY <3>1, <5>2, <6>1 DEF Reported
        <5>3. CASE n \in Handles
          <6>1. n \notin Things /\ n \notin Loops
            BY <5>3, AllFacts
          <6>2. QED
            BY <3>1, <5>3, <6>1 DEF Reported, php_uv_get_gc, All
        <5>4. CASE n \in Loops
          <6>1. n \notin Things /\ n \notin Handles
            BY <5>4, AllFacts
          <6>2. QED
            BY <3>1, <5>4, <6>1, AllFacts DEF Reported, php_uv_loop_get_gc
        <5>5. QED
          BY <3>1, <5>2, <5>3, <5>4, AllFacts
      <4>2. QED
        BY <2>1, <4>1
    <3>3. m \in Leads[n]
      BY <2>1, <3>1, <3>2, LeadsReported
    <3>4. QED
      BY <1>2, <2>1, <3>2, <3>3
  <2>2. QED
    BY <2>1
<1>4. External \subseteq Needed
  <2>1. ASSUME NEW m \in External, m \notin Needed
        PROVE  FALSE
    <3>1. m \in All /\ m \notin Roots /\ Live(m) /\ Rc(m) > Cardinality(Reporters(m))
      BY <1>2, <2>1 DEF External
    <3>2. CASE m \in Nodes
      <4>1. /\ One(node[m].named) = 0 /\ One(m = DefaultLoop) = 0
            /\ ClosesNode(m) = 0 /\ RunsNode(m) = 0
        BY <1>1, <3>1, <3>2, AllFacts DEF One, ClosesNode, RunsNode
      <4>2. One(node[m].named) + One(m = DefaultLoop) + ClosesNode(m) + RunsNode(m) > 0
        BY <2>1, <3>2, ExternalNode
      <4>3. QED
        BY <4>1, <4>2
    <3>3. CASE m \in Things
      <4>1. thing[m].life = "live" /\ thing[m].rc > Cardinality(Reporters(m))
        BY <3>1, <3>3 DEF Live, Rc
      <4>2. One(thing[m].named) = 0 /\ Runs(frame.cb.fn, m) = 0
        <5>1. ~thing[m].named
          BY <1>1, <3>1, <3>3
        <5>2. frame.cb.fn # m
          <6>1. CASE frame = NoFrame
            BY <3>3, <6>1, AllFacts DEF NoFrame, Frame, NullSlot
          <6>2. CASE frame # NoFrame
            BY <1>1, <3>1, <6>2
          <6>3. QED
            BY <6>1, <6>2
        <5>3. QED
          BY <5>1, <5>2 DEF One, Runs
      <4>3. Wrong(m) = 0
        BY DEF Wrong
      <4>4. PollsOf(m) \in SUBSET PollsReporting(m)
        <5>1. ASSUME NEW h \in PollsOf(m)
              PROVE  h \in PollsReporting(m)
          <6>1. h \in Handles /\ h \in Undestroyed
            BY <3>3, PollHolds DEF PollsOf
          <6>2. m = uv[h].slot["poll"].fn \/ m = SecondWord(h)
            BY <3>3, AllFacts DEF PollsOf, SecondWord
          <6>3. QED
            BY <6>1, <6>2 DEF PollsReporting
        <5>2. QED
          BY <5>1
      <4>5. Cardinality(PollsOf(m)) <= Cardinality(PollsReporting(m))
        BY <3>3, <4>4, ThingReporters, FS_Subset
      <4>6. QED
        BY <3>3, <4>1, <4>2, <4>3, <4>5, ThingCount, ThingReporters
    <3>4. QED
      BY <3>1, <3>2, <3>3, AllFacts
  <2>2. QED
    BY <2>1
<1>5. Reach(External, Reported) \subseteq Needed
  BY <1>2, <1>3, <1>4, ReachLeast
<1>6. \A x \in Undestroyed : x \in All /\ Live(x)
  BY AllFacts DEF Undestroyed, Live
<1>7. QED
  BY <1>5, <1>6 DEF Garbage

(* What is not needed is found by the next run of the collector, once the  *)
(* closes that have begun are reported, if no count is too high and no     *)
(* report names an earlier object (php_uv_get_gc, php_uv_loop_get_gc).     *)
THEOREM GcCollectorComplete == GcSafety => []CollectorComplete
<1>1. GcInv => CollectorComplete
  BY CompleteStep
<1>2. QED
  BY <1>1, GcInvariant, PTL

(* Quiet states have nothing freed that is owned.                          *)
LEMMA RunningFnLive ==
  ASSUME GcInv, Defined, frame # NoFrame
  PROVE  /\ frame.cb.fn \in Functions /\ frame.cb.fn \in Things /\ frame.cb.fn # frame.cb.object
         /\ frame.cb.object \in Objects \cup {NoObject}
         /\ frame.cb.fn \notin Methods => /\ thing[frame.cb.fn].life = "live"
                                          /\ thing[frame.cb.fn].this = frame.cb.object
         /\ thing[frame.cb.fn].life = "live" => thing[frame.cb.fn].this = frame.cb.object
<1>1. frame.cb.fn \in Functions
  BY FrameOfPoll
<1>2. frame.cb.object \in Objects \cup {NoObject}
  <2>1. frame.cb \in Callbacks
    BY Types DEF GcInv, Frames
  <2>2. QED
    BY <2>1 DEF Callbacks
<1>3. frame.cb.fn \in Things /\ frame.cb.fn # frame.cb.object
  BY <1>1, <1>2, CallbackAssumption DEF Things
<1>4. \/ thing[frame.cb.fn].life = "freed"
      \/ (thing[frame.cb.fn].life = "live" /\ thing[frame.cb.fn].this = frame.cb.object)
  BY <1>1 DEF GcInv, PollShape, BoundAs
<1>5. frame.cb.fn \notin Methods => thing[frame.cb.fn].life # "freed"
  <2>1. ASSUME frame.cb.fn \notin Methods PROVE Owners(frame.cb.fn) > 0
    <3>1. Runs(frame.cb.fn, frame.cb.fn) = 1
      BY <2>1 DEF Runs, One
    <3>2. PICK f : f = frame.cb.fn
      OBVIOUS
    <3>3. /\ Cardinality(BoundTo(f)) \in Nat /\ Cardinality(SlotsOf(f)) \in Nat
          /\ Cardinality(WritesOf(f)) \in Nat /\ One(thing[f].named) \in {0, 1}
          /\ Owns(frame.own, f) \in {0, 1}
          /\ Owners(f) = One(thing[f].named) + Cardinality(BoundTo(f)) + Cardinality(SlotsOf(f))
                         + Cardinality(WritesOf(f)) + Owns(frame.own, f) + Runs(frame.cb.fn, f)
      BY <1>3, <3>2, OwnerNumbers DEF GcInv
    <3>4. QED
      BY <3>1, <3>2, <3>3
  <2>2. QED
    BY <1>3, <2>1 DEF Defined, Dangling
<1>6. QED
  BY <1>1, <1>2, <1>3, <1>4, <1>5

(* An object that a callback runs on is reached, or counted from elsewhere.*)
LEMMA RunningObject ==
  ASSUME GcInv, Defined, frame # NoFrame, NEW R, R = Reach(External, Reported),
         frame.cb.object \in Objects, thing[frame.cb.object].life = "live",
         ~Uncovered(frame.cb.object),
         frame.cb.fn \notin Methods => frame.cb.fn \in R
  PROVE  frame.cb.object \in R
<1>1. PICK o, f, h : o = frame.cb.object /\ f = frame.cb.fn /\ h = frame.handle
  OBVIOUS
<1>2. /\ \A n \in All : n \in External => n \in R
      /\ \A n \in R, m \in All : m \in Reported[n] => m \in R
  BY ReachFacts
<1>3. /\ f \in Things /\ f \in All /\ o \in Objects /\ o \in Things /\ o \in All
      /\ h \in Handles /\ h \in Nodes /\ h \in All
  BY <1>1, RunningFnLive, FrameOfPoll, AllFacts DEF Things
<1>4. CASE f \notin Methods
  <2>1. f \in R /\ thing[f].life = "live" /\ thing[f].this = o
    BY <1>1, <1>4, RunningFnLive
  <2>2. Live(f)
    BY <1>3, <2>1 DEF Live
  <2>3. o \in Reported[f]
    BY <1>3, <2>1, <2>2, ReportsOf
  <2>4. QED
    BY <1>1, <1>2, <1>3, <2>1, <2>3
<1>5. CASE f \in Methods /\ uv[h].slot["poll"].object # o
  <2>1. RunsUnheld(o)
    BY <1>1, <1>5 DEF RunsUnheld
  <2>2. thing[o].life = "live" /\ ~Uncovered(o)
    BY <1>1
  <2>3. o \in External
    BY <1>3, <2>1, <2>2, ExternalThing
  <2>4. QED
    BY <1>1, <1>2, <1>3, <2>3
<1>6. CASE uv[h].slot["poll"].object = o
  <2>1. h \in PollsOf(o)
    BY <1>3, <1>6 DEF PollsOf
  <2>2. CASE h \notin Undestroyed
    <3>1. thing[o].life = "live" /\ ~Uncovered(o)
      BY <1>1
    <3>2. o \in External
      BY <1>3, <2>1, <2>2, <3>1, ExternalThing
    <3>3. QED
      BY <1>1, <1>2, <1>3, <3>2
  <2>3. CASE h \in Undestroyed
    <3>1. node[h].life = "live" /\ ~node[h].dtored
      BY <2>3 DEF Undestroyed
    <3>2. h \in External
      BY <1>1, <1>3, <3>1, ExternalNode
    <3>3. SecondWord(h) = o
      BY <1>3, <1>6, AllFacts DEF SecondWord
    <3>4. Live(h)
      BY <1>3, <3>1, AllFacts DEF Live
    <3>5. o \in Reported[h]
      BY <1>3, <3>1, <3>3, <3>4, ReportsOf
    <3>6. QED
      BY <1>1, <1>2, <1>3, <3>2, <3>5
  <2>4. QED
    BY <2>2, <2>3
<1>7. QED
  BY <1>4, <1>5, <1>6

(* Whatever is needed is reached, or dead, or the array that is called.    *)
LEMMA NeededIsReached ==
  ASSUME GcInv, Quiet, \A o \in Objects : ~Uncovered(o)
  PROVE  \A x \in Needed \cap Undestroyed : x \in Reach(External, Reported)
<1>1. PICK R, C : /\ R = Reach(External, Reported)
                  /\ C = R \cup {n \in All : ~Live(n)}
                           \cup {n \in Methods : frame # NoFrame /\ n = frame.cb.fn}
  OBVIOUS
<1>2. /\ R \subseteq All
      /\ \A n \in All : n \in External => n \in R
      /\ \A n \in R, m \in All : m \in Reported[n] => m \in R
  BY <1>1, ReachFacts
<1>3. Defined /\ C \in SUBSET All
  BY <1>1, <1>2, AllFacts, CallbackAssumption DEF Quiet, Things
<1>4. \A n \in All : n \in C <=> \/ n \in R \/ ~Live(n)
                                 \/ n \in Methods /\ frame # NoFrame /\ n = frame.cb.fn
  BY <1>1
<1>5. ASSUME frame # NoFrame
      PROVE  /\ frame.cb.fn \in C
             /\ frame.cb.object \in Objects => frame.cb.object \in C
  <2>1. /\ frame.cb.fn \in Things /\ frame.cb.fn \in All /\ frame.cb.fn \notin Objects
        /\ frame.cb.fn \notin Methods => thing[frame.cb.fn].life = "live"
    BY <1>3, <1>5, RunningFnLive, CallbackAssumption, AllFacts
  <2>2. frame.cb.fn \notin Methods => frame.cb.fn \in R
    BY <1>2, <2>1, ExternalThing
  <2>3. frame.cb.fn \in C
    BY <1>4, <1>5, <2>1, <2>2
  <2>4. ASSUME frame.cb.object \in Objects PROVE frame.cb.object \in C
    <3>1. frame.cb.object \in Things /\ frame.cb.object \in All
      BY <2>4, AllFacts DEF Things
    <3>2. CASE thing[frame.cb.object].life = "live"
      <4>1. frame.cb.object \in R
        BY <1>1, <1>3, <1>5, <2>2, <2>4, <3>2, RunningObject
      <4>2. QED
        BY <1>4, <3>1, <4>1
    <3>3. CASE thing[frame.cb.object].life # "live"
      <4>1. ~Live(frame.cb.object)
        BY <3>1, <3>3 DEF Live
      <4>2. QED
        BY <1>4, <3>1, <4>1
    <3>4. QED
      BY <3>2, <3>3
  <2>5. QED
    BY <2>3, <2>4
<1>6. Roots \subseteq C
  <2>1. ASSUME NEW n \in Things, thing[n].named
        PROVE  n \in C
    <3>1. n \in All
      BY AllFacts
    <3>2. CASE thing[n].life = "live"
      <4>1. n \in External
        BY <2>1, <3>2, ExternalThing
      <4>2. QED
        BY <1>2, <1>4, <3>1, <4>1
    <3>3. CASE thing[n].life # "live"
      <4>1. ~Live(n)
        BY <3>3 DEF Live
      <4>2. QED
        BY <1>4, <3>1, <4>1
    <3>4. QED
      BY <3>2, <3>3
  <2>2. ASSUME NEW x \in Nodes,
               \/ node[x].named \/ x = DefaultLoop \/ (x \in Handles /\ uv[x].stage = "closing")
               \/ frame # NoFrame /\ (x = frame.handle \/ x = on[frame.handle])
        PROVE  x \in C
    <3>1. x \in All /\ x \notin Things
      BY AllFacts
    <3>2. CASE node[x].life = "live"
      <4>1. x \in External
        BY <2>2, <3>2, ExternalNode
      <4>2. QED
        BY <1>2, <1>4, <3>1, <4>1
    <3>3. CASE node[x].life # "live"
      <4>1. ~Live(x)
        BY <3>1, <3>3 DEF Live
      <4>2. QED
        BY <1>4, <3>1, <4>1
    <3>4. QED
      BY <3>2, <3>3
  <2>3. ASSUME NEW n \in Roots
        PROVE  n \in C
    <3>1. \/ n \in Things /\ thing[n].named
          \/ n \in Nodes /\ (node[n].named \/ n = DefaultLoop \/ (n \in Handles /\ uv[n].stage = "closing"))
          \/ frame # NoFrame /\ n \in All /\ n \in {frame.handle, on[frame.handle], frame.cb.fn, frame.cb.object}
      BY <2>3, GcTypes DEF Roots
    <3>2. frame # NoFrame => frame.handle \in Nodes /\ on[frame.handle] \in Nodes
      BY FrameOfPoll, GcTypes
    <3>3. frame # NoFrame /\ n \in All /\ n = frame.cb.object => n \in Objects
      BY <1>3, RunningFnLive, AllFacts
    <3>4. QED
      BY <1>5, <2>1, <2>2, <3>1, <3>2, <3>3
  <2>4. QED
    BY <2>3
<1>7. ASSUME NEW n \in C, NEW m \in Leads[n]
      PROVE  m \in C
  <2>1. n \in All
    BY <1>3
  <2>2. Live(n) /\ m \in All
    <3>1. Live(n)
      BY <1>7, <2>1, LeadsOf
    <3>2. m \in All
      BY <1>7, <2>1, LeadsOf, AllFacts, GcTypes
    <3>3. QED
      BY <3>1, <3>2
  <2>3. CASE n \in R
    <3>1. m \in Reported[n]
      BY <1>7, <2>1, <2>2, LeadsReported
    <3>2. QED
      BY <1>2, <1>4, <2>2, <2>3, <3>1
  <2>4. CASE n \in Methods /\ frame # NoFrame /\ n = frame.cb.fn
    <3>1. n \in Things /\ n \notin Handles /\ n \notin Loops
      BY <2>4, CallbackAssumption, AllFacts DEF Things
    <3>2. thing[n].life = "live"
      BY <2>2, <3>1 DEF Live
    <3>3. thing[n].this = frame.cb.object
      BY <1>3, <2>4, <3>2, RunningFnLive
    <3>4. points[n] = {}
      BY <2>4, <3>1 DEF GcInv, NodeShape
    <3>5. m = frame.cb.object
      BY <1>7, <2>1, <2>2, <3>1, <3>3, <3>4, LeadsOf
    <3>6. m \in Objects
      BY <1>3, <2>2, <2>4, <3>5, RunningFnLive, AllFacts
    <3>7. QED
      BY <1>5, <2>4, <3>5, <3>6
  <2>5. QED
    BY <1>4, <1>7, <2>1, <2>2, <2>3, <2>4
<1>8. Needed \subseteq C
  <2>1. \A n \in C : Leads[n] \subseteq C
    BY <1>7
  <2>2. QED
    BY <1>3, <1>6, <2>1, ReachLeast DEF Needed
<1>9. ASSUME NEW x \in Needed \cap Undestroyed
      PROVE  x \in R
  <2>1. x \in C /\ x \in Nodes /\ node[x].life = "live"
    BY <1>8 DEF Undestroyed
  <2>2. x \in All /\ x \notin Things
    BY <2>1, AllFacts
  <2>3. Live(x) /\ x \notin Methods
    BY <2>1, <2>2, CallbackAssumption DEF Live, Things
  <2>4. QED
    BY <1>4, <2>1, <2>2, <2>3
<1>10. QED
  BY <1>1, <1>9

LEMMA CollectsOnly ==
  ASSUME GcInv, [GcNext]_gcVars
  PROVE  doomed' \subseteq doomed \/ (Quiet /\ gc_collect_cycles)
<1>1. CASE Quiet /\ QuietNext
  BY <1>1 DEF QuietNext, GcNewObject, SetProperty, GcNewFunction, GcUnset, UnsetNode, uv_loop_new,
     uv_poll_init, GcPollStart, uv_poll_stop, GcPollCallback, GcClose, GcReturn
<1>2. CASE \E n \in Things : GcFree(n)
  BY <1>2 DEF GcFree
<1>3. CASE \E x \in Nodes : Release(x) \/ CallDestructor(x)
  BY <1>3 DEF Release, CallDestructor
<1>4. CASE \E h \in Handles : GcCloseCb(h)
  BY <1>4 DEF GcCloseCb
<1>5. CASE UNCHANGED gcVars
  BY <1>5 DEF gcVars
<1>6. QED
  BY <1>1, <1>2, <1>3, <1>4, <1>5 DEF GcNext

LEMMA SoundStep ==
  ASSUME GcInv, [GcNext]_gcVars
  PROVE  \/ doomed' \subseteq doomed
         \/ \E h \in Handles : ReadsUnwritten(h)
         \/ \E o \in Objects : Uncovered(o)
         \/ (doomed' \ doomed) \cap Needed = {}
<1> SUFFICES ASSUME ~(doomed' \subseteq doomed), ~\E h \in Handles : ReadsUnwritten(h),
                    ~\E o \in Objects : Uncovered(o)
             PROVE  (doomed' \ doomed) \cap Needed = {}
  OBVIOUS
<1>1. Quiet /\ gc_collect_cycles
  BY CollectsOnly
<1>2. doomed' = Garbage \cap Undestroyed
  BY <1>1 DEF gc_collect_cycles
<1>3. \A x \in Needed \cap Undestroyed : x \in Reach(External, Reported)
  BY <1>1, NeededIsReached
<1>4. \A x \in Garbage : x \notin Reach(External, Reported)
  BY DEF Garbage
<1>5. QED
  BY <1>2, <1>3, <1>4

(* The collector destroys nothing that is needed, unless it reads a word   *)
(* that nobody wrote or an object's excess has been used up                *)
(* (php_uv_get_gc, php_uv_loop_get_gc).                                    *)
THEOREM GcCollectorSound == GcSafety => CollectorSound
<1>1. GcInv /\ [GcNext]_gcVars =>
        [\/ doomed' \subseteq doomed
         \/ \E h \in Handles : ReadsUnwritten(h)
         \/ \E o \in Objects : Uncovered(o)
         \/ (doomed' \ doomed) \cap Needed = {}]_gcVars
  BY SoundStep
<1>2. QED
  BY <1>1, GcInvariant, PTL DEF GcSafety, CollectorSound
=============================================================================
