----------------------------- MODULE UVLoop_proofs ----------------------------
(***************************************************************************)
(* A loop is freed when nothing is left in it, whatever its callbacks do   *)
(* and however calls of uv_run and destructors of loops are nested.  For   *)
(* any number of loops, handles and requests.                              *)
(***************************************************************************)
EXTENDS UVLoop, SequenceTheorems, TLAPS

-----------------------------------------------------------------------------
(* The stack.                                                              *)

LEMMA PushProperties ==
  ASSUME NEW S, NEW s \in Seq(S), NEW r \in S
  PROVE  /\ Append(s, r) \in Seq(S)
         /\ Len(Append(s, r)) = Len(s) + 1
         /\ DOMAIN s = 1 .. Len(s) /\ Len(s) \in Nat
         /\ DOMAIN Append(s, r) = 1 .. Len(s) + 1
         /\ Append(s, r)[Len(s) + 1] = r
         /\ \A i \in DOMAIN s : Append(s, r)[i] = s[i]
<1>1. DOMAIN s = 1 .. Len(s) /\ Len(s) \in Nat
  BY LenProperties
<1>2. /\ Append(s, r) \in Seq(S)
      /\ Len(Append(s, r)) = Len(s) + 1
      /\ \A i \in 1 .. Len(s) : Append(s, r)[i] = s[i]
      /\ Append(s, r)[Len(s) + 1] = r
  BY AppendProperties
<1>3. DOMAIN Append(s, r) = 1 .. Len(s) + 1
  BY <1>2, LenProperties
<1>4. QED
  BY <1>1, <1>2, <1>3

LEMMA FrontProperties ==
  ASSUME NEW S, NEW s \in Seq(S), s # <<>>
  PROVE  /\ Front(s) \in Seq(S)
         /\ Len(s) \in Nat \ {0} /\ DOMAIN s = 1 .. Len(s)
         /\ Len(Front(s)) = Len(s) - 1
         /\ DOMAIN Front(s) = 1 .. Len(s) - 1
         /\ \A i \in DOMAIN Front(s) : Front(s)[i] = s[i]
<1>1. DOMAIN s = 1 .. Len(s) /\ Len(s) \in Nat \ {0}
  BY LenProperties, EmptySeq
<1>2. /\ Front(s) \in Seq(S)
      /\ Len(Front(s)) = Len(s) - 1
      /\ \A i \in 1 .. Len(s) - 1 : Front(s)[i] = s[i]
  BY <1>1, SubSeqProperties DEF Front
<1>3. DOMAIN Front(s) = 1 .. Len(s) - 1
  BY <1>2, LenProperties
<1>4. QED
  BY <1>1, <1>2, <1>3

LEMMA SetTopProperties ==
  ASSUME NEW S, NEW s \in Seq(S), s # <<>>, NEW r \in S
  PROVE  LET t == Append(Front(s), r)
         IN  /\ t \in Seq(S) /\ t # <<>>
             /\ Len(s) \in DOMAIN s
             /\ Len(t) = Len(s) /\ DOMAIN t = DOMAIN s
             /\ t[Len(s)] = r
             /\ \A i \in DOMAIN s : i # Len(s) => t[i] = s[i]
<1>1. /\ Front(s) \in Seq(S)
      /\ Len(s) \in Nat \ {0} /\ DOMAIN s = 1 .. Len(s)
      /\ Len(Front(s)) = Len(s) - 1
      /\ DOMAIN Front(s) = 1 .. Len(s) - 1
      /\ \A i \in DOMAIN Front(s) : Front(s)[i] = s[i]
  BY FrontProperties
<1> DEFINE t == Append(Front(s), r)
<1>2. /\ t \in Seq(S)
      /\ Len(t) = Len(Front(s)) + 1
      /\ DOMAIN t = 1 .. Len(Front(s)) + 1
      /\ t[Len(Front(s)) + 1] = r
      /\ \A i \in DOMAIN Front(s) : t[i] = Front(s)[i]
  <2>1. Front(s) \in Seq(S)
    BY <1>1
  <2> HIDE <1>1
  <2>2. QED
    BY ONLY <2>1, r \in S, PushProperties
<1> HIDE DEF t
<1>3. /\ Len(Front(s)) + 1 = Len(s)
      /\ \A i \in DOMAIN s : i # Len(s) => i \in DOMAIN Front(s)
      /\ Len(s) \in DOMAIN s
  BY <1>1
<1>4. t # <<>>
  BY <1>1, <1>2, <1>3, EmptySeq
<1>5. QED
  BY <1>1, <1>2, <1>3, <1>4 DEF t

-----------------------------------------------------------------------------
(* What the steps have in common.                                          *)

LEMMA StackFacts ==
  ASSUME LoopInv
  PROVE  /\ stack \in Seq(Runs)
         /\ DOMAIN stack = 1 .. Len(stack) /\ Len(stack) \in Nat
         /\ \A i \in DOMAIN stack : stack[i] \in Runs /\ stack[i].loop \in Loops
         /\ stack # <<>> =>
              /\ Len(stack) \in DOMAIN stack
              /\ Top = stack[Len(stack)] /\ Top \in Runs /\ Top.loop \in Loops
              /\ \A i \in DOMAIN stack : i # Len(stack) => stack[i].loop # Top.loop /\ stack[i].in
         /\ InScript => \A i \in DOMAIN stack : stack[i].in
<1>1. stack \in Seq(Runs)
  BY DEF LoopInv, LoopTypeOK
<1>2. DOMAIN stack = 1 .. Len(stack) /\ Len(stack) \in Nat
  BY <1>1, LenProperties
<1>3. \A i \in DOMAIN stack : stack[i] \in Runs /\ stack[i].loop \in Loops
  <2>1. \A i \in DOMAIN stack : stack[i] \in Runs
    BY <1>1, <1>2, ElementOfSeq
  <2>2. QED
    BY <2>1 DEF Runs
<1>4. stack # <<>> => Len(stack) \in DOMAIN stack
  BY <1>1, <1>2, EmptySeq
<1>5. Top = stack[Len(stack)]
  BY DEF Top, Last
<1>6. ASSUME stack # <<>>, NEW i \in DOMAIN stack, i # Len(stack)
      PROVE  stack[i].loop # Top.loop /\ stack[i].in
  <2>1. i < Len(stack)
    BY <1>2, <1>6
  <2>2. QED
    BY <1>4, <1>5, <1>6, <2>1 DEF LoopInv, RunsNest
<1>7. ASSUME InScript, NEW i \in DOMAIN stack
      PROVE  stack[i].in
  <2>1. stack # <<>>
    BY <1>1, <1>2, EmptySeq
  <2>2. Top.in
    BY <1>7, <2>1 DEF InScript
  <2>3. QED
    BY <1>5, <1>6, <2>1, <2>2
<1>8. QED
  BY <1>1, <1>2, <1>3, <1>4, <1>5, <1>6, <1>7

(* A step that makes r of the innermost run and o of its loop, and changes *)
(* handles and requests of this loop only.                                 *)
LEMMA TopStep ==
  ASSUME LoopInv, stack # <<>>, NEW r \in Runs, stack' = Append(Front(stack), r),
         r.loop = Top.loop,
         r.mode = "once" => r.why = "script",
         r.at = "end" => r.mode = "once",
         r.in => r.at \in {"poll", "closing"},
         NEW o \in LoopObjects, loop' = [loop EXCEPT ![Top.loop] = o],
         o.life = "live", o.dtored <=> r.why # "script",
         o.named => Top.loop # DefaultLoop,
         handle' \in [Handles -> HandleObjects],
         \A l \in Loops \ {Top.loop} :
           /\ On(l, "open")' \subseteq On(l, "open")
           /\ On(l, "closing")' \subseteq On(l, "closing"),
         requests' \in [Loops -> 0 .. MaxReqs],
         \A l \in Loops \ {Top.loop} : requests'[l] = requests[l],
         exception' \in BOOLEAN, ended' \in BOOLEAN,
         r.why = "drain" => Drains(r)'
  PROVE  LoopInv'
<1> USE DEF LoopInv
<1>1. /\ stack' \in Seq(Runs) /\ stack' # <<>>
      /\ Len(stack) \in DOMAIN stack
      /\ Len(stack') = Len(stack) /\ DOMAIN stack' = DOMAIN stack
      /\ stack'[Len(stack)] = r
      /\ \A i \in DOMAIN stack : i # Len(stack) => stack'[i] = stack[i]
  BY StackFacts, SetTopProperties
<1>2. Top = stack[Len(stack)]
  BY StackFacts
<1>3. /\ DOMAIN stack = 1 .. Len(stack) /\ Len(stack) \in Nat
      /\ \A i \in DOMAIN stack : stack[i] \in Runs /\ stack[i].loop \in Loops
  BY StackFacts
<1>4. /\ Top.loop \in Loops
      /\ \A i \in DOMAIN stack : i # Len(stack) => stack[i].loop # Top.loop /\ stack[i].in
  BY StackFacts
<1>5. /\ loop'[Top.loop] = o
      /\ \A l \in Loops : l # Top.loop => loop'[l] = loop[l]
  BY <1>4 DEF LoopTypeOK
<1>6. LoopTypeOK'
  BY <1>1 DEF LoopTypeOK
<1>7. RunsNest'
  <2>1. \A i \in DOMAIN stack' : stack'[i].loop = stack[i].loop
    BY <1>1, <1>2
  <2>2. \A i, j \in DOMAIN stack' : stack'[i].loop = stack'[j].loop => i = j
    BY <1>1, <2>1 DEF RunsNest
  <2>3. \A i \in DOMAIN stack' : i < Len(stack') => stack'[i].in
    BY <1>1, <1>3 DEF RunsNest
  <2>4. ASSUME NEW i \in DOMAIN stack'
        PROVE  LET run == stack'[i]
               IN  /\ loop'[run.loop].life = "live"
                   /\ loop'[run.loop].dtored <=> run.why # "script"
                   /\ run.mode = "once" => run.why = "script"
                   /\ run.at = "end" => run.mode = "once"
                   /\ run.in => run.at \in {"poll", "closing"}
    <3>1. CASE i = Len(stack)
      BY <1>1, <1>5, <3>1
    <3>2. CASE i # Len(stack)
      BY <1>1, <1>3, <1>4, <1>5, <3>2 DEF RunsNest
    <3>3. QED
      BY <3>1, <3>2
  <2>5. QED
    BY <2>2, <2>3, <2>4 DEF RunsNest
<1>8. DrainsEmpty'
  <2> SUFFICES ASSUME NEW i \in DOMAIN stack', NEW q, q = stack'[i], q.why = "drain"
               PROVE  Drains(q)'
    BY DEF DrainsEmpty, Drains, On
  <2>1. CASE i = Len(stack)
    BY <1>1, <2>1 DEF Drains, On
  <2>2. CASE i # Len(stack)
    <3>1. /\ stack'[i] = stack[i] /\ stack[i].in
          /\ stack[i].loop \in Loops \ {Top.loop}
          /\ Drains(stack[i])
      BY <1>1, <1>3, <1>4, <2>2 DEF DrainsEmpty
    <3>2. ~loop[stack[i].loop].stop /\ loop'[stack[i].loop] = loop[stack[i].loop]
      BY <1>5, <3>1 DEF Drains
    <3>3. /\ On(stack[i].loop, "open")' = {}
          /\ On(stack[i].loop, "closing")' \subseteq On(stack[i].loop, "closing")
      BY <3>1 DEF Drains
    <3>4. QED
      BY <3>1, <3>2, <3>3 DEF Drains, On
  <2>3. QED
    BY <2>1, <2>2
<1>9. \A l \in Loops : Drained(l)' => Empty(l)'
  <2> SUFFICES ASSUME NEW l \in Loops, Drained(l)'
               PROVE  Empty(l)'
    OBVIOUS
  <2>0. \A i \in DOMAIN stack : stack'[i].loop = stack[i].loop
    BY <1>1, <1>2
  <2>1. \A k \in Loops : Running(k)' <=> Running(k)
    BY <1>1, <2>0 DEF Running
  <2>2. Running(Top.loop)
    BY <1>1, <1>2 DEF Running
  <2>3. Drained(l) /\ l # Top.loop
    BY <1>4, <1>5, <2>1, <2>2 DEF Drained
  <2>4. Empty(l)
    BY <2>3
  <2>5. /\ On(l, "open")' \subseteq On(l, "open") /\ On(l, "closing")' \subseteq On(l, "closing")
        /\ requests'[l] = requests[l] /\ loop'[l].cut = loop[l].cut
    BY <1>5, <2>3
  <2>6. QED
    BY <2>4, <2>5 DEF Empty
<1>10. ~loop'[DefaultLoop].named
  BY <1>5, LoopAssumption
<1>11. QED
  BY <1>6, <1>7, <1>8, <1>9, <1>10

(* A step of the script that calls no uv_run, and ends none.               *)
LEMMA ScriptStep ==
  ASSUME LoopInv, stack' = stack, \A i \in DOMAIN stack : stack[i].in,
         loop' \in [Loops -> LoopObjects],
         \A l \in Loops : Running(l) =>
           /\ loop'[l].life = loop[l].life /\ loop'[l].dtored = loop[l].dtored
           /\ loop[l].dtored => loop'[l].stop = loop[l].stop,
         \A l \in Loops : loop'[l].life = "freed"
                          \/ (loop'[l].life = "live" /\ loop'[l].dtored /\ l # DefaultLoop /\ ~Running(l))
                          => Drained(l) /\ loop'[l].cut = loop[l].cut,
         ~loop'[DefaultLoop].named,
         handle' \in [Handles -> HandleObjects],
         requests' \in [Loops -> 0 .. MaxReqs],
         \A l \in Loops : (loop[l].dtored \/ loop[l].life = "freed") /\ On(l, "open") = {} =>
           /\ On(l, "open")' = {}
           /\ On(l, "closing")' \subseteq On(l, "closing")
           /\ requests'[l] = requests[l],
         exception' \in BOOLEAN, ended' \in BOOLEAN
  PROVE  LoopInv'
<1> USE DEF LoopInv
<1>1. \A i \in DOMAIN stack : Running(stack[i].loop) /\ stack[i].loop \in Loops
  BY StackFacts DEF Running
<1>2. \A l \in Loops : Running(l)' <=> Running(l)
  BY DEF Running
<1>3. LoopTypeOK'
  BY DEF LoopTypeOK
<1>4. RunsNest'
  BY <1>1 DEF RunsNest
<1>5. DrainsEmpty'
  <2> SUFFICES ASSUME NEW i \in DOMAIN stack, NEW q, q = stack[i], q.why = "drain"
               PROVE  Drains(q)'
    BY DEF DrainsEmpty, Drains, On
  <2>1. q.in /\ Drains(q) /\ q.loop \in Loops /\ Running(q.loop) /\ loop[q.loop].dtored
    BY <1>1 DEF DrainsEmpty, RunsNest
  <2>2. ~loop'[q.loop].stop
    BY <2>1 DEF Drains
  <2>3. On(q.loop, "open") = {}
    BY <2>1 DEF Drains
  <2>4. On(q.loop, "open")' = {} /\ On(q.loop, "closing")' \subseteq On(q.loop, "closing")
    BY <2>1, <2>3
  <2>5. QED
    BY <2>1, <2>2, <2>4 DEF Drains, On
<1>6. ASSUME NEW l \in Loops, Drained(l)'
      PROVE  Empty(l)'
  <2>1. Drained(l) /\ loop'[l].cut = loop[l].cut
    BY <1>2, <1>6 DEF Drained
  <2>2. Empty(l) /\ (loop[l].dtored \/ loop[l].life = "freed")
    BY <2>1 DEF Drained
  <2>3. On(l, "open")' = {} /\ On(l, "closing")' \subseteq On(l, "closing") /\ requests'[l] = requests[l]
    BY <2>2 DEF Empty
  <2>4. QED
    BY <2>1, <2>2, <2>3 DEF Empty
<1>7. QED
  BY <1>3, <1>4, <1>5, <1>6

(* uv_run is called on l, which no other call runs; l becomes o.           *)
LEMMA PushStep ==
  ASSUME LoopInv, \A i \in DOMAIN stack : stack[i].in,
         NEW l \in Loops, ~Running(l),
         NEW r \in Runs, stack' = Append(stack, r),
         r.loop = l, r.why # "drain", r.at = "check", ~r.in,
         r.mode = "once" => r.why = "script",
         NEW o \in LoopObjects, loop' = [loop EXCEPT ![l] = o],
         o.life = "live", o.dtored <=> r.why # "script",
         o.named => l # DefaultLoop,
         UNCHANGED <<handle, requests, exception, ended>>
  PROVE  LoopInv'
<1> USE DEF LoopInv
<1>1. /\ stack' \in Seq(Runs)
      /\ Len(stack') = Len(stack) + 1
      /\ DOMAIN stack = 1 .. Len(stack) /\ Len(stack) \in Nat
      /\ DOMAIN stack' = 1 .. Len(stack) + 1
      /\ stack'[Len(stack) + 1] = r
      /\ \A i \in DOMAIN stack : stack'[i] = stack[i]
  BY StackFacts, PushProperties
<1>2. /\ \A i \in DOMAIN stack' : i \in DOMAIN stack \/ i = Len(stack) + 1
      /\ \A i \in DOMAIN stack : i \in DOMAIN stack' /\ i # Len(stack) + 1
      /\ Len(stack) + 1 \in DOMAIN stack'
  BY <1>1
<1>3. \A i \in DOMAIN stack : stack[i].loop \in Loops /\ stack[i].loop # l
  BY StackFacts DEF Running
<1>4. /\ loop'[l] = o
      /\ \A k \in Loops : k # l => loop'[k] = loop[k]
  BY DEF LoopTypeOK
<1>5. LoopTypeOK'
  BY <1>1 DEF LoopTypeOK
<1>6. RunsNest'
  <2>1. \A i, j \in DOMAIN stack' : stack'[i].loop = stack'[j].loop => i = j
    <3> SUFFICES ASSUME NEW i \in DOMAIN stack', NEW j \in DOMAIN stack',
                        stack'[i].loop = stack'[j].loop
                 PROVE  i = j
      OBVIOUS
    <3>1. CASE i \in DOMAIN stack /\ j \in DOMAIN stack
      BY <1>1, <3>1 DEF RunsNest
    <3>2. CASE i \notin DOMAIN stack \/ j \notin DOMAIN stack
      BY <1>1, <1>2, <1>3, <3>2
    <3>3. QED
      BY <3>1, <3>2
  <2>2. \A i \in DOMAIN stack' : i < Len(stack') => stack'[i].in
    BY <1>1, <1>2
  <2>3. ASSUME NEW i \in DOMAIN stack'
        PROVE  LET run == stack'[i]
               IN  /\ loop'[run.loop].life = "live"
                   /\ loop'[run.loop].dtored <=> run.why # "script"
                   /\ run.mode = "once" => run.why = "script"
                   /\ run.at = "end" => run.mode = "once"
                   /\ run.in => run.at \in {"poll", "closing"}
    <3>1. CASE i \in DOMAIN stack
      BY <1>1, <1>3, <1>4, <3>1 DEF RunsNest
    <3>2. CASE i = Len(stack) + 1
      BY <1>1, <1>4, <3>2
    <3>3. QED
      BY <1>2, <3>1, <3>2
  <2>4. QED
    BY <2>1, <2>2, <2>3 DEF RunsNest
<1>7. DrainsEmpty'
  <2> SUFFICES ASSUME NEW i \in DOMAIN stack', NEW q, q = stack'[i], q.why = "drain"
               PROVE  Drains(q)'
    BY DEF DrainsEmpty, Drains, On
  <2>1. i \in DOMAIN stack /\ q = stack[i]
    BY <1>1, <1>2
  <2>2. Drains(q) /\ loop'[q.loop] = loop[q.loop]
    BY <1>3, <1>4, <2>1 DEF DrainsEmpty
  <2>3. QED
    BY <2>2 DEF Drains, On
<1>8. ASSUME NEW k \in Loops, Drained(k)'
      PROVE  Empty(k)'
  <2>1. Running(l)' /\ (Running(k) => Running(k)')
    BY <1>1, <1>2 DEF Running
  <2>2. k # l
    BY <1>4, <1>8, <2>1 DEF Drained
  <2>3. loop'[k] = loop[k] /\ Drained(k)
    BY <1>4, <1>8, <2>1, <2>2 DEF Drained
  <2>4. QED
    BY <2>3 DEF Empty, On
<1>9. ~loop'[DefaultLoop].named
  BY <1>4, LoopAssumption
<1>10. QED
  BY <1>5, <1>6, <1>7, <1>8, <1>9

(* The innermost uv_run returns, and its loop becomes o.                   *)
LEMMA PopStep ==
  ASSUME LoopInv, stack # <<>>, stack' = Front(stack),
         NEW o \in LoopObjects, loop' = [loop EXCEPT ![Top.loop] = o],
         o.named => Top.loop # DefaultLoop,
         o.life = "freed" \/ (o.life = "live" /\ o.dtored) =>
           /\ On(Top.loop, "open") = {}
           /\ IF o.cut THEN On(Top.loop, "closing") \subseteq SlowHandles
              ELSE On(Top.loop, "closing") = {} /\ requests[Top.loop] = 0,
         UNCHANGED <<handle, requests, exception, ended>>
  PROVE  LoopInv'
<1> USE DEF LoopInv
<1>1. /\ stack' \in Seq(Runs)
      /\ Len(stack) \in Nat \ {0} /\ DOMAIN stack = 1 .. Len(stack)
      /\ Len(stack') = Len(stack) - 1
      /\ DOMAIN stack' = 1 .. Len(stack) - 1
      /\ \A i \in DOMAIN stack' : stack'[i] = stack[i]
  BY StackFacts, FrontProperties
<1>2. /\ \A i \in DOMAIN stack' : i \in DOMAIN stack /\ i # Len(stack)
      /\ \A i \in DOMAIN stack : i # Len(stack) => i \in DOMAIN stack'
  BY <1>1
<1>3. /\ Top.loop \in Loops /\ Top = stack[Len(stack)]
      /\ \A i \in DOMAIN stack' : stack[i].loop \in Loops \ {Top.loop} /\ stack[i].in
  BY <1>2, StackFacts
<1>4. /\ loop'[Top.loop] = o
      /\ \A k \in Loops : k # Top.loop => loop'[k] = loop[k]
  BY <1>3 DEF LoopTypeOK
<1>5. LoopTypeOK'
  BY <1>1 DEF LoopTypeOK
<1>6. RunsNest'
  <2>1. \A i, j \in DOMAIN stack' : stack'[i].loop = stack'[j].loop => i = j
    BY <1>1, <1>2 DEF RunsNest
  <2>2. \A i \in DOMAIN stack' : stack'[i].in
    BY <1>1, <1>3
  <2>3. \A i \in DOMAIN stack' :
          LET run == stack'[i]
          IN  /\ loop'[run.loop].life = "live"
              /\ loop'[run.loop].dtored <=> run.why # "script"
              /\ run.mode = "once" => run.why = "script"
              /\ run.at = "end" => run.mode = "once"
              /\ run.in => run.at \in {"poll", "closing"}
    BY <1>1, <1>2, <1>3, <1>4 DEF RunsNest
  <2>4. QED
    BY <2>1, <2>2, <2>3 DEF RunsNest
<1>7. DrainsEmpty'
  <2> SUFFICES ASSUME NEW i \in DOMAIN stack', NEW q, q = stack'[i], q.why = "drain"
               PROVE  Drains(q)'
    BY DEF DrainsEmpty, Drains, On
  <2>1. i \in DOMAIN stack /\ q = stack[i]
    BY <1>1, <1>2
  <2>2. Drains(q) /\ loop'[q.loop] = loop[q.loop]
    BY <1>3, <1>4, <2>1 DEF DrainsEmpty
  <2>3. QED
    BY <2>2 DEF Drains, On
<1>8. ASSUME NEW k \in Loops, Drained(k)'
      PROVE  Empty(k)'
  <2>1. CASE k = Top.loop
    <3>1. o.life = "freed" \/ (o.life = "live" /\ o.dtored)
      BY <1>4, <1>8, <2>1 DEF Drained
    <3>2. QED
      BY <1>4, <2>1, <3>1 DEF Empty, On
  <2>2. CASE k # Top.loop
    <3>1. Running(k) => Running(k)'
      BY <1>1, <1>2, <1>3, <2>2 DEF Running
    <3>2. loop'[k] = loop[k] /\ Drained(k)
      BY <1>4, <1>8, <2>2, <3>1 DEF Drained
    <3>3. QED
      BY <3>2 DEF Empty, On
  <2>3. QED
    BY <2>1, <2>2
<1>9. ~loop'[DefaultLoop].named
  BY <1>4, LoopAssumption
<1>10. QED
  BY <1>5, <1>6, <1>7, <1>8, <1>9

-----------------------------------------------------------------------------
(* The steps of libuv.                                                     *)

LEMMA TopFacts ==
  ASSUME LoopInv, stack # <<>>
  PROVE  /\ Top \in Runs /\ Top.loop \in Loops /\ Running(Top.loop)
         /\ loop[Top.loop] \in LoopObjects
         /\ loop[Top.loop].life = "live"
         /\ loop[Top.loop].dtored <=> Top.why # "script"
         /\ loop[Top.loop].named => Top.loop # DefaultLoop
         /\ Top.mode = "once" => Top.why = "script"
         /\ Top.at = "end" => Top.mode = "once"
         /\ Top.in => Top.at \in {"poll", "closing"}
         /\ Top.why = "drain" => Drains(Top)
BY StackFacts DEF LoopInv, LoopTypeOK, RunsNest, DrainsEmpty, Running

(* An answer of libuv, after which run is the innermost call of uv_run.    *)
LEMMA CallStep ==
  ASSUME LoopInv, stack # <<>>,
         NEW run \in Runs, Call(run),
         run.loop = Top.loop, run.why = Top.why, run.mode = Top.mode,
         run.at = Top.at, run.at \in {"poll", "closing"}, ~run.in,
         handle' \in [Handles -> HandleObjects],
         \A l \in Loops :
           /\ On(l, "open")' \subseteq On(l, "open")
           /\ On(l, "closing")' \subseteq On(l, "closing"),
         run.at = "closing" =>
           On(run.loop, "closing")' \ run.due \subseteq On(run.loop, "closing") \ Top.due,
         requests' \in [Loops -> 0 .. MaxReqs],
         \A l \in Loops \ {Top.loop} : requests'[l] = requests[l],
         UNCHANGED <<exception, ended>>
  PROVE  LoopInv'
<1>1. /\ Top \in Runs /\ Top.loop \in Loops
      /\ loop[Top.loop] \in LoopObjects
      /\ loop[Top.loop].life = "live"
      /\ loop[Top.loop].dtored <=> run.why # "script"
      /\ loop[Top.loop].named => Top.loop # DefaultLoop
      /\ run.mode = "once" => run.why = "script"
      /\ run.at # "end"
      /\ run.why = "drain" => Drains(Top)
  BY TopFacts
<1>2. loop \in [Loops -> LoopObjects] /\ exception \in BOOLEAN /\ ended \in BOOLEAN
  BY DEF LoopInv, LoopTypeOK
<1>3. PICK r \in Runs : r = IF exception THEN run ELSE [run EXCEPT !.in = TRUE]
  BY DEF Runs
<1>4. PICK o \in LoopObjects :
        o = IF exception THEN [loop[Top.loop] EXCEPT !.stop = TRUE] ELSE loop[Top.loop]
  BY <1>1 DEF LoopObjects
<1>5. stack' = Append(Front(stack), r) /\ loop' = [loop EXCEPT ![Top.loop] = o]
  <2>1. CASE exception
    BY <1>3, <1>4, <2>1 DEF Call, SetTop
  <2>2. CASE ~exception
    <3>1. loop' = loop /\ stack' = Append(Front(stack), r)
      BY <1>3, <2>2 DEF Call, SetTop
    <3>2. QED
      BY <1>2, <1>4, <2>2, <3>1
  <2>3. QED
    BY <2>1, <2>2
<1>6. /\ r.loop = run.loop /\ r.why = run.why /\ r.mode = run.mode /\ r.at = run.at /\ r.due = run.due
      /\ r.in <=> ~exception
  BY <1>2, <1>3 DEF Runs
<1>7. /\ o.life = "live" /\ (o.dtored <=> run.why # "script") /\ (o.named => Top.loop # DefaultLoop)
      /\ o.stop <=> exception \/ loop[Top.loop].stop
  BY <1>1, <1>2, <1>4 DEF LoopObjects
<1>8. ASSUME r.why = "drain"
      PROVE  Drains(r)'
  <2>1. /\ On(run.loop, "open") = {} /\ (loop[Top.loop].stop => exception)
        /\ run.at = "closing" => On(run.loop, "closing") \ Top.due \subseteq SlowHandles
    BY <1>1, <1>6, <1>8 DEF Drains
  <2>2. /\ On(run.loop, "open")' = {}
        /\ run.at = "closing" => On(run.loop, "closing")' \ run.due \subseteq SlowHandles
    BY <1>1, <2>1
  <2>3. loop'[Top.loop].stop => exception' /\ ~r.in
    BY <1>1, <1>2, <1>5, <1>6, <1>7, <2>1
  <2>4. r.loop = Top.loop /\ r.at # "check"
    BY <1>6
  <2>5. QED
    BY <1>6, <2>2, <2>3, <2>4 DEF Drains, On
<1>9. QED
  BY <1>1, <1>2, <1>5, <1>6, <1>7, <1>8, TopStep

LEMMA HandleCallbackKeeps ==
  ASSUME LoopInv, NEW h \in Handles, HandleCallback(h)
  PROVE  LoopInv'
<1>1. stack # <<>> /\ ~Top.in /\ Top.at = "poll" /\ Top \in Runs
  BY TopFacts DEF HandleCallback, InLoop
<1>2. PICK run \in Runs : run = Top
  BY <1>1
<1>3. Call(run) /\ UNCHANGED <<handle, requests, exception, ended>>
  BY <1>2 DEF HandleCallback, Call, SetTop
<1>4. /\ handle' \in [Handles -> HandleObjects] /\ requests' \in [Loops -> 0 .. MaxReqs]
      /\ \A l \in Loops : On(l, "open")' = On(l, "open") /\ On(l, "closing")' = On(l, "closing")
  BY <1>3, TopFacts, <1>1 DEF LoopInv, LoopTypeOK, On
<1>5. QED
  BY <1>1, <1>2, <1>3, <1>4, CallStep

LEMMA RequestCallbackKeeps ==
  ASSUME LoopInv, RequestCallback
  PROVE  LoopInv'
<1>1. stack # <<>> /\ ~Top.in /\ Top.at = "poll" /\ Top \in Runs /\ Top.loop \in Loops
  BY TopFacts DEF RequestCallback, InLoop
<1>2. PICK run \in Runs : run = Top
  BY <1>1
<1>3. Call(run) /\ UNCHANGED <<handle, exception, ended>>
  BY <1>2 DEF RequestCallback, Call, SetTop
<1>4. /\ handle' \in [Handles -> HandleObjects]
      /\ \A l \in Loops : On(l, "open")' = On(l, "open") /\ On(l, "closing")' = On(l, "closing")
  BY <1>3, <1>1 DEF LoopInv, LoopTypeOK, On
<1>5. /\ requests' \in [Loops -> 0 .. MaxReqs]
      /\ \A l \in Loops \ {Top.loop} : requests'[l] = requests[l]
  BY <1>1, LoopAssumption DEF RequestCallback, LoopInv, LoopTypeOK
<1>6. QED
  BY <1>1, <1>2, <1>3, <1>4, <1>5, CallStep

LEMMA CloseCallbackKeeps ==
  ASSUME LoopInv, NEW h \in Handles, php_uv_close_cb(h)
  PROVE  LoopInv'
<1>1. stack # <<>> /\ ~Top.in /\ Top.at = "closing" /\ Top \in Runs /\ Top.loop \in Loops
  BY TopFacts DEF php_uv_close_cb, InLoop
<1>2. PICK run \in Runs : run = [Top EXCEPT !.due = @ \ {h}]
  BY <1>1 DEF Runs
<1>3. /\ run.loop = Top.loop /\ run.why = Top.why /\ run.mode = Top.mode
      /\ run.at = Top.at /\ ~run.in /\ run.due = Top.due \ {h}
  BY <1>1, <1>2 DEF Runs
<1>4. /\ handle' = [handle EXCEPT ![h].stage = "closed", ![h].notify = FALSE]
      /\ UNCHANGED <<requests, exception, ended>>
      /\ Call(run) \/ (SetTop(run) /\ UNCHANGED loop)
  BY <1>2 DEF php_uv_close_cb, Call, SetTop
<1>5. handle \in [Handles -> HandleObjects] /\ requests \in [Loops -> 0 .. MaxReqs]
  BY DEF LoopInv, LoopTypeOK
<1>6. /\ handle' \in [Handles -> HandleObjects]
      /\ handle'[h].stage = "closed"
      /\ \A g \in Handles : g # h => handle'[g] = handle[g]
  BY <1>4, <1>5 DEF HandleObjects
<1>7. \A l \in Loops :
        /\ On(l, "open")' \subseteq On(l, "open")
        /\ On(l, "closing")' \subseteq On(l, "closing")
  BY <1>6 DEF On
<1>8. On(run.loop, "closing")' \ run.due \subseteq On(run.loop, "closing") \ Top.due
  <2>1. \A l \in Loops : On(l, "closing")' \subseteq On(l, "closing") \ {h}
    BY <1>6 DEF On
  <2>2. QED
    BY <1>1, <1>3, <2>1
<1>9. CASE Call(run)
  BY <1>1, <1>3, <1>4, <1>5, <1>6, <1>7, <1>8, <1>9, CallStep
<1>10. CASE SetTop(run) /\ UNCHANGED loop
  <2>1. PICK o \in LoopObjects : o = loop[Top.loop]
    BY <1>1, TopFacts
  <2>2. loop' = [loop EXCEPT ![Top.loop] = o]
    BY <1>10, <2>1 DEF LoopInv, LoopTypeOK
  <2>3. /\ o.life = "live" /\ (o.dtored <=> run.why # "script")
        /\ o.named => Top.loop # DefaultLoop
        /\ run.mode = "once" => run.why = "script"
    BY <1>1, <1>3, <2>1, TopFacts
  <2>4. ASSUME run.why = "drain"
        PROVE  Drains(run)'
    <3>1. Drains(Top)
      BY <1>1, <1>3, <2>4, TopFacts
    <3>2. /\ On(run.loop, "open") = {} /\ On(run.loop, "closing") \ Top.due \subseteq SlowHandles
          /\ loop[run.loop].stop => exception
      BY <1>1, <1>3, <3>1 DEF Drains
    <3>3. /\ On(run.loop, "open")' = {} /\ On(run.loop, "closing")' \ run.due \subseteq SlowHandles
          /\ loop'[run.loop].stop => exception'
      BY <1>1, <1>3, <1>4, <1>7, <1>8, <1>10, <3>2
    <3>4. QED
      BY <1>1, <1>3, <3>3 DEF Drains
  <2>5. exception' \in BOOLEAN /\ ended' \in BOOLEAN
    BY <1>4 DEF LoopInv, LoopTypeOK
  <2>6. QED
    BY <1>1, <1>3, <1>4, <1>5, <1>6, <1>7, <1>10, <2>2, <2>3, <2>4, <2>5, TopStep DEF SetTop
<1>11. QED
  BY <1>4, <1>9, <1>10

(* The innermost uv_run goes on within its iteration.                      *)
LEMMA MoveStep ==
  ASSUME LoopInv, stack # <<>>,
         NEW r \in Runs, SetTop(r),
         r.loop = Top.loop, r.why = Top.why, r.mode = Top.mode, ~r.in,
         r.at = "end" => r.mode = "once",
         r.why = "drain" =>
           CASE r.at = "closing" -> On(r.loop, "closing") \ r.due \subseteq SlowHandles
             [] r.at = "check" -> On(r.loop, "closing") \subseteq SlowHandles
             [] OTHER -> TRUE,
         UNCHANGED <<loop, handle, requests, exception, ended>>
  PROVE  LoopInv'
<1>1. PICK o \in LoopObjects : o = loop[Top.loop]
  BY TopFacts
<1>2. loop' = [loop EXCEPT ![Top.loop] = o]
  BY <1>1 DEF LoopInv, LoopTypeOK
<1>3. /\ o.life = "live" /\ (o.dtored <=> r.why # "script")
      /\ o.named => Top.loop # DefaultLoop
      /\ r.mode = "once" => r.why = "script"
  BY <1>1, TopFacts
<1>4. ASSUME r.why = "drain"
      PROVE  Drains(r)'
  <2>1. Drains(Top)
    BY <1>4, TopFacts
  <2>2. On(r.loop, "open") = {} /\ (loop[r.loop].stop => exception)
    BY <2>1 DEF Drains
  <2>3. r.at = "closing" \/ (r.at = "check" /\ loop[r.loop].stop) =>
          On(r.loop, "closing") \ (IF r.at = "closing" THEN r.due ELSE {}) \subseteq SlowHandles
    BY <1>4
  <2>4. QED
    BY <2>2, <2>3 DEF Drains, On
<1>5. /\ handle' \in [Handles -> HandleObjects] /\ requests' \in [Loops -> 0 .. MaxReqs]
      /\ exception' \in BOOLEAN /\ ended' \in BOOLEAN
      /\ \A l \in Loops : On(l, "open")' = On(l, "open") /\ On(l, "closing")' = On(l, "closing")
      /\ requests' = requests
  BY DEF LoopInv, LoopTypeOK, On
<1>6. stack' = Append(Front(stack), r)
  BY DEF SetTop
<1>7. QED
  BY <1>2, <1>3, <1>4, <1>5, <1>6, TopStep

LEMMA BeginIterationKeeps ==
  ASSUME LoopInv, BeginIteration
  PROVE  LoopInv'
<1>1. stack # <<>> /\ ~Top.in /\ Top \in Runs
  BY TopFacts DEF BeginIteration, InLoop
<1>2. PICK r \in Runs : r = [Top EXCEPT !.at = "poll"]
  BY <1>1 DEF Runs
<1>3. /\ r.loop = Top.loop /\ r.why = Top.why /\ r.mode = Top.mode /\ ~r.in /\ r.at = "poll"
  BY <1>1, <1>2 DEF Runs
<1>4. SetTop(r) /\ UNCHANGED <<loop, handle, requests, exception, ended>>
  BY <1>2 DEF BeginIteration, SetTop
<1>5. QED
  BY <1>1, <1>3, <1>4, MoveStep

LEMMA BeginClosingKeeps ==
  ASSUME LoopInv, NEW late \in SUBSET SlowHandles, BeginClosing(late)
  PROVE  LoopInv'
<1>1. stack # <<>> /\ ~Top.in /\ Top \in Runs
  BY TopFacts DEF BeginClosing, InLoop
<1>2. PICK r \in Runs : r = [Top EXCEPT !.at = "closing", !.due = On(Top.loop, "closing") \ late]
  BY <1>1 DEF Runs, On
<1>3. /\ r.loop = Top.loop /\ r.why = Top.why /\ r.mode = Top.mode /\ ~r.in /\ r.at = "closing"
      /\ r.due = On(Top.loop, "closing") \ late
  BY <1>1, <1>2 DEF Runs
<1>4. SetTop(r) /\ UNCHANGED <<loop, handle, requests, exception, ended>>
  BY <1>2 DEF BeginClosing, SetTop
<1>5. On(r.loop, "closing") \ r.due \subseteq SlowHandles
  BY <1>3
<1>6. QED
  BY <1>1, <1>3, <1>4, <1>5, MoveStep

(* All closes that were due have been reported.                            *)
LEMMA EndIterationKeeps ==
  ASSUME LoopInv, EndIteration
  PROVE  LoopInv'
<1>1. /\ stack # <<>> /\ ~Top.in /\ Top \in Runs
      /\ Top.at = "closing" /\ Top.due = {}
  BY TopFacts DEF EndIteration, InLoop
<1>2. PICK r \in Runs : r = [Top EXCEPT !.at = IF Top.mode = "once" THEN "end" ELSE "check"]
  BY <1>1 DEF Runs
<1>3. /\ r.loop = Top.loop /\ r.why = Top.why /\ r.mode = Top.mode /\ ~r.in
      /\ r.at = IF Top.mode = "once" THEN "end" ELSE "check"
  BY <1>1, <1>2 DEF Runs
<1>4. SetTop(r) /\ UNCHANGED <<loop, handle, requests, exception, ended>>
  BY <1>2 DEF EndIteration, SetTop
<1>5. ASSUME r.why = "drain"
      PROVE  On(r.loop, "closing") \subseteq SlowHandles
  <2>1. Drains(Top)
    BY <1>1, <1>3, <1>5, TopFacts
  <2>2. QED
    BY <1>1, <1>3, <2>1 DEF Drains
<1>6. QED
  BY <1>1, <1>3, <1>4, <1>5, MoveStep

(* A callback that throws stops its loop.                                  *)
LEMMA ReturnFromCallbackKeeps ==
  ASSUME LoopInv, ReturnFromCallback
  PROVE  LoopInv'
<1>1. /\ stack # <<>> /\ Top.in /\ Top \in Runs /\ Top.loop \in Loops
      /\ Top.at \in {"poll", "closing"}
  BY TopFacts DEF ReturnFromCallback
<1>2. PICK r \in Runs : r = [Top EXCEPT !.in = FALSE]
  BY <1>1 DEF Runs
<1>3. /\ r.loop = Top.loop /\ r.why = Top.why /\ r.mode = Top.mode /\ ~r.in
      /\ r.at = Top.at /\ r.due = Top.due
  BY <1>1, <1>2 DEF Runs
<1>4. /\ exception \in BOOLEAN /\ ended \in BOOLEAN /\ loop \in [Loops -> LoopObjects]
      /\ exception' \in BOOLEAN
      /\ Throws \in BOOLEAN
  BY LoopAssumption DEF LoopInv, LoopTypeOK, ReturnFromCallback
<1>5. PICK o \in LoopObjects : o = [loop[Top.loop] EXCEPT !.stop = @ \/ exception']
  <2>1. PICK b \in BOOLEAN : b = (loop[Top.loop].stop \/ exception')
    OBVIOUS
  <2>2. loop[Top.loop] \in LoopObjects
    BY <1>1, <1>4
  <2>3. [loop[Top.loop] EXCEPT !.stop = b] \in LoopObjects
    BY <2>2 DEF LoopObjects
  <2>4. QED
    BY <2>1, <2>3
<1>6. loop' = [loop EXCEPT ![Top.loop] = o] /\ stack' = Append(Front(stack), r)
  BY <1>2, <1>4, <1>5 DEF ReturnFromCallback, SetTop
<1>7. /\ o.life = "live" /\ (o.dtored <=> r.why # "script")
      /\ o.named => Top.loop # DefaultLoop
      /\ o.stop <=> loop[Top.loop].stop \/ exception'
      /\ r.mode = "once" => r.why = "script"
      /\ r.at # "end"
  BY <1>1, <1>3, <1>4, <1>5, TopFacts DEF LoopObjects
<1>8. UNCHANGED <<handle, requests, ended>>
  BY DEF ReturnFromCallback
<1>9. ASSUME r.why = "drain"
      PROVE  Drains(r)'
  <2>1. Drains(Top)
    BY <1>1, <1>3, <1>9, TopFacts
  <2>2. /\ On(r.loop, "open") = {} /\ ~loop[r.loop].stop
        /\ r.at = "closing" => On(r.loop, "closing") \ r.due \subseteq SlowHandles
    BY <1>1, <1>3, <2>1 DEF Drains
  <2>3. loop'[r.loop].stop => exception'
    BY <1>1, <1>3, <1>4, <1>6, <1>7, <2>2
  <2>4. QED
    BY <1>1, <1>3, <1>8, <2>2, <2>3 DEF Drains, On
<1>10. /\ handle' \in [Handles -> HandleObjects] /\ requests' \in [Loops -> 0 .. MaxReqs]
       /\ ended' \in BOOLEAN /\ requests' = requests
       /\ \A l \in Loops : On(l, "open")' = On(l, "open") /\ On(l, "closing")' = On(l, "closing")
  BY <1>4, <1>8 DEF LoopInv, LoopTypeOK, On
<1>11. QED
  BY <1>1, <1>3, <1>4, <1>6, <1>7, <1>9, <1>10, TopStep

(* The two runs of the destructor.                                         *)
LEMMA DestructorRuns ==
  ASSUME NEW l \in Loops
  PROVE  /\ Run(l, "flush", "default") \in Runs
         /\ Run(l, "drain", "default") \in Runs
BY DEF Run, Runs

(* uv_run returns: the script drops its argument; the destructor runs the  *)
(* loop again, or frees it.                                                *)
LEMMA RunEndsKeeps ==
  ASSUME LoopInv, RunEnds
  PROVE  LoopInv'
<1>1. /\ stack # <<>> /\ ~Top.in /\ Top \in Runs /\ Top.loop \in Loops
      /\ Top.at = "check" => ~Alive(Top.loop) \/ loop[Top.loop].stop
      /\ Top.at \in {"check", "end"}
      /\ UNCHANGED <<requests, exception, ended>>
  BY TopFacts DEF RunEnds, InLoop
<1>2. /\ exception \in BOOLEAN /\ ended \in BOOLEAN /\ loop \in [Loops -> LoopObjects]
      /\ handle \in [Handles -> HandleObjects] /\ requests \in [Loops -> 0 .. MaxReqs]
      /\ loop[Top.loop] \in LoopObjects
  BY <1>1 DEF LoopInv, LoopTypeOK
<1>3. PICK l \in Loops : l = Top.loop
  BY <1>1
<1>4. PICK cut \in BOOLEAN : cut = (loop[Top.loop].cut \/ (Top.why = "drain" /\ exception))
  OBVIOUS
<1>5. PICK o \in LoopObjects : o = [loop[Top.loop] EXCEPT !.stop = FALSE, !.cut = cut]
  BY <1>2 DEF LoopObjects
<1>6. /\ o.life = "live" /\ (o.dtored <=> Top.why # "script")
      /\ o.named => l # DefaultLoop
      /\ ~o.stop /\ o.cut = cut
  BY <1>1, <1>2, <1>3, <1>5, TopFacts DEF LoopObjects
<1>7. \/ /\ Top.why \in {"script", "drain"}
         /\ OBJ_RELEASE(o, l, Front(stack))
      \/ /\ Top.why = "script"
         /\ stack' = Front(stack) /\ loop' = [loop EXCEPT ![l] = o] /\ UNCHANGED handle
      \/ /\ Top.why = "flush"
         /\ handle' = [h \in Handles |->
              IF h \in On(l, "open") THEN destruct_uv_loop_walk_cb(h) ELSE handle[h]]
         /\ loop' = [loop EXCEPT ![l] = o]
         /\ SetTop(Run(l, "drain", "default"))
  <2>1. o = [loop[Top.loop] EXCEPT !.stop = FALSE,
                                   !.cut = loop[Top.loop].cut \/ (Top.why = "drain" /\ exception)]
    BY <1>4, <1>5
  <2>2. Top.why \in {"script", "flush", "drain"}
    BY <1>1 DEF Runs
  <2>3. QED
    BY <1>3, <2>1, <2>2 DEF RunEnds, OBJ_RELEASE, destruct_uv_loop, SetTop
<1>8. \A i \in DOMAIN Front(stack) : Front(stack)[i].loop # l
  BY <1>1, <1>3, StackFacts, FrontProperties
<1>9. ASSUME OBJ_RELEASE(o, l, Front(stack)),
             o.dtored => /\ On(l, "open") = {}
                         /\ IF o.cut THEN On(l, "closing") \subseteq SlowHandles
                            ELSE On(l, "closing") = {} /\ requests[l] = 0
      PROVE  LoopInv'
  <2>1. UNCHANGED handle
    BY <1>9 DEF OBJ_RELEASE, destruct_uv_loop
  <2>2. CASE o.named
    <3>1. stack' = Front(stack) /\ loop' = [loop EXCEPT ![l] = o]
      BY <1>9, <2>2 DEF OBJ_RELEASE
    <3>2. QED
      BY <1>1, <1>3, <1>6, <1>9, <2>1, <3>1, PopStep
  <2>3. CASE ~o.named /\ o.dtored
    <3>1. PICK freed \in LoopObjects : freed = [o EXCEPT !.life = "freed"]
      BY DEF LoopObjects
    <3>2. stack' = Front(stack) /\ loop' = [loop EXCEPT ![l] = freed]
      BY <1>8, <1>9, <2>3, <3>1 DEF OBJ_RELEASE
    <3>3. ~freed.named /\ freed.cut = o.cut
      BY <2>3, <3>1 DEF LoopObjects
    <3>4. QED
      BY <1>1, <1>3, <1>9, <2>1, <2>3, <3>2, <3>3, PopStep
  <2>4. CASE ~o.named /\ ~o.dtored
    <3>1. PICK dtored \in LoopObjects : dtored = [o EXCEPT !.dtored = TRUE, !.stop = TRUE]
      BY DEF LoopObjects
    <3>2. PICK r \in Runs : r = Run(l, "flush", "default")
      BY DestructorRuns
    <3>3. stack' = Append(Front(stack), r) /\ loop' = [loop EXCEPT ![l] = dtored]
      BY <1>8, <1>9, <2>4, <3>1, <3>2 DEF OBJ_RELEASE, destruct_uv_loop
    <3>4. ~dtored.named /\ dtored.dtored /\ dtored.life = "live"
      BY <1>6, <2>4, <3>1 DEF LoopObjects
    <3>5. r.loop = l /\ r.why = "flush" /\ r.mode = "default" /\ r.at = "check" /\ ~r.in
      BY <3>2 DEF Run
    <3>6. /\ handle' \in [Handles -> HandleObjects] /\ requests' \in [Loops -> 0 .. MaxReqs]
          /\ exception' \in BOOLEAN /\ ended' \in BOOLEAN /\ requests' = requests
          /\ \A k \in Loops : On(k, "open")' = On(k, "open") /\ On(k, "closing")' = On(k, "closing")
      BY <1>1, <1>2, <2>1 DEF On
    <3>7. QED
      BY <1>1, <1>3, <3>3, <3>4, <3>5, <3>6, TopStep
  <2>5. QED
    BY <2>2, <2>3, <2>4
<1>10. CASE Top.why = "script"
  <2>1. CASE OBJ_RELEASE(o, l, Front(stack))
    BY <1>6, <1>9, <1>10, <2>1
  <2>2. CASE stack' = Front(stack) /\ loop' = [loop EXCEPT ![l] = o] /\ UNCHANGED handle
    BY <1>1, <1>3, <1>6, <1>10, <2>2, PopStep
  <2>3. QED
    BY <1>7, <1>10, <2>1, <2>2
<1>11. CASE Top.why = "flush"
  <2>1. /\ handle' = [h \in Handles |-> IF h \in On(l, "open") THEN Closing(handle[h]) ELSE handle[h]]
        /\ loop' = [loop EXCEPT ![l] = o]
        /\ SetTop(Run(l, "drain", "default"))
    BY <1>7, <1>11 DEF destruct_uv_loop_walk_cb
  <2>2. PICK r \in Runs : r = Run(l, "drain", "default")
    BY DestructorRuns
  <2>3. r.loop = l /\ r.why = "drain" /\ r.mode = "default" /\ r.at = "check" /\ ~r.in
    BY <2>2 DEF Run
  <2>4. stack' = Append(Front(stack), r)
    BY <2>1, <2>2 DEF SetTop
  <2>5. \A h \in Handles :
          /\ handle'[h] \in HandleObjects /\ handle'[h].on = handle[h].on
          /\ h \in On(l, "open") => handle'[h].stage = "closing"
          /\ h \notin On(l, "open") => handle'[h] = handle[h]
    BY <1>2, <2>1 DEF Closing, HandleObjects
  <2>6. handle' \in [Handles -> HandleObjects]
    BY <2>1, <2>5
  <2>7. On(l, "open")' = {}
    BY <2>5 DEF On
  <2>8. \A k \in Loops \ {l} :
          On(k, "open")' \subseteq On(k, "open") /\ On(k, "closing")' \subseteq On(k, "closing")
    BY <2>5 DEF On
  <2>9. Drains(r)'
    <3>1. ~loop'[l].stop
      BY <1>2, <1>6, <2>1
    <3>2. QED
      BY <2>3, <2>7, <3>1 DEF Drains
  <2>10. /\ requests' \in [Loops -> 0 .. MaxReqs] /\ requests' = requests
         /\ exception' \in BOOLEAN /\ ended' \in BOOLEAN
    BY <1>1, <1>2
  <2>11. QED
    BY <1>1, <1>3, <1>6, <1>11, <2>1, <2>3, <2>4, <2>6, <2>8, <2>9, <2>10, TopStep
<1>12. CASE Top.why = "drain"
  <2>1. Drains(Top) /\ Top.at = "check"
    BY <1>1, <1>12, TopFacts
  <2>2. On(l, "open") = {} /\ (loop[l].stop => exception /\ On(l, "closing") \subseteq SlowHandles)
    BY <1>3, <2>1 DEF Drains
  <2>3. ~loop[l].stop => On(l, "closing") = {} /\ requests[l] = 0
    <3>1. ~loop[l].stop => On(l, "closing") = {} /\ ~(requests[l] > 0)
      BY <1>1, <1>3, <2>1 DEF Alive
    <3>2. requests[l] \in 0 .. MaxReqs
      BY <1>2
    <3>3. QED
      BY <3>1, <3>2, LoopAssumption
  <2>4. loop[l].stop => cut
    BY <1>4, <1>12, <2>2
  <2>5. OBJ_RELEASE(o, l, Front(stack))
    BY <1>7, <1>12
  <2>6. QED
    BY <1>6, <1>9, <2>2, <2>3, <2>4, <2>5
<1>13. QED
  <2>1. Top.why \in {"script", "flush", "drain"}
    BY <1>1 DEF Runs
  <2>2. QED
    BY <1>10, <1>11, <1>12, <2>1

-----------------------------------------------------------------------------
(* The steps of the script.                                                *)

(* The script is outside of uv_run, or in a callback of the innermost one. *)
LEMMA ScriptFacts ==
  ASSUME LoopInv, InScript \/ stack = <<>>
  PROVE  /\ \A i \in DOMAIN stack : stack[i].in
         /\ loop \in [Loops -> LoopObjects] /\ handle \in [Handles -> HandleObjects]
         /\ requests \in [Loops -> 0 .. MaxReqs]
         /\ exception \in BOOLEAN /\ ended \in BOOLEAN
         /\ ~loop[DefaultLoop].named
         /\ \A l \in Loops : loop[l] \in LoopObjects
         /\ \A l \in Loops : Running(l) => loop[l].life = "live"
<1>1. \A i \in DOMAIN stack : stack[i].in
  <2>1. CASE InScript
    BY <2>1, StackFacts
  <2>2. CASE stack = <<>>
    BY <2>2
  <2>3. QED
    BY <2>1, <2>2
<1>2. \A l \in Loops : Running(l) => loop[l].life = "live"
  BY DEF LoopInv, RunsNest, Running
<1>3. QED
  BY <1>1, <1>2 DEF LoopInv, LoopTypeOK

(* A step of the script on a handle, that is open already or on a loop     *)
(* whose destructor has not been called.                                   *)
LEMMA HandleStep ==
  ASSUME LoopInv, InScript \/ stack = <<>>,
         UNCHANGED <<loop, requests, stack, exception, ended>>,
         NEW h \in Handles, NEW o \in HandleObjects, handle' = [handle EXCEPT ![h] = o],
         \/ handle[h].stage = "open" /\ o.on = handle[h].on
         \/ o.on \in Loops /\ UsableLoop(o.on)
  PROVE  LoopInv'
<1>1. /\ \A i \in DOMAIN stack : stack[i].in
      /\ loop' \in [Loops -> LoopObjects] /\ handle \in [Handles -> HandleObjects]
      /\ requests' \in [Loops -> 0 .. MaxReqs]
      /\ exception' \in BOOLEAN /\ ended' \in BOOLEAN
      /\ ~loop'[DefaultLoop].named
  BY ScriptFacts
<1>2. /\ handle' \in [Handles -> HandleObjects] /\ handle'[h] = o
      /\ \A g \in Handles : g # h => handle'[g] = handle[g]
  BY <1>1
<1>3. ASSUME NEW l \in Loops, loop[l].dtored \/ loop[l].life = "freed", On(l, "open") = {}
      PROVE  On(l, "open")' = {} /\ On(l, "closing")' \subseteq On(l, "closing")
  <2>1. o.on # l
    BY <1>3 DEF On, UsableLoop
  <2>2. QED
    BY <1>2, <1>3, <2>1 DEF On
<1>4. \A l \in Loops : loop'[l].life = "freed"
                       \/ (loop'[l].life = "live" /\ loop'[l].dtored /\ l # DefaultLoop /\ ~Running(l))
                       => Drained(l) /\ loop'[l].cut = loop[l].cut
  BY DEF Drained
<1>5. QED
  BY <1>1, <1>2, <1>3, <1>4, ScriptStep

(* A step of the script on loops only.                                     *)
LEMMA LoopStep ==
  ASSUME LoopInv, InScript \/ stack = <<>>,
         UNCHANGED <<handle, requests, stack>>,
         exception' \in BOOLEAN, ended' \in BOOLEAN,
         loop' \in [Loops -> LoopObjects],
         \A l \in Loops : Running(l) =>
           /\ loop'[l].life = loop[l].life /\ loop'[l].dtored = loop[l].dtored
           /\ loop[l].dtored => loop'[l].stop = loop[l].stop,
         \A l \in Loops : loop'[l].life = "freed"
                          \/ (loop'[l].life = "live" /\ loop'[l].dtored /\ l # DefaultLoop /\ ~Running(l))
                          => Drained(l) /\ loop'[l].cut = loop[l].cut,
         ~loop'[DefaultLoop].named
  PROVE  LoopInv'
<1>1. /\ \A i \in DOMAIN stack : stack[i].in
      /\ handle' \in [Handles -> HandleObjects]
      /\ requests' \in [Loops -> 0 .. MaxReqs]
  BY ScriptFacts
<1>2. ASSUME NEW l \in Loops, On(l, "open") = {}
      PROVE  On(l, "open")' = {} /\ On(l, "closing")' \subseteq On(l, "closing")
  BY <1>2 DEF On
<1>3. QED
  BY <1>1, <1>2, ScriptStep

(* The destructor of l is called.                                          *)
LEMMA DestructKeeps ==
  ASSUME LoopInv, InScript \/ stack = <<>>,
         NEW l \in Loops, ~Running(l), loop[l].life = "live",
         NEW o \in LoopObjects, o.life = "live", o.named => l # DefaultLoop,
         destruct_uv_loop(o, l, stack),
         UNCHANGED <<requests, exception, ended>>
  PROVE  LoopInv'
<1>1. PICK dtored \in LoopObjects : dtored = [o EXCEPT !.dtored = TRUE, !.stop = TRUE]
  BY DEF LoopObjects
<1>2. dtored.life = "live" /\ dtored.dtored /\ (dtored.named => l # DefaultLoop)
  BY <1>1 DEF LoopObjects
<1>3. PICK r \in Runs : r = Run(l, "flush", "default")
  BY DestructorRuns
<1>4. r.loop = l /\ r.why = "flush" /\ r.mode = "default" /\ r.at = "check" /\ ~r.in
  BY <1>3 DEF Run
<1>5. stack' = Append(stack, r) /\ loop' = [loop EXCEPT ![l] = dtored] /\ UNCHANGED handle
  BY <1>1, <1>3 DEF destruct_uv_loop
<1>6. \A i \in DOMAIN stack : stack[i].in
  BY ScriptFacts
<1>7. QED
  BY <1>2, <1>4, <1>5, <1>6, PushStep

(* A reference to l goes: the loop stays, its destructor is called, or it  *)
(* is freed after its destructor.                                          *)
LEMMA ReleaseKeeps ==
  ASSUME LoopInv, InScript \/ stack = <<>>,
         NEW l \in Loops, loop[l].life = "live", l # DefaultLoop,
         NEW o \in LoopObjects,
         o.life = "live", o.dtored = loop[l].dtored, o.stop = loop[l].stop, o.cut = loop[l].cut,
         OBJ_RELEASE(o, l, stack),
         UNCHANGED <<requests, exception, ended>>
  PROVE  LoopInv'
<1>1. /\ loop \in [Loops -> LoopObjects] /\ exception' \in BOOLEAN /\ ended' \in BOOLEAN
      /\ ~loop[DefaultLoop].named
  BY ScriptFacts
<1>2. CASE o.named \/ Running(l)
  <2>1. loop' = [loop EXCEPT ![l] = o] /\ UNCHANGED <<handle, stack>>
    BY <1>2 DEF OBJ_RELEASE, Running
  <2>2. loop' \in [Loops -> LoopObjects] /\ loop'[l] = o /\ \A k \in Loops : k # l => loop'[k] = loop[k]
    BY <1>1, <2>1
  <2>3. \A k \in Loops : loop'[k].life = "freed"
                         \/ (loop'[k].life = "live" /\ loop'[k].dtored /\ k # DefaultLoop /\ ~Running(k))
                         => Drained(k) /\ loop'[k].cut = loop[k].cut
    BY <1>1, <1>2, <2>2 DEF Drained
  <2>4. QED
    BY <1>1, <2>1, <2>2, <2>3, LoopAssumption, LoopStep
<1>3. CASE ~(o.named \/ Running(l)) /\ o.dtored
  <2>1. PICK freed \in LoopObjects : freed = [o EXCEPT !.life = "freed"]
    BY DEF LoopObjects
  <2>2. loop' = [loop EXCEPT ![l] = freed] /\ UNCHANGED <<handle, stack>>
    BY <1>1, <1>3, <2>1 DEF OBJ_RELEASE, Running
  <2>3. /\ loop' \in [Loops -> LoopObjects] /\ loop'[l] = freed
        /\ \A k \in Loops : k # l => loop'[k] = loop[k]
        /\ freed.cut = o.cut
    BY <1>1, <2>1, <2>2 DEF LoopObjects
  <2>4. Drained(l)
    BY <1>1, <1>3 DEF Drained
  <2>5. \A k \in Loops : loop'[k].life = "freed"
                         \/ (loop'[k].life = "live" /\ loop'[k].dtored /\ k # DefaultLoop /\ ~Running(k))
                         => Drained(k) /\ loop'[k].cut = loop[k].cut
    BY <1>1, <2>3, <2>4 DEF Drained
  <2>6. QED
    BY <1>1, <1>3, <2>2, <2>3, <2>5, LoopAssumption, LoopStep
<1>4. CASE ~(o.named \/ Running(l)) /\ ~o.dtored
  <2>1. destruct_uv_loop(o, l, stack)
    BY <1>1, <1>4 DEF OBJ_RELEASE, Running
  <2>2. QED
    BY <1>1, <1>4, <2>1, DestructKeeps
<1>5. QED
  BY <1>2, <1>3, <1>4

LEMMA NewLoopKeeps ==
  ASSUME LoopInv, NEW l \in Loops, ScriptRuns, loop[l].life = "none",
         NEW o \in LoopObjects, o.life = "live", ~o.dtored, o.named => l # DefaultLoop,
         loop' = [loop EXCEPT ![l] = o],
         UNCHANGED <<handle, requests, stack, exception, ended>>
  PROVE  LoopInv'
<1>1. /\ InScript
      /\ loop \in [Loops -> LoopObjects] /\ ~loop[DefaultLoop].named
      /\ exception' \in BOOLEAN /\ ended' \in BOOLEAN
      /\ \A k \in Loops : Running(k) => loop[k].life = "live"
  BY ScriptFacts DEF ScriptRuns
<1>2. /\ loop' \in [Loops -> LoopObjects] /\ loop'[l] = o
      /\ \A k \in Loops : k # l => loop'[k] = loop[k]
  BY <1>1
<1>3. \A k \in Loops : loop'[k].life = "freed"
                       \/ (loop'[k].life = "live" /\ loop'[k].dtored /\ k # DefaultLoop /\ ~Running(k))
                       => Drained(k) /\ loop'[k].cut = loop[k].cut
  BY <1>2 DEF Drained
<1>4. \A k \in Loops : Running(k) => k # l
  BY <1>1
<1>5. QED
  BY <1>1, <1>2, <1>3, <1>4, LoopAssumption, LoopStep

LEMMA CreateKeeps ==
  ASSUME LoopInv, NEW l \in Loops, uv_loop_new(l) \/ php_uv_default_loop
  PROVE  LoopInv'
<1>1. CASE uv_loop_new(l)
  <2>1. PICK o \in LoopObjects : o = NewLoop
    BY DEF NewLoop, LoopObjects
  <2>2. o.life = "live" /\ ~o.dtored
    BY <2>1 DEF NewLoop
  <2>3. QED
    BY <1>1, <2>1, <2>2, NewLoopKeeps DEF uv_loop_new
<1>2. CASE php_uv_default_loop
  <2>1. PICK o \in LoopObjects : o = [NewLoop EXCEPT !.named = FALSE]
    BY DEF NewLoop, LoopObjects
  <2>2. o.life = "live" /\ ~o.dtored /\ ~o.named
    BY <2>1 DEF NewLoop
  <2>3. QED
    BY <1>2, <2>1, <2>2, LoopAssumption, NewLoopKeeps DEF php_uv_default_loop
<1>3. QED
  BY <1>1, <1>2

LEMMA HandleCallsKeep ==
  ASSUME LoopInv, NEW h \in Handles,
         \/ uv_start_stop(h) \/ uv_close(h) \/ destruct_uv(h)
         \/ \E l \in Loops : uv_init(h, l)
  PROVE  LoopInv'
<1>1. /\ InScript \/ stack = <<>>
      /\ UNCHANGED <<loop, requests, stack, exception, ended>>
  BY DEF uv_start_stop, uv_close, destruct_uv, uv_init, ScriptRuns
<1>2. handle \in [Handles -> HandleObjects] /\ handle[h] \in HandleObjects
  BY <1>1, ScriptFacts
<1>3. CASE uv_start_stop(h)
  <2>1. handle[h].stage = "open"
    BY <1>3 DEF uv_start_stop
  <2>2. CASE handle' = [handle EXCEPT ![h].active = ~@]
    <3>1. PICK o \in HandleObjects : o = [handle[h] EXCEPT !.active = ~@]
      BY <1>2 DEF HandleObjects
    <3>2. handle' = [handle EXCEPT ![h] = o] /\ o.on = handle[h].on
      BY <1>2, <2>2, <3>1 DEF HandleObjects
    <3>3. QED
      BY <1>1, <2>1, <3>2, HandleStep
  <2>3. CASE handle' = [handle EXCEPT ![h].ref = ~@]
    <3>1. PICK o \in HandleObjects : o = [handle[h] EXCEPT !.ref = ~@]
      BY <1>2 DEF HandleObjects
    <3>2. handle' = [handle EXCEPT ![h] = o] /\ o.on = handle[h].on
      BY <1>2, <2>3, <3>1 DEF HandleObjects
    <3>3. QED
      BY <1>1, <2>1, <3>2, HandleStep
  <2>4. QED
    BY <1>3, <2>2, <2>3 DEF uv_start_stop
<1>4. CASE uv_close(h)
  <2>1. PICK callable \in BOOLEAN :
          handle' = [handle EXCEPT ![h] = Closing([handle[h] EXCEPT !.notify = callable])]
    BY <1>4 DEF uv_close
  <2>2. PICK o \in HandleObjects : o = Closing([handle[h] EXCEPT !.notify = callable])
    BY <1>2 DEF HandleObjects, Closing
  <2>3. o.on = handle[h].on /\ handle[h].stage = "open"
    BY <1>2, <1>4, <2>2 DEF HandleObjects, Closing, uv_close
  <2>4. QED
    BY <1>1, <2>1, <2>2, <2>3, HandleStep
<1>5. CASE destruct_uv(h)
  <2>1. PICK o \in HandleObjects : o = Closing(handle[h])
    BY <1>2 DEF HandleObjects, Closing
  <2>2. /\ o.on = handle[h].on /\ handle[h].stage = "open"
        /\ handle' = [handle EXCEPT ![h] = o]
    BY <1>2, <1>5, <2>1 DEF HandleObjects, Closing, destruct_uv
  <2>3. QED
    BY <1>1, <2>2, HandleStep
<1>6. ASSUME NEW l \in Loops, uv_init(h, l)
      PROVE  LoopInv'
  <2>1. PICK o \in HandleObjects : o = [handle[h] EXCEPT !.on = l, !.stage = "open"]
    BY <1>2 DEF HandleObjects
  <2>2. handle' = [handle EXCEPT ![h] = o] /\ o.on = l /\ UsableLoop(l)
    BY <1>2, <1>6, <2>1 DEF HandleObjects, uv_init
  <2>3. QED
    BY <1>1, <2>2, HandleStep
<1>7. QED
  BY <1>3, <1>4, <1>5, <1>6

LEMMA SubmitKeeps ==
  ASSUME LoopInv, NEW l \in Loops, Submit(l)
  PROVE  LoopInv'
<1>1. InScript /\ UNCHANGED <<loop, handle, stack, exception, ended>> /\ UsableLoop(l)
  BY DEF Submit, ScriptRuns
<1>2. /\ \A i \in DOMAIN stack : stack[i].in
      /\ loop' \in [Loops -> LoopObjects] /\ handle' \in [Handles -> HandleObjects]
      /\ requests \in [Loops -> 0 .. MaxReqs]
      /\ exception' \in BOOLEAN /\ ended' \in BOOLEAN
      /\ ~loop'[DefaultLoop].named
  BY <1>1, ScriptFacts
<1>3. /\ requests' \in [Loops -> 0 .. MaxReqs]
      /\ \A k \in Loops : k # l => requests'[k] = requests[k]
  BY <1>2, LoopAssumption DEF Submit
<1>4. ASSUME NEW k \in Loops, loop[k].dtored \/ loop[k].life = "freed", On(k, "open") = {}
      PROVE  On(k, "open")' = {} /\ On(k, "closing")' \subseteq On(k, "closing") /\ requests'[k] = requests[k]
  <2>1. k # l
    BY <1>1, <1>4 DEF UsableLoop
  <2>2. QED
    BY <1>1, <1>3, <1>4, <2>1 DEF On
<1>5. \A k \in Loops : loop'[k].life = "freed"
                       \/ (loop'[k].life = "live" /\ loop'[k].dtored /\ k # DefaultLoop /\ ~Running(k))
                       => Drained(k) /\ loop'[k].cut = loop[k].cut
  BY <1>1 DEF Drained
<1>6. QED
  BY <1>1, <1>2, <1>3, <1>4, <1>5, ScriptStep

LEMMA RunKeeps ==
  ASSUME LoopInv, NEW l \in Loops, uv_run(l)
  PROVE  LoopInv'
<1>1. /\ InScript /\ UsableLoop(l) /\ ~Running(l)
      /\ UNCHANGED <<loop, handle, requests, exception, ended>>
  BY DEF uv_run, ScriptRuns
<1>2. PICK mode \in {"default", "once"} : stack' = Append(stack, Run(l, "script", mode))
  BY DEF uv_run
<1>3. PICK r \in Runs : r = Run(l, "script", mode)
  BY DEF Run, Runs
<1>4. r.loop = l /\ r.why = "script" /\ r.at = "check" /\ ~r.in
  BY <1>3 DEF Run
<1>5. /\ \A i \in DOMAIN stack : stack[i].in
      /\ loop \in [Loops -> LoopObjects] /\ loop[l] \in LoopObjects
      /\ ~loop[DefaultLoop].named
  BY <1>1, ScriptFacts
<1>6. PICK o \in LoopObjects : o = loop[l]
  BY <1>5
<1>7. /\ loop' = [loop EXCEPT ![l] = o]
      /\ o.life = "live" /\ ~o.dtored /\ (o.named => l # DefaultLoop)
  BY <1>1, <1>5, <1>6 DEF UsableLoop
<1>8. QED
  BY <1>1, <1>2, <1>3, <1>4, <1>5, <1>7, PushStep

(* uv_stop, which is not accepted for a loop that is destroyed.            *)
LEMMA StopKeeps ==
  ASSUME LoopInv, NEW l \in Loops, uv_stop(l)
  PROVE  LoopInv'
<1>1. InScript /\ UsableLoop(l) /\ UNCHANGED <<handle, requests, stack, exception, ended>>
  BY DEF uv_stop, ScriptRuns
<1>2. /\ loop \in [Loops -> LoopObjects] /\ loop[l] \in LoopObjects /\ ~loop[DefaultLoop].named
      /\ exception' \in BOOLEAN /\ ended' \in BOOLEAN
  BY <1>1, ScriptFacts
<1>3. PICK o \in LoopObjects : o = [loop[l] EXCEPT !.stop = TRUE]
  BY <1>2 DEF LoopObjects
<1>4. /\ o.life = loop[l].life /\ o.dtored = loop[l].dtored /\ ~loop[l].dtored
      /\ o.named = loop[l].named /\ o.cut = loop[l].cut
  BY <1>1, <1>2, <1>3 DEF LoopObjects, UsableLoop
<1>5. /\ loop' \in [Loops -> LoopObjects] /\ loop'[l] = o
      /\ \A k \in Loops : k # l => loop'[k] = loop[k]
  BY <1>2, <1>3 DEF uv_stop
<1>6. \A k \in Loops : loop'[k].life = "freed"
                       \/ (loop'[k].life = "live" /\ loop'[k].dtored /\ k # DefaultLoop /\ ~Running(k))
                       => Drained(k) /\ loop'[k].cut = loop[k].cut
  BY <1>4, <1>5 DEF Drained
<1>7. QED
  BY <1>1, <1>2, <1>4, <1>5, <1>6, LoopAssumption, LoopStep

LEMMA UnsetKeeps ==
  ASSUME LoopInv, NEW l \in Loops, UnsetLoop(l)
  PROVE  LoopInv'
<1>1. /\ InScript /\ loop[l].life = "live" /\ loop[l].named
      /\ OBJ_RELEASE([loop[l] EXCEPT !.named = FALSE], l, stack)
      /\ UNCHANGED <<requests, exception, ended>>
  BY DEF UnsetLoop
<1>2. loop[l] \in LoopObjects /\ l # DefaultLoop
  BY <1>1, ScriptFacts
<1>3. PICK o \in LoopObjects : o = [loop[l] EXCEPT !.named = FALSE]
  BY <1>2 DEF LoopObjects
<1>4. o.life = "live" /\ o.dtored = loop[l].dtored /\ o.stop = loop[l].stop /\ o.cut = loop[l].cut
  BY <1>1, <1>2, <1>3 DEF LoopObjects
<1>5. OBJ_RELEASE(o, l, stack)
  BY <1>1, <1>3 DEF OBJ_RELEASE, destruct_uv_loop
<1>6. QED
  BY <1>1, <1>2, <1>4, <1>5, ReleaseKeeps

LEMMA DeleteKeeps ==
  ASSUME LoopInv, NEW l \in Loops, uv_loop_delete(l)
  PROVE  LoopInv'
<1>1. /\ InScript /\ UsableLoop(l) /\ ~Running(l) /\ l # DefaultLoop
      /\ destruct_uv_loop(loop[l], l, stack)
      /\ UNCHANGED <<requests, exception, ended>>
  BY DEF uv_loop_delete, ScriptRuns
<1>2. PICK o \in LoopObjects : o = loop[l]
  BY <1>1, ScriptFacts
<1>3. destruct_uv_loop(o, l, stack) /\ o.life = "live"
  BY <1>1, <1>2 DEF destruct_uv_loop, UsableLoop
<1>4. QED
  BY <1>1, <1>3, DestructKeeps DEF UsableLoop

LEMMA CatchKeeps ==
  ASSUME LoopInv, Catch
  PROVE  LoopInv'
<1>1. InScript /\ exception' = FALSE /\ UNCHANGED <<loop, handle, requests, stack, ended>>
  BY DEF Catch
<1>2. /\ loop' \in [Loops -> LoopObjects] /\ ~loop'[DefaultLoop].named
      /\ exception' \in BOOLEAN /\ ended' \in BOOLEAN
  BY <1>1, ScriptFacts
<1>3. \A k \in Loops : loop'[k].life = "freed"
                       \/ (loop'[k].life = "live" /\ loop'[k].dtored /\ k # DefaultLoop /\ ~Running(k))
                       => Drained(k) /\ loop'[k].cut = loop[k].cut
  BY <1>1 DEF Drained
<1>4. QED
  BY <1>1, <1>2, <1>3, LoopStep

-----------------------------------------------------------------------------
(* The end of the script.                                                  *)

LEMMA ScriptEndKeeps ==
  ASSUME LoopInv, ScriptEnd
  PROVE  LoopInv'
<1>1. stack = <<>> /\ ended' = TRUE /\ exception' = FALSE /\ UNCHANGED <<handle, requests, stack>>
  BY DEF ScriptEnd
<1>2. loop \in [Loops -> LoopObjects] /\ \A l \in Loops : loop[l] \in LoopObjects
  BY <1>1, ScriptFacts
<1>3. \A l \in Loops :
        /\ loop'[l] \in LoopObjects /\ ~loop'[l].named
        /\ loop'[l].life = loop[l].life /\ loop'[l].cut = loop[l].cut
        /\ l # DefaultLoop => loop'[l].dtored = loop[l].dtored
  <2> TAKE l \in Loops
  <2>1. loop[l] \in LoopObjects
    BY <1>2
  <2>2. loop'[l] = [loop[l] EXCEPT !.named = FALSE, !.dtored = @ \/ l = DefaultLoop]
    BY DEF ScriptEnd
  <2>3. PICK b \in BOOLEAN : b = (loop[l].dtored \/ l = DefaultLoop)
    OBVIOUS
  <2>4. loop'[l] = [loop[l] EXCEPT !.named = FALSE, !.dtored = b]
    BY <2>2, <2>3
  <2>5. l # DefaultLoop => b = loop[l].dtored
    BY <2>1, <2>3 DEF LoopObjects
  <2>6. QED
    BY <2>1, <2>4, <2>5 DEF LoopObjects
<1>4. loop' \in [Loops -> LoopObjects]
  BY <1>3 DEF ScriptEnd
<1>5. \A l \in Loops : ~Running(l)
  BY <1>1 DEF Running
<1>6. \A k \in Loops : loop'[k].life = "freed"
                       \/ (loop'[k].life = "live" /\ loop'[k].dtored /\ k # DefaultLoop /\ ~Running(k))
                       => Drained(k) /\ loop'[k].cut = loop[k].cut
  BY <1>3 DEF Drained
<1>7. QED
  BY <1>1, <1>3, <1>4, <1>5, <1>6, LoopAssumption, LoopStep

LEMMA DestroyLoopKeeps ==
  ASSUME LoopInv, NEW l \in Loops, DestroyLoop(l)
  PROVE  LoopInv'
<1>1. /\ stack = <<>> /\ l # DefaultLoop /\ loop[l].life = "live"
      /\ OBJ_RELEASE(loop[l], l, stack)
      /\ UNCHANGED <<requests, exception, ended>>
  BY DEF DestroyLoop
<1>2. PICK o \in LoopObjects : o = loop[l]
  BY <1>1, ScriptFacts
<1>3. OBJ_RELEASE(o, l, stack)
  BY <1>1, <1>2 DEF OBJ_RELEASE, destruct_uv_loop
<1>4. QED
  BY <1>1, <1>2, <1>3, ReleaseKeeps

LEMMA ShutdownKeeps ==
  ASSUME LoopInv, RSHUTDOWN
  PROVE  LoopInv'
<1>1. /\ stack = <<>> /\ loop[DefaultLoop].life = "live"
      /\ destruct_uv_loop(loop[DefaultLoop], DefaultLoop, stack)
      /\ UNCHANGED <<requests, exception, ended>>
  BY DEF RSHUTDOWN
<1>2. PICK o \in LoopObjects : o = loop[DefaultLoop]
  BY <1>1, ScriptFacts, LoopAssumption
<1>3. destruct_uv_loop(o, DefaultLoop, stack) /\ o.life = "live" /\ ~o.named
  BY <1>1, <1>2, ScriptFacts DEF destruct_uv_loop
<1>4. ~Running(DefaultLoop)
  BY <1>1 DEF Running
<1>5. QED
  BY <1>1, <1>3, <1>4, LoopAssumption, DestructKeeps

-----------------------------------------------------------------------------
(* The theorems.                                                           *)

LEMMA LoopStarts ==
  ASSUME Init
  PROVE  LoopInv
<1>1. stack = <<>> /\ stack \in Seq(Runs) /\ DOMAIN stack = {} /\ Len(stack) = 0
  BY EmptySeq DEF Init
<1>2. LoopTypeOK
  <2>1. loop \in [Loops -> LoopObjects]
    BY DEF Init, LoopObjects, NewLoop
  <2>2. handle \in [Handles -> HandleObjects]
    BY DEF Init, HandleObjects
  <2>3. requests \in [Loops -> 0 .. MaxReqs]
    BY LoopAssumption DEF Init
  <2>4. exception \in BOOLEAN /\ ended \in BOOLEAN
    BY DEF Init
  <2>5. QED
    BY <1>1, <2>1, <2>2, <2>3, <2>4 DEF LoopTypeOK
<1>3. RunsNest /\ DrainsEmpty
  BY <1>1 DEF RunsNest, DrainsEmpty
<1>4. \A l \in Loops : ~Drained(l) /\ ~loop[l].named
  BY DEF Init, NewLoop, Drained
<1>5. QED
  BY <1>2, <1>3, <1>4, LoopAssumption DEF LoopInv

LEMMA LoopStutters ==
  ASSUME LoopInv, UNCHANGED loopVars
  PROVE  LoopInv'
BY DEF LoopInv, LoopTypeOK, RunsNest, DrainsEmpty, Drains, Drained, Empty, On, Running, loopVars

LEMMA LoopInductive ==
  ASSUME LoopInv, [Next]_loopVars
  PROVE  LoopInv'
<1>1. CASE LoopNext
  <2>1. CASE BeginIteration
    BY <2>1, BeginIterationKeeps
  <2>2. ASSUME NEW late \in SUBSET SlowHandles, BeginClosing(late)
        PROVE  LoopInv'
    BY <2>2, BeginClosingKeeps
  <2>3. CASE EndIteration
    BY <2>3, EndIterationKeeps
  <2>4. CASE RunEnds
    BY <2>4, RunEndsKeeps
  <2>5. CASE RequestCallback
    BY <2>5, RequestCallbackKeeps
  <2>6. CASE ReturnFromCallback
    BY <2>6, ReturnFromCallbackKeeps
  <2>7. ASSUME NEW h \in Handles, HandleCallback(h) \/ php_uv_close_cb(h)
        PROVE  LoopInv'
    BY <2>7, HandleCallbackKeeps, CloseCallbackKeeps
  <2>8. QED
    BY <1>1, <2>1, <2>2, <2>3, <2>4, <2>5, <2>6, <2>7 DEF LoopNext
<1>2. CASE ScriptNext
  <2>1. CASE php_uv_default_loop
    BY <2>1, CreateKeeps, LoopAssumption
  <2>2. CASE Catch
    BY <2>2, CatchKeeps
  <2>3. ASSUME NEW l \in Loops,
               \/ uv_loop_new(l) \/ UnsetLoop(l) \/ uv_loop_delete(l)
               \/ uv_run(l) \/ uv_stop(l) \/ Submit(l)
        PROVE  LoopInv'
    BY <2>3, CreateKeeps, UnsetKeeps, DeleteKeeps, RunKeeps, StopKeeps, SubmitKeeps
  <2>4. ASSUME NEW h \in Handles,
               \/ uv_start_stop(h) \/ uv_close(h) \/ destruct_uv(h)
               \/ \E l \in Loops : uv_init(h, l)
        PROVE  LoopInv'
    BY <2>4, HandleCallsKeep
  <2>5. QED
    BY <1>2, <2>1, <2>2, <2>3, <2>4 DEF ScriptNext
<1>3. CASE ShutdownNext
  <2>1. ASSUME NEW l \in Loops, DestroyLoop(l)
        PROVE  LoopInv'
    BY <2>1, DestroyLoopKeeps
  <2>2. QED
    BY <1>3, <2>1, ScriptEndKeeps, ShutdownKeeps DEF ShutdownNext
<1>4. CASE UNCHANGED loopVars
  BY <1>4, LoopStutters
<1>5. QED
  BY <1>1, <1>2, <1>3, <1>4 DEF Next

(* Calls of uv_run nest, the last run of a loop closes what is open on it, *)
(* and a loop whose destructor is over is empty, but for what an exception *)
(* cut short.                                                              *)
THEOREM LoopInvariant == Spec => []LoopInv
<1>1. Init => LoopInv
  BY LoopStarts
<1>2. LoopInv /\ [Next]_loopVars => LoopInv'
  BY LoopInductive
<1>3. QED
  BY <1>1, <1>2, PTL DEF Spec, Safety

(* When the memory of a loop is freed neither a handle nor a request is    *)
(* left in it, unless a callback of its last run threw.                    *)
THEOREM LoopFreedIsEmpty == Spec => []FreedLoopIsEmpty
<1>1. LoopInv => FreedLoopIsEmpty
  BY DEF LoopInv, FreedLoopIsEmpty, Drained
<1>2. QED
  BY <1>1, LoopInvariant, PTL

(* Only an exception stops the last run of a loop: an exception is pending *)
(* whenever the stop flag of a loop that is being drained is set.          *)
DrainsUntilException ==
  \A i \in DOMAIN stack :
    stack[i].why = "drain" /\ loop[stack[i].loop].stop => exception

THEOREM LoopDrainsUntilException == Spec => []DrainsUntilException
<1>1. LoopInv => DrainsUntilException
  BY DEF LoopInv, DrainsEmpty, Drains, DrainsUntilException
<1>2. QED
  BY <1>1, LoopInvariant, PTL

=============================================================================
