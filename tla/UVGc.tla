--------------------------------- MODULE UVGc --------------------------------
(***************************************************************************)
(* Garbage collection.  Counts alone never free a cycle: an object of the  *)
(* script that has a poll in a property, whose callback is bound to the    *)
(* object.  Zend's collector asks every object what it refers to; what is  *)
(* counted only by what is reported, and is not reached from anything that *)
(* is counted otherwise, is garbage, and its destructors are called.  The  *)
(* extension reports what the slots of a handle hold and which handles a   *)
(* loop holds; whatever it reports must be counted, and what it does not   *)
(* report is never collected.                                              *)
(***************************************************************************)
EXTENDS UVCallback

CONSTANTS
  Loops, DefaultLoop,
  Unwritten \* what new memory holds: nothing, or what looks like an object

ASSUME GcAssumption ==
  /\ DefaultLoop \in Loops
  /\ Things \cap (Handles \cup Loops) = {} /\ Handles \cap Loops = {}
  /\ Unwritten \notin Things /\ NoObject \notin Handles \cup Loops

VARIABLES
  node,     \* node[x]: the Zend object of a handle or a loop
  on,       \* on[h]: the loop of a handle
  active,   \* the handles that are started
  points,   \* points[n]: what a closure captured, an object has in properties
  gc_data,  \* gc_data[h]: the second word of h's report, as it was left
  doomed    \* the garbage whose destructors the collector still has to call

gcVars == <<callbackVars, node, on, active, points, gc_data, doomed>>

Nodes == Handles \cup Loops

NoNode == [life |-> "none", rc |-> 0, named |-> FALSE, dtored |-> FALSE]

(* The default loop is the extension's.                                    *)
GcInit ==
  /\ Init
  /\ node = [x \in Nodes |->
       IF x = DefaultLoop THEN [NoNode EXCEPT !.life = "live", !.rc = 1] ELSE NoNode]
  /\ on = [h \in Handles |-> DefaultLoop]
  /\ active = {}
  /\ points = [n \in Things |-> {}]
  /\ gc_data = [h \in Handles |-> Unwritten]
  /\ doomed = {}

-----------------------------------------------------------------------------
(* Counts.                                                                 *)

Add(S, delta) == [x \in Nodes |-> [node[x] EXCEPT !.rc = @ + delta * One(x \in S)]]

Draining(l) == node[l].life = "live" /\ node[l].dtored

(* Destructors, and frees, come before anything else.  What follows from a *)
(* count that is too low is left to UVCallback.                            *)
Quiet ==
  /\ Defined
  /\ short = {}
  /\ doomed = {}
  /\ \A x \in Nodes : node[x].life = "live" => node[x].rc > 0
  /\ ~ \E l \in Loops : Draining(l)

UsableNode(x) ==
  /\ node[x].life = "live" /\ ~node[x].dtored
  /\ node[x].named \/ frame.handle = x \/ x = DefaultLoop

-----------------------------------------------------------------------------
(* The script, and the callbacks of the loop (in QuietNext).               *)

GcNewObject(o) ==
  /\ NewObject(o)
  /\ UNCHANGED <<node, on, active, points, gc_data, doomed>>

(* function () use (...) {...}; an array captures nothing.                 *)
GcNewFunction(f, o, captured) ==
  /\ NewFunction(f, o)
  /\ f \in Methods => captured = {}
  /\ \A x \in captured : UsableNode(x) /\ x # DefaultLoop
  /\ points' = [points EXCEPT ![f] = captured]
  /\ node' = Add(captured, 1)
  /\ UNCHANGED <<on, active, gc_data, doomed>>

(* $o->x = ...                                                             *)
SetProperty(o, x) ==
  /\ CanName(o) /\ UsableNode(x) /\ x # DefaultLoop /\ x \notin points[o]
  /\ points' = [points EXCEPT ![o] = @ \cup {x}]
  /\ node' = Add({x}, 1)
  /\ UNCHANGED <<callbackVars, on, active, gc_data, doomed>>

GcUnset(n) ==
  /\ Unset(n)
  /\ UNCHANGED <<node, on, active, points, gc_data, doomed>>

UnsetNode(x) ==
  /\ node[x].named
  /\ node' = [node EXCEPT ![x].named = FALSE, ![x].rc = @ - 1]
  /\ UNCHANGED <<callbackVars, on, active, points, gc_data, doomed>>

GcFree(n) ==
  /\ Free(n)
  /\ points' = [points EXCEPT ![n] = {}]
  /\ node' = Add(points[n], -1)
  /\ UNCHANGED <<on, active, gc_data, doomed>>

NewNode == [life |-> "live", rc |-> 1, named |-> TRUE, dtored |-> FALSE]

uv_loop_new(l) ==
  /\ node[l].life = "none"
  /\ node' = [node EXCEPT ![l] = NewNode]
  /\ UNCHANGED <<callbackVars, on, active, points, gc_data, doomed>>

(* php_uv_create_uv does not write gc_data.                                *)
uv_poll_init(h, l) ==
  /\ UsableNode(l)
  /\ Create(h, "poll")
  /\ node' = [node EXCEPT ![h] = NewNode]
  /\ on' = [on EXCEPT ![h] = l]
  /\ UNCHANGED <<active, points, gc_data, doomed>>

GcPollStart(h, f) ==
  /\ UsableNode(h)
  /\ uv_poll_start(h, f)
  /\ node' = Add({h} \ active, 1)
  /\ active' = active \cup {h}
  /\ UNCHANGED <<on, points, gc_data, doomed>>

uv_poll_stop(h) ==
  /\ UsableNode(h)
  /\ h \in active
  /\ active' = active \ {h}
  /\ node' = Add({h}, -1)
  /\ UNCHANGED <<callbackVars, on, points, gc_data, doomed>>

(* The loop is an argument of the uv_run that runs.                        *)
GcPollCallback(h) ==
  /\ h \in active
  /\ UsableNode(on[h])
  /\ php_uv_poll_cb(h)
  /\ node' = Add({h, on[h]}, 1)
  /\ UNCHANGED <<on, active, points, gc_data, doomed>>

GcReturn ==
  /\ ReturnFromCallback
  /\ node' = Add({frame.handle, on[frame.handle]}, -1)
  /\ UNCHANGED <<on, active, points, gc_data, doomed>>

-----------------------------------------------------------------------------
(* Closing.                                                                *)

(* Mutant of php_uv_close: the close has no reference of its own.          *)
CloseUnowned(S, marked) ==
  /\ uv' = [h \in Handles |-> IF h \in S THEN [uv[h] EXCEPT !.stage = "closing"] ELSE uv[h]]
  /\ active' = active \ S
  /\ node' = [x \in Nodes |->
       [node[x] EXCEPT !.dtored = @ \/ x \in S \cup marked]]
  /\ UNCHANGED <<thing, asked, write, frame, drift, short>>

(* The handles S begin to close: each has one reference for it, that of    *)
(* its activity or a new one; marked are the nodes whose destructor runs.  *)
php_uv_close(S, marked) ==
  /\ uv' = [h \in Handles |-> IF h \in S THEN [uv[h] EXCEPT !.stage = "closing"] ELSE uv[h]]
  /\ active' = active \ S
  /\ node' = [x \in Nodes |->
       [node[x] EXCEPT !.rc = @ + One(x \in S \ active), !.dtored = @ \/ x \in S \cup marked]]
  /\ UNCHANGED <<thing, asked, write, frame, drift, short>>

GcClose(h) ==
  /\ UsableNode(h)
  /\ php_uv_close({h}, {})
  /\ UNCHANGED <<on, points, gc_data, doomed>>

OpenOn(l) == {h \in Handles : on[h] = l /\ uv[h].stage = "open"}

(* destruct_uv of a handle, destruct_uv_loop of a loop: it closes all its  *)
(* handles and runs until nothing is left.                                 *)
Destruct(x) == php_uv_close(IF x \in Loops THEN OpenOn(x) ELSE {x}, {x})

Release(x) ==
  /\ Settled
  /\ node[x].life = "live" /\ node[x].rc <= 0
  /\ \/ ~node[x].dtored /\ Destruct(x)
     \/ /\ node[x].dtored
        /\ \A h \in Handles : x = on[h] => uv[h].stage # "closing"
        /\ node' = [node EXCEPT ![x].life = "freed"]
        /\ UNCHANGED <<callbackVars, active>>
  /\ UNCHANGED <<on, points, gc_data, doomed>>

(* While a loop is destroyed only its closes are reported, and none while  *)
(* a callback of the loop runs.                                            *)
GcCloseCb(h) ==
  /\ Defined
  /\ Quiet \/ Draining(on[h])
  /\ frame # NoFrame => on[frame.handle] # on[h]
  /\ uv[h].stage = "closing"
  /\ Count(clean_uv_handle(h))
  /\ uv' = [uv EXCEPT ![h] = Cleaned(h)]
  /\ node' = Add({h}, -1)
  /\ UNCHANGED <<asked, write, frame, drift, short, on, active, points, gc_data, doomed>>

-----------------------------------------------------------------------------
(* What objects report.                                                    *)

(* Mutant of php_uv_get_gc: the objects of the callbacks are left out.     *)
ReportFunctions(h) ==
  IF node[h].dtored THEN {} ELSE {uv[h].slot["poll"].fn} \cap Functions

(* The second word of a slot is written only if the callback has an object.*)
SecondWord(h) ==
  LET cb == uv[h].slot["poll"]
  IN  IF cb.set /\ cb.object = NoObject THEN gc_data[h] ELSE cb.object

(* A function and an object, each at most once.                            *)
php_uv_get_gc(h) ==
  IF node[h].dtored THEN {} ELSE {uv[h].slot["poll"].fn, SecondWord(h)} \cap Things

(* Mutant of php_uv_loop_get_gc_walk_cb: every handle is reported.         *)
WalkAll(l, h) == on[h] = l /\ node[h].life = "live"

(* Handles the loop holds: of a referenced class, and active.              *)
php_uv_loop_get_gc_walk_cb(l, h) == on[h] = l /\ h \in active

php_uv_loop_get_gc(l) ==
  {h \in Handles : ~node[l].dtored /\ php_uv_loop_get_gc_walk_cb(l, h)}

All == Things \cup Nodes

Live(n) == IF n \in Things THEN thing[n].life = "live" ELSE node[n].life = "live"

Rc(n) == IF n \in Things THEN thing[n].rc ELSE node[n].rc

(* What each object reports.                                               *)
Reported ==
  [n \in All |->
     IF ~Live(n) THEN {}
     ELSE CASE n \in Handles -> php_uv_get_gc(n)
            [] n \in Loops   -> php_uv_loop_get_gc(n)
            [] n \in Things  -> (points[n] \cup {thing[n].this}) \cap All]

(* Everything that can be reached from S along successors next[n]: the     *)
(* least set that has S in it and is closed under next.                    *)
Reach(S, next) ==
  LET closed == {C \in SUBSET All : S \subseteq C /\ \A n \in C : next[n] \subseteq C}
  IN  {n \in All : \A C \in closed : n \in C}

Reporters(m) == {n \in All : Live(n) /\ m \in Reported[n]}

(* Zend: more references than are reported come from elsewhere.            *)
External == {m \in All : Live(m) /\ Rc(m) > Cardinality(Reporters(m))}

Garbage == {m \in All : Live(m)} \ Reach(External, Reported)

Undestroyed == {x \in Nodes : node[x].life = "live" /\ ~node[x].dtored}

ReadsUnwritten(h) == h \in Undestroyed /\ SecondWord(h) = Unwritten

(* gc_collect_cycles, in any call of PHP code.  Everything is taken for a  *)
(* possible root.  What it makes of a word that was never written is       *)
(* undefined: it may take anything for garbage.                            *)
gc_collect_cycles ==
  /\ \/ doomed' = Garbage \cap Undestroyed
     \/ (\E h \in Handles : ReadsUnwritten(h)) /\ \E x \in Undestroyed : doomed' = {x}
  /\ gc_data' = [h \in Handles |-> IF h \in Undestroyed THEN SecondWord(h) ELSE gc_data[h]]
  /\ UNCHANGED <<callbackVars, node, on, active, points>>

(* The destructors of the garbage, one after the other; its memory is freed*)
(* when its count is zero, or by a later run.                              *)
CallDestructor(x) ==
  /\ Settled
  /\ ~ \E l \in Loops : Draining(l) /\ \E h \in Handles : on[h] = l /\ uv[h].stage = "closing"
  /\ x \in doomed
  /\ doomed' = doomed \ {x}
  /\ IF node[x].dtored THEN UNCHANGED <<callbackVars, node, active>> ELSE Destruct(x)
  /\ UNCHANGED <<on, points, gc_data>>

-----------------------------------------------------------------------------
(* What waits until nothing is being freed or destroyed.                   *)
QuietNext ==
  \/ \E o \in Objects : GcNewObject(o) \/ \E x \in Nodes : SetProperty(o, x)
  \/ \E f \in Functions, o \in Objects \cup {NoObject}, captured \in {{}} \cup {{x} : x \in Nodes} :
       GcNewFunction(f, o, captured)
  \/ \E n \in Things : GcUnset(n)
  \/ \E x \in Nodes : UnsetNode(x)
  \/ \E l \in Loops : uv_loop_new(l)
  \/ \E h \in Handles :
       \/ \E l \in Loops : uv_poll_init(h, l)
       \/ \E f \in Functions : GcPollStart(h, f)
       \/ uv_poll_stop(h) \/ GcPollCallback(h) \/ GcClose(h)
  \/ GcReturn
  \/ gc_collect_cycles

GcNext ==
  \/ Quiet /\ QuietNext
  \/ \E n \in Things : GcFree(n)
  \/ \E x \in Nodes : Release(x) \/ CallDestructor(x)
  \/ \E h \in Handles : GcCloseCb(h)

GcSafety == GcInit /\ [][GcNext]_gcVars

-----------------------------------------------------------------------------
(* What is needed: what the script can name, what runs, what libuv will    *)
(* call back, and everything these lead to.                                *)
Leads ==
  [n \in All |->
     IF ~Live(n) THEN {}
     ELSE CASE n \in Handles ->
                 LET s == IF uv[n].stage = "open" THEN "poll" ELSE "close"
                 IN  {uv[n].slot[s].fn, uv[n].slot[s].object} \cap Things
            [] n \in Loops   -> {h \in active : on[h] = n}
            [] n \in Things  -> (points[n] \cup {thing[n].this}) \cap All]

Roots ==
  {n \in Things : thing[n].named} \cup {x \in Nodes : node[x].named} \cup {DefaultLoop}
  \cup (IF frame = NoFrame THEN {}
        ELSE {frame.handle, on[frame.handle], frame.cb.fn, frame.cb.object} \cap All)
  \cup {h \in Handles : uv[h].stage = "closing"}

Needed == Reach(Roots, Leads)

NodeObjects == [life : {"none", "live", "freed"}, rc : Int, named : BOOLEAN, dtored : BOOLEAN]

GcTypeOK ==
  /\ node \in [Nodes -> NodeObjects]
  /\ on \in [Handles -> Loops]
  /\ active \subseteq Handles
  /\ points \in [Things -> SUBSET Nodes]
  /\ gc_data \in [Handles -> Objects \cup {NoObject, Unwritten}]
  /\ doomed \subseteq Nodes

(* A handle is open until its destructor or its close, and as long as it   *)
(* is so is its loop; a loop that is freed has nothing left to report.     *)
NodeShape ==
  /\ \A x \in Nodes : node[x].life = "freed" => node[x].dtored
  /\ \A h \in Handles :
       /\ uv[h].stage = "none" <=> node[h].life = "none"
       /\ uv[h].stage \in {"none", "open", "closing", "closed"}
       /\ uv[h].stage = "open" <=> node[h].life = "live" /\ ~node[h].dtored
       /\ uv[h].stage = "open" => node[on[h]].life = "live" /\ ~node[on[h]].dtored
       /\ uv[h].stage = "closing" => node[on[h]].life = "live"
       /\ h \in active => uv[h].stage = "open"
  /\ \A x \in doomed : node[x].life # "none"
  /\ \A n \in Things : thing[n].life # "live" \/ n \in Methods => points[n] = {}

(* A callback is bound to what its function is, until it is freed.         *)
BoundAs(cb) ==
  cb.fn \in Functions =>
    thing[cb.fn].life = "freed" \/ (thing[cb.fn].life = "live" /\ thing[cb.fn].this = cb.object)

(* There are only polls.                                                   *)
PollShape ==
  /\ \A h \in Handles :
       /\ asked[h] = <<>>
       /\ \A s \in Slots : s # "poll" \/ uv[h].stage = "closed" => uv[h].slot[s] = NullSlot
       /\ BoundAs(uv[h].slot["poll"])
  /\ \A w \in Writes : write[w] = NoWrite
  /\ \/ frame = NoFrame
     \/ /\ frame.kind = "poll" /\ frame.handle \in Handles
        /\ frame.cb.fn \in Functions /\ frame.own = NullSlot
  /\ BoundAs(frame.cb)

Holders(x) == {n \in Things : x \in points[n]}

NodeOwners(x) ==
  One(node[x].named) + One(x = DefaultLoop) + Cardinality(Holders(x))
  + One(x \in active) + One(x \in Handles /\ uv[x].stage = "closing")
  + One(frame # NoFrame /\ (x = frame.handle \/ x = on[frame.handle]))

NodesCounted ==
  /\ IsFiniteSet({x \in Nodes : node[x].life # "none"})
  /\ \A x \in Nodes :
       /\ IsFiniteSet(Holders(x))
       /\ IF node[x].life = "live" THEN node[x].rc = NodeOwners(x) ELSE NodeOwners(x) = 0

(* Every function, object, handle and loop is counted for what owns it.    *)
(* FrameHolds is not part of it: a callback may run another loop, and a    *)
(* close that is reported there may let go of the last slot that holds the *)
(* object the callback runs on.                                            *)
GcInv == CountInv /\ GcTypeOK /\ NodeShape /\ PollShape /\ NodesCounted

(* The second word of a report that names the object of an earlier callback*)
(* of the handle.                                                          *)
ReportsEarlier(h, o) ==
  h \in Undestroyed /\ SecondWord(h) = o /\ uv[h].slot["poll"].object # o

(* A method that runs on o after the slot it was called from was given     *)
(* another callback: no reference of the frame holds o.                    *)
RunsUnheld(o) ==
  /\ frame.cb.fn \in Methods /\ frame.cb.object = o
  /\ uv[frame.handle].slot["poll"].object # o

(* A replaced callback leaves its object's count one too high, which makes *)
(* up for these, unless another slot has been given the object on the      *)
(* function it had before, and has used up the difference.                 *)
Uncovered(o) ==
  Cardinality({h \in Handles : ReportsEarlier(h, o)}) + One(RunsUnheld(o)) > drift[o]

(* The collector destroys nothing that is needed, although the second word *)
(* of a slot may name the object of an earlier callback: that object's     *)
(* count is one too high.  Only a word that nobody wrote leads it astray,  *)
(* or an object whose excess another slot has used up.                     *)
CollectorSound ==
  [][\/ doomed' \subseteq doomed
     \/ \E h \in Handles : ReadsUnwritten(h)
     \/ \E o \in Objects : Uncovered(o)
     \/ (doomed' \ doomed) \cap Needed = {}]_gcVars

(* What is not needed any more is found by the next run of the collector,  *)
(* once the closes that have begun are reported; unless a count is too     *)
(* high, or a report names the object of an earlier callback.              *)
CollectorComplete ==
  /\ Quiet
  /\ \A o \in Objects : drift[o] = 0 /\ \A h \in Handles : ~ReportsEarlier(h, o)
  /\ \A h \in Handles : uv[h].stage # "closing"
  => \A x \in Undestroyed \ Needed : x \in Garbage
=============================================================================
