------------------------------ MODULE UVCallback -----------------------------
(***************************************************************************)
(* Callbacks.  An object keeps one callback per purpose in a slot          *)
(* (callback[type]), a write keeps one of its own.  A callback is a PHP    *)
(* function and, if it is bound to an object ($this), that object; the     *)
(* slot owns a reference to each.  Which function an answer of libuv       *)
(* calls, and that it is still there, depends on what was put into the     *)
(* slot since the call that the answer belongs to.                         *)
(***************************************************************************)
EXTENDS Integers, FiniteSets, Sequences

CONSTANTS
  Handles,     \* UV objects: polls, datagram sockets, streams, work requests
  Functions,   \* PHP functions: closures, and
  Methods,     \* among them [$object, 'method'] arrays
  Objects,     \* objects of the script that functions are bound to
  Writes,      \* requests of uv_write
  MaxSends,    \* bound: datagrams of one socket in flight
  MaxDrift,    \* bound: how far the count of an object may be wrong
  NoHandle, NoFunction, NoObject

Things == Functions \cup Objects

Classes == {"poll", "udp", "tcp", "work"}

(* Of enum php_uv_callback_type, one of each way to use a slot.            *)
Slots == {"poll", "send", "close", "work", "after_work"}

ASSUME CallbackAssumption ==
  /\ Methods \subseteq Functions
  /\ Functions \cap Objects = {}
  /\ NoFunction \notin Things /\ NoObject \notin Things /\ NoHandle \notin Handles
  /\ MaxSends \in Nat /\ MaxDrift \in Nat

VARIABLES
  thing,   \* thing[n]: a function or object of the script and its count
  uv,      \* uv[h]: the UV object and its slots
  asked,   \* asked[h]: what the sends in flight of h were made with (ghost)
  write,   \* write[w]: a write in flight
  frame,   \* the callback that is running
  drift,   \* drift[o]: references counted on o less those there are (ghost)
  short    \* the objects of which they ever were too few (ghost)

callbackVars == <<thing, uv, asked, write, frame, drift, short>>

-----------------------------------------------------------------------------
(* A slot: allocated or not; its function and object, or neither.          *)
NullSlot == [set |-> FALSE, fn |-> NoFunction, object |-> NoObject]

Absent == [life |-> "none", rc |-> 0, named |-> FALSE, this |-> NoObject]

(* What zend_parse_parameters finds in an argument (NoFunction: none).     *)
Fci(f) ==
  [set |-> TRUE, fn |-> f, object |-> IF f = NoFunction THEN NoObject ELSE thing[f].this]

(* What the script asked for: to be answered by fn; and whether a later    *)
(* call for the same slot named another function.                          *)
Ask(f) == [fn |-> f, overtaken |-> FALSE]

NoWrite == [on |-> NoHandle, cb |-> NullSlot, ask |-> Ask(NoFunction)]

(* A running callback: of which slot, or of a write; cb is what it calls,  *)
(* own the callback that is freed when it returns.                         *)
Frame(kind, h, cb, own, ask) ==
  [kind |-> kind, handle |-> h, cb |-> cb, own |-> own, ask |-> ask]

NoFrame == Frame("none", NoHandle, NullSlot, NullSlot, Ask(NoFunction))

Init ==
  /\ thing = [n \in Things |-> Absent]
  /\ uv = [h \in Handles |-> [ce |-> "none", stage |-> "none", slot |-> [s \in Slots |-> NullSlot]]]
  /\ asked = [h \in Handles |-> <<>>]
  /\ write = [w \in Writes |-> NoWrite]
  /\ frame = NoFrame
  /\ drift = [o \in Objects |-> 0]
  /\ short = {}

-----------------------------------------------------------------------------
(* References.                                                             *)

One(b) == IF b THEN 1 ELSE 0

(* The references a slot or a write owns to n, a function or an object.    *)
Owns(cb, n) == One(n \in {cb.fn, cb.object})

(* Zend holds a closure while it runs, an array it does not.               *)
Runs(f, n) == One(f = n /\ n \notin Methods)

(* The count of every n changes by delta[n].                               *)
Count(delta) == thing' = [n \in Things |-> [thing[n] EXCEPT !.rc = @ + delta[n]]]

(* Nothing waits to be freed: Zend frees before it does anything else.     *)
Settled == \A n \in Things : thing[n].life = "live" => thing[n].rc > 0

(* The closures bound to n, the slots and the writes that own n.           *)
BoundTo(n) == {f \in Functions : thing[f].life = "live" /\ thing[f].this = n}
SlotsOf(n) == {p \in Handles \X Slots : Owns(uv[p[1]].slot[p[2]], n) = 1}
WritesOf(n) == {w \in Writes : Owns(write[w].cb, n) = 1}

Owners(n) ==
  One(thing[n].named)
  + Cardinality(BoundTo(n)) + Cardinality(SlotsOf(n)) + Cardinality(WritesOf(n))
  + Owns(frame.own, n) + Runs(frame.cb.fn, n)

Dangling(n) == thing[n].life = "freed" /\ Owners(n) > 0

(* Once freed memory has an owner, nothing is said of what follows.        *)
Defined == Settled /\ \A n \in Things : ~Dangling(n)

(* zend_objects_store_del, zend_array_destroy: what a function is bound to *)
(* is released with it.                                                    *)
Free(n) ==
  /\ thing[n].life = "live" /\ thing[n].rc <= 0
  /\ thing' = [m \in Things |->
       IF m = n THEN [thing[m] EXCEPT !.life = "freed", !.this = NoObject]
       ELSE [thing[m] EXCEPT !.rc = @ - One(thing[n].this = m)]]
  /\ UNCHANGED <<uv, asked, write, frame, drift, short>>

-----------------------------------------------------------------------------
(* The script's own objects.                                               *)

(* A variable, or $this in a callback.                                     *)
CanName(n) == thing[n].life = "live" /\ (thing[n].named \/ frame.cb.object = n)

NewObject(o) ==
  /\ thing[o].life = "none"
  /\ Defined
  /\ thing' = [thing EXCEPT ![o] = [Absent EXCEPT !.life = "live", !.rc = 1, !.named = TRUE]]
  /\ UNCHANGED <<uv, asked, write, frame, drift, short>>

(* function () {...}, in a method of o or outside of one; [o, 'method'].   *)
NewFunction(f, o) ==
  /\ thing[f].life = "none"
  /\ Defined
  /\ f \in Methods => o # NoObject
  /\ o # NoObject => CanName(o)
  /\ thing' = [n \in Things |->
       IF n = f THEN [life |-> "live", rc |-> 1, named |-> TRUE, this |-> o]
       ELSE [thing[n] EXCEPT !.rc = @ + One(n = o)]]
  /\ UNCHANGED <<uv, asked, write, frame, drift, short>>

Unset(n) ==
  /\ thing[n].named
  /\ Defined
  /\ thing' = [thing EXCEPT ![n].named = FALSE, ![n].rc = @ - 1]
  /\ UNCHANGED <<uv, asked, write, frame, drift, short>>

(* The callable of a call: in a variable, or written into the call.        *)
Callable(f) == f \in {NoFunction} \cup {g \in Functions : CanName(g)}

-----------------------------------------------------------------------------
(* The slots.                                                              *)

(* Mutant of Rebound: the object that was there is released.               *)
ReleasesOld(old, new) ==
  [n \in Things |-> One(new.fn = n) - One(old.fn = n)
                    + One(new.object = n) - One(old.object = n)]

(* The counts when old is replaced by new: the function that was there is  *)
(* released, but of the objects it is the new one, which then gets a       *)
(* reference.                                                              *)
Rebound(old, new) ==
  [n \in Things |-> One(new.fn = n) - One(old.fn = n)
                    + One(new.object = n) - One(old.set /\ new.object = n)]

(* What the slot owns afterwards, less what was counted.                   *)
Drifted(old, new) ==
  [o \in Objects |-> drift[o] + One(old.object = o) - One(old.set /\ new.object = o)]

(* Mutant of php_uv_cb_init: a slot that is taken keeps its callback.      *)
cb_init_once(h, s, f) ==
  LET old == uv[h].slot[s]
      new == IF old.set THEN old ELSE Fci(f)
  IN  /\ Count([n \in Things |-> Owns(new, n) - Owns(old, n)])
      /\ uv' = [uv EXCEPT ![h].slot[s] = new]
      /\ UNCHANGED <<drift, short>>

(* callback[s] of h becomes f; the slot's memory is used again.            *)
(* The release of the object (785) and its new reference (795) are one     *)
(* change here.  Where the release drops the last reference, the code      *)
(* frees the object inside the call: its count is then off (drift < 0),    *)
(* it is in `short', and every property exempts it.                        *)
php_uv_cb_init(h, s, f) ==
  LET old == uv[h].slot[s]
      new == Fci(f)
  IN  /\ Count(Rebound(old, new))
      /\ uv' = [uv EXCEPT ![h].slot[s] = new]
      /\ drift' = Drifted(old, new)
      /\ \A o \in Objects : drift'[o] \in -MaxDrift .. MaxDrift
      /\ short' = short \cup {o \in Objects : drift'[o] < 0}

(* Mutant of clean_uv_handle: the objects are not released.                *)
CleanFunctions(h) == [n \in Things |->
  -Cardinality({s \in Slots : uv[h].slot[s].fn = n})]

(* The references that go when the slots of h are released.                *)
clean_uv_handle(h) == [n \in Things |->
  -Cardinality({s \in Slots : Owns(uv[h].slot[s], n) = 1})]

Cleaned(h) == [uv[h] EXCEPT !.stage = "closed", !.slot = [s \in Slots |-> NullSlot]]

Usable(h) == uv[h].stage = "open" /\ uv[h].ce # "work" /\ Defined

(* uv_poll_init, uv_udp_init, uv_tcp_init.                                 *)
Create(h, ce) ==
  /\ uv[h].stage = "none"
  /\ Defined
  /\ uv' = [uv EXCEPT ![h].ce = ce, ![h].stage = "open"]
  /\ UNCHANGED <<thing, asked, write, frame, drift, short>>

(* Again and again, active or not.                                         *)
uv_poll_start(h, f) ==
  /\ Usable(h) /\ uv[h].ce = "poll"
  /\ f \in Functions /\ Callable(f)
  /\ php_uv_cb_init(h, "poll", f)
  /\ UNCHANGED <<asked, write, frame>>

(* All sends of a socket share one slot; a refused send, which nobody      *)
(* answers, has taken it too.                                              *)
php_uv_udp_send(h, f) ==
  /\ Usable(h) /\ uv[h].ce = "udp"
  /\ Callable(f)
  /\ php_uv_cb_init(h, "send", f)
  /\ LET earlier == [i \in DOMAIN asked[h] |->
                      [asked[h][i] EXCEPT !.overtaken = @ \/ asked[h][i].fn # f]]
     IN  \/ Len(asked[h]) < MaxSends /\ asked' = [asked EXCEPT ![h] = Append(earlier, Ask(f))]
         \/ asked' = [asked EXCEPT ![h] = earlier]
  /\ UNCHANGED <<write, frame>>

(* Mutant of uv_write: its callback is copied, but owns nothing.           *)
WriteUncounted(w, h, f) ==
  /\ Usable(h) /\ uv[h].ce = "tcp"
  /\ write[w] = NoWrite
  /\ Callable(f)
  /\ write' = [write EXCEPT ![w] = [on |-> h, cb |-> Fci(f), ask |-> Ask(f)]]
  /\ UNCHANGED <<thing, uv, asked, frame, drift, short>>

(* A callback of the write's own (php_uv_cb_init_dynamic).                 *)
uv_write(w, h, f) ==
  /\ Usable(h) /\ uv[h].ce = "tcp"
  /\ write[w] = NoWrite
  /\ Callable(f)
  /\ write' = [write EXCEPT ![w] = [on |-> h, cb |-> Fci(f), ask |-> Ask(f)]]
  /\ Count([n \in Things |-> Owns(Fci(f), n)])
  /\ UNCHANGED <<uv, asked, frame, drift, short>>

uv_close(h, f) ==
  /\ Usable(h)
  /\ Callable(f)
  /\ Count(Rebound(uv[h].slot["close"], Fci(f)))
  /\ uv' = [uv EXCEPT ![h].stage = "closing", ![h].slot["close"] = Fci(f)]
  /\ UNCHANGED <<asked, write, frame, drift, short>>

InFlight(h) == asked[h] # <<>> \/ \E w \in Writes : write[w].on = h

(* The last reference to a handle goes: nothing of it is in flight.        *)
destruct_uv(h) ==
  /\ Usable(h) /\ ~InFlight(h) /\ frame.handle # h
  /\ uv' = [uv EXCEPT ![h].stage = "closing"]
  /\ UNCHANGED <<thing, asked, write, frame, drift, short>>

-----------------------------------------------------------------------------
(* Work requests, in a PHP with threads.                                   *)

uv_queue_work(h, f, g) ==
  /\ uv[h].stage = "none"
  /\ Defined
  /\ {f, g} \subseteq Functions /\ Callable(f) /\ Callable(g)
  /\ uv' = [uv EXCEPT ![h].ce = "work", ![h].stage = "queued",
                      ![h].slot["work"] = Fci(f), ![h].slot["after_work"] = Fci(g)]
  /\ Count([n \in Things |-> Owns(Fci(f), n) + Owns(Fci(g), n)])
  /\ UNCHANGED <<asked, write, frame, drift, short>>

(* The worker runs the function without its object, which the slot         *)
(* forgets, and on a copy that is not a closure to Zend, so that only the  *)
(* slot holds it.                                                          *)
php_uv_do_callback3(h) ==
  /\ uv[h].stage = "queued"
  /\ Defined
  /\ uv' = [uv EXCEPT ![h].stage = "running", ![h].slot["work"].object = NoObject]
  /\ drift' = [o \in Objects |-> drift[o] + One(uv[h].slot["work"].object = o)]
  /\ \A o \in Objects : drift'[o] <= MaxDrift
  /\ UNCHANGED <<thing, asked, write, frame, short>>

WorkEnds(h) ==
  /\ uv[h].stage = "running"
  /\ Defined
  /\ uv' = [uv EXCEPT ![h].stage = "finished"]
  /\ UNCHANGED <<thing, asked, write, frame, drift, short>>

-----------------------------------------------------------------------------
(* Answers.  The loop calls back when nothing else runs.                   *)

LoopRuns == frame = NoFrame /\ Defined

(* zend_call_function.                                                     *)
Call(kind, h, cb, own, ask) ==
  /\ cb.fn # NoFunction
  /\ frame' = Frame(kind, h, cb, own, ask)
  /\ Count([n \in Things |-> Runs(cb.fn, n)])
  /\ UNCHANGED <<uv, drift, short>>

php_uv_poll_cb(h) ==
  /\ LoopRuns
  /\ uv[h].stage = "open"
  /\ Call("poll", h, uv[h].slot["poll"], NullSlot, Ask(uv[h].slot["poll"].fn))
  /\ UNCHANGED <<asked, write>>

php_uv_udp_send_cb(h) ==
  /\ LoopRuns
  /\ asked[h] # <<>>
  /\ asked' = [asked EXCEPT ![h] = Tail(@)]
  /\ LET cb == uv[h].slot["send"]
     IN  \/ Call("send", h, cb, NullSlot, Head(asked[h]))
         \/ cb.fn = NoFunction /\ UNCHANGED <<thing, uv, frame, drift, short>>
  /\ UNCHANGED write

(* php_uv_free_write_req comes after the callback.                         *)
php_uv_write_cb(w) ==
  /\ LoopRuns
  /\ write[w] # NoWrite
  /\ write' = [write EXCEPT ![w] = NoWrite]
  /\ LET cb == write[w].cb
     IN  \/ Call("write", write[w].on, cb, cb, write[w].ask)
         \/ cb.fn = NoFunction /\ UNCHANGED <<thing, uv, frame, drift, short>>
  /\ UNCHANGED asked

(* The end of an object's callbacks: after the last one the slots go.      *)
LastCallback(h, s, busy) ==
  /\ LoopRuns
  /\ ~busy
  /\ LET cb == uv[h].slot[s]
     IN  \/ Call(s, h, cb, NullSlot, Ask(cb.fn))
         \/ /\ cb.fn = NoFunction
            /\ Count(clean_uv_handle(h))
            /\ uv' = [uv EXCEPT ![h] = Cleaned(h)]
            /\ UNCHANGED <<frame, drift, short>>
  /\ UNCHANGED <<asked, write>>

php_uv_close_cb(h) == uv[h].stage = "closing" /\ LastCallback(h, "close", InFlight(h))

php_uv_after_work_cb(h) == uv[h].stage = "finished" /\ LastCallback(h, "after_work", FALSE)

(* The callback returns: Zend lets go of the closure, a write of its       *)
(* callback, an object whose last callback it was of its slots.            *)
ReturnFromCallback ==
  /\ frame # NoFrame
  /\ Defined
  /\ frame' = NoFrame
  /\ LET h == frame.handle
         last == frame.kind \in {"close", "after_work"}
     IN  /\ Count([n \in Things |->
                -Runs(frame.cb.fn, n) - Owns(frame.own, n) + (IF last THEN clean_uv_handle(h)[n] ELSE 0)])
         /\ uv' = IF last THEN [uv EXCEPT ![h] = Cleaned(h)] ELSE uv
  /\ UNCHANGED <<asked, write, drift, short>>

-----------------------------------------------------------------------------
ThingNext ==
  \/ \E n \in Things : Free(n) \/ Unset(n)
  \/ \E o \in Objects : NewObject(o)
  \/ \E f \in Functions, o \in Objects \cup {NoObject} : NewFunction(f, o)

(* NoFunction: the callback is left out.                                   *)
CallNext(h) ==
  \/ \E ce \in {"poll", "udp", "tcp"} : Create(h, ce)
  \/ destruct_uv(h)
  \/ \E f \in Functions \cup {NoFunction} :
       \/ uv_poll_start(h, f) \/ php_uv_udp_send(h, f) \/ uv_close(h, f)
       \/ \E w \in Writes : uv_write(w, h, f)
       \/ \E g \in Functions : uv_queue_work(h, f, g)

LoopNext ==
  \/ \E h \in Handles :
       \/ php_uv_poll_cb(h) \/ php_uv_udp_send_cb(h) \/ php_uv_close_cb(h)
       \/ php_uv_do_callback3(h) \/ WorkEnds(h) \/ php_uv_after_work_cb(h)
  \/ \E w \in Writes : php_uv_write_cb(w)
  \/ ReturnFromCallback

Next == ThingNext \/ LoopNext \/ \E h \in Handles : CallNext(h)

Safety == Init /\ [][Next]_callbackVars

-----------------------------------------------------------------------------
Callbacks == [set : BOOLEAN, fn : Functions \cup {NoFunction}, object : Objects \cup {NoObject}]

Asks == [fn : Functions \cup {NoFunction}, overtaken : BOOLEAN]

CallbackTypeOK ==
  /\ thing \in [Things -> [life : {"none", "live", "freed"}, rc : Int, named : BOOLEAN,
                            this : Objects \cup {NoObject}]]
  /\ \A o \in Objects : thing[o].this = NoObject
  /\ uv \in [Handles -> [ce : Classes \cup {"none"},
                          stage : {"none", "open", "closing", "closed", "queued", "running", "finished"},
                          slot : [Slots -> Callbacks]]]
  /\ asked \in [Handles -> Seq(Asks)]
  /\ write \in [Writes -> [on : Handles \cup {NoHandle}, cb : Callbacks, ask : Asks]]
  /\ frame \in [kind : Slots \cup {"none", "write"}, handle : Handles \cup {NoHandle},
                cb : Callbacks, own : Callbacks, ask : Asks]
  /\ drift \in [Objects -> -MaxDrift .. MaxDrift]
  /\ short \subseteq Objects

(* Slots are empty before they are used, the close callback's until the    *)
(* handle is closed; what is in flight ends before the last callback.      *)
SlotShape ==
  /\ \A h \in Handles :
       /\ uv[h].stage = "none" => \A s \in Slots : uv[h].slot[s] = NullSlot
       /\ uv[h].stage = "open" => uv[h].slot["close"] = NullSlot
       /\ uv[h].stage \in {"queued", "running", "finished"} => uv[h].slot["work"].fn \in Functions
       /\ asked[h] # <<>> => uv[h].stage \in {"open", "closing"}
  /\ frame.kind \in {"close", "after_work"} =>
       /\ frame.handle \in Handles
       /\ uv[frame.handle].stage \in {"closing", "finished"}
       /\ asked[frame.handle] = <<>>

(* A slot answers the sends that no other function has overtaken; a write  *)
(* is made with the function it is answered by, and keeps nothing without. *)
AskedMatches ==
  /\ \A h \in Handles : \A i \in DOMAIN asked[h] :
       asked[h][i].overtaken \/ asked[h][i].fn = uv[h].slot["send"].fn
  /\ \A w \in Writes :
       /\ write[w].ask.fn = write[w].cb.fn
       /\ write[w].cb.fn = NoFunction => write[w].cb.object = NoObject
  /\ frame.ask.overtaken \/ frame.ask.fn = frame.cb.fn

Wrong(n) == IF n \in Objects THEN drift[n] ELSE 0

(* The count of everything a callback refers to is the number of its       *)
(* owners, but for what php_uv_cb_init mixes up when it replaces a         *)
(* callback, and for the objects php_uv_do_callback3 forgets.              *)
CountsExact ==
  \A n \in Things :
    /\ IsFiniteSet(BoundTo(n)) /\ IsFiniteSet(SlotsOf(n)) /\ IsFiniteSet(WritesOf(n))
    /\ thing[n].life = "live" => thing[n].rc = Owners(n) + Wrong(n)
    /\ thing[n].life = "none" => Owners(n) = 0 /\ Wrong(n) = 0
    /\ Wrong(n) < 0 => n \in short

(* The object a callback runs on is kept by a write's own callback, or by  *)
(* what is counted for slots: those that own it, and those that forgot it. *)
FrameHolds ==
  \A o \in Objects \ short : frame.cb.object = o =>
    /\ thing[o].life = "live"
    /\ frame.own.object = o \/ Cardinality(SlotsOf(o)) + drift[o] > 0

(* A function in a slot or a write, or running, has not been freed; nor    *)
(* has an object, unless a slot was given a callback that is bound to it   *)
(* in place of one that is not.                                            *)
NoneFreedEarly == \A n \in Things : Dangling(n) => Wrong(n) < 0

(* What holds of the counts whichever other loops and handles there are.   *)
CountInv ==
  /\ CallbackTypeOK
  /\ SlotShape
  /\ AskedMatches
  /\ CountsExact
  /\ NoneFreedEarly

CallbackInv == CountInv /\ FrameHolds

(* A write is answered by the function it was made with, whatever was      *)
(* written in the meantime, and by nothing else; a send too, unless a      *)
(* later uv_udp_send, refused or not, named another function.              *)
AnsweredAsAsked ==
  frame # NoFrame /\ ~frame.ask.overtaken => frame.cb.fn = frame.ask.fn

(* The closure that runs, and the object it runs on ($this), are alive,    *)
(* although nothing but the slot may hold them and the function may put    *)
(* another into it; but for an object whose count once was too low.  So is *)
(* a function on a worker, which Zend does not hold while it runs.         *)
RunsAlive ==
  /\ \A n \in {frame.cb.fn, frame.cb.object} \cap (Things \ Methods) :
       thing[n].life = "live" \/ n \in short
  /\ \A h \in Handles :
       uv[h].stage = "running" => thing[uv[h].slot["work"].fn].life = "live"
=============================================================================
