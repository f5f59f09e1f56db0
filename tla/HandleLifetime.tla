--------------------------- MODULE HandleLifetime ---------------------------
(***************************************************************************)
(* What the extension promises about the memory of its UV objects, with no *)
(* reference counts: an object belongs to a set of owners; it is closed    *)
(* when the last one lets go of it (or before, by uv_close); it is freed   *)
(* when the last one lets go after the close completed, then and only      *)
(* then.  The handle classes' modules implement this with Zend's counter.  *)
(***************************************************************************)
CONSTANTS
  Handles

Owners == {"script",   \* variables of the program
           "call",     \* a running callback it is an argument of
           "loop",     \* the event loop watches it
           "request",  \* a pending request on it (write, connect, send, ...)
           "close",    \* libuv is closing it
           "lost"}     \* a reference nobody will give back

Stages == {"none", "open", "closing", "closed", "freed"}

VARIABLES
  stage,    \* stage[h]: how far the object is in its life
  owners    \* owners[h]: who may still touch it

lifeVars == <<stage, owners>>

LifeTypeOK ==
  /\ stage \in [Handles -> Stages]
  /\ owners \in [Handles -> SUBSET Owners]

Init ==
  /\ stage = [h \in Handles |-> "none"]
  /\ owners = [h \in Handles |-> {}]

Become(h, s, os) ==
  /\ stage' = [stage EXCEPT ![h] = s]
  /\ owners' = [owners EXCEPT ![h] = os]

Create(h) == stage[h] = "none" /\ Become(h, "open", {"script"})

(* An object that libuv uses from the start, or one whose start failed and *)
(* that nobody ever owned.                                                 *)
Spawn(h) ==
  /\ stage[h] = "none"
  /\ \/ Become(h, "open", {"script", "loop"})
     \/ Become(h, "closing", {"close"})

(* An owner lends the object to others; some owners let go, one remains.   *)
(* Only an open handle can be watched by the loop.                         *)
Share(h) ==
  /\ owners[h] # {}
  /\ UNCHANGED stage
  /\ \A g \in Handles \ {h} : owners'[g] = owners[g]
  /\ owners'[h] \in (SUBSET Owners) \ {{}}
  /\ "loop" \in owners'[h] => stage[h] = "open"
  /\ "close" \in owners'[h] <=> stage[h] = "closing"

(* uv_close: the close replaces the loop among the owners, and more that   *)
(* the loop or a request owned may be forgotten.                           *)
Close(h) ==
  /\ stage[h] = "open"
  /\ \E forgotten \in SUBSET {"lost"} :
       Become(h, "closing", (owners[h] \ {"loop"}) \cup {"close"} \cup forgotten)

(* The last owner lets go of an open handle: it is closed first.           *)
Abandon(h) ==
  /\ stage[h] = "open"
  /\ owners[h] \in {{"script"}, {"call"}, {"request"}, {"loop"}}
  /\ Become(h, "closing", {"close"})

(* libuv is done with the handle.  Its close callback may receive it.      *)
Finish(h) ==
  /\ stage[h] = "closing"
  /\ \/ Become(h, "closed", (owners[h] \ {"close"}) \cup {"call"})
     \/ /\ owners[h] # {"close"}
        /\ Become(h, "closed", owners[h] \ {"close"})
     \/ /\ owners[h] = {"close"}
        /\ Become(h, "freed", {})

(* The last owner lets go of a closed handle.                              *)
Free(h) ==
  /\ stage[h] = "closed"
  /\ owners[h] \in {{"script"}, {"call"}}
  /\ Become(h, "freed", {})

LifeNext == \E h \in Handles :
  Create(h) \/ Spawn(h) \/ Share(h) \/ Close(h) \/ Abandon(h) \/ Finish(h) \/ Free(h)

LifeSafety == Init /\ [][LifeNext]_lifeVars

(* The loop completes every close.                                         *)
LifeSpec ==
  /\ LifeSafety
  /\ \A h \in Handles : WF_lifeVars(Finish(h))
=============================================================================
