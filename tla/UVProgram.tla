----------------------------- MODULE UVProgram ------------------------------
(***************************************************************************)
(* A program that uses handles of several classes at once: watchers,       *)
(* timers and polls on one loop.  They share the loop's single thread: in  *)
(* the callback of one handle the script may start, stop, close and drop   *)
(* any other.  What is said of handles of every class is checked here.     *)
(***************************************************************************)
EXTENDS UVWatcher, UVTimer, UVPoll

programVars == <<handleVars, timerVars>>

ProgramInit == TimerInit

(* Every call on h, and every callback of the loop with h.                 *)
ProgramStep(h) ==
  \/ TimerNext(h)
  \/ (WatcherNext(h) \/ PollNext(h) \/ HandleNext(h)) /\ UNCHANGED timerVars

ProgramNext == \E h \in Handles : ProgramStep(h)

ProgramSafety == ProgramInit /\ [][ProgramNext]_programVars

(* The loop completes closes and gets to every due timer; callbacks end.   *)
Program ==
  /\ ProgramSafety
  /\ HandleFairness
  /\ \A h \in Handles : SF_handleVars(php_uv_timer_cb(h))

-----------------------------------------------------------------------------
(* The inductive invariant: each count is the number of holders, and every *)
(* handle of this program pays for its activity with a reference, so that  *)
(* no variable and no callback holds the last one of a started handle.     *)
ProgramInv ==
  /\ HandleInv
  /\ TimerTypeOK
  /\ \A h \in Handles : obj[h].ce \in ReferencedClasses \cup {"none"}
=============================================================================
