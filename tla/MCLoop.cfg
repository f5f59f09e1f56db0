\* The default loop and another one, a handle that may be slow to close, a request,
\* callbacks that throw: what holds, and what must happen.
SPECIFICATION Spec
CONSTANTS
  Loops = {d, l1}
  DefaultLoop = d
  Handles = {h1}
  NoLoop = NoLoop
  SlowHandles = {h1}
  MaxReqs = 1
  Throws = TRUE
INVARIANT LoopInv
PROPERTIES DestructionEnds StopEndsRun ClosesComplete
CHECK_DEADLOCK FALSE
