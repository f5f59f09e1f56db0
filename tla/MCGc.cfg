\* A poll on either of two loops, two callbacks, an object.
SPECIFICATION GcSafety
CONSTANTS
  Handles = {h1}
  Functions = {f1, f2}
  Methods = {}
  Objects = {o1}
  Writes = {}
  MaxSends = 0
  MaxDrift = 1
  NoHandle = NoHandle
  NoFunction = NoFunction
  NoObject = NoObject
  Loops = {d, l1}
  DefaultLoop = d
  Unwritten = Unwritten
SYMMETRY Symmetric
INVARIANTS GcInv CollectorComplete
PROPERTY CollectorSound
CHECK_DEADLOCK FALSE
