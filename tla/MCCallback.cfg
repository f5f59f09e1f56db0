\* A closure and a method, two objects, one UV object of any class.
SPECIFICATION Safety
CONSTANTS
  Handles = {h1}
  Functions = {f1, m1}
  Methods = {m1}
  Objects = {o1, o2}
  Writes = {w1}
  MaxSends = 2
  MaxDrift = 1
  NoHandle = NoHandle
  NoFunction = NoFunction
  NoObject = NoObject
SYMMETRY Symmetric
INVARIANTS CallbackInv NoneFreedEarly AnsweredAsAsked RunsAlive
CHECK_DEADLOCK FALSE
