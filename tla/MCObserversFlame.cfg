SPECIFICATION Spec
CONSTANTS
  Functions = {"run", "internal"}
  BuiltIn = {"internal"}
  Fibers = {"main", "other"}
  MainFiber = "main"
  None = None
  MaxDepth = 3
  MaxCalls = 3
  IntBits = 4
  MaxTime = 10
  WorkTakes = 5
INVARIANT NoNegativeCosts
CHECK_DEADLOCK FALSE
