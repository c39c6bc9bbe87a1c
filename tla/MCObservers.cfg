SPECIFICATION Spec
CONSTANTS
  Functions = {"run", "internal"}
  BuiltIn = {"internal"}
  Fibers = {"main", "other"}
  MainFiber = "main"
  None = None
  MaxDepth = 3
  MaxCalls = 3
  IntBits = 4
  MaxTime = 10
  WorkTakes = 5
INVARIANTS
  TypeOK
  ProfileAddsUp
  CrashNeedsFiber
  TraceMatchesCalls
  FlameCosts
CHECK_DEADLOCK FALSE
