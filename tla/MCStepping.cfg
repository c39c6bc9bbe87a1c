SPECIFICATION Spec
CONSTANTS
  Functions = {"run", "Fiber::start"}
  BuiltIn = {"Fiber::start"}
  Fibers = {"main", "other"}
  MainFiber = "main"
  None = None
  MaxDepth = 3
  MaxCalls = 3
  MaxConnections = 2
INVARIANTS
  TypeOK
  LevelsAndNumbers
  NextStackIsLive
  StopsAreDue
  NothingMissed
  FlagsAgree
CHECK_DEADLOCK FALSE
