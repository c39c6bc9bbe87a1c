SPECIFICATION Spec
CONSTANTS
  f1 = f1
  f2 = f2
  main = main
  run = run
  strlen = strlen
  Files = {f1}
  PrefixOf <- EqualNames
  Functions = {main, run, strlen}
  Code <- MCCode
  ResolvedLine <- MCResolvedLine
  Exceptions = {"A", "B"}
  Errors = {"A"}
  Wildcard = "*"
  Chain <- MCChain
  Fibers = {"main"}
  MainFiber = "main"
  SetLines = {1, 3}
  SetOptions <- JustPlain
  Updates = {}
  None = None
  resolved_breakpoints = TRUE
  breakpoint_details = TRUE
  RepeatsExceptions = FALSE
  MaxSet = 2
  MaxHits = 2
  MaxDepth = 2
INVARIANT
  NoCrash
CHECK_DEADLOCK FALSE
