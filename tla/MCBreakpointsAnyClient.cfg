SPECIFICATION Spec
CONSTANTS
  f1 = f1
  f2 = f2
  main = main
  run = run
  strlen = strlen
  Files = {f1, f2}
  PrefixOf <- PrefixNames
  Functions = {run, strlen}
  Code <- MCCode
  ResolvedLine <- MCResolvedLine
  Exceptions = {"A"}
  Errors = {"A"}
  Wildcard = "*"
  Chain <- MCChain
  Fibers = {"main", "other"}
  MainFiber = "main"
  SetLines = {1}
  SetOptions <- OneTemporary
  Updates <- AnyUpdates
  None = None
  resolved_breakpoints = TRUE
  breakpoint_details = TRUE
  RepeatsExceptions = TRUE
  MaxSet = 2
  MaxHits = 1
  MaxDepth = 1
INVARIANTS
  FunctionIdsFindTheirOwn
CHECK_DEADLOCK FALSE
