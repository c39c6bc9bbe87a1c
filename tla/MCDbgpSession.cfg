SPECIFICATION Spec
CONSTANTS
  Procs = {1, 2}
  Root = 1
  MaxConns = 2
  MaxCommands = 2
  MaxAhead = 1
  MaxRequests = 1
  Names <- MCForkNames
  start_upon_error = TRUE
  mode_is_trigger = TRUE
INVARIANTS
  TypeOK
  ActiveIsConnected
  OneProcessPerConnection
  FreedOnce
  ContinuationAnsweredOnce
PROPERTY
  ImplementsDebugConnection
CHECK_DEADLOCK FALSE
