SPECIFICATION FairSpec
CONSTANTS
  Procs = {1}
  Root = 1
  MaxConns = 2
  MaxCommands = 2
  MaxAhead = 1
  MaxRequests = 2
  Names <- MCAllNames
  start_upon_error = TRUE
  mode_is_trigger = TRUE
PROPERTIES
  ContinuationSettled
  LostIsNoticed
CHECK_DEADLOCK FALSE
