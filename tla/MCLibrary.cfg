SPECIFICATION Spec
CONSTANTS
  Letters = {"i", "n"}
  Escapes = {"n"}
  CommandsSent <- MCCommands
  MaxPacket = 6
  Lines <- MCLines
  NULL = NULL
  Cells = {"c1", "c2", "c3", "c4"}
  Keys = {"k1", "k2", "k3"}
  SlotOf <- MCSlotOf
  Values = {"v1", "v2"}
  Positions = {0, 1, 2, 6}
  ByteSize = 2
  Prealloc = 3
  MaxText = 9
  Cwd <- MCCwd
  EOFLine = 9
  OpArrays <- MCOpArrays
  MaxRun = 7
  CodeFiles <- MCCodeFiles
  DeadLines <- MCDeadLines
  ClassStatics <- MCClassStatics
  MaxCalls = 4
  DataSizes <- MCDataSizes
  SourceFiles <- MCSourceFiles
  EvalTexts <- MCEvalTexts
  PathsNamed <- MCPathsNamed
  WorkingDir <- MCCwd
  MaxSites = 3
  MaxEvals = 2
  Writers = {"p", "q", "r"}
  MaxInodes = 4
  Parent = "parent"
  Child = "child"
  ControlClients = {"c", "d"}
  ListenBacklog = 1
  MaxForks = 1
  UnitOpArrays <- MCUnitOpArrays
  MaxNesting = 1
  UnitShapes <- MCUnitShapes
  EvalUnits = {"e"}
  ScanRange = 2
  BreakLines = {1, 2, 3, 4, 6, 8, 9}
  MaxResolved = 1
  MapFiles <- MCMapFiles
  PathsAsked <- MCPathsAsked
  LinesAsked <- MCLinesAsked
  Situations <- MCSituations
INVARIANTS
  CommandsAreUnderstood
  LinesArriveWhole
  ContainersAgree
  PathsTranslate
  CoverageIsRight
  StartsAreDecided
  NamesFindValues
  LooksWhereAsked
  SourceIsServed
  FileIsKept
  ControlIsAnswered
  BreakpointsResolve
CHECK_DEADLOCK FALSE
