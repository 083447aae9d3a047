CONSTANTS
  Tasks <- MCTasks
  Priority <- MCPriority
  Says <- MCSays
  minLevel = 1
SPECIFICATION Spec
INVARIANTS
  LinesAreWhole
  ArgumentsInPlace
PROPERTIES
  NoPriorityInversion
  WaitersGetTheConsole
  FaultsAreReported
