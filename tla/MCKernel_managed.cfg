CONSTANTS
  m = m
  a = a
  b = b
  idle = idle
  User = {m, a, b}
  Idle = idle
  NoTask = NoTask
  MaxPriority = 3
  SliceTicks = 2
  MaxSleep = 2
  BasePrio <- Prio3
  Calls <- Managed
  Defunct = Defunct
  Ipc = {}
  NoIpc = NoIpc
SPECIFICATION Spec
INVARIANTS
  TypeOK
  NodesMatchStatus
  BitmapExact
  HighestRuns
  NoFault
  TimersMatchSleepers
  NoMissedTimeout
  OnlyCurrentRuns
PROPERTIES
  FifoWithinPriority
  DeletionIsFinal
