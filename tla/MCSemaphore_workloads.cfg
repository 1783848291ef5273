CONSTANTS
  m = m
  a = a
  b = b
  idle = idle
  User = {m, a, b}
  Idle = idle
  NoTask = NoTask
  MaxPriority = 3
  SliceTicks = 1
  MaxSleep = 1
  BasePrio <- Prio3
  Calls <- Managed
  Defunct = Defunct
  Ipc = {Sem}
  NoIpc = NoIpc
  Forever = Forever
  MaxWait = 1
  Sem = Sem
  MaxCount = 1
  SemCalls <- Workers
SPECIFICATION SemSpec
ACTION_CONSTRAINT Workload
INVARIANTS
  SemTypeOK
  NodesMatchStatus
  NoIdleUnit
  TimersMatchWaits
PROPERTIES
  UnitsConserved
  ServesBest
