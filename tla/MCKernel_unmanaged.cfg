CONSTANTS
  m = m
  a = a
  b = b
  idle = idle
  User = {m, a, b}
  Idle = idle
  NoTask = NoTask
  MaxPriority = 3
  SliceTicks = 1
  MaxSleep = 1
  BasePrio <- Prio3
  Calls <- Unmanaged
  Defunct = Defunct
  Ipc = {}
  NoIpc = NoIpc
SPECIFICATION Spec
INVARIANTS
  NodesMatchStatus
  BitmapCovers
  OnlyCurrentRuns
