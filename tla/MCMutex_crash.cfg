CONSTANTS
  m = m
  a = a
  b = b
  idle = idle
  X = X
  Y = Y
  User = {m, a, b}
  Idle = idle
  NoTask = NoTask
  MaxPriority = 3
  SliceTicks = 1
  MaxSleep = 1
  BasePrio <- Prio3
  Calls <- OneSleeps
  Defunct = Defunct
  Ipc = {X}
  NoIpc = NoIpc
  Forever = Forever
  MaxWait = 1
  Mutex = {X}
  HoldMax = 2
  MutexCalls <- Contention
SPECIFICATION MutexSpec
INVARIANTS
  NoFault
