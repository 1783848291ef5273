CONSTANTS
  m = m
  a = a
  b = b
  idle = idle
  User = {a}
  Idle = idle
  NoTask = NoTask
  MaxPriority = 3
  SliceTicks = 2
  MaxSleep = 2
  BasePrio <- Alone
  Calls <- Exiting
  Defunct = Defunct
  Ipc = {}
  NoIpc = NoIpc
SPECIFICATION FairSpec
PROPERTIES
  DefunctIsCleaned
