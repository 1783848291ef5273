CONSTANTS
  a = a
  b = b
  idle = idle
  x = x
  y = y
  User = {a, b}
  Idle = idle
  NoTask = NoTask
  MaxPriority = 2
  SliceTicks = 1
  MaxSleep = 1
  BasePrio <- Peers
  Calls <- NoCalls
  Defunct = Defunct
  Ipc = {SendIpc, ReceiveIpc}
  NoIpc = NoIpc
  Forever = Forever
  MaxWait = 2
  SendIpc = SendIpc
  ReceiveIpc = ReceiveIpc
  Capacity = 2
  Item = {x, y}
  NoItem = NoItem
  QueueCalls <- All
SYMMETRY Symmetry
SPECIFICATION FifoSpec
ACTION_CONSTRAINT Workload
INVARIANTS
  QueueTypeOK
  RingOK
PROPERTIES
  IsChannel
  StallsOnlyByGivingUp
  NeverEarly
