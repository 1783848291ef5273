CONSTANTS
  m = m
  a = a
  b = b
  idle = idle
  User = {a, b}
  Idle = idle
  NoTask = NoTask
  MaxPriority = 3
  SliceTicks = 2
  MaxSleep = 2
  BasePrio <- Peers
  Calls <- PeersSleep
  Defunct = Defunct
  Ipc = {}
  NoIpc = NoIpc
SPECIFICATION FairSpec
PROPERTIES
  SleeperWakes
  RoundRobinUnlessOverlooked
