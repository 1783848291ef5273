CONSTANTS
  a = a
  b = b
  c = c
  Task = {a, b, c}
  Main = Main
  NoTask = NoTask
  Lost = Lost
  MaxWork = 2
  MaxNest = 2
SPECIFICATION FairSpec
INVARIANTS
  PortTypeOK
  OwnFrames
PROPERTIES
  IsProcessor
  SwitchHappens
