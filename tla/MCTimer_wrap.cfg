CONSTANTS
  t1 = t1
  t2 = t2
  t3 = t3
  Timer = {t1, t2, t3}
  Periodic = {t3}
  ListHead = ListHead
  DueHead = DueHead
  NoTimer = NoTimer
  HalfRange = 4
  MaxTicks = 2
  MaxDelay = 1
SPECIFICATION Spec
INVARIANTS
  ListsIntact
  NeverEarly
PROPERTIES
  CountsDown
