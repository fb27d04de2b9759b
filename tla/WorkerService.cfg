SPECIFICATION FairSpec
CONSTANTS
  Tasks = {t1, t2}
  Threads = {x1, x2}
  SlotCounts = {1, 2}
  NoTask = NoTask
  MaxClaims = 2
  MaxSignals = 1
  MaxTaken = 1
  MaxRetaken = 1
  MaxBreaks = 1
  MaxNoThread = 1
INVARIANTS
  ViewIsRight
  CleanStop
PROPERTIES
  Drains
  SlotsReturn
CHECK_DEADLOCK FALSE
