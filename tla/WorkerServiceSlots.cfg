SPECIFICATION Spec
CONSTANTS
  Tasks = {t1, t2, t3}
  Threads = {x1, x2, x3}
  SlotCounts = {2}
  NoTask = NoTask
  MaxClaims = 4
  MaxSignals = 0
  MaxTaken = 0
  MaxRetaken = 1
  MaxBreaks = 0
  MaxNoThread = 0
SYMMETRY Symmetry
INVARIANTS
  SlotsBounded
CHECK_DEADLOCK FALSE
