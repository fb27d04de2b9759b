SPECIFICATION TimelySpec
CONSTANTS
  Tasks = {t1}
  Workers = {w1, w2}
  Clients = {c1}
  NoTask = NoTask
  MaxAttempts = 2
  LeaseTicks = 2
  RetryBase = 1
  RetryCap = 2
  Lag = 0
  MaxClaims = 3
  MaxRenewals = 1
  MaxFaults = 1
PROPERTIES
  EveryTaskEnds
  SlotsComeFree
