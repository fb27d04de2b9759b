SPECIFICATION Spec
CONSTANTS
  Tasks = {t1}
  Workers = {w1, w2}
  Clients = {c1}
  NoTask = NoTask
  MaxAttempts = 2
  LeaseTicks = 2
  RetryBase = 1
  RetryCap = 2
  Lag = 1
  MaxClaims = 2
  MaxRenewals = 1
  MaxFaults = 1
SYMMETRY Symmetry
INVARIANTS
  IInv
  NewestExecutionOwns
  CancelAnswerHolds
PROPERTIES
  LeaseRespected
  ImplementsLifecycle
