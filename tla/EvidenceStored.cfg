SPECIFICATION Spec
CONSTANTS
  Tasks = {t1, t2}
  Reports = 1
  Digests = {d1}
  Workers = {w1, w2}
  Nobody = Nobody
  MaxGrants = 1
  MaxFaults = 0
INVARIANTS
  RegisteredIsStored
CHECK_DEADLOCK FALSE
