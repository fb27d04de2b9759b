SPECIFICATION Spec
CONSTANTS
  Tasks = {t1, t2}
  Reports = 2
  Digests = {d1, d2}
  Workers = {w1, w2}
  Nobody = Nobody
  MaxGrants = 2
  MaxFaults = 1
SYMMETRY Symmetry
INVARIANTS
  NeededIsStored
  SuccessIsEvident
PROPERTIES
  GateStaysOpen
CHECK_DEADLOCK FALSE
