SPECIFICATION Spec
CONSTANTS
  Sets = {s1}
  Proposals = {p1}
  Contents = {t1, t2}
  Source = Source
  Clients = {c1}
  Workers = {w1, w2}
  Nobody = Nobody
  MaxCrashes = 2
  MaxGrants = 4
  MaxLapses = 0
PROPERTIES
  RerunsEnd
CHECK_DEADLOCK FALSE
