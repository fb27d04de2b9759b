SPECIFICATION Spec
CONSTANTS
  Sets = {s1, s2}
  Proposals = {p1}
  Contents = {t1, t2}
  Source = Source
  Clients = {c1, c2}
  Workers = {w1}
  Nobody = Nobody
  MaxCrashes = 1
  MaxGrants = 2
  MaxLapses = 0
SYMMETRY Symmetry
INVARIANTS
  OneLine
  FactsAreConsistent
  ReviewedIsAccepted
  DesignRefIsAccepted
CHECK_DEADLOCK FALSE
