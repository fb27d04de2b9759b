SPECIFICATION FairSpec
CONSTANTS
  Sets = {s1}
  Proposals = {p1}
  Contents = {t1, t2}
  Source = Source
  Clients = {c1}
  Workers = {w1, w2}
  Nobody = Nobody
  MaxCrashes = 1
  MaxGrants = 3
  MaxLapses = 1
PROPERTIES
  DecisionStands
  ProposalMoves
  RefFollows
CHECK_DEADLOCK FALSE
