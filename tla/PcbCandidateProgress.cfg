SPECIFICATION FairSpec
CONSTANTS
  Tasks = {gen, k1, k2}
  Gen = gen
  Workers = {w1, w2}
  Reviewers = {r1}
  Digests = {d1, d2}
  Clean = {d1}
  Manifests = {m1, m2}
  Nobody = Nobody
  MaxGrants = 3
  MaxLapses = 0
  MaxCrashes = 2
  MaxSurprises = 0
  MaxReuses = 0
  MaxRejections = 0
PROPERTIES
  CandidateMoves
CHECK_DEADLOCK FALSE
