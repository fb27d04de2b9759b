SPECIFICATION Spec
CONSTANTS
  Tasks = {gen, k1, k2}
  Gen = gen
  Workers = {w1, w2}
  Reviewers = {r1}
  Digests = {d1, d2}
  Clean = {d1}
  Manifests = {m1, m2}
  Nobody = Nobody
  MaxGrants = 3
  MaxLapses = 2
  MaxCrashes = 1
  MaxSurprises = 1
  MaxReuses = 1
  MaxRejections = 1
SYMMETRY Symmetry
INVARIANTS
  DecidedManifest
CHECK_DEADLOCK FALSE
