SPECIFICATION Spec
CONSTANTS
  w1 = w1
  w2 = w2
  r1 = r1
  s1 = s1
  Workers = {w1, w2}
  Requests = {r1}
  Sweeps = {s1}
  Home <- MCHome
  HardDelete = FALSE
  Rare = {"lapsed", "lost", "crash", "rewrite", "import", "removed", "revoked"}
  MaxRare = 1
  MaxGen = 3
INVARIANT StaleRejectionIsHarmless
CONSTRAINT Explored
CHECK_DEADLOCK FALSE
