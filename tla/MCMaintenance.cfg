SPECIFICATION Spec
CONSTANTS
  w1 = w1
  w2 = w2
  t1 = t1
  t2 = t2
  t3 = t3
  Workers = {w1, w2}
  Threads = {t1, t2, t3}
  MaxToggles = 2
  MaxDisruptions = 1
INVARIANTS LeaderOwnsLock OneRunAtATime
 
SYMMETRY Symmetry
