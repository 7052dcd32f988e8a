SPECIFICATION FairSpec
CONSTANTS
  w1 = w1
  w2 = w2
  t1 = t1
  t2 = t2
  Workers = {w1, w2}
  Threads = {t1, t2}
  MaxToggles = 2
  MaxDisruptions = 0
PROPERTY EnabledIsServed
