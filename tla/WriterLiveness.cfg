SPECIFICATION FairSpec
CONSTANTS
  ok = ok
  bad = bad
  w1 = w1
  w2 = w2
  Events = {ok, bad}
  Writers = {w1, w2}
  Poison = {bad}
  Invalid = {}
  BatchSize = 2
  MaxRetries = 2
  MaxDisruptions = 1
PROPERTY EventsSettle
