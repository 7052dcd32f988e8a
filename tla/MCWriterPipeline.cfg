SPECIFICATION Spec
CONSTANTS
  ok = ok
  bad = bad
  junk = junk
  w1 = w1
  w2 = w2
  Events = {ok, bad, junk}
  Writers = {w1, w2}
  Poison = {bad}
  Invalid = {junk}
  BatchSize = 2
  MaxRetries = 2
  MaxDisruptions = 3
SYMMETRY WriterSymmetry
INVARIANTS NoEventLost ExactlyOnceEffect
PROPERTY ImplementsLedger
