CONSTANTS
  Nobody = Nobody
  Absent = Absent
  MaxEvents <- MCEvents
  Accounts = {1, 2, 3}
  Batch = 2
  KickAt = 1
  Items = {1, 2, 3}
  Owner <- MCOwner
  Workers = {"w1", "w2"}
  Home = "w1"
SPECIFICATION Spec
INVARIANTS OverTellsTruth LoginTellsTruth
PROPERTIES NoneSkipped  JobEnds
CHECK_DEADLOCK FALSE
