SPECIFICATION Spec
CONSTANTS
  r1 = r1
  r2 = r2
  Requests = {r1, r2}
  Operators = {}
  Outcomes = {"success", "failure"}
  Controls = {}
  MaxDisruptions = 0
INVARIANT DurableCooldown
CHECK_DEADLOCK FALSE
