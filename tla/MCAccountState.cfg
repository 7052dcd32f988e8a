SPECIFICATION Spec
CONSTANTS
  r1 = r1
  admin = admin
  Requests = {r1}
  Operators = {admin}
  Outcomes = {"success", "failure", "quota"}
  Controls = {"disable", "enable", "clear", "probe_fail"}
  MaxDisruptions = 2
INVARIANTS  FailuresCoolTheRow
\* Every process reports once, so the system comes to rest.
CHECK_DEADLOCK FALSE
