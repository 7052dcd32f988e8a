SPECIFICATION Spec
CONSTANTS
  a1 = a1
  a2 = a2
  r1 = r1
  r2 = r2
  Accounts = {a1, a2}
  Requests = {r1, r2}
  Streams = {r1}
  MaxInflight = 1
  MaxAttempts = 2
  MaxDisruptions = 1
INVARIANTS LeaseCap LeasesExpire DebtIsPassing
SYMMETRY AccountSymmetry
\* Every request is made once, so the system comes to rest.
CHECK_DEADLOCK FALSE
