SPECIFICATION GatewaySpec
CONSTANTS
  Nobody = Nobody
  Absent = Absent
  Cold = Cold
  MaxEvents <- MCEvents
  Tools = {0, 1}
  Strict = {0}
  Attempts = 2
  MaxLines = 4
  Lines <- MCLines
  Cap <- MCCap
  Accounts = {"a", "b"}
  Exchanges = {1, 2}
  Overlap = TRUE
  Objects <- MCObjects
  Schemas <- MCSchemas
  Bytes <- MCBytes
  MaxChunks = 3
  Keep = 1
  Mid = 1
  MaxChars = 6600
  MidChars = 3000
  OldChars = 1500
  Budget = 12000
  Wrap = 100
  MarkChars = 75
  Gone = 90
  Shapes <- MCShapes
  MaxTurns = 5
  Pool = {1, 2, 3}
  Requests = {1, 2}
  Window = 2
  Rows <- MCRows
  Procs = {"p1", "p2"}
  MaxJobs = 4
  ClientKeys = {"k1", "k2"}
  Made = {"k1"}
  Threads = {"t1", "t2", "t3"}
  Home <- MCHome
  MaxOps = 2
  Uses <- MCUses
  LastDay = 2
INVARIANTS FramesNest TextGivesWay KnownToolsWhole PoolHears
INVARIANTS KeyStable PinFollowsAnswer ArgumentsPutTogether
INVARIANTS SameStory LossIsGraded MarksMatch QuotaKeepsOut
INVARIANTS KeysFollowAdmin 
PROPERTIES ImplementsContract SettledStays  RefusedOnlyIfNone PollSettles
CHECK_DEADLOCK FALSE
