SPECIFICATION Spec
CONSTANTS
  None = None
  Services = {"trees"}
  Pair = {p1, p2}
  Others = {q1, q2}
  Tickets = {a, b, c}
  MaxRequests = 3
  MaxRuns = 2
  MaxConvs = 2
  MaxEvents = 1
  Pods = {r1}
  MaxMishaps = 3
  MaxLines = 3
  MaxDrops = 1
  Subjects = {w}
  MaxMoves = 4
  Ids = {1, 2, 3}
  MaxClock = 1
  Endpoints = {e1, e2}
  MaxEdits = 4
  Repos = 2
  Presets = {"go", "uv"}
  MaxChanges = 3
  MaxBufferRecoveries = 1
  MaxSaid = 4
  PipeRoom = 2
  Replies = {"m1"}
  MaxTold = 4
  MaxTries = 2
  MaxFaults = 1
  PerPage = 1
  MaxIids = 2
  MaxRevisions = 1
  MaxCalls = 2
  Ttl = 2
  MaxTime = 3
  TreeNames = {n1}
  MaxAsks = 3
  PageLimit = 1
  MaxStirs = 2
  PriceTtl = 1
  PriceTime = 1
  MaxVersions = 2
  Margin = 1
  TurnTime = 2
  MaxTurnEvents = 5
  SpendTime = 2
  MaxMeddling = 1
  MaxTurns = 2
  MaxStarts = 3
  MaxFileLines = 3
  MaxHosts = 2
  MaxSyncs = 1
  TokenTime = 2
  MaxUses = 2
  Backend <- PodThenClaude
INVARIANT RetryFindsItsTree
CHECK_DEADLOCK FALSE
