\* Pools and limits, workers that report in time, a crash, database errors.
SPECIFICATION Spec
CONSTANTS
  j1 = j1  j2 = j2  j3 = j3
  alice = alice  bob = bob  root = root
  w1 = w1  w2 = w2
  a1 = a1  a2 = a2  b1 = b1  b2 = b2
  NoPrompt = NoPrompt  NoPort = NoPort  NoPid = NoPid
  Prompts = {j1, j2}
  Users = {alice}
  Admins = {}
  Terminating = {alice}
  Requesters = {}
  Ports = {w1, w2}
  Procs = {a1, a2, b1, b2}
  PortOf <- MCPortOf
  PidOf <- MCPidOf
  PoolOf <- MCPools
  Configured = {a2, b1}
  Kinds = {"api", "gpu"}
  Priorities = {0}
  MaxPerUser = 1
  AdminLimit = 0
  ResourceLimits <- MCPoolLimits
  Stale = 1
  MaxLag = 1
  HeartbeatDeadline = 1
  AllowOverlap = FALSE
  MaxCrashes = 2
  MaxDbFailures = 3
SYMMETRY MCSymmetry
CHECK_DEADLOCK FALSE
INVARIANTS TypeOK PhysicalLimit LostOnlyWhenDead ConcurrencyLimit IdleWorkerCanClaim
