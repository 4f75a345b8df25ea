SPECIFICATION MCServedSpec
CONSTANTS
  j1 = j1  j2 = j2  j3 = j3
  alice = alice  bob = bob  root = root
  w1 = w1  w2 = w2
  a1 = a1  a2 = a2  b1 = b1  b2 = b2
  NoPrompt = NoPrompt  NoPort = NoPort  NoPid = NoPid
  Prompts = {j1, j2, j3}
  Users = {alice, bob}
  Admins = {}
  Terminating = {bob}
  Requesters = {}
  Ports = {w1, w2}
  Procs = {a1, a2, b1}
  PortOf <- MCPortOf
  PidOf <- MCPidOf
  PoolOf <- MCUnpooled
  Configured = {}
  Kinds = {"api"}
  Priorities = {0}
  MaxPerUser = 1
  AdminLimit = 0
  ResourceLimits <- MCNoLimits
  Stale = 1
  MaxLag = 0
  HeartbeatDeadline = 1
  AllowOverlap = FALSE
  MaxCrashes = 1
  MaxDbFailures = 0
CHECK_DEADLOCK FALSE
PROPERTIES QueuedIsServed DeadWorkerDetected
INVARIANTS FifoPerOwner
