SPECIFICATION Spec
CONSTANTS
  j1 = j1  j2 = j2  j3 = j3
  alice = alice  bob = bob  root = root
  w1 = w1  w2 = w2
  a1 = a1  a2 = a2  b1 = b1  b2 = b2
  NoPrompt = NoPrompt  NoPort = NoPort  NoPid = NoPid
  Prompts = {j1, j2}
  Users = {alice, bob}
  Admins = {}
  Terminating = {alice, bob}
  Requesters = {alice}
  Ports = {w1, w2}
  Procs = {a1, a2, b1}
  PortOf <- MCPortOf
  PidOf <- MCPidOf
  PoolOf <- MCUnpooled
  Configured = {}
  Kinds = {"api"}
  Priorities = {0}
  MaxPerUser = 1
  AdminLimit = 0
  ResourceLimits <- MCNoLimits
  Stale = 1
  MaxLag = 1
  HeartbeatDeadline = 9
  AllowOverlap = TRUE
  MaxCrashes = 1
  MaxDbFailures = 0
SYMMETRY MCSymmetry
CHECK_DEADLOCK FALSE
INVARIANTS RunningIsTracked ExclusiveExecution CancelIsolation
PROPERTIES ImplementsLifecycle
