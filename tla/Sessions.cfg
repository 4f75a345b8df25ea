\* Two parents with a child each, three processes on two ports, one crash.
SPECIFICATION MCSpec
CONSTANTS
  j1 = j1  j2 = j2  c1 = c1  c2 = c2
  alice = alice  bob = bob
  w1 = w1  w2 = w2  w3 = w3
  a1 = a1  a2 = a2  b1 = b1  d1 = d1
  NoPrompt = NoPrompt  NoPort = NoPort  NoPid = NoPid
  Prompts = {j1, j2, c1, c2}
  Parents = {j1, j2}
  ChildOf <- MCChildOf
  Users = {alice, bob}
  Admins = {}
  Terminating = {}
  Requesters = {}
  Interrupters = {alice}
  Ports = {w1, w2}
  Procs = {a1, a2, b1}
  PortOf <- MCPortOf
  PidOf <- MCPidOf
  PoolOf <- MCUnpooled
  Configured = {}
  Kinds = {"api"}
  Priorities = {0}
  MaxPerUser = 2
  AdminLimit = 0
  ResourceLimits <- MCNoLimits
  Stale = 1
  MaxLag = 0
  HeartbeatDeadline = 0
  AllowOverlap = FALSE
  MaxCrashes = 1
  MaxDbFailures = 0
CHECK_DEADLOCK FALSE
INVARIANTS ForwardedHitsTarget
PROPERTIES ChildIsServed
