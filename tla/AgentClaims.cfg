\* Two tasks of one account, two runner slots, failures and a recovery.
SPECIFICATION FairSpec
CONSTANTS
  t1 = t1  t2 = t2  k1 = k1  k2 = k2  r1 = r1  r2 = r2  q1 = q1  q2 = q2  alice = alice
  NoTask = NoTask  NoKey = NoKey  Nobody = Nobody
  Tasks = {t1, t2}
  OwnerOf <- MCOneOwner
  Keys = {}
  Runners = {r1, r2}
  Requests = {}
  Concurrency = 2
  PerUser = 1
  PendingPerUser = 2
  MaxFaults = 2
  MaxRecovers = 1
CHECK_DEADLOCK FALSE
INVARIANTS LeaseLimits
PROPERTIES QueuedIsClaimed
