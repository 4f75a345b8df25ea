\* One task, child prompts under two keys, retried and cancelled.
SPECIFICATION Spec
CONSTANTS
  t1 = t1  t2 = t2  k1 = k1  k2 = k2  r1 = r1  r2 = r2  q1 = q1  q2 = q2  alice = alice
  NoTask = NoTask  NoKey = NoKey  Nobody = Nobody
  Tasks = {t1}
  OwnerOf <- MCOneOwner
  Keys = {k1, k2}
  Runners = {r1, r2}
  Requests = {q1, q2}
  Concurrency = 2
  PerUser = 1
  PendingPerUser = 2
  MaxFaults = 2
  MaxRecovers = 1
CHECK_DEADLOCK FALSE
SYMMETRY MCSymmetry
INVARIANTS NoReplay SubmittedOnce CancelReachesChildren CancelledSucceedsByDelivery
