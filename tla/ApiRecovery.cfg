\* One job with two calls, two instances.
SPECIFICATION FairSpec
CONSTANTS
  j1 = j1  c1 = c1  c2 = c2  i1 = i1  i2 = i2
  Nobody = Nobody  NoCall = NoCall
  Jobs = {j1}
  Calls = {c1, c2}
  JobOf <- MCJobOf
  Instances = {i1, i2}
  MaxFailures = 2
  MaxFaults = 1
CHECK_DEADLOCK FALSE
INVARIANTS AcknowledgedIsPublished CompletedShowsOwnResult RecoveredIsShown
PROPERTIES SuccessIsFinal LostCallsSettle
