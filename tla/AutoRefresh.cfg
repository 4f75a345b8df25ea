\* One tab, two accounts, one deployment.
SPECIFICATION FairSpec
CONSTANTS
  alice = alice  bob = bob  None = None
  Accounts = {alice, bob}
  MaxRevision = 2
  MaxEdits = 1
  MaxDrops = 2
  MaxFaults = 1
  MaxLoads = 2
CHECK_DEADLOCK FALSE
INVARIANTS EditsSurviveRefresh NoForeignEdits RefreshNeedsConnection
PROPERTIES NoRefreshLoop AskedCheckRuns
