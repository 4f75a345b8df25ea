\* Two instances, two names, two addresses.
SPECIFICATION Spec
CONSTANTS
  p1 = p1  p2 = p2  ann = ann  ben = ben  a1 = a1  a2 = a2
  Missing = Missing  Nobody = Nobody
  Instances = {p1, p2}
  Names = {ann, ben}
  Addresses = {a1, a2}
  Threshold = 2
  BlacklistAfter = 3
  Whitelist = Missing
  MaxWaiting = 2
  MaxWrong = 5
  MaxRestarts = 1
SYMMETRY Symmetry
CHECK_DEADLOCK FALSE
INVARIANTS UsersFileIntact LateAccountsNeedAdmin TriesBounded
PROPERTY BlacklistedStaysOut
