\* One fault, an outlived lease among them, and late results: the other thread takes over.
CONSTANTS
  t1 = t1
  t2 = t2
  a1 = a1
  a2 = a2
  c1 = c1
  c2 = c2
  op = op
  nobody = nobody
  nothing = nothing
  Tasks = {t1}
  Arts = {a1}
  TaskOf <- MCOneOutput
  Threads = {c1, c2}
  Operator = op
  MaxAttempts = 2
  Concurrency = 2
  MaxFaults = 1
  MaxBackfills = 0
  Nobody = nobody
  Nothing = nothing
SPECIFICATION FairSpec
INVARIANT NoDuplicateUpload
PROPERTY SettlesOrIsLeft
PROPERTY EndedIsRegistered
CHECK_DEADLOCK FALSE
