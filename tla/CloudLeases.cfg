\* Two threads, one slot, one fault and a run of the backfill tool.
CONSTANTS
  t1 = t1
  t2 = t2
  a1 = a1
  a2 = a2
  c1 = c1
  c2 = c2
  op = op
  nobody = nobody
  nothing = nothing
  Tasks = {t1}
  Arts = {a1, a2}
  TaskOf <- MCTwoOutputs
  Threads = {c1, c2}
  Operator = op
  MaxAttempts = 2
  Concurrency = 1
  MaxFaults = 1
  MaxBackfills = 1
  Nobody = nobody
  Nothing = nothing
SPECIFICATION Spec
SYMMETRY MCSymmetry
VIEW MCView
INVARIANT ManifestMatchesRows
INVARIANT CompletedIsComplete
INVARIANT GlobalUploadLimit
CHECK_DEADLOCK FALSE
