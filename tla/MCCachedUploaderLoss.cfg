SPECIFICATION USpec
CONSTANTS
  c1 = c1
  c2 = c2
  Callers = {c1, c2}
  MaxLines = 2
  Batch = 2
  MaxCalls = 3
  MaxCrashes = 0
SYMMETRY Threads
INVARIANT NothingLost
CHECK_DEADLOCK FALSE
