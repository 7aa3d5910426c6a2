SPECIFICATION USpec
CONSTANTS
  c1 = c1
  c2 = c2
  Callers = {c1, c2}
  MaxLines = 1
  Batch = 1
  MaxCalls = 4
  MaxCrashes = 1
SYMMETRY Threads
INVARIANTS
  NothingLostAlone
  CacheInOrder
  TwiceOnlyAfterCrash
  
CHECK_DEADLOCK FALSE
