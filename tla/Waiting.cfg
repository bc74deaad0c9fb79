SPECIFICATION SumSpec
CONSTANTS
  p1 = p1
  p2 = p2
  p3 = p3
  w1 = w1
  w2 = w2
  Paths = {p1, p2, p3}
  Ids <- MCIds
  Modes <- MCModes
  Capacity = 2
  BatchSize = 2
CHECK_DEADLOCK FALSE
INVARIANTS
    NobodySleepsOverData
PROPERTIES
    EveryAppendIsNoticed
    NobodyIsLeftWaiting
