SPECIFICATION SumSpec
CONSTANTS
  n1 = n1
  n2 = n2
  r1 = r1
  r2 = r2
  x = x
  y = y
  Paths <- MCPaths
  Authorities = {"s1"}
  Holders = {"w1", "w2"}
  Ids = {"i1"}
  Budgets <- MCCalls
SYMMETRY Symmetry
CHECK_DEADLOCK FALSE
INVARIANTS
    ViewsAgree
    ReadIsExact
    SealedPrefixIsTrue
    PublishedIsDurable
    DrainIsExact
