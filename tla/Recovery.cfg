SPECIFICATION SumSpec
CONSTANTS
  m1 = m1
  w1 = w1
  w2 = w2
  p1 = p1
  s1 = s1
  NoTask = NoTask
  Nobody = Nobody
  Replicas = {1, 2}
  MaxKid = 3
  TokenTTL = 1
  Skew = 1
  Budgets <- MCBudgets
CHECK_DEADLOCK FALSE
INVARIANTS
    TokensOutliveRotation
    GrantsAreExclusive
PROPERTIES
    LinksConverge
