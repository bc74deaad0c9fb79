SPECIFICATION SumSpec
CONSTANTS
  New = {"a", "b"}
  Old = {"o"}
  Slots = {1}
  Score <- Weight
  SlotTTL = 1
  MemberTTL = 1
  MaxAge = 2
  MaxEpoch = 3
  Budgets <- MCBudgets
  Clients = {c1, c2}
SYMMETRY Symmetry
CONSTRAINT Accepted
CHECK_DEADLOCK FALSE
INVARIANTS
    DeliveryIsExact
    EpochHasOneOwner
    ScopeIsContinuous
    FenceAlarmHasACause
    LogAlarmHasACause
