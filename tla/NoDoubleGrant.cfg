\* Tier A: WAIT is answered from memory, then the primary fails over.
SPECIFICATION Spec
CONSTANTS
    m1 = m1
    w1 = w1
    w2 = w2
    Nobody = Nobody
    Managers = {m1}
    Workers = {w1, w2}
    Scenes <- TierA
INVARIANTS
    NoDoubleGrant
CHECK_DEADLOCK FALSE
