SPECIFICATION Spec
CONSTANTS
    w1 = w1
    w2 = w2
    Streams = {s1}
    Fenced = {s1}
    Producers = {p}
    Calls = {k1, k2}
    Writers = {w1, w2}
    MaxAuth = 1
    MaxGen = 2
    MaxLog = 2
    Scenes <- MCScenes
SYMMETRY Symmetry
CHECK_DEADLOCK FALSE
INVARIANTS
    SealsAreFinal
    BoundProducersStayFenced
    ClaimsDoNotInterleave
