SPECIFICATION Spec
CONSTANTS
    Clients = {c1, c2}
    Readers = {r1}
    Producers = {"p"}
    NoProducer = "none"
    Initials <- MCInitials
    MaxTries = 2
    PageFrames = 2
    PageBytes = 2
    MaxInc = 2
    Scenes <- MCScenes
CHECK_DEADLOCK FALSE
INVARIANTS
    ProducerLogIsExact
    AnsweredIsStored
    ReadsAreOneSnapshot
PROPERTIES
    ImplementsAppendLog
