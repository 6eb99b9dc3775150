SPECIFICATION Spec
CONSTANTS
    l1 = l1  l2 = l2  o1 = o1  o2 = o2
    Loops = {l1, l2}
    Operators = {o1, o2}
    MaxUpdates = 2
    MaxAttempts = 2
    MaxEvents = 3
SYMMETRY Interchangeable
INVARIANTS
    TypeOK
    NothingSkipped
    LiveOnce
    InboxTellsTheTruth
    PayloadStays
    NoStrayLoop
CHECK_DEADLOCK FALSE
