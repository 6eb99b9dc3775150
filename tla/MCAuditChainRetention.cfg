SPECIFICATION Spec
CONSTANTS
    r1 = r1  r2 = r2  c1 = c1  c2 = c2
    Requests = {r1, r2}
    Cleaners = {c1, c2}
    BatchSize = 1
    PerSecond = 3
    MaxRows <- RowBound
    MaxTime <- TimeBound
    MaxEdits <- EditBound
SYMMETRY Interchangeable
INVARIANTS
    TypeOK
    NothingLost
    SerialWritersVerify
    TamperingShows
