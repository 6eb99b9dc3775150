SPECIFICATION FairSpec
CONSTANTS
    q1 = q1  q2 = q2  q3 = q3
    Queries = {q1, q2, q3}
    Streams = {q3}
    MaxFailures = 2
    HalfOpenMaxReqs = 1
    MaxCount = 5
INVARIANTS
    TypeOK
    TrialsBounded
PROPERTIES
    SourceIsSpared
    Recovers
