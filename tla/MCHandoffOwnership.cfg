SPECIFICATION Spec
CONSTANTS
    s1 = s1  s2 = s2
    a1 = a1  a2 = a2
    c1 = c1  c2 = c2  c3 = c3  c4 = c4
    w1 = w1  w2 = w2
    NoAgent = NoAgent
    Sessions = {s1, s2}
    Agents = {a1, a2}
    Callers = {c1, c2, c3}
    Workers = {w1, w2}
    Operations = {"human", "agent", "cancel", "release"}
    Qualified <- GroupOfS2
    Rank <- UrgentS2
    MaxConcurrent = 1
    BatchSize = 2
    Postgres = FALSE
    LeaseOutlivesWork = TRUE
    FlakyStore = TRUE
    MaxCrashes = 1
    Flappers = {}
SYMMETRY Interchangeable
INVARIANTS
    WaitingIsUnassigned
    OwnerIsLatest
    RecordsChain
PROPERTIES
    QueueIsOneWay
    OwnershipHolds
