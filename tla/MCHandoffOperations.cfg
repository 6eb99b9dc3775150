SPECIFICATION FairSpec
CONSTANTS
    s1 = s1  s2 = s2
    a1 = a1  a2 = a2
    c1 = c1  c2 = c2  c3 = c3  c4 = c4
    w1 = w1  w2 = w2
    NoAgent = NoAgent
    Sessions = {s1, s2}
    Agents = {a1}
    Callers = {c1, c2}
    Workers = {w1}
    Operations = {"human", "agent", "cancel", "message", "close",
                  "assignConv", "transferConv", "assign", "release"}
    Qualified <- NobodyForS2
    Rank <- UrgentS2
    MaxConcurrent = 1
    BatchSize = 1
    Postgres = TRUE
    LeaseOutlivesWork = FALSE
    FlakyStore = FALSE
    MaxCrashes = 1
    Flappers = {a1}
INVARIANTS
    TypeOK
PROPERTIES
    WaitersAreServed
