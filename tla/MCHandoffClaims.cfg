SPECIFICATION Spec
CONSTANTS
    s1 = s1  s2 = s2
    a1 = a1  a2 = a2
    c1 = c1  c2 = c2  c3 = c3  c4 = c4
    w1 = w1  w2 = w2
    NoAgent = NoAgent
    Sessions = {s1}
    Agents = {a1}
    Callers = {c1}
    Workers = {w1, w2}
    Operations = {"human"}
    Qualified <- Anyone
    Rank <- NormalRank
    MaxConcurrent = 1
    BatchSize = 2
    Postgres = TRUE
    LeaseOutlivesWork = TRUE
    FlakyStore = FALSE
    MaxCrashes = 0
    Flappers = {a1}
SYMMETRY Interchangeable
INVARIANTS
    ClaimExclusive
