SPECIFICATION Spec
CONSTANTS
    p1 = p1  p2 = p2  e1 = e1
    Setups <- RedisAndMemory
    Replicas = {p1, p2}
    Sources = {e1}
    BatchSize = 1
    MaxAttempts = 2
    MaxMishaps = 2
INVARIANTS
    TypeOK
    SettledIsEarned
    TimerOnce
PROPERTIES
    EverythingSettles
CHECK_DEADLOCK FALSE
