SPECIFICATION Spec
CONSTANTS
    c1 = c1  c2 = c2  q1 = q1
    NoClient = NoClient
    Clients = {c1}
    Questions = {q1}
    Buffer = 1
    MaxDeltas = 1
    MaxExtras = 2
INVARIANTS
    NeverPanics
CHECK_DEADLOCK FALSE
