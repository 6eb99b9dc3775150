SPECIFICATION Spec
CONSTANTS
    s1 = s1  s2 = s2  r1 = r1  r2 = r2
    Sessions = {s1, s2}
    NoSession = NoSession
    Requests = {r1, r2}
    RevokeFamily = TRUE
    AccessTTL = 1
    MaxVersion = 2
    MaxUserVersion = 1
    MaxTokens = 2
    MaxListed = 1
    MaxTime = 2
SYMMETRY Interchangeable
INVARIANTS
    TypeOK
    EndedStaysEnded
    DeniedStaysDenied
    SpentStaysSpent
