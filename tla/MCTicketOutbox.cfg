SPECIFICATION FairSpec
CONSTANTS
    r1 = r1  r2 = r2  r3 = r3  k1 = k1  k2 = k2
    w1 = w1  h1 = h1  h2 = h2
    NoTicket = NoTicket
    Requests = {r1, r2, r3}
    Key <- TwoKeys
    Workers = {w1}
    Handlers = {h1, h2}
    MaxAttempts = 2
    BatchSize = 1
    MaxTickets = 2
    MaxLost = 2
INVARIANTS
    TypeOK
    TriesAccounted
    OneTicketPerKey
    StatusIsEarned
PROPERTIES
    EventsAreReliable
    Settles
