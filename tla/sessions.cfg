SPECIFICATION FairSessionsSpec
CONSTANTS
    u1 = u1
    s1 = s1
    s2 = s2
    Nil = Nil
    Users = {u1}
    Sids = {s1, s2}
    Owner <- MCOwner
    Tickets = {k1}
    Life = 2
    Retention = 2
    TicketLife = 1
    MaxTime = 3
    MaxTokens = 1
CHECK_DEADLOCK FALSE
INVARIANTS
    EndedIsExact
PROPERTIES
    EndedStreamCloses
