SPECIFICATION LifetimeSpec
CONSTANTS
    c1 = c1
    c2 = c2
    u1 = u1
    q1 = q1
    NONE = NONE
    Ctx = Ctx
    Commands = {c1, c2}
    UserEvents = {u1}
    Queues = {q1}
    Callbacks = {}
    MaxWaitList = 1
INVARIANTS
    CountsMatch
    NothingFreedInUse
PROPERTIES
    ReleasedAtLast
