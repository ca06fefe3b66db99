SPECIFICATION Spec
CONSTANTS
    c1 = c1
    c2 = c2
    u1 = u1
    q1 = q1
    k1 = k1
    k2 = k2
    NONE = NONE
    Commands = {c1, c2}
    UserEvents = {u1}
    Queues = {q1}
    Callbacks = {k1, k2}
    MaxWaitList = 1
INVARIANTS
    CallbackCalledOnce
