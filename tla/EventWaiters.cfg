SPECIFICATION WaitersSpec
CONSTANTS
    c1 = c1
    c2 = c2
    u1 = u1
    q1 = q1
    q2 = q2
    t1 = t1
    NONE = NONE
    Commands = {c1, c2}
    UserEvents = {u1}
    Queues = {q1, q2}
    Callbacks = {}
    MaxWaitList = 2
    Waiters = {t1}
PROPERTIES
    SuccessMeansComplete
    FinishMeansFinished
    CallsReturn
