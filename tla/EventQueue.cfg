SPECIFICATION Spec
CONSTANTS
    c1 = c1
    c2 = c2
    c3 = c3
    u1 = u1
    q1 = q1
    NONE = NONE
    Commands = {c1, c2, c3}
    UserEvents = {u1}
    Queues = {q1}
    Callbacks = {}
    MaxWaitList = 2
INVARIANTS
    TypeOK
    InOrder
    WaitListsPointBackwards
    RunsAfterWaitList
PROPERTIES
    StatusAdvances
    OrderedSpec
    CommandsFinish
