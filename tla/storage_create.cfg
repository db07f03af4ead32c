SPECIFICATION FairSpec
CONSTANTS
    a = a
    b = b
    c = c
    k = k
    NoNode = NoNode
    Node = {a, b}
    Key = {k}
    N = 2
    K = 1
    Histories <- StaticHistory
    LastVersion = 1
    Start = 1
    Settled = {}
    Down = {}
    Late = {}
    Budgets <- NetAndIo
INVARIANT AckedIsReadable
PROPERTY ImplementsObjectStore
PROPERTY AckedThenComplete
\* A system with nothing left to do stops: ticks on empty queues do nothing.
CHECK_DEADLOCK FALSE
