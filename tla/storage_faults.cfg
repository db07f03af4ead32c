SPECIFICATION Spec
CONSTANTS
    a = a
    b = b
    c = c
    k = k
    NoNode = NoNode
    Node = {a, b}
    Key = {k}
    N = 1
    K = 1
    Histories <- LeaveHistory
    LastVersion = 2
    Start = 1
    Settled = {k}
    Down = {}
    Late = {}
    Budgets <- NodeFaults
INVARIANT NoUnexplainedLoss
PROPERTY ImplementsObjectStore
\* A system with nothing left to do stops: ticks on empty queues do nothing.
CHECK_DEADLOCK FALSE
