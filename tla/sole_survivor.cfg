SPECIFICATION Spec
CONSTANTS
    a = a
    b = b
    c = c
    k = k
    NoNode = NoNode
    Node = {a, b}
    Key = {k}
    N = 2
    K = 1
    Histories <- SurvivorHistory
    LastVersion = 2
    Start = 1
    Settled = {k}
    Down = {b}
    Late = {}
    Budgets <- NoFaults
INVARIANT QuiescentHealed
\* A system with nothing left to do stops: ticks on empty queues do nothing.
CHECK_DEADLOCK FALSE
