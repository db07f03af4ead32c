SPECIFICATION Spec
CONSTANTS
    a = a
    b = b
    c = c
    k = k
    NoNode = NoNode
    Node = {a, b}
    Key = {k}
    N = 1
    K = 1
    Histories <- JoinHistory
    LastVersion = 2
    Start = 1
    Settled = {}
    Down = {}
    Late = {}
    Budgets <- NoFaults
INVARIANT QuiescentHealed
\* A system with nothing left to do stops: ticks on empty queues do nothing.
CHECK_DEADLOCK FALSE
