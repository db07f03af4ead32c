SPECIFICATION FairSpec
CONSTANTS
    a = a
    b = b
    c = c
    k = k
    NoNode = NoNode
    Node = {a, b, c}
    Key = {k}
    N = 2
    K = 1
    Histories <- ReplaceHistory
    LastVersion = 2
    Start = 1
    Settled = {k}
    Down = {b}
    Late = {c}
    Budgets <- NoFaults
INVARIANT QuiescentHealed
PROPERTY AckedThenComplete
\* A system with nothing left to do stops: ticks on empty queues do nothing.
CHECK_DEADLOCK FALSE
