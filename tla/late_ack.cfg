SPECIFICATION Spec
CONSTANTS
    a = a
    b = b
    c = c
    k = k
    NoNode = NoNode
    Node = {a, b}
    Key = {k}
    N = 2
    K = 1
    Histories <- ReturnHistory
    LastVersion = 3
    Start = 1
    Settled = {k}
    Down = {}
    Late = {}
    Budgets <- NoFaults
INVARIANT PieceNeverVanishes
\* A system with nothing left to do stops: ticks on empty queues do nothing.
CHECK_DEADLOCK FALSE
