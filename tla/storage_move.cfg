SPECIFICATION ReadSpec
CONSTANTS
    a = a
    b = b
    c = c
    k = k
    NoNode = NoNode
    Node = {a, b}
    Key = {k}
    N = 1
    K = 1
    Histories <- MoveHistory
    LastVersion = 3
    Start = 1
    Settled = {k}
    Down = {}
    Late = {}
    Budgets <- NoFaults
INVARIANT PieceNeverVanishes
INVARIANT GateHeldWhileSaving
INVARIANT QuiescentPlaced
INVARIANT FindsWhatStands
\* A system with nothing left to do stops: ticks on empty queues do nothing.
CHECK_DEADLOCK FALSE
