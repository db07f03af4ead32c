SPECIFICATION Spec
CONSTANTS
    a = a
    b = b
    c = c
    k = k
    NoNode = NoNode
    Node = {a, b}
    Key = {k}
    N = 2
    K = 1
    Histories <- JoinAndLeave
    LastVersion = 2
    Start = 1
    Settled = {k}
    Down = {}
    Late = {}
    Budgets <- NetIoOrReapply
INVARIANT TypeOK
INVARIANT PieceNeverVanishes
INVARIANT GateBeforeSend
INVARIANT QuiescentHealed
\* A system with nothing left to do stops: ticks on empty queues do nothing.
CHECK_DEADLOCK FALSE
