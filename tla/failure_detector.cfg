SPECIFICATION FairSpec
CONSTANTS
    n1 = n1
    n2 = n2
    n3 = n3
    Node = {n1, n2, n3}
    InitialMembers = {n1, n2, n3}
    K = 2
    Watchers = {n1, n2}
    Budgets <- MCBudgets
INVARIANT TypeOK
INVARIANT NoFalseReport
INVARIANT MembersAreServers
PROPERTY DeadIsRemoved
PROPERTY DeadLeavesRaft
PROPERTY LeftIsForgotten
CHECK_DEADLOCK FALSE
