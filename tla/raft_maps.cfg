SPECIFICATION FairSpec
CONSTANTS
    s1 = s1
    s2 = s2
    u1 = u1
    u2 = u2
    Server = {s1, s2}
    Uri = {u1, u2}
    Cap = {1}
    LogSize = 3
    Failures = 1
    Restarts = 1
INVARIANT SameVersionSameMap
INVARIANT IdsResolve
PROPERTY ImplementsMapHistory
PROPERTY AllTold
\* When every committed command has been processed everywhere nothing is left.
CHECK_DEADLOCK FALSE
