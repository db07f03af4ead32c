SPECIFICATION MCSpec
CONSTANTS
    Key = {k1, k2}
    Index = {0, 1}
    RowId = {1, 2, 3}
    k1 = k1
    k2 = k2
INVARIANT TypeOK
INVARIANT NeverAfterUncleanEnd
INVARIANT SetUpIsWhole
PROPERTY ImplementsPieceStore
PROPERTY MemImplementsPieceStore
