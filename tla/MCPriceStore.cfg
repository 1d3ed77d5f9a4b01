\* Two passes at a time over one price, and the custodian behind them.
SPECIFICATION Spec
CONSTANTS
    p1 = p1
    p2 = p2
    k1 = k1
    o1 = o1
    o2 = o2
    Pass = {p1, p2}
    Key = {k1}
    Odds = {o1, o2}
    RefreshEvery = 2
    Windows = {1}
    KeepPrices = 1
    BackupEvery = 1
    Unknown = Unknown
    Batches <- AFewBatches
    MaxNow = 4
    MaxMishaps = 1
SYMMETRY Symmetry
INVARIANTS
    SeriesAgrees
    HistoryIsWhole
    StampLagsBehindLittle
PROPERTIES
    PrunedRowsAreBackedUp
    SeriesPromise
CHECK_DEADLOCK FALSE
