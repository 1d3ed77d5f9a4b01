\* Files of up to four rows over two days, one append cut short.
SPECIFICATION FileSpec
CONSTANTS
    MaxScans = 1
    MaxTime = 1
    TicksPerDay = 1
    Rows <- MCRows
    MaxLines = 4
    MaxTears = 1
INVARIANTS
    TallyMatchesFile
CHECK_DEADLOCK FALSE
