SPECIFICATION Spec
CHECK_DEADLOCK FALSE
CONSTANTS
    p1 = p1
    p2 = p2
    r1 = r1
    r2 = r2
    book = book
    racing = racing
    Proc = {p1, p2}
    Run = {r1, r2}
    Provider = {book, racing}
    Setups <- AllSetups
    Ceiling = 4
    MaxSteps = 4
    MaxToolCalls = 5
    PerProvider = 2
    Repeats = 3
    MaxPeriod = 2
    ParseRetries = 1
    VerifyRetries = 1
    MaxDay = 1
INVARIANTS
    TeamSharesItsCeiling
    ProvidersAreSpared
    
    RowsAddUp
