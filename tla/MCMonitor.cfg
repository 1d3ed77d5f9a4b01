SPECIFICATION Spec
CONSTANTS
    w1 = w1
    w2 = w2
    x = x
    Sub = {w1, w2}
    Name = {x}
    Setups <- AllSetups
    QuietTicks = {3}
    Lag = 1
    Backlog = 2
    Window = 2
    Cooldown = 1
    SteamWindow = 3
    MinMoves = 2
    Cap = 1
    DigestCap = 1
    StateAge = 2
    Start = 1
    Lead = 1
    Longest = 3
    LongestPass = 1
    MaxDelay = 2
    MaxBand = 1
    MaxMoves = 2
    MaxRaces = 1
    MaxTurns = 2
    MaxNow = 3
    MaxFaults = 1
INVARIANTS
    MovesAreHeard
    
    OnlyGrowthIsTold
    DigestsTellAll
PROPERTIES
    NoSecondPush
CHECK_DEADLOCK FALSE
