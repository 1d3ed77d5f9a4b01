SPECIFICATION FairSpec
CONSTANTS
    a = a
    b = b
    c = c
    Player = {a, b, c}
    Squad0 = {a}
    Orders = {1, 2}
    Setups <- AllSetups
    Platforms = {"fpl", "espn", "mfl"}
    HardDeadline = {"fpl", "mfl"}
    PerHit = 4
    FreeTransfers = 1
    Ladder <- MCLadder
    QuietBeyond = 4
    CheckNear = 3
    CheckEvery = 2
    GameweekLength = 2
    EspnHorizon = 2
    UnknownHorizon = 2
    MaxProposals = 2
    MaxNow = 3

    
    
PROPERTIES
    OnlyWithConsent
    
    WatchWithoutNoise
    ApprovalsAreSettled
