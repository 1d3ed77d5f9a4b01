SPECIFICATION FairSpec
CONSTANTS
    hot = hot
    books = books
    g1 = g1
    g2 = g2
    g3 = g3
    g4 = g4
    g5 = g5
    e1 = e1
    e2 = e2
    e3 = e3
    e4 = e4
    e5 = e5
    e6 = e6
    e7 = e7
    e8 = e8
    Feed <- Two
    BaseInterval <- Intervals
    Priority = {hot}
    PriorityInterval = 2
    Overrides <- PinnedBooks
    PaceScope = 2
    Setups <- AllSetups
    Slots = 1
    EpochLen = 2
    Discovery = discovery
    SecondCall = second
    Highlights = highlights
    ListCap = 2
    DetailCap = 3
    RaceCap = 2
    PageCap = 1
    Soon = 2
    Late = 1
    Board <- Busy
    Outages <- SomeOutages
    LongestCycle = 2
    MaxNow = 6
    MaxFaults = 1
INVARIANTS
    FailuresStayLocal
    NoSportStarves
    RotationComesRound
PROPERTIES
    
    CyclesEnd
CHECK_DEADLOCK FALSE
