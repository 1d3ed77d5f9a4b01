\* One slot, two crashes, every command and answer.
SPECIFICATION FairSpec
CONSTANTS
    p1 = p1
    p2 = p2
    Proc = {p1}
    Policy <- MCPolicy
    Offers <- AskOffers
    Quotes <- Held
    BookAnswers = {"accept", "refuse", "odd", "lost"}
    Given = {"approve", "reject", "pending", "place"}
    QuietTicks = {}
    TicksPerDay = 2
    TTL = 1
    MaxScans = 2
    MaxTime = 2
    MaxCrashes = 2
INVARIANTS
    FateAgreesWithLedger
PROPERTIES
    CommandsEnd
