\* One command at a time, every book in a mode of its own.
SPECIFICATION Spec
CONSTANTS
    p1 = p1
    p2 = p2
    Proc = {p1}
    Policy <- MixedPolicy
    Offers <- AllOffers
    Quotes <- HeldAndShort
    BookAnswers = {"accept", "refuse", "odd", "lost"}
    Given = {"approve", "reject", "pending", "place"}
    QuietTicks = {2}
    TicksPerDay = 2
    TTL = 2
    MaxScans = 2
    MaxTime = 2
    MaxCrashes = 0
PROPERTIES
    KeepsPromise
    SendIsCleared
