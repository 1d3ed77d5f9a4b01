SPECIFICATION Spec
CONSTANTS
    p1 = p1
    p2 = p2
    Proc = {p1}
    Policy <- MCPolicy
    Offers <- AskOffers
    Quotes <- Held
    BookAnswers = {"accept"}
    Given = {"approve", "place"}
    QuietTicks = {}
    TicksPerDay = 2
    TTL = 2
    MaxScans = 1
    MaxTime = 1
    MaxCrashes = 1
INVARIANTS
    PlacedOnce
