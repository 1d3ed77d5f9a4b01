\* Two slots for scans at the largest stake and below, one crash.
SPECIFICATION Spec
CONSTANTS
    p1 = p1
    p2 = p2
    Proc = {p1, p2}
    Policy <- KellyPolicy
    Offers <- SmallAndLarge
    Quotes <- Held
    BookAnswers = {"accept", "lost"}
    Given = {"pending"}
    QuietTicks = {}
    TicksPerDay = 1
    TTL = 2
    MaxScans = 4
    MaxTime = 1
    MaxCrashes = 1
SYMMETRY Symmetry
INVARIANTS
    OvershootBounded
    AutoPlacedOnce
    
