\* Ticks one after the other or overlapping, one of them killed at any point.
SPECIFICATION FairSpec
CONSTANTS
    t1 = t1
    t2 = t2
    Tick = {t1, t2}
    Job = {"job", "ops_health"}
    MaxPids = 4
    Setups <- MCSetups
INVARIANTS
    CountIsExact
PROPERTIES
    
    NeverWedged
