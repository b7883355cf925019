SPECIFICATION FairSpec
CONSTANTS
    p1 = p1
    p2 = p2
    Runners = {p1, p2}
    Last = 3
    MaxFaults = 3
INVARIANTS
    SuccessMeansComplete
    AppliesBounded
PROPERTIES
    ImplementsSchema
    Converges
