SPECIFICATION Spec
CONSTANTS
    r1 = r1
    r2 = r2
    t1 = t1
    None = None
    Requests = {r1, r2}
    Tokens = {t1}
    TTL = 1
    Overlap = 1
    Limit = 1
    Fallback = "block"
    MaxTime = 3
    MaxCount = 2
SYMMETRY Symmetric
INVARIANTS
    RevokedStaysOut
    LimitHeld
    Answered
PROPERTIES ImplementsService
