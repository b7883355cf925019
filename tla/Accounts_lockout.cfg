SPECIFICATION Spec
CONSTANTS
    r1 = r1
    r2 = r2
    Requests = {r1, r2}
    Calls = {"register", "right", "wrong", "seed"}
    MaxFailures = 2
    Duration = 1
    Failing = TRUE
    MaxTime = 3
    MaxWrong = 3
SYMMETRY Symmetric
INVARIANTS
    LockNeedsFailures
    SeedGrants
    RolesGranted
    SerialLockout
PROPERTIES
    ImplementsAccount
