SPECIFICATION Spec
CONSTANTS
    r1 = r1
    r2 = r2
    Requests = {r1, r2}
    Calls = {"register", "right", "wrong"}
    MaxFailures = 1
    Duration = 2
    Failing = FALSE
    MaxTime = 3
    MaxWrong = 2
SYMMETRY Symmetric
INVARIANTS
    NoStaleLockout
CHECK_DEADLOCK FALSE
