SPECIFICATION FairSpec
CONSTANTS
    w1 = w1
    w2 = w2
    audit = audit
    err = err
    login = login
    Workers = {w1, w2}
    Events = {audit, err, login}
    Kind <- OneOfEach
    MaxRetries = 2
    Batch = 2
    FaultKinds = {"enqueue", "insert", "find", "claim", "mark", "crash"}
    MaxFaults = 3
INVARIANTS
    ExclusiveClaim
    RetryBound
    CopiesBounded
    NothingForgotten
PROPERTIES
    LossBounded
    ImplementsQueue
    StoredUnlessOrphaned
