SPECIFICATION Spec
CONSTANTS
    w1 = w1
    w2 = w2
    audit = audit
    err = err
    login = login
    Workers = {w1}
    Events = {login}
    Kind <- LoginOnly
    MaxRetries = 2
    Batch = 1
    FaultKinds = {"insert"}
    MaxFaults = 2
INVARIANTS
    LoginHistoryRetried
