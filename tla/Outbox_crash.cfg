SPECIFICATION FairSpec
CONSTANTS
    w1 = w1
    w2 = w2
    audit = audit
    err = err
    login = login
    Workers = {w1}
    Events = {audit}
    Kind <- AuditOnly
    MaxRetries = 2
    Batch = 1
    FaultKinds = {"crash"}
    MaxFaults = 1
PROPERTIES
    AtLeastOnce
