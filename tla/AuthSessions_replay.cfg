SPECIFICATION Spec
CONSTANTS
    r1 = r1
    r2 = r2
    s1 = s1
    s2 = s2
    u1 = u1
    None = None
    Requests <- OneRequest
    Sessions <- OneSession
    Users <- OneUser
    UserOf <- SameUser
    Tokens <- TwoTokens
    Calls <- RefreshOnly
INVARIANTS ReplayRevokesFamily
CHECK_DEADLOCK FALSE
