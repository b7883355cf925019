SPECIFICATION Spec
CONSTANTS
    r1 = r1
    r2 = r2
    s1 = s1
    s2 = s2
    u1 = u1
    None = None
    Requests <- TwoRequests
    Sessions <- TwoSessions
    Users <- OneUser
    UserOf <- SameUser
    Tokens <- TwoTokens
    Calls <- AllCalls
SYMMETRY Symmetric
INVARIANTS NoRefreshAfterRevocation LogoutTakesEffect LogoutAllComplete
PROPERTIES RevokedForever
CHECK_DEADLOCK FALSE
