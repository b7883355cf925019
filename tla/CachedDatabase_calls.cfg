SPECIFICATION FairSpec
CONSTANTS
    reader = reader
    strict = strict
    loose = loose
    txn = txn
    Calls <- OneOfEach
    Kind <- KindOf
    Rounds <- Triples
INVARIANTS NeverBlocked CommittedOnly Exclusive
PROPERTIES ImplementsDocument StaleNeedsCause NothingLeftBehind CallsReturn
CHECK_DEADLOCK FALSE
