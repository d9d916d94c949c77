CONSTANTS
    d1 = d1
    d2 = d2
    a1 = a1
    a2 = a2
    Diaries = {d1}
    Authors = {a1}
    AuthorOf <- OneAuthor
    Contents = {x, y}
    None = None
    Workers = {w1}
    BatchSize = 2
    MaxAttempts = 2
    Limit <- SingleLimit
SPECIFICATION FairSpec
INVARIANTS
    NoStaleEntry
    NothingMissing
PROPERTIES
    KeepsPromise
    EventuallyInSync
CHECK_DEADLOCK FALSE
