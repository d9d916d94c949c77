CONSTANTS
    Users = {u1, u2}
    Diaries = {d1}
    Kinds <- LikesAndFollows
    Handlers = {h1, h2}
    Runners = {j1, j2}
    Nobody = Nobody
    HomeOf <- OneProcess
    MaxRequests = 2
    MaxFaults = 1
SYMMETRY Symmetry
SPECIFICATION Spec
INVARIANTS TypeOK BooksBalance  LeaseExclusive
CHECK_DEADLOCK FALSE
