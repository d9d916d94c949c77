CONSTANTS
    Users = {u1, u2}
    Diaries = {d1}
    Kinds <- LikesAndFollows
    Handlers = {h1, h2}
    Runners = {j1}
    Nobody = Nobody
    HomeOf <- OneProcess
    MaxRequests = 2
    MaxFaults = 1
SPECIFICATION FairSpec
PROPERTY EventuallyExact
CHECK_DEADLOCK FALSE
