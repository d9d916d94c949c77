CONSTANTS
    Logins = {s1}
    Handlers = {h1, h2}
    NoLogin = NoLogin
    AccessLife = 2
    RefreshLife = 1
    SessionLife = 1
    MaxClock = 4
    MaxTokens = 3
    MaxLinks = 0
    MaxEndings = 1
    MaxFaults = 0
SYMMETRY Symmetry
SPECIFICATION Spec
INVARIANT OthersLoggedOut
CHECK_DEADLOCK FALSE
