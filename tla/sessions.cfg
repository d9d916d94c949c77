CONSTANTS
    Logins = {s1}
    Handlers = {h1, h2}
    NoLogin = NoLogin
    AccessLife = 2
    RefreshLife = 1
    SessionLife = 1
    MaxClock = 4
    MaxTokens = 3
    MaxLinks = 1
    MaxEndings = 1
    MaxFaults = 1
SYMMETRY Symmetry
SPECIFICATION Spec
INVARIANTS TypeOK OneTokenPerSession SessionsExpire OldPasswordLoggedOut RevokedRejected
CHECK_DEADLOCK FALSE
