CONSTANTS
    Diaries = {d1, d2}
    Media = {m1}
    Requests = {r1, r2}
    NoDiary = NoDiary
    CarefulAbout = {"hide", "unhide"}
    MaxRequests = 3
    MaxCrashes = 1
    Admins = {a1, a2}
    Nobody = Nobody
    MaxTickets = 2
    MaxCalls = 3
    MaxBans = 2
    MaxBreaks = 1
SYMMETRY MCSymmetry
SPECIFICATION MCSpec
INVARIANTS MCTypeOK  ServedOnlyIfOpened  
    OneReviewer AppealsGranted
PROPERTY NeverReattached
CHECK_DEADLOCK FALSE
