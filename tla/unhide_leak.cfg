CONSTANTS
    Diaries = {d1}
    Media = {m1}
    Requests = {r1}
    NoDiary = NoDiary
    CarefulAbout = {"unhide"}
    MaxRequests = 5
    MaxCrashes = 0
SPECIFICATION Spec
INVARIANT UnhideRestores
CHECK_DEADLOCK FALSE
