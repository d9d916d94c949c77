CONSTANTS
    PerPage = 2
    MaxItems = 5
    MaxVisits = 2
    MaxNotes = 2
    MaxFailures = 1
    MaxVersions = 2
    MaxClicks = 3
    MaxComments = 2
    MaxDeletes = 2
    MaxLosses = 2
    MaxSends = 2
    MaxExpiries = 1
    MaxFaults = 1
SPECIFICATION Spec
INVARIANTS TypeOK NoHoles  WayForward ButtonTrue 
PROPERTIES BadgeCatchesUp EveryRequestEnds
\* A reader may have nothing left to do.
CHECK_DEADLOCK FALSE
