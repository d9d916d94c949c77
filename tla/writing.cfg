CONSTANTS
    MaxTexts = 2
    MaxPresses = 2
    MaxEvents = 1
    MaxBlocks = 3
    MaxQuestions = 2
    MaxQueries = 3
    MaxTags = 1
    Moderators = {q1, q2}
    MaxJobs = 2
    MaxMishaps = 1
SYMMETRY ModeratorsAlike
SPECIFICATION Spec
INVARIANTS TypeOK   WaitingIsShown 
PROPERTIES  SwapsChapters
\* The user may leave the page, or have nothing left to do.
CHECK_DEADLOCK FALSE
