CONSTANTS
    MaxTexts = 3
    MaxPresses = 2
    MaxEvents = 0
    MaxBlocks = 0
    MaxQuestions = 0
    MaxQueries = 0
    MaxTags = 0
    Moderators = {}
    MaxJobs = 0
    MaxMishaps = 0
SPECIFICATION Spec
INVARIANT NothingBlanked
\* The user may leave the page, or have nothing left to do.
CHECK_DEADLOCK FALSE
