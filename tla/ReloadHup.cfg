SPECIFICATION FairSpec
CONSTANTS
    s1 = s1
    s2 = s2
    Sessions = {s1, s2}
    NumLevels = 2
    Lists <- Answers
    Patterns <- Split
    HupPoints <- Waiting
    Overlap = FALSE
    MaxClock = 2
CHECK_DEADLOCK FALSE
INVARIANTS
    TypeOK
    FirstLevelWins
    LookupComplete
    UpToDate
PROPERTIES
    HupHonoured
