CONSTANTS
    None = None
    MaxVersion = 2
    MaxAttempts = 1
    MaxConfigurations = 2
    MaxLosses = 1
    MaxPolls = 2
SPECIFICATION FairSpec
INVARIANT AnswersFitMode
PROPERTIES
    VersionsConverge
    PageSettles
CHECK_DEADLOCK FALSE
