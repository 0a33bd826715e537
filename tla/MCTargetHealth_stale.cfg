SPECIFICATION FairSpec
CONSTANTS
    MaxCommits = 2
    MaxSessions = 1
    NotifyEveryFailure = FALSE
CHECK_DEADLOCK FALSE
PROPERTIES
    StaleShown
