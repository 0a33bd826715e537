SPECIFICATION FairSpec
CONSTANTS
    MaxCommits = 3
    MaxSessions = 2
    NotifyEveryFailure = FALSE
CHECK_DEADLOCK FALSE
INVARIANTS
    FailureAnnounced
PROPERTIES
    FailureShown
