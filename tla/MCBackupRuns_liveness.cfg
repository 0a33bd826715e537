SPECIFICATION FairSpec
CONSTANTS
    Targets = {t1}
    Runs = {r1}
    Contents = {c1}
    Artifacts = {a1, a2}
    NoRun = NoRun
    ChangedOnly = TRUE
CHECK_DEADLOCK FALSE
INVARIANTS
    RevisionFilesStored
PROPERTIES
    ActiveRunEnds
    DueTargetServed
