SPECIFICATION FairSpec
CONSTANTS
    Artifacts = {a1}
    Manifest = Manifest
    MaxFaults = 2
    MaxHarm = 1
CHECK_DEADLOCK FALSE
INVARIANTS
    ConflictMeansForeign
    NoFalseAlarm
PROPERTIES
    TransferImplementsCopy
    ManifestBrackets
    FinalNeverReplaced
    RetryCompletes
