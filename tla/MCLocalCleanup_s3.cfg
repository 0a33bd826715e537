SPECIFICATION Spec
CONSTANTS
    MaxRevision = 2
    Artifacts = {a1}
    Ops = {o1}
    MaxLoad = 3
    MaxProtected = 0
    MaxReplicas = 0
    MaxLost = 1
CHECK_DEADLOCK FALSE
INVARIANTS
    NothingLost
