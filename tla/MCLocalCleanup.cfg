SPECIFICATION Spec
CONSTANTS
    MaxRevision = 3
    Artifacts = {a1}
    Ops = {o1, o2}
    MaxLoad = 4
    MaxProtected = 1
    MaxReplicas = 2
    MaxLost = 1
SYMMETRY Symmetry
CHECK_DEADLOCK FALSE
INVARIANTS
    BytesKept
    Readable
    HasCopy
    CopyIsTracked
    LocalChain
PROPERTIES
    RevisionInUseKept
