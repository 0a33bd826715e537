SPECIFICATION FairSpec
CONSTANTS
    Jobs = {j1, j2}
    NoJob = NoJob
    MaxRetries = 1
CHECK_DEADLOCK FALSE
INVARIANTS
    ExclusiveUpload
    ExpiredStaysGone
    CopyIsTracked
PROPERTIES
    ReplicationImplementsCopy
    ReplicaSettles
    RetryHappens
