SPECIFICATION Spec
CONSTANTS
    HostKeySet = {k1, k2}
    FileKeys = {k1}
    Connectors = {c1, c2}
    Processes = {p1, p2}
    Passwords = {s1}
    DownloadKey = dk
    Assignees = {t1, t2}
    Plain = pl
    SiaeAuto = sa
    SiaeLegacy = sl
    HistoryFiles = {f1, f2}
    Storages = {d1, d2}
    MaxBackup = 3
    MaxTick = 4
    MaxCleanups = 2
    DayTicks = 1
    WeekDays = 2
    MonthDays = 3
    LocalPolicies <- MCLocalPolicies
    RemotePolicies <- MCRemotePolicies
    PackageJobs = {j1, j2}
    Lifetime = 1
    MaxClock = 3
    MaxExports = 2
    FullSize = 2
    AuditJobs = {u1, u2}
    DayLen = 4
    Before = 0
    After = 2
    Change = 3
    MaxJitter = 1
    Intervals <- MCIntervals
    Backoff <- MCBackoff
    MaxRetries = 2
    MaxTime = 6
INVARIANTS
    FirstTrustOnce
    SecretsReadable
    NoDriverDisabledInUse
    DeletionIsWhole
    
    OfferIsGood
    LeftAsFound
    CollectedWhole
    AuditTold
    DueSlotIsFresh
PROPERTIES
    NextRunInFuture
CHECK_DEADLOCK FALSE
