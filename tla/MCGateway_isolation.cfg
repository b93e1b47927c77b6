SPECIFICATION Spec
CONSTANTS
    r1 = r1
    r2 = r2
    s0 = s0
    s1 = s1
    g1 = g1
    Requests <- MCRequests
    Secrets <- MCSecrets
    KeyGroups <- MCGroups
    BootSecret = s0
    MaxKeyId = 2
    SaveFaults = {"torn"}
    KeysAtStart <- MCKeysAtStart
    DayLen = 1
    HourBuckets = 1
    DayBuckets = 1
    RebuildDays = 1
    LogsAtStart <- MCLogsAtStart
    Retention <- MCRetention
    TraceRetention = 1
    Capacity = 1
    Ttl = 1
    CacheOn = TRUE
    Accounts <- MCTwoAccounts
    GroupsOf <- MCGroupsOf
    Convs <- MCConvs
    MayAsk <- MCMayAsk
    StartAt = 1
    MaxNow = 2
    EditedKeys = {1}
    MaxEvents = 1
INVARIANT StrictIsolation
CHECK_DEADLOCK FALSE
