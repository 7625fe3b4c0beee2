SPECIFICATION FairSpec
CONSTANTS
    Scan = {s1}
    Syncing = {y1}
    Places = 1
    ScanRequest = {p1, p2}
    RecordRequest = {r1, r2}
    Uid = {u1, u2}
    MaxAccounts = 2
    MaxTasks = 2
    MaxCalls = 3
    MaxFaults = 1
    None = None
CHECK_DEADLOCK FALSE
INVARIANTS
    ScansSound
    RecordsSound
PROPERTIES
    ContactsOnlyGrow
    EveryoneAnswered
