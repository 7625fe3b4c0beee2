SPECIFICATION FairSpec
CONSTANTS
    Session = {s1, s2, s3}
    Inherited = {s1}
    Request = {r1, r2}
    Concurrency = 1
    MaxPid = 3
    MaxCalls = 2
    MaxFaults = 1
    Mode = {"local", "cloud"}
    None = None

CHECK_DEADLOCK FALSE
INVARIANT PoolAccounted
PROPERTIES
    ImplementsLease
    LeasesEnd
