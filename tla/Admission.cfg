SPECIFICATION VisitedSpec
CONSTANTS
    User = {u1}
    MaxTasks = 3
    Minute = {0, 2, 4}
    Day = 5
    Gap = 2
    MaxLimit = 2
    MaxSaved = 3
    Visit = {v1, v2}
    Serialized = FALSE
    MaxEdits = 4
    MaxFaults = 1
    None = None
CHECK_DEADLOCK FALSE
INVARIANTS
    Spacing
    NeverBeyondEntitlement
PROPERTY QuotaRestored
