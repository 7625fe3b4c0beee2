SPECIFICATION FairSpec
CONSTANTS
    Session = {s1, s2}
    Client = {c1, c2, c3}
    MaxPid = 3
    MaxCalls = 4
    MaxCrashes = 1
    None = None
CHECK_DEADLOCK FALSE
INVARIANT GateSound
PROPERTIES
    StartsHold
    GateSettles
