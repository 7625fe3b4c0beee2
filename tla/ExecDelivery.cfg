SPECIFICATION FairSpec
CONSTANTS
    t1 = t1
    Task = {t1}
    Text = {a}
    SendTime = {0}
    Day = 2
    MaxAge = 1
    Horizon = 4
    MCLegacySlots = {}
    Legacy <- MCLegacy
    Executor = {e1, e2}
    Reported = {1,2}
    Shown = {"submitted"}
    Serialized = FALSE
    MaxEdits = 1
    MaxFaults = 1
    None = None
CHECK_DEADLOCK FALSE
INVARIANT EvidenceHolds
PROPERTIES
    ResultsAreFinal
    EveryRunEnds
