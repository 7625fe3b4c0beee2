SPECIFICATION Spec
CONSTANTS
    t1 = t1
    Task = {t1}
    Text = {a}
    SendTime = {0, 1}
    Day = 3
    MaxAge = 2
    Horizon = 4
    MCLegacySlots = {4}
    Legacy <- MCLegacy
    Executor = {e1, e2}
    Reported = {}
    Shown = {"submitted"}
    Serialized = TRUE
    MaxEdits = 2
    MaxFaults = 1
    None = None
SYMMETRY Symmetry
CHECK_DEADLOCK FALSE
INVARIANTS
    AtMostOnce
    SendsWhatWasClaimed
    FailedMeansUnsent
PROPERTIES
    SummaryKeepsNewest
    OneCurrentRight
