SPECIFICATION AllSpec
CONSTANTS
    Part = {"queue", "triggers"}
    Task = {t1}
    SendTime = {m1, m2}
    Worker = {w1, w2}
    Caller = {c1}
    None = None
    MaxEdits = 3
    MaxFaults = 2
    Triggered = {t1, t2}
    Time = {m1, m2}
    Foreign = {f1}
    Request = {r1}
    Loop = Loop
    MaxTriggerEdits = 2
    MaxTriggerFaults = 1
    Client = {}
    Service = Service
    Exprs = {}
    NewExprs = {}
    Executor = {}
    MaxTaskEdits = 0
    MaxTaskFaults = 0
    MinutesPerHour = 1
    HoursPerDay = 1
    DaysPerMonth = 1
    MonthsPerYear = 1
    DaysPerWeek = 1
    Lookahead = 1
    MaxTriggers = 1
CHECK_DEADLOCK FALSE
INVARIANTS
    GateConfirmed
    AgreementUnlessOverlapped
PROPERTIES
    DeletionSticks
    Converges
    TriggersHold
