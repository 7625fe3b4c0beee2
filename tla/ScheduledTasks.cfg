SPECIFICATION AllSpec
CONSTANTS
    Part = {"tasks"}
    Task = {}
    SendTime = {m1}
    Worker = {}
    Caller = {}
    MaxEdits = 0
    MaxFaults = 0
    Triggered = {}
    Time = {}
    Foreign = {}
    Request = {}
    Loop = Loop
    MaxTriggerEdits = 0
    MaxTriggerFaults = 0
    Client = {c1, x1}
    Executor = {x1}
    Service = Service
    None = None
    MinutesPerHour = 4
    HoursPerDay = 2
    DaysPerMonth = 2
    MonthsPerYear = 2
    DaysPerWeek = 4
    Lookahead = 40
    MaxTriggers = 6
    Exprs <- MCExprs
    NewExprs <- MCNewExprs
    MaxTaskEdits = 2
    MaxTaskFaults = 1
CHECK_DEADLOCK FALSE
INVARIANTS
    ConnectionCounted
    TriggersFit
PROPERTY CallsEnd
