SPECIFICATION PollingSpec
CONSTANTS
    Request = {r1, r2, r3}
    MaxInstalls = 2
    Offered = {"deploy", "cleanup", "reset", "repair"}
    MaxEdits = 4
    MaxConsole = 0
    MaxFaults = 2
    None = None
CHECK_DEADLOCK FALSE
PROPERTIES
    HistoryKept
    PollingSettles
