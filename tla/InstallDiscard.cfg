SPECIFICATION Spec
CONSTANTS
    Request = {r1, r2, r3}
    MaxInstalls = 2
    Offered = {"deploy", "cleanup", "reset", "repair", "discard"}
    MaxEdits = 4
    MaxConsole = 1
    MaxFaults = 2
    None = None
CHECK_DEADLOCK FALSE
SYMMETRY Symmetry
INVARIANTS
    OrphansWereDiscarded
    InstalledIsReal
