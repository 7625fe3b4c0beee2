SPECIFICATION Spec
CONSTANTS
    Process = {"spark-web"}
    Name = {n1, n2}
    Address = {a1, a2}
    Invite = {i1}
    Pending = {p1, p2}
    Request = {r1, r2}
    Client = {c1, c2}
    MAX_ATTEMPTS = 1
    MaxSends = 2
    MaxRows = 2
    User = {}
    Scan = {}
    Code = {}
    Worker = {}
    MaxAuthFaults = 0
    Event = {}
    Notifier = {}
    Delays = 0
    MaxTries = 0
    MaxMailFaults = 0
    Task = {}
    MaxEdits = 0
    MaxSparkFaults = 0
    None = None
    Gone = Gone
    Unbound = Unbound
SYMMETRY Symmetry
CHECK_DEADLOCK FALSE
INVARIANTS
    AddressesUnique
    InviteSpentOnce
    RequestsBounded
