SPECIFICATION Spec
CONSTANTS
    Process = {"spark-auth", "spark-notifier", "spark-worker"}
    Name = {}
    Address = {}
    Invite = {}
    Pending = {}
    Request = {}
    Client = {}
    MAX_ATTEMPTS = 0
    MaxSends = 1
    MaxRows = 0
    Unbound = Unbound
    User = {u1, u2}
    Scan = {1, 2}
    Code = {k1}
    Worker = {w1}
    MaxAuthFaults = 1
    Event = {e1}
    Notifier = {n1, n2}
    Delays = 4
    MaxTries = 6
    MaxMailFaults = 2
    Task = {1}
    MaxEdits = 3
    MaxSparkFaults = 1
    None = None
    Gone = Gone
CHECK_DEADLOCK FALSE
INVARIANTS
    LoginSound
    MailedOnce
    SendingSound
PROPERTY EndsOnce
