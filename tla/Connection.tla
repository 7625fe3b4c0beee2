----------------------------- MODULE Connection -----------------------------
(***************************************************************************)
(* core/db/connection.py: the one database connection of a process, opened *)
(* by the first caller of a with_db method and closed by the last, with a  *)
(* reference count; a long-running service pins it with a reference of its *)
(* own.  Everything is one event loop: a step runs up to the next await.   *)
(***************************************************************************)
EXTENDS Integers, FiniteSets

CONSTANTS
    Client,     \* concurrent callers of with_db methods
    Service     \* open_persistent .. close_persistent

User == Client \union {Service}

VARIABLES
    ready,      \* _db_ready
    refs,       \* _conn_refs
    conn,       \* the connections of Tortoise
    at,         \* where each user is
    pinning     \* the process is a service

connection == <<ready, refs, conn, at, pinning>>

ConnectionTypeOK ==
    /\ ready \in BOOLEAN /\ refs \in Nat /\ pinning \in BOOLEAN
    /\ conn \in {"closed", "open", "closing"}
    /\ at \in [User -> {"out", "connecting", "in", "closing"}]

ConnectionInit ==
    /\ ready = FALSE /\ refs = 0 /\ conn = "closed"
    /\ at = [u \in User |-> "out"]
    /\ pinning \in BOOLEAN

Inside == {u \in User : at[u] = "in"}

Counted(u) == refs + 1

\* wrapper and open_persistent: _ensure_connected, then one reference more.
Enter(u) ==
    /\ at[u] = "out"
    /\ u # Service => (pinning => at[Service] = "in")
    /\ IF ready
       THEN /\ refs' = Counted(u)
            /\ at' = [at EXCEPT ![u] = "in"]
       ELSE /\ at' = [at EXCEPT ![u] = "connecting"]
            /\ UNCHANGED refs
    /\ UNCHANGED <<ready, conn, pinning>>

\* Under _conn_lock: who finds it still not ready initialises Tortoise.
Connect(u) ==
    /\ at[u] = "connecting"
    /\ IF ready THEN UNCHANGED <<ready, conn>> ELSE ready' = TRUE /\ conn' = "open"
    /\ refs' = Counted(u)
    /\ at' = [at EXCEPT ![u] = "in"]
    /\ UNCHANGED pinning

\* Tortoise.init raises: the caller was not counted yet.
ConnectFails(u) ==
    /\ at[u] = "connecting" /\ ~ready
    /\ at' = [at EXCEPT ![u] = "out"]
    /\ UNCHANGED <<ready, refs, conn, pinning>>

\* _release_connected up to its await.  The count is down before the connection
\* is closed, and _db_ready is still set.
Leave(u) ==
    /\ at[u] = "in"
    /\ refs' = IF refs <= 1 THEN 0 ELSE refs - 1
    /\ IF refs <= 1
       THEN conn' = "closing" /\ at' = [at EXCEPT ![u] = "closing"]
       ELSE at' = [at EXCEPT ![u] = "out"] /\ UNCHANGED conn
    /\ UNCHANGED <<ready, pinning>>

\* Mutant: the flag stays up.
StillReady == TRUE

NotReady == FALSE

\* close_connections returns.  Connections that another caller opened meanwhile
\* may or may not be among those that were closed.
Closed(u) ==
    /\ at[u] = "closing"
    /\ conn' \in IF conn = "open" THEN {"open", "closed"} ELSE {"closed"}
    /\ ready' = NotReady
    /\ at' = [at EXCEPT ![u] = "out"]
    /\ UNCHANGED <<refs, pinning>>

-----------------------------------------------------------------------------

\* Every caller is counted for as long as it is inside, and only then, however
\* entering, failing and closing interleave.
CountIsExact == refs = Cardinality(Inside)

\* While the service holds its reference, every call finds the connection open
\* (open_persistent, connection.py:85).
PinnedIsWarm == at[Service] = "in" => ready /\ conn = "open"

\* Whatever overlapped, once everybody is out nothing is left behind: the
\* connection is closed and the next caller opens it anew.
LastOneCloses == (\A u \in User : at[u] = "out") => ~ready /\ conn = "closed" /\ refs = 0

\* The docstring says that counting supports concurrent calls and that none
\* closes the connection early (connection.py:5): whoever is inside a method
\* has an open connection.
ConcurrentCallsKeepConnection == \A u \in User : at[u] = "in" => conn = "open"
=============================================================================
