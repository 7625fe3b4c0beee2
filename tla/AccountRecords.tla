--------------------------- MODULE AccountRecords ---------------------------
(***************************************************************************)
(* core/services/accounts.py, contacts.py and the account side of tasks.py: *)
(* accounts, the contacts read for them in a leased browser, and the tasks  *)
(* bound to an account and one of its contacts.  Deleting an account is a   *)
(* series of statements outside any transaction, and synchronising contacts *)
(* scans for minutes between reading the account and writing.               *)
(***************************************************************************)
EXTENDS Naturals, FiniteSets

CONSTANTS Syncing,     \* session ids of synchronisations
          Lessee, Places, Request, MaxAccounts, MaxCalls, MaxFaults, None,
          Uid,         \* stable ids of contacts
          MaxTasks     \* bound: tasks ever made

VARIABLES leased, made, live, calls, faults,  \* as in AccountScan
          contact, \* the contacts of each account
          task,    \* the tasks
          armed,   \* tasks whose schedule job was last queued to be enabled
          job,     \* the requests in progress
          raced    \* history: tasks bound or enabled while their account was being
                   \* deleted, those written between the read and the write of a
                   \* deletion's enqueue, and those whose deletion ended with the server

vars == <<leased, made, live, calls, faults, contact, task, armed, job, raced>>

Pool == INSTANCE BrowserLease WITH Session <- Lessee, Limit <- Places

Account == 1..MaxAccounts
Task == 1..MaxTasks
NoTask == [acct |-> None, uid |-> None, on |-> FALSE]
Tasks == {t \in Task : task[t] # NoTask}
Steps == {"scan", "release", "merge", "create", "update", "save", "enable",
          "unbind", "sync", "enqueue", "drop"}
Idle == [pc |-> "idle", a |-> 0, t |-> 0, on |-> FALSE, uids |-> {}, tasks |-> {}]

TypeOK ==
    /\ contact \in [Account -> SUBSET Uid]
    /\ task \in [Task -> [acct : Account \union {None}, uid : Uid, on : BOOLEAN] \union {NoTask}]
    /\ armed \subseteq Tasks /\ raced \subseteq Task
    /\ job \in [Request -> [pc : Steps, a : Account \union {None}, t : Task \union {0}, on : BOOLEAN,
                            uids : SUBSET Uid, tasks : SUBSET Task] \union {Idle}]
    /\ \A a \in Account \ live : contact[a] = {}
    /\ \A t \in Tasks : task[t].acct \in live \union {None}

\* An account with contacts and a task may exist.
RecordsInit ==
    /\ contact = [a \in Account |-> IF a \in live THEN {CHOOSE u \in Uid : TRUE} ELSE {}]
    /\ task = [t \in Task |-> IF t = 1 /\ 1 \in live
                              THEN [acct |-> 1, uid |-> CHOOSE u \in Uid : TRUE, on |-> TRUE] ELSE NoTask]
    /\ armed = Tasks
    /\ job = [r \in Request |-> Idle] /\ raced = {}

-----------------------------------------------------------------------------
Called == calls < MaxCalls /\ calls' = calls + 1
Fails == faults < MaxFaults /\ faults' = faults + 1

At(r, step) == job[r].pc = step
Holds(r, step, a, t, on, uids, tasks) ==
    job' = [job EXCEPT ![r] = [pc |-> step, a |-> a, t |-> t, on |-> on, uids |-> uids, tasks |-> tasks]]
Begin(r, step, a, t, uids, tasks) == Holds(r, step, a, t, FALSE, uids, tasks)
Go(r, step) == job' = [job EXCEPT ![r].pc = step]
Answer(r) == job' = [job EXCEPT ![r] = Idle]
Bound(a) == {t \in Tasks : task[t].acct = a}
Deleting(a) == \E r \in Request : job[r].a = a /\ job[r].pc \in {"unbind", "sync", "enqueue", "drop"}
Armed(t, on) == IF on THEN armed \union {t} ELSE armed \ {t}

\* A deletion has read the task and not yet written its schedule.
ReadBefore(t) == \E r \in Request : At(r, "enqueue") /\ job[r].t = t
Raced(t, a) == raced' = IF Deleting(a) \/ ReadBefore(t) THEN raced \union {t} ELSE raced

\* The admission lock is held from the read of a task to the commit, and with it
\* the lock of the task's schedule job; a deletion takes only the latter, and
\* only when it writes a schedule.
Admitting(q) == job[q].pc \in {"save", "enable"}
Unlocked == \A q \in Request : ~Admitting(q)
JobFree(t) == \A q \in Request : Admitting(q) => job[q].t # t

\* Cookies pasted by hand make an account at once.
CreateAccount ==
    /\ Called /\ made + 1 \in Account
    /\ made' = made + 1 /\ live' = live \union {made + 1}
    /\ UNCHANGED <<leased, faults, contact, task, armed, job, raced>>

-----------------------------------------------------------------------------
(* sync_contacts                                                            *)

\* The account is read and a browser leased under an id of its own, else 400.
CallSync(r, a, s) ==
    /\ Called /\ At(r, "idle") /\ a \in live
    /\ \A q \in Request : ~At(q, "scan") /\ ~At(q, "release")
    /\ Pool!Grant(s)
    /\ Begin(r, "scan", a, 0, {}, {})
    /\ UNCHANGED <<made, live, faults, contact, task, armed, raced>>

\* The visible contacts with one id each; none, or no browser, is an error.
ScanContacts(r) ==
    /\ At(r, "scan")
    /\ \E found \in SUBSET Uid :
         /\ leased \intersect Syncing = {} => found = {}
         /\ job' = [job EXCEPT ![r].pc = "release", ![r].uids = found]
    /\ UNCHANGED <<leased, made, live, calls, faults, contact, task, armed, raced>>

\* The pool or the platform takes an old browser.
TakenSync(s) ==
    /\ Pool!Withdraw(s)
    /\ UNCHANGED <<made, live, calls, faults, contact, task, armed, job, raced>>

\* finally: the browser is destroyed, a failure of that only logged.
ReleaseSync(r, s) ==
    /\ At(r, "release")
    /\ \/ (IF s \in leased THEN Pool!Withdraw(s) ELSE UNCHANGED leased) /\ UNCHANGED faults
       \/ UNCHANGED leased /\ Fails
    /\ IF job[r].uids = {} THEN Answer(r) ELSE Go(r, "merge")
    /\ UNCHANGED <<made, live, calls, contact, task, armed, raced>>

\* Mutant: the new list replaces the old one.
Replaced(old, found) == found
Merged(old, found) == old \union found

\* The account is locked, or found to be gone by now.
Merge(r) ==
    LET a == job[r].a
    IN /\ At(r, "merge") /\ Answer(r)
       /\ contact' = IF a \in live THEN [contact EXCEPT ![a] = Merged(@, job[r].uids)] ELSE contact
       /\ UNCHANGED <<leased, made, live, calls, faults, task, armed, raced>>

-----------------------------------------------------------------------------
(* Tasks and their account.                                                 *)

\* Mutant: any contact will do.
AnyTarget(a, u) == TRUE
TargetBelongs(a, u) == u \in contact[a]

\* The account and the target are looked at before the transaction.
CallCreate(r, a, u) ==
    /\ Called /\ At(r, "idle") /\ a \in live /\ TargetBelongs(a, u)
    /\ Begin(r, "create", a, 0, {u}, {})
    /\ UNCHANGED <<leased, made, live, faults, contact, task, armed, raced>>

CallUpdate(r, t, a, u) ==
    /\ Called /\ At(r, "idle") /\ t \in Tasks /\ a \in live /\ TargetBelongs(a, u)
    /\ Begin(r, "update", a, t, {u}, {})
    /\ UNCHANGED <<leased, made, live, faults, contact, task, armed, raced>>

Refers(a) == a \in live

\* The row refers to the account: if that is gone the database refuses it,
\* as the quota refuses more than MaxTasks.
CommitCreate(r) ==
    LET a == job[r].a
        t == Cardinality(Tasks) + 1
    IN /\ At(r, "create") /\ Unlocked /\ Answer(r)
       /\ \/ /\ Refers(a) /\ t \in Task
             /\ \E u \in job[r].uids : task' = [task EXCEPT ![t] = [acct |-> a, uid |-> u, on |-> TRUE]]
             /\ armed' = armed \union {t} /\ Raced(t, a)
          \/ ~(Refers(a) /\ t \in Task) /\ UNCHANGED <<task, armed, raced>>
       /\ UNCHANGED <<leased, made, live, calls, faults, contact>>

\* Inside the transaction the row is read under the locks, ...
ReadUpdate(r) ==
    /\ At(r, "update") /\ Unlocked
    /\ Holds(r, "save", job[r].a, job[r].t, task[job[r].t].on, job[r].uids, {})
    /\ UNCHANGED <<leased, made, live, calls, faults, contact, task, armed, raced>>

\* ... and all of it is saved, enabled as it was read: a deletion that unbound
\* and disabled the task in between, which no lock keeps out, is overwritten.
\* From the save to the commit the row itself is locked.
SaveUpdate(r) ==
    LET a == job[r].a
        t == job[r].t
    IN /\ At(r, "save") /\ Answer(r)
       /\ \/ /\ Refers(a)
             /\ \E u \in job[r].uids : task' = [task EXCEPT ![t] = [acct |-> a, uid |-> u, on |-> job[r].on]]
             /\ armed' = Armed(t, job[r].on) /\ Raced(t, a)
          \/ ~Refers(a) /\ UNCHANGED <<task, armed, raced>>
       /\ UNCHANGED <<leased, made, live, calls, faults, contact>>

MayEnable(t) == task[t].acct # None /\ TargetBelongs(task[t].acct, task[t].uid)

\* The task is read and looked at under the locks, ...
ReadEnable(r, t, on) ==
    /\ Called /\ At(r, "idle") /\ Unlocked /\ t \in Tasks /\ (on => MayEnable(t))
    /\ Holds(r, "enable", task[t].acct, t, on, {}, {})
    /\ UNCHANGED <<leased, made, live, faults, contact, task, armed, raced>>

\* ... and only its switch is saved, whatever account it has by now.
SaveEnable(r) ==
    LET t == job[r].t
    IN /\ At(r, "enable") /\ Answer(r)
       /\ task' = [task EXCEPT ![t].on = job[r].on]
       /\ armed' = Armed(t, job[r].on) /\ Raced(t, job[r].a)
       /\ UNCHANGED <<leased, made, live, calls, faults, contact>>

-----------------------------------------------------------------------------
(* delete_owned                                                             *)

\* The account and the ids of its tasks are read, ...
CallDelete(r, a) ==
    /\ Called /\ At(r, "idle") /\ a \in live
    /\ Begin(r, "unbind", a, 0, {}, Bound(a))
    /\ UNCHANGED <<leased, made, live, faults, contact, task, armed, raced>>

Unbound(x) == [x EXCEPT !.acct = None, !.on = FALSE]

\* ... the tasks it has by now are unbound and disabled by one UPDATE, ...
Unbind(r) ==
    LET hit == Bound(job[r].a)
    IN /\ At(r, "unbind") /\ Go(r, "sync")
       /\ task' = [t \in Task |-> IF t \in hit THEN Unbound(task[t]) ELSE task[t]]
       /\ raced' = raced \union {t \in hit : ReadBefore(t)}
       /\ UNCHANGED <<leased, made, live, calls, faults, contact, armed>>

\* ... then for each listed task enqueue reads the task, ...
ReadOne(r) ==
    /\ At(r, "sync")
    /\ \/ \E t \in job[r].tasks : Holds(r, "enqueue", job[r].a, t, task[t].on, {}, job[r].tasks)
       \/ job[r].tasks = {} /\ Go(r, "drop")
    /\ UNCHANGED <<leased, made, live, calls, faults, contact, task, armed, raced>>

\* ... waits for its schedule job and writes the schedule from what it read, ...
WriteOne(r) ==
    LET t == job[r].t
    IN /\ At(r, "enqueue") /\ JobFree(t)
       /\ armed' = Armed(t, job[r].on)
       /\ Begin(r, "sync", job[r].a, 0, {}, job[r].tasks \ {t})
       /\ UNCHANGED <<leased, made, live, calls, faults, contact, task, raced>>

\* ... and the row is deleted: contacts go with it, bound tasks lose it.
Drop(r) ==
    LET a == job[r].a
    IN /\ At(r, "drop") /\ Answer(r)
       /\ live' = live \ {a} /\ contact' = [contact EXCEPT ![a] = {}]
       /\ task' = [t \in Task |-> IF t \in Bound(a) THEN [task[t] EXCEPT !.acct = None] ELSE task[t]]
       /\ UNCHANGED <<leased, made, calls, faults, armed, raced>>

RecordsDie ==
    /\ job' = [r \in Request |-> Idle]
    /\ raced' = raced \union UNION {job[r].tasks : r \in Request}
    /\ UNCHANGED <<contact, task, armed>>

HandleRecords(r) ==
    \/ ScanContacts(r) \/ (\E s \in Syncing : ReleaseSync(r, s)) \/ Merge(r)
    \/ CommitCreate(r) \/ ReadUpdate(r) \/ SaveUpdate(r) \/ SaveEnable(r)
    \/ Unbind(r) \/ ReadOne(r) \/ WriteOne(r) \/ Drop(r)

RecordsNext ==
    \/ CreateAccount
    \/ \E s \in Syncing : TakenSync(s)
    \/ \E r \in Request :
         \/ \E a \in Account :
              \/ \E s \in Syncing : CallSync(r, a, s)
              \/ \E u \in Uid : CallCreate(r, a, u) \/ \E t \in Task : CallUpdate(r, t, a, u)
              \/ CallDelete(r, a)
         \/ \E t \in Task, on \in BOOLEAN : ReadEnable(r, t, on)
         \/ HandleRecords(r)

-----------------------------------------------------------------------------
(* Properties.                                                              *)

\* An enabled task has an account, unless it was bound to one that was being
\* deleted, or enabled while it was: delete_owned disables what it unbinds, an
\* edit that read the row before that saves an account with it, and enabling
\* looks again.
EnabledHasAccount ==
    \A t \in Tasks \ raced : task[t].on => task[t].acct # None

\* A task's contact belongs to its account whatever runs between the check and
\* the write: contacts of an account are never taken away while it lives.
TargetStaysKnown ==
    \A t \in Tasks : task[t].acct # None => task[t].uid \in contact[task[t].acct]

\* When nothing is in progress the schedule was last told what the task says,
\* unless the task was written between the read and the write of an enqueue of
\* a deletion (task_scheduling.py:88-92).
ScheduleFollowsTask ==
    (\A r \in Request : job[r] = Idle) => \A t \in Tasks \ raced : (t \in armed) = task[t].on

\* "Merge ... without deleting others": a synchronisation, also a failed one,
\* loses no contact of an account that remains.
ContactsOnlyGrow == [][\A a \in live \intersect live' : contact[a] \subseteq contact'[a]]_vars

\* What accounts.py:73 says: deleting an account unbinds and disables its tasks.
DeletedIsDisabled == \A t \in Tasks : task[t].on => task[t].acct # None
=============================================================================
