# Verification of DouYinSparkFlowServerless

TLA+ models of the parts of this program where orderings, crashes and lost answers decide
whether it is right, the TLC configurations that check them on small instances, and TLAPS proofs
of the most important results for every instance. Paths below are relative to the repository;
`spark_console/` stands for `tmpcode/DouYinSparkFlow/spark_console/`.

## What the program does

A user stores a *spark task*: an account, a friend, a text and a time of day. Once a day, at that
time, one message must go out. Nothing runs permanently: a scheduling platform (EventBridge, a
crontab or the Windows scheduler) fires an event, an executor asks the API for permission,
drives a remote browser and reports. The message cannot be taken back, and neither the platform
nor the browser takes part in a database transaction. From this follow the hard parts. The
repository also holds the predecessor, a web console and three other permanently running processes
that do the same with a database as their queue.

## Inventory

| Component | State | Operations | Talks to | Hard because |
|---|---|---|---|---|
| Schedule queue (`core/services/task_scheduling.py`) | `ScheduleJob` (revision, desired state, delete intent, lease, retry clock), `TaskSchedule`, `ScheduledTask` (the projection executions are admitted by) | enqueue, process_job, reconcile, sync_task, delete_task | platform by remote call; task and account services call it | remote call between two transactions; leases overrun; writes land late; crashes between transactions |
| Trigger back ends (`core/task/dispatcher.py`) | crontab, Windows tasks, event sources | register, unregister | platform | unlocked read-modify-write; update, then create |
| Execution (`core/services/executions.py`) | `TaskRun`, `ExecutionClaim`, `ExecutionEvidence` | claim, begin_send, finish, record_receipt, expire_runs | executors over HTTP | events delivered twice, answers lost, requests served late, edits between claim and send |
| Executor (`core/task/run.py`, `core/handlers/douyin_spark.py`, `core/api_client.py`) | one run in local variables | fetch, begin_send, press Enter, confirm, report | internal API, browser | may crash anywhere; must never press Enter twice |
| Task admission (`core/services/tasks.py`, `task_capacity.py`) | `SparkTask`, `TaskQuotaGrant`, `TaskQuotaPolicy` | create, set_enabled, update_owned, delete_owned; limit, slot check, reconcile_user, grants | queue; pages call reconcile_user | check and write must be one; pauses and quota changes take no lock |
| Installation (`core/services/installation.py`) | one `Installation` row, system configuration | deploy, refresh, repair_credentials, cleanup, reset, discard_unconfirmed | stack service by remote call | answers lost after the effect; stale queries |
| Browser pool (`core/browser/`) | `BrowserInstance` rows, processes | acquire, get, destroy, reaper | operating system, function service | check before slow creation; reaper against reuse |
| Browser gate (`aliyunFC/cloakbrowser/app`) | one Chromium per function instance, its lock, counted relays | start, query, relay, supervise, shut down | Chromium, pool | counted too late, switched under a lock, forgotten processes |
| Account scan (`core/services/account_scan.py`) | none but the remote page | start, poll, verify, resend, refresh, cancel | browser pool | requests overlap; the pool takes the browser away |
| Accounts and contacts (`core/services/accounts.py`, `contacts.py`) | `DouyinAccount`, `DouyinContact` | add, delete, synchronise; binding of tasks | browser pool, queue | a deletion of several statements; a scan of minutes between read and write |
| Connection (`core/db/connection.py`) | connection, reference count | enter, leave, open_persistent, close_persistent | all | closing while another caller counts itself in |
| Generic tasks and cron (`core/task/crud.py`, `cron_utils.py`) | `ScheduledTask` of other categories | create, update, set_enabled, mark_running, mark_result, delete; fields, next time, Windows triggers | connection, internal API | columns saved from outdated rows; numeric edges of cron |
| Users, sessions, invitations (`core/services/`) | users, web sessions, invites | login, invite, disable, delete | cascades into tasks | check-then-act, cascades |
| Predecessor: login by QR code (`spark_console/services/scan_sessions.py`, `auth_worker.py`, `auth_scanner.py`) | `DouyinLoginSession`, `DouyinLoginInput`, one warm page | request, claim, publish, submit code, cancel, complete, expire | console, sending worker | one slot for everybody; cancel, deadline, stop and login race |
| Predecessor: mails (`spark_console/services/notifications.py`, `notifier.py`) | `NotificationEvent` | enqueue, claim, send, mark, retry, pause, delete | mail provider | no transaction while sending; stale claims are taken over |
| Predecessor: sending worker (`spark_console/worker.py`, `scheduler.py`, `executor.py`, `services/tasks.py`) | `SparkTask`, `TaskRun`, `DouyinAccount` | claim, execute, record, recover; console edits | mails, login | interrupted runs, retries, quota and pauses meanwhile |
| Predecessor: registration (`spark_console/services/email_verification.py`, `invites.py`, `users.py`) | users, invites, pending registrations, requests | start, resend, verify, bind, reset; revoke, delete | mails | handlers read before they write |
| Recipient selection, encryption, CLI, runner function, panel, notes | - | - | - | see "Not modelled" |

What makes each right, in a sentence: the queue never lets a task be executed on a state the
platform has not confirmed, never undoes a deletion, and always ends in agreement, also in a
crontab that it shares; an occurrence is attempted at most once, with the content it was claimed for,
and its result only rises with evidence; enabled send times keep their distance and no quota is
exceeded; an installation never loses a stack it created; the browsers in use are those the table
names or ways of escape that are known, no place is kept for ever, and a start gets its own; a login makes one account, a
synchronisation loses no contact; the count of the connection is exact; in the predecessor a message
is repeated only in the ways that are named, a mail never, and an invitation is spent once.

`PROJECT.json` lists the hazards at their lines with the properties that cover them.

## Modules

| Module | Models | Used by |
|---|---|---|
| `ScheduleQueue` | the queue, its writers, workers and the platform | `Scheduling` |
| `TriggerBackends` | crontab, Windows tasks and event sources under several processes | `Scheduling` (instance `T`) |
| `SendRight` | abstract: of each plan, one right to send, for what is wanted when it is given | `Execution` (refined) |
| `Execution` | server side of an execution, executors, time, receipts | `MCExecution`, `Execution_proofs` |
| `TaskAdmission` | writers of tasks under and outside the admission lock, quota, reconcile_user | `MCTaskAdmission`, `TaskAdmission_proofs` |
| `Installation` | requests of administrators, the installation record, resource stacks at ROS | `MCInstallation`, `Installation_proofs` |
| `BrowserLease` | abstract: which sessions hold one of the scarce browsers | `BrowserPool` (refined), `Accounts` parts |
| `BrowserPool` | manager, both back ends, reaper | `MCBrowserPool`, `BrowserPool_proofs` |
| `BrowserGate` | supervisor, watchdog and connections of one function instance | `MCBrowserGate`, `BrowserGate_proofs` |
| `AccountScan`, `AccountRecords` | login scans; accounts, contacts and the tasks bound to them | `Accounts` |
| `Accounts` | the two composed over one leased pool and one server | `MCAccounts`, `Accounts_proofs` |
| `Connection` | the reference-counted connection | `ScheduledTasks` |
| `CronUtils` | pure: fields, matching, next time, Windows triggers | `Scheduling` |
| `ScheduledTasks` | the generic task table and its executor, through the connection | `Scheduling` (instance `C`) |
| `Scheduling` | the queue, its back ends and the task table beside each other | `MCScheduling`, `Scheduling_proofs` |
| `ScanSessions`, `AuthWorker` | the predecessor's table of sessions; its login worker and routes | `Console` (instance `A`) |
| `Outbox` | the predecessor's mails | `Console` (instance `O`) |
| `SparkWorker` | the predecessor's sending worker and console | `Console` (instance `W`) |
| `Registration` | the predecessor's invitations, registrations and requests | `Console` (instance `G`) |
| `Console` | the predecessor's four processes | `MCConsole`, `Console_proofs` |

The `MC*` modules add what a TLC run needs (symmetry sets, concrete definitions of constants);
every value is given in the `.cfg`. Operators marked "Mutant" in the modules are plausible bugs,
used to see that each property can fail; the specifications do not refer to them.

### ScheduleQueue

| Variable | Code |
|---|---|
| `row` | `SparkTask`: enabled and send time; `None` when there is no row |
| `job` | `ScheduleJob`; `holder` is the lease token, `live` is `lease_until > now`, `due` is `next_attempt_at <= now` |
| `sync` | `TaskSchedule.state` |
| `proj` | `ScheduledTask` |
| `remote` | the trigger the platform holds |
| `worker` | local variables of a running `process_job` (revision, desired, deleting, outcome) |
| `call` | a request or scan between its own write and `enqueue` |
| `late` | remote writes that outlive the call which issued them |
| `acked`, `overlapped`, `suspect` | history: revisions confirmed; whether the last write was raced; whether a late result was noticed |

A database transaction is one action. `Begin` is the first transaction of `process_job`,
`Dispatched`/`DispatchFails` the remote call, and `LateResult`, `StaleResult`, `FailedResult`,
`SyncedResult` and `DeletedResult` are the five ways through its second transaction. Writers that
enqueue in the same transaction (`Create`, `SetEnabled`, `UpdateTime`) are one action; those
that pause first and enqueue later (`delete_task`, deletion of an account, quota pauses) are
`PauseFirst` followed by `EnqueueOwed`, with `CallerCrash` in between. `CascadeDelete` is the
deletion of a user, which removes rows below the queue. A timed-out call and a crashed worker may
leave a write that lands at any later moment (`Land`).

Abstractions: the cron expression is the time; the constant part of the desired state (task id,
category, target environment) is left out; the length of the backoff is, too. Admission
(`TaskAdmission`) is not part of this module: any writer may write. `enqueue` is one action, although it reads the task before it
locks the job; `AccountRecords` has the two apart, and its `ScheduleFollowsTask` says what that can cost. Each trigger is independent
here, which holds for event sources and for `schtasks`; the crontab is in `TriggerBackends`.

### TriggerBackends and Scheduling

| Variable | Code |
|---|---|
| `platform` | `target_env` of the deployment: crontab, schtasks or event sources |
| `want`, `due`, `lease` | `ScheduleJob.desired`, `next_attempt_at <= now`, the holder of the lease |
| `crontab` | the lines of the file: blocks of tasks and lines of others |
| `source` | the event source or Windows task of each task |
| `worker` | calls in progress with the listing they read |

What the queue takes as one remote call is here its steps: the crontab is listed, changed and
written back as a whole, so that two processes working on different tasks lose each other's
block; an event source is updated, and created when the platform does not know it. What the back ends need of the
queue (leases, due times, repeated attempts and the reconciliation every ten minutes) is kept, the
revisions are not. `Scheduling` puts the queue, the back ends and the task table (`ScheduledTasks`, whose `row` and
`call` it names `entry` and `method`, as it names the `worker` of the back ends `pusher`) into one specification:
`about` is chosen initially among `Part` and only that part moves, since the queue sees of the platform only the
trigger it wrote and the answer, and the task table sees neither. `TriggersHold` consists of `TriggersKept`, that is
the types and `OthersKept` (a write from an up-to-date listing changes one block), and `TriggersConverge` (once edits
and faults end, each trigger is what its task asks for).

### Execution

| Variable | Code |
|---|---|
| `clock` | the current minute; `started` and occurrences are minutes too |
| `task` | the content a message is made of: time and text; `None` when the row is gone |
| `gate` | `_active`: enabled, owner active, schedule synced |
| `run` | `TaskRun` with its claim and evidence, by task and occurrence |
| `summary` | `ScheduledTask.status`, with the occurrence it is about |
| `executor` | one `run_task` each: how far it is, the content it fetched, what it will report |
| `asked`, `results` | begin_send and finish requests that were sent and not yet served; a request stays in the network after its caller stopped waiting |
| `open` | finish transactions between their reads and their write (read committed only) |
| `sent`, `posted` | history of the page: Enter pressed, message really posted |

`Claim` contains the window check, the check for older runs and the creation of the run, its
token and its evidence row. `BeginSend` is a call that is answered; `BeginSendTimesOut` one whose
answer is lost, while `ServeSending` may still serve it. `Report` puts the result on the wire and
`ServeFinish` takes it; the request may be served more than once. `Expire` is one of the two
updates of `expire_runs` over any part of what is overdue, since the ids were selected before.
With `Serialized = FALSE` the finish transaction is split (`FinishReads`, `FinishWrites`), holding
the run's row lock, as under PostgreSQL's read committed isolation.

Abstractions: the content stands for account, recipient and text together, as the fingerprint
does; tokens are not guessed, so a request carries its run; observed times of receipts are not
compared (the model accepts more receipts than the code). No adapter calls record_receipt today
(`executions.py:148`); `Reported` gives the levels an adapter could report, and is the smallest
set that exercises the transitions.

`GivesOneRight` is the refinement of `SendRight`: what is wanted of a task is its content while its gate is open,
a right is in the hands of an executor between begin_send and Enter, and a plan is spent when it is neither still to be
claimed nor preparing, or when an older version acted in its window. A right may outlive an edit or a deletion that
comes after begin_send; no right is given on what was wanted before. `OneCurrentRight` adds `GrantsAreCurrent`, the time
in which it is given.

### TaskAdmission

| Variable | Code |
|---|---|
| `task`, `created` | `SparkTask` in order of creation |
| `limit` | `limit_for`: the sum of the grants in force |
| `txn` | the transaction that holds the policy row (`lock_admission`): the row it will write |
| `visit` | running `reconcile_user` calls: limit read, excess listed |
| `top` | history: the highest limit that was ever in force |

`Create`, `SetEnabled` and `UpdateTime` are the checks made under the lock and decide what is
written; `Commit` writes it. In between, everything that takes no admission lock goes on:
pauses, deletions, grants and reconciliations. With `Serialized = TRUE` (SQLite) other writes
wait. `update_owned` saves the whole row and so overwrites a pause that took no lock: that is
what `Commit` does. Administrators, who have no limit, are left out of `User`; deletion of a
user as well; `max_saved_tasks` is a constant though an administrator may change it.

### Installation

| Variable | Code |
|---|---|
| `row` | `Installation(id=1)`: client token, whether the stack id is known, whether the stored credentials are valid, status |
| `issued` | client tokens drawn so far |
| `stack` | the resource stack each token has created at ROS, `None` before it has |
| `settings` | the installation whose outputs `system_config` holds |
| `call` | requests between two awaits: the step, the copy of the row, the answer of ROS |
| `discarded` | history: tokens whose record was discarded |

An action ends where the code awaits ROS or commits. `Deploy`/`DeployAgain`, `Create` and `Record`
are deploy with `_submit`; `Refresh`, `Reread`, `Query` and `Commit` are refresh, which passes through
`Create` and `Record` when there is no stack id and through `_delete_failed` (`Check`, `Delete`,
`Conclude`) when a deletion was requested; `Cleanup` starts the same `_delete_failed`; `Discard` with
`Replay*`, `Recover` and `Drop` is discard_unconfirmed. `Repair` and `StartRepair`/`Verify` are the
two branches of repair_credentials, the second of which holds the row lock while it asks ROS
(`Unlocked`). `Fail` ends a request anywhere. `CreateRefused` is ROS refusing a CreateStack that it could read, a
rejected template or an exhausted quota: it costs no fault and may happen every time, so that a record with valid
credentials can stay submitting until it is discarded.

Abstractions: the client token stands for the stack that it creates, since ROS treats a repeated
token as the same request; a rollback counts as creation in progress and a completed rollback
as a failed creation, which is how the code treats them; missing outputs and a failing event bus
end a refresh before its transaction, like any failure. That ROS also refuses a second live stack of
the same name is left out: the model allows more than ROS does. Row locks are those of PostgreSQL,
which an installation needs (`docs/installation.md:12` rules out a temporary SQLite file). A request with another
configuration or a wrong confirmation changes nothing and is not a step.

### BrowserLease and BrowserPool

| Variable | Code |
|---|---|
| `mode` | which back end the deployment configures |
| `row` | `BrowserInstance` by session: process, whether its last use is within the idle limit |
| `alive`, `owner`, `aged` | processes that run, for which session they were launched, past `ttl` or not |
| `req` | requests between two awaits of acquire, get or destroy |
| `reaper` | the round of the reaper: the rows it read, what it found |
| `lost`, `refusedEmpty` | history: local browsers that left the table running; a refusal with no browser running |

Every `await` of `acquire`, `get`, `destroy` and of the reaper ends a step. `Restart` ends the server and leaves the
table; a row left by an earlier run names a process that is gone or runs on. A stop may raise, which `_stop_and_delete`
logs before it deletes the row (`StopFails`, `ReapStopFails`) and `create` does not catch (`StopOwnFails`): the process
is then in `lost`. `ImplementsLease` is
the refinement: with the rows as the lease, sessions gain and lose a browser one at a time and never
more than `Concurrency - 1 + Cardinality(Request)` hold one, which is the limit that the check
before the slow creation really keeps. `PoolAccounted` consists of the types, `OvershootBounded` and
`NoUnknownBrowser` (a running browser is named by a row, in a request's hands, or escaped by one of the
four named ways: another's delete, the end of the server, an insert that met an error, a failed stop). `LeasesEnd` consists of
`TtlIsHardCap` (a browser past its longest life is named by no row and, unless it escaped, has ended; one that escaped may
run for ever) and `IdleIsReclaimed`. A change of the back end while requests run is left out.

### BrowserGate

| Variable | Code |
|---|---|
| `gate` | `BrowserManager`: the browser object, its session and process |
| `procs`, `port`, `bornFor` | the Chromiums that run, the one that listens on the CDP port, for whom each was started |
| `lock` | the holder of the manager's lock |
| `conn`, `active` | connections to the instance's port; the sessions in `active_ws` |
| `watch`, `phase` | the watchdog's step; up, stopping, down |
| `leaked` | history: processes dropped by a restart whose port never answered |

The steps are what runs between two awaits of one event loop. A port belongs to the first process
that binds it, so a forgotten one answers for those after it. `GateSound` is the types and
`EveryProcessOwned`; `StartsHold` is `StartServesOwn` (a start that answers 200 has its own browser on the port) and
`BusyIsRespected` (who found the instance busy takes no browser away); `GateSettles` is `CrashHeals`,
`EveryoneAnswered` and `ShutsDown`.

### AccountScan, AccountRecords and Accounts

| Variable | Code |
|---|---|
| `leased` | the sessions that hold a browser of the pool (`BrowserLease`) |
| `page`, `known` | what the remote page of a scan shows; whether a client was told its id |
| `poll`, `job` | requests of scans and of records between two awaits |
| `made`, `live`, `maker` | accounts ever made, those that exist, the scan each came from |
| `contact`, `task`, `armed` | contacts by account, `SparkTask` by account, target and switch, what the schedule was last told |
| `excused`, `raced` | history: overlapping successes, failed releases and ended servers; tasks written during a deletion of their account or between the two steps of its enqueue |

The server keeps no state of a scan: each request connects, reads the page and leaves, and the pool
may end the browser in between. `Accounts` gives both parts one pool and one server: each part's step leaves the
other's variables alone, the end of the server ends the requests of both.
The transactions that write tasks are split where read committed isolation lets a deletion in: an edit reads the row under the
admission lock (`ReadUpdate`) and saves all of it later (`SaveUpdate`), `set_enabled` checks (`ReadEnable`) before it saves the
switch (`SaveEnable`), and the enqueue of a deletion reads the task (`ReadOne`) before it waits for the schedule job
(`JobFree`) and writes (`WriteOne`). The UPDATE that unbinds (`Unbind`) takes no lock and falls anywhere between them. SQLite, where
write transactions are serial, has a subset of these behaviours. `ScansSound` consists of
types, `OneAccountPerLogin`, `SuccessIsLogin` and `LeaseIsReachable`; `RecordsSound` of types,
`EnabledHasAccount`, `TargetStaysKnown` and `ScheduleFollowsTask`. QR images, avatars and countdowns are data.

### Connection, CronUtils and ScheduledTasks

`Connection` has `ready` (`_db_ready`), `refs` (`_conn_refs`), `conn` (the connections of Tortoise), `at`
(where each caller is) and `pinning` (the process is a service). `ScheduledTasks` adds `row`, the clock `now`, the
method each client is in (`call`), the executor's `stage`, and `raced`: a column was saved from an outdated row.
Each method reads the row, then saves named columns in a second statement, both inside the counted connection.
An expression that `validate` accepts may still have no date, such as the 31st of February: the search then raises, so that
an enabled task cannot be created with it, nor such a task be enabled or its result be saved.
`CronUtils` is pure: a field is a set of items with bounds and step, an expression matches a time, `NextAfter`
is the code's loop, which tries `Lookahead` (`_MAX_LOOKAHEAD_MIN`) minutes one after the other and then raises, and
`WindowsFires` says when the translated trigger fires. A step of minutes may be of any size, also beyond the hour (`IsoStep`), and an
expression that unfolds to more than `MaxTriggers` times is refused (`Expressible`). The calendar is a parameter; with 4
minutes, 2 hours, 2 days, 2 months and a week of 4 days every rule of the code (steps, lists, day or weekday) has
an instance on a clock that is gone round completely. `ConnectionCounted` is types, `CountIsExact`,
`PinnedIsWarm` and `LastOneCloses`; `TriggersFit` is `NextRunFits` and `WindowsAgrees`, both against the
reference `Matches`. `WindowsAgrees` is exact: the translation fires when the expression matches if and only if it does
not repeat by minutes or its step divides the hour, so that `*/90`, which the code accepts and translates to PT90M, is known to differ.

### ScanSessions, AuthWorker, Outbox, SparkWorker, Registration and Console

`ScanSessions` holds the rows `scan` and `input` and gives each service method as an operator from the table
to the table after it; `AuthWorker` makes them steps of users and workers, with `pc`, `mine`, `warm`, `context`, `page`,
`confirmed`, `code`, `stopping` and `typing` for the local state of `auth_worker.py` and `auth_scanner.py`,
and `typed`, `saved` as history. `Outbox` has the rows `event`, the switch `paused`, what each notifier does (`at`, `doing`,
`answer`) and what the provider accepted by idempotency key. `SparkWorker` has the rows `task` and `account`, the
runs and their mails in summary (`log`), the quota, and `pc`, `now`, `result` of `run_once`; times are
kept as what the code compares them with. An administrator's retry is two steps, `ReadRetry` and `WriteRetry`, with `retrying` for
the request between them: `task_write_lock` keeps other requests of the console out (`Unlocked`), and SQLite takes no lock
at a SELECT, so the worker may claim the task and send before its next run is overwritten.

In `Registration`, `user`, `invite`, `pending` and `request` are the tables, `mailed` the mails by dedupe key, `doing`
(`handling` in `Console`) what each thread's handler has read. `spent` (the registrations an invitation was consumed for) and
`joined` (those whose user was created although it could not be consumed) are history. SQLite takes its lock at
the first write, so a handler that can be overtaken is two steps: `Read` or `ReadRequest`, and one that decides by
what was read and commits, where only unique indexes and the WHERE clauses of updates see the rows as they are by then. In `Outbox`, marking a mail is one
step: with the one notifier of `compose.console.yml` nobody else marks it meanwhile; and the provider is taken to know an idempotency key for ever.

`Console` puts the four side by side, each with its own variables: `running` is chosen initially among `Process`, since the
processes share no row but the account that a login renews and the mails that a run or a registration announces, and each
part contains the other's effect (`Rebind` in `SparkWorker`, `Enqueue` in `Outbox`).

`LoginSound` is `OneActiveAndWiped`, `SavedIffSucceeded`, `CodeOnceInItsPage` and `PagesAccounted`;
`SendingSound` is `ResentOnlyIfExcused` (`excused` counts interruptions, logins and the retries written after their run was no
longer the last) and `ToldOnce`; `EndsOnce` is `EndedStays`, `SentIsFinal` and, in one formula,
`SessionsEnd`, `MailSettles` and `RunsEnd`.

## What the runs check

| Run | Configuration | Shows |
|---|---|---|
| `queue` | queue: 1 task, 2 workers, 1 caller, 3 edits, 2 faults; back ends: 2 tasks, 2 times, 1 foreign line, a request beside the schedule worker, 2 edits, 1 fault; `AllSpec` | `GateConfirmed`, `AgreementUnlessOverlapped`, `DeletionSticks`, `Converges`, `TriggersHold` |
| `admission` | 1 user, 3 tasks, minutes 0, 2, 4 of a day of 5, distance 2, 2 visits, read committed, `VisitedSpec` | `Spacing`, `NeverBeyondEntitlement`, `QuotaRestored` |
| `exec_safety` | 2 executors, 1 task, occurrences up to `Horizon`, a run without execution rows, lost answers, serial transactions | `AtMostOnce`, `SendsWhatWasClaimed`, `FailedMeansUnsent`, `SummaryKeepsNewest`, `OneCurrentRight` |
| `exec_delivery` | receipts in any order, read committed, `FairSpec` | `EvidenceHolds`, `ResultsAreFinal`, `EveryRunEnds` |
| `install_discard` | 3 requests, 2 installations, every operation, one console intervention | `OrphansWereDiscarded`, `InstalledIsReal` |
| `install_recovery` | 3 requests, 2 installations, no discard, no console, `PollingSpec` | `HistoryKept`, `PollingSettles` |
| `browser_pool` | 3 sessions, 2 requests, limit 1, 3 processes, 2 calls, 1 fault, both back ends, a row of an earlier run, `FairSpec` | `PoolAccounted`, `ImplementsLease`, `LeasesEnd` |
| `browser_gate` | 2 sessions, 3 connections, 3 processes, 4 calls, 1 crash, `FairSpec` | `GateSound`, `StartsHold`, `GateSettles` |
| `accounts` | 1 scan and 1 synchronisation over 1 place, 2 + 2 requests, 2 contacts, 2 accounts, 2 tasks, `FairSpec` | `ScansSound`, `RecordsSound`, `ContactsOnlyGrow`, `EveryoneAnswered` |
| `scheduled_tasks` | an editor and an executor, with and without the service's pin, the small calendar, 2 edits, 1 fault | `ConnectionCounted`, `TriggersFit`, `CallsEnd` |
| `console` | `Process` without the web console; login: 2 users, 2 sessions, 1 code, 1 worker; mails: 1 mail, 2 notifiers, 6 tries; sending: 1 task, 3 edits; faults 1, 2, 1 | `LoginSound`, `MailedOnce`, `SendingSound`, `EndsOnce` |
| `registration` | `Process` the web console alone; 2 names, 2 addresses, 1 invitation, 2 registrations, 2 mails each, 2 requests, 2 threads | `AddressesUnique`, `InviteSpentOnce`, `RequestsBounded` |

**Bounds.** `MaxEdits`, `MaxCalls` limit what users and administrators do, `MaxFaults` (and its kin) crashes, failures and
overrun leases; they bound histories that would otherwise be infinite. One
task is enough for the queue and for executions because no transaction of theirs relates two
tasks; two workers are needed for a lease to change hands, a caller and a worker for an edit and an
attempt to overlap. The back ends do relate tasks, hence two of them and a line of somebody else.
Two executors of one occurrence meet in every step; a third adds no new pair.
`Horizon` holds two occurrences of the same task with the window of ten minutes shrunk to a few
instants, so that runs of neighbouring occurrences overlap. Admission has three tasks: one more
than a quota of two, and slots that conflict across midnight. Installations need a second one
to tell an old answer from a new record, and three requests for a late answer that meets two
others; `Offered` names the operations of a run, and `install_recovery` leaves discard out because
it breaks the properties there, see below. The pool has one place, and two requests that race for it, so
that two sessions is the limit that is really kept; the third session and process are there to exceed it, and one of them may
have a row of an earlier run (`Inherited`); the gate a third connection that relays
while two others start. Two threads meet in every pair of reads and writes of `Registration`, and
each table of it holds two rows, which may have one address or two and wait for one invitation; the limits of attempts and mails
are small enough to be reached. The proofs below do not depend on any bound.

Deadlock is not checked (`CHECK_DEADLOCK FALSE`): the bounds run out, and a system in which nobody
edits anything and nothing is due really rests.

**Fairness.** `ScheduleQueue`, in `AllSpec`: time passes, the platform answers or the call fails, a
detached write lands, and the wake-up loop of `schedule_worker.py` goes on scanning and takes the
oldest due job first. `TriggerBackends`: calls go on, jobs come due, leases expire, and the reconciliation is reached
again and again. Edits and faults are owed to nobody. `Execution!Fairness`: time passes and
somebody opens the list of runs, which is the only caller of `expire_runs`; executors are not
fair, since they may crash. `TaskAdmission!VisitedSpec`: pages that show tasks keep being
opened; without them `QuotaRestored` fails, see below. `Installation!PollingSpec`: a request goes on, ROS carries on
with a stack, and an installation page is open that polls every five seconds (`StepDeploy.vue:46`); it stops on
an error, and the administrator resumes it; errors happen finitely often but for `CreateRefused`, which may go on for ever
and is the exception that `PollingSettles` names. Nobody owes a deploy, cleanup or repair,
so a record with invalid credentials may rest. `BrowserPool`: the reaper's task and every request run on the
server's loop, and the idle limit runs out; browsers need not crash or grow old. `BrowserGate`: the loop runs
the watchdog, the shutdown and every connection; a relay lasts as long as its client likes. `Accounts`: requests
that were begun go on. `ScheduledTasks`: methods, the service and the executor go on, and the clock ticks. `Console`: deadlines
pass, processes go on, and the container restarts them (`restart: unless-stopped`); nobody owes a login or an edit.
Of `Registration` nothing is fair and nothing is asked: nobody owes the next request.

## Disagreements with the documents

Each of the following is stated as a property in its module and refuted by TLC when it is added to the
`.cfg` of the run named (`INVARIANT` or `PROPERTY`); none is part of a run, since the passing runs
state the strongest form that the code does keep.

| Property (run) | What the repository says | What the code does |
|---|---|---|
| `LateResultForcesRecheck` (`queue`) | `docs/schedule-queue.md:9`: a late completion closes the projection and is checked at once | the worker that holds the lease forgets the check the late result asked for |
| `SummaryKeepsNewest` (`exec_delivery`) | `executions.py:135`: an older result does not overwrite a newer summary | under read committed it can: the check and the write are apart |
| `NoOrphan` (`install_discard`) | `installation.py:315`: a refused replay proves that there is no stack | any other failure of the replay deletes the record as well |
| `UsedIsSpared` (`browser_pool`) | `local.py:479`: connected, in use, never recycled | the reaper decides by what it read before its awaits |
| `AcquireClearsExpired` (`browser_pool`) | `cloud.py:13`: expired records are lazily cleaned at acquire | only the record of the session itself is; those of others count towards the limit |
| `NeverServesOther` (`browser_gate`) | `ws_proxy.py:401`: this instance's browser never serves another session | the session is compared before an await and the port reached after it |
| `NeverThrowsOut` (`browser_gate`) | `browser.py:288`: active connections are not thrown out | relays are counted after the handshake, the count is read before the lock |
| `AtMostOneBrowser` (`browser_gate`) | `browser.py:282`: at most one process per instance | a failed restart forgets a process that may run on |
| `DeletedIsDisabled` (`accounts`) | `accounts.py:73`: deleting an account unbinds and disables its tasks | a task bound or enabled between its statements stays enabled, and an edit that read the row before saves its switch and an account with it |
| `ConcurrentCallsKeepConnection` (`scheduled_tasks`) | `connection.py:4-6`: concurrent calls do not close each other's connection | the last caller awaits the closing while another finds it ready |
| `WindowsAlwaysAgrees` (`scheduled_tasks`) | `cron_utils.py:214`: what Windows cannot express raises | a minute step that does not divide the hour, or exceeds it (`*/90`), is translated to a repetition that drifts |
| `NeverResent` (`console`, as `W!NeverResent`) | the predecessor's capacity design, line 49, and `console-operations.md:7`: what reached sending, or failed, is not retried by itself | the recovery and a login repeat runs that may have submitted, and a retry that was decided on before a run (`web/app.py:1279`) is written after it |
| `EveryUserInvited` (`registration`, as `G!EveryUserInvited`) | the predecessor's QR login design of 2026-08-25, line 13: an invitation is for one use | `registration_routes.py:189-195` catches the refusal of a spent or revoked invitation inside the transaction, which commits the user written before it |

Stated likewise without a sentence of the repository to quote: `EnabledHasNext` (a task that a
pause stripped of its next run can be enabled again without one), `ThirdFailureTold` (an interrupted run counts as a
failure but announces nothing, so the streak passes three unannounced), `MailedCodeWorks` (two
resends at once mail two codes and keep one). Failed attempts are written as what was read plus one, so that wrong
codes submitted at once count once; `Registration` contains it. Seven more follow from the actions directly:

* An expired quota pauses nothing until a page is opened, since `reconcile_all`
  (`task_capacity.py:224`) has no caller; `task_capacity.py:4` says automatically. `QuotaRestored` is
  therefore checked under `VisitedSpec`.
* A reconciliation that read the limit before it was raised pauses a task of a user who is within
  the quota (`task_capacity.py:200-212`). No property excludes it.
* `update`, `set_enabled` and `mark_result` save a next run computed from the row they read (`crud.py:156`), which another method may have
  changed since; the column stays wrong until the next edit or switch that is not disturbed. `NextRunFits` leaves such rows out (`raced`).
* A stop that raises is logged and the row deleted all the same (`local.py:690-694`), where `local.py:668` says that destroy
  ends the process; `local.py:402` may raise at a process of another user. The browser runs on; `NoUnknownBrowser` counts it as lost.
* A record whose CreateStack ROS keeps refusing stays submitting (`installation.py:293`, `docs/installation.md:41`):
  polling never settles it, and only a discard ends it. `PollingSettles` names the exception.
* The transaction that deletes a discarded record (`installation.py:330`) does not ask again for a stack
  id, so a record whose id another request saved meanwhile is deleted, against
  `docs/installation.md:41`. `KnownStackKept` is therefore checked without discard.
* The answer to a discard's replay (`installation.py:324`) sets a completed installation back to
  being created until the next poll. `CompletionSticks` is therefore checked without discard.

## What is proved

Each proof module extends its specification; every theorem holds for all values of the constants
that satisfy the named assumptions of the modules (bounds are naturals, `None` is none of the
values it stands next to, and so on), hence for any number of tasks, workers, executors or users.

* `Scheduling_proofs`, of the composition `Scheduling`:
  * `QueueTypeOK`, `QueueGateConfirmed`, `QueueDeletionSticks`, `QueueAgreement`, and `QueueBesideTriggers`, which says the same of
    the queue within the composition. The gate is not inductive by itself. The strengthening says what a worker that holds the lease carries:
    its revision is not ahead of the job's, a worker whose revision is current has the job's desired
    state and delete flag, an answer "ok" has been acknowledged at its revision, and a projection
    that is open with a synced state implies that the job's own revision was acknowledged. Each of
    the five completions then either publishes what was acknowledged or shuts the projection. For the
    agreement with the platform, `Agrees` adds, of a task whose writes never overlapped: only the holder of
    the lease has a write under way, a worker with "ok" is alone and has left the platform with
    what it was to write, and what is reported is what the platform holds.
  * `TriggersAreKept`, the safety part of `TriggersHold`. A listing of the crontab is soon out of date, so the
    invariant is about listings as well as the file: in each, no task has two blocks (`TriggerInv`), and rewriting any such
    listing keeps that and the lines of others (`RewriteKeepsOthers`).
  * `ConnectionIsCounted`. The count is the cardinality of the callers between entering and leaving, one of whom may be the
    service; `Alive` says that a connection which is open or said to be ready is so for a caller who is counted, or for one about to
    close it, and `Pinned` that a service which has its reference keeps everybody from closing.
  * `TriggersAreFit`, `SearchFindsTheFirst`, `WindowsFiresAsWritten`. The search is the code's loop as a recursive function over
    the tries. Instead of an induction over it the proof gives the function explicitly, by the least try that matches, and the least
    try at which two such functions would differ contradicts their definition; it fails only if nothing matches, since
    `Lookahead` covers the calendar (`CalendarAssumption`, from `cron_utils.py:123`). Hence a row that is created, enabled or updated has a next run its expression
    matches (`RowFits`), and what a method read is compared with the row it saves to (`Raced`). The translation
    is compared with `Matches` for every calendar and every step, by arithmetic on the minute within the hour, in both
    directions: a step that does not divide an hour with another after it fires at a time that does not match, or misses one.
    The first attempt at this proof failed for good reasons, and the model followed the code: `compute_next_run`
    raises when there is no next date, which also ends enabling and saving a result, while
    a disabled task may be created with such an expression; and a result saves the next run it read, also to a task that was disabled meanwhile.
* `Execution_proofs`: `ExecutionTypeOK`, `ExecutionAtMostOnce`, `ExecutionSendsWhatWasClaimed`,
  `ExecutionFailedMeansUnsent`, `ExecutionEvidenceHolds`, `ExecutionResultsAreFinal`, `ExecutionGrantsAreCurrent`,
  `ExecutionSummaryKeepsNewest`, `ExecutionGivesOneRight`, `ExecutionOneCurrentRight`. The argument runs along the permission: an executor past
  `BeginSend` has a run whose stage has left "preparing"; no two executors have the same
  occurrence; a run whose permission was granted has the digest the executor fetched; and what
  was sent was sent by a permitted executor. `Evidence` adds what the later reports rely on: an
  executor's report is no better than what it saw, a transaction left open has the evidence of what it
  will commit, and a run was started in the window of its minute. `ExecutionSummaryKeepsNewest` has the
  hypothesis `Serialized`, without which the property fails, see above. The refinement of `SendRight` needs of the invariant
  that no two executors have one plan and that nobody acts where an older version did; that a spent plan stays spent
  follows from what each step may do to a run (`Moved`), a deletion taking all runs of a task with it.
* `TaskAdmission_proofs`: `AdmissionTypeOK`, `AdmissionSpacing`, `AdmissionNeverBeyondEntitlement`. The
  strengthening says that what an open transaction will write still fits: tasks not yet created
  have no row, the row in flight keeps its distance from every enabled task and leaves its owner
  within the highest limit ever granted. Only the lock holder adds to the enabled tasks, and
  pauses only take away, so the fact survives everything that happens in between.
* `Installation_proofs`: `TypeCorrect`, `StacksAccountedFor`, `CompletionIsReal`, `InstallationHistoryKept`. The
  strengthening says of every token ever drawn that it is the record's, was discarded, or its stack is
  gone; and of every request between two awaits what of its outdated copy still holds: its stack exists, a
  deletion it saw complete stays complete, and the record, if it is still the same, has not lost its
  stack id. The fourth theorem is about installations with no discard and no intervention in the console
  (`Undisturbed`, the hypothesis of its run too; with either the properties fail). Then stacks only
  age (`Aging`): complete ones stay so, and failed or deleted ones never come back to use. `History` says what follows for
  old copies: a request that checks or deletes has a stack whose deletion began, or that failed and whose
  record still wants it deleted; an answer that says complete, failed or deleted is true for ever.
* `BrowserPool_proofs`: `PoolIsAccounted`, `PoolImplementsLease`. Requests that are between the count
  and the insert (`Handling`) are counted with the rows (`OvershootBounded`), which is why the limit that
  is really kept is the limit plus the other requests. What a request carries to its next step (a browser launched
  for its own session, one it has stopped before it deletes the row) is `CallFits`; the reaper's round likewise. A
  process that was stopped is not alive or, when the stop failed, in `lost`, which is what the deletes of its row rely on. The
  refinement maps the rows to `BrowserLease`: every step leaves them, adds one session below that limit, or
  takes one away.
* `BrowserGate_proofs`: `GateIsSound`, `StartsAreSafe`. Who holds the manager's lock is in the middle of a start
  or of the watchdog's restart; the invariant says what each such step may rely on (`HoldersFit`, `WatchFits`), that
  the manager's browser was started for its session (`GateBorn`), and that every process is the
  manager's or one it let go of.
* `Accounts_proofs`: `AccountsScansSound`, `AccountsRecordsSound`, `AccountsContactsOnlyGrow`, of the composition
  `Accounts`, so that each part is proved while the other works on the same pool and the same accounts. Of scans: a poll's copy of the
  page is not better than the page was (`ScansFit`), each page logs in once and an account is made by one poll. Of
  records: what a deletion has still to do (`DeletionFits`) and what a binding has checked (`JobFits`) outlives the
  steps of others, what an edit or a switch read and has still to save fits what it will meet (`EditsFit`), and a schedule that does not follow its task is owed by somebody.
* `Console_proofs`, of the composition `Console`, an invariant for each process:
  * `AddressOfOneUser`, `InvitationSpentOnce`, `RequestsAndMailsBounded`. What a handler read is out of date when it
    commits, so `WebInv` is about the rows: an address is in one user only since the commit checks the
    unique index, an invitation that was consumed is used or gone and stays so, and one that is used was, counters that were read below their
    limit are written at most at it.
  * `MailsOnce`, `SentMailsStaySent`. A claim may be taken over while its notifier is still sending, so neither the row nor
    the claim is held by one of them. `MailInv` counts instead: attempts beyond those that the code and the
    administrator order are paid for by faults (`MailFits`), and who was told of success was told the truth
    about a mail the provider knows by one key (`ProviderKnows`).
  * `LoginIsSound`, `EndedSessionsStay`. `AuthInv` says of a worker what its step may rely on (`RunFits`: the
    session it claimed, the page and context it has open), of a row that it holds
    the slot and a QR code only while active and an account only once it succeeded (`RowFits`), and of every code that it
    is typed once, for the session it was entered for (`CodesFit`). The service's operators from table
    to table are shown once to move rows forward only (`Follows`), which is also why an ended session stays.
  * `SendingIsSound`. That at most `1 + excused` messages went out for an occurrence is not inductive: `SendInv` adds
    that a task which is to run again, or whose failure an administrator may retry, has one interruption,
    login or overtaken retry left to pay with, so has the run in progress before it sends (`RunPaid`), and what
    a run reports after it sent is never a reason to repeat it. Of the mails it says that the keys of a
    streak remember every mail of it.

The proofs made assumptions explicit that the code gives: sessions, clients and requests are finite
sets, at least one request and one process can exist, and markers such as `None`, "watchdog", `Service` or `Loop` are no members
of the sets beside which they are used; of `Outbox`, that the
bound on attempts (`MaxTries`) leaves room for the retries of `RETRY_DELAYS`; of `SparkWorker`, that the tasks are finite;
of `CronUtils`, that the units of the calendar are positive and the
bound of the search covers them all; of `Accounts`, that `None` is no number of an account. `Scheduling` states those of its parts as `ConstantsFit` of each.

Only model-checked: the liveness properties (`Converges`, `TriggersConverge` within `TriggersHold`, `QuotaRestored`, `EveryRunEnds`,
`PollingSettles`, `LeasesEnd`, `GateSettles`, `EveryoneAnswered`, `CallsEnd`, and what of `EndsOnce` says that something ends), which
are out of the prover's reach (fairness, ENABLED). Every safety property of the runs is a theorem, and
the type invariants are theorems or parts of them.

## Plan

In this order:

1. done: `ScheduleQueue`, `Execution`, `TaskAdmission`, `Installation` with their proofs.
2. done: the browser pool and its refinement, the gate, the trigger back ends, accounts, the
   connection, generic tasks, and the predecessor's processes.
3. done: theorems for every safety property of the runs, among them the refinements of `BrowserLease` and `SendRight`, and the
   search and translation of `CronUtils` for every calendar.
4. Action properties of the parts that have only invariants so far, and a refinement for the queue.
5. A composition of queue and execution in which `gate` is `Executable`.

## Not modelled

The panel; `.opencode/` and other notes; encryption, signing, PII helpers and
password hashing, which are library calls without state; selection of the recipient in the page,
whose outcome is a free choice of the executor models; argument parsing of the command line; the HTTP adapter of
the runner function, whose redelivery of events is `Claim` repeated; formatting of answers, audit rows and
messages; web sessions and rate limits, which are local to one request; the predecessor's first
script and its holiday calendar, which keep no state; the change of the cloud configuration while
requests run. `PROJECT.json` says of each component what of it is left out.

## Running

    tlc -workers 2 -config Queue.cfg MCScheduling
    tlc -workers 2 -config Console.cfg MCConsole
    tlc -workers 2 -config Registration.cfg MCConsole
    tlapm Scheduling_proofs.tla

and so on for the other configurations and `_proofs` modules. Each run takes half a minute to four minutes.
