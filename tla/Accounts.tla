------------------------------ MODULE Accounts ------------------------------
(***************************************************************************)
(* The server's accounts as a whole: scans (AccountScan) and contact        *)
(* synchronisations (AccountRecords) lease browsers from one pool           *)
(* (BrowserLease), scans make the accounts that the records are kept for,   *)
(* and one end of the server ends the requests of both.                     *)
(***************************************************************************)
EXTENDS Naturals, FiniteSets

CONSTANTS Scan, Syncing, Places, ScanRequest, RecordRequest,
          Uid, MaxAccounts, MaxTasks, MaxCalls, MaxFaults, None

ASSUME AccountsAssumption ==
    /\ Scan \intersect Syncing = {} /\ None \notin Scan \union Syncing \union Uid
    /\ None \notin 0..MaxAccounts
    /\ IsFiniteSet(Uid) /\ Uid # {} /\ Places \in Nat
    /\ MaxAccounts \in Nat \ {0} /\ MaxTasks \in Nat /\ MaxCalls \in Nat /\ MaxFaults \in Nat

VARIABLES leased, made, live, calls, faults,
          page, known, poll, maker, excused,
          contact, task, armed, job, raced

Lessee == Scan \union Syncing

S == INSTANCE AccountScan WITH Request <- ScanRequest
R == INSTANCE AccountRecords WITH Request <- RecordRequest

scanVars == <<page, known, poll, maker, excused>>
recordVars == <<contact, task, armed, job, raced>>
vars == <<leased, made, live, calls, faults, scanVars, recordVars>>

Init ==
    /\ S!ScanInit /\ leased = known
    /\ live \in {{}, {1}} /\ made = Cardinality(live)
    /\ calls = 0 /\ faults = 0
    /\ R!RecordsInit

ServerEnds == S!Fails /\ S!ScanDies /\ R!RecordsDie /\ UNCHANGED <<leased, made, live, calls>>

Next ==
    \/ S!ScanNext /\ UNCHANGED recordVars
    \/ R!RecordsNext /\ UNCHANGED scanVars
    \/ ServerEnds

Spec == Init /\ [][Next]_vars

Fairness ==
    /\ \A r \in ScanRequest : WF_vars(S!Handle(r) /\ UNCHANGED recordVars)
    /\ \A r \in RecordRequest : WF_vars(R!HandleRecords(r) /\ UNCHANGED scanVars)
FairSpec == Spec /\ Fairness

-----------------------------------------------------------------------------
(* The properties of the parts hold of the whole.                           *)

\* One account comes of one login that took place, and its browser can be given
\* back, whatever the other part does to the pool.
ScansSound ==
    /\ S!TypeOK
    /\ S!OneAccountPerLogin /\ S!SuccessIsLogin /\ S!LeaseIsReachable

\* Tasks keep an account and a target that exist, and a schedule that says what
\* they say, while accounts come, change and go.
RecordsSound ==
    /\ R!TypeOK
    /\ R!EnabledHasAccount /\ R!TargetStaysKnown /\ R!ScheduleFollowsTask

\* A synchronisation, also a failed one, loses no contact of an account that
\* remains.
ContactsOnlyGrow == R!ContactsOnlyGrow

\* What accounts.py:73 says: deleting an account unbinds and disables its tasks.
DeletedIsDisabled == R!DeletedIsDisabled

\* Every request is answered, also when its browser is taken from under it or
\* its account is deleted.
EveryoneAnswered ==
    /\ \A r \in ScanRequest : (poll[r].pc # "idle") ~> (poll[r].pc = "idle")
    /\ \A r \in RecordRequest : (job[r].pc # "idle") ~> (job[r].pc = "idle")
=============================================================================
