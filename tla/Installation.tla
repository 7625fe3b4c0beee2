---------------------------- MODULE Installation ----------------------------
(***************************************************************************)
(* The cloud installation of core/services/installation.py: one row holds  *)
(* the client token, the stack id once it is known and the status that was *)
(* last learnt of the resource stack at ROS.  The row is locked only while *)
(* it is written (and by repair_credentials while ROS verifies): every     *)
(* other call to ROS is made on a copy of the row that may be out of date  *)
(* when the answer comes, if it comes.  A client token makes CreateStack   *)
(* idempotent, so the token stands for the stack it creates.               *)
(***************************************************************************)
EXTENDS Integers, FiniteSets

CONSTANTS
    Request,     \* administrators' requests that run at the same time
    MaxInstalls, \* bound on the installations ever submitted
    Offered,     \* the operations that administrators use
    MaxEdits,    \* bound on calls of these, refresh apart
    MaxConsole,  \* bound on failed stacks that are continued in the ROS console
    MaxFaults,   \* bound on calls that fail, lose their answer or die
    None

Operation == {"deploy", "cleanup", "reset", "repair", "discard"}

Token == 1 .. MaxInstalls

FailedStates == {"CREATE_FAILED", "DELETE_FAILED"}
Deleting == {"DELETE_IN_PROGRESS", "DELETE_FAILED", "DELETE_COMPLETE"}
\* Rolling back counts as creation in progress, having rolled back as failed.
StackState == {"CREATE_IN_PROGRESS", "CREATE_COMPLETE", "CREATE_FAILED"} \union Deleting
Status == StackState \union {"SUBMITTING", "DELETE_REQUESTED"}

\* models.Installation: known says whether stack_id is set, usable whether the
\* stored credentials are valid.
Row == [token : Token, known : BOOLEAN, usable : BOOLEAN, status : Status]

Step == {"create", "record", "reread", "query", "commit",
         "check", "delete", "conclude", "verify", "replay", "recover", "drop"}

\* A request between two awaits: the copy it made of the row, and the answer.
Call == [at : Step, polls : BOOLEAN, token : Token, usable : BOOLEAN,
         seen : StackState \union {None}]

ASSUME InstallationAssumption ==
    /\ MaxInstalls \in Nat /\ MaxEdits \in Nat /\ MaxConsole \in Nat /\ MaxFaults \in Nat
    /\ Offered \subseteq Operation
    /\ None \notin Row /\ None \notin Call /\ None \notin StackState /\ None \notin Token

VARIABLES
    row,       \* Installation(id=1)
    issued,    \* how many client tokens have been drawn
    stack,     \* the resource stack that each token has created at ROS
    settings,  \* the installation whose outputs system_config holds
    call,      \* requests that wait for something
    edits, console, faults,
    discarded  \* history: the tokens whose record was discarded

vars == <<row, issued, stack, settings, call, edits, console, faults, discarded>>

TypeOK ==
    /\ row \in Row \union {None}
    /\ issued \in 0 .. MaxInstalls
    /\ stack \in [Token -> StackState \union {None}]
    /\ settings \in Token \union {None}
    /\ call \in [Request -> Call \union {None}]
    /\ edits \in Nat /\ console \in Nat /\ faults \in Nat
    /\ discarded \subseteq Token

Init ==
    /\ row = None
    /\ issued = 0
    /\ stack = [t \in Token |-> None]
    /\ settings = None
    /\ call = [r \in Request |-> None]
    /\ edits = 0 /\ console = 0 /\ faults = 0
    /\ discarded = {}

Edited(op) == op \in Offered /\ edits < MaxEdits /\ edits' = edits + 1
Faulted == faults < MaxFaults /\ faults' = faults + 1

Installed == row # None
At(r, step) == call[r] # None /\ call[r].at = step

\* select_for_update waits for repair_credentials, which verifies in its transaction.
Unlocked == \A r \in Request : ~At(r, "verify")

\* client_token=row.client_token: the row is still the one this request copied.
SameInstall(r) == Installed /\ row.token = call[r].token

Copy(step, polls, seen) ==
    [at |-> step, polls |-> polls, token |-> row.token, usable |-> row.usable, seen |-> seen]

Finish(r) == call' = [call EXCEPT ![r] = None]
Proceed(r, step) == call' = [call EXCEPT ![r].at = step]
Learn(r, step, seen) == call' = [call EXCEPT ![r].at = step, ![r].seen = seen]

-----------------------------------------------------------------------------
(* Deployment *)

\* InstallationService.deploy for the first time: the row is there before ROS
\* hears of it.
Deploy(r, usable) ==
    /\ call[r] = None /\ ~Installed /\ issued < MaxInstalls
    /\ Edited("deploy")
    /\ issued' = issued + 1
    /\ row' = [token |-> issued + 1, known |-> FALSE, usable |-> usable,
               status |-> "SUBMITTING"]
    /\ call' = [call EXCEPT ![r] = [at |-> "create", polls |-> FALSE, token |-> issued + 1,
                                    usable |-> usable, seen |-> None]]
    /\ UNCHANGED <<stack, settings, console, faults, discarded>>

\* The same request again: with no stack id yet it is submitted again, and a
\* deployment with a stack, or another request, changes nothing.
DeployAgain(r) ==
    /\ call[r] = None /\ Installed /\ ~row.known
    /\ Edited("deploy")
    /\ call' = [call EXCEPT ![r] = Copy("create", FALSE, None)]
    /\ UNCHANGED <<row, issued, stack, settings, console, faults, discarded>>

\* ROS's CreateStack: a token that has created a stack returns that stack.
CreateStack(t) ==
    stack' = [stack EXCEPT ![t] = IF @ = None THEN "CREATE_IN_PROGRESS" ELSE @]

\* _submit gets its answer.
Create(r) ==
    /\ At(r, "create") /\ call[r].usable
    /\ CreateStack(call[r].token)
    /\ Proceed(r, "record")
    /\ UNCHANGED <<row, issued, settings, edits, console, faults, discarded>>

\* ROS refuses what it has not created, valid credentials or not: a template that it
\* rejects, a quota, ...  It may do so every time; the row stays as it is.
CreateRefused(r) ==
    /\ At(r, "create") /\ stack[call[r].token] = None
    /\ Finish(r)
    /\ UNCHANGED <<row, issued, stack, settings, edits, console, faults, discarded>>

\* The stack is created but the answer is lost.
CreateUnanswered(r) ==
    /\ At(r, "create") /\ call[r].usable /\ Faulted
    /\ CreateStack(call[r].token)
    /\ Finish(r)
    /\ UNCHANGED <<row, issued, settings, edits, console, discarded>>

\* _submit saves the stack id; deploy then only shows the row.
Record(r) ==
    /\ At(r, "record") /\ Unlocked
    /\ row' = IF SameInstall(r) /\ ~row.known /\ row.status = "SUBMITTING"
              THEN [row EXCEPT !.known = TRUE, !.status = "CREATE_IN_PROGRESS"]
              ELSE row
    /\ IF call[r].polls THEN Proceed(r, "reread") ELSE Finish(r)
    /\ UNCHANGED <<issued, stack, settings, edits, console, faults, discarded>>

-----------------------------------------------------------------------------
(* Polling *)

\* What refresh does with the row it has read, once there is a stack id: what is
\* complete is not asked for again.
AskFor(r) ==
    IF row.status = "CREATE_COMPLETE"
    THEN call' = [call EXCEPT ![r] = Copy("commit", TRUE, "CREATE_COMPLETE")]
    ELSE call' = [call EXCEPT ![r] = Copy("query", TRUE, None)]

\* Mutant: a deletion that was requested is polled like any other stack.
RefreshQueryOnly(r) ==
    /\ call[r] = None /\ Installed
    /\ IF ~row.known THEN call' = [call EXCEPT ![r] = Copy("create", TRUE, None)]
       ELSE AskFor(r)
    /\ UNCHANGED <<row, issued, stack, settings, edits, console, faults, discarded>>

\* InstallationService.refresh reads the row.
Refresh(r) ==
    /\ call[r] = None /\ Installed
    /\ IF row.status = "DELETE_REQUESTED"
       THEN call' = [call EXCEPT ![r] = Copy("check", TRUE, None)]
       ELSE IF ~row.known THEN call' = [call EXCEPT ![r] = Copy("create", TRUE, None)]
       ELSE AskFor(r)
    /\ UNCHANGED <<row, issued, stack, settings, edits, console, faults, discarded>>

\* refresh after _submit; a row without a stack id cannot be asked for.
Reread(r) ==
    /\ At(r, "reread")
    /\ IF Installed /\ row.known THEN AskFor(r) ELSE Finish(r)
    /\ UNCHANGED <<row, issued, stack, settings, edits, console, faults, discarded>>

\* GetStack; when it reports completion, the event bus is provided for next.
Query(r) ==
    /\ At(r, "query") /\ call[r].usable
    /\ Learn(r, "commit", stack[call[r].token])
    /\ UNCHANGED <<row, issued, stack, settings, edits, console, faults, discarded>>

\* Mutant: the copy is taken for the row.
CommitAnyway(r) ==
    /\ At(r, "commit") /\ Unlocked /\ Finish(r)
    /\ LET state == IF row.status = "CREATE_COMPLETE" THEN "CREATE_COMPLETE" ELSE call[r].seen
       IN IF Installed /\ (row.status \in Deleting \union {"DELETE_REQUESTED"}
                           => call[r].seen \in Deleting)
          THEN /\ row' = [row EXCEPT !.status = state]
               /\ settings' = IF state = "CREATE_COMPLETE" THEN call[r].token ELSE settings
          ELSE UNCHANGED <<row, settings>>
    /\ UNCHANGED <<issued, stack, edits, console, faults, discarded>>

\* Mutant: an older answer undoes the request to delete.
CommitUndeletes(r) ==
    /\ At(r, "commit") /\ Unlocked /\ Finish(r)
    /\ LET state == IF row.status = "CREATE_COMPLETE" THEN "CREATE_COMPLETE" ELSE call[r].seen
       IN IF SameInstall(r)
          THEN /\ row' = [row EXCEPT !.status = state]
               /\ settings' = IF state = "CREATE_COMPLETE" THEN call[r].token ELSE settings
          ELSE UNCHANGED <<row, settings>>
    /\ UNCHANGED <<issued, stack, edits, console, faults, discarded>>

\* The transaction that ends refresh: a deletion is not undone by an older answer,
\* nor is completion, and the settings are saved with the status.
Commit(r) ==
    /\ At(r, "commit") /\ Unlocked /\ Finish(r)
    /\ LET state == IF row.status = "CREATE_COMPLETE" THEN "CREATE_COMPLETE" ELSE call[r].seen
       IN IF SameInstall(r) /\ (row.status \in Deleting \union {"DELETE_REQUESTED"}
                                => call[r].seen \in Deleting)
          THEN /\ row' = [row EXCEPT !.status = state]
               /\ settings' = IF state = "CREATE_COMPLETE" THEN call[r].token ELSE settings
          ELSE UNCHANGED <<row, settings>>
    /\ UNCHANGED <<issued, stack, edits, console, faults, discarded>>

-----------------------------------------------------------------------------
(* Recovery from a failed installation *)

\* InstallationService.cleanup records the intent to delete before ROS hears of it.
Cleanup(r) ==
    /\ call[r] = None /\ Unlocked /\ Installed /\ row.known
    /\ row.status \in FailedStates \union {"DELETE_REQUESTED", "DELETE_IN_PROGRESS"}
    /\ Edited("cleanup")
    /\ row' = [row EXCEPT !.status = "DELETE_REQUESTED"]
    /\ call' = [call EXCEPT ![r] = Copy("check", FALSE, None)]
    /\ UNCHANGED <<issued, stack, settings, console, faults, discarded>>

\* _delete_failed asks again before it deletes: a stack that turns out to be
\* running goes back to being polled, also if it is complete.
Check(r) ==
    /\ At(r, "check") /\ call[r].usable
    /\ LET state == stack[call[r].token]
       IN CASE state \in {"DELETE_COMPLETE", "DELETE_IN_PROGRESS"} -> Learn(r, "conclude", state)
            [] state \in FailedStates -> Learn(r, "delete", state)
            [] OTHER -> Learn(r, "conclude", "CREATE_IN_PROGRESS")
    /\ UNCHANGED <<row, issued, stack, settings, edits, console, faults, discarded>>

\* ROS's DeleteStack, which does nothing to a stack that is gone.
DeleteStack(t) ==
    stack' = [stack EXCEPT ![t] = IF @ = "DELETE_COMPLETE" THEN @ ELSE "DELETE_IN_PROGRESS"]

Delete(r) ==
    /\ At(r, "delete")
    /\ DeleteStack(call[r].token)
    /\ Learn(r, "conclude", "DELETE_IN_PROGRESS")
    /\ UNCHANGED <<row, issued, settings, edits, console, faults, discarded>>

\* The stack is being deleted but the answer is lost.
DeleteUnanswered(r) ==
    /\ At(r, "delete") /\ Faulted
    /\ DeleteStack(call[r].token)
    /\ Finish(r)
    /\ UNCHANGED <<row, issued, settings, edits, console, discarded>>

\* _delete_failed writes what it has learnt, whatever the status has become.
Conclude(r) ==
    /\ At(r, "conclude") /\ Unlocked
    /\ row' = IF SameInstall(r) THEN [row EXCEPT !.status = call[r].seen] ELSE row
    /\ Finish(r)
    /\ UNCHANGED <<issued, stack, settings, edits, console, faults, discarded>>

\* InstallationService.reset
Reset(r) ==
    /\ call[r] = None /\ Unlocked /\ Installed /\ row.status = "DELETE_COMPLETE"
    /\ Edited("reset")
    /\ row' = None
    /\ UNCHANGED <<issued, stack, settings, call, console, faults, discarded>>

Repairable ==
    Unlocked /\ Installed /\ row.status \in FailedStates \union {"SUBMITTING", "DELETE_REQUESTED"}

\* repair_credentials without a stack id to verify them with: whatever is given.
Repair(r, usable) ==
    /\ call[r] = None /\ Repairable /\ ~row.known
    /\ Edited("repair")
    /\ row' = [row EXCEPT !.usable = usable]
    /\ UNCHANGED <<issued, stack, settings, call, console, faults, discarded>>

\* repair_credentials with one: ROS is asked while the row is locked.
StartRepair(r) ==
    /\ call[r] = None /\ Repairable /\ row.known
    /\ Edited("repair")
    /\ call' = [call EXCEPT ![r] = Copy("verify", FALSE, None)]
    /\ UNCHANGED <<row, issued, stack, settings, console, faults, discarded>>

Verify(r) ==
    /\ At(r, "verify")
    /\ row' = [row EXCEPT !.usable = TRUE]
    /\ Finish(r)
    /\ UNCHANGED <<issued, stack, settings, edits, console, faults, discarded>>

-----------------------------------------------------------------------------
(* Discarding a record without a stack *)

\* InstallationService.discard_unconfirmed
Discard(r) ==
    /\ call[r] = None /\ Unlocked /\ Installed /\ ~row.known
    /\ Edited("discard")
    /\ call' = [call EXCEPT ![r] = Copy("replay", FALSE, None)]
    /\ UNCHANGED <<row, issued, stack, settings, console, faults, discarded>>

\* CreateStack again with the token of the record: there is a stack after all.
Replay(r) ==
    /\ At(r, "replay") /\ call[r].usable
    /\ CreateStack(call[r].token)
    /\ Proceed(r, "recover")
    /\ UNCHANGED <<row, issued, settings, edits, console, faults, discarded>>

\* Any exception is taken for a refusal: credentials that are not valid, a template
\* that is rejected, ...
ReplayRefused(r) ==
    /\ At(r, "replay")
    /\ ~call[r].usable \/ stack[call[r].token] = None
    /\ Proceed(r, "drop")
    /\ UNCHANGED <<row, issued, stack, settings, edits, console, faults, discarded>>

\* ... a call that does not arrive, ...
ReplayFails(r) ==
    /\ At(r, "replay") /\ call[r].usable /\ Faulted
    /\ Proceed(r, "drop")
    /\ UNCHANGED <<row, issued, stack, settings, edits, console, discarded>>

\* ... or an answer that is lost.
ReplayUnanswered(r) ==
    /\ At(r, "replay") /\ call[r].usable /\ Faulted
    /\ CreateStack(call[r].token)
    /\ Proceed(r, "drop")
    /\ UNCHANGED <<row, issued, settings, edits, console, discarded>>

\* The stack id is saved and the status set back, whatever it has become.
Recover(r) ==
    /\ At(r, "recover") /\ Unlocked
    /\ row' = IF SameInstall(r)
              THEN [row EXCEPT !.known = TRUE, !.status = "CREATE_IN_PROGRESS"] ELSE row
    /\ Finish(r)
    /\ UNCHANGED <<issued, stack, settings, edits, console, faults, discarded>>

\* Mutant: the record is dropped whichever it is.
DropAnyway(r) ==
    /\ At(r, "drop") /\ Unlocked
    /\ row' = None
    /\ discarded' = discarded \union {call[r].token}
    /\ Finish(r)
    /\ UNCHANGED <<issued, stack, settings, edits, console, faults>>

\* The record is deleted if it has the same token, not asking for a stack id again.
Drop(r) ==
    /\ At(r, "drop") /\ Unlocked
    /\ IF SameInstall(r)
       THEN row' = None /\ discarded' = discarded \union {row.token}
       ELSE UNCHANGED <<row, discarded>>
    /\ Finish(r)
    /\ UNCHANGED <<issued, stack, settings, edits, console, faults>>

-----------------------------------------------------------------------------
(* Failures and the cloud *)

\* Credentials that are not valid end a request that needs them; nothing is saved.
Unauthorized(r) ==
    /\ \E step \in {"create", "query", "check"} : At(r, step)
    /\ ~call[r].usable
    /\ Finish(r)
    /\ UNCHANGED <<row, issued, stack, settings, edits, console, faults, discarded>>

\* A call to ROS or to the event bus fails, outputs are missing, or the process
\* ends: the request ends where it is, with nothing more saved.
Fail(r) ==
    /\ call[r] # None /\ Faulted
    /\ Finish(r)
    /\ UNCHANGED <<row, issued, stack, settings, edits, console, discarded>>

\* ROS carries on with stack t.
StackMoves(t) ==
    /\ \/ /\ stack[t] = "CREATE_IN_PROGRESS"
          /\ \E s \in {"CREATE_COMPLETE", "CREATE_FAILED"} : stack' = [stack EXCEPT ![t] = s]
       \/ /\ stack[t] = "DELETE_IN_PROGRESS"
          /\ \E s \in {"DELETE_COMPLETE", "DELETE_FAILED"} : stack' = [stack EXCEPT ![t] = s]
    /\ UNCHANGED <<row, issued, settings, call, edits, console, faults, discarded>>

\* Somebody continues a failed creation in the ROS console.
ConsoleContinues(t) ==
    /\ console < MaxConsole /\ console' = console + 1
    /\ stack[t] = "CREATE_FAILED"
    /\ stack' = [stack EXCEPT ![t] = "CREATE_IN_PROGRESS"]
    /\ UNCHANGED <<row, issued, settings, call, edits, faults, discarded>>

-----------------------------------------------------------------------------
RequestStarts(r) ==
    \/ \E usable \in BOOLEAN : Deploy(r, usable) \/ Repair(r, usable)
    \/ DeployAgain(r) \/ Refresh(r) \/ Cleanup(r) \/ Reset(r) \/ StartRepair(r) \/ Discard(r)

\* A step of a request that runs, with no fault.
RequestGoesOn(r) ==
    \/ Create(r) \/ CreateRefused(r) \/ Record(r) \/ Reread(r) \/ Query(r) \/ Commit(r)
    \/ Check(r) \/ Delete(r) \/ Conclude(r) \/ Verify(r)
    \/ Replay(r) \/ ReplayRefused(r) \/ Recover(r) \/ Drop(r) \/ Unauthorized(r)

RequestFails(r) ==
    CreateUnanswered(r) \/ DeleteUnanswered(r) \/ ReplayFails(r) \/ ReplayUnanswered(r) \/ Fail(r)

Next ==
    \/ \E r \in Request : RequestStarts(r) \/ RequestGoesOn(r) \/ RequestFails(r)
    \/ \E t \in Token : StackMoves(t) \/ ConsoleContinues(t)

Spec == Init /\ [][Next]_vars

\* Fairness: a request goes on, ROS carries on, and an installation page is open
\* that polls every five seconds (StepDeploy.vue:46), resumed after an error.
Fairness ==
    /\ \A r \in Request : WF_vars(RequestGoesOn(r))
    /\ WF_vars(\E r \in Request : Refresh(r))
    /\ \A t \in Token : WF_vars(StackMoves(t))

PollingSpec == Spec /\ Fairness

-----------------------------------------------------------------------------
(* Properties *)

Live(t) == stack[t] \notin {None, "DELETE_COMPLETE"}

\* Resources that cost money always belong to the record or to one that an
\* administrator discarded: lost answers, repeated submissions, deletions and a
\* reset never leave a stack that nobody knows of, nor two that are both in use.
OrphansWereDiscarded ==
    \A t \in Token : Live(t) => (Installed /\ row.token = t) \/ t \in discarded

\* installation.py:296-298 and :315, a record is discarded only when it has never
\* created a stack: discarding leaves no stack that nobody manages.
NoOrphan == \A t \in Token : Live(t) => Installed /\ row.token = t

\* installation.py:391, settings and completion commit together: what says that it
\* is complete has a stack, and the system is configured with that very stack.
InstalledIsReal ==
    Installed /\ row.status = "CREATE_COMPLETE" =>
        row.known /\ settings = row.token /\ stack[row.token] # None

\* installation.py:391, once complete, always complete: no answer to what was asked
\* before undoes it, nor a deletion that was requested before.
CompletionSticks ==
    [][Installed /\ row.status = "CREATE_COMPLETE" => row' = row]_vars

\* docs/installation.md:39: no stack is deleted while it is being
\* created or in use, and the intent to delete it was saved before and still is.
DeletesWhatFailed ==
    [][\A t \in Token : stack[t] # None /\ stack[t] \notin Deleting /\ stack'[t] \in Deleting =>
          /\ stack[t] = "CREATE_FAILED"
          /\ Installed /\ row.token = t /\ row.status = "DELETE_REQUESTED"]_vars

\* docs/installation.md:41: a record with a stack id is removed only
\* once the deletion of its stack is complete.
KnownStackKept ==
    [][Installed /\ row.known /\ (row' = None \/ row'.token # row.token) =>
          row.status = "DELETE_COMPLETE"]_vars

\* What an answer that comes late or is repeated must not undo: a completed
\* installation, one that is not to be deleted, and the way to a known stack.
HistoryKept == CompletionSticks /\ DeletesWhatFailed /\ KnownStackKept

Settled == row.status \in FailedStates \union {"CREATE_COMPLETE", "DELETE_COMPLETE"}

\* installation.py:293 and docs/installation.md:41, an installation page that polls
\* does not show progress for ever: a record with valid credentials completes or
\* fails, and so does a deletion, unless ROS goes on refusing to create the stack,
\* which leaves the record submitting until somebody discards it.
PollingSettles ==
    \/ []<>(Installed => ~row.usable \/ Settled)
    \/ []<><<\E r \in Request : CreateRefused(r)>>_vars
=============================================================================
