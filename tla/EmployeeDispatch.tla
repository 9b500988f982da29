-------------------------- MODULE EmployeeDispatch --------------------------
(***************************************************************************)
(* The D1 employee dispatcher: src/cloudflare/src/employee-dispatch.js and *)
(* the dispatch branch of executeTask, over the queue table and triggers   *)
(* of migration 20261024_employee_dispatch.sql, composed with the manual   *)
(* handlers of TaskExecution on the same requests.                         *)
(*                                                                         *)
(* A sweep (the minute cron, or an owner's tick) dead-letters exhausted    *)
(* leases, claims one due row with a fresh random token and a 45 second    *)
(* lease, reads and checks everything executeTask checks, runs ONE batch   *)
(* (fence, effect, completion), and otherwise releases the row.  A sweep   *)
(* may die between any two of these; nothing renews a lease.  A dispatcher *)
(* works on one claim at a time, so its name stands for its claim's token. *)
(*                                                                         *)
(* THEBE_EMPLOYEE_DISPATCH_ENABLED is 'true'; without it the module's only *)
(* actions are those of TaskExecution.                                     *)
(***************************************************************************)
EXTENDS TaskExecution

CONSTANT Dispatchers       \* concurrent sweeps

ASSUME DispatchersAssumption == None \notin Dispatchers

MaxAttempts == 3

VARIABLES
    queue,       \* employee_dispatch_queue, one row at most per request
    control,     \* employee_dispatch_controls of the tenant
    dispatcher   \* what each sweep is doing, and with which claim

dispatchVars == <<queue, control, dispatcher>>
allVars      == <<vars, dispatchVars>>

\* lease: lease_until > unixepoch().   due: available_at <= unixepoch().
\* session: the session the owner enqueued with is unexpired and current.
\* 'committing' exists only inside the effect batch, which leaves the row
\* either completed or, rolled back, leased.
Rows == [state : {"none", "queued", "leased", "completed", "dead_letter"},
         attempts : 0..MaxAttempts, token : Dispatchers \cup {None}, lease : BOOLEAN,
         due : BOOLEAN, owner : Users \cup {None}, session : BOOLEAN]
NoRow == [state |-> "none", attempts |-> 0, token |-> None, lease |-> FALSE,
          due |-> FALSE, owner |-> None, session |-> FALSE]

\* "swept": dead-lettered what was exhausted, about to claim.  "claimed": holds
\* a row.  "ready": passed every check, about to run the batch.  "diagnose":
\* the batch failed or its reply was lost.  "denied", "unavailable": about to
\* release with that category.  cause: why a denial was pronounced.
Dispatches == [pc : {"idle", "swept", "claimed", "ready", "diagnose", "denied", "unavailable"},
               request : EmployeeRequests \cup {None}, attempts : 0..MaxAttempts,
               payload : Payloads \cup {None}, cause : {None, "authority", "storage"}]
IdleDispatch == [pc |-> "idle", request |-> None, attempts |-> 0,
                 payload |-> None, cause |-> None]

DispatchTypeOK ==
    /\ TypeOK
    /\ queue      \in [EmployeeRequests -> Rows]
    /\ control    \in {"missing", "stopped", "open"}
    /\ dispatcher \in [Dispatchers -> Dispatches]

DispatchInit ==
    /\ Init
    /\ queue      = [r \in EmployeeRequests |-> NoRow]
    /\ control    = "missing"
    /\ dispatcher = [k \in Dispatchers |-> IdleDispatch]

ControlOpen == control = "open"
-----------------------------------------------------------------------------
(* The owner's side.                                                       *)

QueuedRow(u) == [state |-> "queued", attempts |-> 0, token |-> None, lease |-> FALSE,
                 due |-> TRUE, owner |-> u, session |-> TRUE]

\* One INSERT OR IGNORE ... WHERE: every condition is checked as it writes, and
\* UNIQUE(tenant_id, request_id) makes a second enqueue a replay.
Enqueue(u, r) ==
    /\ queue[r].state = "none"
    /\ r \in provenance
    /\ ControlOpen
    /\ role[u] = "owner"
    /\ status[r] = "approved" /\ approver[r] = u
    /\ PermitUsable(r, u)
    /\ queue' = [queue EXCEPT ![r] = QueuedRow(u)]
    /\ UNCHANGED <<vars, control, dispatcher>>

\* The revision an owner quotes must be the current one; it is taken to be, as a
\* stale one changes nothing.  Stopping a missing control creates it stopped.
OwnerStop(u) ==
    /\ role[u] = "owner"
    /\ control' = "stopped"
    /\ UNCHANGED <<vars, queue, dispatcher>>

\* No endpoint enables the control: an operator does, in the database.
OperatorEnable ==
    /\ control # "open"
    /\ control' = "open"
    /\ UNCHANGED <<vars, queue, dispatcher>>
-----------------------------------------------------------------------------
(* A sweep.                                                                *)

\* Mutant: one attempt too many before a lease counts as exhausted.
ExhaustedOffByOne(row) == row.state = "leased" /\ ~row.lease /\ row.attempts > MaxAttempts

Exhausted(row) == row.state = "leased" /\ ~row.lease /\ row.attempts >= MaxAttempts

\* An UPDATE ... SET lease_token=NULL, lease_until=NULL.
Settle(row, state) == [row EXCEPT !.state = state, !.token = None, !.lease = FALSE]

\* Dead-letters every exhausted lease, whatever the control says.
DeadLetterExhausted(k) ==
    /\ dispatcher[k].pc = "idle"
    /\ queue' = [r \in EmployeeRequests |->
                   IF Exhausted(queue[r]) THEN Settle(queue[r], "dead_letter") ELSE queue[r]]
    /\ dispatcher' = [dispatcher EXCEPT ![k].pc = "swept"]
    /\ UNCHANGED <<vars, control>>

\* Mutant: the claim trusts the dead-letter UPDATE to have removed every
\* exhausted lease, though one may run out between the two statements.
ClaimableUnbounded(row) ==
    \/ row.state = "queued" /\ row.due
    \/ row.state = "leased" /\ ~row.lease

Claimable(row) ==
    /\ row.attempts < MaxAttempts
    /\ \/ row.state = "queued" /\ row.due
       \/ row.state = "leased" /\ ~row.lease

Lease(row, k) == [row EXCEPT !.state = "leased", !.attempts = @ + 1, !.token = k, !.lease = TRUE]
Claimed(r, n) == [pc |-> "claimed", request |-> r, attempts |-> n,
                  payload |-> None, cause |-> None]

\* One UPDATE ... RETURNING.  The order of available_at decides among several
\* claimable rows; here any of them may be first.
Claim(k, r) ==
    /\ dispatcher[k].pc = "swept"
    /\ ControlOpen
    /\ Claimable(queue[r])
    /\ queue' = [queue EXCEPT ![r] = Lease(@, k)]
    /\ dispatcher' = [dispatcher EXCEPT ![k] = Claimed(r, queue[r].attempts + 1)]
    /\ UNCHANGED <<vars, control>>

ClaimNothing(k) ==
    /\ dispatcher[k].pc = "swept"
    /\ ~ControlOpen \/ \A r \in EmployeeRequests : ~Claimable(queue[r])
    /\ dispatcher' = [dispatcher EXCEPT ![k] = IdleDispatch]
    /\ UNCHANGED <<vars, queue, control>>

\* The owner's session, then everything executeTask reads and its guard checks.
Authorised(r) == queue[r].session /\ ExecutionAuthorised(r, queue[r].owner)

CheckPasses(k) ==
    LET r == dispatcher[k].request IN
    /\ dispatcher[k].pc = "claimed"
    /\ Authorised(r)
    /\ dispatcher' = [dispatcher EXCEPT ![k].pc = "ready", ![k].payload = payload[r]]
    /\ UNCHANGED <<vars, queue, control>>

CheckDenies(k) ==
    /\ dispatcher[k].pc = "claimed"
    /\ ~Authorised(dispatcher[k].request)
    /\ dispatcher' = [dispatcher EXCEPT ![k].pc = "denied", ![k].cause = "authority"]
    /\ UNCHANGED <<vars, queue, control>>

\* A read fails.  The schema probe and the registry answer 503; safeFirst turns
\* a failed read of the request or of the permit into "no such row", which is
\* answered 404 or 409 like a denial.
CheckFails(k) ==
    /\ dispatcher[k].pc = "claimed"
    /\ \/ dispatcher' = [dispatcher EXCEPT ![k].pc = "unavailable"]
       \/ dispatcher' = [dispatcher EXCEPT ![k].pc = "denied", ![k].cause = "storage"]
    /\ UNCHANGED <<vars, queue, control>>

\* The fence UPDATE, the dispatch guard of the effect UPDATE, the execution
\* guard and completion guard triggers.
FenceHolds(k, r) ==
    /\ queue[r].state = "leased" /\ queue[r].token = k /\ queue[r].lease
    /\ ControlOpen
\* Mutants: the batch checks the fence but trusts what was read of the session,
\* the proposal and the delegation, or of the approval and the permit.
DispatchGuardStaleSource(k, r) == FenceHolds(k, r) /\ EffectGuard(r, queue[r].owner)
DispatchGuardStaleApproval(k, r) ==
    FenceHolds(k, r) /\ queue[r].session /\ r \in provenance /\ SqlLive(via[r])

DispatchGuard(k, r) ==
    /\ FenceHolds(k, r)
    /\ queue[r].session
    /\ r \in provenance
    /\ SqlLive(via[r])
    /\ EffectGuard(r, queue[r].owner)

\* The reply may be lost ("diagnose"), or the read-back of the task may fail
\* ("unavailable"), after the batch has committed.
CommitDispatch(k) ==
    LET r == dispatcher[k].request IN
    /\ dispatcher[k].pc = "ready"
    /\ DispatchGuard(k, r)
    /\ TaskEffect(r, dispatcher[k].payload)
    /\ queue' = [queue EXCEPT ![r] = Settle(@, "completed")]
    /\ \/ dispatcher' = [dispatcher EXCEPT ![k] = IdleDispatch]
       \/ \E pc \in {"diagnose", "unavailable"} :
             dispatcher' = [dispatcher EXCEPT ![k].pc = pc]
    /\ UNCHANGED <<policyVars, worldVars, job, control>>

\* The batch matches nothing, is aborted, or storage fails.
BatchFails(k) ==
    /\ dispatcher[k].pc = "ready"
    /\ dispatcher' = [dispatcher EXCEPT ![k].pc = "diagnose"]
    /\ UNCHANGED <<vars, queue, control>>

\* A spent permit makes the failure a denial (409); otherwise, and when that
\* read fails too, it is an unavailability (500).
Diagnose(k) ==
    /\ dispatcher[k].pc = "diagnose"
    /\ \/ /\ permit[dispatcher[k].request] = "consumed"
          /\ dispatcher' = [dispatcher EXCEPT ![k].pc = "denied", ![k].cause = "authority"]
       \/ dispatcher' = [dispatcher EXCEPT ![k].pc = "unavailable"]
    /\ UNCHANGED <<vars, queue, control>>

\* Mutants: a sweep releases whatever lease is on its row; a third failure is
\* retried like the others.
MayReleaseAny(k, r) == queue[r].state = "leased" /\ queue[r].lease
RetryableAlways(k) == dispatcher[k].pc = "unavailable"

MayRelease(k, r) == queue[r].state = "leased" /\ queue[r].token = k /\ queue[r].lease
Retryable(k) == dispatcher[k].pc = "unavailable" /\ dispatcher[k].attempts < MaxAttempts

\* Back to the queue with a back-off, or to the dead letters; a worker that has
\* lost its lease changes nothing.
Release(k) ==
    LET r == dispatcher[k].request IN
    /\ dispatcher[k].pc \in {"denied", "unavailable"}
    /\ queue' = IF ~MayRelease(k, r) THEN queue
                ELSE [queue EXCEPT ![r] =
                        [Settle(@, IF Retryable(k) THEN "queued" ELSE "dead_letter")
                           EXCEPT !.due = FALSE]]
    /\ dispatcher' = [dispatcher EXCEPT ![k] = IdleDispatch]
    /\ UNCHANGED <<vars, control>>

\* The isolate dies, or a statement outside every try block throws.
Crash(k) ==
    /\ dispatcher[k].pc # "idle"
    /\ dispatcher' = [dispatcher EXCEPT ![k] = IdleDispatch]
    /\ UNCHANGED <<vars, queue, control>>
-----------------------------------------------------------------------------
(* Time, sessions, and the manual handlers behind the fence.               *)

LeaseExpires(r) ==
    /\ queue[r].lease
    /\ queue' = [queue EXCEPT ![r].lease = FALSE]
    /\ UNCHANGED <<vars, control, dispatcher>>

BackoffElapses(r) ==
    /\ queue[r].state = "queued" /\ ~queue[r].due
    /\ queue' = [queue EXCEPT ![r].due = TRUE]
    /\ UNCHANGED <<vars, control, dispatcher>>

\* The session expires, is deleted, or the user's generation moves on.
SessionEnds(r) ==
    /\ queue[r].session
    /\ queue' = [queue EXCEPT ![r].session = FALSE]
    /\ UNCHANGED <<vars, control, dispatcher>>

\* Mutant: the trigger only looks at rows under lease.
FencedWhileLeased(r) == r \in EmployeeRequests /\ queue[r].state = "leased"

\* The execution guard trigger: a request with a queue row is executed by its
\* dispatcher or not at all.
Fenced(r) == r \in EmployeeRequests /\ queue[r].state # "none"

ManualExecute(w) ==
    /\ ~Fenced(job[w].request)
    /\ CommitExecute(w)
    /\ UNCHANGED dispatchVars

Manual ==
    /\ \/ \E w \in Workers : Accept(w) \/ CommitPaperwork(w) \/ Abandon(w)
       \/ PolicyChange
       \/ WorldChange
    /\ UNCHANGED dispatchVars

Sweep(k) ==
    \/ DeadLetterExhausted(k) \/ ClaimNothing(k)
    \/ \E r \in EmployeeRequests : Claim(k, r)
    \/ CheckPasses(k) \/ CheckDenies(k) \/ CheckFails(k)
    \/ CommitDispatch(k) \/ BatchFails(k) \/ Diagnose(k) \/ Release(k)

Timer(r) == LeaseExpires(r) \/ BackoffElapses(r)

DispatchNext ==
    \/ Manual
    \/ \E w \in Workers : ManualExecute(w)
    \/ \E u \in Users : OwnerStop(u) \/ \E r \in EmployeeRequests : Enqueue(u, r)
    \/ OperatorEnable
    \/ \E k \in Dispatchers : Sweep(k) \/ Crash(k)
    \/ \E r \in EmployeeRequests : Timer(r) \/ SessionEnds(r)

DispatchSpec == DispatchInit /\ [][DispatchNext]_allVars

\* The minute cron starts a sweep again and again, and a sweep that is not
\* killed goes on; time passes.  The claim takes the oldest due row first, so a
\* row that stays claimable is not passed over for ever.
DispatchFairness ==
    /\ \A k \in Dispatchers :
          /\ WF_allVars(Sweep(k))
          /\ \A r \in EmployeeRequests : SF_allVars(Claim(k, r))
    /\ \A r \in EmployeeRequests : WF_allVars(Timer(r))

FairDispatchSpec == DispatchSpec /\ DispatchFairness
-----------------------------------------------------------------------------
(* Properties.                                                             *)

\* A queued request is executed exactly when its row is completed: the effect
\* and the completion are one step, a dead-lettered or waiting row never has a
\* task, and the manual API cannot execute it behind the dispatcher's back.
CompletedExactlyWhenExecuted ==
    \A r \in EmployeeRequests :
        queue[r].state # "none" =>
            (queue[r].state = "completed" <=> status[r] = "executed")

\* A row that is waiting can still be claimed: none waits with its three
\* attempts used up, where neither the claim nor the dead-letter UPDATE would
\* ever find it.
NoStrandedRow ==
    \A r \in EmployeeRequests : queue[r].state = "queued" => queue[r].attempts < MaxAttempts

\* What makes these inductive: a row always has an owner, and a sweep whose token
\* is on a row knows how many attempts the row has had.
RowsWellFormed ==
    \A r \in EmployeeRequests :
        /\ queue[r].state # "none" => queue[r].owner \in Users
        /\ \A k \in Dispatchers :
              queue[r].token = k /\ dispatcher[k].request = r
                => dispatcher[k].attempts = queue[r].attempts
DispatchesWellFormed ==
    \A k \in Dispatchers :
        dispatcher[k].pc \notin {"idle", "swept"} => dispatcher[k].request \in EmployeeRequests
DispatchInvariant ==
    /\ TaskInvariant /\ DispatchTypeOK /\ RowsWellFormed /\ DispatchesWellFormed
    /\ CompletedExactlyWhenExecuted /\ NoStrandedRow

\* While a lease lasts, only the sweep that holds its token can end it, whatever
\* a sweep that lost an earlier lease on the row still tries to do.
LiveLeaseEndsOnlyByHolder ==
    [][\A r \in EmployeeRequests :
          queue[r].state = "leased" /\ queue[r].lease /\ queue'[r].state # "leased"
            => \E k \in Dispatchers : k = queue[r].token /\ dispatcher[k].request = r
                                      /\ dispatcher'[k] # dispatcher[k]]_allVars

\* A dispatched task appears only while the control is open, the delegation and
\* the employee proposal are live and the owner's session is the one that
\* enqueued it, at the instant of the batch.
DispatchedUnderFullAuthority ==
    [][\A r \in EmployeeRequests :
          queue[r].state # "none" /\ effects'[r] # effects[r] =>
            /\ control = "open"
            /\ r \in provenance
            /\ SqlLive(via[r]) /\ grant[via[r]] = "active"
            /\ queue[r].session /\ role[queue[r].owner] = "owner"]_allVars

\* Every enqueued request is settled, executed or dead-lettered, unless the
\* control is closed: crashes and unavailability use up attempts, they do not
\* keep a row in the queue for ever.
EveryRowSettles ==
    \A r \in EmployeeRequests :
        queue[r].state \in {"queued", "leased"} ~>
            (queue[r].state \in {"completed", "dead_letter"} \/ ~ControlOpen)

\* "Transient failures back off ten then twenty seconds" and only "non-transient
\* authority denials are terminal" (docs/employee-dispatch-d1.md): a row that
\* still has attempts left is dead-lettered only when authority was denied.
OnlyDenialsAreTerminal ==
    [][\A r \in EmployeeRequests, k \in Dispatchers :
          queue[r].token = k /\ queue[r].lease /\ queue'[r].state = "dead_letter"
            /\ queue[r].attempts < MaxAttempts
            => dispatcher[k].cause # "storage"]_allVars
=============================================================================
