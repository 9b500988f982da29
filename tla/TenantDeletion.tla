---------------------------- MODULE TenantDeletion ----------------------------
(***************************************************************************)
(* Deletion of a tenant: the owner's request and approval, legal holds,    *)
(* and the resumable sweep processDeletionRequest that the execute         *)
(* endpoint and the cron run, all of them in worker.js.                    *)
(*                                                                         *)
(* A sweep claims a request under a token, removes report attachments and  *)
(* evidence files a page at a time, checks its claim and the holds once    *)
(* more, and purges the tenant in one batch.  A claim that is fifteen      *)
(* minutes old may be taken over while its sweep is still running.         *)
(*                                                                         *)
(* The cost ledger lives beside it: module CostLedger, with the purge in   *)
(* place of its abstract one.                                              *)
(***************************************************************************)
EXTENDS Naturals, FiniteSets, FiniteSetsExt

CONSTANTS
    Requests,      \* deletion requests that may be filed
    Owners,        \* concurrent requests to the owner's endpoints
    Sweeps,        \* concurrent runs of processDeletionRequest
    Evidence,      \* evidence rows, each with its file
    Batch,         \* TENANT_DELETION_EVIDENCE_BATCH
    MaxAttempts,   \* TENANT_DELETION_MAX_ATTEMPTS
    ReportPages,   \* pages of report attachments to remove
    Reservations, RunIds, Runners, Amounts, Budget, None

ASSUME DeletionAssumption ==
    /\ IsFiniteSet(Evidence)
    /\ Batch \in Nat \ {0}
    /\ MaxAttempts \in Nat \ {0}
    /\ ReportPages \in Nat
    /\ None \notin Sweeps \cup Requests \cup Reservations \cup RunIds
    /\ Amounts \subseteq Nat
    /\ Budget \in Nat

VARIABLES
    request,    \* deletion_requests
    hold,       \* an active legal hold
    evidence,   \* evidence rows and the files in the bucket
    uploading,  \* uploads past their read of the evidence row
    pages,      \* pages of report attachments left
    users,      \* the tenant still has the users that belong to nobody else
    tombstone,  \* requests with a deletion tombstone
    owner,      \* per owner endpoint call: what it read
    sweep,      \* per sweep: where it is
    budgeted,   \* the tenant has a row in agent_cost_budgets
    open, spent, reserved, reservation, journal, run, called,  \* see CostLedger
    tenant      \* "live" or "purged"

requestVars == <<request, hold, owner>>
fileVars    == <<evidence, uploading, pages>>
costVars    == <<open, spent, reserved, reservation, journal, run, called>>
deletionVars == <<requestVars, fileVars, users, tombstone, sweep, budgeted>>
vars == <<deletionVars, costVars, tenant>>

Statuses == {"none", "requested", "approved", "processing", "failed", "blocked", "gone"}
Request == [status : Statuses, attempts : 0..MaxAttempts, token : Sweeps \cup {None}, stale : BOOLEAN]
NoRequest == [status |-> "none", attempts |-> 0, token |-> None, stale |-> FALSE]

\* A row is "none" before it exists, and a file may outlive its row; pending is
\* upload_status.
File == [row : {"none", "kept", "deleted"}, object : BOOLEAN, pending : BOOLEAN]
IdleOwner == [pc |-> "idle", request |-> None, status |-> "none"]
OwnerCalls == [pc : {"idle", "filing", "approving"}, request : Requests \cup {None}, status : Statuses]
IdleSweep == [pc |-> "idle", request |-> None, files |-> {}, failed |-> FALSE]
SweepRuns == [pc : {"idle", "claimed", "cleared", "continuing", "reports", "files", "counted", "purging"},
              request : Requests \cup {None}, files : SUBSET Evidence, failed : BOOLEAN]

\* agent_cost_reserve_deletion_guard.
Closing == \E q \in Requests : request[q].status \in {"approved", "processing", "failed", "blocked"}

Cost == INSTANCE CostLedger WITH closing <- Closing

DeletionTypeOK ==
    /\ request   \in [Requests -> Request]
    /\ hold      \in BOOLEAN
    /\ evidence  \in [Evidence -> File]
    /\ uploading \subseteq Evidence
    /\ pages     \in 0..ReportPages
    /\ users     \in BOOLEAN
    /\ tombstone \subseteq Requests
    /\ owner     \in [Owners -> OwnerCalls]
    /\ sweep     \in [Sweeps -> SweepRuns]
    /\ budgeted  \in BOOLEAN
    /\ Cost!LedgerTypeOK

\* Evidence rows and their files appear at any time, before and during a deletion.
DeletionInit ==
    /\ request   = [q \in Requests |-> NoRequest]
    /\ hold      = FALSE
    /\ evidence  = [e \in Evidence |-> [row |-> "none", object |-> FALSE, pending |-> FALSE]]
    /\ uploading = {}
    /\ pages     = ReportPages
    /\ users     = TRUE
    /\ tombstone = {}
    /\ owner     = [o \in Owners |-> IdleOwner]
    /\ sweep     = [k \in Sweeps |-> IdleSweep]
    /\ budgeted  \in BOOLEAN
    /\ Cost!LedgerInit
    /\ open = budgeted
-----------------------------------------------------------------------------
(* The owner.  Its requests are answered while its account exists.         *)

Signed == tenant = "live" /\ users
Pending(q) == request[q].status \in {"requested", "approved", "blocked", "processing", "failed"}

\* POST deletion-request: no request is pending; the hold decides the status.
AcceptFile(o, q) ==
    /\ Signed
    /\ owner[o] = IdleOwner
    /\ request[q].status = "none"
    /\ ~\E p \in Requests : Pending(p)
    /\ owner' = [owner EXCEPT ![o] = [pc |-> "filing", request |-> q,
                                      status |-> IF hold THEN "blocked" ELSE "requested"]]
    /\ UNCHANGED <<request, hold, fileVars, users, tombstone, sweep, budgeted, costVars, tenant>>

CommitFile(o) ==
    LET q == owner[o].request IN
    /\ Signed
    /\ owner[o].pc = "filing" /\ request[q].status = "none"
    /\ request' = [request EXCEPT ![q].status = owner[o].status]
    /\ owner' = [owner EXCEPT ![o] = IdleOwner]
    /\ UNCHANGED <<hold, fileVars, users, tombstone, sweep, budgeted, costVars, tenant>>

\* POST approve reads the hold first and approves in a later statement.
AcceptApprove(o, q) ==
    /\ Signed
    /\ owner[o] = IdleOwner
    /\ request[q].status # "none" /\ ~hold
    /\ owner' = [owner EXCEPT ![o] = [pc |-> "approving", request |-> q, status |-> "approved"]]
    /\ UNCHANGED <<request, hold, fileVars, users, tombstone, sweep, budgeted, costVars, tenant>>

CommitApprove(o) ==
    LET q == owner[o].request IN
    /\ owner[o].pc = "approving"
    /\ request[q].status \in {"requested", "blocked", "failed"}
    /\ request' = [request EXCEPT ![q].status = "approved"]
    /\ owner' = [owner EXCEPT ![o] = IdleOwner]
    /\ UNCHANGED <<hold, fileVars, users, tombstone, sweep, budgeted, costVars, tenant>>

\* A refused or lost call.
OwnerGivesUp(o) ==
    /\ owner[o] # IdleOwner
    /\ owner' = [owner EXCEPT ![o] = IdleOwner]
    /\ UNCHANGED <<request, hold, fileVars, users, tombstone, sweep, budgeted, costVars, tenant>>

\* Mutant: the hold's INSERT does not look at the deletions in progress.
HoldUnguarded ==
    /\ Signed /\ ~hold
    /\ hold' = TRUE
    /\ UNCHANGED <<request, owner, fileVars, users, tombstone, sweep, budgeted, costVars, tenant>>

CreateHold ==
    /\ Signed /\ ~hold
    /\ ~\E q \in Requests : request[q].status = "processing"
    /\ hold' = TRUE
    /\ UNCHANGED <<request, owner, fileVars, users, tombstone, sweep, budgeted, costVars, tenant>>

ReleaseHold ==
    /\ Signed /\ hold
    /\ hold' = FALSE
    /\ UNCHANGED <<request, owner, fileVars, users, tombstone, sweep, budgeted, costVars, tenant>>
-----------------------------------------------------------------------------
(* Evidence.  Nothing here looks at deletion requests.                     *)

\* POST evidence/presign.
Presign(e) ==
    /\ Signed
    /\ evidence[e].row = "none"
    /\ evidence' = [evidence EXCEPT ![e].row = "kept", ![e].pending = TRUE]
    /\ UNCHANGED <<requestVars, uploading, pages, users, tombstone, sweep, budgeted, costVars, tenant>>

\* PUT evidence/<id>/upload finds the row by deleted_at and upload_status, which a
\* sweep leaves alone, and stores the file later.
AcceptUpload(e) ==
    /\ Signed
    /\ evidence[e].row # "none" /\ evidence[e].pending
    /\ uploading' = uploading \cup {e}
    /\ UNCHANGED <<requestVars, evidence, pages, users, tombstone, sweep, budgeted, costVars, tenant>>

\* The UPDATE that ends the upload comes after the file, and may not come.
StoreObject(e) ==
    /\ e \in uploading
    /\ uploading' = uploading \ {e}
    /\ \E pending \in {FALSE, evidence[e].pending} :
          evidence' = [evidence EXCEPT ![e].object = TRUE, ![e].pending = pending]
    /\ UNCHANGED <<requestVars, pages, users, tombstone, sweep, budgeted, costVars, tenant>>
-----------------------------------------------------------------------------
(* The claim.                                                              *)

HasClaim(k) ==
    LET q == sweep[k].request IN request[q].status = "processing" /\ request[q].token = k

\* Mutant: the release is keyed by the request alone.
ReleaseAnyClaim(k, s) ==
    LET q == sweep[k].request IN
    request' = IF request[q].status = "processing"
               THEN [request EXCEPT ![q].status = s, ![q].token = None, ![q].stale = FALSE]
               ELSE request

\* releaseTenantDeletionClaim: nothing, when the claim was lost.
ReleaseClaim(k, s) ==
    LET q == sweep[k].request IN
    request' = IF HasClaim(k)
               THEN [request EXCEPT ![q].status = s, ![q].token = None, ![q].stale = FALSE]
               ELSE request

\* Mutant: the recovery forgets the attempt limit.
RecoverClaimUnlimited(q) == request[q].status = "processing" /\ request[q].stale

\* The two UPDATEs of claimTenantDeletion; a blocked request is taken up by the
\* owner's execute call only.
NewClaim(q) == request[q].status \in {"approved", "failed", "blocked"} /\ request[q].attempts < MaxAttempts
RecoverClaim(q) ==
    request[q].status = "processing" /\ request[q].stale /\ request[q].attempts < MaxAttempts

Claim(k, q) ==
    /\ sweep[k] = IdleSweep
    /\ NewClaim(q) \/ RecoverClaim(q)
    /\ request[q].status = "blocked" => Signed
    /\ request' = [request EXCEPT ![q] = [status |-> "processing", attempts |-> @.attempts + 1,
                                          token |-> k, stale |-> FALSE]]
    /\ sweep' = [sweep EXCEPT ![k].pc = "claimed", ![k].request = q]
    /\ UNCHANGED <<hold, owner, fileVars, users, tombstone, budgeted, costVars, tenant>>

\* Fifteen minutes without a heartbeat, whether or not the sweep is alive.
ClaimGoesStale(q) ==
    /\ request[q].status = "processing" /\ ~request[q].stale
    /\ request' = [request EXCEPT ![q].stale = TRUE]
    /\ UNCHANGED <<hold, owner, fileVars, users, tombstone, sweep, budgeted, costVars, tenant>>
-----------------------------------------------------------------------------
(* The sweep.                                                              *)

EndSweep(k) == sweep' = [sweep EXCEPT ![k] = IdleSweep]

CheckHold(k) ==
    /\ sweep[k].pc = "claimed"
    /\ IF hold THEN ReleaseClaim(k, "blocked") /\ EndSweep(k)
       ELSE sweep' = [sweep EXCEPT ![k].pc = "cleared"] /\ UNCHANGED request
    /\ UNCHANGED <<hold, owner, fileVars, users, tombstone, budgeted, costVars, tenant>>

\* purgeDailyReportAttachments, which checks claim and hold before every step
\* of its own.  A page that leaves more to do gives its attempt back.
CleanReports(k) ==
    LET q == sweep[k].request IN
    /\ sweep[k].pc = "cleared"
    /\ \/ ReleaseClaim(k, "failed") /\ EndSweep(k) /\ UNCHANGED pages
       \/ /\ HasClaim(k) /\ ~hold /\ pages <= 1
          /\ pages' = 0
          /\ sweep' = [sweep EXCEPT ![k].pc = "reports"]
          /\ UNCHANGED request
       \/ /\ HasClaim(k) /\ ~hold /\ pages > 1
          /\ pages' = pages - 1
          /\ request' = [request EXCEPT ![q].attempts = IF @ > 0 THEN @ - 1 ELSE 0]
          /\ sweep' = [sweep EXCEPT ![k].pc = "continuing"]
    /\ UNCHANGED <<hold, owner, evidence, uploading, users, tombstone, budgeted, costVars, tenant>>

ContinueReports(k) ==
    /\ sweep[k].pc = "continuing"
    /\ ReleaseClaim(k, "approved") /\ EndSweep(k)
    /\ UNCHANGED <<hold, owner, fileVars, users, tombstone, budgeted, costVars, tenant>>

Remaining == IF tenant = "purged" THEN {} ELSE {e \in Evidence : evidence[e].row = "kept"}

\* One page of files; the claim is not looked at again until the last of them.
ListEvidence(k) ==
    /\ sweep[k].pc = "reports"
    /\ \E fs \in SUBSET Remaining :
          /\ Cardinality(fs) = Min({Batch, Cardinality(Remaining)})
          /\ sweep' = [sweep EXCEPT ![k].pc = "files", ![k].files = fs]
    /\ UNCHANGED <<requestVars, fileVars, users, tombstone, budgeted, costVars, tenant>>

\* deleteEvidenceObject: both the file and the row, the file only, or neither.
DeleteFile(k, e) ==
    /\ sweep[k].pc = "files" /\ e \in sweep[k].files
    /\ \E done \in BOOLEAN, object \in {FALSE, evidence[e].object} :
          /\ done => ~object
          /\ evidence' = [evidence EXCEPT
                 ![e].row = IF done /\ tenant = "live" THEN "deleted" ELSE @, ![e].object = object]
          /\ sweep' = [sweep EXCEPT ![k].files = @ \ {e}, ![k].failed = @ \/ ~done]
    /\ UNCHANGED <<requestVars, uploading, pages, users, tombstone, budgeted, costVars, tenant>>

\* The heartbeat, then the outcome of the page: failures, more pages, or none left.
FinishPage(k) ==
    LET q == sweep[k].request IN
    /\ sweep[k].pc = "files" /\ sweep[k].files = {}
    /\ \/ ~HasClaim(k) /\ EndSweep(k) /\ UNCHANGED request
       \/ HasClaim(k) /\ sweep[k].failed /\ ReleaseClaim(k, "failed") /\ EndSweep(k)
       \/ HasClaim(k) /\ ~sweep[k].failed
          /\ request' = [request EXCEPT ![q].stale = FALSE]
          /\ sweep' = [sweep EXCEPT ![k].pc = "counted"]
    /\ UNCHANGED <<hold, owner, fileVars, users, tombstone, budgeted, costVars, tenant>>

\* Rows that are left wait for the next sweep; with none, finalizeTenantDeletion
\* looks at the claim and at the hold for the last time.
CheckFinal(k) ==
    /\ sweep[k].pc = "counted"
    /\ \/ Remaining # {} /\ ReleaseClaim(k, "approved") /\ EndSweep(k)
       \/ Remaining = {} /\ ~HasClaim(k) /\ UNCHANGED request /\ EndSweep(k)
       \/ Remaining = {} /\ HasClaim(k) /\ hold /\ ReleaseClaim(k, "blocked") /\ EndSweep(k)
       \/ Remaining = {} /\ HasClaim(k) /\ ~hold /\ UNCHANGED request
          /\ sweep' = [sweep EXCEPT ![k].pc = "purging"]
    /\ UNCHANGED <<hold, owner, fileVars, users, tombstone, budgeted, costVars, tenant>>
-----------------------------------------------------------------------------
(* The purge batch.                                                        *)

\* Mutant: the authorization trigger forgets the reservations.
CostGuardsHoldOnly == budgeted => ~hold

\* agent_cost_purge_authorization_guard and agent_cost_tenant_purge_guard, which
\* apply to a tenant with a budget and abort the whole batch.
CostGuards == budgeted => ~hold /\ Cost!NothingReserved

\* The requests of the deleted users go with them.
DropRequests == request' = [q \in Requests |-> [NoRequest EXCEPT !.status =
                                IF request[q].status = "none" THEN "none" ELSE "gone"]]

\* The tombstone is inserted under the claim, and the tenant is deleted under
\* the tombstone.
PurgeTenant(k) ==
    /\ sweep[k].pc = "purging" /\ HasClaim(k) /\ tenant = "live"
    /\ CostGuards
    /\ tombstone' = tombstone \cup {sweep[k].request}
    /\ users' = FALSE /\ hold' = FALSE
    /\ evidence' = [e \in Evidence |-> [evidence[e] EXCEPT !.row = "none"]]
    /\ DropRequests
    /\ Cost!Cascade
    /\ EndSweep(k)
    /\ UNCHANGED <<owner, uploading, pages, budgeted, run, called>>

\* Without the claim there is no tombstone, and the tenant stays; the DELETE of
\* its users asks for neither.
PurgeUsersOnly(k) ==
    /\ sweep[k].pc = "purging" /\ ~HasClaim(k) /\ tenant = "live"
    /\ users' = FALSE
    /\ DropRequests
    /\ EndSweep(k)
    /\ UNCHANGED <<hold, owner, fileVars, tombstone, budgeted, costVars, tenant>>

\* A sweep dies, or its batch aborts: the request keeps its claim until it is stale.
LoseSweep(k) ==
    /\ sweep[k].pc # "idle"
    /\ EndSweep(k)
    /\ UNCHANGED <<requestVars, fileVars, users, tombstone, budgeted, costVars, tenant>>

LedgerMoves == UNCHANGED deletionVars /\ budgeted /\ Cost!LedgerStep

SweepStep(k) ==
    \/ \E q \in Requests : Claim(k, q)
    \/ CheckHold(k) \/ CleanReports(k) \/ ContinueReports(k) \/ ListEvidence(k)
    \/ \E e \in Evidence : DeleteFile(k, e)
    \/ FinishPage(k) \/ CheckFinal(k)
    \/ PurgeTenant(k) \/ PurgeUsersOnly(k) \/ LoseSweep(k)

OwnerStep(o) ==
    \/ \E q \in Requests : AcceptFile(o, q) \/ AcceptApprove(o, q)
    \/ CommitFile(o) \/ CommitApprove(o) \/ OwnerGivesUp(o)

DeletionNext ==
    \/ \E o \in Owners : OwnerStep(o)
    \/ CreateHold \/ ReleaseHold
    \/ \E e \in Evidence : Presign(e) \/ AcceptUpload(e) \/ StoreObject(e)
    \/ \E q \in Requests : ClaimGoesStale(q)
    \/ \E k \in Sweeps : SweepStep(k)
    \/ LedgerMoves

DeletionSpec == DeletionInit /\ [][DeletionNext]_vars
-----------------------------------------------------------------------------
(* Properties.                                                             *)

Purges == tenant = "live" /\ tenant' = "purged"

\* A legal hold that is active stops the purge, although it may have been created
\* after the sweep's last look: no hold is created while a deletion is processed,
\* and a sweep whose claim was recovered in the meantime cannot purge.
PurgeUnderNoHold == [][Purges => ~hold]_vars

\* The tenant does not leave with money unaccounted for: whatever the provider was
\* called for is settled at the instant of the purge.
PurgeAfterSettlement == [][Purges => \A x \in called : reservation[x].state = "settled"]_vars

\* A claim that is not stale is ended by its own sweep only: nothing a sweep does
\* after losing its claim moves the request of the sweep that took over, unless
\* the request disappears with the users.
ClaimEndsByHolder ==
    [][\A q \in Requests, k \in Sweeps :
          /\ request[q].token = k /\ ~request[q].stale
          /\ request'[q].token # k /\ request'[q].status # "gone"
          => sweep[k].request = q /\ sweep'[k] # sweep[k]]_vars

\* Deletion keeps the cost ledger's rules.
ImplementsLedger == Cost!LedgerSpec

\* docs/agentic-platform-implementation-2026-10-09.md:62, "an invalid claim, active
\* hold or pending cost aborts the batch": users are deleted with their tenant only.
UsersLeaveWithTenant == tenant = "live" => users

\* docs/OPERATIONS.md:9, "R2 evidence object variants are removed in bounded batches
\* before D1 tenant data is purged": no file is left at the instant of the purge.
ObjectsLeaveBeforeTenant == [][Purges => \A e \in Evidence : ~evidence[e].object]_vars
=============================================================================
