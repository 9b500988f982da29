--------------------------- MODULE TaskExecution ---------------------------
(***************************************************************************)
(* Bounded internal task execution of one tenant:                          *)
(* src/cloudflare/src/agentic-task-execution.js over the D1 tables and     *)
(* triggers of migrations 047, 048 and 064.                                *)
(*                                                                         *)
(* A handler first authenticates and reads (an Accept action, which leaves *)
(* what it read in the worker's job) and later runs ONE D1 batch (a Commit *)
(* action: the guards inside its SQL, then the triggers, then the writes). *)
(* Anything may happen between the two.  A batch that matches no row or is *)
(* aborted by a trigger or a UNIQUE index, an error reply and a lost       *)
(* isolate all leave the tables alone: Abandon.                            *)
(*                                                                         *)
(* The runtime switches of the environment (kill switch, runtime enabled,  *)
(* budget status, execution mode) are constants of a deployment, and are   *)
(* taken in the position that lets execution through.                      *)
(***************************************************************************)
EXTENDS Naturals, FiniteSets

CONSTANTS
    Users,             \* users with a membership row in the tenant
    Delegations,       \* ids an owner may create a task.create delegation under
    Requests,          \* idempotency keys of task requests
    EmployeeRequests,  \* those derived from an approved employee proposal
    Payloads,          \* normalised task payloads (equal iff their hashes are)
    Workers,           \* concurrent invocations of the Worker
    DailyCap,          \* max_daily_actions (a NULL one is a cap never reached)
    None               \* SQL NULL

ASSUME ConstantsAssumption ==
    /\ EmployeeRequests \subseteq Requests
    /\ DailyCap \in Nat \ {0}
    /\ IsFiniteSet(Requests)
    /\ None \notin Users \cup Delegations \cup Requests \cup Payloads

VARIABLES
    delegation,   \* agent_delegations: see DelegationStates
    grant,        \* agent_execution_grants.status of the delegation's one grant
    status,       \* agent_task_requests.status, "absent" before the INSERT
    payload,      \* payload_json / payload_hash of the request
    via,          \* delegation_id of the request
    approver,     \* approved_by_user_id
    permit,       \* agent_jit_execution_permits row of the request
    holder,       \* human_user_id of that permit
    effects,      \* number of agent_internal_tasks rows of the request
    taskPayload,  \* what that task row holds
    today,        \* requests whose execution receipt was created this UTC day
    role,         \* role of the active membership, "none" without one
    authority,    \* agent_registry.authority_state of THEBE-001
    provenance,   \* employee requests whose proposal is approved and current
    job           \* per worker: the handler in flight and what it has read

requestVars == <<status, payload, via, approver>>
permitVars  == <<permit, holder>>
effectVars  == <<effects, taskPayload, today>>
taskVars    == <<requestVars, permitVars, effectVars>>
policyVars  == <<delegation, grant>>
worldVars   == <<role, authority, provenance>>
vars        == <<taskVars, policyVars, worldVars, job>>

\* "overdue": expires_at has passed but its UTC day has not.  The column holds
\* an ISO string with a 'T', and SQL compares it with CURRENT_TIMESTAMP as text,
\* so every SQL check still finds the row unexpired; the JavaScript guard, which
\* compares instants, does not.  No code sets the column to 'expired': "overdue"
\* and "expired" rows still have status='active'.
DelegationStates == {"none", "active", "overdue", "expired", "paused", "revoked"}
StatusActive     == {"active", "overdue", "expired"}

SqlLive(d) == delegation[d] \in {"active", "overdue"}
JsLive(d)  == delegation[d] = "active"

Operations == {"idle", "grant", "prepare", "approve", "cancel", "permit", "execute"}
Jobs == [op : Operations, user : Users \cup {None}, request : Requests \cup {None},
         payload : Payloads \cup {None}, via : Delegations \cup {None}]
InFlight(op, u, r, p, d) == [op |-> op, user |-> u, request |-> r, payload |-> p, via |-> d]
IdleJob == InFlight("idle", None, None, None, None)

\* Receipts of today under the delegation's (one) execution grant.
UsedToday(d) == {r \in today : via[r] = d}
AuthorityPermits == authority = "active"

TypeOK ==
    /\ delegation  \in [Delegations -> DelegationStates]
    /\ grant       \in [Delegations -> {"none", "active", "revoked"}]
    /\ status      \in [Requests -> {"absent", "prepared", "approved", "executed", "cancelled"}]
    /\ payload     \in [Requests -> Payloads \cup {None}]
    /\ via         \in [Requests -> Delegations \cup {None}]
    /\ approver    \in [Requests -> Users \cup {None}]
    /\ permit      \in [Requests -> {"none", "active", "expired", "consumed"}]
    /\ holder      \in [Requests -> Users \cup {None}]
    /\ effects     \in [Requests -> Nat]
    /\ taskPayload \in [Requests -> Payloads \cup {None}]
    /\ today       \subseteq Requests
    /\ role        \in [Users -> {"owner", "manager", "none"}]
    /\ authority   \in {"active", "contained", "revoked"}
    /\ provenance  \subseteq EmployeeRequests
    /\ job         \in [Workers -> Jobs]

Init ==
    /\ delegation  = [d \in Delegations |-> "none"]
    /\ grant       = [d \in Delegations |-> "none"]
    /\ status      = [r \in Requests |-> "absent"]
    /\ payload     = [r \in Requests |-> None]
    /\ via         = [r \in Requests |-> None]
    /\ approver    = [r \in Requests |-> None]
    /\ permit      = [r \in Requests |-> "none"]
    /\ holder      = [r \in Requests |-> None]
    /\ effects     = [r \in Requests |-> 0]
    /\ taskPayload = [r \in Requests |-> None]
    /\ today       = {}
    /\ role        \in [Users -> {"owner", "manager"}]
    /\ authority   = "active"
    /\ provenance  = EmployeeRequests
    /\ job         = [w \in Workers |-> IdleJob]
-----------------------------------------------------------------------------
(* Delegations and grants.                                                 *)

\* The one-active-delegation index counts every row with status='active'.
CreateDelegation(u, d) ==
    /\ role[u] = "owner"
    /\ delegation[d] = "none"
    /\ \A e \in Delegations : delegation[e] \notin StatusActive
    /\ delegation' = [delegation EXCEPT ![d] = "active"]
    /\ UNCHANGED <<taskVars, grant, worldVars, job>>

PauseDelegation(u, d) ==
    /\ role[u] = "owner"
    /\ delegation[d] \in StatusActive
    /\ delegation' = [delegation EXCEPT ![d] = "paused"]
    /\ UNCHANGED <<taskVars, grant, worldVars, job>>

\* Revoking (or pausing) a delegation leaves its execution grant as it is.
RevokeDelegation(u, d) ==
    /\ role[u] = "owner"
    /\ delegation[d] \in StatusActive \cup {"paused"}
    /\ delegation' = [delegation EXCEPT ![d] = "revoked"]
    /\ UNCHANGED <<taskVars, grant, worldVars, job>>

RevokeGrant(u, d) ==
    /\ role[u] = "owner"
    /\ grant[d] = "active"
    /\ grant' = [grant EXCEPT ![d] = "revoked"]
    /\ UNCHANGED <<taskVars, delegation, worldVars, job>>

AcceptGrant(w, u, d) ==
    /\ job[w] = IdleJob
    /\ role[u] = "owner"
    /\ AuthorityPermits
    /\ SqlLive(d)
    /\ grant[d] = "none"
    /\ job' = [job EXCEPT ![w] = InFlight("grant", u, None, None, d)]
    /\ UNCHANGED <<taskVars, policyVars, worldVars>>

\* INSERT under the delegation trigger of migration 048 and UNIQUE(delegation_id).
CommitGrant(w) ==
    LET d == job[w].via IN
    /\ job[w].op = "grant"
    /\ SqlLive(d)
    /\ grant[d] = "none"
    /\ grant' = [grant EXCEPT ![d] = "active"]
    /\ job' = [job EXCEPT ![w] = IdleJob]
    /\ UNCHANGED <<taskVars, delegation, worldVars>>
-----------------------------------------------------------------------------
(* Preparing, approving and cancelling a request.                          *)

\* A key that already has a request is answered as a replay or a conflict and
\* changes nothing.
AcceptPrepare(w, u, r, p, d) ==
    /\ job[w] = IdleJob
    /\ role[u] \in {"owner", "manager"}
    /\ SqlLive(d) /\ grant[d] = "active"
    /\ status[r] = "absent"
    /\ r \in EmployeeRequests => r \in provenance
    /\ job' = [job EXCEPT ![w] = InFlight("prepare", u, r, p, d)]
    /\ UNCHANGED <<taskVars, policyVars, worldVars>>

\* Mutant: the source guard forgets the proposal.
SourceGuardWithoutProposal(r, u, d) ==
    r \in EmployeeRequests => role[u] \in {"owner", "manager"} /\ SqlLive(d)

\* The write-time source guard of an employee proposal.
SourceGuard(r, u, d) ==
    r \in EmployeeRequests =>
        r \in provenance /\ role[u] \in {"owner", "manager"} /\ SqlLive(d)

\* UNIQUE(tenant, idempotency_key), the grant trigger, the source guard.
CommitPrepare(w) ==
    LET r == job[w].request
        d == job[w].via IN
    /\ job[w].op = "prepare"
    /\ status[r] = "absent"
    /\ grant[d] = "active"
    /\ SourceGuard(r, job[w].user, d)
    /\ status'  = [status EXCEPT ![r] = "prepared"]
    /\ payload' = [payload EXCEPT ![r] = job[w].payload]
    /\ via'     = [via EXCEPT ![r] = d]
    /\ job' = [job EXCEPT ![w] = IdleJob]
    /\ UNCHANGED <<approver, permitVars, effectVars, policyVars, worldVars>>

AcceptApprove(w, u, r) ==
    /\ job[w] = IdleJob
    /\ role[u] = "owner"
    /\ status[r] = "prepared"
    /\ job' = [job EXCEPT ![w] = InFlight("approve", u, r, None, None)]
    /\ UNCHANGED <<taskVars, policyVars, worldVars>>

CommitApprove(w) ==
    LET r == job[w].request IN
    /\ job[w].op = "approve"
    /\ status[r] = "prepared"
    /\ status'   = [status EXCEPT ![r] = "approved"]
    /\ approver' = [approver EXCEPT ![r] = job[w].user]
    /\ job' = [job EXCEPT ![w] = IdleJob]
    /\ UNCHANGED <<payload, via, permitVars, effectVars, policyVars, worldVars>>

AcceptCancel(w, u, r) ==
    /\ job[w] = IdleJob
    /\ role[u] = "owner"
    /\ status[r] \in {"prepared", "approved"}
    /\ job' = [job EXCEPT ![w] = InFlight("cancel", u, r, None, None)]
    /\ UNCHANGED <<taskVars, policyVars, worldVars>>

\* Mutant: cancellation trusts the status it read.
CommitCancelUnconditionally(w) ==
    /\ job[w].op = "cancel"
    /\ status' = [status EXCEPT ![job[w].request] = "cancelled"]
    /\ job' = [job EXCEPT ![w] = IdleJob]
    /\ UNCHANGED <<payload, via, approver, permitVars, effectVars, policyVars, worldVars>>

CommitCancel(w) ==
    LET r == job[w].request IN
    /\ job[w].op = "cancel"
    /\ status[r] \in {"prepared", "approved"}
    /\ status' = [status EXCEPT ![r] = "cancelled"]
    /\ job' = [job EXCEPT ![w] = IdleJob]
    /\ UNCHANGED <<payload, via, approver, permitVars, effectVars, policyVars, worldVars>>
-----------------------------------------------------------------------------
(* The single-use just-in-time permit.                                     *)

\* Mutant: once approved is enough, cancelled or not.
OwnApprovalOnce(r, u) == approver[r] = u /\ grant[via[r]] = "active"

\* "Exact approval by this owner under a live grant": read by the handler and
\* checked again by the request trigger of migration 064 at the INSERT.
OwnApproval(r, u) ==
    /\ status[r] = "approved"
    /\ approver[r] = u
    /\ grant[via[r]] = "active"

AcceptPermit(w, u, r) ==
    /\ job[w] = IdleJob
    /\ role[u] = "owner"
    /\ AuthorityPermits
    /\ OwnApproval(r, u)
    /\ permit[r] = "none"
    /\ job' = [job EXCEPT ![w] = InFlight("permit", u, r, None, None)]
    /\ UNCHANGED <<taskVars, policyVars, worldVars>>

\* UNIQUE(task_request_id): one permit per request, for ever.
CommitPermit(w) ==
    LET r == job[w].request
        u == job[w].user IN
    /\ job[w].op = "permit"
    /\ OwnApproval(r, u)
    /\ permit[r] = "none"
    /\ permit' = [permit EXCEPT ![r] = "active"]
    /\ holder' = [holder EXCEPT ![r] = u]
    /\ job' = [job EXCEPT ![w] = IdleJob]
    /\ UNCHANGED <<requestVars, effectVars, policyVars, worldVars>>

\* Mutant: expiry is written to the request instead of the permit.
RequestExpires(r) ==
    /\ permit[r] = "active"
    /\ status' = [status EXCEPT ![r] = "expired"]
    /\ UNCHANGED <<payload, via, approver, permitVars, effectVars, policyVars, worldVars, job>>

\* Five minutes pass; the row keeps status='active' but every check compares
\* expires_at as an instant.
PermitExpires(r) ==
    /\ permit[r] = "active"
    /\ permit' = [permit EXCEPT ![r] = "expired"]
    /\ UNCHANGED <<requestVars, holder, effectVars, policyVars, worldVars, job>>
-----------------------------------------------------------------------------
(* Execution.                                                              *)

PermitUsable(r, u) == permit[r] = "active" /\ holder[r] = u
WithinDailyCap(d)  == Cardinality(UsedToday(d)) < DailyCap

\* Every check executeTask and the runtime guard make on what they read.
ExecutionAuthorised(r, u) ==
    /\ role[u] = "owner"
    /\ AuthorityPermits
    /\ OwnApproval(r, u)
    /\ PermitUsable(r, u)
    /\ JsLive(via[r])
    /\ WithinDailyCap(via[r])

AcceptExecute(w, u, r) ==
    /\ job[w] = IdleJob
    /\ ExecutionAuthorised(r, u)
    /\ job' = [job EXCEPT ![w] = InFlight("execute", u, r, payload[r], None)]
    /\ UNCHANGED <<taskVars, policyVars, worldVars>>

\* Mutants: the batch relies on the membership and containment, or on the count
\* of receipts, that the handler read before it.
EffectGuardStaleAuthority(r, u) ==
    OwnApproval(r, u) /\ PermitUsable(r, u) /\ WithinDailyCap(via[r])
EffectGuardStaleCount(r, u) ==
    role[u] = "owner" /\ AuthorityPermits /\ OwnApproval(r, u) /\ PermitUsable(r, u)

\* What the effect UPDATE and its triggers check again inside the transaction.
\* The delegation is not among them.
EffectGuard(r, u) ==
    /\ role[u] = "owner"
    /\ AuthorityPermits
    /\ OwnApproval(r, u)
    /\ PermitUsable(r, u)
    /\ WithinDailyCap(via[r])

\* The request row, the permit (by trigger), the task row and the receipt.
TaskEffect(r, p) ==
    /\ effects[r] = 0                               \* UNIQUE(source_request_id)
    /\ p = payload[r]                               \* the receipt trigger
    /\ status'      = [status EXCEPT ![r] = "executed"]
    /\ permit'      = [permit EXCEPT ![r] = "consumed"]
    /\ effects'     = [effects EXCEPT ![r] = @ + 1]
    /\ taskPayload' = [taskPayload EXCEPT ![r] = p]
    /\ today'       = today \cup {r}
    /\ UNCHANGED <<payload, via, approver, holder>>

CommitExecute(w) ==
    LET r == job[w].request IN
    /\ job[w].op = "execute"
    /\ EffectGuard(r, job[w].user)
    /\ TaskEffect(r, job[w].payload)
    /\ job' = [job EXCEPT ![w] = IdleJob]
    /\ UNCHANGED <<policyVars, worldVars>>

\* An error reply, a batch that matched nothing or was aborted, a lost isolate.
Abandon(w) ==
    /\ job[w] # IdleJob
    /\ job' = [job EXCEPT ![w] = IdleJob]
    /\ UNCHANGED <<taskVars, policyVars, worldVars>>
-----------------------------------------------------------------------------
(* The world the handlers read.                                            *)

DelegationLapses(d) ==
    /\ delegation[d] = "active"
    /\ delegation' = [delegation EXCEPT ![d] = "overdue"]
    /\ UNCHANGED <<taskVars, grant, worldVars, job>>

\* date('now') moves on: yesterday's receipts stop counting, and the text
\* comparison of expires_at now finds the overdue delegations expired.
NewDay ==
    /\ today' = {}
    /\ delegation' = [d \in Delegations |->
                        IF delegation[d] = "overdue" THEN "expired" ELSE delegation[d]]
    /\ UNCHANGED <<requestVars, permitVars, effects, taskPayload, grant, worldVars, job>>

MembershipChange(u, new) ==
    /\ role[u] # new
    /\ role' = [role EXCEPT ![u] = new]
    /\ UNCHANGED <<taskVars, policyVars, authority, provenance, job>>

\* "contained" stands for restricted and suspended; revoked is terminal.
AuthorityTransition(new) ==
    /\ authority \notin {new, "revoked"}
    /\ authority' = new
    /\ UNCHANGED <<taskVars, policyVars, role, provenance, job>>

\* The review, the workflow, the employee or a reviewer's membership changes,
\* so that the provenance query stops, or starts again, to find the proposal.
ProvenanceChange(r) ==
    /\ provenance' = IF r \in provenance THEN provenance \ {r} ELSE provenance \cup {r}
    /\ UNCHANGED <<taskVars, policyVars, role, authority, job>>
-----------------------------------------------------------------------------
Accept(w) ==
    \E u \in Users :
        \/ \E d \in Delegations : AcceptGrant(w, u, d)
        \/ \E r \in Requests, p \in Payloads, d \in Delegations : AcceptPrepare(w, u, r, p, d)
        \/ \E r \in Requests : \/ AcceptApprove(w, u, r) \/ AcceptCancel(w, u, r)
                               \/ AcceptPermit(w, u, r)  \/ AcceptExecute(w, u, r)

\* The commits other than the one with the effect.
CommitPaperwork(w) ==
    \/ CommitGrant(w) \/ CommitPrepare(w) \/ CommitApprove(w)
    \/ CommitCancel(w) \/ CommitPermit(w)

PolicyChange ==
    \E u \in Users, d \in Delegations :
        \/ CreateDelegation(u, d) \/ PauseDelegation(u, d)
        \/ RevokeDelegation(u, d) \/ RevokeGrant(u, d)

WorldChange ==
    \/ \E d \in Delegations : DelegationLapses(d)
    \/ NewDay
    \/ \E u \in Users, new \in {"owner", "manager", "none"} : MembershipChange(u, new)
    \/ \E new \in {"active", "contained", "revoked"} : AuthorityTransition(new)
    \/ \E r \in EmployeeRequests : ProvenanceChange(r)
    \/ \E r \in Requests : PermitExpires(r)

Next ==
    \/ \E w \in Workers : Accept(w) \/ CommitPaperwork(w) \/ CommitExecute(w) \/ Abandon(w)
    \/ PolicyChange
    \/ WorldChange

Spec == Init /\ [][Next]_vars
-----------------------------------------------------------------------------
(* Properties.                                                             *)

\* A task exists exactly for the executed requests, exactly one for each; it
\* holds the payload the owner approved; the permit that paid for it was issued
\* to that same owner and is spent, and a spent permit always paid for a task.
\* In particular a cancelled request never has a task, and a permit that ran
\* out unused never yields one.
\* (Two handlers racing on one request, a cancel racing an execute.)
ExactlyApprovedEffect ==
    \A r \in Requests :
        /\ effects[r] = IF status[r] = "executed" THEN 1 ELSE 0
        /\ status[r] = "executed" <=> permit[r] = "consumed"
        /\ status[r] = "executed" =>
              /\ taskPayload[r] = payload[r]
              /\ approver[r] \in Users
              /\ holder[r] = approver[r]

\* What makes the property above (and the allowance below) inductive: a permit
\* exists only behind an approval and belongs to the approver, who is fixed from
\* then on; only executed requests have receipts today; and a handler in flight
\* carries what it has read about a request that already exists.
PermitBehindApproval ==
    \A r \in Requests :
        /\ permit[r] # "none" => status[r] \notin {"absent", "prepared"} /\ holder[r] = approver[r]
        /\ status[r] \in {"approved", "executed"} => approver[r] \in Users
        /\ r \in today => status[r] = "executed"
JobsWellFormed ==
    \A w \in Workers :
        /\ job[w].op # "idle" => job[w].user \in Users
        /\ job[w].op \notin {"idle", "grant"} => job[w].request \in Requests
        /\ job[w].op \in {"grant", "prepare"} => job[w].via \in Delegations
        /\ job[w].op = "prepare" => job[w].payload \in Payloads
TaskInvariant == TypeOK /\ JobsWellFormed /\ PermitBehindApproval /\ ExactlyApprovedEffect

\* However many handlers read the same count of receipts before any of them
\* commits, no delegation yields more tasks in a day than it allows.
DailyCapHolds == \A d \in Delegations : Cardinality(UsedToday(d)) <= DailyCap

\* The authority that produces a task is the one in force when the batch
\* commits, not the one the handler read: the permit's holder is still an
\* owner, the agent is not contained, and the execution grant is not revoked.
EffectOnlyUnderLiveAuthority ==
    [][\A r \in Requests : effects'[r] # effects[r] =>
          /\ role[approver[r]] = "owner"
          /\ authority = "active"
          /\ grant[via[r]] = "active"]_vars

\* A request derived from an employee proposal is only ever prepared while that
\* proposal is approved and current, whatever the handler read before.
PreparedFromLiveSource ==
    [][\A r \in EmployeeRequests :
          status[r] = "absent" /\ status'[r] # "absent" => r \in provenance]_vars

\* "Bounded execution is permitted only when the complete control chain agrees
\* on the exact request at execution time" (docs/AGENT_RUNTIME_GOVERNANCE.md):
\* the delegation, too, is live when the task appears.
EffectUnderLiveDelegation ==
    [][\A r \in Requests : effects'[r] # effects[r] => SqlLive(via[r])]_vars

\* The handlers, with all their reads, races and lost replies, do nothing the
\* atomic specification does not do.
Bounded == INSTANCE BoundedTask
ImplementsBoundedTask == Bounded!Spec
=============================================================================
