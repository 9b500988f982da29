---------------------------- MODULE BoundedTask ----------------------------
(***************************************************************************)
(* What bounded internal task execution promises, with no handlers,        *)
(* sessions, leases or races in it: a request is approved once, by one     *)
(* owner; one single-use permit may be issued for it; and one atomic       *)
(* Execute turns an approved request with an active permit into exactly    *)
(* one task carrying the approved payload, within the daily allowance of   *)
(* the delegation the request was prepared under.                          *)
(*                                                                         *)
(* TaskExecution (the HTTP handlers over D1) and EmployeeDispatch (the     *)
(* same with the queued dispatcher) are both shown to implement Spec.      *)
(***************************************************************************)
EXTENDS Naturals, FiniteSets

CONSTANTS Users, Delegations, Requests, Payloads,
          DailyCap,    \* max_daily_actions of every delegation
          None         \* the SQL NULL of the columns below

VARIABLES
    status,       \* agent_task_requests.status, "absent" before the INSERT
    payload,      \* payload_json / payload_hash of the request
    via,          \* delegation_id of the request
    approver,     \* approved_by_user_id
    permit,       \* the request's row in agent_jit_execution_permits
    effects,      \* number of agent_internal_tasks rows of the request
    taskPayload,  \* what that task row holds
    today         \* requests whose execution receipt was created this UTC day

taskVars == <<status, payload, via, approver, permit, effects, taskPayload, today>>

\* Receipts of today that count against the allowance of delegation d.
UsedToday(d) == {r \in today : via[r] = d}

Init ==
    /\ status      = [r \in Requests |-> "absent"]
    /\ payload     = [r \in Requests |-> None]
    /\ via         = [r \in Requests |-> None]
    /\ approver    = [r \in Requests |-> None]
    /\ permit      = [r \in Requests |-> "none"]
    /\ effects     = [r \in Requests |-> 0]
    /\ taskPayload = [r \in Requests |-> None]
    /\ today       = {}

Prepare(r, p, d) ==
    /\ status[r] = "absent"
    /\ status'  = [status EXCEPT ![r] = "prepared"]
    /\ payload' = [payload EXCEPT ![r] = p]
    /\ via'     = [via EXCEPT ![r] = d]
    /\ UNCHANGED <<approver, permit, effects, taskPayload, today>>

Approve(r, u) ==
    /\ status[r] = "prepared"
    /\ status'   = [status EXCEPT ![r] = "approved"]
    /\ approver' = [approver EXCEPT ![r] = u]
    /\ UNCHANGED <<payload, via, permit, effects, taskPayload, today>>

Cancel(r) ==
    /\ status[r] \in {"prepared", "approved"}
    /\ status' = [status EXCEPT ![r] = "cancelled"]
    /\ UNCHANGED <<payload, via, approver, permit, effects, taskPayload, today>>

IssuePermit(r) ==
    /\ status[r] = "approved"
    /\ permit[r] = "none"
    /\ permit' = [permit EXCEPT ![r] = "active"]
    /\ UNCHANGED <<status, payload, via, approver, effects, taskPayload, today>>

PermitExpires(r) ==
    /\ permit[r] = "active"
    /\ permit' = [permit EXCEPT ![r] = "expired"]
    /\ UNCHANGED <<status, payload, via, approver, effects, taskPayload, today>>

\* The one step with an effect: everything it needs, and everything it does.
Execute(r) ==
    /\ status[r] = "approved"
    /\ permit[r] = "active"
    /\ Cardinality(UsedToday(via[r])) < DailyCap
    /\ status'      = [status EXCEPT ![r] = "executed"]
    /\ permit'      = [permit EXCEPT ![r] = "consumed"]
    /\ effects'     = [effects EXCEPT ![r] = 1]
    /\ taskPayload' = [taskPayload EXCEPT ![r] = payload[r]]
    /\ today'       = today \cup {r}
    /\ UNCHANGED <<payload, via, approver>>

NewDay ==
    /\ today' = {}
    /\ UNCHANGED <<status, payload, via, approver, permit, effects, taskPayload>>

Next ==
    \/ \E r \in Requests, p \in Payloads, d \in Delegations : Prepare(r, p, d)
    \/ \E r \in Requests, u \in Users : Approve(r, u)
    \/ \E r \in Requests : Cancel(r) \/ IssuePermit(r) \/ PermitExpires(r) \/ Execute(r)
    \/ NewDay

Spec == Init /\ [][Next]_taskVars
=============================================================================
