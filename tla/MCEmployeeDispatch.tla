------------------------- MODULE MCEmployeeDispatch -------------------------
(* Instances of EmployeeDispatch for TLC. *)
EXTENDS EmployeeDispatch, TLC

MCSymmetry ==
    Permutations(Dispatchers) \cup Permutations(Workers) \cup Permutations(EmployeeRequests)

\* How many of the conditions an execution depends on have been withdrawn.
Withdrawn ==
    (IF authority # "active" THEN 1 ELSE 0)
      + Cardinality({u \in Users : role[u] # "owner"})
      + Cardinality({d \in Delegations : delegation[d] \notin {"none", "active"}})
      + Cardinality({d \in Delegations : grant[d] = "revoked"})
      + Cardinality(EmployeeRequests \ provenance)

\* A bound on the world, not on the dispatcher: one withdrawal at a time.  States
\* with a second one are checked, but not what follows them: one denies already.
MCBound == Withdrawn <= 1

\* For liveness: start where the manual handlers have done their part, in a
\* reachable state in which every employee request is approved by its owner and
\* holds an active permit, and leave the world (delegations, memberships,
\* containment, cancellation) out of the next-state relation.  Its changes only
\* turn a check into a denial, which CheckFails and Crash already cover.
MCReadyInit ==
    LET owner == CHOOSE u \in Users : TRUE
        d     == CHOOSE e \in Delegations : TRUE
        p     == CHOOSE q \in Payloads : TRUE IN
    /\ delegation  = [e \in Delegations |-> IF e = d THEN "active" ELSE "none"]
    /\ grant       = [e \in Delegations |-> IF e = d THEN "active" ELSE "none"]
    /\ status      = [r \in Requests |-> "approved"]
    /\ payload     = [r \in Requests |-> p]
    /\ via         = [r \in Requests |-> d]
    /\ approver    = [r \in Requests |-> owner]
    /\ permit      = [r \in Requests |-> "active"]
    /\ holder      = [r \in Requests |-> owner]
    /\ effects     = [r \in Requests |-> 0]
    /\ taskPayload = [r \in Requests |-> None]
    /\ today       = {}
    /\ role        = [u \in Users |-> "owner"]
    /\ authority   = "active"
    /\ provenance  = EmployeeRequests
    /\ job         = [w \in Workers |-> IdleJob]
    /\ queue       = [r \in EmployeeRequests |-> NoRow]
    /\ control     = "open"
    /\ dispatcher  = [k \in Dispatchers |-> IdleDispatch]

MCDispatchNext ==
    \/ \E u \in Users : OwnerStop(u) \/ \E r \in EmployeeRequests : Enqueue(u, r)
    \/ OperatorEnable
    \/ \E k \in Dispatchers : Sweep(k) \/ Crash(k)
    \/ \E r \in EmployeeRequests : Timer(r) \/ SessionEnds(r) \/ (PermitExpires(r) /\ UNCHANGED dispatchVars)

MCLiveSpec == MCReadyInit /\ [][MCDispatchNext]_allVars /\ DispatchFairness
=============================================================================
