------------------------ MODULE TaskExecutionProofs ------------------------
(***************************************************************************)
(* Theorems about TaskExecution for every value of its constants.          *)
(*                                                                         *)
(* TaskInvariant is inductive.  TypeOK and ExactlyApprovedEffect follow    *)
(* from it, DailyCapHolds is preserved beside it, and with it every step   *)
(* of the handlers is a step of BoundedTask or leaves its variables alone. *)
(***************************************************************************)
EXTENDS TaskExecution, FiniteSetTheorems, TLAPS

USE DEF taskVars, requestVars, permitVars, effectVars, policyVars, worldVars, vars
-----------------------------------------------------------------------------
(* The inductive invariant.                                                *)

\* The initial tables are empty and every worker is idle.
LEMMA InitInvariant == Init => TaskInvariant
  BY ConstantsAssumption
  DEF Init, TaskInvariant, TypeOK, JobsWellFormed, PermitBehindApproval,
      ExactlyApprovedEffect, DelegationStates, Jobs, IdleJob, InFlight, Operations

\* A step that touches only policy, the world or a worker's job keeps what the
\* invariant says of requests.
LEMMA TablesUntouched ==
  ASSUME TaskInvariant, UNCHANGED taskVars
  PROVE  (PermitBehindApproval /\ ExactlyApprovedEffect)'
  BY DEF TaskInvariant, PermitBehindApproval, ExactlyApprovedEffect

\* Delegations and grants.
LEMMA PolicyChangeInvariant ==
  ASSUME TaskInvariant, PolicyChange
  PROVE  TaskInvariant'
<1>1. UNCHANGED <<taskVars, worldVars, job>>
  BY DEF PolicyChange, CreateDelegation, PauseDelegation, RevokeDelegation, RevokeGrant
<1>2. (PermitBehindApproval /\ ExactlyApprovedEffect)'
  BY <1>1, TablesUntouched
<1>3. delegation' \in [Delegations -> DelegationStates]
  BY DEF TaskInvariant, TypeOK, PolicyChange, CreateDelegation, PauseDelegation,
         RevokeDelegation, RevokeGrant, DelegationStates
<1>4. grant' \in [Delegations -> {"none", "active", "revoked"}]
  BY DEF TaskInvariant, TypeOK, PolicyChange, CreateDelegation, PauseDelegation,
         RevokeDelegation, RevokeGrant
<1>5. TypeOK'
  BY <1>1, <1>3, <1>4 DEF TaskInvariant, TypeOK
<1>6. JobsWellFormed'
  BY <1>1 DEF TaskInvariant, JobsWellFormed
<1> QED
  BY <1>2, <1>5, <1>6 DEF TaskInvariant

\* Time, memberships, containment, provenance.
LEMMA WorldChangeInvariant ==
  ASSUME TaskInvariant, WorldChange
  PROVE  TaskInvariant'
<1> USE DEF TaskInvariant
<1>1. JobsWellFormed'
  BY DEF JobsWellFormed, WorldChange, DelegationLapses, NewDay, MembershipChange,
         AuthorityTransition, ProvenanceChange, PermitExpires
<1>2. CASE \E d \in Delegations : DelegationLapses(d)
  <2>1. TypeOK'
    BY <1>2 DEF TypeOK, DelegationLapses, DelegationStates
  <2> QED
    BY <1>1, <1>2, <2>1, TablesUntouched DEF DelegationLapses
<1>3. CASE NewDay
  <2>1. TypeOK'
    BY <1>3 DEF TypeOK, NewDay, DelegationStates
  <2>2. PermitBehindApproval'
    BY <1>3 DEF NewDay, PermitBehindApproval
  <2>3. ExactlyApprovedEffect'
    BY <1>3 DEF NewDay, ExactlyApprovedEffect
  <2> QED
    BY <1>1, <2>1, <2>2, <2>3
<1>4. CASE \E u \in Users, new \in {"owner", "manager", "none"} : MembershipChange(u, new)
  <2>1. TypeOK'
    BY <1>4 DEF TypeOK, MembershipChange
  <2> QED
    BY <1>1, <1>4, <2>1, TablesUntouched DEF MembershipChange
<1>5. CASE \E new \in {"active", "contained", "revoked"} : AuthorityTransition(new)
  <2>1. TypeOK'
    BY <1>5 DEF TypeOK, AuthorityTransition
  <2> QED
    BY <1>1, <1>5, <2>1, TablesUntouched DEF AuthorityTransition
<1>6. CASE \E r \in EmployeeRequests : ProvenanceChange(r)
  <2>1. TypeOK'
    BY <1>6 DEF TypeOK, ProvenanceChange
  <2> QED
    BY <1>1, <1>6, <2>1, TablesUntouched DEF ProvenanceChange
<1>7. CASE \E r \in Requests : PermitExpires(r)
  <2> PICK r \in Requests : PermitExpires(r)
    BY <1>7
  <2>1. TypeOK'
    BY DEF TypeOK, PermitExpires
  <2>2. PermitBehindApproval'
    BY DEF TypeOK, PermitExpires, PermitBehindApproval
  <2>3. ExactlyApprovedEffect'
    BY DEF TypeOK, PermitExpires, ExactlyApprovedEffect
  <2> QED
    BY <1>1, <2>1, <2>2, <2>3
<1> QED
  BY <1>2, <1>3, <1>4, <1>5, <1>6, <1>7 DEF WorldChange

\* The idle job is a well-formed job.
LEMMA IdleJobType == IdleJob \in Jobs /\ IdleJob.op = "idle"
  BY DEF IdleJob, InFlight, Jobs, Operations

\* A worker that becomes idle leaves the other jobs as they were.
LEMMA JobEnds ==
  ASSUME TaskInvariant, NEW w \in Workers, job' = [job EXCEPT ![w] = IdleJob]
  PROVE  /\ job' \in [Workers -> Jobs]
         /\ JobsWellFormed'
  BY IdleJobType DEF TaskInvariant, TypeOK, JobsWellFormed

\* The Accept actions, which only read, and Abandon.
LEMMA ReadInvariant ==
  ASSUME TaskInvariant, NEW w \in Workers, Accept(w) \/ Abandon(w)
  PROVE  TaskInvariant'
<1>1. UNCHANGED <<taskVars, policyVars, worldVars>>
  BY DEF Accept, Abandon, AcceptGrant, AcceptPrepare, AcceptApprove, AcceptCancel,
         AcceptPermit, AcceptExecute
<1>2. job' \in [Workers -> Jobs] /\ JobsWellFormed'
  <2>1. CASE Abandon(w)
    BY <2>1, JobEnds DEF Abandon
  <2>2. CASE Accept(w)
    <3> PICK u \in Users :
          \/ \E d \in Delegations : AcceptGrant(w, u, d)
          \/ \E r \in Requests, p \in Payloads, d \in Delegations :
                 AcceptPrepare(w, u, r, p, d)
          \/ \E r \in Requests : \/ AcceptApprove(w, u, r) \/ AcceptCancel(w, u, r)
                                 \/ AcceptPermit(w, u, r)  \/ AcceptExecute(w, u, r)
      BY <2>2 DEF Accept
    <3>1. CASE \E d \in Delegations : AcceptGrant(w, u, d)
      BY <3>1 DEF AcceptGrant, InFlight, IdleJob, Jobs, Operations, TaskInvariant, TypeOK, JobsWellFormed
    <3>2. CASE \E r \in Requests, p \in Payloads, d \in Delegations : AcceptPrepare(w, u, r, p, d)
      BY <3>2 DEF AcceptPrepare, InFlight, IdleJob, Jobs, Operations, TaskInvariant, TypeOK, JobsWellFormed
    <3>3. CASE \E r \in Requests : AcceptApprove(w, u, r) \/ AcceptCancel(w, u, r)
      <4> PICK r \in Requests, op \in {"approve", "cancel"} :
             job' = [job EXCEPT ![w] = InFlight(op, u, r, None, None)]
        BY <3>3 DEF AcceptApprove, AcceptCancel
      <4> DEFINE started == InFlight(op, u, r, None, None)
      <4>1. started \in Jobs /\ started.op = op /\ started.user = u /\ started.request = r
        BY DEF InFlight, Jobs, Operations
      <4>2. job' = [job EXCEPT ![w] = started]
        OBVIOUS
      <4> HIDE DEF started
      <4> QED
        BY <4>1, <4>2 DEF TaskInvariant, TypeOK, JobsWellFormed
    <3>4. CASE \E r \in Requests : AcceptPermit(w, u, r)
      BY <3>4 DEF AcceptPermit, InFlight, IdleJob, Jobs, Operations, TaskInvariant, TypeOK, JobsWellFormed
    <3>5. CASE \E r \in Requests : AcceptExecute(w, u, r)
      <4> PICK r \in Requests : AcceptExecute(w, u, r)
        BY <3>5
      <4> DEFINE started == InFlight("execute", u, r, payload[r], None)
      <4>1. payload[r] \in Payloads \cup {None}
        BY DEF TaskInvariant, TypeOK
      <4>2. started \in Jobs /\ started.op = "execute" /\ started.user = u /\ started.request = r
        BY <4>1 DEF InFlight, Jobs, Operations
      <4>3. job' = [job EXCEPT ![w] = started]
        BY DEF AcceptExecute
      <4> HIDE DEF started
      <4> QED
        BY <4>2, <4>3 DEF TaskInvariant, TypeOK, JobsWellFormed
    <3> QED
      BY <3>1, <3>2, <3>3, <3>4, <3>5
  <2> QED
    BY <2>1, <2>2
<1>3. TypeOK'
  BY <1>1, <1>2 DEF TaskInvariant, TypeOK
<1> QED
  BY <1>1, <1>2, <1>3, TablesUntouched DEF TaskInvariant

\* The commits that have no effect outside the request's own row.
LEMMA PaperworkInvariant ==
  ASSUME TaskInvariant, NEW w \in Workers, CommitPaperwork(w)
  PROVE  TaskInvariant'
<1> DEFINE r == job[w].request
<1> USE DEF TaskInvariant
<1>1. job' \in [Workers -> Jobs] /\ JobsWellFormed'
  BY JobEnds DEF CommitPaperwork, CommitGrant, CommitPrepare, CommitApprove, CommitCancel, CommitPermit
<1>2. CASE CommitGrant(w)
  <2>1. TypeOK'
    BY <1>1, <1>2 DEF CommitGrant, TypeOK
  <2> QED
    BY <1>1, <1>2, <2>1, TablesUntouched DEF CommitGrant
<1>3. CASE CommitPrepare(w)
  <2>0. r \in Requests /\ job[w].payload \in Payloads /\ job[w].via \in Delegations
    BY <1>3 DEF CommitPrepare, JobsWellFormed
  <2>1. TypeOK'
    BY <1>1, <1>3, <2>0 DEF CommitPrepare, TypeOK
  <2>2. PermitBehindApproval' /\ ExactlyApprovedEffect'
    BY <1>3, <2>0 DEF CommitPrepare, TypeOK, PermitBehindApproval, ExactlyApprovedEffect
  <2> QED
    BY <1>1, <2>1, <2>2
<1>4. CASE CommitApprove(w)
  <2>0. r \in Requests /\ job[w].user \in Users
    BY <1>4 DEF CommitApprove, JobsWellFormed
  <2>1. TypeOK'
    BY <1>1, <1>4, <2>0 DEF CommitApprove, TypeOK
  <2>2. PermitBehindApproval' /\ ExactlyApprovedEffect'
    BY <1>4, <2>0 DEF CommitApprove, TypeOK, PermitBehindApproval, ExactlyApprovedEffect
  <2> QED
    BY <1>1, <2>1, <2>2
<1>5. CASE CommitCancel(w)
  <2>0. r \in Requests
    BY <1>5 DEF CommitCancel, JobsWellFormed
  <2>1. TypeOK'
    BY <1>1, <1>5, <2>0 DEF CommitCancel, TypeOK
  <2>2. PermitBehindApproval' /\ ExactlyApprovedEffect'
    BY <1>5, <2>0 DEF CommitCancel, TypeOK, PermitBehindApproval, ExactlyApprovedEffect
  <2> QED
    BY <1>1, <2>1, <2>2
<1>6. CASE CommitPermit(w)
  <2>0. r \in Requests /\ job[w].user \in Users
    BY <1>6 DEF CommitPermit, JobsWellFormed
  <2>1. TypeOK'
    BY <1>1, <1>6, <2>0 DEF CommitPermit, TypeOK
  <2>2. PermitBehindApproval' /\ ExactlyApprovedEffect'
    BY <1>6, <2>0 DEF CommitPermit, OwnApproval, TypeOK, PermitBehindApproval, ExactlyApprovedEffect
  <2> QED
    BY <1>1, <2>1, <2>2
<1> QED
  BY <1>2, <1>3, <1>4, <1>5, <1>6 DEF CommitPaperwork

\* The effect, wherever it is called from: an approved request with a usable
\* permit becomes an executed one.
LEMMA EffectInvariant ==
  ASSUME TaskInvariant, NEW r \in Requests, NEW u \in Users, NEW p,
         EffectGuard(r, u), TaskEffect(r, p)
  PROVE  /\ status' \in [Requests -> {"absent", "prepared", "approved", "executed", "cancelled"}]
         /\ permit' \in [Requests -> {"none", "active", "expired", "consumed"}]
         /\ effects' \in [Requests -> Nat]
         /\ taskPayload' \in [Requests -> Payloads \cup {None}]
         /\ today' \subseteq Requests
         /\ PermitBehindApproval'
         /\ ExactlyApprovedEffect'
<1> USE DEF TaskInvariant, TypeOK, TaskEffect
<1>1. p \in Payloads \cup {None}
  OBVIOUS
<1>2. status[r] = "approved" /\ approver[r] = u /\ holder[r] = u /\ permit[r] = "active"
  BY DEF EffectGuard, OwnApproval, PermitUsable
<1>3. PermitBehindApproval'
  BY <1>2 DEF PermitBehindApproval
<1>4. ExactlyApprovedEffect'
  BY <1>2 DEF ExactlyApprovedEffect
<1> QED
  BY <1>1, <1>3, <1>4

LEMMA ExecuteInvariant ==
  ASSUME TaskInvariant, NEW w \in Workers, CommitExecute(w)
  PROVE  TaskInvariant'
<1>1. job[w].request \in Requests /\ job[w].user \in Users
  BY DEF CommitExecute, TaskInvariant, JobsWellFormed
<1>2. EffectGuard(job[w].request, job[w].user) /\ TaskEffect(job[w].request, job[w].payload)
  BY DEF CommitExecute
<1>3. job' \in [Workers -> Jobs] /\ JobsWellFormed'
  BY JobEnds DEF CommitExecute
<1>4. TypeOK'
  BY <1>1, <1>2, <1>3, EffectInvariant DEF CommitExecute, TaskEffect, TaskInvariant, TypeOK
<1> QED
  BY <1>1, <1>2, <1>3, <1>4, EffectInvariant DEF TaskInvariant

\* TaskInvariant is inductive.
LEMMA NextInvariant == TaskInvariant /\ [Next]_vars => TaskInvariant'
<1> SUFFICES ASSUME TaskInvariant, [Next]_vars PROVE TaskInvariant'
  OBVIOUS
<1>1. ASSUME NEW w \in Workers, Accept(w) \/ CommitPaperwork(w) \/ CommitExecute(w) \/ Abandon(w)
      PROVE  TaskInvariant'
  BY <1>1, ReadInvariant, PaperworkInvariant, ExecuteInvariant
<1>2. CASE UNCHANGED vars
  BY <1>2 DEF TaskInvariant, TypeOK, JobsWellFormed, PermitBehindApproval, ExactlyApprovedEffect
<1> QED
  BY <1>1, <1>2, PolicyChangeInvariant, WorldChangeInvariant DEF Next

\* The invariant holds in every reachable state, for any number of users,
\* delegations, requests and concurrent handlers.
THEOREM InvariantHolds == Spec => []TaskInvariant
  BY InitInvariant, NextInvariant, PTL DEF Spec

\* The columns of every table keep to their domains.
THEOREM TypeCorrect == Spec => []TypeOK
<1>1. TaskInvariant => TypeOK
  BY DEF TaskInvariant
<1> QED
  BY <1>1, InvariantHolds, PTL

\* A task exists exactly for the executed requests, once, with the approved
\* payload, paid for by the approver's own single-use permit.
THEOREM EffectIsExactlyTheApproval == Spec => []ExactlyApprovedEffect
<1>1. TaskInvariant => ExactlyApprovedEffect
  BY DEF TaskInvariant
<1> QED
  BY <1>1, InvariantHolds, PTL
-----------------------------------------------------------------------------
(* The daily allowance.                                                    *)

\* Receipts of today are finitely many.
LEMMA UsedTodayFinite ==
  ASSUME TypeOK, NEW d
  PROVE  IsFiniteSet(UsedToday(d)) /\ Cardinality(UsedToday(d)) \in Nat
<1>1. UsedToday(d) \subseteq Requests
  BY DEF UsedToday, TypeOK
<1> QED
  BY <1>1, ConstantsAssumption, FS_Subset, FS_CardinalityType

\* A step that creates no receipt and moves no executed request to another
\* delegation keeps the allowance.
LEMMA NoNewReceipt ==
  ASSUME TaskInvariant, DailyCapHolds, today' \subseteq today,
         \A r \in today : via'[r] = via[r]
  PROVE  DailyCapHolds'
<1> SUFFICES ASSUME NEW d \in Delegations PROVE Cardinality(UsedToday(d)') <= DailyCap
  BY DEF DailyCapHolds
<1>1. UsedToday(d)' \subseteq UsedToday(d)
  BY DEF UsedToday
<1>2. IsFiniteSet(UsedToday(d)) /\ Cardinality(UsedToday(d)) \in Nat
  BY UsedTodayFinite DEF TaskInvariant
<1>3. Cardinality(UsedToday(d)') <= Cardinality(UsedToday(d)) /\ Cardinality(UsedToday(d)') \in Nat
  BY <1>1, <1>2, FS_Subset, FS_CardinalityType
<1> QED
  BY <1>2, <1>3, ConstantsAssumption DEF DailyCapHolds

\* The effect itself: its guard counts again, inside the transaction.
LEMMA EffectWithinCap ==
  ASSUME TaskInvariant, DailyCapHolds, NEW r \in Requests, NEW u, NEW p,
         EffectGuard(r, u), TaskEffect(r, p)
  PROVE  DailyCapHolds'
<1> SUFFICES ASSUME NEW d \in Delegations PROVE Cardinality(UsedToday(d)') <= DailyCap
  BY DEF DailyCapHolds
<1>1. IsFiniteSet(UsedToday(d)) /\ Cardinality(UsedToday(d)) \in Nat
  BY UsedTodayFinite DEF TaskInvariant
<1>2. Cardinality(UsedToday(d)) <= DailyCap
  BY DEF DailyCapHolds
<1>3. CASE via[r] = d
  <2>1. Cardinality(UsedToday(d)) < DailyCap
    BY <1>3 DEF EffectGuard, WithinDailyCap
  <2>2. UsedToday(d)' = UsedToday(d) \cup {r}
    BY <1>3 DEF TaskEffect, UsedToday
  <2>3. r \notin UsedToday(d)
    BY DEF EffectGuard, OwnApproval, UsedToday, TaskInvariant, PermitBehindApproval
  <2>4. Cardinality(UsedToday(d) \cup {r}) = Cardinality(UsedToday(d)) + 1
    BY <1>1, <2>3, FS_AddElement
  <2> QED
    BY <1>1, <2>1, <2>2, <2>4, ConstantsAssumption
<1>4. CASE via[r] # d
  <2>1. UsedToday(d)' = UsedToday(d)
    BY <1>4 DEF TaskEffect, UsedToday
  <2> QED
    BY <1>2, <2>1
<1> QED
  BY <1>3, <1>4

\* No interleaving of handlers exceeds the allowance.
LEMMA NextWithinCap ==
  ASSUME TaskInvariant, [Next]_vars, DailyCapHolds
  PROVE  DailyCapHolds'
<1>1. ASSUME NEW w \in Workers, CommitExecute(w) PROVE DailyCapHolds'
  <2>1. job[w].request \in Requests
    BY <1>1 DEF CommitExecute, TaskInvariant, JobsWellFormed
  <2> QED
    BY <1>1, <2>1, EffectWithinCap DEF CommitExecute
<1>2. ASSUME NEW w \in Workers, CommitPrepare(w) PROVE DailyCapHolds'
  <2>1. job[w].request \notin today
    BY <1>2 DEF CommitPrepare, TaskInvariant, PermitBehindApproval, JobsWellFormed
  <2>2. today' = today /\ via' = [via EXCEPT ![job[w].request] = job[w].via]
    BY <1>2 DEF CommitPrepare
  <2>3. \A r \in today : via'[r] = via[r]
    BY <2>1, <2>2 DEF TaskInvariant, TypeOK
  <2> QED
    BY <2>2, <2>3, NoNewReceipt
<1>3. ASSUME NEW w \in Workers,
             \/ Accept(w) \/ Abandon(w) \/ CommitGrant(w)
             \/ CommitApprove(w) \/ CommitCancel(w) \/ CommitPermit(w)
      PROVE  UNCHANGED <<today, via>>
  BY <1>3 DEF Accept, Abandon, AcceptGrant, AcceptPrepare, AcceptApprove, AcceptCancel,
              AcceptPermit, AcceptExecute, CommitGrant, CommitApprove, CommitCancel, CommitPermit
<1>4. CASE WorldChange \/ PolicyChange \/ UNCHANGED vars
  <2>1. today' \subseteq today /\ via' = via
    BY <1>4 DEF WorldChange, PolicyChange, CreateDelegation, PauseDelegation, RevokeDelegation,
                RevokeGrant, DelegationLapses, NewDay, MembershipChange, AuthorityTransition,
                ProvenanceChange, PermitExpires
  <2> QED
    BY <2>1, NoNewReceipt
<1> QED
  BY <1>1, <1>2, <1>3, <1>4, NoNewReceipt DEF Next, CommitPaperwork

\* However many handlers race, no delegation yields more tasks in a day than it
\* allows.
THEOREM CapTheorem == Spec => []DailyCapHolds
<1>1. Init => DailyCapHolds
  <2> SUFFICES ASSUME Init, NEW d \in Delegations PROVE Cardinality(UsedToday(d)) <= DailyCap
    BY DEF DailyCapHolds
  <2>1. UsedToday(d) = {}
    BY DEF Init, UsedToday
  <2> QED
    BY <2>1, FS_EmptySet, ConstantsAssumption
<1>2. TaskInvariant /\ DailyCapHolds /\ [Next]_vars => DailyCapHolds'
  BY NextWithinCap
<1> QED
  BY <1>1, <1>2, InvariantHolds, PTL DEF Spec
-----------------------------------------------------------------------------
(* What a step may never do.                                               *)

\* The steps that touch the effects, or a request that does not exist yet.
LEMMA OnlyCommitsChangeTables ==
  ASSUME TaskInvariant, [Next]_vars
  PROVE  /\ \/ UNCHANGED effects
            \/ \E w \in Workers : CommitExecute(w)
         /\ \A r \in Requests : status[r] = "absent" /\ status'[r] # "absent" =>
               \E w \in Workers : CommitPrepare(w) /\ job[w].request = r
<1>1. ASSUME NEW w \in Workers, Accept(w) \/ Abandon(w) \/ CommitGrant(w)
      PROVE  UNCHANGED <<effects, status>>
  BY <1>1 DEF Accept, Abandon, AcceptGrant, AcceptPrepare, AcceptApprove, AcceptCancel,
              AcceptPermit, AcceptExecute, CommitGrant
<1>2. CASE WorldChange \/ PolicyChange \/ UNCHANGED vars
  <2>1. UNCHANGED <<effects, status>>
    BY <1>2 DEF WorldChange, PolicyChange, CreateDelegation, PauseDelegation, RevokeDelegation,
                RevokeGrant, DelegationLapses, NewDay, MembershipChange, AuthorityTransition,
                ProvenanceChange, PermitExpires
  <2> QED
    BY <2>1
<1>3. ASSUME NEW w \in Workers, CommitApprove(w) \/ CommitCancel(w) \/ CommitPermit(w)
      PROVE  UNCHANGED effects /\ \A r \in Requests : status[r] = "absent" => status'[r] = "absent"
  BY <1>3 DEF CommitApprove, CommitCancel, CommitPermit, TaskInvariant, TypeOK, JobsWellFormed
<1>4. ASSUME NEW w \in Workers, CommitPrepare(w)
      PROVE  /\ UNCHANGED effects
             /\ \A r \in Requests : status'[r] # status[r] => job[w].request = r
  BY <1>4 DEF CommitPrepare, TaskInvariant, TypeOK
<1>5. ASSUME NEW w \in Workers, CommitExecute(w)
      PROVE  \A r \in Requests : status[r] = "absent" => status'[r] = "absent"
  BY <1>5 DEF CommitExecute, EffectGuard, OwnApproval, TaskEffect, TaskInvariant, TypeOK
<1> QED
  BY <1>1, <1>2, <1>3, <1>4, <1>5 DEF Next, CommitPaperwork

\* A task appears only by authority in force at the commit: an owner's, of an
\* agent that is not contained, under a grant that is not revoked.
THEOREM AuthorityIsLive == Spec => EffectOnlyUnderLiveAuthority
<1> DEFINE Live == \A r \in Requests : effects'[r] # effects[r] =>
                      /\ role[approver[r]] = "owner"
                      /\ authority = "active"
                      /\ grant[via[r]] = "active"
<1>1. TaskInvariant /\ [Next]_vars => [Live]_vars
  <2> SUFFICES ASSUME TaskInvariant, [Next]_vars, NEW r \in Requests, effects'[r] # effects[r]
               PROVE  /\ role[approver[r]] = "owner"
                      /\ authority = "active"
                      /\ grant[via[r]] = "active"
    OBVIOUS
  <2>1. PICK w \in Workers : CommitExecute(w)
    BY OnlyCommitsChangeTables
  <2>2. job[w].request = r
    BY <2>1 DEF CommitExecute, TaskEffect, TaskInvariant, TypeOK
  <2> QED
    BY <2>1, <2>2 DEF CommitExecute, EffectGuard, OwnApproval, AuthorityPermits
<1> QED
  BY <1>1, InvariantHolds, PTL DEF Spec, EffectOnlyUnderLiveAuthority

\* An employee request is prepared only while its proposal is approved and
\* current, whatever the handler had read.
THEOREM SourceIsLive == Spec => PreparedFromLiveSource
<1> DEFINE Sourced == \A r \in EmployeeRequests :
                        status[r] = "absent" /\ status'[r] # "absent" => r \in provenance
<1>1. TaskInvariant /\ [Next]_vars => [Sourced]_vars
  <2> SUFFICES ASSUME TaskInvariant, [Next]_vars, NEW r \in EmployeeRequests,
                      status[r] = "absent", status'[r] # "absent"
               PROVE  r \in provenance
    OBVIOUS
  <2>1. PICK w \in Workers : CommitPrepare(w) /\ job[w].request = r
    BY OnlyCommitsChangeTables, ConstantsAssumption
  <2> QED
    BY <2>1 DEF CommitPrepare, SourceGuard
<1> QED
  BY <1>1, InvariantHolds, PTL DEF Spec, PreparedFromLiveSource
-----------------------------------------------------------------------------
(* TaskExecution implements BoundedTask.                                   *)

\* The cardinality of the instance is that of FiniteSets.
LEMMA SameCardinality == \A S : Bounded!Cardinality(S) = Cardinality(S)
  BY DEF Bounded!Cardinality, Cardinality

\* The effect batch is the atomic Execute.
LEMMA EffectRefines ==
  ASSUME TaskInvariant, NEW r \in Requests, NEW u, NEW p, EffectGuard(r, u), TaskEffect(r, p)
  PROVE  Bounded!Execute(r)
<1>1. effects' = [effects EXCEPT ![r] = 1]
  BY DEF TaskEffect, TaskInvariant, TypeOK
<1>2. Bounded!Cardinality(Bounded!UsedToday(via[r])) < DailyCap
  <2>1. Cardinality(UsedToday(via[r])) < DailyCap
    BY DEF EffectGuard, WithinDailyCap
  <2>2. Bounded!UsedToday(via[r]) = UsedToday(via[r])
    BY DEF UsedToday, Bounded!UsedToday
  <2> QED
    BY <2>1, <2>2, SameCardinality
<1>3. taskPayload' = [taskPayload EXCEPT ![r] = payload[r]]
  BY DEF TaskEffect
<1>4. status[r] = "approved" /\ permit[r] = "active"
  BY DEF EffectGuard, OwnApproval, PermitUsable
<1>5. /\ status' = [status EXCEPT ![r] = "executed"]
      /\ permit' = [permit EXCEPT ![r] = "consumed"]
      /\ today'  = today \cup {r}
      /\ UNCHANGED <<payload, via, approver>>
  BY DEF TaskEffect
<1> QED
  BY <1>1, <1>2, <1>3, <1>4, <1>5 DEF Bounded!Execute

\* Every step of the handlers is an abstract step or changes nothing it sees.
LEMMA StepRefines ==
  ASSUME TaskInvariant, [Next]_vars
  PROVE  [Bounded!Next]_(Bounded!taskVars)
<1> USE DEF Bounded!taskVars, Bounded!Next
<1>1. ASSUME NEW w \in Workers, Accept(w) \/ Abandon(w) \/ CommitGrant(w)
      PROVE  UNCHANGED Bounded!taskVars
  BY <1>1 DEF Accept, Abandon, AcceptGrant, AcceptPrepare, AcceptApprove, AcceptCancel,
              AcceptPermit, AcceptExecute, CommitGrant
<1>2. ASSUME NEW w \in Workers, CommitPrepare(w) PROVE Bounded!Next
  <2>1. /\ job[w].request \in Requests /\ job[w].payload \in Payloads
        /\ job[w].via \in Delegations
    BY <1>2 DEF CommitPrepare, TaskInvariant, JobsWellFormed
  <2>2. Bounded!Prepare(job[w].request, job[w].payload, job[w].via)
    BY <1>2 DEF CommitPrepare, Bounded!Prepare
  <2> QED
    BY <2>1, <2>2
<1>3. ASSUME NEW w \in Workers, CommitApprove(w) PROVE Bounded!Next
  <2>1. job[w].request \in Requests /\ job[w].user \in Users
    BY <1>3 DEF CommitApprove, TaskInvariant, JobsWellFormed
  <2>2. Bounded!Approve(job[w].request, job[w].user)
    BY <1>3 DEF CommitApprove, Bounded!Approve
  <2> QED
    BY <2>1, <2>2
<1>4. ASSUME NEW w \in Workers, CommitCancel(w) PROVE Bounded!Next
  <2>1. job[w].request \in Requests
    BY <1>4 DEF CommitCancel, TaskInvariant, JobsWellFormed
  <2>2. Bounded!Cancel(job[w].request)
    BY <1>4 DEF CommitCancel, Bounded!Cancel
  <2> QED
    BY <2>1, <2>2
<1>5. ASSUME NEW w \in Workers, CommitPermit(w) PROVE Bounded!Next
  <2>1. job[w].request \in Requests
    BY <1>5 DEF CommitPermit, TaskInvariant, JobsWellFormed
  <2>2. Bounded!IssuePermit(job[w].request)
    BY <1>5 DEF CommitPermit, OwnApproval, Bounded!IssuePermit
  <2> QED
    BY <2>1, <2>2
<1>6. ASSUME NEW w \in Workers, CommitExecute(w) PROVE Bounded!Next
  <2>1. job[w].request \in Requests
    BY <1>6 DEF CommitExecute, TaskInvariant, JobsWellFormed
  <2>2. Bounded!Execute(job[w].request)
    BY <1>6, <2>1, EffectRefines DEF CommitExecute
  <2> QED
    BY <2>1, <2>2
<1>7. CASE PolicyChange \/ UNCHANGED vars
  BY <1>7 DEF PolicyChange, CreateDelegation, PauseDelegation, RevokeDelegation, RevokeGrant
<1>8. CASE WorldChange
  <2>1. ASSUME NEW r \in Requests, PermitExpires(r) PROVE Bounded!PermitExpires(r)
    BY <2>1 DEF PermitExpires, Bounded!PermitExpires
  <2>2. CASE NewDay
    BY <2>2 DEF NewDay, Bounded!NewDay
  <2>3. CASE \/ \E d \in Delegations : DelegationLapses(d)
             \/ \E u \in Users, new \in {"owner", "manager", "none"} : MembershipChange(u, new)
             \/ \E new \in {"active", "contained", "revoked"} : AuthorityTransition(new)
             \/ \E r \in EmployeeRequests : ProvenanceChange(r)
    BY <2>3 DEF DelegationLapses, MembershipChange, AuthorityTransition, ProvenanceChange
  <2> QED
    BY <1>8, <2>1, <2>2, <2>3 DEF WorldChange
<1> QED
  BY <1>1, <1>2, <1>3, <1>4, <1>5, <1>6, <1>7, <1>8 DEF Next, CommitPaperwork

\* The handlers implement the atomic specification.
THEOREM Refinement == Spec => ImplementsBoundedTask
<1>1. Init => Bounded!Init
  BY DEF Init, Bounded!Init
<1>2. TaskInvariant /\ [Next]_vars => [Bounded!Next]_(Bounded!taskVars)
  BY StepRefines
<1> QED
  BY <1>1, <1>2, InvariantHolds, PTL DEF Spec, ImplementsBoundedTask, Bounded!Spec
=============================================================================
