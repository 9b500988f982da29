----------------------- MODULE EmployeeDispatchProofs -----------------------
(***************************************************************************)
(* Theorems about EmployeeDispatch for every value of its constants.       *)
(*                                                                         *)
(* DispatchInvariant is inductive.  The steps of the manual handlers keep  *)
(* it by the lemmas of TaskExecutionProofs; the effect of a sweep is the   *)
(* same TaskEffect behind a stronger guard, so what was proved of the      *)
(* effect there is used again here.                                        *)
(***************************************************************************)
EXTENDS EmployeeDispatch, TaskExecutionProofs

USE DEF taskVars, requestVars, permitVars, effectVars, policyVars, worldVars, vars,
        dispatchVars, allVars
-----------------------------------------------------------------------------
(* Facts about rows.                                                       *)

\* Settling a row changes its state, token and lease only.
LEMMA SettleType ==
  ASSUME NEW row \in Rows, NEW state \in {"queued", "completed", "dead_letter"}
  PROVE  /\ Settle(row, state) \in Rows
         /\ [Settle(row, state) EXCEPT !.due = FALSE] \in Rows
         /\ Settle(row, state).state = state
         /\ Settle(row, state).owner = row.owner
         /\ Settle(row, state).attempts = row.attempts
         /\ Settle(row, state).token = None
         /\ Settle(row, state).lease = FALSE
         /\ [Settle(row, state) EXCEPT !.due = FALSE].state = state
         /\ [Settle(row, state) EXCEPT !.due = FALSE].owner = row.owner
         /\ [Settle(row, state) EXCEPT !.due = FALSE].attempts = row.attempts
         /\ [Settle(row, state) EXCEPT !.due = FALSE].token = None
<1>1. /\ Settle(row, state) \in Rows
      /\ Settle(row, state).state = state /\ Settle(row, state).owner = row.owner
      /\ Settle(row, state).attempts = row.attempts /\ Settle(row, state).token = None
      /\ Settle(row, state).lease = FALSE
  BY DEF Settle, Rows
<1> QED
  BY <1>1 DEF Rows

\* The flags of a row say nothing of its state, token, owner and attempts.
LEMMA FlagType ==
  ASSUME NEW row \in Rows,
         NEW new \in {[row EXCEPT !.lease = FALSE], [row EXCEPT !.due = TRUE],
                      [row EXCEPT !.session = FALSE]}
  PROVE  /\ new \in Rows
         /\ new.state = row.state /\ new.owner = row.owner
         /\ new.token = row.token /\ new.attempts = row.attempts
  BY DEF Rows

LEMMA IdleDispatchType == IdleDispatch \in Dispatches /\ IdleDispatch.pc = "idle"
  BY DEF IdleDispatch, Dispatches, MaxAttempts

\* Steps that leave the tables of TaskExecution alone keep its invariant.
LEMMA VarsUnchanged ==
  ASSUME DispatchInvariant, UNCHANGED vars
  PROVE  TaskInvariant' /\ TypeOK'
<1>1. TaskInvariant'
  BY NextInvariant DEF DispatchInvariant
<1> QED
  BY <1>1 DEF TaskInvariant
-----------------------------------------------------------------------------
(* The inductive invariant.                                                *)

\* Nothing is queued and every sweep is idle.
LEMMA DispatchInitInvariant == DispatchInit => DispatchInvariant
<1> SUFFICES ASSUME DispatchInit PROVE DispatchInvariant
  OBVIOUS
<1>1. TaskInvariant /\ TypeOK
  BY InitInvariant DEF DispatchInit, TaskInvariant
<1>2. NoRow \in Rows /\ NoRow.state = "none" /\ NoRow.token = None
  BY DEF NoRow, Rows, MaxAttempts
<1>3. DispatchTypeOK
  BY <1>1, <1>2, IdleDispatchType DEF DispatchInit, DispatchTypeOK
<1>4. RowsWellFormed /\ DispatchesWellFormed /\ CompletedExactlyWhenExecuted /\ NoStrandedRow
  BY <1>2, IdleDispatchType, DispatchersAssumption
  DEF DispatchInit, RowsWellFormed, DispatchesWellFormed, CompletedExactlyWhenExecuted, NoStrandedRow
<1> QED
  BY <1>1, <1>3, <1>4 DEF DispatchInvariant

\* The manual handlers, other than the effect, never make a request executed or
\* undo an execution.
LEMMA ManualKeepsExecuted ==
  ASSUME DispatchInvariant, Manual
  PROVE  \A r \in Requests : status'[r] = "executed" <=> status[r] = "executed"
<1> USE DEF DispatchInvariant
<1>1. ASSUME NEW w \in Workers, Accept(w) \/ Abandon(w) \/ CommitGrant(w)
      PROVE  UNCHANGED status
  BY <1>1 DEF Accept, Abandon, AcceptGrant, AcceptPrepare, AcceptApprove, AcceptCancel,
              AcceptPermit, AcceptExecute, CommitGrant
<1>2. CASE WorldChange \/ PolicyChange
  BY <1>2 DEF WorldChange, PolicyChange, CreateDelegation, PauseDelegation, RevokeDelegation,
              RevokeGrant, DelegationLapses, NewDay, MembershipChange, AuthorityTransition,
              ProvenanceChange, PermitExpires
<1>3. ASSUME NEW w \in Workers,
             CommitPrepare(w) \/ CommitApprove(w) \/ CommitCancel(w) \/ CommitPermit(w)
      PROVE  \A r \in Requests : status'[r] = "executed" <=> status[r] = "executed"
  BY <1>3 DEF CommitPrepare, CommitApprove, CommitCancel, CommitPermit, TaskInvariant, TypeOK
<1> QED
  BY <1>1, <1>2, <1>3 DEF Manual, CommitPaperwork

LEMMA ManualInvariant ==
  ASSUME DispatchInvariant, Manual
  PROVE  DispatchInvariant'
<1>1. UNCHANGED dispatchVars /\ Next
  BY DEF Manual, Next
<1>2. TaskInvariant'
  BY <1>1, NextInvariant DEF DispatchInvariant
<1>3. DispatchTypeOK'
  BY <1>1, <1>2 DEF DispatchInvariant, DispatchTypeOK, TaskInvariant
<1>4. (RowsWellFormed /\ DispatchesWellFormed /\ NoStrandedRow)'
  BY <1>1 DEF DispatchInvariant, RowsWellFormed, DispatchesWellFormed, NoStrandedRow
<1>5. CompletedExactlyWhenExecuted'
  BY <1>1, ManualKeepsExecuted, ConstantsAssumption DEF DispatchInvariant, CompletedExactlyWhenExecuted
<1> QED
  BY <1>2, <1>3, <1>4, <1>5 DEF DispatchInvariant

\* Manual execution is behind the fence.
LEMMA ManualExecuteInvariant ==
  ASSUME DispatchInvariant, NEW w \in Workers, ManualExecute(w)
  PROVE  DispatchInvariant'
<1>1. UNCHANGED dispatchVars /\ Next
  BY DEF ManualExecute, Next
<1>2. TaskInvariant'
  BY <1>1, NextInvariant DEF DispatchInvariant
<1>3. DispatchTypeOK'
  BY <1>1, <1>2 DEF DispatchInvariant, DispatchTypeOK, TaskInvariant
<1>4. (RowsWellFormed /\ DispatchesWellFormed /\ NoStrandedRow)'
  BY <1>1 DEF DispatchInvariant, RowsWellFormed, DispatchesWellFormed, NoStrandedRow
<1>5. \A r \in EmployeeRequests : queue[r].state # "none" => status'[r] = status[r]
  BY ConstantsAssumption
  DEF ManualExecute, Fenced, CommitExecute, TaskEffect, DispatchInvariant, TaskInvariant, TypeOK
<1>6. CompletedExactlyWhenExecuted'
  BY <1>1, <1>5 DEF DispatchInvariant, CompletedExactlyWhenExecuted
<1> QED
  BY <1>2, <1>3, <1>4, <1>6 DEF DispatchInvariant

\* The owner's side and the passing of time.
LEMMA OwnerAndTimeInvariant ==
  ASSUME DispatchInvariant,
         \/ \E u \in Users : OwnerStop(u) \/ \E r \in EmployeeRequests : Enqueue(u, r)
         \/ OperatorEnable
         \/ \E r \in EmployeeRequests : Timer(r) \/ SessionEnds(r)
  PROVE  DispatchInvariant'
<1> USE DEF DispatchInvariant
<1>1. UNCHANGED <<vars, dispatcher>>
  BY DEF OwnerStop, Enqueue, OperatorEnable, Timer, LeaseExpires, BackoffElapses, SessionEnds
<1>2. TaskInvariant' /\ TypeOK'
  BY <1>1, VarsUnchanged
<1>3. DispatchesWellFormed'
  BY <1>1 DEF DispatchesWellFormed
<1>4. CASE \E u \in Users, r \in EmployeeRequests : Enqueue(u, r)
  <2> PICK u \in Users, r \in EmployeeRequests : Enqueue(u, r)
    BY <1>4
  <2> DEFINE new == QueuedRow(u)
  <2>1. /\ new \in Rows /\ new.state = "queued" /\ new.attempts = 0
        /\ new.owner = u /\ new.token = None
    BY DEF QueuedRow, Rows, MaxAttempts
  <2>2. queue' = [queue EXCEPT ![r] = new] /\ control' = control
    BY DEF Enqueue
  <2> HIDE DEF new
  <2>3. DispatchTypeOK'
    BY <1>1, <1>2, <2>1, <2>2 DEF DispatchTypeOK
  <2>4. RowsWellFormed' /\ NoStrandedRow'
    BY <1>1, <2>1, <2>2, DispatchersAssumption
    DEF RowsWellFormed, NoStrandedRow, DispatchTypeOK, MaxAttempts
  <2>5. CompletedExactlyWhenExecuted'
    BY <1>1, <2>1, <2>2 DEF CompletedExactlyWhenExecuted, DispatchTypeOK, Enqueue
  <2> QED
    BY <1>2, <1>3, <2>3, <2>4, <2>5
<1>5. CASE OperatorEnable \/ \E u \in Users : OwnerStop(u)
  <2>1. queue' = queue /\ control' \in {"missing", "stopped", "open"}
    BY <1>5 DEF OperatorEnable, OwnerStop
  <2>2. DispatchTypeOK'
    BY <1>1, <1>2, <2>1 DEF DispatchTypeOK
  <2> QED
    BY <1>1, <1>2, <1>3, <2>1, <2>2 DEF RowsWellFormed, NoStrandedRow, CompletedExactlyWhenExecuted
<1>6. CASE \E r \in EmployeeRequests : Timer(r) \/ SessionEnds(r)
  <2> PICK r \in EmployeeRequests : Timer(r) \/ SessionEnds(r)
    BY <1>6
  <2>1. /\ queue' \in [EmployeeRequests -> Rows] /\ control' = control
        /\ \A e \in EmployeeRequests :
              /\ queue'[e].state = queue[e].state /\ queue'[e].owner = queue[e].owner
              /\ queue'[e].token = queue[e].token /\ queue'[e].attempts = queue[e].attempts
    <3>1. queue \in [EmployeeRequests -> Rows] /\ control' = control
      BY DEF Timer, LeaseExpires, BackoffElapses, SessionEnds, DispatchTypeOK
    <3>2. PICK new \in {[queue[r] EXCEPT !.lease = FALSE], [queue[r] EXCEPT !.due = TRUE],
                        [queue[r] EXCEPT !.session = FALSE]} : queue' = [queue EXCEPT ![r] = new]
      BY DEF Timer, LeaseExpires, BackoffElapses, SessionEnds
    <3>3. new \in Rows /\ new.state = queue[r].state /\ new.owner = queue[r].owner
          /\ new.token = queue[r].token /\ new.attempts = queue[r].attempts
      <4>1. queue[r] \in Rows
        BY <3>1
      <4> QED
        BY ONLY <4>1, <3>2, FlagType
    <3> QED
      BY <3>1, <3>2, <3>3
  <2>2. DispatchTypeOK'
    BY <1>1, <1>2, <2>1 DEF DispatchTypeOK
  <2> QED
    BY <1>1, <1>2, <1>3, <2>1, <2>2 DEF RowsWellFormed, NoStrandedRow, CompletedExactlyWhenExecuted
<1> QED
  BY <1>4, <1>5, <1>6

\* Taking a lease counts one more attempt.
LEMMA LeaseType ==
  ASSUME NEW row \in Rows, NEW k \in Dispatchers, row.attempts < MaxAttempts
  PROVE  /\ Lease(row, k) \in Rows
         /\ Lease(row, k).state = "leased"
         /\ Lease(row, k).owner = row.owner
         /\ Lease(row, k).attempts = row.attempts + 1
         /\ Lease(row, k).token = k
<1>1. row.attempts + 1 \in 0..MaxAttempts
  BY DEF Rows, MaxAttempts
<1> QED
  BY <1>1 DEF Lease, Rows

\* A sweep's own bookkeeping: it moves on without touching any table or row.
LEMMA BookkeepingInvariant ==
  ASSUME DispatchInvariant, NEW k \in Dispatchers, UNCHANGED <<vars, queue, control>>,
         \/ ClaimNothing(k) \/ CheckPasses(k) \/ CheckDenies(k) \/ CheckFails(k)
         \/ BatchFails(k) \/ Diagnose(k) \/ Crash(k)
  PROVE  DispatchInvariant'
<1> USE DEF DispatchInvariant
<1>1. TaskInvariant' /\ TypeOK'
  BY VarsUnchanged
<1>2. PICK new \in Dispatches :
        /\ dispatcher' = [dispatcher EXCEPT ![k] = new]
        /\ \/ new.pc = "idle" /\ new.request = None
           \/ /\ dispatcher[k].pc \notin {"idle", "swept"}
              /\ new.request = dispatcher[k].request /\ new.attempts = dispatcher[k].attempts
  <2> DEFINE Good(new) ==
        /\ dispatcher' = [dispatcher EXCEPT ![k] = new]
        /\ \/ new.pc = "idle" /\ new.request = None
           \/ /\ dispatcher[k].pc \notin {"idle", "swept"}
              /\ new.request = dispatcher[k].request /\ new.attempts = dispatcher[k].attempts
  <2>1. dispatcher[k] \in Dispatches
    BY DEF DispatchTypeOK
  <2>2. CASE ClaimNothing(k) \/ Crash(k)
    <3>1. Good(IdleDispatch)
      BY <2>2 DEF ClaimNothing, Crash, IdleDispatch
    <3> QED
      BY <3>1, IdleDispatchType
  <2>3. CASE CheckPasses(k)
    <3> DEFINE new == [dispatcher[k] EXCEPT !.pc = "ready", !.payload = payload[dispatcher[k].request]]
    <3>1. payload[dispatcher[k].request] \in Payloads \cup {None}
      BY <2>3, ConstantsAssumption DEF CheckPasses, DispatchesWellFormed, DispatchTypeOK, TypeOK
    <3>2. new \in Dispatches /\ Good(new)
      BY <2>1, <2>3, <3>1 DEF CheckPasses, Dispatches, DispatchTypeOK
    <3> QED
      BY <3>2
  <2>4. CASE CheckDenies(k) \/ CheckFails(k) \/ BatchFails(k) \/ Diagnose(k)
    <3>1. dispatcher[k].pc \notin {"idle", "swept"}
      BY <2>4 DEF CheckDenies, CheckFails, BatchFails, Diagnose
    <3>2. PICK new : /\ dispatcher' = [dispatcher EXCEPT ![k] = new]
                     /\ \/ new = [dispatcher[k] EXCEPT !.pc = "unavailable"]
                        \/ new = [dispatcher[k] EXCEPT !.pc = "diagnose"]
                        \/ new = [dispatcher[k] EXCEPT !.pc = "denied", !.cause = "authority"]
                        \/ new = [dispatcher[k] EXCEPT !.pc = "denied", !.cause = "storage"]
      BY <2>4 DEF CheckDenies, CheckFails, BatchFails, Diagnose, DispatchTypeOK
    <3>3. new \in Dispatches
      BY <2>1, <3>2 DEF Dispatches
    <3>4. new.request = dispatcher[k].request /\ new.attempts = dispatcher[k].attempts
      BY <2>1, <3>2 DEF Dispatches
    <3> QED
      BY <3>1, <3>2, <3>3, <3>4
  <2> QED
    BY <2>2, <2>3, <2>4
<1>3. DispatchTypeOK'
  BY <1>1, <1>2 DEF DispatchTypeOK
<1>4. RowsWellFormed'
  BY <1>2, ConstantsAssumption DEF RowsWellFormed, DispatchTypeOK
<1>5. DispatchesWellFormed'
  BY <1>2 DEF DispatchesWellFormed, DispatchTypeOK
<1>6. (NoStrandedRow /\ CompletedExactlyWhenExecuted)'
  BY DEF NoStrandedRow, CompletedExactlyWhenExecuted
<1> QED
  BY <1>1, <1>3, <1>4, <1>5, <1>6

\* The dead-letter UPDATE settles leases that have expired with no attempt left.
LEMMA DeadLetterInvariant ==
  ASSUME DispatchInvariant, NEW k \in Dispatchers, DeadLetterExhausted(k)
  PROVE  DispatchInvariant'
<1> USE DEF DispatchInvariant
<1>1. UNCHANGED <<vars, control>>
  BY DEF DeadLetterExhausted
<1>2. TaskInvariant' /\ TypeOK'
  BY <1>1, VarsUnchanged
<1>3. queue \in [EmployeeRequests -> Rows] /\ control \in {"missing", "stopped", "open"}
      /\ dispatcher \in [Dispatchers -> Dispatches]
  BY DEF DispatchTypeOK
<1>4. /\ queue' \in [EmployeeRequests -> Rows]
      /\ \A r \in EmployeeRequests :
            \/ queue'[r] = queue[r]
            \/ /\ queue[r].state = "leased" /\ queue'[r].state = "dead_letter"
               /\ queue'[r].owner = queue[r].owner /\ queue'[r].token = None
  <2>1. queue' = [r \in EmployeeRequests |->
                    IF Exhausted(queue[r]) THEN Settle(queue[r], "dead_letter") ELSE queue[r]]
    BY DEF DeadLetterExhausted
  <2>2. \A r \in EmployeeRequests :
          /\ Settle(queue[r], "dead_letter") \in Rows
          /\ Settle(queue[r], "dead_letter").state = "dead_letter"
          /\ Settle(queue[r], "dead_letter").owner = queue[r].owner
          /\ Settle(queue[r], "dead_letter").token = None
          /\ Exhausted(queue[r]) => queue[r].state = "leased"
    BY <1>3, SettleType DEF Exhausted
  <2> QED
    BY <1>3, <2>1, <2>2
<1>5. PICK new \in Dispatches :
        /\ dispatcher' = [dispatcher EXCEPT ![k] = new]
        /\ new.pc = "swept" /\ new.request = dispatcher[k].request
        /\ new.attempts = dispatcher[k].attempts
  <2>1. PICK new : new = [dispatcher[k] EXCEPT !.pc = "swept"]
                   /\ dispatcher' = [dispatcher EXCEPT ![k] = new]
    BY DEF DeadLetterExhausted
  <2>2. /\ new \in Dispatches /\ new.pc = "swept"
        /\ new.request = dispatcher[k].request /\ new.attempts = dispatcher[k].attempts
    BY <1>3, <2>1 DEF Dispatches
  <2> QED
    BY <2>1, <2>2
<1>6. DispatchTypeOK'
  BY <1>1, <1>2, <1>3, <1>4, <1>5 DEF DispatchTypeOK
<1>7. RowsWellFormed'
  <2> SUFFICES ASSUME NEW r \in EmployeeRequests
               PROVE  /\ queue'[r].state # "none" => queue'[r].owner \in Users
                      /\ \A l \in Dispatchers :
                            queue'[r].token = l /\ dispatcher'[l].request = r
                              => dispatcher'[l].attempts = queue'[r].attempts
    BY DEF RowsWellFormed
  <2>1. /\ queue[r].state # "none" => queue[r].owner \in Users
        /\ \A l \in Dispatchers :
              queue[r].token = l /\ dispatcher[l].request = r
                => dispatcher[l].attempts = queue[r].attempts
    BY DEF RowsWellFormed
  <2>2. CASE queue'[r] = queue[r]
    BY <1>3, <1>5, <2>1, <2>2
  <2>3. CASE queue'[r] # queue[r]
    BY <1>4, <2>1, <2>3, DispatchersAssumption
  <2> QED
    BY <2>2, <2>3
<1>8. DispatchesWellFormed'
  BY <1>3, <1>5 DEF DispatchesWellFormed
<1>9. NoStrandedRow' /\ CompletedExactlyWhenExecuted'
  <2> SUFFICES ASSUME NEW r \in EmployeeRequests
               PROVE  /\ queue'[r].state = "queued" => queue'[r].attempts < MaxAttempts
                      /\ queue'[r].state # "none" =>
                            (queue'[r].state = "completed" <=> status'[r] = "executed")
    BY DEF NoStrandedRow, CompletedExactlyWhenExecuted, MaxAttempts
  <2>1. /\ queue[r].state = "queued" => queue[r].attempts < MaxAttempts
        /\ queue[r].state # "none" => (queue[r].state = "completed" <=> status[r] = "executed")
        /\ status'[r] = status[r]
    BY <1>1 DEF NoStrandedRow, CompletedExactlyWhenExecuted
  <2>2. CASE queue'[r] = queue[r]
    BY <2>1, <2>2
  <2>3. CASE queue'[r] # queue[r]
    BY <1>4, <2>1, <2>3
  <2> QED
    BY <2>2, <2>3
<1> QED
  BY <1>2, <1>6, <1>7, <1>8, <1>9

\* The claim puts the same attempt count on the row and in the sweep.
LEMMA ClaimInvariant ==
  ASSUME DispatchInvariant, NEW k \in Dispatchers, NEW r \in EmployeeRequests, Claim(k, r)
  PROVE  DispatchInvariant'
<1> USE DEF DispatchInvariant
<1>1. UNCHANGED <<vars, control>>
  BY DEF Claim
<1>2. TaskInvariant' /\ TypeOK'
  BY <1>1, VarsUnchanged
<1>3. queue \in [EmployeeRequests -> Rows] /\ control \in {"missing", "stopped", "open"}
      /\ dispatcher \in [Dispatchers -> Dispatches]
  BY DEF DispatchTypeOK
<1>4. queue[r].attempts < MaxAttempts /\ queue[r].state \in {"queued", "leased"}
  BY DEF Claim, Claimable
<1>5. PICK row : row = Lease(queue[r], k) /\ queue' = [queue EXCEPT ![r] = row]
  BY DEF Claim
<1>6. /\ row \in Rows /\ row.state = "leased" /\ row.owner = queue[r].owner
      /\ row.attempts = queue[r].attempts + 1 /\ row.token = k
  BY <1>3, <1>4, <1>5, LeaseType
<1>7. PICK new : new = Claimed(r, queue[r].attempts + 1)
                 /\ dispatcher' = [dispatcher EXCEPT ![k] = new]
  BY DEF Claim
<1>8. new \in Dispatches /\ new.request = r /\ new.attempts = queue[r].attempts + 1
  <2>1. queue[r].attempts + 1 \in 0..MaxAttempts
    BY <1>6 DEF Rows
  <2> QED
    BY <1>7, <2>1 DEF Claimed, Dispatches
<1>9. DispatchTypeOK'
  BY <1>1, <1>2, <1>3, <1>5, <1>6, <1>7, <1>8 DEF DispatchTypeOK
<1>10. RowsWellFormed'
  BY <1>3, <1>4, <1>5, <1>6, <1>7, <1>8 DEF RowsWellFormed
<1>11. DispatchesWellFormed'
  BY <1>3, <1>7, <1>8 DEF DispatchesWellFormed
<1>12. NoStrandedRow' /\ CompletedExactlyWhenExecuted'
  BY <1>1, <1>3, <1>4, <1>5, <1>6 DEF NoStrandedRow, CompletedExactlyWhenExecuted
<1> QED
  BY <1>2, <1>9, <1>10, <1>11, <1>12

\* The effect, the completion and the permit are one step.
LEMMA CommitDispatchInvariant ==
  ASSUME DispatchInvariant, NEW k \in Dispatchers, CommitDispatch(k)
  PROVE  DispatchInvariant'
<1> DEFINE r == dispatcher[k].request
           p == dispatcher[k].payload
           u == queue[r].owner
<1> USE DEF DispatchInvariant
<1>1. queue \in [EmployeeRequests -> Rows] /\ control \in {"missing", "stopped", "open"}
      /\ dispatcher \in [Dispatchers -> Dispatches]
  BY DEF DispatchTypeOK
<1>2. /\ r \in EmployeeRequests /\ r \in Requests /\ queue[r].state = "leased" /\ u \in Users
      /\ dispatcher[k].pc = "ready"
  BY ConstantsAssumption
  DEF CommitDispatch, DispatchGuard, FenceHolds, DispatchesWellFormed, RowsWellFormed
<1>3. EffectGuard(r, u) /\ TaskEffect(r, p) /\ UNCHANGED <<policyVars, worldVars, job, control>>
  BY DEF CommitDispatch, DispatchGuard
<1> HIDE DEF u, p
<1>4. TaskInvariant'
  <2>1. TypeOK'
    BY <1>2, <1>3, EffectInvariant DEF TaskEffect, TaskInvariant, TypeOK
  <2>2. JobsWellFormed'
    BY <1>3 DEF JobsWellFormed, TaskInvariant
  <2> QED
    BY <1>2, <1>3, <2>1, <2>2, EffectInvariant DEF TaskInvariant
<1>5. PICK row : row = Settle(queue[r], "completed") /\ queue' = [queue EXCEPT ![r] = row]
  BY DEF CommitDispatch
<1>6. /\ row \in Rows /\ row.state = "completed" /\ row.owner = queue[r].owner
      /\ row.token = None
  BY <1>1, <1>2, <1>5, SettleType
<1>7. PICK new \in Dispatches :
        /\ dispatcher' = [dispatcher EXCEPT ![k] = new]
        /\ \/ new.pc = "idle" /\ new.request = None
           \/ new.request = r /\ new.attempts = dispatcher[k].attempts
  <2>1. PICK new : /\ dispatcher' = [dispatcher EXCEPT ![k] = new]
                   /\ \/ new = IdleDispatch
                      \/ new = [dispatcher[k] EXCEPT !.pc = "diagnose"]
                      \/ new = [dispatcher[k] EXCEPT !.pc = "unavailable"]
    BY DEF CommitDispatch
  <2>2. CASE new = IdleDispatch
    BY <2>1, <2>2, IdleDispatchType DEF IdleDispatch
  <2>3. CASE \/ new = [dispatcher[k] EXCEPT !.pc = "diagnose"]
             \/ new = [dispatcher[k] EXCEPT !.pc = "unavailable"]
    <3>1. new \in Dispatches /\ new.request = r /\ new.attempts = dispatcher[k].attempts
      BY <1>1, <2>3 DEF Dispatches
    <3> QED
      BY <2>1, <3>1
  <2> QED
    BY <2>1, <2>2, <2>3
<1> HIDE DEF r
<1>8. DispatchTypeOK'
  BY <1>1, <1>2, <1>3, <1>4, <1>5, <1>6, <1>7 DEF DispatchTypeOK, TaskInvariant
<1>9. RowsWellFormed'
  BY <1>1, <1>2, <1>5, <1>6, <1>7, ConstantsAssumption, DispatchersAssumption DEF RowsWellFormed, r
<1>10. DispatchesWellFormed'
  BY <1>1, <1>2, <1>7 DEF DispatchesWellFormed
<1>11. NoStrandedRow'
  BY <1>1, <1>2, <1>5, <1>6 DEF NoStrandedRow
<1>12. CompletedExactlyWhenExecuted'
  <2>1. status' = [status EXCEPT ![r] = "executed"] /\ status \in [Requests -> {"absent", "prepared", "approved", "executed", "cancelled"}]
    BY <1>3 DEF TaskEffect, TaskInvariant, TypeOK
  <2>2. EmployeeRequests \subseteq Requests
    BY ConstantsAssumption
  <2> QED
    BY <1>1, <1>2, <1>5, <1>6, <2>1, <2>2 DEF CompletedExactlyWhenExecuted
<1> QED
  BY <1>4, <1>8, <1>9, <1>10, <1>11, <1>12

\* A release puts a row back only with an attempt left to use.
LEMMA ReleaseInvariant ==
  ASSUME DispatchInvariant, NEW k \in Dispatchers, Release(k)
  PROVE  DispatchInvariant'
<1> DEFINE r == dispatcher[k].request
<1> USE DEF DispatchInvariant
<1>1. queue \in [EmployeeRequests -> Rows] /\ control \in {"missing", "stopped", "open"}
      /\ dispatcher \in [Dispatchers -> Dispatches]
  BY DEF DispatchTypeOK
<1>2. UNCHANGED <<vars, control>> /\ dispatcher' = [dispatcher EXCEPT ![k] = IdleDispatch]
      /\ r \in EmployeeRequests
  BY DEF Release, DispatchesWellFormed
<1>3. TaskInvariant' /\ TypeOK'
  BY <1>2, VarsUnchanged
<1>4. DispatchesWellFormed'
  BY <1>1, <1>2, IdleDispatchType DEF DispatchesWellFormed
<1>5. CASE ~MayRelease(k, r)
  <2>1. queue' = queue
    BY <1>5 DEF Release
  <2>2. DispatchTypeOK'
    BY <1>1, <1>2, <1>3, <2>1, IdleDispatchType DEF DispatchTypeOK
  <2>3. RowsWellFormed'
    BY <1>1, <1>2, <2>1, ConstantsAssumption DEF RowsWellFormed, IdleDispatch
  <2>4. NoStrandedRow' /\ CompletedExactlyWhenExecuted'
    BY <1>2, <2>1 DEF NoStrandedRow, CompletedExactlyWhenExecuted
  <2> QED
    BY <1>3, <1>4, <2>2, <2>3, <2>4
<1>6. CASE MayRelease(k, r)
  <2> DEFINE state == IF Retryable(k) THEN "queued" ELSE "dead_letter"
             row   == [Settle(queue[r], state) EXCEPT !.due = FALSE]
  <2>1. queue' = [queue EXCEPT ![r] = row]
    BY <1>6 DEF Release
  <2>2. queue[r].state = "leased" /\ queue[r].token = k
    BY <1>6 DEF MayRelease
  <2>3. /\ row \in Rows /\ row.state = state /\ row.owner = queue[r].owner
        /\ row.attempts = queue[r].attempts /\ row.token = None
    <3>1. queue[r] \in Rows /\ state \in {"queued", "completed", "dead_letter"}
      BY <1>1, <1>2 DEF DispatchTypeOK
    <3> QED
      BY ONLY <3>1, SettleType DEF row
  <2>4. state = "queued" => queue[r].attempts < MaxAttempts
    <3>1. dispatcher[k].attempts = queue[r].attempts
      BY <1>2, <2>2 DEF RowsWellFormed
    <3> QED
      BY <3>1 DEF Retryable
  <2>5. state \in {"queued", "dead_letter"}
    OBVIOUS
  <2> HIDE DEF row, state
  <2>6. DispatchTypeOK'
    BY <1>1, <1>2, <1>3, <2>1, <2>3, IdleDispatchType DEF DispatchTypeOK
  <2>7. RowsWellFormed'
    BY <1>1, <1>2, <2>1, <2>2, <2>3, ConstantsAssumption, DispatchersAssumption
    DEF RowsWellFormed, IdleDispatch
  <2>8. NoStrandedRow'
    BY <1>1, <1>2, <2>1, <2>3, <2>4 DEF NoStrandedRow
  <2>9. CompletedExactlyWhenExecuted'
    BY <1>1, <1>2, <2>1, <2>2, <2>3, <2>5 DEF CompletedExactlyWhenExecuted
  <2> QED
    BY <1>3, <1>4, <2>6, <2>7, <2>8, <2>9
<1> QED
  BY <1>5, <1>6

\* DispatchInvariant is inductive.
LEMMA DispatchNextInvariant == DispatchInvariant /\ [DispatchNext]_allVars => DispatchInvariant'
<1> SUFFICES ASSUME DispatchInvariant, [DispatchNext]_allVars PROVE DispatchInvariant'
  OBVIOUS
<1>1. ASSUME NEW k \in Dispatchers, Sweep(k) \/ Crash(k) PROVE DispatchInvariant'
  <2>1. CASE \/ ClaimNothing(k) \/ CheckPasses(k) \/ CheckDenies(k) \/ CheckFails(k)
             \/ BatchFails(k) \/ Diagnose(k) \/ Crash(k)
    <3>1. UNCHANGED <<vars, queue, control>>
      BY <2>1 DEF ClaimNothing, CheckPasses, CheckDenies, CheckFails, BatchFails, Diagnose, Crash
    <3> QED
      BY <2>1, <3>1, BookkeepingInvariant
  <2> QED
    BY <1>1, <2>1, DeadLetterInvariant, ClaimInvariant, CommitDispatchInvariant, ReleaseInvariant
    DEF Sweep
<1>2. CASE UNCHANGED allVars
  <2>1. TaskInvariant' /\ TypeOK'
    BY <1>2, VarsUnchanged
  <2> QED
    BY <1>2, <2>1
    DEF DispatchInvariant, DispatchTypeOK, RowsWellFormed, DispatchesWellFormed,
        CompletedExactlyWhenExecuted, NoStrandedRow
<1> QED
  BY <1>1, <1>2, ManualInvariant, ManualExecuteInvariant, OwnerAndTimeInvariant DEF DispatchNext

\* The invariant holds in every reachable state, for any number of sweeps,
\* requests and workers.
THEOREM DispatchInvariantHolds == DispatchSpec => []DispatchInvariant
  BY DispatchInitInvariant, DispatchNextInvariant, PTL DEF DispatchSpec

\* The queue's columns and the sweeps keep to their domains.
THEOREM DispatchTypeCorrect == DispatchSpec => []DispatchTypeOK
<1>1. DispatchInvariant => DispatchTypeOK
  BY DEF DispatchInvariant
<1> QED
  BY <1>1, DispatchInvariantHolds, PTL

\* A queued request is executed exactly when its row is completed: no sweep, no
\* crash and no manual handler separates the two.
THEOREM CompletionIsTheEffect == DispatchSpec => []CompletedExactlyWhenExecuted
<1>1. DispatchInvariant => CompletedExactlyWhenExecuted
  BY DEF DispatchInvariant
<1> QED
  BY <1>1, DispatchInvariantHolds, PTL

\* No row waits with its attempts used up.
THEOREM NoRowIsStranded == DispatchSpec => []NoStrandedRow
<1>1. DispatchInvariant => NoStrandedRow
  BY DEF DispatchInvariant
<1> QED
  BY <1>1, DispatchInvariantHolds, PTL
-----------------------------------------------------------------------------
(* EmployeeDispatch implements BoundedTask.                                *)

\* A dispatched effect is the atomic Execute; every other step of a sweep, of
\* the owner or of time is invisible, and the manual handlers are as before.
THEOREM DispatchRefinement == DispatchSpec => ImplementsBoundedTask
<1>1. DispatchInit => Bounded!Init
  BY DEF DispatchInit, Init, Bounded!Init
<1>2. DispatchInvariant /\ [DispatchNext]_allVars => [Bounded!Next]_(Bounded!taskVars)
  <2> SUFFICES ASSUME DispatchInvariant, [DispatchNext]_allVars
               PROVE  [Bounded!Next]_(Bounded!taskVars)
    OBVIOUS
  <2>1. CASE UNCHANGED vars
    BY <2>1 DEF Bounded!taskVars
  <2>2. CASE Next
    BY <2>2, StepRefines DEF DispatchInvariant
  <2>3. ASSUME NEW k \in Dispatchers, CommitDispatch(k) PROVE Bounded!Next
    <3> DEFINE r == dispatcher[k].request
    <3>1. r \in Requests
      BY <2>3, ConstantsAssumption DEF CommitDispatch, DispatchInvariant, DispatchesWellFormed
    <3>2. EffectGuard(r, queue[r].owner) /\ TaskEffect(r, dispatcher[k].payload)
      BY <2>3 DEF CommitDispatch, DispatchGuard
    <3>3. Bounded!Execute(r)
      BY <3>1, <3>2, EffectRefines DEF DispatchInvariant
    <3> QED
      BY <3>1, <3>3 DEF Bounded!Next
  <2>4. ASSUME NEW k \in Dispatchers, Sweep(k) \/ Crash(k), ~CommitDispatch(k) PROVE UNCHANGED vars
    BY <2>4 DEF Sweep, Crash, DeadLetterExhausted, Claim, ClaimNothing, CheckPasses, CheckDenies,
                CheckFails, BatchFails, Diagnose, Release
  <2>5. ASSUME \/ \E u \in Users : OwnerStop(u) \/ \E r \in EmployeeRequests : Enqueue(u, r)
               \/ OperatorEnable
               \/ \E r \in EmployeeRequests : Timer(r) \/ SessionEnds(r)
        PROVE  UNCHANGED vars
    BY <2>5 DEF OwnerStop, Enqueue, OperatorEnable, Timer, LeaseExpires, BackoffElapses, SessionEnds
  <2>6. ASSUME Manual \/ \E w \in Workers : ManualExecute(w) PROVE Next
    BY <2>6 DEF Manual, ManualExecute, Next
  <2> QED
    BY <2>1, <2>2, <2>3, <2>4, <2>5, <2>6 DEF DispatchNext
<1> QED
  BY <1>1, <1>2, DispatchInvariantHolds, PTL DEF DispatchSpec, ImplementsBoundedTask, Bounded!Spec
-----------------------------------------------------------------------------
(* What a step may never do.                                               *)

\* The steps other than a sweep's that the queue can see.
LEMMA OutsideSteps ==
  ASSUME DispatchInvariant, [DispatchNext]_allVars,
         \A k \in Dispatchers : ~Sweep(k)
  PROVE  \A r \in EmployeeRequests : queue[r].state = "leased" => queue'[r].state = "leased"
<1> SUFFICES ASSUME NEW r \in EmployeeRequests, queue[r].state = "leased"
             PROVE  queue'[r].state = "leased"
  OBVIOUS
<1>1. queue[r] \in Rows /\ queue \in [EmployeeRequests -> Rows]
  BY DEF DispatchInvariant, DispatchTypeOK
<1>2. ASSUME NEW u \in Users, NEW e \in EmployeeRequests, Enqueue(u, e)
      PROVE  queue'[r].state = "leased"
  BY <1>1, <1>2 DEF Enqueue
<1>3. ASSUME NEW e \in EmployeeRequests, Timer(e) \/ SessionEnds(e)
      PROVE  queue'[r].state = "leased"
  <2>1. PICK new : queue' = [queue EXCEPT ![e] = new]
                   /\ \/ new = [queue[e] EXCEPT !.lease = FALSE]
                      \/ new = [queue[e] EXCEPT !.due = TRUE]
                      \/ new = [queue[e] EXCEPT !.session = FALSE]
    BY <1>3 DEF Timer, LeaseExpires, BackoffElapses, SessionEnds
  <2>2. queue[e] \in Rows
    BY <1>1
  <2>3. new.state = queue[e].state
    BY <2>1, <2>2, FlagType
  <2> QED
    BY <1>1, <2>1, <2>3
<1>4. CASE \/ Manual \/ OperatorEnable \/ UNCHANGED allVars
           \/ \E w \in Workers : ManualExecute(w)
           \/ \E u \in Users : OwnerStop(u)
           \/ \E k \in Dispatchers : Crash(k)
  BY <1>4 DEF Manual, ManualExecute, OperatorEnable, OwnerStop, Crash
<1> QED
  BY <1>2, <1>3, <1>4 DEF DispatchNext

\* While a lease lasts, only the sweep that holds its token ends it.
THEOREM LiveLeaseIsTheHolders == DispatchSpec => LiveLeaseEndsOnlyByHolder
<1> DEFINE Ends == \A r \in EmployeeRequests :
                      queue[r].state = "leased" /\ queue[r].lease /\ queue'[r].state # "leased"
                        => \E k \in Dispatchers : k = queue[r].token /\ dispatcher[k].request = r
                                                  /\ dispatcher'[k] # dispatcher[k]
<1>1. DispatchInvariant /\ [DispatchNext]_allVars => [Ends]_allVars
  <2> SUFFICES ASSUME DispatchInvariant, [DispatchNext]_allVars, NEW r \in EmployeeRequests,
                      queue[r].state = "leased", queue[r].lease, queue'[r].state # "leased"
               PROVE  \E k \in Dispatchers : k = queue[r].token /\ dispatcher[k].request = r
                                             /\ dispatcher'[k] # dispatcher[k]
    OBVIOUS
  <2>1. queue \in [EmployeeRequests -> Rows] /\ dispatcher \in [Dispatchers -> Dispatches]
    BY DEF DispatchInvariant, DispatchTypeOK
  <2>2. PICK k \in Dispatchers : Sweep(k)
    BY OutsideSteps
  <2>3. CASE DeadLetterExhausted(k)
    BY <2>3 DEF DeadLetterExhausted, Exhausted
  <2>4. ASSUME NEW e \in EmployeeRequests, Claim(k, e) PROVE FALSE
    <3>1. Lease(queue[e], k).state = "leased"
      BY <2>1, <2>4, LeaseType DEF Claim, Claimable
    <3> QED
      BY <2>1, <2>4, <3>1 DEF Claim
  <2>5. CASE CommitDispatch(k)
    <3>1. dispatcher[k].pc = "ready" /\ queue[dispatcher[k].request].token = k
      BY <2>5 DEF CommitDispatch, DispatchGuard, FenceHolds
    <3>2. dispatcher[k].request = r
      BY <2>1, <2>5 DEF CommitDispatch
    <3>3. dispatcher'[k] # dispatcher[k]
      BY <2>1, <2>5, <3>1 DEF CommitDispatch, IdleDispatch, Dispatches
    <3> QED
      BY <3>1, <3>2, <3>3
  <2>6. CASE Release(k)
    <3>1. dispatcher[k].request = r /\ MayRelease(k, r)
      BY <2>1, <2>6 DEF Release
    <3>2. dispatcher'[k] # dispatcher[k]
      BY <2>1, <2>6, IdleDispatchType DEF Release
    <3> QED
      BY <3>1, <3>2 DEF MayRelease
  <2>7. CASE ClaimNothing(k) \/ CheckPasses(k) \/ CheckDenies(k) \/ CheckFails(k)
             \/ BatchFails(k) \/ Diagnose(k)
    BY <2>7 DEF ClaimNothing, CheckPasses, CheckDenies, CheckFails, BatchFails, Diagnose
  <2> QED
    BY <2>2, <2>3, <2>4, <2>5, <2>6, <2>7 DEF Sweep
<1> QED
  BY <1>1, DispatchInvariantHolds, PTL DEF DispatchSpec, LiveLeaseEndsOnlyByHolder

\* A dispatched task appears only at the instant of a batch that finds the whole
\* authority in force, the delegation and the enqueuing session included.
THEOREM DispatchIsAuthorised == DispatchSpec => DispatchedUnderFullAuthority
<1> DEFINE Full == \A r \in EmployeeRequests :
                      queue[r].state # "none" /\ effects'[r] # effects[r] =>
                        /\ control = "open"
                        /\ r \in provenance
                        /\ SqlLive(via[r]) /\ grant[via[r]] = "active"
                        /\ queue[r].session /\ role[queue[r].owner] = "owner"
<1>1. DispatchInvariant /\ [DispatchNext]_allVars => [Full]_allVars
  <2> SUFFICES ASSUME DispatchInvariant, [DispatchNext]_allVars, NEW r \in EmployeeRequests,
                      queue[r].state # "none", effects'[r] # effects[r]
               PROVE  /\ control = "open"
                      /\ r \in provenance
                      /\ SqlLive(via[r]) /\ grant[via[r]] = "active"
                      /\ queue[r].session /\ role[queue[r].owner] = "owner"
    OBVIOUS
  <2>1. effects \in [Requests -> Nat] /\ r \in Requests
    BY ConstantsAssumption DEF DispatchInvariant, TaskInvariant, TypeOK
  <2>2. ASSUME Manual PROVE FALSE
    <3>1. CASE \E w \in Workers : Accept(w) \/ Abandon(w)
      BY <3>1 DEF Accept, AcceptGrant, AcceptPrepare, AcceptApprove, AcceptCancel, AcceptPermit,
                  AcceptExecute, Abandon
    <3>2. CASE \E w \in Workers : CommitPaperwork(w)
      BY <3>2 DEF CommitPaperwork, CommitGrant, CommitPrepare, CommitApprove, CommitCancel, CommitPermit
    <3>3. CASE PolicyChange \/ WorldChange
      BY <3>3 DEF PolicyChange, CreateDelegation, PauseDelegation, RevokeDelegation, RevokeGrant,
                  WorldChange, DelegationLapses, NewDay, MembershipChange, AuthorityTransition,
                  ProvenanceChange, PermitExpires
    <3> QED
      BY <2>2, <3>1, <3>2, <3>3 DEF Manual
  <2>3. ASSUME NEW w \in Workers, ManualExecute(w) PROVE FALSE
    BY <2>1, <2>3 DEF ManualExecute, Fenced, CommitExecute, TaskEffect
  <2>4. ASSUME NEW k \in Dispatchers, CommitDispatch(k) PROVE DispatchGuard(k, r)
    BY <2>1, <2>4 DEF CommitDispatch, TaskEffect
  <2>5. ASSUME NEW k \in Dispatchers, Sweep(k) \/ Crash(k), ~CommitDispatch(k) PROVE FALSE
    <3>1. UNCHANGED vars
      BY <2>5 DEF Sweep, Crash, DeadLetterExhausted, Claim, ClaimNothing, CheckPasses, CheckDenies,
                  CheckFails, BatchFails, Diagnose, Release
    <3> QED
      BY <3>1
  <2>6. ASSUME \/ \E u \in Users : OwnerStop(u) \/ \E e \in EmployeeRequests : Enqueue(u, e)
               \/ OperatorEnable \/ UNCHANGED allVars
               \/ \E e \in EmployeeRequests : Timer(e) \/ SessionEnds(e)
        PROVE  FALSE
    BY <2>6 DEF OwnerStop, Enqueue, OperatorEnable, Timer, LeaseExpires, BackoffElapses, SessionEnds
  <2>7. PICK k \in Dispatchers : DispatchGuard(k, r)
    <3>1. CASE \E k \in Dispatchers : Sweep(k) \/ Crash(k)
      BY <2>4, <2>5, <3>1
    <3>2. CASE \/ Manual \/ \E w \in Workers : ManualExecute(w)
               \/ \E u \in Users : OwnerStop(u) \/ \E e \in EmployeeRequests : Enqueue(u, e)
               \/ OperatorEnable \/ UNCHANGED allVars
               \/ \E e \in EmployeeRequests : Timer(e) \/ SessionEnds(e)
      <4>1. FALSE
        BY <2>2, <2>3, <2>6, <3>2
      <4> QED
        BY <4>1
    <3> QED
      BY <3>1, <3>2 DEF DispatchNext
  <2> QED
    BY <2>7 DEF DispatchGuard, FenceHolds, ControlOpen, EffectGuard, OwnApproval
<1> QED
  BY <1>1, DispatchInvariantHolds, PTL DEF DispatchSpec, DispatchedUnderFullAuthority
=============================================================================
