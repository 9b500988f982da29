------------------------- MODULE TenantDeletionProofs -------------------------
(***************************************************************************)
(* Theorems about TenantDeletion for every value of its constants: no      *)
(* purge under a legal hold, deletion as a refinement of the ledger's view *)
(* of it, and types.                                                       *)
(*                                                                         *)
(* The argument for the hold is the claim: a sweep that still has its      *)
(* claim has had it since it saw that there was no hold, the request has   *)
(* been "processing" ever since, and no hold is created in that time.      *)
(***************************************************************************)
EXTENDS TenantDeletion, TLAPS

USE DEF requestVars, fileVars, costVars, deletionVars, vars

Shapes ==
    /\ request \in [Requests -> Request]
    /\ hold \in BOOLEAN
    /\ sweep \in [Sweeps -> SweepRuns]
    /\ owner \in [Owners -> OwnerCalls]
    /\ tenant \in {"live", "purged"}
    /\ \A k \in Sweeps : sweep[k].pc # "idle" => sweep[k].request \in Requests
    /\ \A o \in Owners :
          /\ owner[o].pc # "idle" => owner[o].request \in Requests
          /\ owner[o].pc = "filing" => owner[o].status \in {"requested", "blocked"}

Cleared(k) == sweep[k].pc \in {"cleared", "reports", "files", "counted", "purging"}

\* Past CheckHold a sweep is either without its claim or without a hold against it.
NoHoldBehindClaim == \A k \in Sweeps : Cleared(k) /\ HasClaim(k) => ~hold

\* Nothing of a purged tenant's requests comes back.
PurgedIsFinal == tenant = "purged" => \A q \in Requests : request[q].status \in {"none", "gone"}

DeletionInvariant == Shapes /\ NoHoldBehindClaim /\ PurgedIsFinal
-----------------------------------------------------------------------------
\* No requests, no sweeps.
LEMMA DeletionInitInvariant ==
  ASSUME DeletionInit
  PROVE  DeletionInvariant
<1>1. request \in [Requests -> Request]
  BY DeletionAssumption DEF DeletionInit, NoRequest, Statuses, Request
<1>2. sweep \in [Sweeps -> SweepRuns] /\ owner \in [Owners -> OwnerCalls]
  BY DEF DeletionInit, IdleOwner, OwnerCalls, IdleSweep, SweepRuns, Statuses
<1>3. Shapes
  BY <1>1, <1>2 DEF DeletionInit, Shapes, IdleOwner, IdleSweep, Cost!LedgerInit
<1>4. NoHoldBehindClaim /\ PurgedIsFinal
  BY DEF DeletionInit, NoHoldBehindClaim, Cleared, IdleSweep, PurgedIsFinal, Cost!LedgerInit
<1> QED
  BY <1>3, <1>4 DEF DeletionInvariant

\* What most steps do: one request moves, without becoming a claim it was not, and
\* no sweep gets past CheckHold.
LEMMA RowMoves ==
  ASSUME DeletionInvariant, NEW q \in Requests, NEW r \in Request,
         request' = [request EXCEPT ![q] = r],
         r.status = "processing" => request[q].status = "processing" /\ r.token = request[q].token,
         tenant = "live" \/ request[q].status \notin {"none", "gone"},
         UNCHANGED <<hold, tenant>>,
         \A k \in Sweeps : Cleared(k)' => Cleared(k) /\ sweep'[k].request = sweep[k].request
  PROVE  /\ request' \in [Requests -> Request]
         /\ NoHoldBehindClaim' /\ PurgedIsFinal'
<1> USE DEF DeletionInvariant
<1>1. request' \in [Requests -> Request] /\ \A p \in Requests \ {q} : request'[p] = request[p]
  BY DEF Shapes
<1>2. request'[q] = r
  BY DEF Shapes
<1>3. ASSUME NEW k \in Sweeps, Cleared(k)', HasClaim(k)'
      PROVE  Cleared(k) /\ HasClaim(k)
  <2>1. Cleared(k) /\ sweep'[k].request = sweep[k].request /\ sweep[k].request \in Requests
    BY <1>3 DEF Shapes, Cleared
  <2>2. CASE sweep[k].request = q
    BY <1>2, <1>3, <2>1, <2>2 DEF HasClaim
  <2>3. CASE sweep[k].request # q
    BY <1>1, <1>3, <2>1, <2>3 DEF HasClaim
  <2> QED
    BY <2>1, <2>2, <2>3
<1>4. NoHoldBehindClaim'
  BY <1>3 DEF NoHoldBehindClaim
<1>5. PurgedIsFinal'
  BY <1>1, <1>2 DEF PurgedIsFinal, Shapes
<1> QED
  BY <1>1, <1>4, <1>5

\* A step that leaves requests alone and takes no sweep past CheckHold.
LEMMA RowsStay ==
  ASSUME DeletionInvariant, UNCHANGED <<request, hold, tenant>>,
         \A k \in Sweeps : Cleared(k)' => Cleared(k) /\ sweep'[k].request = sweep[k].request
  PROVE  NoHoldBehindClaim' /\ PurgedIsFinal'
  BY DEF DeletionInvariant, NoHoldBehindClaim, HasClaim, PurgedIsFinal

\* Filing, approving and giving up: a request enters "requested", "blocked" or
\* "approved", never "processing".
LEMMA OwnerInvariant ==
  ASSUME DeletionInvariant, NEW o \in Owners, OwnerStep(o)
  PROVE  DeletionInvariant'
<1> USE DEF DeletionInvariant
<1>1. UNCHANGED <<hold, sweep, tenant>>
  BY DEF OwnerStep, AcceptFile, AcceptApprove, CommitFile, CommitApprove, OwnerGivesUp
<1>2. \A k \in Sweeps : Cleared(k)' => Cleared(k) /\ sweep'[k].request = sweep[k].request
  BY <1>1 DEF Cleared
<1>3. CASE \E q \in Requests : AcceptFile(o, q) \/ AcceptApprove(o, q)
  <2>1. Shapes'
    BY <1>3 DEF AcceptFile, AcceptApprove, Shapes, OwnerCalls, Statuses
  <2> QED
    BY <1>2, <1>3, <2>1, RowsStay DEF AcceptFile, AcceptApprove
<1>4. CASE OwnerGivesUp(o)
  <2>1. Shapes'
    BY <1>4 DEF OwnerGivesUp, Shapes, OwnerCalls, IdleOwner, Statuses
  <2> QED
    BY <1>2, <1>4, <2>1, RowsStay DEF OwnerGivesUp
<1>5. CASE CommitFile(o)
  <2> DEFINE q == owner[o].request
  <2> DEFINE r == [request[q] EXCEPT !.status = owner[o].status]
  <2>1. q \in Requests /\ request[q] \in Request /\ owner[o].status \in {"requested", "blocked"}
    BY <1>5 DEF CommitFile, Shapes
  <2>2. request' = [request EXCEPT ![q] = r] /\ owner' = [owner EXCEPT ![o] = IdleOwner]
    BY <1>5 DEF CommitFile
  <2>3. r \in Request /\ r.status \in {"requested", "blocked"}
    BY <2>1 DEF Request, Statuses
  <2>4. tenant = "live"
    BY <1>5 DEF CommitFile, Signed
  <2> HIDE DEF q, r
  <2>5. request' \in [Requests -> Request] /\ NoHoldBehindClaim' /\ PurgedIsFinal'
    BY <1>1, <1>2, <2>1, <2>2, <2>3, <2>4, RowMoves
  <2> QED
    BY <1>1, <2>2, <2>5 DEF Shapes, OwnerCalls, IdleOwner, Statuses
<1>6. CASE CommitApprove(o)
  <2> DEFINE q == owner[o].request
  <2> DEFINE r == [request[q] EXCEPT !.status = "approved"]
  <2>1. q \in Requests /\ request[q] \in Request /\ request[q].status \notin {"none", "gone"}
    BY <1>6 DEF CommitApprove, Shapes
  <2>2. request' = [request EXCEPT ![q] = r] /\ owner' = [owner EXCEPT ![o] = IdleOwner]
    BY <1>6 DEF CommitApprove
  <2>3. r \in Request /\ r.status = "approved"
    BY <2>1 DEF Request, Statuses
  <2> HIDE DEF q, r
  <2>5. request' \in [Requests -> Request] /\ NoHoldBehindClaim' /\ PurgedIsFinal'
    BY <1>1, <1>2, <2>1, <2>2, <2>3, RowMoves
  <2> QED
    BY <1>1, <2>2, <2>5 DEF Shapes, OwnerCalls, IdleOwner, Statuses
<1> QED
  BY <1>3, <1>4, <1>5, <1>6 DEF OwnerStep

\* No hold is created while a request is processed, and a claim is such a request.
LEMMA HoldInvariant ==
  ASSUME DeletionInvariant, CreateHold \/ ReleaseHold
  PROVE  DeletionInvariant'
<1> USE DEF DeletionInvariant
<1>1. Shapes' /\ PurgedIsFinal'
  BY DEF CreateHold, ReleaseHold, Shapes, PurgedIsFinal
<1>2. NoHoldBehindClaim'
  BY DEF CreateHold, ReleaseHold, Shapes, NoHoldBehindClaim, Cleared, HasClaim
<1> QED
  BY <1>1, <1>2

\* Uploads, time, and the ledger, whose steps touch nothing here.
LEMMA WorldInvariant ==
  ASSUME DeletionInvariant,
         \/ \E e \in Evidence : Presign(e) \/ AcceptUpload(e) \/ StoreObject(e)
         \/ \E q \in Requests : ClaimGoesStale(q)
         \/ LedgerMoves
  PROVE  DeletionInvariant'
<1> USE DEF DeletionInvariant
<1>1. CASE \E e \in Evidence : Presign(e) \/ AcceptUpload(e) \/ StoreObject(e)
  BY <1>1 DEF Presign, AcceptUpload, StoreObject, Shapes, NoHoldBehindClaim, Cleared, HasClaim,
              PurgedIsFinal
<1>2. ASSUME NEW q \in Requests, ClaimGoesStale(q)
      PROVE  DeletionInvariant'
  <2> DEFINE r == [request[q] EXCEPT !.stale = TRUE]
  <2>1. request[q] \in Request /\ request[q].status = "processing"
    BY <1>2 DEF ClaimGoesStale, Shapes
  <2>2. r \in Request /\ r.status = "processing" /\ r.token = request[q].token
    BY <2>1 DEF Request
  <2>3. request' = [request EXCEPT ![q] = r] /\ UNCHANGED <<hold, owner, sweep, tenant>>
    BY <1>2 DEF ClaimGoesStale
  <2>4. \A k \in Sweeps : Cleared(k)' => Cleared(k) /\ sweep'[k].request = sweep[k].request
    BY <2>3 DEF Cleared
  <2> HIDE DEF r
  <2>5. request' \in [Requests -> Request] /\ NoHoldBehindClaim' /\ PurgedIsFinal'
    BY <2>1, <2>2, <2>3, <2>4, RowMoves
  <2> QED
    BY <2>3, <2>5 DEF Shapes
<1>3. CASE LedgerMoves
  <2>1. UNCHANGED <<request, hold, owner, sweep>>
    BY <1>3 DEF LedgerMoves
  <2>2. UNCHANGED tenant
    BY <1>3 DEF LedgerMoves, Cost!LedgerStep, Cost!AcceptRun, Cost!CommitReserve,
                Cost!ReleaseUnused, Cost!CallProvider, Cost!ProviderAnswers, Cost!CommitSettle,
                Cost!Abandon, Cost!BudgetSwitch, Cost!Reconcile, Cost!tenantVars
  <2> QED
    BY <2>1, <2>2 DEF Shapes, NoHoldBehindClaim, Cleared, HasClaim, PurgedIsFinal
<1> QED
  BY <1>1, <1>2, <1>3
-----------------------------------------------------------------------------
(* The sweep.                                                              *)

\* A claim is a new token, and its sweep has yet to look for a hold.
LEMMA ClaimInvariant ==
  ASSUME DeletionInvariant, NEW k \in Sweeps, NEW q \in Requests, Claim(k, q)
  PROVE  DeletionInvariant'
<1> USE DEF DeletionInvariant
<1>1. /\ request[q] \in Request /\ request[q].status \notin {"none", "gone"}
      /\ request' = [request EXCEPT ![q] = [status |-> "processing", attempts |-> @.attempts + 1,
                                            token |-> k, stale |-> FALSE]]
      /\ sweep' = [sweep EXCEPT ![k].pc = "claimed", ![k].request = q]
      /\ UNCHANGED <<hold, owner, tenant>>
  BY DEF Claim, NewClaim, RecoverClaim, Shapes
<1>2. request' \in [Requests -> Request]
  BY <1>1, DeletionAssumption DEF Shapes, Request, Statuses, Claim, NewClaim, RecoverClaim
<1>3. sweep' \in [Sweeps -> SweepRuns] /\ sweep'[k].pc = "claimed" /\ sweep'[k].request = q
  BY <1>1 DEF Shapes, SweepRuns
<1>4. Shapes'
  BY <1>1, <1>2, <1>3 DEF Shapes
<1>5. NoHoldBehindClaim'
  <2> SUFFICES ASSUME NEW j \in Sweeps, Cleared(j)', HasClaim(j)'
               PROVE  ~hold
    BY <1>1 DEF NoHoldBehindClaim
  <2>1. j # k /\ sweep'[j] = sweep[j] /\ Cleared(j)
    BY <1>1, <1>3 DEF Cleared, Shapes
  <2>2. sweep[j].request # q /\ request'[sweep[j].request] = request[sweep[j].request]
    BY <1>1, <2>1 DEF HasClaim, Shapes, Cleared
  <2> QED
    BY <2>1, <2>2 DEF HasClaim, NoHoldBehindClaim
<1>6. PurgedIsFinal'
  BY <1>1 DEF PurgedIsFinal, Shapes
<1> QED
  BY <1>4, <1>5, <1>6

\* A sweep that ends takes its own request at most with it.
LEMMA EndInvariant ==
  ASSUME DeletionInvariant, NEW k \in Sweeps, NEW s \in {"approved", "failed", "blocked"},
         EndSweep(k), UNCHANGED <<hold, owner, tenant>>,
         sweep[k].pc # "idle", UNCHANGED request \/ ReleaseClaim(k, s)
  PROVE  DeletionInvariant'
<1> USE DEF DeletionInvariant
<1>1. /\ sweep' \in [Sweeps -> SweepRuns]
      /\ \A j \in Sweeps : sweep'[j] = IF j = k THEN IdleSweep ELSE sweep[j]
  BY DEF EndSweep, Shapes, IdleSweep, SweepRuns
<1>2. \A j \in Sweeps : Cleared(j)' => Cleared(j) /\ sweep'[j].request = sweep[j].request
  BY <1>1 DEF Cleared, IdleSweep
<1>3. \A j \in Sweeps : sweep'[j].pc # "idle" => sweep'[j].request \in Requests
  BY <1>1 DEF Shapes, IdleSweep
<1>4. CASE UNCHANGED request
  BY <1>1, <1>2, <1>3, <1>4, RowsStay DEF Shapes
<1>5. CASE ReleaseClaim(k, s) /\ HasClaim(k)
  <2> DEFINE q == sweep[k].request
  <2> DEFINE r == [[[request[q] EXCEPT !.status = s] EXCEPT !.token = None] EXCEPT !.stale = FALSE]
  <2>1. q \in Requests /\ request[q] \in Request /\ request[q].status = "processing"
    BY <1>5 DEF Shapes, HasClaim
  <2>2. r \in Request /\ r.status = s
    BY <2>1 DEF Request, Statuses
  <2>3. request' = [request EXCEPT ![q] = r]
    BY <1>5, <2>1 DEF ReleaseClaim, Shapes
  <2> HIDE DEF q, r
  <2>4. request' \in [Requests -> Request] /\ NoHoldBehindClaim' /\ PurgedIsFinal'
    BY <1>2, <2>1, <2>2, <2>3, RowMoves
  <2> QED
    BY <1>1, <1>3, <2>4 DEF Shapes
<1> QED
  BY <1>4, <1>5 DEF ReleaseClaim

\* A sweep already past CheckHold goes on with its request.
LEMMA AdvanceInvariant ==
  ASSUME DeletionInvariant, NEW k \in Sweeps, Cleared(k),
         sweep' \in [Sweeps -> SweepRuns],
         \A j \in Sweeps : j # k => sweep'[j] = sweep[j],
         sweep'[k].request = sweep[k].request,
         UNCHANGED <<request, hold, owner, tenant>>
  PROVE  DeletionInvariant'
<1> USE DEF DeletionInvariant
<1>1. \A j \in Sweeps : Cleared(j)' => Cleared(j) /\ sweep'[j].request = sweep[j].request
  BY DEF Cleared
<1>2. \A j \in Sweeps : sweep'[j].pc # "idle" => sweep'[j].request \in Requests
  BY DEF Shapes, Cleared
<1> QED
  BY <1>1, <1>2, RowsStay DEF Shapes

\* A sweep passes CheckHold with its claim, when there is no hold.
LEMMA CheckHoldInvariant ==
  ASSUME DeletionInvariant, NEW k \in Sweeps, CheckHold(k)
  PROVE  DeletionInvariant'
<1>1. CASE hold
  BY <1>1, EndInvariant DEF CheckHold
<1>2. CASE ~hold
  <2> USE DEF DeletionInvariant
  <2>1. /\ sweep' = [sweep EXCEPT ![k].pc = "cleared"]
        /\ UNCHANGED <<request, hold, owner, tenant>> /\ sweep[k].pc = "claimed"
    BY <1>2 DEF CheckHold
  <2>2. Shapes'
    BY <2>1 DEF Shapes, SweepRuns
  <2> QED
    BY <1>2, <2>1, <2>2 DEF NoHoldBehindClaim, PurgedIsFinal
<1> QED
  BY <1>1, <1>2

\* The page of report attachments ends the sweep or lets it go on.
LEMMA CleanReportsInvariant ==
  ASSUME DeletionInvariant, NEW k \in Sweeps, CleanReports(k)
  PROVE  DeletionInvariant'
<1> DEFINE q == sweep[k].request
<1>1. sweep[k].pc = "cleared" /\ Cleared(k) /\ UNCHANGED <<hold, owner, tenant>>
  BY DEF CleanReports, Cleared
<1>2. CASE ReleaseClaim(k, "failed") /\ EndSweep(k)
  BY <1>1, <1>2, EndInvariant
<1>3. CASE sweep' = [sweep EXCEPT ![k].pc = "reports"] /\ UNCHANGED request
  <2>1. sweep' \in [Sweeps -> SweepRuns] /\ sweep'[k].request = sweep[k].request
    BY <1>3 DEF DeletionInvariant, Shapes, SweepRuns
  <2> QED
    BY <1>1, <1>3, <2>1, AdvanceInvariant
<1>4. CASE /\ HasClaim(k)
           /\ request' = [request EXCEPT ![q].attempts = IF @ > 0 THEN @ - 1 ELSE 0]
           /\ sweep' = [sweep EXCEPT ![k].pc = "continuing"]
  <2> DEFINE r == [request[q] EXCEPT !.attempts = IF @ > 0 THEN @ - 1 ELSE 0]
  <2>1. q \in Requests /\ request[q] \in Request /\ request[q].status = "processing"
    BY <1>1, <1>4 DEF DeletionInvariant, Shapes, HasClaim
  <2>2. r \in Request /\ r.token = request[q].token
    BY <2>1, DeletionAssumption DEF Request
  <2>3. request' = [request EXCEPT ![q] = r]
    BY <1>4
  <2>4. /\ sweep' \in [Sweeps -> SweepRuns]
        /\ \A j \in Sweeps : j # k => sweep'[j] = sweep[j]
        /\ sweep'[k].request = sweep[k].request
    BY <1>4 DEF DeletionInvariant, Shapes, SweepRuns
  <2>5. \A j \in Sweeps : Cleared(j)' => Cleared(j) /\ sweep'[j].request = sweep[j].request
    BY <1>1, <2>4 DEF Cleared
  <2>6. \A j \in Sweeps : sweep'[j].pc # "idle" => sweep'[j].request \in Requests
    BY <1>1, <2>4 DEF DeletionInvariant, Shapes
  <2> HIDE DEF q, r
  <2>7. request' \in [Requests -> Request] /\ NoHoldBehindClaim' /\ PurgedIsFinal'
    BY <1>1, <2>1, <2>2, <2>3, <2>5, RowMoves
  <2> QED
    BY <1>1, <2>4, <2>6, <2>7 DEF DeletionInvariant, Shapes
<1> QED
  BY <1>2, <1>3, <1>4 DEF CleanReports

\* The page of files.
LEMMA FilesInvariant ==
  ASSUME DeletionInvariant, NEW k \in Sweeps,
         ListEvidence(k) \/ \E e \in Evidence : DeleteFile(k, e)
  PROVE  DeletionInvariant'
<1>1. CASE ListEvidence(k)
  <2>1. PICK fs \in SUBSET Remaining : sweep' = [sweep EXCEPT ![k].pc = "files", ![k].files = fs]
    BY <1>1 DEF ListEvidence
  <2>2. fs \subseteq Evidence
    BY <2>1 DEF Remaining
  <2>3. sweep \in [Sweeps -> SweepRuns] /\ sweep[k] \in SweepRuns
    BY DEF DeletionInvariant, Shapes
  <2>4. PICK s : s = [sweep[k] EXCEPT !.pc = "files", !.files = fs]
    OBVIOUS
  <2>5. s \in SweepRuns /\ s.request = sweep[k].request
    BY <2>2, <2>3, <2>4 DEF SweepRuns
  <2>6. sweep' = [sweep EXCEPT ![k] = s]
    BY <2>1, <2>3, <2>4
  <2>7. sweep' \in [Sweeps -> SweepRuns] /\ sweep'[k].request = sweep[k].request
        /\ \A j \in Sweeps : j # k => sweep'[j] = sweep[j]
    BY <2>3, <2>5, <2>6
  <2>8. Cleared(k) /\ UNCHANGED <<request, hold, owner, tenant>>
    BY <1>1 DEF ListEvidence, Cleared
  <2> QED
    BY <2>7, <2>8, AdvanceInvariant
<1>2. ASSUME NEW e \in Evidence, DeleteFile(k, e)
      PROVE  DeletionInvariant'
  <2>1. PICK done \in BOOLEAN :
          sweep' = [sweep EXCEPT ![k].files = @ \ {e}, ![k].failed = @ \/ ~done]
    BY <1>2 DEF DeleteFile
  <2>2. sweep' \in [Sweeps -> SweepRuns] /\ sweep'[k].request = sweep[k].request
    <3>1. sweep \in [Sweeps -> SweepRuns] /\ sweep[k] \in SweepRuns
      BY DEF DeletionInvariant, Shapes
    <3>2. [sweep[k] EXCEPT !.files = @ \ {e}, !.failed = @ \/ ~done] \in SweepRuns
      BY <3>1 DEF SweepRuns
    <3> PICK new \in SweepRuns : new = [sweep[k] EXCEPT !.files = @ \ {e}, !.failed = @ \/ ~done]
      BY <3>2
    <3>3. sweep' = [sweep EXCEPT ![k] = new]
      BY <2>1, <3>1
    <3>4. new.request = sweep[k].request
      BY <3>1 DEF SweepRuns
    <3> QED
      BY <3>1, <3>3, <3>4
  <2>3. sweep'[k].pc = sweep[k].pc /\ \A j \in Sweeps \ {k} : sweep'[j] = sweep[j]
    BY <2>1 DEF DeletionInvariant, Shapes, SweepRuns
  <2> QED
    BY <1>2, <2>1, <2>2, <2>3, AdvanceInvariant DEF DeleteFile, Cleared
<1> QED
  BY <1>1, <1>2

\* The heartbeat goes on, or the sweep ends with its own request.
LEMMA FinishPageInvariant ==
  ASSUME DeletionInvariant, NEW k \in Sweeps, FinishPage(k)
  PROVE  DeletionInvariant'
<1> DEFINE q == sweep[k].request
<1>1. sweep[k].pc = "files" /\ Cleared(k) /\ UNCHANGED <<hold, owner, tenant>>
  BY DEF FinishPage, Cleared
<1>2. CASE EndSweep(k) /\ (UNCHANGED request \/ ReleaseClaim(k, "failed"))
  BY <1>1, <1>2, EndInvariant
<1>3. CASE /\ HasClaim(k)
           /\ request' = [request EXCEPT ![q].stale = FALSE]
           /\ sweep' = [sweep EXCEPT ![k].pc = "counted"]
  <2> DEFINE r == [request[q] EXCEPT !.stale = FALSE]
  <2>1. q \in Requests /\ request[q] \in Request /\ request[q].status = "processing"
    BY <1>1, <1>3 DEF DeletionInvariant, Shapes, HasClaim
  <2>2. r \in Request /\ r.token = request[q].token
    BY <2>1 DEF Request
  <2>3. request' = [request EXCEPT ![q] = r]
    BY <1>3
  <2>4. /\ sweep' \in [Sweeps -> SweepRuns]
        /\ \A j \in Sweeps : j # k => sweep'[j] = sweep[j]
        /\ sweep'[k].request = sweep[k].request
    BY <1>3 DEF DeletionInvariant, Shapes, SweepRuns
  <2>5. \A j \in Sweeps : Cleared(j)' => Cleared(j) /\ sweep'[j].request = sweep[j].request
    BY <1>1, <2>4 DEF Cleared
  <2>6. \A j \in Sweeps : sweep'[j].pc # "idle" => sweep'[j].request \in Requests
    BY <1>1, <2>4 DEF DeletionInvariant, Shapes
  <2> HIDE DEF q, r
  <2>7. request' \in [Requests -> Request] /\ NoHoldBehindClaim' /\ PurgedIsFinal'
    BY <1>1, <2>1, <2>2, <2>3, <2>5, RowMoves
  <2> QED
    BY <1>1, <2>4, <2>6, <2>7 DEF DeletionInvariant, Shapes
<1> QED
  BY <1>2, <1>3 DEF FinishPage

\* The last look at the claim and the hold, before the purge.
LEMMA CheckFinalInvariant ==
  ASSUME DeletionInvariant, NEW k \in Sweeps, CheckFinal(k)
  PROVE  DeletionInvariant'
<1>1. sweep[k].pc = "counted" /\ Cleared(k) /\ UNCHANGED <<hold, owner, tenant>>
  BY DEF CheckFinal, Cleared
<1>2. CASE EndSweep(k) /\ (UNCHANGED request \/ ReleaseClaim(k, "approved") \/ ReleaseClaim(k, "blocked"))
  BY <1>1, <1>2, EndInvariant
<1>3. CASE sweep' = [sweep EXCEPT ![k].pc = "purging"] /\ UNCHANGED request
  <2>1. sweep' \in [Sweeps -> SweepRuns] /\ sweep'[k].request = sweep[k].request
    BY <1>3 DEF DeletionInvariant, Shapes, SweepRuns
  <2> QED
    BY <1>1, <1>3, <2>1, AdvanceInvariant
<1> QED
  BY <1>2, <1>3 DEF CheckFinal

\* After either batch there are no requests, and so no claims.
LEMMA PurgeInvariant ==
  ASSUME DeletionInvariant, NEW k \in Sweeps, PurgeTenant(k) \/ PurgeUsersOnly(k)
  PROVE  DeletionInvariant'
<1> USE DEF DeletionInvariant
<1>1. /\ DropRequests /\ EndSweep(k) /\ UNCHANGED owner
      /\ hold' \in BOOLEAN /\ tenant' \in {"live", "purged"}
  BY DEF PurgeTenant, PurgeUsersOnly, Shapes, Cost!Cascade
<1>2. /\ request' \in [Requests -> Request]
      /\ \A q \in Requests : request'[q].status \in {"none", "gone"}
  <2>1. [NoRequest EXCEPT !.status = "none"] \in Request /\ [NoRequest EXCEPT !.status = "gone"] \in Request
    <3>1. NoRequest \in Request
      BY DeletionAssumption DEF NoRequest, Request, Statuses
    <3> QED
      BY <3>1 DEF Request, Statuses
  <2>2. \A q \in Requests : request'[q] = IF request[q].status = "none"
                                         THEN [NoRequest EXCEPT !.status = "none"]
                                         ELSE [NoRequest EXCEPT !.status = "gone"]
    <3> SUFFICES ASSUME NEW q \in Requests
                 PROVE  request'[q] = IF request[q].status = "none"
                                      THEN [NoRequest EXCEPT !.status = "none"]
                                      ELSE [NoRequest EXCEPT !.status = "gone"]
      OBVIOUS
    <3>1. CASE request[q].status = "none"
      BY <1>1, <3>1 DEF DropRequests
    <3>2. CASE request[q].status # "none"
      BY <1>1, <3>2 DEF DropRequests
    <3> QED
      BY <3>1, <3>2
  <2>3. \A q \in Requests : request'[q] \in Request /\ request'[q].status \in {"none", "gone"}
    BY <2>1, <2>2 DEF NoRequest
  <2> QED
    BY <1>1, <2>3 DEF DropRequests
<1>3. /\ sweep' \in [Sweeps -> SweepRuns]
      /\ \A j \in Sweeps : sweep'[j].pc # "idle" => sweep'[j].request \in Requests
  BY <1>1 DEF EndSweep, Shapes, IdleSweep, SweepRuns
<1>4. Shapes'
  BY <1>1, <1>2, <1>3 DEF Shapes
<1>5. NoHoldBehindClaim'
  BY <1>2, <1>3 DEF NoHoldBehindClaim, Cleared, HasClaim
<1> QED
  BY <1>2, <1>4, <1>5 DEF PurgedIsFinal

\* Every step of a sweep.
LEMMA SweepInvariant ==
  ASSUME DeletionInvariant, NEW k \in Sweeps, SweepStep(k)
  PROVE  DeletionInvariant'
<1>1. CASE LoseSweep(k)
  BY <1>1, EndInvariant DEF LoseSweep
<1>2. CASE ContinueReports(k)
  BY <1>2, EndInvariant DEF ContinueReports
<1> QED
  BY <1>1, <1>2, ClaimInvariant, CheckHoldInvariant, CleanReportsInvariant, FilesInvariant,
     FinishPageInvariant, CheckFinalInvariant, PurgeInvariant
  DEF SweepStep
-----------------------------------------------------------------------------
(* The theorems.                                                           *)

\* Every step keeps the inductive invariant.
LEMMA DeletionStepInvariant ==
  ASSUME DeletionInvariant, [DeletionNext]_vars
  PROVE  DeletionInvariant'
<1>1. CASE UNCHANGED vars
  BY <1>1 DEF DeletionInvariant, Shapes, NoHoldBehindClaim, Cleared, HasClaim, PurgedIsFinal
<1>2. CASE DeletionNext
  BY <1>2, OwnerInvariant, HoldInvariant, WorldInvariant, SweepInvariant DEF DeletionNext
<1> QED
  BY <1>1, <1>2

\* The inductive invariant, in every behaviour.
THEOREM DeletionInvariantHolds == DeletionSpec => []DeletionInvariant
<1>1. DeletionInit => DeletionInvariant
  BY DeletionInitInvariant
<1>2. DeletionInvariant /\ [DeletionNext]_vars => DeletionInvariant'
  BY DeletionStepInvariant
<1> QED
  BY <1>1, <1>2, PTL DEF DeletionSpec

\* Only one step purges, and it has its claim.
LEMMA OnlyPurgeTenantPurges ==
  ASSUME [DeletionNext]_vars, Purges
  PROVE  \E k \in Sweeps : PurgeTenant(k)
<1>1. ~LedgerMoves
  BY DEF Purges, LedgerMoves, Cost!LedgerStep, Cost!AcceptRun, Cost!CommitReserve,
         Cost!ReleaseUnused, Cost!CallProvider, Cost!ProviderAnswers, Cost!CommitSettle,
         Cost!Abandon, Cost!BudgetSwitch, Cost!Reconcile, Cost!tenantVars
<1>2. \A o \in Owners : ~OwnerStep(o)
  BY DEF Purges, OwnerStep, AcceptFile, AcceptApprove, CommitFile, CommitApprove, OwnerGivesUp
<1>3. ~CreateHold /\ ~ReleaseHold
  BY DEF Purges, CreateHold, ReleaseHold
<1>4. /\ \A e \in Evidence : ~Presign(e) /\ ~AcceptUpload(e) /\ ~StoreObject(e)
      /\ \A q \in Requests : ~ClaimGoesStale(q)
  BY DEF Purges, Presign, AcceptUpload, StoreObject, ClaimGoesStale
<1>5. PICK k \in Sweeps : SweepStep(k)
  BY <1>1, <1>2, <1>3, <1>4 DEF DeletionNext, Purges
<1> QED
  BY <1>5 DEF Purges, SweepStep, Claim, CheckHold, CleanReports, ContinueReports, ListEvidence,
              DeleteFile, FinishPage, CheckFinal, PurgeUsersOnly, LoseSweep

\* No tenant is purged under an active hold, with or without a budget row whose
\* triggers would refuse it.
THEOREM NoPurgeUnderHold == DeletionSpec => PurgeUnderNoHold
<1>1. DeletionInvariant /\ [DeletionNext]_vars => [Purges => ~hold]_vars
  <2> SUFFICES ASSUME DeletionInvariant, [DeletionNext]_vars, Purges PROVE ~hold
    OBVIOUS
  <2>1. PICK k \in Sweeps : PurgeTenant(k)
    BY OnlyPurgeTenantPurges
  <2> QED
    BY <2>1 DEF PurgeTenant, DeletionInvariant, NoHoldBehindClaim, Cleared
<1> QED
  BY <1>1, DeletionInvariantHolds, PTL DEF DeletionSpec, PurgeUnderNoHold

\* A token belongs to a request that is being processed.
TokenIsAClaim == \A q \in Requests : request[q].token # None => request[q].status = "processing"

\* A change of one request that touches neither a claim nor its token.
KeepsClaim(q, r) ==
    /\ request' = [request EXCEPT ![q] = r]
    /\ r.token = request[q].token
    /\ request[q].status = "processing" => r.status = "processing"

\* A sweep ends with its claim.
EndsOwnClaim(k, s) == sweep[k].pc # "idle" /\ HasClaim(k) /\ ReleaseClaim(k, s) /\ EndSweep(k)

RequestStep ==
    \/ UNCHANGED request
    \/ \E q \in Requests, r \in Request : KeepsClaim(q, r)
    \/ \E k \in Sweeps, q \in Requests : Claim(k, q)
    \/ \E k \in Sweeps, s \in {"approved", "failed", "blocked"} : EndsOwnClaim(k, s)
    \/ DropRequests

\* The ways in which a request moves.
LEMMA RequestMoves ==
  ASSUME DeletionInvariant, [DeletionNext]_vars
  PROVE  RequestStep
<1> USE DEF DeletionInvariant, Shapes
<1>1. ASSUME NEW o \in Owners, CommitFile(o)
      PROVE  RequestStep
  <2> DEFINE q == owner[o].request
  <2> DEFINE r == [request[q] EXCEPT !.status = owner[o].status]
  <2>1. q \in Requests /\ request[q] \in Request /\ r \in Request
    BY <1>1 DEF CommitFile, Request, Statuses
  <2>2. KeepsClaim(q, r)
    BY <1>1, <2>1 DEF CommitFile, KeepsClaim, Request
  <2> QED
    BY <2>1, <2>2 DEF RequestStep
<1>2. ASSUME NEW o \in Owners, CommitApprove(o)
      PROVE  RequestStep
  <2> DEFINE q == owner[o].request
  <2> DEFINE r == [request[q] EXCEPT !.status = "approved"]
  <2>1. q \in Requests /\ request[q] \in Request /\ r \in Request
    BY <1>2 DEF CommitApprove, Request, Statuses
  <2>2. KeepsClaim(q, r)
    BY <1>2, <2>1 DEF CommitApprove, KeepsClaim, Request
  <2> QED
    BY <2>1, <2>2 DEF RequestStep
<1>3. ASSUME NEW q \in Requests, ClaimGoesStale(q)
      PROVE  RequestStep
  <2> DEFINE r == [request[q] EXCEPT !.stale = TRUE]
  <2>1. request[q] \in Request /\ r \in Request /\ KeepsClaim(q, r)
    BY <1>3 DEF ClaimGoesStale, KeepsClaim, Request
  <2> QED
    BY <2>1 DEF RequestStep
<1>4. ASSUME NEW k \in Sweeps, NEW s \in {"approved", "failed", "blocked"},
             sweep[k].pc # "idle", ReleaseClaim(k, s), EndSweep(k)
      PROVE  RequestStep
  BY <1>4 DEF ReleaseClaim, EndsOwnClaim, RequestStep
<1>5. ASSUME NEW k \in Sweeps, CleanReports(k)
      PROVE  RequestStep
  <2> DEFINE q == sweep[k].request
  <2> DEFINE r == [request[q] EXCEPT !.attempts = IF @ > 0 THEN @ - 1 ELSE 0]
  <2>1. q \in Requests /\ request[q] \in Request /\ r \in Request
    BY <1>5, DeletionAssumption DEF CleanReports, Request
  <2>2. KeepsClaim(q, r) \/ UNCHANGED request \/ (ReleaseClaim(k, "failed") /\ EndSweep(k))
    BY <1>5, <2>1 DEF CleanReports, KeepsClaim, Request
  <2> HIDE DEF q, r
  <2> QED
    BY <1>4, <1>5, <2>1, <2>2 DEF RequestStep, CleanReports
<1>6. ASSUME NEW k \in Sweeps, FinishPage(k)
      PROVE  RequestStep
  <2> DEFINE q == sweep[k].request
  <2> DEFINE r == [request[q] EXCEPT !.stale = FALSE]
  <2>1. sweep[k].pc # "idle" /\ q \in Requests /\ request[q] \in Request
    BY <1>6 DEF FinishPage
  <2>2. r \in Request /\ r.token = request[q].token /\ r.status = request[q].status
    BY <2>1 DEF Request
  <2>3. \/ UNCHANGED request
        \/ ReleaseClaim(k, "failed") /\ EndSweep(k)
        \/ request' = [request EXCEPT ![q] = r]
    BY <1>6 DEF FinishPage
  <2> HIDE DEF q, r
  <2>4. CASE request' = [request EXCEPT ![q] = r]
    BY <2>1, <2>2, <2>4 DEF KeepsClaim, RequestStep
  <2> QED
    BY <1>4, <2>1, <2>3, <2>4 DEF RequestStep
<1>7. ASSUME NEW k \in Sweeps, SweepStep(k)
      PROVE  RequestStep
  <2>1. CASE \E q \in Requests : Claim(k, q)
    BY <2>1 DEF RequestStep
  <2>2. CASE CheckHold(k)
    BY <1>4, <2>2 DEF CheckHold, RequestStep
  <2>3. CASE ContinueReports(k)
    BY <1>4, <2>3 DEF ContinueReports
  <2>4. CASE CheckFinal(k)
    BY <1>4, <2>4 DEF CheckFinal, RequestStep
  <2>5. CASE PurgeTenant(k) \/ PurgeUsersOnly(k)
    BY <2>5 DEF PurgeTenant, PurgeUsersOnly, RequestStep
  <2>6. CASE ListEvidence(k) \/ (\E e \in Evidence : DeleteFile(k, e)) \/ LoseSweep(k)
    BY <2>6 DEF ListEvidence, DeleteFile, LoseSweep, RequestStep
  <2> QED
    BY <1>5, <1>6, <1>7, <2>1, <2>2, <2>3, <2>4, <2>5, <2>6 DEF SweepStep
<1>8. ASSUME NEW o \in Owners, OwnerStep(o)
      PROVE  RequestStep
  BY <1>1, <1>2, <1>8 DEF OwnerStep, AcceptFile, AcceptApprove, OwnerGivesUp, RequestStep
<1>9. CASE LedgerMoves \/ CreateHold \/ ReleaseHold
           \/ \E e \in Evidence : Presign(e) \/ AcceptUpload(e) \/ StoreObject(e)
  BY <1>9 DEF LedgerMoves, CreateHold, ReleaseHold, Presign, AcceptUpload, StoreObject, RequestStep
<1>10. CASE UNCHANGED vars
  BY <1>10 DEF RequestStep
<1> QED
  BY <1>3, <1>7, <1>8, <1>9, <1>10 DEF DeletionNext

\* A token is set by a claim and leaves with it.
LEMMA TokenInvariant == DeletionSpec => []TokenIsAClaim
<1>1. DeletionInit => TokenIsAClaim
  BY DEF DeletionInit, TokenIsAClaim, NoRequest
<1>2. DeletionInvariant /\ TokenIsAClaim /\ [DeletionNext]_vars => TokenIsAClaim'
  <2> SUFFICES ASSUME DeletionInvariant, TokenIsAClaim, [DeletionNext]_vars PROVE TokenIsAClaim'
    OBVIOUS
  <2> USE DEF TokenIsAClaim
  <2>1. /\ request \in [Requests -> Request]
        /\ \A k \in Sweeps : sweep[k].pc # "idle" => sweep[k].request \in Requests
    BY DEF DeletionInvariant, Shapes
  <2>2. CASE \E q \in Requests, r \in Request : KeepsClaim(q, r)
    BY <2>1, <2>2 DEF KeepsClaim
  <2>3. CASE \E k \in Sweeps, q \in Requests : Claim(k, q)
    BY <2>1, <2>3 DEF Claim
  <2>4. CASE \E k \in Sweeps, s \in {"approved", "failed", "blocked"} : EndsOwnClaim(k, s)
    BY <2>1, <2>4 DEF EndsOwnClaim, ReleaseClaim, Request
  <2>5. CASE DropRequests
    BY <2>5 DEF DropRequests, NoRequest
  <2> QED
    BY <2>2, <2>3, <2>4, <2>5, RequestMoves DEF RequestStep
<1> QED
  BY <1>1, <1>2, DeletionInvariantHolds, PTL DEF DeletionSpec

\* Nothing a sweep does after it lost its claim moves the request of the sweep that
\* took over: a claim that is not stale is ended by its holder, or by the purge.
THEOREM ClaimIsTheHolders == DeletionSpec => ClaimEndsByHolder
<1> DEFINE Ended == \A q \in Requests, k \in Sweeps :
                       /\ request[q].token = k /\ ~request[q].stale
                       /\ request'[q].token # k /\ request'[q].status # "gone"
                       => sweep[k].request = q /\ sweep'[k] # sweep[k]
<1>1. DeletionInvariant /\ TokenIsAClaim /\ [DeletionNext]_vars => Ended
  <2> SUFFICES ASSUME DeletionInvariant, TokenIsAClaim, [DeletionNext]_vars,
                      NEW q \in Requests, NEW k \in Sweeps,
                      request[q].token = k, ~request[q].stale,
                      request'[q].token # k, request'[q].status # "gone"
               PROVE  sweep[k].request = q /\ sweep'[k] # sweep[k]
    OBVIOUS
  <2>1. /\ request \in [Requests -> Request] /\ sweep \in [Sweeps -> SweepRuns]
        /\ request[q].status = "processing"
    BY DeletionAssumption DEF DeletionInvariant, Shapes, TokenIsAClaim
  <2>2. CASE \E p \in Requests, r \in Request : KeepsClaim(p, r)
    BY <2>1, <2>2 DEF KeepsClaim
  <2>3. CASE \E j \in Sweeps, p \in Requests : Claim(j, p)
    BY <2>1, <2>3 DEF Claim, NewClaim, RecoverClaim
  <2>4. CASE \E j \in Sweeps, s \in {"approved", "failed", "blocked"} : EndsOwnClaim(j, s)
    <3>1. PICK j \in Sweeps, s \in {"approved", "failed", "blocked"} : EndsOwnClaim(j, s)
      BY <2>4
    <3>2. sweep[j].request = q
      BY <2>1, <3>1 DEF EndsOwnClaim, ReleaseClaim
    <3>3. j = k
      BY <3>1, <3>2 DEF EndsOwnClaim, HasClaim
    <3>4. sweep'[k].pc = "idle" /\ sweep[k].pc # "idle"
      BY <2>1, <3>1, <3>3 DEF EndsOwnClaim, EndSweep, IdleSweep
    <3> QED
      BY <3>2, <3>3, <3>4
  <2>5. CASE DropRequests
    BY <2>1, <2>5 DEF DropRequests, NoRequest
  <2> QED
    BY <2>2, <2>3, <2>4, <2>5, RequestMoves DEF RequestStep
<1> QED
  BY <1>1, DeletionInvariantHolds, TokenInvariant, PTL DEF DeletionSpec, ClaimEndsByHolder

\* Every step is one of the ledger's steps, a change of closing, or the purge with
\* nothing reserved.
LEMMA LedgerStepRefinement ==
  ASSUME DeletionInvariant, DeletionInvariant', [DeletionNext]_vars,
         budgeted \/ Cost!NothingReserved
  PROVE  [Cost!LedgerNext]_(Cost!costVars)
<1> USE DEF Cost!costVars, Cost!ledgerVars, Cost!tenantVars
<1>1. CASE LedgerMoves
  BY <1>1 DEF LedgerMoves, Cost!LedgerNext
<1>2. CASE \E k \in Sweeps : PurgeTenant(k)
  <2>1. PICK k \in Sweeps : PurgeTenant(k)
    BY <1>2
  <2>2. Cost!NothingReserved
    BY <2>1 DEF PurgeTenant, CostGuards
  <2>3. Closing' = FALSE
    BY <2>1 DEF PurgeTenant, DropRequests, Closing, NoRequest
  <2> QED
    BY <2>1, <2>2, <2>3 DEF PurgeTenant, Cost!LedgerNext, Cost!TenantPurged
<1>3. CASE UNCHANGED <<costVars, tenant>>
  <2>1. CASE tenant = "purged"
    <3>1. ~Closing /\ ~Closing'
      BY <1>3, <2>1 DEF DeletionInvariant, PurgedIsFinal, Closing
    <3>2. Closing' = Closing
      BY <3>1, Zenon DEF Closing
    <3> QED
      BY <1>3, <3>2
  <2>2. CASE tenant = "live"
    <3>1. Closing' = ~Closing \/ Closing' = Closing
      BY DEF Closing
    <3> QED
      BY <1>3, <2>2, <3>1 DEF Cost!LedgerNext, Cost!DeletionMoves
  <2> QED
    BY <2>1, <2>2 DEF DeletionInvariant, Shapes
<1>4. ASSUME NEW o \in Owners, OwnerStep(o)
      PROVE  UNCHANGED <<costVars, tenant>>
  BY <1>4 DEF OwnerStep, AcceptFile, AcceptApprove, CommitFile, CommitApprove, OwnerGivesUp
<1>5. CASE CreateHold \/ ReleaseHold
  BY <1>3, <1>5 DEF CreateHold, ReleaseHold
<1>6. ASSUME NEW e \in Evidence, Presign(e) \/ AcceptUpload(e) \/ StoreObject(e)
      PROVE  UNCHANGED <<costVars, tenant>>
  BY <1>6 DEF Presign, AcceptUpload, StoreObject
<1>7. ASSUME NEW q \in Requests, ClaimGoesStale(q)
      PROVE  UNCHANGED <<costVars, tenant>>
  BY <1>7 DEF ClaimGoesStale
<1>8. ASSUME NEW k \in Sweeps, SweepStep(k), ~PurgeTenant(k)
      PROVE  UNCHANGED <<costVars, tenant>>
  BY <1>8 DEF SweepStep, Claim, CheckHold, CleanReports, ContinueReports, ListEvidence,
              DeleteFile, FinishPage, CheckFinal, PurgeUsersOnly, LoseSweep
<1> QED
  BY <1>1, <1>2, <1>3, <1>4, <1>5, <1>6, <1>7, <1>8 DEF DeletionNext

\* Without a budget row there is nothing in the ledger.
Unbudgeted == ~budgeted => called = {} /\ Cost!NothingReserved

\* A tenant without a budget row never reserves, so the triggers have nothing to guard.
LEMMA UnbudgetedHolds == DeletionSpec => []Unbudgeted
<1>1. DeletionInit => Unbudgeted
  BY DEF DeletionInit, Unbudgeted, Cost!LedgerInit, Cost!NothingReserved, Cost!NoReservation
<1>2. Unbudgeted /\ [DeletionNext]_vars => Unbudgeted'
  <2> SUFFICES ASSUME Unbudgeted, [DeletionNext]_vars PROVE Unbudgeted'
    OBVIOUS
  <2>1. CASE LedgerMoves
    BY <2>1 DEF LedgerMoves, Unbudgeted
  <2>2. ASSUME NEW k \in Sweeps, PurgeTenant(k)
        PROVE  Unbudgeted'
    BY <2>2 DEF PurgeTenant, Unbudgeted, Cost!Cascade, Cost!NothingReserved, Cost!NoReservation
  <2>3. CASE UNCHANGED <<called, reservation, budgeted>>
    BY <2>3 DEF Unbudgeted, Cost!NothingReserved
  <2>4. ASSUME NEW o \in Owners, OwnerStep(o)
        PROVE  UNCHANGED <<called, reservation, budgeted>>
    BY <2>4 DEF OwnerStep, AcceptFile, AcceptApprove, CommitFile, CommitApprove, OwnerGivesUp
  <2>5. CASE CreateHold \/ ReleaseHold
    BY <2>3, <2>5 DEF CreateHold, ReleaseHold
  <2>6. ASSUME NEW e \in Evidence, Presign(e) \/ AcceptUpload(e) \/ StoreObject(e)
        PROVE  UNCHANGED <<called, reservation, budgeted>>
    BY <2>6 DEF Presign, AcceptUpload, StoreObject
  <2>7. ASSUME NEW q \in Requests, ClaimGoesStale(q)
        PROVE  UNCHANGED <<called, reservation, budgeted>>
    BY <2>7 DEF ClaimGoesStale
  <2>8. ASSUME NEW k \in Sweeps, SweepStep(k), ~PurgeTenant(k)
        PROVE  UNCHANGED <<called, reservation, budgeted>>
    BY <2>8 DEF SweepStep, Claim, CheckHold, CleanReports, ContinueReports, ListEvidence,
                DeleteFile, FinishPage, CheckFinal, PurgeUsersOnly, LoseSweep
  <2> QED
    BY <2>1, <2>2, <2>3, <2>4, <2>5, <2>6, <2>7, <2>8 DEF DeletionNext
<1> QED
  BY <1>1, <1>2, PTL DEF DeletionSpec

\* Deletion, with its sweeps, recoveries and lost claims, keeps the ledger's rules.
THEOREM LedgerRefinement == DeletionSpec => ImplementsLedger
<1>1. DeletionInit => Cost!LedgerInit
  BY DEF DeletionInit
<1>2. DeletionInvariant /\ DeletionInvariant' /\ Unbudgeted /\ [DeletionNext]_vars
        => [Cost!LedgerNext]_(Cost!costVars)
  BY LedgerStepRefinement DEF Unbudgeted
<1> QED
  BY <1>1, <1>2, DeletionInvariantHolds, UnbudgetedHolds, PTL
  DEF DeletionSpec, ImplementsLedger, Cost!LedgerSpec

CostProofs == INSTANCE CostLedgerProofs WITH closing <- Closing

\* What is proved of the ledger alone holds of the ledger beside deletion.
LEMMA LedgerInvariantBeside == DeletionSpec => []CostProofs!LedgerInvariant
<1>0. CostProofs!LedgerConstants
  BY DeletionAssumption DEF CostProofs!LedgerConstants
<1>1. Cost!LedgerInit => CostProofs!LedgerInit
  BY DEF Cost!LedgerInit, CostProofs!LedgerInit, Cost!NoReservation, CostProofs!NoReservation,
         Cost!IdleRun, CostProofs!IdleRun
<1>2. [Cost!LedgerNext]_(Cost!costVars) => [CostProofs!LedgerNext]_(CostProofs!costVars)
  BY
  DEF Cost!LedgerNext, CostProofs!LedgerNext, Cost!LedgerStep, CostProofs!LedgerStep,
      Cost!DeletionMoves, CostProofs!DeletionMoves, Cost!TenantPurged, CostProofs!TenantPurged,
      Cost!NothingReserved, CostProofs!NothingReserved, Cost!Cascade, CostProofs!Cascade,
      Cost!AcceptRun, CostProofs!AcceptRun, Cost!CommitReserve, CostProofs!CommitReserve,
      Cost!ReleaseUnused, CostProofs!ReleaseUnused, Cost!CallProvider, CostProofs!CallProvider,
      Cost!ProviderAnswers, CostProofs!ProviderAnswers, Cost!CommitSettle, CostProofs!CommitSettle,
      Cost!Abandon, CostProofs!Abandon, Cost!BudgetSwitch, CostProofs!BudgetSwitch, Cost!Reconcile,
      CostProofs!Reconcile, Cost!Settle, CostProofs!Settle, Cost!Release, CostProofs!Release,
      Cost!Held, CostProofs!Held, Cost!SettleBudget, CostProofs!SettleBudget, Cost!RunIdFree,
      CostProofs!RunIdFree, Cost!ReserveBudget, CostProofs!ReserveBudget, Cost!Admits,
      CostProofs!Admits, Cost!Fresh, CostProofs!Fresh, Cost!ledgerVars, CostProofs!ledgerVars,
      Cost!tenantVars, CostProofs!tenantVars, Cost!costVars, CostProofs!costVars,
      Cost!NoReservation, CostProofs!NoReservation, Cost!IdleRun, CostProofs!IdleRun
<1>3. CostProofs!LedgerInit => CostProofs!LedgerInvariant
  BY <1>0, CostProofs!LedgerInitInvariant
<1>4. CostProofs!LedgerInvariant /\ [CostProofs!LedgerNext]_(CostProofs!costVars)
        => CostProofs!LedgerInvariant'
  BY <1>0, CostProofs!LedgerStepInvariant
<1>5. DeletionInit => Cost!LedgerInit
  BY DEF DeletionInit
<1>6. DeletionInvariant /\ DeletionInvariant' /\ Unbudgeted /\ [DeletionNext]_vars
        => [Cost!LedgerNext]_(Cost!costVars)
  BY LedgerStepRefinement DEF Unbudgeted
<1> QED
  BY <1>1, <1>2, <1>3, <1>4, <1>5, <1>6, DeletionInvariantHolds, UnbudgetedHolds, PTL
  DEF DeletionSpec

\* When the tenant is purged, all that the provider was called for is settled.
THEOREM SettledBeforePurge == DeletionSpec => PurgeAfterSettlement
<1>1. CostProofs!LedgerInvariant /\ Unbudgeted /\ [DeletionNext]_vars
        => [Purges => \A x \in called : reservation[x].state = "settled"]_vars
  <2> SUFFICES ASSUME CostProofs!LedgerInvariant, Unbudgeted, [DeletionNext]_vars, Purges,
                      NEW x \in called
               PROVE  reservation[x].state = "settled"
    OBVIOUS
  <2>1. PICK k \in Sweeps : PurgeTenant(k)
    BY OnlyPurgeTenantPurges
  <2>2. x \in Reservations /\ reservation[x].state \in {"reserved", "settled"}
    BY DEF Purges, CostProofs!LedgerInvariant, CostProofs!LedgerTypeOK, CostProofs!CallsAreAccounted
  <2>3. reservation[x].state # "reserved"
    BY <2>1, <2>2 DEF PurgeTenant, CostGuards, Unbudgeted, Cost!NothingReserved
  <2> QED
    BY <2>2, <2>3
<1> QED
  BY <1>1, LedgerInvariantBeside, UnbudgetedHolds, PTL DEF DeletionSpec, PurgeAfterSettlement
-----------------------------------------------------------------------------
(* Types.                                                                  *)

\* The rest of the tenant: its evidence, report pages, users and tombstones.
TenantShapes ==
    /\ evidence \in [Evidence -> File]
    /\ uploading \subseteq Evidence
    /\ pages \in 0..ReportPages
    /\ users \in BOOLEAN
    /\ tombstone \subseteq Requests
    /\ budgeted \in BOOLEAN

LEMMA TenantInit == DeletionInit => TenantShapes
<1> SUFFICES ASSUME DeletionInit PROVE TenantShapes
  OBVIOUS
<1>1. evidence \in [Evidence -> File]
  BY DEF DeletionInit, File
<1>2. users \in BOOLEAN /\ budgeted \in BOOLEAN
  BY Zenon DEF DeletionInit
<1> QED
  BY <1>1, <1>2, DeletionAssumption DEF DeletionInit, TenantShapes

\* A file is stored, or its row written, and the rest stays.
LEMMA FileMoves ==
  ASSUME TenantShapes, NEW e \in Evidence, NEW f \in File, evidence' = [evidence EXCEPT ![e] = f]
  PROVE  evidence' \in [Evidence -> File]
  BY DEF TenantShapes

LEMMA EvidenceStep ==
  ASSUME TenantShapes, NEW e \in Evidence, Presign(e) \/ AcceptUpload(e) \/ StoreObject(e)
  PROVE  TenantShapes'
<1> USE DEF TenantShapes
<1>0. evidence[e] \in File
  OBVIOUS
<1>1. CASE Presign(e)
  <2>1. [evidence[e] EXCEPT !.row = "kept", !.pending = TRUE] \in File
    BY <1>0 DEF File
  <2> PICK f \in File : f = [evidence[e] EXCEPT !.row = "kept", !.pending = TRUE]
    BY <2>1
  <2>2. evidence' = [evidence EXCEPT ![e] = f]
    BY <1>1 DEF Presign
  <2> QED
    BY <1>1, <2>2, FileMoves DEF Presign
<1>2. CASE AcceptUpload(e)
  BY <1>2 DEF AcceptUpload
<1>3. CASE StoreObject(e)
  <2>1. PICK pending \in BOOLEAN : evidence' = [evidence EXCEPT ![e].object = TRUE, ![e].pending = pending]
    BY <1>0, <1>3 DEF StoreObject, File
  <2>2. [evidence[e] EXCEPT !.object = TRUE, !.pending = pending] \in File
    BY <1>0 DEF File
  <2> PICK f \in File : f = [evidence[e] EXCEPT !.object = TRUE, !.pending = pending]
    BY <2>2
  <2>3. evidence' = [evidence EXCEPT ![e] = f]
    BY <2>1
  <2> QED
    BY <1>3, <2>3, FileMoves DEF StoreObject
<1> QED
  BY <1>1, <1>2, <1>3

\* A file leaves with its row, without it, or not at all.
LEMMA FileLeaves ==
  ASSUME TenantShapes, NEW k \in Sweeps, NEW e \in Evidence, DeleteFile(k, e)
  PROVE  TenantShapes'
<1> USE DEF TenantShapes
<1>0. evidence[e] \in File
  OBVIOUS
<1>1. PICK done \in BOOLEAN, object \in BOOLEAN :
         evidence' = [evidence EXCEPT ![e].row = IF done /\ tenant = "live" THEN "deleted" ELSE @,
                                      ![e].object = object]
  BY <1>0 DEF DeleteFile, File
<1>2. [evidence[e] EXCEPT !.row = IF done /\ tenant = "live" THEN "deleted" ELSE @, !.object = object] \in File
  BY <1>0 DEF File
<1> PICK f \in File :
       f = [evidence[e] EXCEPT !.row = IF done /\ tenant = "live" THEN "deleted" ELSE @, !.object = object]
  BY <1>2
<1>3. evidence' = [evidence EXCEPT ![e] = f]
  BY <1>1
<1> QED
  BY <1>3, FileMoves DEF DeleteFile

\* Both batches take the users; the purge leaves a tombstone and no row of evidence.
LEMMA BatchShapes ==
  ASSUME DeletionInvariant, TenantShapes, NEW k \in Sweeps, PurgeTenant(k) \/ PurgeUsersOnly(k)
  PROVE  TenantShapes'
<1> USE DEF TenantShapes
<1>1. CASE PurgeTenant(k)
  <2>1. \A e \in Evidence : [evidence[e] EXCEPT !.row = "none"] \in File
    BY DEF File
  <2>2. evidence' \in [Evidence -> File]
    BY <1>1, <2>1 DEF PurgeTenant
  <2>3. sweep[k].request \in Requests
    BY <1>1 DEF PurgeTenant, DeletionInvariant, Shapes
  <2>4. users' \in BOOLEAN
    BY <1>1, Zenon DEF PurgeTenant
  <2> QED
    BY <1>1, <2>2, <2>3, <2>4 DEF PurgeTenant
<1>2. CASE PurgeUsersOnly(k)
  <2>1. users' \in BOOLEAN
    BY <1>2, Zenon DEF PurgeUsersOnly
  <2> QED
    BY <1>2, <2>1 DEF PurgeUsersOnly
<1> QED
  BY <1>1, <1>2

LEMMA TenantStep ==
  ASSUME DeletionInvariant, TenantShapes, [DeletionNext]_vars
  PROVE  TenantShapes'
<1>1. CASE UNCHANGED <<fileVars, users, tombstone, budgeted>>
  BY <1>1 DEF TenantShapes
<1>2. ASSUME NEW o \in Owners, OwnerStep(o)
      PROVE  TenantShapes'
  BY <1>1, <1>2 DEF OwnerStep, AcceptFile, AcceptApprove, CommitFile, CommitApprove, OwnerGivesUp
<1>3. ASSUME NEW k \in Sweeps, CleanReports(k)
      PROVE  TenantShapes'
  <2>1. pages' \in 0..ReportPages
    BY <1>3, DeletionAssumption DEF CleanReports, TenantShapes
  <2> QED
    BY <1>3, <2>1 DEF CleanReports, TenantShapes
<1>4. ASSUME NEW k \in Sweeps, SweepStep(k)
      PROVE  TenantShapes'
  <2>1. CASE PurgeTenant(k) \/ PurgeUsersOnly(k)
    BY <2>1, BatchShapes
  <2>2. CASE \E e \in Evidence : DeleteFile(k, e)
    BY <2>2, FileLeaves
  <2>3. CASE \/ \E q \in Requests : Claim(k, q)
             \/ CheckHold(k) \/ ContinueReports(k) \/ ListEvidence(k)
             \/ FinishPage(k) \/ CheckFinal(k) \/ LoseSweep(k)
    BY <1>1, <2>3 DEF Claim, CheckHold, ContinueReports, ListEvidence, FinishPage, CheckFinal, LoseSweep
  <2> QED
    BY <1>3, <1>4, <2>1, <2>2, <2>3 DEF SweepStep
<1>5. CASE CreateHold \/ ReleaseHold \/ LedgerMoves \/ UNCHANGED vars \/ \E q \in Requests : ClaimGoesStale(q)
  BY <1>1, <1>5 DEF CreateHold, ReleaseHold, LedgerMoves, ClaimGoesStale
<1> QED
  BY <1>2, <1>4, <1>5, EvidenceStep DEF DeletionNext

\* Every part of the tenant keeps its type: attempts stay within their limit, pages
\* never go below zero, and what a sweep works on is a request and files of the tenant.
THEOREM DeletionTypeCorrect == DeletionSpec => []DeletionTypeOK
<1>1. DeletionInvariant /\ TenantShapes /\ CostProofs!LedgerInvariant => DeletionTypeOK
  BY DEF DeletionInvariant, Shapes, TenantShapes, DeletionTypeOK, CostProofs!LedgerInvariant,
         CostProofs!LedgerTypeOK, Cost!LedgerTypeOK, Cost!Reservation, CostProofs!Reservation,
         Cost!Runs, CostProofs!Runs
<1> QED
  BY <1>1, TenantInit, TenantStep, DeletionInvariantHolds, LedgerInvariantBeside, PTL DEF DeletionSpec
=============================================================================
