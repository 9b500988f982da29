--------------------------- MODULE PaymentProofs ---------------------------
(***************************************************************************)
(* The credit orders of module PaymentSettlement, for any number of orders *)
(* and handlers, and the proofs of payment of module ProofOfPayment, for any *)
(* number of uploads, keys and requests.                                   *)
(***************************************************************************)
EXTENDS MCPaymentSettlement, FiniteSetTheorems, TLAPS
-----------------------------------------------------------------------------
(* PaymentSettlement: orders, credits and refunds over the wallet.         *)

WalletTheory == INSTANCE WalletProofs WITH hold <- Hold

\* A handler that has begun names its order.
JobsNameOrders == \A w \in Workers : ~In(w, "idle") => job[w].order \in Orders

\* A settlement that goes on to close its claim or to restore the order has seen the
\* fulfilment, and a fulfilment never goes away.
SettledIsFulfilled ==
    \A w \in Workers : job[w].phase \in {"finish", "close", "restore"} => fulfilment[job[w].order] # "none"

\* A refund under way has its request, and no other refund has the same.
Refunding(w) == job[w].phase \in {"locked", "provider", "reverse"}
RefundsAreLocked ==
    \A w \in Workers : Refunding(w) =>
        /\ refund[job[w].order] = "processing"
        /\ \A v \in Workers \ {w} : Refunding(v) => job[v].order # job[w].order

\* CreditsBacked, and beyond it what the ledger gets back when an answer fails.
Fulfilled == {o \in Orders : fulfilment[o] = "applied"}
GrantedSoFar == IF granted THEN Allowance ELSE 0
CreditsBackedAhead ==
    ledger + WalletTheory!CostOf({"wallet"})
        <= GrantedSoFar + Credits * Cardinality(Fulfilled) + Cost * stray

OrdersInv == PaymentsTypeOK /\ JobsNameOrders /\ SettledIsFulfilled /\ RefundsAreLocked
             /\ PaidIsFulfilled /\ RefundCovered /\ CreditsBackedAhead
-----------------------------------------------------------------------------
(* Every step is one of the wallet's.                                      *)

LEMMA WalletConstantsHold == WalletTheory!WalletConstants
  BY PaymentAssumption DEF IsFiniteSet, WalletTheory!IsFiniteSet, WalletTheory!WalletConstants

\* Beside the batches of settlements and refunds, a handler leaves wallet and
\* fulfilments alone.
LEMMA OtherSteps ==
  [PaymentsNext]_vars =>
     \/ UNCHANGED <<callVars, fulfilment>>
     \/ WalletMoves
     \/ \E w \in Workers : Fulfil(w) \/ ReverseOrder(w)
<1>1. ASSUME NEW w \in Workers, SettleStep(w), ~Fulfil(w) PROVE UNCHANGED <<callVars, fulfilment>>
  BY <1>1 DEF SettleStep, ReadOrder, ClaimSettlement, LookForFulfilment, FulfilAborts, FinishApplied,
       RestoreOrder, FinishFailed, claimVars
<1>2. ASSUME NEW w \in Workers, RefundStep(w), ~ReverseOrder(w) PROVE UNCHANGED <<callVars, fulfilment>>
  BY <1>2 DEF RefundStep, InsertRefund, LockedPreflight, RefundEnds, ProviderRefunds, claimVars
<1>3. ASSUME NEW w \in Workers, CheckoutStep(w) \/ LoseWorker(w) PROVE UNCHANGED <<callVars, fulfilment>>
  BY <1>3 DEF CheckoutStep, StoreSession, MarkProcessing, LoseWorker, claimVars
<1>4. ASSUME NEW o \in Orders,
             \/ CreateOrder(o) \/ CustomerPays(o)
             \/ \E w \in Workers : CreateToken(w, o) \/ VerifyPayment(w, o) \/ AcceptRefund(w, o)
      PROVE  UNCHANGED <<callVars, fulfilment>>
  BY <1>4 DEF CreateOrder, CustomerPays, CreateToken, VerifyPayment, AcceptRefund, claimVars
<1>5. ASSUME UNCHANGED vars PROVE UNCHANGED <<callVars, fulfilment>>
  BY <1>5 DEF vars, claimVars
<1> QED
  BY <1>1, <1>2, <1>3, <1>4, <1>5 DEF PaymentsNext

LEMMA WalletStepRefinement == [PaymentsNext]_vars => [Wallet!WalletNext]_(Wallet!walletVars)
<1> SUFFICES ASSUME [PaymentsNext]_vars PROVE Wallet!WalletNext
  OBVIOUS
<1>1. Hold' \in BOOLEAN
  BY DEF Hold
<1>2. CASE UNCHANGED callVars
  BY <1>1, <1>2 DEF callVars, bookVars, Wallet!WalletNext, Wallet!HoldMoves, Wallet!bookVars, Wallet!poolVars
<1>3. CASE WalletMoves
  BY <1>3 DEF WalletMoves, Wallet!WalletNext
<1>4. ASSUME NEW w \in Workers, Fulfil(w) \/ ReverseOrder(w) PROVE Wallet!WalletNext
  BY <1>1, <1>4 DEF Fulfil, ReverseOrder, Wallet!WalletNext
<1> QED
  BY <1>2, <1>3, <1>4, OtherSteps

\* Orders, settlements and refunds, lost handlers included, keep the wallet's rules.
THEOREM WalletRefinement == PaymentsSpec => ImplementsWallet
<1>1. PaymentsInit => Wallet!WalletInit
  BY DEF PaymentsInit
<1> QED
  BY <1>1, WalletStepRefinement, PTL DEF PaymentsSpec, ImplementsWallet, Wallet!WalletSpec

\* The wallet of the orders is the wallet of module WalletProofs.
LEMMA SameWallet ==
  /\ Wallet!WalletInit => WalletTheory!WalletInit
  /\ [Wallet!WalletNext]_(Wallet!walletVars) => [WalletTheory!WalletNext]_(WalletTheory!walletVars)
  /\ WalletTheory!WalletTypeOK <=> Wallet!WalletTypeOK
  /\ \A c \in Calls : Wallet!CallStep(c) => WalletTheory!CallStep(c)
  BY
  DEF Wallet!WalletInit, WalletTheory!WalletInit, Wallet!WalletTypeOK, WalletTheory!WalletTypeOK,
      Wallet!Places, WalletTheory!Places, Wallet!walletVars, WalletTheory!walletVars,
      Wallet!bookVars, WalletTheory!bookVars, Wallet!poolVars, WalletTheory!poolVars,
      Wallet!WalletNext, WalletTheory!WalletNext, Wallet!CallStep, WalletTheory!CallStep,
      Wallet!HoldMoves, WalletTheory!HoldMoves, Wallet!Purchase, WalletTheory!Purchase,
      Wallet!Reversal, WalletTheory!Reversal, Wallet!MonthlyGrant, WalletTheory!MonthlyGrant,
      Wallet!At, WalletTheory!At, Wallet!Go, WalletTheory!Go,
      Wallet!AllocationReturned, WalletTheory!AllocationReturned,
      Wallet!CheckSpend, WalletTheory!CheckSpend, Wallet!Refuse, WalletTheory!Refuse,
      Wallet!DebitWallet, WalletTheory!DebitWallet, Wallet!WalletRefuses, WalletTheory!WalletRefuses,
      Wallet!LogUsage, WalletTheory!LogUsage, Wallet!LogFails, WalletTheory!LogFails,
      Wallet!LogReplyLost, WalletTheory!LogReplyLost,
      Wallet!LookAtHold, WalletTheory!LookAtHold,
      Wallet!ClaimAllocation, WalletTheory!ClaimAllocation, Wallet!DrawPool, WalletTheory!DrawPool,
      Wallet!ReturnAllocation, WalletTheory!ReturnAllocation,
      Wallet!DrawReplyLost, WalletTheory!DrawReplyLost, Wallet!LogDrawn, WalletTheory!LogDrawn,
      Wallet!ReturnDrawn, WalletTheory!ReturnDrawn, Wallet!Answered, WalletTheory!Answered,
      Wallet!RefundFailedCredit, WalletTheory!RefundFailedCredit, Wallet!LoseCall, WalletTheory!LoseCall
-----------------------------------------------------------------------------
(* What a handler knows.                                                   *)

\* The types of the orders' own variables, and the handlers' knowledge of them.
OrderTypes ==
    /\ order      \in [Orders -> OrderStates]
    /\ session    \subseteq Orders
    /\ received   \in [Orders -> {"no", "paid", "returned"}]
    /\ settlement \in [Orders -> Settlements]
    /\ fulfilment \in [Orders -> {"none", "applied", "reversed"}]
    /\ refund     \in [Orders -> {"none", "processing", "succeeded"}]
    /\ job        \in [Workers -> Jobs]

Knowledge == /\ OrderTypes /\ JobsNameOrders /\ SettledIsFulfilled
             /\ RefundsAreLocked /\ PaidIsFulfilled

LEMMA Moves ==
  ASSUME OrderTypes, NEW w \in Workers, NEW phase \in Phases, Move(w, phase)
  PROVE  /\ job' \in [Workers -> Jobs]
         /\ job'[w].phase = phase /\ job'[w].order = job[w].order /\ job'[w].crossed = job[w].crossed
         /\ \A v \in Workers \ {w} : job'[v] = job[v]
<1>1. [job[w] EXCEPT !.phase = phase] \in Jobs
  BY DEF OrderTypes, Jobs
<1> PICK new \in Jobs : new = [job[w] EXCEPT !.phase = phase]
  BY <1>1
<1>2. job' = [job EXCEPT ![w] = new]
  BY DEF Move
<1>3. new.phase = phase /\ new.order = job[w].order /\ new.crossed = job[w].crossed
  BY DEF OrderTypes, Jobs
<1> QED
  BY <1>2, <1>3 DEF OrderTypes

LEMMA IdleJobIsJob == IdleJob \in Jobs /\ IdleJob.phase = "idle"
  BY DEF IdleJob, Jobs, Phases

LEMMA Ends ==
  ASSUME OrderTypes, NEW w \in Workers, End(w)
  PROVE  /\ job' \in [Workers -> Jobs] /\ job'[w].phase = "idle"
         /\ \A v \in Workers \ {w} : job'[v] = job[v]
  BY IdleJobIsJob DEF OrderTypes, End

LEMMA Starts ==
  ASSUME OrderTypes, NEW w \in Workers, NEW phase \in Phases, NEW o \in Orders, Start(w, phase, o)
  PROVE  /\ job' \in [Workers -> Jobs]
         /\ job'[w].phase = phase /\ job'[w].order = o /\ job'[w].crossed = FALSE
         /\ \A v \in Workers \ {w} : job'[v] = job[v]
<1>1. [IdleJob EXCEPT !.phase = phase, !.order = o] \in Jobs
  BY DEF IdleJob, Jobs
<1> PICK new \in Jobs : new = [IdleJob EXCEPT !.phase = phase, !.order = o]
  BY <1>1
<1>2. job' = [job EXCEPT ![w] = new]
  BY DEF Start
<1>3. new.phase = phase /\ new.order = o /\ new.crossed = FALSE
  BY DEF IdleJob
<1> QED
  BY <1>2, <1>3 DEF OrderTypes

LEMMA StoreSessionKnows == ASSUME Knowledge, NEW w \in Workers, StoreSession(w) PROVE Knowledge'
<1> USE DEF Knowledge, In
<1>1. /\ job' \in [Workers -> Jobs] /\ job'[w].phase = "stored" /\ job'[w].order = job[w].order
      /\ \A v \in Workers \ {w} : job'[v] = job[v]
  BY Moves DEF StoreSession, Phases
<1>2. OrderTypes'
  BY <1>1 DEF StoreSession, OrderTypes, OrderStates, Settlements, orderVars, claimVars, JobsNameOrders
<1>3. JobsNameOrders' /\ SettledIsFulfilled'
  BY <1>1 DEF StoreSession, JobsNameOrders, SettledIsFulfilled, claimVars, orderVars
<1>4. RefundsAreLocked' /\ PaidIsFulfilled'
  BY <1>1 DEF StoreSession, OrderTypes, JobsNameOrders, SettledIsFulfilled, RefundsAreLocked, Refunding, PaidIsFulfilled,
       claimVars, orderVars
<1> QED
  BY <1>2, <1>3, <1>4

LEMMA MarkProcessingKnows == ASSUME Knowledge, NEW w \in Workers, MarkProcessing(w) PROVE Knowledge'
<1> USE DEF Knowledge, In
<1>1. /\ job' \in [Workers -> Jobs] /\ job'[w].phase = "idle"
      /\ \A v \in Workers \ {w} : job'[v] = job[v]
  BY Ends DEF MarkProcessing
<1>2. OrderTypes'
  BY <1>1 DEF MarkProcessing, OrderTypes, OrderStates, Settlements, orderVars, claimVars, JobsNameOrders
<1>3. JobsNameOrders' /\ SettledIsFulfilled'
  BY <1>1 DEF MarkProcessing, JobsNameOrders, SettledIsFulfilled, claimVars, orderVars
<1>4. RefundsAreLocked' /\ PaidIsFulfilled'
  BY <1>1 DEF MarkProcessing, OrderTypes, JobsNameOrders, SettledIsFulfilled, RefundsAreLocked, Refunding, PaidIsFulfilled,
       claimVars, orderVars
<1> QED
  BY <1>2, <1>3, <1>4

LEMMA CreateTokenKnows == ASSUME Knowledge, NEW w \in Workers, NEW o \in Orders, CreateToken(w, o) PROVE Knowledge'
<1> USE DEF Knowledge, In
<1>1. /\ job' \in [Workers -> Jobs] /\ job'[w].phase = "created" /\ job'[w].order = o
      /\ \A v \in Workers \ {w} : job'[v] = job[v]
  BY Starts DEF CreateToken, Phases
<1>2. OrderTypes'
  BY <1>1 DEF CreateToken, OrderTypes, OrderStates, Settlements, orderVars, claimVars, JobsNameOrders
<1>3. JobsNameOrders' /\ SettledIsFulfilled'
  BY <1>1 DEF CreateToken, JobsNameOrders, SettledIsFulfilled, claimVars, orderVars
<1>4. RefundsAreLocked' /\ PaidIsFulfilled'
  BY <1>1 DEF CreateToken, OrderTypes, JobsNameOrders, SettledIsFulfilled, RefundsAreLocked, Refunding, PaidIsFulfilled,
       claimVars, orderVars
<1> QED
  BY <1>2, <1>3, <1>4

LEMMA VerifyPaymentKnows == ASSUME Knowledge, NEW w \in Workers, NEW o \in Orders, VerifyPayment(w, o) PROVE Knowledge'
<1> USE DEF Knowledge, In
<1>1. /\ job' \in [Workers -> Jobs] /\ job'[w].phase = "verified" /\ job'[w].order = o
      /\ \A v \in Workers \ {w} : job'[v] = job[v]
  BY Starts DEF VerifyPayment, Phases
<1>2. OrderTypes'
  BY <1>1 DEF VerifyPayment, OrderTypes, OrderStates, Settlements, orderVars, claimVars, JobsNameOrders
<1>3. JobsNameOrders' /\ SettledIsFulfilled'
  BY <1>1 DEF VerifyPayment, JobsNameOrders, SettledIsFulfilled, claimVars, orderVars
<1>4. RefundsAreLocked' /\ PaidIsFulfilled'
  BY <1>1 DEF VerifyPayment, OrderTypes, JobsNameOrders, SettledIsFulfilled, RefundsAreLocked, Refunding, PaidIsFulfilled,
       claimVars, orderVars
<1> QED
  BY <1>2, <1>3, <1>4

LEMMA AcceptRefundKnows == ASSUME Knowledge, NEW w \in Workers, NEW o \in Orders, AcceptRefund(w, o) PROVE Knowledge'
<1> USE DEF Knowledge, In
<1>1. /\ job' \in [Workers -> Jobs] /\ job'[w].phase = "refund" /\ job'[w].order = o
      /\ \A v \in Workers \ {w} : job'[v] = job[v]
  BY Starts DEF AcceptRefund, Phases
<1>2. OrderTypes'
  BY <1>1 DEF AcceptRefund, OrderTypes, OrderStates, Settlements, orderVars, claimVars, JobsNameOrders
<1>3. JobsNameOrders' /\ SettledIsFulfilled'
  BY <1>1 DEF AcceptRefund, JobsNameOrders, SettledIsFulfilled, claimVars, orderVars
<1>4. RefundsAreLocked' /\ PaidIsFulfilled'
  BY <1>1 DEF AcceptRefund, OrderTypes, JobsNameOrders, SettledIsFulfilled, RefundsAreLocked, Refunding, PaidIsFulfilled,
       claimVars, orderVars
<1> QED
  BY <1>2, <1>3, <1>4

LEMMA ClaimSettlementKnows == ASSUME Knowledge, NEW w \in Workers, ClaimSettlement(w) PROVE Knowledge'
<1> USE DEF Knowledge, In
<1>1. /\ job' \in [Workers -> Jobs] /\ job'[w].phase = "claimed" /\ job'[w].order = job[w].order
      /\ \A v \in Workers \ {w} : job'[v] = job[v]
  BY Moves DEF ClaimSettlement, Phases
<1>2. OrderTypes'
  BY <1>1 DEF ClaimSettlement, OrderTypes, OrderStates, Settlements, orderVars, claimVars, JobsNameOrders
<1>3. JobsNameOrders' /\ SettledIsFulfilled'
  BY <1>1 DEF ClaimSettlement, JobsNameOrders, SettledIsFulfilled, claimVars, orderVars
<1>4. RefundsAreLocked' /\ PaidIsFulfilled'
  BY <1>1 DEF ClaimSettlement, OrderTypes, JobsNameOrders, SettledIsFulfilled, RefundsAreLocked, Refunding, PaidIsFulfilled,
       claimVars, orderVars
<1> QED
  BY <1>2, <1>3, <1>4

LEMMA FulfilAbortsKnows == ASSUME Knowledge, NEW w \in Workers, FulfilAborts(w) PROVE Knowledge'
<1> USE DEF Knowledge, In
<1>1. /\ job' \in [Workers -> Jobs] /\ job'[w].phase = "failing" /\ job'[w].order = job[w].order
      /\ \A v \in Workers \ {w} : job'[v] = job[v]
  BY Moves DEF FulfilAborts, Phases
<1>2. OrderTypes'
  BY <1>1 DEF FulfilAborts, OrderTypes, OrderStates, Settlements, orderVars, claimVars, JobsNameOrders
<1>3. JobsNameOrders' /\ SettledIsFulfilled'
  BY <1>1 DEF FulfilAborts, JobsNameOrders, SettledIsFulfilled, claimVars, orderVars
<1>4. RefundsAreLocked' /\ PaidIsFulfilled'
  BY <1>1 DEF FulfilAborts, OrderTypes, JobsNameOrders, SettledIsFulfilled, RefundsAreLocked, Refunding, PaidIsFulfilled,
       claimVars, orderVars
<1> QED
  BY <1>2, <1>3, <1>4

LEMMA RestoreOrderKnows == ASSUME Knowledge, NEW w \in Workers, RestoreOrder(w) PROVE Knowledge'
<1> USE DEF Knowledge, In
<1>1. /\ job' \in [Workers -> Jobs] /\ job'[w].phase = "idle"
      /\ \A v \in Workers \ {w} : job'[v] = job[v]
  BY Ends DEF RestoreOrder
<1>2. OrderTypes'
  BY <1>1 DEF RestoreOrder, OrderTypes, OrderStates, Settlements, orderVars, claimVars, JobsNameOrders
<1>3. JobsNameOrders' /\ SettledIsFulfilled'
  BY <1>1 DEF RestoreOrder, JobsNameOrders, SettledIsFulfilled, claimVars, orderVars
<1>4. RefundsAreLocked' /\ PaidIsFulfilled'
  BY <1>1 DEF RestoreOrder, OrderTypes, JobsNameOrders, SettledIsFulfilled, RefundsAreLocked, Refunding, PaidIsFulfilled,
       claimVars, orderVars
<1> QED
  BY <1>2, <1>3, <1>4

LEMMA FinishKeepsClaims ==
  ASSUME OrderTypes, NEW w \in Workers, NEW status \in {"applied", "failed"}, Finish(w, status)
  PROVE  settlement' \in [Orders -> Settlements]
<1>1. settlement \in [Orders -> Settlements]
  BY DEF OrderTypes
<1>2. CASE UNCHANGED settlement
  BY <1>1, <1>2
<1>3. CASE settlement' = [settlement EXCEPT ![job[w].order].status = status]
  <2>1. CASE job[w].order \in Orders
    <3>1. [settlement[job[w].order] EXCEPT !.status = status] \in Settlements
      BY <1>1, <2>1 DEF Settlements
    <3> PICK new \in Settlements : new = [settlement[job[w].order] EXCEPT !.status = status]
      BY <3>1
    <3>2. settlement' = [settlement EXCEPT ![job[w].order] = new]
      BY <1>3
    <3> QED
      BY <1>1, <3>2
  <2>2. CASE job[w].order \notin Orders
    BY <1>1, <1>3, <2>2
  <2> QED
    BY <2>1, <2>2
<1> QED
  BY <1>2, <1>3 DEF Finish

LEMMA FinishFailedKnows == ASSUME Knowledge, NEW w \in Workers, FinishFailed(w) PROVE Knowledge'
<1> USE DEF Knowledge, In
<1>1. /\ job' \in [Workers -> Jobs] /\ job'[w].phase = "idle"
      /\ \A v \in Workers \ {w} : job'[v] = job[v]
  BY Ends DEF FinishFailed
<1>2. OrderTypes'
  BY <1>1, FinishKeepsClaims DEF FinishFailed, OrderTypes, orderVars
<1>3. JobsNameOrders' /\ SettledIsFulfilled'
  BY <1>1 DEF FinishFailed, JobsNameOrders, SettledIsFulfilled, claimVars, orderVars
<1>4. RefundsAreLocked' /\ PaidIsFulfilled'
  BY <1>1 DEF FinishFailed, Finish, OrderTypes, JobsNameOrders, SettledIsFulfilled, RefundsAreLocked, Refunding, PaidIsFulfilled,
       claimVars, orderVars
<1> QED
  BY <1>2, <1>3, <1>4

LEMMA InsertRefundKnows == ASSUME Knowledge, NEW w \in Workers, InsertRefund(w) PROVE Knowledge'
<1> USE DEF Knowledge, In
<1>1. /\ job' \in [Workers -> Jobs] /\ job'[w].phase = "locked" /\ job'[w].order = job[w].order
      /\ \A v \in Workers \ {w} : job'[v] = job[v]
  BY Moves DEF InsertRefund, Phases
<1>2. OrderTypes'
  BY <1>1 DEF InsertRefund, Refundable, OrderTypes, OrderStates, Settlements, orderVars, claimVars, JobsNameOrders
<1>3. JobsNameOrders' /\ SettledIsFulfilled'
  BY <1>1 DEF InsertRefund, JobsNameOrders, SettledIsFulfilled, claimVars, orderVars
<1>4. RefundsAreLocked' /\ PaidIsFulfilled'
  BY <1>1 DEF InsertRefund, Refundable, OrderTypes, JobsNameOrders, SettledIsFulfilled, RefundsAreLocked, Refunding, PaidIsFulfilled,
       claimVars, orderVars
<1> QED
  BY <1>2, <1>3, <1>4

LEMMA LockedPreflightKnows == ASSUME Knowledge, NEW w \in Workers, LockedPreflight(w) PROVE Knowledge'
<1> USE DEF Knowledge, In
<1>1. /\ job' \in [Workers -> Jobs] /\ job'[w].phase = "provider" /\ job'[w].order = job[w].order
      /\ \A v \in Workers \ {w} : job'[v] = job[v]
  BY Moves DEF LockedPreflight, Phases
<1>2. OrderTypes'
  BY <1>1 DEF LockedPreflight, OrderTypes, OrderStates, Settlements, orderVars, claimVars, JobsNameOrders
<1>3. JobsNameOrders' /\ SettledIsFulfilled'
  BY <1>1 DEF LockedPreflight, JobsNameOrders, SettledIsFulfilled, claimVars, orderVars
<1>4. RefundsAreLocked' /\ PaidIsFulfilled'
  BY <1>1 DEF LockedPreflight, OrderTypes, JobsNameOrders, SettledIsFulfilled, RefundsAreLocked, Refunding, PaidIsFulfilled,
       claimVars, orderVars
<1> QED
  BY <1>2, <1>3, <1>4

LEMMA RefundEndsKnows == ASSUME Knowledge, NEW w \in Workers, RefundEnds(w) PROVE Knowledge'
<1> USE DEF Knowledge, In
<1>1. /\ job' \in [Workers -> Jobs] /\ job'[w].phase = "idle"
      /\ \A v \in Workers \ {w} : job'[v] = job[v]
  BY Ends DEF RefundEnds
<1>2. OrderTypes'
  BY <1>1 DEF RefundEnds, OrderTypes, OrderStates, Settlements, orderVars, claimVars, JobsNameOrders
<1>3. JobsNameOrders' /\ SettledIsFulfilled'
  BY <1>1 DEF RefundEnds, JobsNameOrders, SettledIsFulfilled, claimVars, orderVars
<1>4. RefundsAreLocked' /\ PaidIsFulfilled'
  BY <1>1 DEF RefundEnds, OrderTypes, JobsNameOrders, SettledIsFulfilled, RefundsAreLocked, Refunding, PaidIsFulfilled,
       claimVars, orderVars
<1> QED
  BY <1>2, <1>3, <1>4

LEMMA LoseWorkerKnows == ASSUME Knowledge, NEW w \in Workers, LoseWorker(w) PROVE Knowledge'
<1> USE DEF Knowledge, In
<1>1. /\ job' \in [Workers -> Jobs] /\ job'[w].phase = "idle"
      /\ \A v \in Workers \ {w} : job'[v] = job[v]
  BY Ends DEF LoseWorker
<1>2. OrderTypes'
  BY <1>1 DEF LoseWorker, OrderTypes, OrderStates, Settlements, orderVars, claimVars, JobsNameOrders
<1>3. JobsNameOrders' /\ SettledIsFulfilled'
  BY <1>1 DEF LoseWorker, JobsNameOrders, SettledIsFulfilled, claimVars, orderVars
<1>4. RefundsAreLocked' /\ PaidIsFulfilled'
  BY <1>1 DEF LoseWorker, OrderTypes, JobsNameOrders, SettledIsFulfilled, RefundsAreLocked, Refunding, PaidIsFulfilled,
       claimVars, orderVars
<1> QED
  BY <1>2, <1>3, <1>4

LEMMA ReadOrderKnows == ASSUME Knowledge, NEW w \in Workers, ReadOrder(w) PROVE Knowledge'
<1> USE DEF Knowledge, In
<1> PICK paid \in BOOLEAN : paid = (order[job[w].order] = "paid")
  BY Zenon
<1>0. [job[w] EXCEPT !.paid = paid, !.phase = "claim"] \in Jobs
  BY DEF OrderTypes, Jobs, Phases
<1> PICK new \in Jobs : new = [job[w] EXCEPT !.paid = paid, !.phase = "claim"]
  BY <1>0
<1>1. /\ job' \in [Workers -> Jobs] /\ job'[w].phase = "claim" /\ job'[w].order = job[w].order
      /\ \A v \in Workers \ {w} : job'[v] = job[v]
  <2>1. job' = [job EXCEPT ![w] = new]
    BY DEF ReadOrder
  <2>2. new.phase = "claim" /\ new.order = job[w].order
    BY DEF OrderTypes, Jobs
  <2> QED
    BY <2>1, <2>2 DEF OrderTypes
<1>2. OrderTypes' /\ JobsNameOrders' /\ SettledIsFulfilled'
  BY <1>1 DEF ReadOrder, OrderTypes, JobsNameOrders, SettledIsFulfilled, orderVars, claimVars
<1>3. RefundsAreLocked'
  BY <1>1 DEF ReadOrder, RefundsAreLocked, Refunding
<1>4. PaidIsFulfilled'
  BY DEF ReadOrder, PaidIsFulfilled, orderVars, claimVars
<1> QED
  BY <1>2, <1>3, <1>4

LEMMA LookForFulfilmentKnows ==
  ASSUME Knowledge, NEW w \in Workers, LookForFulfilment(w) PROVE Knowledge'
<1> USE DEF Knowledge, In
<1>1. /\ job' \in [Workers -> Jobs] /\ job'[w].order = job[w].order
      /\ \/ job'[w].phase = "batch"
         \/ job'[w].phase = "close" /\ fulfilment[job[w].order] # "none"
      /\ \A v \in Workers \ {w} : job'[v] = job[v]
  BY Moves DEF LookForFulfilment, Phases
<1>2. OrderTypes' /\ JobsNameOrders' /\ SettledIsFulfilled'
  BY <1>1 DEF LookForFulfilment, OrderTypes, JobsNameOrders, SettledIsFulfilled, orderVars, claimVars
<1>3. RefundsAreLocked' /\ PaidIsFulfilled'
  BY <1>1 DEF LookForFulfilment, RefundsAreLocked, Refunding, PaidIsFulfilled, orderVars, claimVars
<1> QED
  BY <1>2, <1>3

LEMMA FulfilKnows == ASSUME Knowledge, NEW w \in Workers, Fulfil(w) PROVE Knowledge'
<1> USE DEF Knowledge, In
<1>1. /\ job' \in [Workers -> Jobs] /\ job'[w].order = job[w].order
      /\ job'[w].phase \in {"finish", "failing"}
      /\ \A v \in Workers \ {w} : job'[v] = job[v]
  BY Moves DEF Fulfil, Phases
<1>2. OrderTypes'
  BY <1>1 DEF Fulfil, OrderTypes, OrderStates
<1>3. JobsNameOrders' /\ SettledIsFulfilled'
  BY <1>1 DEF Fulfil, OrderTypes, JobsNameOrders, SettledIsFulfilled
<1>4. RefundsAreLocked' /\ PaidIsFulfilled'
  BY <1>1 DEF Fulfil, NotFulfilled, OrderTypes, RefundsAreLocked, Refunding, PaidIsFulfilled
<1> QED
  BY <1>2, <1>3, <1>4

LEMMA FinishAppliedKnows == ASSUME Knowledge, NEW w \in Workers, FinishApplied(w) PROVE Knowledge'
<1> USE DEF Knowledge, In
<1>1. /\ job' \in [Workers -> Jobs]
      /\ \/ job'[w].phase \in {"failing", "restore"} /\ job'[w].order = job[w].order
         \/ job'[w].phase = "idle"
      /\ \A v \in Workers \ {w} : job'[v] = job[v]
  BY Moves, Ends DEF FinishApplied, Phases
<1>2. OrderTypes'
  BY <1>1, FinishKeepsClaims DEF FinishApplied, OrderTypes, orderVars
<1>3. JobsNameOrders' /\ SettledIsFulfilled'
  BY <1>1 DEF FinishApplied, JobsNameOrders, SettledIsFulfilled
<1>4. RefundsAreLocked'
  BY <1>1 DEF FinishApplied, RefundsAreLocked, Refunding
<1>5. PaidIsFulfilled'
  BY <1>1 DEF FinishApplied, Finish, OrderTypes, Settlements, JobsNameOrders, SettledIsFulfilled,
       PaidIsFulfilled, orderVars
<1> QED
  BY <1>2, <1>3, <1>4, <1>5

LEMMA ProviderRefundsKnows == ASSUME Knowledge, NEW w \in Workers, ProviderRefunds(w) PROVE Knowledge'
<1> USE DEF Knowledge, In
<1>1. /\ job' \in [Workers -> Jobs]
      /\ \/ job'[w].phase = "reverse" /\ job'[w].order = job[w].order /\ refund' = refund
         \/ job'[w].phase = "idle" /\ refund' = [refund EXCEPT ![job[w].order] = "none"]
      /\ \A v \in Workers \ {w} : job'[v] = job[v]
  BY Moves, Ends DEF ProviderRefunds, Phases
<1>2. OrderTypes'
  BY <1>1 DEF ProviderRefunds, OrderTypes, claimVars
<1>3. JobsNameOrders' /\ SettledIsFulfilled'
  BY <1>1 DEF ProviderRefunds, JobsNameOrders, SettledIsFulfilled, claimVars
<1>4. RefundsAreLocked' /\ PaidIsFulfilled'
  BY <1>1 DEF ProviderRefunds, OrderTypes, JobsNameOrders, RefundsAreLocked, Refunding, PaidIsFulfilled, claimVars
<1> QED
  BY <1>2, <1>3, <1>4

\* A reversal marks the refunds that it may have taken credits from.
LEMMA Crossings ==
  ASSUME OrderTypes, NEW w \in Workers, ReverseOrder(w)
  PROVE  /\ job' \in [Workers -> Jobs] /\ job'[w] = IdleJob
         /\ \A v \in Workers \ {w} :
               /\ job'[v].phase = job[v].phase /\ job'[v].order = job[v].order
               /\ ~job'[v].crossed => job[v].phase \notin {"provider", "reverse"}
<1>1. \A v \in Workers :
        /\ [job[v] EXCEPT !.crossed = (@ \/ job[v].phase \in {"provider", "reverse"})] \in Jobs
        /\ [job[v] EXCEPT !.crossed = (@ \/ job[v].phase \in {"provider", "reverse"})].phase = job[v].phase
        /\ [job[v] EXCEPT !.crossed = (@ \/ job[v].phase \in {"provider", "reverse"})].order = job[v].order
        /\ ~[job[v] EXCEPT !.crossed = (@ \/ job[v].phase \in {"provider", "reverse"})].crossed
              => job[v].phase \notin {"provider", "reverse"}
  BY DEF OrderTypes, Jobs
<1>2. job'[w] = IdleJob
  BY DEF ReverseOrder
<1>3. \A v \in Workers \ {w} :
        job'[v] = [job[v] EXCEPT !.crossed = (@ \/ job[v].phase \in {"provider", "reverse"})]
  BY DEF ReverseOrder
<1>4. job' \in [Workers -> Jobs]
  <2>1. \A v \in Workers : job'[v] \in Jobs
    BY <1>1, <1>2, <1>3, IdleJobIsJob
  <2>2. job' = [v \in Workers |-> job'[v]]
    BY DEF ReverseOrder
  <2> QED
    BY <2>1, <2>2
<1> QED
  BY <1>1, <1>2, <1>3, <1>4

LEMMA ReverseOrderKnows == ASSUME Knowledge, NEW w \in Workers, ReverseOrder(w) PROVE Knowledge'
<1> USE DEF Knowledge, In
<1>1. /\ job' \in [Workers -> Jobs] /\ job'[w].phase = "idle"
      /\ \A v \in Workers \ {w} : job'[v].phase = job[v].phase /\ job'[v].order = job[v].order
  BY Crossings, IdleJobIsJob
<1>2. OrderTypes'
  BY <1>1 DEF ReverseOrder, OrderTypes, OrderStates
<1>3. JobsNameOrders' /\ SettledIsFulfilled'
  BY <1>1 DEF ReverseOrder, OrderTypes, JobsNameOrders, SettledIsFulfilled
<1>4. RefundsAreLocked'
  BY <1>1 DEF ReverseOrder, OrderTypes, JobsNameOrders, RefundsAreLocked, Refunding
<1>5. PaidIsFulfilled'
  BY <1>1 DEF ReverseOrder, OrderTypes, JobsNameOrders, PaidIsFulfilled
<1> QED
  BY <1>2, <1>3, <1>4, <1>5

\* The customer, and the wallet's own steps.
LEMMA WorldKnows ==
  ASSUME Knowledge,
         \/ \E o \in Orders : CreateOrder(o) \/ CustomerPays(o)
         \/ WalletMoves \/ UNCHANGED vars
  PROVE  Knowledge'
<1> USE DEF Knowledge, In
<1>1. ASSUME NEW o \in Orders, CreateOrder(o) \/ CustomerPays(o) PROVE Knowledge'
  BY <1>1
  DEF CreateOrder, CustomerPays, OrderTypes, OrderStates, JobsNameOrders, SettledIsFulfilled, RefundsAreLocked,
      Refunding, PaidIsFulfilled, orderVars, claimVars
<1>2. CASE WalletMoves \/ UNCHANGED vars
  BY <1>2
  DEF WalletMoves, vars, OrderTypes, JobsNameOrders, SettledIsFulfilled, RefundsAreLocked, Refunding,
      PaidIsFulfilled, orderVars, claimVars
<1> QED
  BY <1>1, <1>2

LEMMA KnowledgeStep == Knowledge /\ [PaymentsNext]_vars => Knowledge'
  BY StoreSessionKnows, MarkProcessingKnows, CreateTokenKnows, VerifyPaymentKnows, AcceptRefundKnows,
     ReadOrderKnows, ClaimSettlementKnows, LookForFulfilmentKnows, FulfilKnows, FulfilAbortsKnows,
     FinishAppliedKnows, RestoreOrderKnows, FinishFailedKnows, InsertRefundKnows, LockedPreflightKnows,
     RefundEndsKnows, ProviderRefundsKnows, ReverseOrderKnows, LoseWorkerKnows, WorldKnows
  DEF PaymentsNext, SettleStep, CheckoutStep, RefundStep
-----------------------------------------------------------------------------
(* The wallet under a refund.                                              *)

LEMMA OnlyDebitsTake ==
  ASSUME wallet \in Nat, NEW c \in Calls, Wallet!CallStep(c), Hold
  PROVE  wallet' >= wallet
<1> USE PaymentAssumption
    DEF Wallet!CallStep, Wallet!CheckSpend, Wallet!Refuse, Wallet!WalletRefuses, Wallet!LogUsage,
        Wallet!LogFails, Wallet!LogReplyLost, Wallet!LookAtHold, Wallet!ClaimAllocation, Wallet!DrawPool,
        Wallet!ReturnAllocation, Wallet!DrawReplyLost, Wallet!LogDrawn, Wallet!ReturnDrawn,
        Wallet!Answered, Wallet!RefundFailedCredit, Wallet!LoseCall, Wallet!bookVars
<1>1. ~Wallet!DebitWallet(c)
  BY DEF Wallet!DebitWallet
<1>2. wallet' = wallet \/ wallet' = wallet + Cost
  BY <1>1
<1> QED
  BY <1>2

\* While a refund has its request, only the reversal of another one takes credits.
LEMMA HoldKeepsWallet ==
  ASSUME wallet \in Nat, [PaymentsNext]_vars, Hold, \A w \in Workers : ~ReverseOrder(w)
  PROVE  wallet' >= wallet
<1>1. ASSUME UNCHANGED callVars PROVE wallet' >= wallet
  BY <1>1 DEF callVars, bookVars
<1>2. ASSUME NEW w \in Workers, Fulfil(w) PROVE wallet' >= wallet
  BY <1>2, PaymentAssumption DEF Fulfil, Wallet!Purchase
<1>3. CASE Wallet!MonthlyGrant
  <2>1. wallet' = wallet + Allowance /\ Allowance \in Nat
    BY <1>3, PaymentAssumption DEF Wallet!MonthlyGrant
  <2> QED
    BY <2>1
<1> QED
  BY <1>1, <1>2, <1>3, OnlyDebitsTake, OtherSteps DEF WalletMoves

\* A refund that is at the provider, and not crossed, was there before or has just
\* looked at the wallet.
LEMMA ProviderSource ==
  ASSUME OrderTypes, [PaymentsNext]_vars, \A v \in Workers : ~ReverseOrder(v),
         NEW w \in Workers, job'[w].phase \in {"provider", "reverse"}, ~job'[w].crossed
  PROVE  \/ job[w].phase \in {"provider", "reverse"} /\ ~job[w].crossed
         \/ WalletCovers /\ UNCHANGED callVars
<1>1. ASSUME NEW v \in Workers, job'[v].phase \notin {"provider", "reverse"},
             \A u \in Workers \ {v} : job'[u] = job[u]
      PROVE  job[w].phase \in {"provider", "reverse"} /\ ~job[w].crossed
  BY <1>1
<1>2. ASSUME NEW v \in Workers, NEW o \in Orders, CreateToken(v, o) \/ VerifyPayment(v, o) \/ AcceptRefund(v, o)
      PROVE  job[w].phase \in {"provider", "reverse"} /\ ~job[w].crossed
  <2>1. PICK phase \in {"created", "verified", "refund"} : Start(v, phase, o)
    BY <1>2 DEF CreateToken, VerifyPayment, AcceptRefund
  <2>p. phase \in Phases
    BY DEF Phases
  <2>2. job'[v].phase = phase /\ \A u \in Workers \ {v} : job'[u] = job[u]
    BY <2>1, <2>p, Starts
  <2> QED
    BY <1>1, <2>2
<1>3. ASSUME NEW v \in Workers, End(v)
      PROVE  job[w].phase \in {"provider", "reverse"} /\ ~job[w].crossed
  BY <1>1, <1>3, Ends
<1>4. ASSUME NEW v \in Workers, NEW phase \in Phases \ {"provider", "reverse"}, Move(v, phase)
      PROVE  job[w].phase \in {"provider", "reverse"} /\ ~job[w].crossed
  BY <1>1, <1>4, Moves
<1>5. ASSUME NEW v \in Workers, ReadOrder(v)
      PROVE  job[w].phase \in {"provider", "reverse"} /\ ~job[w].crossed
  BY <1>5 DEF ReadOrder, OrderTypes, Jobs
<1>6. ASSUME NEW v \in Workers, StoreSession(v) \/ MarkProcessing(v) \/ LoseWorker(v) \/ ClaimSettlement(v)
                 \/ LookForFulfilment(v) \/ Fulfil(v) \/ FulfilAborts(v) \/ FinishApplied(v) \/ RestoreOrder(v)
                 \/ FinishFailed(v) \/ InsertRefund(v) \/ RefundEnds(v)
      PROVE  job[w].phase \in {"provider", "reverse"} /\ ~job[w].crossed
  <2>1. End(v) \/ \E phase \in Phases \ {"provider", "reverse"} : Move(v, phase)
    BY <1>6 DEF StoreSession, MarkProcessing, LoseWorker, ClaimSettlement, LookForFulfilment, Fulfil,
         FulfilAborts, FinishApplied, RestoreOrder, FinishFailed, InsertRefund, RefundEnds, Phases
  <2> QED
    BY <1>3, <1>4, <2>1
<1>7. ASSUME NEW v \in Workers, LockedPreflight(v)
      PROVE  WalletCovers /\ UNCHANGED callVars
  BY <1>7 DEF LockedPreflight
<1>8. ASSUME NEW v \in Workers, ProviderRefunds(v)
      PROVE  job[w].phase \in {"provider", "reverse"} /\ ~job[w].crossed
  <2>1. CASE End(v)
    BY <1>3, <2>1
  <2>2. CASE Move(v, "reverse")
    <3>1. job'[v].crossed = job[v].crossed /\ \A u \in Workers \ {v} : job'[u] = job[u]
      BY <2>2, Moves DEF Phases
    <3> QED
      BY <1>8, <3>1 DEF ProviderRefunds, In
  <2> QED
    BY <1>8, <2>1, <2>2 DEF ProviderRefunds
<1>9. CASE UNCHANGED job
  BY <1>9
<1> QED
  BY <1>2, <1>5, <1>6, <1>7, <1>8, <1>9
  DEF PaymentsNext, SettleStep, CheckoutStep, RefundStep, CreateOrder, CustomerPays, WalletMoves, vars

LEMMA RefundCoveredStep ==
  ASSUME Knowledge, wallet \in Nat, wallet' \in Nat, RefundCovered, [PaymentsNext]_vars
  PROVE  RefundCovered'
<1> SUFFICES ASSUME NEW w \in Workers, job'[w].phase \in {"provider", "reverse"}, ~job'[w].crossed
             PROVE  wallet' >= Credits
  BY DEF RefundCovered, WalletCovers
<1>1. CASE \E v \in Workers : ReverseOrder(v)
  <2>1. PICK v \in Workers : ReverseOrder(v)
    BY <1>1
  <2>2. w # v => job'[w].phase = job[w].phase /\ job[w].phase \notin {"provider", "reverse"}
    BY <2>1, Crossings DEF Knowledge
  <2>3. w = v => job'[w].phase = "idle"
    BY <2>1, Crossings, IdleJobIsJob DEF Knowledge
  <2> QED
    BY <2>2, <2>3
<1>2. CASE \A v \in Workers : ~ReverseOrder(v)
  <2>1. CASE WalletCovers /\ UNCHANGED callVars
    BY <2>1 DEF WalletCovers, callVars, bookVars
  <2>2. CASE job[w].phase \in {"provider", "reverse"} /\ ~job[w].crossed
    <3>1. wallet >= Credits
      BY <2>2 DEF RefundCovered, WalletCovers
    <3>2. Hold
      BY <2>2 DEF Hold, Knowledge, RefundsAreLocked, Refunding, JobsNameOrders, In
    <3>3. wallet' >= wallet
      BY <1>2, <3>2, HoldKeepsWallet
    <3> QED
      BY <3>1, <3>3, PaymentAssumption
  <2> QED
    BY <1>2, <2>1, <2>2, ProviderSource DEF Knowledge
<1> QED
  BY <1>1, <1>2
-----------------------------------------------------------------------------
(* What the ledger shows is backed.                                        *)

LEMMA FulfilledIsFinite == IsFiniteSet(Fulfilled) /\ Cardinality(Fulfilled) \in Nat
  BY PaymentAssumption, FS_Subset, FS_CardinalityType DEF Fulfilled

LEMMA OneOrderMore == \A n \in Nat : Credits * (n + 1) = Credits * n + Credits
  BY PaymentAssumption

LEMMA SameFulfilled == ASSUME UNCHANGED fulfilment PROVE Fulfilled' = Fulfilled
  BY DEF Fulfilled

LEMMA SameCost == ASSUME UNCHANGED call PROVE WalletTheory!CostOf({"wallet"})' = WalletTheory!CostOf({"wallet"})
  BY DEF WalletTheory!CostOf, WalletTheory!Here

LEMMA BackedStep ==
  ASSUME Knowledge, WalletTheory!WalletInv, WalletTheory!WalletInv', CreditsBackedAhead, [PaymentsNext]_vars
  PROVE  CreditsBackedAhead'
<1> PICK n \in Nat, b \in Nat, owed \in Nat :
      n = Cardinality(Fulfilled) /\ b = Credits * n /\ owed = WalletTheory!CostOf({"wallet"})
  BY FulfilledIsFinite, WalletConstantsHold, WalletTheory!HereIsFinite, PaymentAssumption
<1>0. /\ ledger \in Int /\ ledger' \in Int /\ stray \in Nat /\ granted \in BOOLEAN /\ wallet \in Nat
      /\ Cost * stray \in Nat /\ Credits \in Nat /\ Allowance \in Nat
  BY PaymentAssumption DEF WalletTheory!WalletInv, WalletTheory!WalletTypeOK
<1>1. CASE UNCHANGED <<callVars, fulfilment>>
  BY <1>1, SameFulfilled, SameCost DEF CreditsBackedAhead, GrantedSoFar, callVars, bookVars
<1>2. ASSUME NEW w \in Workers, Fulfil(w) PROVE CreditsBackedAhead'
  <2>1. job[w].order \in Orders /\ fulfilment \in [Orders -> {"none", "applied", "reversed"}]
    BY <1>2 DEF Fulfil, In, Knowledge, JobsNameOrders, OrderTypes
  <2>2. Fulfilled' = Fulfilled \cup {job[w].order} /\ job[w].order \notin Fulfilled
    BY <1>2, <2>1 DEF Fulfil, NotFulfilled, Fulfilled
  <2>3. Cardinality(Fulfilled') = n + 1
    BY <2>2, FulfilledIsFinite, FS_AddElement
  <2>4. ledger' = ledger + Credits /\ UNCHANGED <<granted, stray, call>>
    BY <1>2 DEF Fulfil, Wallet!Purchase
  <2> QED
    BY <1>0, <2>3, <2>4, OneOrderMore, SameCost DEF CreditsBackedAhead, GrantedSoFar
<1>3. ASSUME NEW w \in Workers, ReverseOrder(w) PROVE CreditsBackedAhead'
  <2>1. job[w].order \in Orders /\ fulfilment \in [Orders -> {"none", "applied", "reversed"}]
    BY <1>3 DEF ReverseOrder, In, Knowledge, JobsNameOrders, OrderTypes
  <2>2. ledger' = ledger - Credits /\ UNCHANGED <<granted, stray, call>>
    BY <1>3 DEF ReverseOrder, Wallet!Reversal, Wallet!poolVars
  <2>3. Fulfilled' = Fulfilled \ {job[w].order}
    BY <1>3, <2>1 DEF ReverseOrder, Fulfilled
  <2>4. CASE job[w].order \in Fulfilled
    <3>1. Cardinality(Fulfilled') = n - 1 /\ IsFiniteSet(Fulfilled')
      BY <2>3, <2>4, FulfilledIsFinite, FS_RemoveElement
    <3>2. Cardinality(Fulfilled') \in Nat
      BY <3>1, FS_CardinalityType
    <3>3. b = Credits * Cardinality(Fulfilled') + Credits /\ Credits * Cardinality(Fulfilled') \in Nat
      BY <1>0, <3>1, <3>2, OneOrderMore
    <3> QED
      BY <1>0, <2>2, <3>3, SameCost DEF CreditsBackedAhead, GrantedSoFar
  <2>5. CASE job[w].order \notin Fulfilled
    <3>1. Fulfilled' = Fulfilled
      BY <2>3, <2>5
    <3> QED
      BY <1>0, <2>2, <3>1, SameCost DEF CreditsBackedAhead, GrantedSoFar
  <2> QED
    BY <2>4, <2>5
<1>4. CASE WalletMoves
  <2>1. UNCHANGED fulfilment
    BY <1>4 DEF WalletMoves, claimVars
  <2>2. CASE Wallet!MonthlyGrant
    BY <1>0, <2>1, <2>2, SameFulfilled, SameCost
    DEF Wallet!MonthlyGrant, CreditsBackedAhead, GrantedSoFar
  <2>3. ASSUME NEW c \in Calls, Wallet!CallStep(c) PROVE CreditsBackedAhead'
    <3>1. /\ granted' = granted /\ stray' \in Nat /\ WalletTheory!CostOf({"wallet"})' \in Nat
          /\ ledger' + WalletTheory!CostOf({"wallet"})'
                <= ledger + WalletTheory!CostOf({"wallet"}) + (Cost * stray' - Cost * stray)
      BY <2>3, WalletConstantsHold, SameWallet, WalletTheory!LedgerFollows DEF WalletTheory!WalletInv
    <3>2. Cost * stray' \in Nat
      <4>1. \A n1 \in Nat, n2 \in Nat : n1 * n2 \in Nat
        OBVIOUS
      <4> QED
        BY <3>1, <4>1, PaymentAssumption
    <3> QED
      BY <1>0, <2>1, <3>1, <3>2, SameFulfilled DEF CreditsBackedAhead, GrantedSoFar
  <2> QED
    BY <1>4, <2>2, <2>3 DEF WalletMoves
<1> QED
  BY <1>1, <1>2, <1>3, <1>4, OtherSteps
-----------------------------------------------------------------------------
(* The theorems.                                                           *)

LEMMA TypesTogether == PaymentsTypeOK <=> OrderTypes /\ WalletTheory!WalletTypeOK
  BY SameWallet DEF PaymentsTypeOK, OrderTypes

LEMMA OrdersInitHolds ==
  ASSUME PaymentsInit PROVE OrdersInv /\ WalletTheory!WalletInv
<1>1. WalletTheory!WalletInv
  BY WalletConstantsHold, SameWallet, WalletTheory!WalletInitInvariant DEF PaymentsInit
<1>2. OrderTypes
  BY IdleJobIsJob, PaymentAssumption DEF PaymentsInit, OrderTypes, OrderStates, Settlements, NoSettlement
<1>3. JobsNameOrders /\ SettledIsFulfilled /\ RefundsAreLocked /\ PaidIsFulfilled /\ RefundCovered
  BY IdleJobIsJob
  DEF PaymentsInit, JobsNameOrders, SettledIsFulfilled, RefundsAreLocked, PaidIsFulfilled, RefundCovered,
      In, Refunding, NoSettlement
<1>4. CreditsBackedAhead
  <2>1. Fulfilled = {} /\ WalletTheory!Here({"wallet"}) = {}
    BY DEF PaymentsInit, Fulfilled, Wallet!WalletInit, WalletTheory!Here
  <2>2. Cardinality(Fulfilled) = 0 /\ WalletTheory!CostOf({"wallet"}) = 0
    BY <2>1, FS_EmptySet, WalletConstantsHold, WalletTheory!NothingCosts
  <2> QED
    BY <2>2, PaymentAssumption DEF PaymentsInit, Wallet!WalletInit, CreditsBackedAhead, GrantedSoFar
<1> QED
  BY <1>1, <1>2, <1>3, <1>4, TypesTogether DEF OrdersInv, WalletTheory!WalletInv

\* The inductive invariant: what the handlers know of orders, claims and requests, and
\* what the wallet and the ledger owe them.
THEOREM OrdersInvariantHolds == PaymentsSpec => [](OrdersInv /\ WalletTheory!WalletInv)
<1>1. PaymentsInit => OrdersInv /\ WalletTheory!WalletInv
  BY OrdersInitHolds
<1>2. OrdersInv /\ WalletTheory!WalletInv /\ [PaymentsNext]_vars
        => (OrdersInv /\ WalletTheory!WalletInv)'
  <2> SUFFICES ASSUME OrdersInv, WalletTheory!WalletInv, [PaymentsNext]_vars
               PROVE  OrdersInv' /\ WalletTheory!WalletInv'
    OBVIOUS
  <2>1. WalletTheory!WalletInv'
    BY WalletConstantsHold, SameWallet, WalletStepRefinement, WalletTheory!WalletStepInvariant
  <2>2. Knowledge
    BY TypesTogether DEF OrdersInv, Knowledge
  <2>3. Knowledge'
    BY <2>2, KnowledgeStep
  <2>4. wallet \in Nat /\ wallet' \in Nat
    BY <2>1 DEF WalletTheory!WalletInv, WalletTheory!WalletTypeOK
  <2>5. RefundCovered' /\ CreditsBackedAhead'
    BY <2>1, <2>2, <2>4, RefundCoveredStep, BackedStep DEF OrdersInv
  <2>6. PaymentsTypeOK'
    BY <2>1, <2>3
    DEF PaymentsTypeOK, OrderTypes, Knowledge, WalletTheory!WalletInv, WalletTheory!WalletTypeOK,
        Wallet!WalletTypeOK, WalletTheory!Places, Wallet!Places
  <2> QED
    BY <2>1, <2>3, <2>5, <2>6 DEF OrdersInv, Knowledge
<1> QED
  BY <1>1, <1>2, PTL DEF PaymentsSpec

\* Every variable of orders, claims, refunds and the wallet keeps its type.
THEOREM PaymentsTypeCorrect == PaymentsSpec => []PaymentsTypeOK
<1>1. OrdersInv => PaymentsTypeOK
  BY DEF OrdersInv
<1> QED
  BY <1>1, OrdersInvariantHolds, PTL

\* A paid order, and one whose claim is applied, was fulfilled, and a refunded one was
\* reversed under a refund that succeeded, whichever handlers run at once or are lost.
THEOREM PaidOrdersAreFulfilled == PaymentsSpec => []PaidIsFulfilled
<1>1. OrdersInv => PaidIsFulfilled
  BY DEF OrdersInv
<1> QED
  BY <1>1, OrdersInvariantHolds, PTL

\* What a refund asks of the provider stays in the wallet: the hold keeps AI requests
\* out of it, from its insertion to the reversal.
THEOREM RefundsAreCovered == PaymentsSpec => []RefundCovered
<1>1. OrdersInv => RefundCovered
  BY DEF OrdersInv
<1> QED
  BY <1>1, OrdersInvariantHolds, PTL

\* The ledger never shows more than the grant, the fulfilled orders and the pool's stray
\* refunds have brought, for any number of orders and requests.
THEOREM CreditsAreBacked == PaymentsSpec => []CreditsBacked
<1>1. OrdersInv => CreditsBacked
  <2> SUFFICES ASSUME OrdersInv PROVE CreditsBacked
    OBVIOUS
  <2> PICK n \in Nat, owed \in Nat :
        n = Cardinality(Fulfilled) /\ owed = WalletTheory!CostOf({"wallet"})
    BY FulfilledIsFinite, WalletConstantsHold, WalletTheory!HereIsFinite
  <2>1. /\ ledger \in Int /\ granted \in BOOLEAN /\ Credits * n \in Nat /\ Cost * stray \in Nat
        /\ GrantedSoFar \in Nat
    BY PaymentAssumption DEF OrdersInv, PaymentsTypeOK, Wallet!WalletTypeOK, GrantedSoFar
  <2>2. ledger <= GrantedSoFar + Credits * n + Cost * stray
    BY <2>1 DEF OrdersInv, CreditsBackedAhead
  <2> QED
    BY <2>2 DEF CreditsBacked, Fulfilled, GrantedSoFar
<1> QED
  BY <1>1, OrdersInvariantHolds, PTL
-----------------------------------------------------------------------------
(* ProofOfPayment: an accepted receipt is kept.  An upload that may still  *)
(* remove its object has a reservation nobody else can touch, and that     *)
(* reservation says there is no receipt.                                   *)

UploadPhases == {"idle", "reserved", "put", "unsure", "cleaning", "failing", "accepted", "error"}
UploadStates == [key : Keys \cup {Nothing}, phase : UploadPhases]
Receipts == [scan : Verdicts \cup {"none", "pending"}, request : Staff \cup {Nothing}, open : BOOLEAN,
             verdict : Staff \cup {Nothing}, deleted : BOOLEAN, storageDeleted : BOOLEAN]
Tasks == [phase : {"idle", "asked", "applying", "marked", "deleting", "removed", "reading"},
          doc : Uploads \cup {Nothing}, verdict : Verdicts]

\* A document has one reservation, and a receipt exactly when that is stored.
Booked ==
    /\ \A k \in Keys : reservation[k].state # "none" =>
          reservation[k].doc \in Uploads /\ upload[reservation[k].doc].phase # "idle"
    /\ \A j, k \in Keys :
          reservation[j].state # "none" /\ reservation[k].state # "none" /\ reservation[j].doc = reservation[k].doc
          => j = k
    /\ \A d \in Uploads : HasReceipt(d) <=> \E k \in Keys : reservation[k].state = "stored" /\ reservation[k].doc = d

\* What an upload in progress knows of its reservation and its object.
Placed ==
    \A u \in Uploads :
        /\ upload[u].phase \in {"reserved", "put", "unsure", "cleaning", "failing"} =>
              /\ upload[u].key \in Keys /\ reservation[upload[u].key].doc = u
              /\ reservation[upload[u].key].state \in {"reserved", "stored"}
              /\ upload[u].phase # "unsure" => reservation[upload[u].key].state = "reserved"
        /\ upload[u].phase = "accepted" => upload[u].key \in Keys /\ reservation[upload[u].key].state = "stored"
        /\ upload[u].phase \in {"idle", "reserved", "failing"} => u \notin objects
        /\ upload[u].phase = "put" => u \in objects

\* What a request knows of its receipt.
Tasked ==
    \A v \in Staff :
        /\ task[v].phase \in {"asked", "applying"} => task[v].doc \in Uploads
        /\ task[v].phase \in {"marked", "deleting", "removed"} =>
              task[v].doc \in Uploads /\ HasReceipt(task[v].doc) /\ receipt[task[v].doc].deleted
        /\ task[v].phase = "removed" => task[v].doc \notin objects

Kept ==
    /\ \A d \in Uploads : HasReceipt(d) /\ ~receipt[d].deleted => d \in objects
    /\ \A d \in Uploads : receipt[d].storageDeleted => HasReceipt(d) /\ receipt[d].deleted /\ d \notin objects
    /\ \A k \in Keys : reservation[k].state = "failed" => reservation[k].doc \notin objects

Few == IsFiniteSet(Reserved) /\ Cardinality(Reserved) <= PerOrder

PopInv == PopTypeOK /\ Booked /\ Placed /\ Tasked /\ Kept /\ VerdictsCurrent /\ Few

LEMMA PopInitHolds == PopInit => PopInv
<1> SUFFICES ASSUME PopInit PROVE PopInv
  OBVIOUS
<1>1. PopTypeOK
  BY DEF PopInit, PopTypeOK, NoReservation, NoReceipt, NoTask, Verdicts
<1>2. Booked /\ Placed
  BY DEF PopInit, Booked, Placed, NoReservation, NoReceipt, HasReceipt
<1>3. Tasked /\ Kept /\ VerdictsCurrent
  BY DEF PopInit, Tasked, Kept, VerdictsCurrent, NoReservation, NoReceipt, NoTask, HasReceipt, Verdicts
<1>4. Reserved = {}
  BY DEF PopInit, Reserved, NoReservation
<1>5. Few
  BY <1>4, FS_EmptySet, PopAssumption DEF Few
<1> QED
  BY <1>1, <1>2, <1>3, <1>5 DEF PopInv

\* An upload whose reservation is not stored has no receipt, and nobody is removing one.
LEMMA NoReceiptYet ==
    ASSUME PopInv, NEW u \in Uploads, upload[u].phase \in {"reserved", "put", "cleaning", "failing"}
    PROVE  /\ upload[u].key \in Keys /\ reservation[upload[u].key].doc = u
           /\ reservation[upload[u].key].state = "reserved" /\ ~HasReceipt(u) /\ ~receipt[u].storageDeleted
           /\ \A k \in Keys : reservation[k].state # "none" /\ reservation[k].doc = u => k = upload[u].key
           /\ \A v \in Staff : task[v].phase \in {"marked", "deleting", "removed"} => task[v].doc # u
<1>1. /\ upload[u].key \in Keys /\ reservation[upload[u].key].doc = u
      /\ reservation[upload[u].key].state = "reserved"
  BY DEF PopInv, Placed
<1>2. \A k \in Keys : reservation[k].state # "none" /\ reservation[k].doc = u => k = upload[u].key
  BY <1>1 DEF PopInv, Booked
<1>3. ~HasReceipt(u)
  BY <1>1, <1>2 DEF PopInv, Booked
<1> QED
  BY <1>1, <1>2, <1>3 DEF PopInv, Kept, Tasked
-----------------------------------------------------------------------------
(* Uploads.                                                                *)

LEMMA ReserveHolds ==
    ASSUME PopInv, NEW u \in Uploads, NEW k \in Keys, ReserveUpload(u, k) PROVE PopInv'
<1>1. /\ upload[u].phase = "idle" /\ reservation[k].state = "none" /\ Cardinality(Reserved) < PerOrder
      /\ UNCHANGED <<objects, receipt, task>>
  BY DEF ReserveUpload, Uploading
<1>2. /\ reservation' = [reservation EXCEPT ![k] = [state |-> "reserved", doc |-> u]]
      /\ upload' = [upload EXCEPT ![u] = [key |-> k, phase |-> "reserved"]]
  BY DEF ReserveUpload
<1>3. PopTypeOK'
  BY <1>1, <1>2 DEF PopInv, PopTypeOK
<1>4. /\ reservation'[k].state = "reserved" /\ reservation'[k].doc = u
      /\ \A j \in Keys : j # k => reservation'[j] = reservation[j]
      /\ upload'[u].key = k /\ upload'[u].phase = "reserved"
      /\ \A q \in Uploads : q # u => upload'[q] = upload[q]
  BY <1>2 DEF PopInv, PopTypeOK
<1>5. \A j \in Keys : reservation[j].state # "none" => reservation[j].doc # u /\ reservation[j].doc \in Uploads
  BY <1>1 DEF PopInv, Booked
<1>6. ~HasReceipt(u)
  BY <1>5 DEF PopInv, Booked
<1>7. u \notin objects
  BY <1>1 DEF PopInv, Placed
<1>8. Booked'
  BY <1>1, <1>4, <1>5 DEF PopInv, Booked, HasReceipt
<1>9. Placed'
  BY <1>1, <1>4, <1>5, <1>7 DEF PopInv, Placed
<1>10. Tasked' /\ Kept' /\ VerdictsCurrent'
  BY <1>1, <1>4 DEF PopInv, Tasked, Kept, VerdictsCurrent, HasReceipt
<1>11. Few'
  <2>1. Reserved' = Reserved \cup {k} /\ k \notin Reserved
    BY <1>1, <1>4 DEF Reserved
  <2>2. IsFiniteSet(Reserved) /\ Cardinality(Reserved) \in Nat
    BY FS_CardinalityType DEF PopInv, Few
  <2>3. IsFiniteSet(Reserved \cup {k}) /\ Cardinality(Reserved \cup {k}) = Cardinality(Reserved) + 1
    BY <2>1, <2>2, FS_AddElement
  <2> QED
    BY <1>1, <2>1, <2>2, <2>3, PopAssumption DEF Few
<1> QED
  BY <1>3, <1>8, <1>9, <1>10, <1>11 DEF PopInv

\* A step of an upload that leaves its reservation alone, and its object unless there
\* is no receipt.
LEMMA UploadMoves ==
    ASSUME PopInv, NEW u \in Uploads, NEW o \in UploadStates, upload' = [upload EXCEPT ![u] = o],
           UNCHANGED <<reservation, receipt, task>>,
           objects' \in {objects, objects \cup {u}, objects \ {u}},
           objects' # objects => upload[u].phase \in {"reserved", "cleaning"},
           o.phase \notin {"idle", "reserved"},
           o.phase \in {"put", "unsure", "cleaning", "failing"} =>
              /\ o.key \in Keys /\ reservation[o.key].doc = u /\ reservation[o.key].state \in {"reserved", "stored"}
              /\ o.phase # "unsure" => reservation[o.key].state = "reserved",
           o.phase = "accepted" => o.key \in Keys /\ reservation[o.key].state = "stored",
           o.phase = "failing" => u \notin objects',
           o.phase = "put" => u \in objects'
    PROVE  PopInv'
<1>1. upload'[u] = o /\ \A q \in Uploads : q # u => upload'[q] = upload[q]
  BY DEF PopInv, PopTypeOK
<1>2. /\ \A d \in Uploads : d # u => (d \in objects' <=> d \in objects)
      /\ (u \in objects') # (u \in objects) => upload[u].phase \in {"reserved", "cleaning"}
  OBVIOUS
<1>3. PopTypeOK'
  BY <1>1 DEF PopInv, PopTypeOK, UploadStates, UploadPhases
<1>4. Booked'
  BY <1>1 DEF PopInv, Booked, HasReceipt
<1>5. Placed'
  <2>1. ASSUME NEW q \in Uploads, q # u
        PROVE  /\ upload'[q] = upload[q] /\ (q \in objects' <=> q \in objects)
    BY <1>1, <1>2, <2>1
  <2> QED
    BY <1>1, <2>1 DEF PopInv, Placed
<1>6. Tasked' /\ Kept'
  <2>1. CASE (u \in objects') = (u \in objects)
    <3>1. \A d \in Uploads : d \in objects' <=> d \in objects
      BY <1>2, <2>1
    <3>2. \A k \in Keys : reservation[k].state = "failed" => reservation[k].doc \in Uploads
      BY DEF PopInv, Booked
    <3> QED
      BY <3>1, <3>2 DEF PopInv, Tasked, Kept, HasReceipt
  <2>2. CASE (u \in objects') # (u \in objects)
    <3>1. /\ ~HasReceipt(u) /\ ~receipt[u].storageDeleted
          /\ \A k \in Keys : reservation[k].state = "failed" => reservation[k].doc # u /\ reservation[k].doc \in Uploads
          /\ \A v \in Staff : task[v].phase = "removed" => task[v].doc # u /\ task[v].doc \in Uploads
      BY <1>2, <2>2, NoReceiptYet DEF PopInv, Booked, Tasked
    <3> QED
      BY <1>2, <3>1 DEF PopInv, Tasked, Kept, HasReceipt
  <2> QED
    BY <2>1, <2>2
<1>7. VerdictsCurrent' /\ Few'
  BY DEF PopInv, VerdictsCurrent, Few, Reserved
<1> QED
  BY <1>3, <1>4, <1>5, <1>6, <1>7 DEF PopInv

LEMMA NextUpload ==
    ASSUME PopInv, NEW u \in Uploads, NEW phase \in UploadPhases, Upload(u, phase)
    PROVE  \E o \in UploadStates :
              o.key = upload[u].key /\ o.phase = phase /\ upload' = [upload EXCEPT ![u] = o]
<1> DEFINE o == [upload[u] EXCEPT !.phase = phase]
<1>1. o \in UploadStates /\ o.key = upload[u].key /\ o.phase = phase
  BY DEF PopInv, PopTypeOK, UploadStates
<1>2. upload' = [upload EXCEPT ![u] = o]
  BY DEF Upload
<1> QED
  BY <1>1, <1>2

LEMMA FindHolds ==
    ASSUME PopInv, NEW u \in Uploads, NEW k \in Keys, FindUpload(u, k) PROVE PopInv'
<1>1. PICK phase \in {"accepted", "error"} :
         /\ phase = "accepted" => reservation[k].state = "stored"
         /\ upload' = [upload EXCEPT ![u] = [key |-> k, phase |-> phase]]
  BY DEF FindUpload
<1>2. PICK o : o = [key |-> k, phase |-> phase]
  OBVIOUS
<1>3. o \in UploadStates /\ o.key = k /\ o.phase = phase /\ upload' = [upload EXCEPT ![u] = o]
  BY <1>1, <1>2 DEF UploadStates, UploadPhases
<1>4. UNCHANGED <<reservation, receipt, task, objects>>
  BY DEF FindUpload
<1> QED
  BY <1>1, <1>3, <1>4, UploadMoves

LEMMA PutHolds == ASSUME PopInv, NEW u \in Uploads, PutObject(u) PROVE PopInv'
<1>1. PICK phase \in {"put", "error"} :
         Upload(u, phase) /\ (objects' = objects \cup {u} \/ (objects' = objects /\ phase = "error"))
  BY DEF PutObject
<1>2. PICK o \in UploadStates :
         o.key = upload[u].key /\ o.phase = phase /\ upload' = [upload EXCEPT ![u] = o]
  BY <1>1, NextUpload DEF UploadPhases
<1>3. upload[u].phase = "reserved" /\ UNCHANGED <<reservation, receipt, task>>
  BY DEF PutObject, Uploading
<1>4. upload[u].key \in Keys /\ reservation[upload[u].key].doc = u /\ reservation[upload[u].key].state = "reserved"
  BY <1>3, NoReceiptYet
<1> QED
  BY <1>1, <1>2, <1>3, <1>4, UploadMoves

LEMMA RecordFailsHolds == ASSUME PopInv, NEW u \in Uploads, RecordFails(u) PROVE PopInv'
<1>1. upload[u].phase = "put" /\ UNCHANGED <<reservation, receipt, task, objects>>
  BY DEF RecordFails, Uploading
<1>2. PICK o \in UploadStates :
         o.key = upload[u].key /\ o.phase = "unsure" /\ upload' = [upload EXCEPT ![u] = o]
  BY NextUpload DEF UploadPhases, RecordFails
<1>3. upload[u].key \in Keys /\ reservation[upload[u].key].doc = u /\ reservation[upload[u].key].state = "reserved"
  BY <1>1, NoReceiptYet
<1> QED
  BY <1>1, <1>2, <1>3, UploadMoves

LEMMA LookHolds == ASSUME PopInv, NEW u \in Uploads, LookAtReservation(u) PROVE PopInv'
<1>1. /\ upload[u].phase = "unsure" /\ UNCHANGED <<reservation, receipt, task, objects>>
      /\ upload[u].key \in Keys /\ reservation[upload[u].key].doc = u
  BY DEF LookAtReservation, Uploading, PopInv, Placed
<1>2. PICK phase \in {"accepted", "cleaning", "error"} :
         /\ Upload(u, phase)
         /\ phase = "accepted" => reservation[upload[u].key].state = "stored"
         /\ phase = "cleaning" => reservation[upload[u].key].state = "reserved"
  BY DEF LookAtReservation, OwnKey
<1>3. PICK o \in UploadStates :
         o.key = upload[u].key /\ o.phase = phase /\ upload' = [upload EXCEPT ![u] = o]
  BY <1>2, NextUpload DEF UploadPhases
<1> QED
  BY <1>1, <1>2, <1>3, UploadMoves

LEMMA CleanHolds == ASSUME PopInv, NEW u \in Uploads, CleanUp(u) PROVE PopInv'
<1>1. upload[u].phase = "cleaning" /\ UNCHANGED <<reservation, receipt, task>>
  BY DEF CleanUp, Uploading
<1>2. PICK phase \in {"failing", "error"} :
         Upload(u, phase) /\ (objects' = objects \ {u} \/ (objects' = objects /\ phase = "error"))
  BY DEF CleanUp
<1>3. PICK o \in UploadStates :
         o.key = upload[u].key /\ o.phase = phase /\ upload' = [upload EXCEPT ![u] = o]
  BY <1>2, NextUpload DEF UploadPhases
<1>4. upload[u].key \in Keys /\ reservation[upload[u].key].doc = u /\ reservation[upload[u].key].state = "reserved"
  BY <1>1, NoReceiptYet
<1> QED
  BY <1>1, <1>2, <1>3, <1>4, UploadMoves

LEMMA Types ==
    ASSUME PopInv
    PROVE  /\ receipt \in [Uploads -> Receipts] /\ task \in [Staff -> Tasks] /\ objects \subseteq Uploads
           /\ NoTask \in Tasks /\ NoTask.phase = "idle" /\ VerdictsCurrent
BY DEF PopInv, PopTypeOK, Receipts, Tasks, NoTask, Verdicts

LEMMA RecordHolds == ASSUME PopInv, NEW u \in Uploads, RecordPending(u) PROVE PopInv'
<1> DEFINE k == upload[u].key
<1>1. /\ k \in Keys /\ reservation[k].doc = u /\ reservation[k].state = "reserved" /\ ~HasReceipt(u)
      /\ \A j \in Keys : reservation[j].state # "none" /\ reservation[j].doc = u => j = k
      /\ ~receipt[u].storageDeleted
  BY NoReceiptYet DEF RecordPending, Uploading
<1>2. u \in objects /\ UNCHANGED <<objects, task>>
  BY DEF RecordPending, Uploading, PopInv, Placed
<1>3. receipt' = [receipt EXCEPT ![u].scan = "pending"] /\ reservation' = [reservation EXCEPT ![k].state = "stored"]
  BY DEF RecordPending, OwnKey
<1>4. PICK phase \in {"accepted", "unsure"} : Upload(u, phase)
  BY DEF RecordPending
<1>5. PICK o \in UploadStates :
         o.key = k /\ o.phase = phase /\ upload' = [upload EXCEPT ![u] = o]
  BY <1>4, NextUpload DEF UploadPhases
<1>6. /\ reservation'[k].state = "stored" /\ reservation'[k].doc = u
      /\ \A j \in Keys : j # k => reservation'[j] = reservation[j]
      /\ receipt'[u].scan = "pending" /\ receipt'[u].storageDeleted = receipt[u].storageDeleted
      /\ \A d \in Uploads : d # u => receipt'[d] = receipt[d]
      /\ upload'[u] = o /\ \A q \in Uploads : q # u => upload'[q] = upload[q]
  BY <1>1, <1>3, <1>5 DEF PopInv, PopTypeOK
<1>7. PopTypeOK'
  <2>1. receipt' \in [Uploads -> Receipts]
    BY <1>3, Types DEF Receipts
  <2>2. reservation' \in [Keys -> [state : {"none", "reserved", "stored", "failed"}, doc : Uploads \cup {Nothing}]]
    BY <1>1, <1>3 DEF PopInv, PopTypeOK
  <2>3. upload' \in [Uploads -> UploadStates]
    BY <1>5 DEF PopInv, PopTypeOK, UploadStates, UploadPhases
  <2> QED
    BY <1>2, <2>1, <2>2, <2>3 DEF PopInv, PopTypeOK, Receipts, UploadStates, UploadPhases
<1> HIDE DEF k
<1>8. Booked'
  <2>1. \A j \in Keys : reservation'[j].state # "none" =>
           reservation'[j].doc \in Uploads /\ upload'[reservation'[j].doc].phase # "idle"
    BY <1>5, <1>6 DEF PopInv, Booked
  <2>2. \A i, j \in Keys :
           reservation'[i].state # "none" /\ reservation'[j].state # "none" /\ reservation'[i].doc = reservation'[j].doc
           => i = j
    BY <1>1, <1>6 DEF PopInv, Booked
  <2>3. \A d \in Uploads : receipt'[d].scan # "none" <=>
           \E j \in Keys : reservation'[j].state = "stored" /\ reservation'[j].doc = d
    BY <1>1, <1>6 DEF PopInv, Booked, HasReceipt
  <2> QED
    BY <2>1, <2>2, <2>3 DEF Booked, HasReceipt
<1>9. Placed'
  <2>1. ASSUME NEW q \in Uploads, q # u, upload[q].phase \in {"reserved", "put", "unsure", "cleaning", "failing"}
        PROVE  upload[q].key # k
    BY <1>1, <2>1 DEF PopInv, Placed
  <2>2. \A j \in Keys : reservation[j].state = "stored" => reservation'[j] = reservation[j]
    BY <1>1, <1>6
  <2> QED
    BY <1>1, <1>2, <1>5, <1>6, <2>1, <2>2 DEF PopInv, Placed
<1>10. Tasked'
  BY <1>1, <1>2, <1>6 DEF PopInv, Tasked, HasReceipt
<1>11. Kept'
  BY <1>1, <1>2, <1>6 DEF PopInv, Kept, HasReceipt
<1>12. VerdictsCurrent' /\ Reserved' = Reserved
  BY <1>1, <1>6 DEF PopInv, VerdictsCurrent, Verdicts, Reserved
<1> QED
  BY <1>7, <1>8, <1>9, <1>10, <1>11, <1>12 DEF PopInv, Few

LEMMA FailHolds == ASSUME PopInv, NEW u \in Uploads, FailReservation(u) PROVE PopInv'
<1> DEFINE k == upload[u].key
<1>1. /\ k \in Keys /\ reservation[k].doc = u /\ reservation[k].state = "reserved" /\ ~HasReceipt(u)
      /\ \A j \in Keys : reservation[j].state # "none" /\ reservation[j].doc = u => j = k
  BY NoReceiptYet DEF FailReservation, Uploading
<1>2. u \notin objects /\ UNCHANGED <<objects, receipt, task>>
  BY DEF FailReservation, Uploading, PopInv, Placed
<1>3. PICK o \in UploadStates : o.key = k /\ o.phase = "error" /\ upload' = [upload EXCEPT ![u] = o]
  BY NextUpload DEF UploadPhases, FailReservation
<1>4. CASE UNCHANGED reservation
  <2>1. o.phase \notin {"idle", "reserved", "put", "unsure", "cleaning", "failing", "accepted"}
    BY <1>3
  <2> QED
    BY <1>2, <1>3, <1>4, <2>1, UploadMoves
<1>5. CASE reservation' = [reservation EXCEPT ![k].state = "failed"]
  <2>1. /\ reservation'[k].state = "failed" /\ reservation'[k].doc = u
        /\ \A j \in Keys : j # k => reservation'[j] = reservation[j]
        /\ upload'[u] = o /\ \A q \in Uploads : q # u => upload'[q] = upload[q]
    BY <1>1, <1>3, <1>5 DEF PopInv, PopTypeOK
  <2>2. PopTypeOK'
    BY <1>1, <1>2, <1>3, <1>5 DEF PopInv, PopTypeOK, UploadStates, UploadPhases
  <2> HIDE DEF k
  <2>3. Booked'
    <3>1. \A j \in Keys : reservation'[j].state # "none" =>
             reservation'[j].doc \in Uploads /\ upload'[reservation'[j].doc].phase # "idle"
      BY <1>3, <2>1 DEF PopInv, Booked
    <3>2. \A i, j \in Keys :
             reservation'[i].state # "none" /\ reservation'[j].state # "none" /\ reservation'[i].doc = reservation'[j].doc
             => i = j
      BY <1>1, <2>1 DEF PopInv, Booked
    <3>3. \A d \in Uploads : receipt[d].scan # "none" <=>
             \E j \in Keys : reservation'[j].state = "stored" /\ reservation'[j].doc = d
      BY <1>1, <2>1 DEF PopInv, Booked, HasReceipt
    <3> QED
      BY <1>2, <3>1, <3>2, <3>3 DEF Booked, HasReceipt
  <2>4. Placed'
    <3>1. ASSUME NEW q \in Uploads, q # u, upload[q].phase \in {"reserved", "put", "unsure", "cleaning", "failing"}
          PROVE  upload[q].key # k
      BY <1>1, <3>1 DEF PopInv, Placed
    <3>2. \A j \in Keys : reservation[j].state = "stored" => reservation'[j] = reservation[j]
      BY <1>1, <2>1
    <3> QED
      BY <1>2, <1>3, <2>1, <3>1, <3>2 DEF PopInv, Placed
  <2>5. Tasked' /\ Kept' /\ VerdictsCurrent' /\ Reserved' = Reserved
    BY <1>1, <1>2, <2>1 DEF PopInv, Tasked, Kept, HasReceipt, VerdictsCurrent, Reserved
  <2> QED
    BY <2>2, <2>3, <2>4, <2>5 DEF PopInv, Few
<1> QED
  BY <1>4, <1>5 DEF FailReservation, OwnKey
-----------------------------------------------------------------------------
(* The platform owner.                                                     *)

\* A step of a request: its own place, and of the receipts what every invariant allows.
LEMMA TaskMoves ==
    ASSUME PopInv, NEW v \in Staff, NEW t \in Tasks, task' = [task EXCEPT ![v] = t],
           UNCHANGED <<reservation, upload>>, objects' \subseteq objects, receipt' \in [Uploads -> Receipts],
           \A d \in Uploads :
              /\ receipt'[d].scan = "none" <=> receipt[d].scan = "none"
              /\ receipt[d].deleted => receipt'[d].deleted
              /\ receipt'[d].deleted => HasReceipt(d) \/ receipt[d].deleted
              /\ d \in objects \ objects' => receipt[d].deleted /\ HasReceipt(d)
              /\ receipt'[d].storageDeleted =>
                    receipt[d].storageDeleted \/ (HasReceipt(d) /\ receipt[d].deleted /\ d \notin objects'),
           VerdictsCurrent',
           t.phase \in {"asked", "applying"} => t.doc \in Uploads,
           t.phase \in {"marked", "deleting", "removed"} =>
              t.doc \in Uploads /\ HasReceipt(t.doc) /\ receipt'[t.doc].deleted,
           t.phase = "removed" => t.doc \notin objects'
    PROVE  PopInv'
<1>1. PopTypeOK'
  BY DEF PopInv, PopTypeOK, Tasks, Receipts
<1>2. \A d \in Uploads : HasReceipt(d)' <=> HasReceipt(d)
  BY DEF HasReceipt
<1>3. Booked'
  BY <1>2 DEF PopInv, Booked
<1>4. Placed'
  <2>1. \A u \in Uploads : upload[u].phase = "put" => ~HasReceipt(u)
    BY NoReceiptYet
  <2>2. \A u \in Uploads : upload[u].phase = "put" => u \in objects'
    BY <2>1 DEF PopInv, Placed
  <2> QED
    BY <2>2 DEF PopInv, Placed
<1>5. Tasked'
  BY <1>2 DEF PopInv, PopTypeOK, Tasked
<1>6. Kept'
  BY <1>2 DEF PopInv, Booked, Kept
<1>7. Few'
  BY DEF PopInv, Few, Reserved
<1> QED
  BY <1>1, <1>3, <1>4, <1>5, <1>6, <1>7 DEF PopInv

\* Steps that change nothing but their place.
LEMMA PlaceHolds ==
    ASSUME PopInv, NEW v \in Staff, NEW t \in Tasks, task' = [task EXCEPT ![v] = t],
           UNCHANGED <<reservation, objects, receipt, upload>>,
           t.phase \in {"asked", "applying"} => t.doc \in Uploads,
           t.phase \in {"marked", "deleting", "removed"} =>
              t.doc \in Uploads /\ HasReceipt(t.doc) /\ receipt[t.doc].deleted,
           t.phase = "removed" => t.doc \notin objects
    PROVE  PopInv'
<1>1. VerdictsCurrent' /\ receipt \in [Uploads -> Receipts]
  BY Types DEF VerdictsCurrent
<1> QED
  BY <1>1, TaskMoves

LEMMA AskHolds == ASSUME PopInv, NEW v \in Staff, NEW d \in Uploads, AskScanner(v, d) PROVE PopInv'
<1>1. PICK t : t = [phase |-> "asked", doc |-> d, verdict |-> "failed"] /\ task' = [task EXCEPT ![v] = t]
  BY DEF AskScanner
<1>2. t \in Tasks /\ t.phase = "asked" /\ t.doc = d
  BY <1>1 DEF Tasks, Verdicts
<1>3. receipt[d].scan = "pending" /\ UNCHANGED <<reservation, upload, objects>>
      /\ receipt' = [receipt EXCEPT ![d].request = v, ![d].open = TRUE]
  BY DEF AskScanner
<1>4. receipt' \in [Uploads -> Receipts]
  <2>1. receipt \in [Uploads -> Receipts] /\ receipt[d] \in Receipts
    BY Types
  <2>2. PICK new : new = [receipt[d] EXCEPT !.request = v, !.open = TRUE]
    OBVIOUS
  <2>3. new \in Receipts
    BY <2>1, <2>2 DEF Receipts
  <2>4. receipt' = [receipt EXCEPT ![d] = new]
    BY <1>3, <2>1, <2>2
  <2> QED
    BY <2>1, <2>3, <2>4
<1>5. \A e \in Uploads : /\ receipt'[e].scan = receipt[e].scan /\ receipt'[e].deleted = receipt[e].deleted
                         /\ receipt'[e].storageDeleted = receipt[e].storageDeleted
                         /\ e # d => receipt'[e] = receipt[e]
  BY <1>3, Types DEF Receipts
<1>6. VerdictsCurrent'
  BY <1>3, <1>5, Types DEF VerdictsCurrent, Verdicts
<1> QED
  BY <1>1, <1>2, <1>3, <1>4, <1>5, <1>6, TaskMoves

LEMMA WindowHolds == ASSUME PopInv, NEW d \in Uploads, WindowCloses(d) PROVE PopInv'
<1>1. UNCHANGED <<reservation, objects, upload, task>> /\ receipt' = [receipt EXCEPT ![d].open = FALSE]
  BY DEF WindowCloses
<1>2. receipt' \in [Uploads -> Receipts]
  BY <1>1, Types DEF Receipts
<1>3. \A e \in Uploads : /\ receipt'[e].scan = receipt[e].scan /\ receipt'[e].deleted = receipt[e].deleted
                         /\ receipt'[e].storageDeleted = receipt[e].storageDeleted
                         /\ receipt'[e].verdict = receipt[e].verdict /\ receipt'[e].request = receipt[e].request
  BY <1>1, Types DEF Receipts
<1>4. PopTypeOK'
  BY <1>1, <1>2 DEF PopInv, PopTypeOK, Receipts
<1>5. Booked' /\ Placed' /\ Tasked' /\ Kept' /\ VerdictsCurrent' /\ Few'
  BY <1>1, <1>3 DEF PopInv, Booked, Placed, Tasked, Kept, HasReceipt, VerdictsCurrent, Few, Reserved
<1> QED
  BY <1>4, <1>5 DEF PopInv

LEMMA AnswerHolds ==
    ASSUME PopInv, NEW v \in Staff, NEW verdict \in Verdicts, TakeAnswer(v, verdict) PROVE PopInv'
<1>1. task[v].phase = "asked" /\ task[v] \in Tasks /\ task[v].doc \in Uploads
      /\ UNCHANGED <<reservation, objects, receipt, upload>>
  BY Types DEF TakeAnswer, Doing, PopInv, Tasked
<1>2. PICK t \in Tasks : /\ task' = [task EXCEPT ![v] = t]
                         /\ t.phase = "idle" \/ (t.phase = "applying" /\ t.doc = task[v].doc)
  <2>1. CASE task' = [task EXCEPT ![v] = NoTask]
    BY <2>1, Types
  <2>2. CASE task' = [task EXCEPT ![v].phase = "applying", ![v].verdict = verdict]
    <3> DEFINE t == [task[v] EXCEPT !.phase = "applying", !.verdict = verdict]
    <3>1. t \in Tasks /\ t.phase = "applying" /\ t.doc = task[v].doc
      BY <1>1 DEF Tasks
    <3>2. task' = [task EXCEPT ![v] = t]
      BY <2>2, Types
    <3> QED
      BY <3>1, <3>2
  <2> QED
    BY <2>1, <2>2 DEF TakeAnswer, EndTask
<1>3. /\ t.phase \in {"asked", "applying"} => t.doc \in Uploads
      /\ t.phase \notin {"marked", "deleting", "removed"} /\ t.phase # "removed"
  BY <1>1, <1>2
<1>4. task' = [task EXCEPT ![v] = t] /\ UNCHANGED <<reservation, objects, receipt, upload>>
  BY <1>1, <1>2
<1> QED
  BY <1>3, <1>4, PlaceHolds

LEMMA ApplyHolds == ASSUME PopInv, NEW v \in Staff, ApplyResult(v) PROVE PopInv'
<1>1. /\ task' = [task EXCEPT ![v] = NoTask] /\ UNCHANGED <<reservation, objects, upload>>
      /\ task[v] \in Tasks /\ task[v].doc \in Uploads
  BY Types DEF ApplyResult, EndTask, Doing, PopInv, Tasked
<1>2. CASE UNCHANGED receipt
  BY <1>1, <1>2, Types, PlaceHolds
<1>3. CASE Awaited(v) /\ receipt' = [receipt EXCEPT ![Doc(v)].scan = task[v].verdict, ![Doc(v)].verdict = v]
  <2>1. PICK d : d = task[v].doc
    OBVIOUS
  <2>2. receipt[d].request = v /\ receipt[d].scan = "pending" /\ task[v].verdict \in Verdicts
        /\ receipt' = [receipt EXCEPT ![d].scan = task[v].verdict, ![d].verdict = v]
    BY <1>1, <1>3, <2>1 DEF Awaited, Doc, Tasks
  <2>3. receipt' \in [Uploads -> Receipts]
    BY <1>1, <2>2, <2>1, Types DEF Receipts
  <2>4. /\ receipt'[d].scan \in Verdicts /\ receipt'[d].verdict = v /\ receipt'[d].request = v
        /\ \A e \in Uploads : /\ receipt'[e].deleted = receipt[e].deleted
                              /\ receipt'[e].storageDeleted = receipt[e].storageDeleted
                              /\ e # d => receipt'[e] = receipt[e]
    BY <1>1, <2>2, <2>1, Types DEF Receipts
  <2>5. VerdictsCurrent'
    <3> SUFFICES ASSUME NEW e \in Uploads, receipt'[e].scan \in Verdicts
                 PROVE  receipt'[e].verdict = receipt'[e].request
      BY DEF VerdictsCurrent
    <3>1. CASE e = d
      BY <2>4, <3>1
    <3>2. CASE e # d
      BY <2>4, <3>2, Types DEF VerdictsCurrent
    <3> QED
      BY <3>1, <3>2
  <2>6. \A e \in Uploads : receipt'[e].scan = "none" <=> receipt[e].scan = "none"
    BY <2>2, <2>4 DEF Verdicts
  <2> QED
    BY <1>1, <2>3, <2>4, <2>5, <2>6, Types, TaskMoves
<1> QED
  BY <1>2, <1>3 DEF ApplyResult

LEMMA RetireHolds == ASSUME PopInv, NEW v \in Staff, NEW d \in Uploads, Retire(v, d) PROVE PopInv'
<1>1. PICK t : t = [NoTask EXCEPT !.phase = "marked", !.doc = d] /\ task' = [task EXCEPT ![v] = t]
  BY DEF Retire
<1>2. t \in Tasks /\ t.phase = "marked" /\ t.doc = d
  BY <1>1 DEF Tasks, NoTask, Verdicts
<1>3. HasReceipt(d) /\ UNCHANGED <<reservation, upload, objects>> /\ receipt' = [receipt EXCEPT ![d].deleted = TRUE]
  BY DEF Retire, HasReceipt
<1>4. receipt' \in [Uploads -> Receipts]
  BY <1>3, Types DEF Receipts
<1>5. /\ receipt'[d].deleted
      /\ \A e \in Uploads : /\ receipt'[e].scan = receipt[e].scan
                            /\ receipt'[e].storageDeleted = receipt[e].storageDeleted
                            /\ receipt'[e].verdict = receipt[e].verdict /\ receipt'[e].request = receipt[e].request
                            /\ e # d => receipt'[e] = receipt[e]
  BY <1>3, Types DEF Receipts
<1>6. VerdictsCurrent'
  <2>1. VerdictsCurrent
    BY Types
  <2> QED
    BY <1>5, <2>1 DEF VerdictsCurrent
<1>7. \A e \in Uploads :
         /\ receipt'[e].scan = "none" <=> receipt[e].scan = "none"
         /\ receipt[e].deleted => receipt'[e].deleted
         /\ receipt'[e].deleted => HasReceipt(e) \/ receipt[e].deleted
         /\ e \in objects \ objects' => receipt[e].deleted /\ HasReceipt(e)
         /\ receipt'[e].storageDeleted =>
               receipt[e].storageDeleted \/ (HasReceipt(e) /\ receipt[e].deleted /\ e \notin objects')
  BY <1>3, <1>5
<1>8. /\ t.phase \in {"asked", "applying"} => t.doc \in Uploads
      /\ t.phase \in {"marked", "deleting", "removed"} =>
            t.doc \in Uploads /\ HasReceipt(t.doc) /\ receipt'[t.doc].deleted
      /\ t.phase = "removed" => t.doc \notin objects'
  BY <1>2, <1>3, <1>5
<1>9. t \in Tasks /\ task' = [task EXCEPT ![v] = t] /\ UNCHANGED <<reservation, upload>> /\ objects' \subseteq objects
  BY <1>1, <1>2, <1>3
<1> QED
  BY <1>4, <1>6, <1>7, <1>8, <1>9, TaskMoves

\* A step of a removal stays with its document.
LEMMA NextTask ==
    ASSUME PopInv, NEW v \in Staff, NEW phase \in {"deleting", "removed"}, Do(v, phase)
    PROVE  \E t \in Tasks : t.doc = task[v].doc /\ t.phase = phase /\ task' = [task EXCEPT ![v] = t]
<1> DEFINE t == [task[v] EXCEPT !.phase = phase]
<1>1. t \in Tasks /\ t.doc = task[v].doc /\ t.phase = phase
  BY Types DEF Tasks
<1>2. task' = [task EXCEPT ![v] = t]
  BY DEF Do
<1> QED
  BY <1>1, <1>2

LEMMA LookForHolds == ASSUME PopInv, NEW v \in Staff, LookForObject(v) PROVE PopInv'
<1>1. /\ task[v].doc \in Uploads /\ HasReceipt(task[v].doc) /\ receipt[task[v].doc].deleted
      /\ UNCHANGED <<reservation, objects, receipt, upload>>
  BY DEF LookForObject, Doing, PopInv, Tasked
<1>2. PICK phase \in {"deleting", "removed"} : Do(v, phase) /\ (phase = "removed" => task[v].doc \notin objects)
  BY DEF LookForObject, Doc
<1>3. PICK t \in Tasks : t.doc = task[v].doc /\ t.phase = phase /\ task' = [task EXCEPT ![v] = t]
  BY <1>2, NextTask
<1> QED
  BY <1>1, <1>2, <1>3, PlaceHolds

LEMMA RemoveHolds == ASSUME PopInv, NEW v \in Staff, RemoveObject(v) PROVE PopInv'
<1>1. /\ task[v].doc \in Uploads /\ HasReceipt(task[v].doc) /\ receipt[task[v].doc].deleted
      /\ UNCHANGED <<reservation, receipt, upload>>
  BY DEF RemoveObject, Doing, PopInv, Tasked
<1>2. CASE EndTask(v) /\ UNCHANGED objects
  BY <1>1, <1>2, Types, PlaceHolds DEF EndTask
<1>3. CASE objects' = objects \ {Doc(v)} /\ Do(v, "removed")
  <2>1. PICK t \in Tasks : t.doc = task[v].doc /\ t.phase = "removed" /\ task' = [task EXCEPT ![v] = t]
    BY <1>3, NextTask
  <2>2. objects' \subseteq objects /\ \A d \in objects \ objects' : d = task[v].doc
    BY <1>3 DEF Doc
  <2>3. task[v].doc \notin objects'
    BY <1>3 DEF Doc
  <2>4. VerdictsCurrent' /\ receipt' \in [Uploads -> Receipts]
    BY <1>1, Types DEF VerdictsCurrent
  <2> QED
    BY <1>1, <2>1, <2>2, <2>3, <2>4, TaskMoves
<1> QED
  BY <1>2, <1>3 DEF RemoveObject

LEMMA MarkHolds == ASSUME PopInv, NEW v \in Staff, MarkRemoved(v) PROVE PopInv'
<1>1. PICK d : d = task[v].doc
  OBVIOUS
<1>2. /\ d \in Uploads /\ HasReceipt(d) /\ receipt[d].deleted /\ d \notin objects
      /\ UNCHANGED <<reservation, objects, upload>> /\ task' = [task EXCEPT ![v] = NoTask]
      /\ receipt' = [receipt EXCEPT ![d].storageDeleted = TRUE]
  BY <1>1 DEF MarkRemoved, Doing, PopInv, Tasked, EndTask, Doc
<1>3. receipt' \in [Uploads -> Receipts]
  BY <1>2, Types DEF Receipts
<1>4. \A e \in Uploads : /\ receipt'[e].scan = receipt[e].scan /\ receipt'[e].deleted = receipt[e].deleted
                         /\ receipt'[e].verdict = receipt[e].verdict /\ receipt'[e].request = receipt[e].request
                         /\ e # d => receipt'[e] = receipt[e]
  BY <1>2, Types DEF Receipts
<1>5. VerdictsCurrent'
  BY <1>4, Types DEF VerdictsCurrent
<1>6. \A e \in Uploads : receipt'[e].storageDeleted =>
        receipt[e].storageDeleted \/ (HasReceipt(e) /\ receipt[e].deleted /\ e \notin objects)
  BY <1>2, <1>4
<1>7. NoTask \in Tasks /\ NoTask.phase \notin {"asked", "applying", "marked", "deleting", "removed"}
  BY Types DEF NoTask, Tasks
<1> QED
  BY <1>2, <1>3, <1>4, <1>5, <1>6, <1>7, TaskMoves DEF HasReceipt

LEMMA OpenHolds == ASSUME PopInv, NEW v \in Staff, NEW d \in Uploads, OpenReceipt(v, d) PROVE PopInv'
<1>1. PICK t : t = [NoTask EXCEPT !.phase = "reading", !.doc = d] /\ task' = [task EXCEPT ![v] = t]
  BY DEF OpenReceipt
<1>2. t \in Tasks /\ t.phase = "reading"
  BY <1>1 DEF Tasks, NoTask, Verdicts
<1> QED
  BY <1>1, <1>2, PlaceHolds DEF OpenReceipt

LEMMA EndHolds == ASSUME PopInv, NEW v \in Staff, ServeReceipt(v) \/ LoseTask(v) PROVE PopInv'
<1>1. task' = [task EXCEPT ![v] = NoTask] /\ UNCHANGED <<reservation, objects, receipt, upload>>
  BY DEF ServeReceipt, LoseTask, EndTask
<1> QED
  BY <1>1, Types, PlaceHolds
-----------------------------------------------------------------------------
LEMMA PopStepHolds == PopInv /\ [PopNext]_popVars => PopInv'
<1> SUFFICES ASSUME PopInv, [PopNext]_popVars PROVE PopInv'
  OBVIOUS
<1>1. ASSUME NEW u \in Uploads,
             \/ \E k \in Keys : ReserveUpload(u, k) \/ FindUpload(u, k)
             \/ PutObject(u) \/ RecordPending(u) \/ RecordFails(u) \/ LookAtReservation(u)
             \/ CleanUp(u) \/ FailReservation(u)
      PROVE  PopInv'
  BY <1>1, ReserveHolds, FindHolds, PutHolds, RecordHolds, RecordFailsHolds, LookHolds, CleanHolds, FailHolds
<1>2. ASSUME NEW v \in Staff,
             \/ \E d \in Uploads : AskScanner(v, d) \/ Retire(v, d) \/ OpenReceipt(v, d)
             \/ \E verdict \in Verdicts : TakeAnswer(v, verdict)
             \/ ApplyResult(v) \/ LookForObject(v) \/ RemoveObject(v) \/ MarkRemoved(v) \/ ServeReceipt(v)
             \/ LoseTask(v)
      PROVE  PopInv'
  BY <1>2, AskHolds, RetireHolds, OpenHolds, AnswerHolds, ApplyHolds, LookForHolds, RemoveHolds, MarkHolds, EndHolds
<1>3. CASE UNCHANGED popVars
  BY <1>3 DEF popVars, PopInv, PopTypeOK, Booked, Placed, Tasked, Kept, VerdictsCurrent, Few, HasReceipt, Reserved
<1> QED
  BY <1>1, <1>2, <1>3, WindowHolds DEF PopNext

\* The inductive invariant of the receipts.
THEOREM PopInvariantHolds == PopSpec => []PopInv
<1> QED
  BY PopInitHolds, PopStepHolds, PTL DEF PopSpec

\* What scanStoredPop, retireStoredPop and stagePopSubmission leave behind, in whatever
\* order their statements fall and wherever they stop: an accepted receipt has its row
\* and, until it is retired, its object, and a verdict answers the last request.
THEOREM ReceiptsAreKept == PopSpec => []ReceiptsKept
<1>1. ASSUME PopInv PROVE ReceiptsKept
  <2>1. \A k \in Keys, d \in Uploads :
           reservation[k] = [state |-> "stored", doc |-> d]
           <=> reservation[k].state = "stored" /\ reservation[k].doc = d
    BY <1>1 DEF PopInv, PopTypeOK
  <2>2. \A d \in Uploads : HasReceipt(d) <=> \E k \in Keys : reservation[k] = [state |-> "stored", doc |-> d]
    <3>1. \A d \in Uploads :
             HasReceipt(d) <=> \E k \in Keys : reservation[k].state = "stored" /\ reservation[k].doc = d
      BY <1>1 DEF PopInv, Booked
    <3> HIDE <1>1
    <3> QED
      BY <2>1, <3>1
  <2>3. \A u \in Uploads : Uploading(u, "accepted") => reservation[OwnKey(u)].state = "stored"
    BY <1>1 DEF PopInv, Placed, Uploading, OwnKey
  <2> QED
    BY <1>1, <2>2, <2>3 DEF PopInv, Few, Kept, ReceiptsBooked, ObjectsKept, ReceiptsKept
<1> QED
  BY <1>1, PopInvariantHolds, PTL
-----------------------------------------------------------------------------
(* Orders and receipts beside one another, as in MCPaymentSettlement.      *)

\* A receipt is no order's business, nor an order a receipt's.
THEOREM OrdersAndReceipts == MCSpec => PaymentsSpec /\ PopSpec
<1>1. MCInit => PaymentsInit /\ PopInit
  BY DEF MCInit
<1>2. [MCNext]_<<focus, vars, popVars>> => [PaymentsNext]_vars /\ [PopNext]_popVars
  BY DEF MCNext
<1> QED
  BY <1>1, <1>2, PTL DEF MCSpec, PaymentsSpec, PopSpec

\* Orders and receipts keep their types.
THEOREM PaymentsAndReceiptsType == MCSpec => []MCTypeOK
<1>1. PaymentsTypeOK /\ PopInv => MCTypeOK
  BY DEF PopInv, MCTypeOK
<1> QED
  BY <1>1, OrdersAndReceipts, PaymentsTypeCorrect, PopInvariantHolds, PTL
=============================================================================
