--------------------------- MODULE PaymentSettlement ---------------------------
(***************************************************************************)
(* Payment of AI credit orders through DPO, in worker.js: checkout, the    *)
(* settlement of a verified payment and refunds, over the wallet of module *)
(* CreditWallet.                                                           *)
(*                                                                         *)
(* Webhooks, the browser's return, the cron and an operator all run        *)
(* verifyAndSettlePaymentOrder, at any time and at once.  It asks the      *)
(* provider, reads the order, claims the settlement (a failed claim may be *)
(* retried, a claim of ten minutes taken over) and fulfils the order in    *)
(* one batch.  Time is left out: a claim and a checkout session may have   *)
(* expired at any moment, and nothing below relies on their having not.    *)
(***************************************************************************)
EXTENDS Integers, FiniteSets

CONSTANTS
    Orders,       \* AI credit orders of the tenant
    Workers,      \* concurrent handlers of checkout, settlement and refund
    Calls, Advisors, Cost, Cap, Allowance, Pool, ClientCap, Credits,  \* see CreditWallet
    None

ASSUME PaymentAssumption ==
    /\ IsFiniteSet(Orders)
    /\ None \notin Orders \cup Workers
    /\ IsFiniteSet(Calls) /\ Calls # {} /\ Advisors \subseteq Calls
    /\ Cost \in Nat \ {0}
    /\ {Cap, Allowance, Pool, ClientCap, Credits} \subseteq Nat

VARIABLES
    order,       \* payment_orders.status
    session,     \* payment_provider_sessions: the orders with a token
    received,    \* the provider's side of the session's token
    settlement,  \* payment_settlement_claims
    fulfilment,  \* payment_fulfillments
    refund,      \* the processing or succeeded row in payment_refund_requests
    job,         \* per worker: the handler in flight
    wallet, ledger, used, granted, pool, allocated, call, stray, undisturbed  \* see CreditWallet

orderVars == <<order, session, received>>
claimVars == <<settlement, fulfilment>>
bookVars  == <<wallet, ledger, used, granted, pool, allocated, stray>>
callVars  == <<bookVars, call, undisturbed>>
vars == <<orderVars, claimVars, refund, job, callVars>>

\* What CreditWallet calls hold.
Hold == \E o \in Orders : refund[o] = "processing"

Wallet == INSTANCE CreditWallet WITH hold <- Hold

OrderStates == {"none", "pending", "processing", "paid", "refunded"}
\* token: whose claim it is.
Settlements == [status : {"none", "processing", "failed", "applied"}, token : Workers \cup {None}]
NoSettlement == [status |-> "none", token |-> None]

Phases == {"idle", "created", "stored",
           "verified", "claim", "claimed", "batch", "finish", "close", "restore", "failing",
           "refund", "locked", "provider", "reverse"}
\* paid: the settlement read the order as paid.  crossed: history, another refund has
\* taken its credits since this one looked at the wallet.
Jobs == [phase : Phases, order : Orders \cup {None}, paid : BOOLEAN, crossed : BOOLEAN]
IdleJob == [phase |-> "idle", order |-> None, paid |-> FALSE, crossed |-> FALSE]

PaymentsTypeOK ==
    /\ order      \in [Orders -> OrderStates]
    /\ session    \subseteq Orders
    /\ received   \in [Orders -> {"no", "paid", "returned"}]
    /\ settlement \in [Orders -> Settlements]
    /\ fulfilment \in [Orders -> {"none", "applied", "reversed"}]
    /\ refund     \in [Orders -> {"none", "processing", "succeeded"}]
    /\ job        \in [Workers -> Jobs]
    /\ Wallet!WalletTypeOK

PaymentsInit ==
    /\ order      = [o \in Orders |-> "none"]
    /\ session    = {}
    /\ received   = [o \in Orders |-> "no"]
    /\ settlement = [o \in Orders |-> NoSettlement]
    /\ fulfilment = [o \in Orders |-> "none"]
    /\ refund     = [o \in Orders |-> "none"]
    /\ job        = [w \in Workers |-> IdleJob]
    /\ Wallet!WalletInit

In(w, phase) == job[w].phase = phase
Move(w, phase) == job' = [job EXCEPT ![w].phase = phase]
End(w) == job' = [job EXCEPT ![w] = IdleJob]
Start(w, phase, o) == job' = [job EXCEPT ![w] = [IdleJob EXCEPT !.phase = phase, !.order = o]]
-----------------------------------------------------------------------------
(* Orders, checkout and the customer.                                      *)

\* createPaymentOrder.
CreateOrder(o) ==
    /\ order[o] = "none"
    /\ order' = [order EXCEPT ![o] = "pending"]
    /\ UNCHANGED <<session, received, claimVars, refund, job, callVars>>

\* create-checkout reads the order and asks for a token, unless the last one is still
\* good; a reference that was paid is refused (CompanyRefUnique).
CreateToken(w, o) ==
    /\ In(w, "idle")
    /\ order[o] \in {"pending", "processing"} /\ received[o] = "no"
    /\ Start(w, "created", o)
    /\ UNCHANGED <<orderVars, claimVars, refund, callVars>>

\* The new token replaces the old one, and what was paid under that is out of sight.
StoreSession(w) ==
    LET o == job[w].order IN
    /\ In(w, "created")
    /\ session'  = session \cup {o}
    /\ received' = [received EXCEPT ![o] = "no"]
    /\ Move(w, "stored")
    /\ UNCHANGED <<order, claimVars, refund, callVars>>

\* The UPDATE of the order asks for nothing: the status was read before the provider
\* was called.
MarkProcessing(w) ==
    /\ In(w, "stored")
    /\ order' = [order EXCEPT ![job[w].order] = "processing"]
    /\ End(w)
    /\ UNCHANGED <<session, received, claimVars, refund, callVars>>

CustomerPays(o) ==
    /\ o \in session /\ received[o] = "no"
    /\ received' = [received EXCEPT ![o] = "paid"]
    /\ UNCHANGED <<order, session, claimVars, refund, job, callVars>>
-----------------------------------------------------------------------------
(* Settlement.                                                             *)

\* A webhook, the browser's return, the cron or verify-and-settle finds the token paid;
\* any other answer of the provider changes nothing.
VerifyPayment(w, o) ==
    /\ In(w, "idle")
    /\ o \in session /\ received[o] = "paid"
    /\ Start(w, "verified", o)
    /\ UNCHANGED <<orderVars, claimVars, refund, callVars>>

\* A refunded order is not settled.
ReadOrder(w) ==
    LET o == job[w].order IN
    /\ In(w, "verified") /\ order[o] # "refunded"
    /\ job' = [job EXCEPT ![w].paid = (order[o] = "paid"), ![w].phase = "claim"]
    /\ UNCHANGED <<orderVars, claimVars, refund, callVars>>

\* The insertion, the retry of a failed claim, the takeover of one of ten minutes.
Claimable(o) == settlement[o].status # "applied"

\* claimPaymentSettlement.
ClaimSettlement(w) ==
    LET o == job[w].order IN
    /\ In(w, "claim") /\ Claimable(o)
    /\ settlement' = [settlement EXCEPT ![o] = [status |-> "processing", token |-> w]]
    /\ Move(w, "claimed")
    /\ UNCHANGED <<orderVars, fulfilment, refund, callVars>>

\* Mutant: the claim alone decides who fulfils.
NotFulfilledByClaim(o) == TRUE

\* The primary key of payment_fulfillments.
NotFulfilled(o) == fulfilment[o] = "none"

\* The read of the fulfilment.
LookForFulfilment(w) ==
    /\ In(w, "claimed")
    /\ Move(w, IF fulfilment[job[w].order] = "none" THEN "batch" ELSE "close")
    /\ UNCHANGED <<orderVars, claimVars, refund, callVars>>

\* Mutant: the ledger row is left to the dashboard.
FulfilSilently(w) ==
    LET o == job[w].order IN
    /\ In(w, "batch") /\ NotFulfilled(o)
    /\ order' = [order EXCEPT ![o] = "paid"]
    /\ fulfilment' = [fulfilment EXCEPT ![o] = "applied"]
    /\ wallet' = wallet + Credits
    /\ Move(w, "finish")
    /\ UNCHANGED <<session, received, settlement, refund, ledger, used, granted, pool, allocated, stray, call, undisturbed>>

\* The batch: order, fulfilment, wallet and ledger.  Its reply may be lost.
Fulfil(w) ==
    LET o == job[w].order IN
    /\ In(w, "batch") /\ NotFulfilled(o)
    /\ order' = [order EXCEPT ![o] = IF @ = "refunded" THEN @ ELSE "paid"]
    /\ fulfilment' = [fulfilment EXCEPT ![o] = "applied"]
    /\ Wallet!Purchase
    /\ \E phase \in {"finish", "failing"} : Move(w, phase)
    /\ UNCHANGED <<session, received, settlement, refund>>

\* Mutant: the order is marked paid by a statement of its own.
FulfilAbortsHalfway(w) ==
    /\ In(w, "batch")
    /\ order' = [order EXCEPT ![job[w].order] = "paid"]
    /\ Move(w, "failing")
    /\ UNCHANGED <<session, received, claimVars, refund, callVars>>

\* The batch aborts: somebody else has fulfilled the order, or the database failed.
FulfilAborts(w) ==
    /\ In(w, "batch")
    /\ Move(w, "failing")
    /\ UNCHANGED <<orderVars, claimVars, refund, callVars>>

\* finishPaymentSettlementClaim finds the claim by its token.
Finish(w, status) ==
    LET o == job[w].order IN
    settlement' = IF settlement[o].token = w THEN [settlement EXCEPT ![o].status = status] ELSE settlement

\* The claim is closed, after the batch or because the order was fulfilled before; an
\* error in what follows reopens it.
FinishApplied(w) ==
    /\ job[w].phase \in {"finish", "close"}
    /\ Finish(w, "applied")
    /\ \/ Move(w, "failing")
       \/ In(w, "close") /\ Move(w, "restore")
       \/ In(w, "finish") /\ End(w)
    /\ UNCHANGED <<orderVars, fulfilment, refund, callVars>>

\* An order that was fulfilled before is marked paid.
RestoreOrder(w) ==
    LET o == job[w].order IN
    /\ In(w, "restore")
    /\ order' = IF job[w].paid THEN order ELSE [order EXCEPT ![o] = IF @ = "refunded" THEN @ ELSE "paid"]
    /\ End(w)
    /\ UNCHANGED <<session, received, claimVars, refund, callVars>>

\* The catch.
FinishFailed(w) ==
    /\ In(w, "failing")
    /\ Finish(w, "failed")
    /\ End(w)
    /\ UNCHANGED <<orderVars, fulfilment, refund, callVars>>
-----------------------------------------------------------------------------
(* Refunds.                                                                *)

WalletCovers == wallet >= Credits

\* The order is read, and the first preflight passes.
AcceptRefund(w, o) ==
    /\ In(w, "idle") /\ order[o] = "paid" /\ WalletCovers
    /\ Start(w, "refund", o)
    /\ UNCHANGED <<orderVars, claimVars, refund, callVars>>

\* payment_refund_active_unique.
Refundable(o) == refund[o] = "none"

InsertRefund(w) ==
    LET o == job[w].order IN
    /\ In(w, "refund") /\ Refundable(o)
    /\ refund' = [refund EXCEPT ![o] = "processing"]
    /\ Move(w, "locked")
    /\ UNCHANGED <<orderVars, claimVars, callVars>>

\* The wallet is read again, under the request; the order is not.
LockedPreflight(w) ==
    /\ In(w, "locked") /\ WalletCovers
    /\ Move(w, "provider")
    /\ UNCHANGED <<orderVars, claimVars, refund, callVars>>

\* manual_review after the second preflight, failed after the provider.
RefundEnds(w) ==
    LET o == job[w].order IN
    /\ \/ In(w, "locked") /\ ~WalletCovers
       \/ In(w, "provider")
    /\ refund' = [refund EXCEPT ![o] = "none"]
    /\ End(w)
    /\ UNCHANGED <<orderVars, claimVars, callVars>>

\* The provider returns the money; an error on its way back is a failure.
ProviderRefunds(w) ==
    LET o == job[w].order IN
    /\ In(w, "provider") /\ received[o] = "paid"
    /\ received' = [received EXCEPT ![o] = "returned"]
    /\ \/ Move(w, "reverse") /\ UNCHANGED refund
       \/ End(w) /\ refund' = [refund EXCEPT ![o] = "none"]
    /\ UNCHANGED <<order, session, claimVars, callVars>>

\* applySuccessfulRefund: the WHEREs of the batch may match nothing.
ReverseOrder(w) ==
    LET o == job[w].order IN
    /\ In(w, "reverse")
    /\ order' = [order EXCEPT ![o] = IF @ = "paid" THEN "refunded" ELSE @]
    /\ fulfilment' = [fulfilment EXCEPT ![o] = IF @ = "none" THEN @ ELSE "reversed"]
    /\ refund' = [refund EXCEPT ![o] = "succeeded"]
    /\ Wallet!Reversal
    /\ job' = [v \in Workers |->
                 IF v = w THEN IdleJob
                 ELSE [job[v] EXCEPT !.crossed = (@ \/ job[v].phase \in {"provider", "reverse"})]]
    /\ UNCHANGED <<session, received, settlement>>
-----------------------------------------------------------------------------
\* An isolate is lost, or its handler has nothing more to write: a settlement that is
\* applied or in progress, a refund that is refused.
LoseWorker(w) ==
    /\ ~In(w, "idle")
    /\ End(w)
    /\ UNCHANGED <<orderVars, claimVars, refund, callVars>>

WalletMoves ==
    /\ UNCHANGED <<orderVars, claimVars, refund, job>>
    /\ Wallet!MonthlyGrant \/ \E c \in Calls : Wallet!CallStep(c)

SettleStep(w) ==
    \/ ReadOrder(w) \/ ClaimSettlement(w) \/ LookForFulfilment(w)
    \/ Fulfil(w) \/ FulfilAborts(w) \/ FinishApplied(w) \/ RestoreOrder(w) \/ FinishFailed(w)

CheckoutStep(w) == StoreSession(w) \/ MarkProcessing(w)

RefundStep(w) ==
    InsertRefund(w) \/ LockedPreflight(w) \/ RefundEnds(w) \/ ProviderRefunds(w) \/ ReverseOrder(w)

PaymentsNext ==
    \/ \E o \in Orders : CreateOrder(o) \/ CustomerPays(o)
    \/ \E w \in Workers, o \in Orders : CreateToken(w, o) \/ VerifyPayment(w, o) \/ AcceptRefund(w, o)
    \/ \E w \in Workers : SettleStep(w) \/ CheckoutStep(w) \/ RefundStep(w) \/ LoseWorker(w)
    \/ WalletMoves

PaymentsSpec == PaymentsInit /\ [][PaymentsNext]_vars
-----------------------------------------------------------------------------
(* Properties.                                                             *)

\* Credits are backed by money: what the ledger shows never exceeds the month's grant
\* and one purchase for every order that is fulfilled and not reversed, however often
\* an order is settled at once, retried and taken over, and but for the credits of the
\* pool that a failed summary was given.
CreditsBacked ==
    ledger <= (IF granted THEN Allowance ELSE 0)
                + Credits * Cardinality({o \in Orders : fulfilment[o] = "applied"})
                + Cost * stray

\* Orders, claims, fulfilments and refunds agree: an order that is paid or whose
\* settlement is applied was fulfilled, and a refunded one was reversed under a refund
\* that succeeded.
PaidIsFulfilled ==
    \A o \in Orders :
        /\ order[o] = "paid" \/ settlement[o].status = "applied" => fulfilment[o] # "none"
        /\ order[o] = "refunded" => fulfilment[o] = "reversed" /\ refund[o] = "succeeded"

\* A refund that the provider is asked for can be taken from the wallet, although
\* AI requests run beside it, unless another refund was taken since it looked.
RefundCovered ==
    \A w \in Workers : job[w].phase \in {"provider", "reverse"} /\ ~job[w].crossed => WalletCovers

\* The wallet keeps its rules beside orders, settlements and refunds.
ImplementsWallet == Wallet!WalletSpec
=============================================================================
