----------------------------- MODULE CreditWallet -----------------------------
(***************************************************************************)
(* The AI credits of one tenant in one month: consumeAiCredits,            *)
(* consumePartnerPoolIfAvailable, ensureMonthlyAiGrant and                 *)
(* refundFailedAiCredit of worker.js.                                      *)
(*                                                                         *)
(* An AI request checks the monthly cap, takes its credits from the wallet *)
(* with a conditional UPDATE and then writes the ledger row; if the wallet *)
(* is short it takes them from the partner's pool, after claiming them     *)
(* from the tenant's allocation.  Each of these is a statement of its own, *)
(* undone by another statement when the next one fails.                    *)
(*                                                                         *)
(* hold stands for a refund of a credit order in progress; Purchase and    *)
(* Reversal are the credits of an order coming and going.  Module          *)
(* PaymentSettlement puts the orders in their place.                       *)
(***************************************************************************)
EXTENDS Integers, FiniteSets

CONSTANTS
    Calls,      \* concurrent AI requests
    Advisors,   \* those of them that tell a refund who has paid: the business advisor's
    Cost,       \* AI_CREDIT_COSTS of the feature
    Cap,        \* ai_cost_controls.monthly_credit_cap
    Allowance,  \* PLAN_AI_ALLOWANCE of the tenant's plan
    Pool,       \* partner_credit_pools.balance when the month begins
    ClientCap,  \* partner_credit_allocations.monthly_cap
    Credits     \* credits in an order

WalletConstants ==
    /\ IsFiniteSet(Calls) /\ Calls # {} /\ Advisors \subseteq Calls
    /\ Cost \in Nat \ {0}
    /\ {Cap, Allowance, Pool, ClientCap, Credits} \subseteq Nat

ASSUME WalletAssumption == WalletConstants

VARIABLES
    wallet,      \* ai_credit_wallets.balance
    ledger,      \* sum of the rows of ai_credit_ledger that the wallet funds
    used,        \* credits of this month's usage rows, which the cap counts
    granted,     \* the month's row in ai_credit_grants
    pool,        \* partner_credit_pools.balance
    allocated,   \* partner_credit_allocations.used_this_month
    call,        \* per AI request: where it is
    hold,        \* a refund of an AI credit order is processing
    stray,       \* history: requests paid by the pool and refunded to the wallet
    undisturbed  \* history: no lost isolate or reply has parted the books

poolVars   == <<pool, allocated>>
bookVars   == <<wallet, ledger, used, granted, poolVars, stray>>
walletVars == <<bookVars, call, hold, undisturbed>>

\* "cleared": no hold, and the pool is next.  "debited": the wallet has paid, the ledger
\* does not know.  "claimed", "drawn": the allocation, then the pool has paid.
\* "wallet", "pool": who funds the answer.
Places == {"idle", "admitted", "short", "cleared", "debited", "claimed", "drawn", "wallet", "pool"}
At(c, place) == call[c] = place
Go(c, place) == call' = [call EXCEPT ![c] = place]

WalletTypeOK ==
    /\ wallet    \in Nat
    /\ ledger    \in Int
    /\ used      \in Nat
    /\ granted   \in BOOLEAN
    /\ pool      \in Nat
    /\ allocated \in Nat
    /\ call      \in [Calls -> Places]
    /\ hold      \in BOOLEAN
    /\ stray     \in Nat
    /\ undisturbed \in BOOLEAN

WalletInit ==
    /\ wallet    = 0
    /\ ledger    = 0
    /\ used      = 0
    /\ granted   = FALSE
    /\ pool      = Pool
    /\ allocated = 0
    /\ call      = [c \in Calls |-> "idle"]
    /\ hold      = FALSE
    /\ stray     = 0
    /\ undisturbed = TRUE
-----------------------------------------------------------------------------
(* An AI request.                                                          *)

\* Mutant: the month's usage is left to the dashboard.
CheckSpendUnlimited(c) == At(c, "idle") /\ Go(c, "admitted") /\ UNCHANGED <<bookVars, hold, undisturbed>>

\* checkAiSpendGuard; credits on their way to the ledger are not counted yet.
CheckSpend(c) ==
    /\ At(c, "idle")
    /\ used + Cost <= Cap
    /\ Go(c, "admitted")
    /\ UNCHANGED <<bookVars, hold, undisturbed>>

\* A request stops before it has taken anything: the refund hold, the first time
\* or after the wallet has refused, or no credits anywhere.
Refuse(c) ==
    /\ (call[c] \in {"admitted", "short"} /\ hold) \/ At(c, "cleared")
    /\ Go(c, "idle")
    /\ UNCHANGED <<bookVars, hold, undisturbed>>

\* Mutant: the hold was looked at before.
DebitWalletUnheld(c) ==
    /\ At(c, "admitted") /\ wallet >= Cost
    /\ wallet' = wallet - Cost /\ Go(c, "debited")
    /\ UNCHANGED <<ledger, used, granted, poolVars, stray, hold, undisturbed>>

\* The conditional UPDATE of the wallet, with the hold in its WHERE.
DebitWallet(c) ==
    /\ At(c, "admitted")
    /\ ~hold /\ wallet >= Cost
    /\ wallet' = wallet - Cost
    /\ Go(c, "debited")
    /\ UNCHANGED <<ledger, used, granted, poolVars, stray, hold, undisturbed>>

WalletRefuses(c) ==
    /\ At(c, "admitted")
    /\ hold \/ wallet < Cost
    /\ Go(c, "short")
    /\ UNCHANGED <<bookVars, hold, undisturbed>>

LogUsage(c) ==
    /\ At(c, "debited")
    /\ ledger' = ledger - Cost
    /\ used'   = used + Cost
    /\ Go(c, "wallet")
    /\ UNCHANGED <<wallet, granted, poolVars, stray, hold, undisturbed>>

\* Mutant: a request that fails simply ends.
LogFailsQuietly(c) ==
    /\ At(c, "debited") /\ Go(c, "idle")
    /\ UNCHANGED <<bookVars, hold, undisturbed>>

\* The ledger row is refused: the wallet gets its credits back.
LogFails(c) ==
    /\ At(c, "debited")
    /\ wallet' = wallet + Cost
    /\ Go(c, "idle")
    /\ UNCHANGED <<ledger, used, granted, poolVars, stray, hold, undisturbed>>

\* The ledger row is written and its reply lost: the wallet gets them back as well.
LogReplyLost(c) ==
    /\ At(c, "debited")
    /\ ledger' = ledger - Cost
    /\ used'   = used + Cost
    /\ wallet' = wallet + Cost
    /\ undisturbed' = FALSE
    /\ Go(c, "idle")
    /\ UNCHANGED <<granted, poolVars, stray, hold>>
-----------------------------------------------------------------------------
(* The partner's pool.                                                     *)

\* The hold is looked at once more; the pool's statements do not look again.
LookAtHold(c) ==
    /\ At(c, "short") /\ ~hold
    /\ Go(c, "cleared")
    /\ UNCHANGED <<bookVars, hold, undisturbed>>

ClaimAllocation(c) ==
    /\ At(c, "cleared")
    /\ allocated + Cost <= ClientCap
    /\ allocated' = allocated + Cost
    /\ Go(c, "claimed")
    /\ UNCHANGED <<wallet, ledger, used, granted, pool, stray, hold, undisturbed>>

\* MAX(0, used_this_month - cost).
AllocationReturned == IF allocated >= Cost THEN allocated - Cost ELSE 0

DrawPool(c) ==
    /\ At(c, "claimed")
    /\ pool >= Cost
    /\ pool' = pool - Cost
    /\ Go(c, "drawn")
    /\ UNCHANGED <<wallet, ledger, used, granted, allocated, stray, hold, undisturbed>>

\* The pool is short, or its UPDATE failed.
ReturnAllocation(c) ==
    /\ At(c, "claimed")
    /\ allocated' = AllocationReturned
    /\ Go(c, "idle")
    /\ UNCHANGED <<wallet, ledger, used, granted, pool, stray, hold, undisturbed>>

\* The pool was drawn on and the reply lost.
DrawReplyLost(c) ==
    /\ At(c, "claimed")
    /\ pool >= Cost
    /\ pool' = pool - Cost
    /\ allocated' = AllocationReturned
    /\ undisturbed' = FALSE
    /\ Go(c, "idle")
    /\ UNCHANGED <<wallet, ledger, used, granted, stray, hold>>

\* A usage row of the pool counts towards the cap, not towards the wallet.
LogDrawn(c) ==
    /\ At(c, "drawn")
    /\ used' = used + Cost
    /\ Go(c, "pool")
    /\ UNCHANGED <<wallet, ledger, granted, poolVars, stray, hold, undisturbed>>

ReturnDrawn(c) ==
    /\ At(c, "drawn")
    /\ pool' = pool + Cost
    /\ allocated' = AllocationReturned
    /\ Go(c, "idle")
    /\ UNCHANGED <<wallet, ledger, used, granted, stray, hold, undisturbed>>
-----------------------------------------------------------------------------
(* The answer, grants and the world.                                       *)

Answered(c) ==
    /\ call[c] \in {"wallet", "pool"}
    /\ Go(c, "idle")
    /\ UNCHANGED <<bookVars, hold, undisturbed>>

\* refundFailedAiCredit.  The usage row stays, and the cap goes on counting it.  The
\* daily summary does not say who has paid, and the wallet is given the pool's credits.
RefundFailedCredit(c) ==
    /\ \/ /\ At(c, "wallet") \/ (At(c, "pool") /\ c \notin Advisors)
          /\ wallet' = wallet + Cost /\ ledger' = ledger + Cost
          /\ stray' = stray + (IF At(c, "pool") THEN 1 ELSE 0)
          /\ UNCHANGED poolVars
       \/ /\ At(c, "pool") /\ c \in Advisors
          /\ pool' = pool + Cost /\ allocated' = AllocationReturned
          /\ UNCHANGED <<wallet, ledger, stray>>
    /\ Go(c, "idle")
    /\ UNCHANGED <<used, granted, hold, undisturbed>>

\* The isolate is lost: nothing is undone.
LoseCall(c) ==
    /\ ~At(c, "idle")
    /\ undisturbed' = (undisturbed /\ call[c] \notin {"debited", "claimed"})
    /\ Go(c, "idle")
    /\ UNCHANGED <<bookVars, hold>>

\* ensureMonthlyAiGrant: the key makes the second of two batches abort.
MonthlyGrant ==
    /\ ~granted
    /\ granted' = TRUE
    /\ wallet'  = wallet + Allowance
    /\ ledger'  = ledger + Allowance
    /\ UNCHANGED <<used, poolVars, call, stray, hold, undisturbed>>

Purchase ==
    /\ wallet' = wallet + Credits
    /\ ledger' = ledger + Credits
    /\ UNCHANGED <<used, granted, poolVars, stray, call, undisturbed>>

\* Mutant: the balance is compared before the batch only.
ReversalUnconditional ==
    /\ wallet' = wallet - Credits
    /\ ledger' = ledger - Credits
    /\ UNCHANGED <<used, granted, poolVars, stray, call, undisturbed>>

\* The ledger row of a refund is written whether or not the wallet could pay.
Reversal ==
    /\ wallet' = IF wallet >= Credits THEN wallet - Credits ELSE wallet
    /\ ledger' = ledger - Credits
    /\ undisturbed' = (undisturbed /\ wallet >= Credits)
    /\ UNCHANGED <<used, granted, poolVars, stray, call>>

CallStep(c) ==
    \/ CheckSpend(c) \/ Refuse(c) \/ DebitWallet(c) \/ WalletRefuses(c)
    \/ LogUsage(c) \/ LogFails(c) \/ LogReplyLost(c)
    \/ LookAtHold(c) \/ ClaimAllocation(c) \/ DrawPool(c) \/ ReturnAllocation(c) \/ DrawReplyLost(c)
    \/ LogDrawn(c) \/ ReturnDrawn(c)
    \/ Answered(c) \/ RefundFailedCredit(c) \/ LoseCall(c)

HoldMoves == hold' \in BOOLEAN /\ UNCHANGED <<bookVars, call, undisturbed>>

WalletNext ==
    \/ \E c \in Calls : CallStep(c)
    \/ MonthlyGrant \/ HoldMoves
    \/ (Purchase \/ Reversal) /\ hold' \in BOOLEAN

WalletSpec == WalletInit /\ [][WalletNext]_walletVars
-----------------------------------------------------------------------------
(* Properties.                                                             *)

Count(place) == Cardinality({c \in Calls : At(c, place)})

\* Every credit is on record: as long as no isolate and no reply was lost between
\* two statements, wallet and ledger differ by what the requests in between have
\* taken, and so do the pool and the allocation.
BooksAgree ==
    undisturbed => /\ wallet = ledger - Cost * Count("debited")
                   /\ pool + allocated = Pool + Cost * Count("claimed")

\* The monthly cap is read before it is used: concurrent requests may pass it, but
\* by no more than what they take themselves.
OverrunBounded == used <= Cap + Cost * (Cardinality(Calls) - 1)

CreditsAccounted == BooksAgree /\ OverrunBounded
=============================================================================
