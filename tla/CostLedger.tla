------------------------------ MODULE CostLedger ------------------------------
(***************************************************************************)
(* The agent cost ledger of one tenant: agent-cost-reservations.js over    *)
(* the tables and triggers of migration 068, driven by the model           *)
(* observation runner (agent-model-observation-runner.js).                 *)
(*                                                                         *)
(* A run reads the budget, reserves an estimate in one batch, looks again  *)
(* at its switches, calls the provider, and settles what the provider says *)
(* was used; whatever it cannot tell stays reserved for an operator.  The  *)
(* triggers move the budget inside the statement that moves the            *)
(* reservation, so a rejected movement aborts the batch: no step here, or  *)
(* Abandon.                                                                *)
(*                                                                         *)
(* closing and tenant are the ledger's view of tenant deletion; module     *)
(* TenantDeletion puts the real thing in their place.                      *)
(***************************************************************************)
EXTENDS Naturals, FiniteSets

CONSTANTS
    Reservations,   \* reservation ids (UUIDs: each is used by one run)
    RunIds,         \* run ids, chosen by the caller, who may repeat one
    Runners,        \* concurrent invocations of the runner
    Amounts,        \* minor currency units of an estimate or a charge
    Budget,         \* budget_minor
    None

LedgerConstants ==
    /\ Amounts \subseteq Nat
    /\ Budget \in Nat
    /\ None \notin Reservations \cup RunIds

ASSUME LedgerAssumption == LedgerConstants

VARIABLES
    open,         \* there is a budget row, enabled and not suspended
    spent,        \* spent_minor
    reserved,     \* reserved_minor
    reservation,  \* agent_cost_reservations
    journal,      \* agent_cost_events: (reservation, event type) pairs
    run,          \* per runner: the run in flight
    called,       \* reservations under which the provider was called, ever
    closing,      \* a deletion request is approved, processing, failed or blocked
    tenant        \* "live", or "purged" with everything that belonged to it

ledgerVars == <<open, spent, reserved, reservation, journal>>
tenantVars == <<closing, tenant>>
costVars   == <<ledgerVars, run, called, tenantVars>>

Reservation == [state : {"none", "reserved", "settled", "released"},
                run : RunIds \cup {None}, estimate : Amounts \cup {0}, actual : Amounts \cup {0}]
NoReservation == [state |-> "none", run |-> None, estimate |-> 0, actual |-> 0]

\* "admitted": read the budget and may reserve.  "reserved": has reserved.
\* "calling": waits for the provider.  "charged": knows the usage to settle.
Runs == [pc : {"idle", "admitted", "reserved", "calling", "charged"},
         reservation : Reservations \cup {None}, run : RunIds \cup {None},
         amount : Amounts \cup {0}]
IdleRun == [pc |-> "idle", reservation |-> None, run |-> None, amount |-> 0]

LedgerTypeOK ==
    /\ open        \in BOOLEAN
    /\ spent       \in Nat
    /\ reserved    \in Nat
    /\ reservation \in [Reservations -> Reservation]
    /\ journal     \subseteq Reservations \X {"reserved", "settled", "released"}
    /\ run         \in [Runners -> Runs]
    /\ called      \subseteq Reservations
    /\ closing     \in BOOLEAN
    /\ tenant      \in {"live", "purged"}

LedgerInit ==
    /\ open        \in BOOLEAN
    /\ spent       = 0
    /\ reserved    = 0
    /\ reservation = [x \in Reservations |-> NoReservation]
    /\ journal     = {}
    /\ run         = [w \in Runners |-> IdleRun]
    /\ called      = {}
    /\ closing     = FALSE
    /\ tenant      = "live"
-----------------------------------------------------------------------------
(* The triggers of migration 068.                                          *)

\* Mutant: admission was decided when the budget was read.
ReserveBudgetUnchecked(e) == TRUE

\* agent_cost_reserve_budget: the same conditions the handler read, in the INSERT.
ReserveBudget(e) == open /\ spent + reserved + e <= Budget

\* agent_cost_settle_budget.
SettleBudget(e, a) ==
    /\ reserved >= e
    /\ spent + (reserved - e) + a <= Budget

\* Mutant: a settled reservation can be settled again.
HeldOrSettled(x) == reservation[x].state \in {"reserved", "settled"}

\* The CAS on status='reserved', agent_cost_no_invalid_transition.
Held(x) == reservation[x].state = "reserved"

\* Mutant: the run id is not part of a reservation's identity.
RunIdUnchecked(n) == TRUE

\* UNIQUE(tenant_id, agent_id, run_id).
RunIdFree(n) == \A x \in Reservations : reservation[x].run # n

\* settleAgentCost.
Settle(x, a) ==
    LET e == reservation[x].estimate IN
    /\ tenant = "live"
    /\ Held(x)
    /\ SettleBudget(e, a)
    /\ reservation' = [reservation EXCEPT ![x].state = "settled", ![x].actual = a]
    /\ reserved' = reserved - e
    /\ spent'    = spent + a
    /\ journal'  = journal \cup {<<x, "settled">>}
    /\ UNCHANGED open

\* Mutant: releasing is taken to be idempotent.
ReleaseAgain(x) ==
    /\ tenant = "live" /\ reservation[x].state # "none"
    /\ reservation' = [reservation EXCEPT ![x].state = "released"]
    /\ reserved' = reserved - reservation[x].estimate
    /\ journal'  = journal \cup {<<x, "released">>}
    /\ UNCHANGED <<open, spent>>

\* releaseAgentCost.
Release(x) ==
    LET e == reservation[x].estimate IN
    /\ tenant = "live"
    /\ Held(x)
    /\ reserved >= e
    /\ reservation' = [reservation EXCEPT ![x].state = "released"]
    /\ reserved' = reserved - e
    /\ journal'  = journal \cup {<<x, "released">>}
    /\ UNCHANGED <<open, spent>>
-----------------------------------------------------------------------------
(* A run.                                                                  *)

Admits(e) == open /\ e <= Budget - (spent + reserved)
Fresh(x) == reservation[x].state = "none" /\ x \notin called
            /\ \A v \in Runners : run[v].reservation # x

\* Preflight, pricing, and the read of the budget in reserveAgentCost.
AcceptRun(w, x, n, e) ==
    /\ run[w] = IdleRun
    /\ tenant = "live"
    /\ Fresh(x)
    /\ Admits(e)
    /\ run' = [run EXCEPT ![w] = [pc |-> "admitted", reservation |-> x, run |-> n, amount |-> e]]
    /\ UNCHANGED <<ledgerVars, called, tenantVars>>

\* The batch of reserveAgentCost.
CommitReserve(w) ==
    LET x == run[w].reservation
        e == run[w].amount IN
    /\ run[w].pc = "admitted"
    /\ tenant = "live" /\ ~closing
    /\ RunIdFree(run[w].run)
    /\ ReserveBudget(e)
    /\ reservation' = [reservation EXCEPT ![x] =
                         [state |-> "reserved", run |-> run[w].run, estimate |-> e, actual |-> 0]]
    /\ reserved' = reserved + e
    /\ journal'  = journal \cup {<<x, "reserved">>}
    /\ run' = [run EXCEPT ![w].pc = "reserved"]
    /\ UNCHANGED <<open, spent, called, tenantVars>>

\* A switch or the model catalog changed while the reservation was written.
ReleaseUnused(w) ==
    /\ run[w].pc = "reserved"
    /\ Release(run[w].reservation)
    /\ run' = [run EXCEPT ![w] = IdleRun]
    /\ UNCHANGED <<called, tenantVars>>

CallProvider(w) ==
    /\ run[w].pc = "reserved"
    /\ run' = [run EXCEPT ![w].pc = "calling"]
    /\ called' = called \cup {run[w].reservation}
    /\ UNCHANGED <<ledgerVars, tenantVars>>

\* The provider answers with its usage, which may be more than was estimated.
ProviderAnswers(w, a) ==
    /\ run[w].pc = "calling"
    /\ run' = [run EXCEPT ![w].pc = "charged", ![w].amount = a]
    /\ UNCHANGED <<ledgerVars, called, tenantVars>>

CommitSettle(w) ==
    /\ run[w].pc = "charged"
    /\ Settle(run[w].reservation, run[w].amount)
    /\ run' = [run EXCEPT ![w] = IdleRun]
    /\ UNCHANGED <<called, tenantVars>>

\* Mutant: giving up after the provider was called gives the money back.
AbandonAndRelease(w) ==
    /\ run[w] # IdleRun
    /\ IF run[w].pc = "calling" /\ Held(run[w].reservation) /\ tenant = "live"
       THEN Release(run[w].reservation) ELSE UNCHANGED ledgerVars
    /\ run' = [run EXCEPT ![w] = IdleRun]
    /\ UNCHANGED <<called, tenantVars>>

\* A timeout, an unusable answer, a rejected batch, a lost reply, a lost
\* isolate: what is reserved stays reserved ("reconciliation_required").
Abandon(w) ==
    /\ run[w] # IdleRun
    /\ run' = [run EXCEPT ![w] = IdleRun]
    /\ UNCHANGED <<ledgerVars, called, tenantVars>>
-----------------------------------------------------------------------------
(* Operators.                                                              *)

BudgetSwitch ==
    /\ tenant = "live"
    /\ open' = ~open
    /\ UNCHANGED <<spent, reserved, reservation, journal, run, called, tenantVars>>

\* Reconciliation, which no code here does yet: an operator uses the same two
\* functions, at any time.  What the provider was called for is settled, and what
\* it was never called for may be released once its run has ended.
Reconcile(x) ==
    /\ \/ x \in called /\ \E a \in Amounts : Settle(x, a)
       \/ x \notin called /\ (\A w \in Runners : run[w].reservation # x) /\ Release(x)
    /\ UNCHANGED <<run, called, tenantVars>>

LedgerStep ==
    \/ \E w \in Runners :
          \/ \E x \in Reservations, n \in RunIds, e \in Amounts : AcceptRun(w, x, n, e)
          \/ CommitReserve(w) \/ ReleaseUnused(w) \/ CallProvider(w)
          \/ \E a \in Amounts : ProviderAnswers(w, a)
          \/ CommitSettle(w) \/ Abandon(w)
    \/ BudgetSwitch
    \/ \E x \in Reservations : Reconcile(x)
-----------------------------------------------------------------------------
(* Tenant deletion, as far as the ledger goes.                             *)

DeletionMoves ==
    /\ tenant = "live"
    /\ closing' = ~closing
    /\ UNCHANGED <<ledgerVars, run, called, tenant>>

\* agent_cost_tenant_purge_guard, agent_cost_purge_authorization_guard.
NothingReserved == \A x \in Reservations : reservation[x].state # "reserved"

\* The tenant's rows go with it; runs in flight do not know.
Cascade ==
    /\ tenant = "live"
    /\ tenant' = "purged"
    /\ reservation' = [x \in Reservations |-> NoReservation]
    /\ journal' = {}
    /\ spent' = 0 /\ reserved' = 0 /\ open' = FALSE

TenantPurged ==
    /\ NothingReserved
    /\ Cascade
    /\ closing' = FALSE
    /\ UNCHANGED <<run, called>>

LedgerNext == LedgerStep \/ DeletionMoves \/ TenantPurged
LedgerSpec == LedgerInit /\ [][LedgerNext]_costVars
-----------------------------------------------------------------------------
(* Properties.                                                             *)

HeldAmount(x)   == IF reservation[x].state = "reserved" THEN reservation[x].estimate ELSE 0
ChargedAmount(x) == IF reservation[x].state = "settled" THEN reservation[x].actual ELSE 0

\* What is held and what is charged, counted out in minor units.
HeldUnits    == UNION {{x} \X (1 .. HeldAmount(x)) : x \in Reservations}
ChargedUnits == UNION {{x} \X (1 .. ChargedAmount(x)) : x \in Reservations}

\* The budget's two running totals, moved by triggers one reservation at a time,
\* are what the reservations add up to, and never more than the budget, however
\* many runs were admitted against the same reading of it.
BooksBalance ==
    /\ reserved = Cardinality(HeldUnits)
    /\ spent = Cardinality(ChargedUnits)
NeverOverBudget == spent + reserved <= Budget

\* agent_cost_ledger_gaps is empty, and no reservation has two endings: every
\* reservation has exactly the events of the states it went through.
JournalIsComplete ==
    \A x \in Reservations :
        {t \in {"reserved", "settled", "released"} : <<x, t>> \in journal} =
            IF reservation[x].state = "none" THEN {} ELSE {"reserved", reservation[x].state}

\* Once the provider was called, the money is held until it is charged: lost
\* replies, timeouts and an operator working on the same reservation never give
\* back what was spent.
CallsAreAccounted ==
    tenant = "live" => \A x \in called : reservation[x].state \in {"reserved", "settled"}

\* The provider is called at most once for a run id, however often and however
\* concurrently the caller repeats the run.
OneCallPerRunId ==
    tenant = "live" => \A x, y \in called : reservation[x].run = reservation[y].run => x = y
=============================================================================
