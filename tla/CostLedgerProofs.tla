--------------------------- MODULE CostLedgerProofs ---------------------------
(***************************************************************************)
(* Theorems about CostLedger for every value of its constants: what each   *)
(* property that the runs check says, of one reservation at a time and of  *)
(* all of them together.                                                   *)
(*                                                                         *)
(* The invariant adds two things to the properties: where each run stands  *)
(* with the reservation it works on, and that no two reservations carry    *)
(* one run id.                                                             *)
(***************************************************************************)
EXTENDS CostLedger, FiniteSetTheorems, TLAPS

USE DEF ledgerVars, tenantVars, costVars, LedgerConstants

Active(w) == run[w].pc # "idle"

\* A run works on a reservation of its own, and knows what state it is in: nobody
\* else releases it before the provider was called.
RunsKnowTheirReservation ==
    \A w \in Runners :
        /\ ~Active(w) => run[w] = IdleRun
        /\ Active(w) => /\ run[w].reservation \in Reservations
                        /\ run[w].run \in RunIds
                        /\ run[w].amount \in Amounts
                        /\ \A v \in Runners \ {w} : run[v].reservation # run[w].reservation
        /\ run[w].pc \in {"admitted", "reserved"} => run[w].reservation \notin called
        /\ tenant = "live" =>
             /\ run[w].pc = "admitted" => reservation[run[w].reservation].state = "none"
             /\ run[w].pc = "reserved" => reservation[run[w].reservation].state = "reserved"

OneReservationPerRunId ==
    /\ \A x \in Reservations : reservation[x].state = "none" <=> reservation[x].run = None
    /\ \A x, y \in Reservations :
          reservation[x].run = reservation[y].run /\ reservation[x].run # None => x = y

LedgerInvariant ==
    /\ LedgerTypeOK
    /\ NeverOverBudget
    /\ JournalIsComplete
    /\ RunsKnowTheirReservation
    /\ OneReservationPerRunId
    /\ CallsAreAccounted
-----------------------------------------------------------------------------
\* Before the first reservation.
LEMMA LedgerInitInvariant ==
  ASSUME LedgerInit
  PROVE  LedgerInvariant
<1> USE DEF LedgerInit
<1>1. LedgerTypeOK
  BY LedgerAssumption DEF LedgerTypeOK, IdleRun, NoReservation, Runs, Reservation
<1>2. NeverOverBudget
  BY LedgerAssumption DEF NeverOverBudget
<1>3. JournalIsComplete
  BY DEF JournalIsComplete, NoReservation
<1>4. RunsKnowTheirReservation
  BY DEF RunsKnowTheirReservation, Active, IdleRun
<1>5. OneReservationPerRunId
  BY DEF OneReservationPerRunId, NoReservation
<1>6. CallsAreAccounted
  BY DEF CallsAreAccounted
<1> QED
  BY <1>1, <1>2, <1>3, <1>4, <1>5, <1>6 DEF LedgerInvariant

\* An amount, or the zero of a row without one, is a number.
LEMMA AmountsAreNumbers == \A a \in Amounts \cup {0} : a \in Nat
  BY LedgerAssumption

\* Settling keeps the books, and leaves every other reservation alone.
LEMMA SettleKeepsBooks ==
  ASSUME LedgerInvariant, NEW x \in Reservations, NEW a \in Amounts, Settle(x, a)
  PROVE  /\ open' \in BOOLEAN /\ spent' \in Nat /\ reserved' \in Nat
         /\ reservation' \in [Reservations -> Reservation]
         /\ journal' \subseteq Reservations \X {"reserved", "settled", "released"}
         /\ NeverOverBudget' /\ JournalIsComplete' /\ OneReservationPerRunId'
         /\ reservation[x].state = "reserved" /\ reservation'[x].state = "settled"
         /\ \A y \in Reservations \ {x} : reservation'[y] = reservation[y]
<1> USE DEF LedgerInvariant, LedgerTypeOK
<1>1. reservation[x] \in Reservation /\ reservation[x].estimate \in Nat /\ a \in Nat
  <2>1. reservation[x] \in Reservation
    OBVIOUS
  <2>2. reservation[x].estimate \in Amounts \cup {0}
    BY <2>1 DEF Reservation
  <2> QED
    BY <2>1, <2>2, AmountsAreNumbers
<1>2. /\ reservation[x].state = "reserved"
      /\ reservation' = [reservation EXCEPT ![x].state = "settled", ![x].actual = a]
      /\ journal' = journal \cup {<<x, "settled">>}
  BY DEF Settle, Held
<1>3. spent' \in Nat /\ reserved' \in Nat /\ open' \in BOOLEAN /\ NeverOverBudget'
  BY <1>1, LedgerAssumption DEF Settle, SettleBudget, NeverOverBudget
<1>4. reservation' \in [Reservations -> Reservation]
  BY <1>1, <1>2 DEF Reservation
<1>5. /\ \A y \in Reservations \ {x} : reservation'[y] = reservation[y]
      /\ reservation'[x].state = "settled" /\ reservation'[x].run = reservation[x].run
  BY <1>1, <1>2 DEF Reservation
<1>6. JournalIsComplete'
  <2> SUFFICES ASSUME NEW y \in Reservations
               PROVE  {t \in {"reserved", "settled", "released"} : <<y, t>> \in journal'} =
                        IF reservation'[y].state = "none" THEN {} ELSE {"reserved", reservation'[y].state}
    BY DEF JournalIsComplete
  <2>1. CASE y = x
    BY <1>2, <1>5, <2>1 DEF JournalIsComplete
  <2>2. CASE y # x
    BY <1>2, <1>5, <2>2 DEF JournalIsComplete
  <2> QED BY <2>1, <2>2
<1>7. \A y \in Reservations : /\ reservation'[y].run = reservation[y].run
                              /\ reservation'[y].state = "none" <=> reservation[y].state = "none"
  BY <1>2, <1>5
<1>8. OneReservationPerRunId'
  BY <1>7 DEF OneReservationPerRunId
<1>9. journal' \subseteq Reservations \X {"reserved", "settled", "released"}
  BY <1>2
<1> QED
  BY <1>2, <1>3, <1>4, <1>5, <1>6, <1>8, <1>9

\* Releasing, likewise.
LEMMA ReleaseKeepsBooks ==
  ASSUME LedgerInvariant, NEW x \in Reservations, Release(x)
  PROVE  /\ open' \in BOOLEAN /\ spent' \in Nat /\ reserved' \in Nat
         /\ reservation' \in [Reservations -> Reservation]
         /\ journal' \subseteq Reservations \X {"reserved", "settled", "released"}
         /\ NeverOverBudget' /\ JournalIsComplete' /\ OneReservationPerRunId'
         /\ \A y \in Reservations \ {x} : reservation'[y] = reservation[y]
<1> USE DEF LedgerInvariant, LedgerTypeOK
<1>1. reservation[x] \in Reservation /\ reservation[x].estimate \in Nat
  <2>1. reservation[x] \in Reservation
    OBVIOUS
  <2>2. reservation[x].estimate \in Amounts \cup {0}
    BY <2>1 DEF Reservation
  <2> QED
    BY <2>1, <2>2, AmountsAreNumbers
<1>2. /\ reservation[x].state = "reserved"
      /\ reservation' = [reservation EXCEPT ![x].state = "released"]
      /\ journal' = journal \cup {<<x, "released">>}
  BY DEF Release, Held
<1>3. spent' \in Nat /\ reserved' \in Nat /\ open' \in BOOLEAN /\ NeverOverBudget'
  BY <1>1, LedgerAssumption DEF Release, NeverOverBudget
<1>4. reservation' \in [Reservations -> Reservation]
  BY <1>1, <1>2 DEF Reservation
<1>5. /\ \A y \in Reservations \ {x} : reservation'[y] = reservation[y]
      /\ reservation'[x].state = "released" /\ reservation'[x].run = reservation[x].run
  BY <1>1, <1>2 DEF Reservation
<1>6. JournalIsComplete'
  <2> SUFFICES ASSUME NEW y \in Reservations
               PROVE  {t \in {"reserved", "settled", "released"} : <<y, t>> \in journal'} =
                        IF reservation'[y].state = "none" THEN {} ELSE {"reserved", reservation'[y].state}
    BY DEF JournalIsComplete
  <2>1. CASE y = x
    BY <1>2, <1>5, <2>1 DEF JournalIsComplete
  <2>2. CASE y # x
    BY <1>2, <1>5, <2>2 DEF JournalIsComplete
  <2> QED BY <2>1, <2>2
<1>7. \A y \in Reservations : /\ reservation'[y].run = reservation[y].run
                              /\ reservation'[y].state = "none" <=> reservation[y].state = "none"
  BY <1>2, <1>5
<1>8. OneReservationPerRunId'
  BY <1>7 DEF OneReservationPerRunId
<1>9. journal' \subseteq Reservations \X {"reserved", "settled", "released"}
  BY <1>2
<1> QED
  BY <1>2, <1>3, <1>4, <1>5, <1>6, <1>8, <1>9

\* A step of one run keeps every other run's claim on its own reservation.
LEMMA AcceptRunInvariant ==
  ASSUME LedgerInvariant, NEW w \in Runners, NEW x \in Reservations, NEW n \in RunIds,
         NEW e \in Amounts, AcceptRun(w, x, n, e)
  PROVE  LedgerInvariant'
<1> USE DEF LedgerInvariant, AcceptRun
<1>1. LedgerTypeOK'
  BY LedgerAssumption DEF LedgerTypeOK, Runs
<1>2. (NeverOverBudget /\ JournalIsComplete /\ OneReservationPerRunId /\ CallsAreAccounted)'
  BY DEF NeverOverBudget, JournalIsComplete, OneReservationPerRunId, CallsAreAccounted
<1>3. RunsKnowTheirReservation'
  BY DEF RunsKnowTheirReservation, Active, Fresh, LedgerTypeOK, Runs
<1> QED
  BY <1>1, <1>2, <1>3

\* The reservation's trigger keeps the total below the budget, and its run id is new.
LEMMA CommitReserveInvariant ==
  ASSUME LedgerInvariant, NEW w \in Runners, CommitReserve(w)
  PROVE  LedgerInvariant'
<1> DEFINE x == run[w].reservation
<1> DEFINE e == run[w].amount
<1> USE DEF LedgerInvariant
<1>1. /\ x \in Reservations /\ run[w].run \in RunIds /\ e \in Amounts /\ e \in Nat
      /\ x \notin called /\ reservation[x].state = "none" /\ tenant = "live"
      /\ \A v \in Runners \ {w} : run[v].reservation # x
  BY LedgerAssumption DEF CommitReserve, RunsKnowTheirReservation, Active
<1>2. /\ reservation' = [reservation EXCEPT ![x] =
                           [state |-> "reserved", run |-> run[w].run, estimate |-> e, actual |-> 0]]
      /\ reserved' = reserved + e
      /\ journal' = journal \cup {<<x, "reserved">>}
      /\ run' = [run EXCEPT ![w].pc = "reserved"]
      /\ UNCHANGED <<open, spent, called, tenantVars>>
      /\ spent + reserved + e <= Budget
  BY DEF CommitReserve, ReserveBudget
<1>3. LedgerTypeOK'
  BY <1>1, <1>2 DEF LedgerTypeOK, Reservation, Runs
<1>4. NeverOverBudget'
  BY <1>1, <1>2, LedgerAssumption DEF NeverOverBudget, LedgerTypeOK
<1>5. JournalIsComplete'
  <2> SUFFICES ASSUME NEW y \in Reservations
               PROVE  {t \in {"reserved", "settled", "released"} : <<y, t>> \in journal'} =
                        IF reservation'[y].state = "none" THEN {} ELSE {"reserved", reservation'[y].state}
    BY DEF JournalIsComplete
  <2>1. CASE y = x
    BY <1>1, <1>2, <2>1 DEF JournalIsComplete, LedgerTypeOK
  <2>2. CASE y # x
    BY <1>1, <1>2, <2>2 DEF JournalIsComplete, LedgerTypeOK
  <2> QED BY <2>1, <2>2
<1>6. OneReservationPerRunId'
  BY <1>1, <1>2, LedgerAssumption
  DEF OneReservationPerRunId, CommitReserve, RunIdFree, LedgerTypeOK
<1>7. RunsKnowTheirReservation'
  BY <1>1, <1>2 DEF RunsKnowTheirReservation, Active, LedgerTypeOK, Runs, IdleRun
<1>8. CallsAreAccounted'
  BY <1>1, <1>2 DEF CallsAreAccounted, LedgerTypeOK
<1> QED
  BY <1>3, <1>4, <1>5, <1>6, <1>7, <1>8

\* Only a run that has not called the provider releases.
LEMMA ReleaseUnusedInvariant ==
  ASSUME LedgerInvariant, NEW w \in Runners, ReleaseUnused(w)
  PROVE  LedgerInvariant'
<1> DEFINE x == run[w].reservation
<1>1. /\ x \in Reservations /\ Release(x) /\ x \notin called
      /\ \A v \in Runners \ {w} : run[v].reservation # x
  BY DEF ReleaseUnused, LedgerInvariant, RunsKnowTheirReservation, Active
<1>2. run' = [run EXCEPT ![w] = IdleRun] /\ UNCHANGED <<called, tenantVars>>
  BY DEF ReleaseUnused
<1> HIDE DEF x
<1>3. LedgerTypeOK' /\ NeverOverBudget' /\ JournalIsComplete' /\ OneReservationPerRunId'
  BY <1>1, <1>2, ReleaseKeepsBooks DEF LedgerInvariant, LedgerTypeOK, Runs, IdleRun
<1>4. \A y \in Reservations \ {x} : reservation'[y] = reservation[y]
  BY <1>1, ReleaseKeepsBooks
<1>5. RunsKnowTheirReservation'
  BY <1>1, <1>2, <1>4, LedgerAssumption
  DEF LedgerInvariant, RunsKnowTheirReservation, Active, LedgerTypeOK, Runs, IdleRun
<1>6. CallsAreAccounted'
  BY <1>1, <1>2, <1>4 DEF CallsAreAccounted, LedgerInvariant, LedgerTypeOK
<1> QED
  BY <1>3, <1>5, <1>6 DEF LedgerInvariant

\* The provider is called: from here on only a settlement ends the reservation.
LEMMA CallProviderInvariant ==
  ASSUME LedgerInvariant, NEW w \in Runners, CallProvider(w)
  PROVE  LedgerInvariant'
<1> USE DEF LedgerInvariant, CallProvider
<1>1. LedgerTypeOK'
  BY DEF LedgerTypeOK, Runs, RunsKnowTheirReservation, Active
<1>2. (NeverOverBudget /\ JournalIsComplete /\ OneReservationPerRunId)'
  BY DEF NeverOverBudget, JournalIsComplete, OneReservationPerRunId
<1>3. RunsKnowTheirReservation'
  BY DEF RunsKnowTheirReservation, Active, LedgerTypeOK, Runs, IdleRun
<1>4. CallsAreAccounted'
  BY DEF CallsAreAccounted, RunsKnowTheirReservation
<1> QED
  BY <1>1, <1>2, <1>3, <1>4

\* The answer changes nothing but the run that got it.
LEMMA ProviderAnswersInvariant ==
  ASSUME LedgerInvariant, NEW w \in Runners, NEW a \in Amounts, ProviderAnswers(w, a)
  PROVE  LedgerInvariant'
<1> USE DEF LedgerInvariant, ProviderAnswers
<1>1. LedgerTypeOK'
  <2>1. [run[w] EXCEPT !.pc = "charged", !.amount = a] \in Runs
    BY DEF LedgerTypeOK, Runs
  <2>2. run' = [run EXCEPT ![w] = [run[w] EXCEPT !.pc = "charged", !.amount = a]] /\ run \in [Runners -> Runs]
    BY DEF LedgerTypeOK
  <2>3. run' \in [Runners -> Runs]
    BY <2>1, <2>2
  <2> QED
    BY <2>3 DEF LedgerTypeOK
<1>2. (NeverOverBudget /\ JournalIsComplete /\ OneReservationPerRunId /\ CallsAreAccounted)'
  BY DEF NeverOverBudget, JournalIsComplete, OneReservationPerRunId, CallsAreAccounted
<1>3. RunsKnowTheirReservation'
  BY DEF RunsKnowTheirReservation, Active, LedgerTypeOK, Runs, IdleRun
<1> QED
  BY <1>1, <1>2, <1>3

\* A settlement ends its own reservation, and no call is left unaccounted for.
LEMMA CommitSettleInvariant ==
  ASSUME LedgerInvariant, NEW w \in Runners, CommitSettle(w)
  PROVE  LedgerInvariant'
<1> DEFINE x == run[w].reservation
<1> DEFINE a == run[w].amount
<1>1. /\ x \in Reservations /\ a \in Amounts /\ Settle(x, a)
      /\ \A v \in Runners \ {w} : run[v].reservation # x
  BY DEF CommitSettle, LedgerInvariant, RunsKnowTheirReservation, Active
<1>2. run' = [run EXCEPT ![w] = IdleRun] /\ UNCHANGED <<called, tenantVars>>
  BY DEF CommitSettle
<1> HIDE DEF x, a
<1>3. LedgerTypeOK' /\ NeverOverBudget' /\ JournalIsComplete' /\ OneReservationPerRunId'
  BY <1>1, <1>2, SettleKeepsBooks DEF LedgerInvariant, LedgerTypeOK, Runs, IdleRun
<1>4. reservation'[x].state = "settled" /\ \A y \in Reservations \ {x} : reservation'[y] = reservation[y]
  BY <1>1, SettleKeepsBooks
<1>5. RunsKnowTheirReservation'
  BY <1>1, <1>2, <1>4, LedgerAssumption
  DEF LedgerInvariant, RunsKnowTheirReservation, Active, LedgerTypeOK, Runs, IdleRun
<1>6. CallsAreAccounted'
  BY <1>1, <1>2, <1>4 DEF CallsAreAccounted, LedgerInvariant, LedgerTypeOK
<1> QED
  BY <1>3, <1>5, <1>6 DEF LedgerInvariant

\* A run that gives up leaves its reservation as it is.
LEMMA AbandonInvariant ==
  ASSUME LedgerInvariant, NEW w \in Runners, Abandon(w)
  PROVE  LedgerInvariant'
<1> USE DEF LedgerInvariant, Abandon
<1>1. LedgerTypeOK'
  BY DEF LedgerTypeOK, Runs, IdleRun
<1>2. (NeverOverBudget /\ JournalIsComplete /\ OneReservationPerRunId /\ CallsAreAccounted)'
  BY DEF NeverOverBudget, JournalIsComplete, OneReservationPerRunId, CallsAreAccounted
<1>3. RunsKnowTheirReservation'
  BY LedgerAssumption DEF RunsKnowTheirReservation, Active, LedgerTypeOK, Runs, IdleRun
<1> QED
  BY <1>1, <1>2, <1>3
-----------------------------------------------------------------------------
(* Operators and tenant deletion.                                          *)

\* An operator settles only what was called for, which no run still means to call
\* for, and releases only what no run works on.
LEMMA ReconcileInvariant ==
  ASSUME LedgerInvariant, NEW x \in Reservations, Reconcile(x)
  PROVE  LedgerInvariant'
<1>1. UNCHANGED <<run, called, tenantVars>>
  BY DEF Reconcile
<1>2. CASE x \in called /\ \E a \in Amounts : Settle(x, a)
  <2>1. PICK a \in Amounts : Settle(x, a)
    BY <1>2
  <2>2. LedgerTypeOK' /\ NeverOverBudget' /\ JournalIsComplete' /\ OneReservationPerRunId'
    BY <1>1, <2>1, SettleKeepsBooks DEF LedgerInvariant, LedgerTypeOK
  <2>3. reservation'[x].state = "settled" /\ \A y \in Reservations \ {x} : reservation'[y] = reservation[y]
    BY <2>1, SettleKeepsBooks
  <2>4. RunsKnowTheirReservation'
    BY <1>1, <1>2, <2>3 DEF LedgerInvariant, RunsKnowTheirReservation, Active
  <2>5. CallsAreAccounted'
    BY <1>1, <2>3 DEF CallsAreAccounted, LedgerInvariant, LedgerTypeOK
  <2> QED
    BY <2>2, <2>4, <2>5 DEF LedgerInvariant
<1>3. CASE x \notin called /\ (\A w \in Runners : run[w].reservation # x) /\ Release(x)
  <2>1. LedgerTypeOK' /\ NeverOverBudget' /\ JournalIsComplete' /\ OneReservationPerRunId'
    BY <1>1, <1>3, ReleaseKeepsBooks DEF LedgerInvariant, LedgerTypeOK
  <2>2. \A y \in Reservations \ {x} : reservation'[y] = reservation[y]
    BY <1>3, ReleaseKeepsBooks
  <2>3. RunsKnowTheirReservation'
    BY <1>1, <1>3, <2>2 DEF LedgerInvariant, RunsKnowTheirReservation, Active
  <2>4. CallsAreAccounted'
    BY <1>1, <1>3, <2>2 DEF CallsAreAccounted, LedgerInvariant, LedgerTypeOK
  <2> QED
    BY <2>1, <2>3, <2>4 DEF LedgerInvariant
<1> QED
  BY <1>2, <1>3 DEF Reconcile

\* The operator's switch moves no money.
LEMMA BudgetSwitchInvariant ==
  ASSUME LedgerInvariant, BudgetSwitch
  PROVE  LedgerInvariant'
  BY DEF LedgerInvariant, BudgetSwitch, LedgerTypeOK, NeverOverBudget, JournalIsComplete,
         RunsKnowTheirReservation, Active, OneReservationPerRunId, CallsAreAccounted

\* The whole ledger leaves with the tenant, and the runs in flight find nothing.
LEMMA DeletionInvariant ==
  ASSUME LedgerInvariant, DeletionMoves \/ TenantPurged
  PROVE  LedgerInvariant'
<1>1. CASE DeletionMoves
  BY <1>1 DEF LedgerInvariant, DeletionMoves, LedgerTypeOK, NeverOverBudget, JournalIsComplete,
              RunsKnowTheirReservation, Active, OneReservationPerRunId, CallsAreAccounted
<1>2. CASE TenantPurged
  <2> USE <1>2 DEF TenantPurged, Cascade
  <2>1. LedgerTypeOK'
    BY DEF LedgerInvariant, LedgerTypeOK, NoReservation, Reservation
  <2>2. NeverOverBudget'
    BY LedgerAssumption DEF NeverOverBudget
  <2>3. JournalIsComplete'
    BY DEF JournalIsComplete, NoReservation
  <2>4. RunsKnowTheirReservation'
    BY DEF LedgerInvariant, RunsKnowTheirReservation, Active
  <2>5. OneReservationPerRunId' /\ CallsAreAccounted'
    BY DEF OneReservationPerRunId, CallsAreAccounted, NoReservation
  <2> QED
    BY <2>1, <2>2, <2>3, <2>4, <2>5 DEF LedgerInvariant
<1> QED
  BY <1>1, <1>2
-----------------------------------------------------------------------------
(* The books.  A sum over the reservations is the number of units in a     *)
(* set, and each movement adds the units of one reservation or takes them. *)

BooksKept == IsFiniteSet(HeldUnits) /\ IsFiniteSet(ChargedUnits) /\ BooksBalance

\* The units of one reservation.
LEMMA StripCounts ==
  ASSUME NEW x, NEW n \in Nat
  PROVE  IsFiniteSet({x} \X (1 .. n)) /\ Cardinality({x} \X (1 .. n)) = n
<1>1. IsFiniteSet({x}) /\ Cardinality({x}) = 1
  BY FS_Singleton
<1>2. IsFiniteSet(1 .. n) /\ Cardinality(1 .. n) = n
  BY FS_Interval
<1>3. IsFiniteSet({x} \X (1 .. n)) /\ Cardinality({x} \X (1 .. n)) = Cardinality({x}) * Cardinality(1 .. n)
  BY <1>1, <1>2, FS_Product
<1>4. 1 * n = n
  OBVIOUS
<1> QED
  BY <1>1, <1>2, <1>3, <1>4

\* Sets of units that have none in common add up.
LEMMA UnitsAddUp ==
  ASSUME NEW U, NEW S, IsFiniteSet(U), IsFiniteSet(S), U \cap S = {}
  PROVE  /\ IsFiniteSet(U \cup S)
         /\ Cardinality(U \cup S) = Cardinality(U) + Cardinality(S)
<1>1. Cardinality({}) = 0 /\ Cardinality(U) \in Nat /\ Cardinality(S) \in Nat
  BY FS_EmptySet, FS_CardinalityType
<1>2. /\ IsFiniteSet(U \cup S)
      /\ Cardinality(U \cup S) = Cardinality(U) + Cardinality(S) - Cardinality(U \cap S)
  BY FS_Union
<1>3. Cardinality(U \cap S) = 0
  BY <1>1, Zenon
<1> QED
  BY <1>1, <1>2, <1>3

\* Reservations that stay as they are keep their units.
LEMMA OtherStrips ==
  ASSUME NEW x \in Reservations, \A y \in Reservations \ {x} : reservation'[y] = reservation[y]
  PROVE  /\ \A y \in Reservations \ {x} : HeldAmount(y)' = HeldAmount(y) /\ ChargedAmount(y)' = ChargedAmount(y)
         /\ HeldAmount(x) = 0 =>
               /\ HeldUnits' = HeldUnits \cup ({x} \X (1 .. HeldAmount(x)'))
               /\ HeldUnits \cap ({x} \X (1 .. HeldAmount(x)')) = {}
         /\ HeldAmount(x)' = 0 =>
               /\ HeldUnits = HeldUnits' \cup ({x} \X (1 .. HeldAmount(x)))
               /\ HeldUnits' \cap ({x} \X (1 .. HeldAmount(x))) = {}
         /\ ChargedAmount(x) = 0 =>
               /\ ChargedUnits' = ChargedUnits \cup ({x} \X (1 .. ChargedAmount(x)'))
               /\ ChargedUnits \cap ({x} \X (1 .. ChargedAmount(x)')) = {}
<1>1. \A y \in Reservations \ {x} : HeldAmount(y)' = HeldAmount(y) /\ ChargedAmount(y)' = ChargedAmount(y)
  BY DEF HeldAmount, ChargedAmount
<1>2. 1 .. 0 = {}
  OBVIOUS
<1>3. /\ \A u : u \in HeldUnits <=> \E y \in Reservations : u \in {y} \X (1 .. HeldAmount(y))
      /\ \A u : u \in HeldUnits' <=> \E y \in Reservations : u \in {y} \X (1 .. HeldAmount(y)')
      /\ \A u : u \in ChargedUnits <=> \E y \in Reservations : u \in {y} \X (1 .. ChargedAmount(y))
      /\ \A u : u \in ChargedUnits' <=> \E y \in Reservations : u \in {y} \X (1 .. ChargedAmount(y)')
  BY Zenon DEF HeldUnits, ChargedUnits
<1> QED
  BY <1>1, <1>2, <1>3

\* One reservation is held, charged or given back, and the totals follow.
LEMMA BooksMove ==
  ASSUME BooksKept, spent \in Nat, reserved \in Nat, NEW x \in Reservations,
         \A y \in Reservations \ {x} : reservation'[y] = reservation[y],
         NEW e \in Nat, NEW a \in Nat,
         \/ HeldAmount(x) = 0 /\ HeldAmount(x)' = e /\ reserved' = reserved + e
         \/ HeldAmount(x) = e /\ HeldAmount(x)' = 0 /\ reserved' = reserved - e,
         ChargedAmount(x) = 0, ChargedAmount(x)' = a, spent' = spent + a
  PROVE  BooksKept'
<1> PICK held, charged : held = {x} \X (1 .. e) /\ charged = {x} \X (1 .. a)
  OBVIOUS
<1>1. IsFiniteSet(held) /\ Cardinality(held) = e /\ IsFiniteSet(charged) /\ Cardinality(charged) = a
  BY StripCounts
<1>2. /\ IsFiniteSet(HeldUnits) /\ IsFiniteSet(ChargedUnits)
      /\ reserved = Cardinality(HeldUnits) /\ spent = Cardinality(ChargedUnits)
  BY DEF BooksKept, BooksBalance
<1>3. IsFiniteSet(ChargedUnits') /\ Cardinality(ChargedUnits') = Cardinality(ChargedUnits) + a
  <2>1. ChargedUnits' = ChargedUnits \cup charged /\ ChargedUnits \cap charged = {}
    BY OtherStrips
  <2> QED
    BY <1>1, <1>2, <2>1, UnitsAddUp
<1>4. CASE HeldAmount(x) = 0 /\ HeldAmount(x)' = e /\ reserved' = reserved + e
  <2>1. HeldUnits' = HeldUnits \cup held /\ HeldUnits \cap held = {}
    BY <1>4, OtherStrips
  <2>2. IsFiniteSet(HeldUnits') /\ Cardinality(HeldUnits') = Cardinality(HeldUnits) + e
    BY <1>1, <1>2, <2>1, UnitsAddUp
  <2> QED
    BY <1>2, <1>3, <1>4, <2>2 DEF BooksKept, BooksBalance
<1>5. CASE HeldAmount(x) = e /\ HeldAmount(x)' = 0 /\ reserved' = reserved - e
  <2>1. HeldUnits = HeldUnits' \cup held /\ HeldUnits' \cap held = {}
    BY <1>5, OtherStrips
  <2>2. IsFiniteSet(HeldUnits') /\ Cardinality(HeldUnits') \in Nat
    BY <1>2, <2>1, FS_Subset, FS_CardinalityType
  <2>3. Cardinality(HeldUnits) = Cardinality(HeldUnits') + e
    BY <1>1, <2>1, <2>2, UnitsAddUp
  <2> QED
    BY <1>2, <1>3, <1>5, <2>2, <2>3 DEF BooksKept, BooksBalance
<1> QED
  BY <1>4, <1>5

\* Nothing is held or charged where there is no reservation.
LEMMA EmptyBooks ==
  ASSUME \A x \in Reservations : reservation[x] = NoReservation, reserved = 0, spent = 0
  PROVE  BooksKept
<1>1. \A x \in Reservations : HeldAmount(x) = 0 /\ ChargedAmount(x) = 0
  BY DEF HeldAmount, ChargedAmount, NoReservation
<1>2. HeldUnits = {} /\ ChargedUnits = {}
  BY <1>1 DEF HeldUnits, ChargedUnits
<1> QED
  BY <1>2, FS_EmptySet DEF BooksKept, BooksBalance

LEMMA BooksSettle ==
  ASSUME LedgerInvariant, BooksKept, NEW x \in Reservations, NEW a \in Amounts, Settle(x, a)
  PROVE  BooksKept'
<1>1. reservation \in [Reservations -> Reservation] /\ spent \in Nat /\ reserved \in Nat
  BY DEF LedgerInvariant, LedgerTypeOK
<1>2. reservation[x].state = "reserved" /\ reservation[x].estimate \in Nat /\ a \in Nat
  BY <1>1, AmountsAreNumbers DEF Settle, Held, Reservation
<1>3. /\ reservation'[x].state = "settled" /\ reservation'[x].actual = a
      /\ \A y \in Reservations \ {x} : reservation'[y] = reservation[y]
      /\ reserved' = reserved - reservation[x].estimate /\ spent' = spent + a
  BY <1>1 DEF Settle, Reservation
<1>4. /\ HeldAmount(x) = reservation[x].estimate /\ HeldAmount(x)' = 0
      /\ ChargedAmount(x) = 0 /\ ChargedAmount(x)' = a
  BY <1>2, <1>3 DEF HeldAmount, ChargedAmount
<1> QED
  BY <1>1, <1>2, <1>3, <1>4, BooksMove

LEMMA BooksRelease ==
  ASSUME LedgerInvariant, BooksKept, NEW x \in Reservations, Release(x)
  PROVE  BooksKept'
<1>1. reservation \in [Reservations -> Reservation] /\ spent \in Nat /\ reserved \in Nat
  BY DEF LedgerInvariant, LedgerTypeOK
<1>2. reservation[x].state = "reserved" /\ reservation[x].estimate \in Nat
  BY <1>1, AmountsAreNumbers DEF Release, Held, Reservation
<1>3. /\ reservation'[x].state = "released"
      /\ \A y \in Reservations \ {x} : reservation'[y] = reservation[y]
      /\ reserved' = reserved - reservation[x].estimate /\ spent' = spent + 0
  BY <1>1 DEF Release, Reservation
<1>4. /\ HeldAmount(x) = reservation[x].estimate /\ HeldAmount(x)' = 0
      /\ ChargedAmount(x) = 0 /\ ChargedAmount(x)' = 0
  BY <1>2, <1>3 DEF HeldAmount, ChargedAmount
<1> QED
  BY <1>1, <1>2, <1>3, <1>4, BooksMove

LEMMA BooksReserve ==
  ASSUME LedgerInvariant, BooksKept, NEW w \in Runners, CommitReserve(w)
  PROVE  BooksKept'
<1> PICK x, e : x = run[w].reservation /\ e = run[w].amount
  OBVIOUS
<1>1. reservation \in [Reservations -> Reservation] /\ spent \in Nat /\ reserved \in Nat
  BY DEF LedgerInvariant, LedgerTypeOK
<1>2. x \in Reservations /\ e \in Nat /\ reservation[x].state = "none"
  BY AmountsAreNumbers DEF CommitReserve, LedgerInvariant, RunsKnowTheirReservation, Active
<1>3. /\ reservation'[x].state = "reserved" /\ reservation'[x].estimate = e
      /\ \A y \in Reservations \ {x} : reservation'[y] = reservation[y]
      /\ reserved' = reserved + e /\ spent' = spent + 0
  BY <1>1, <1>2 DEF CommitReserve
<1>4. /\ HeldAmount(x) = 0 /\ HeldAmount(x)' = e
      /\ ChargedAmount(x) = 0 /\ ChargedAmount(x)' = 0
  BY <1>2, <1>3 DEF HeldAmount, ChargedAmount
<1> QED
  BY <1>1, <1>2, <1>3, <1>4, BooksMove

LEMMA BooksStep == LedgerInvariant /\ BooksKept /\ [LedgerNext]_costVars => BooksKept'
<1> SUFFICES ASSUME LedgerInvariant, BooksKept, [LedgerNext]_costVars
             PROVE  BooksKept'
  OBVIOUS
<1>1. CASE UNCHANGED <<spent, reserved, reservation>>
  BY <1>1 DEF BooksKept, BooksBalance, HeldUnits, ChargedUnits, HeldAmount, ChargedAmount
<1>2. ASSUME NEW w \in Runners, ReleaseUnused(w) PROVE BooksKept'
  BY <1>2, BooksRelease DEF ReleaseUnused, LedgerInvariant, RunsKnowTheirReservation, Active
<1>3. ASSUME NEW w \in Runners, CommitSettle(w) PROVE BooksKept'
  BY <1>3, BooksSettle DEF CommitSettle, LedgerInvariant, RunsKnowTheirReservation, Active
<1>4. ASSUME NEW x \in Reservations, Reconcile(x) PROVE BooksKept'
  BY <1>4, BooksSettle, BooksRelease DEF Reconcile
<1>5. CASE TenantPurged
  <2>1. (\A x \in Reservations : HeldAmount(x) = 0 /\ ChargedAmount(x) = 0)'
    BY <1>5 DEF TenantPurged, Cascade, NoReservation, HeldAmount, ChargedAmount
  <2>2. HeldUnits' = {} /\ ChargedUnits' = {}
    BY <2>1 DEF HeldUnits, ChargedUnits
  <2> QED
    BY <1>5, <2>2, FS_EmptySet DEF TenantPurged, Cascade, BooksKept, BooksBalance
<1> QED
  BY <1>1, <1>2, <1>3, <1>4, <1>5, BooksReserve
  DEF LedgerNext, LedgerStep, AcceptRun, CallProvider, ProviderAnswers, Abandon, BudgetSwitch, DeletionMoves
-----------------------------------------------------------------------------
(* The theorems.                                                           *)

\* Every step keeps the ledger's invariant.
LEMMA LedgerStepInvariant ==
  ASSUME LedgerInvariant, [LedgerNext]_costVars
  PROVE  LedgerInvariant'
<1>1. CASE UNCHANGED costVars
  BY <1>1 DEF LedgerInvariant, LedgerTypeOK, NeverOverBudget, JournalIsComplete,
              RunsKnowTheirReservation, Active, OneReservationPerRunId, CallsAreAccounted
<1>2. CASE LedgerStep
  BY <1>2, AcceptRunInvariant, CommitReserveInvariant, ReleaseUnusedInvariant,
     CallProviderInvariant, ProviderAnswersInvariant, CommitSettleInvariant, AbandonInvariant,
     BudgetSwitchInvariant, ReconcileInvariant
  DEF LedgerStep
<1> QED
  BY <1>1, <1>2, DeletionInvariant DEF LedgerNext

\* The inductive invariant, in every behaviour of the ledger.
THEOREM LedgerInvariantHolds == LedgerSpec => []LedgerInvariant
<1>1. LedgerInit => LedgerInvariant
  BY LedgerInitInvariant
<1>2. LedgerInvariant /\ [LedgerNext]_costVars => LedgerInvariant'
  BY LedgerStepInvariant
<1> QED
  BY <1>1, <1>2, PTL DEF LedgerSpec

\* The totals never go below zero, and no state leaves its type.
THEOREM LedgerTypeCorrect == LedgerSpec => []LedgerTypeOK
<1>1. LedgerInvariant => LedgerTypeOK
  BY DEF LedgerInvariant
<1> QED
  BY <1>1, LedgerInvariantHolds, PTL

\* The totals that the triggers keep, one movement at a time, are what the reservations
\* add up to.
THEOREM BooksTheorem == LedgerSpec => []BooksBalance
<1>1. LedgerInit => BooksKept
  BY EmptyBooks DEF LedgerInit
<1>2. LedgerInvariant /\ BooksKept /\ [LedgerNext]_costVars => BooksKept'
  BY BooksStep
<1>3. BooksKept => BooksBalance
  BY DEF BooksKept
<1> QED
  BY <1>1, <1>2, <1>3, LedgerInvariantHolds, PTL DEF LedgerSpec

\* Whatever any number of runs read before they reserved, spent and reserved money
\* never exceed the budget: the INSERT's trigger decides, not the read.
THEOREM BudgetTheorem == LedgerSpec => []NeverOverBudget
<1>1. LedgerInvariant => NeverOverBudget
  BY DEF LedgerInvariant
<1> QED
  BY <1>1, LedgerInvariantHolds, PTL

\* agent_cost_ledger_gaps is empty in every reachable state.
THEOREM JournalTheorem == LedgerSpec => []JournalIsComplete
<1>1. LedgerInvariant => JournalIsComplete
  BY DEF LedgerInvariant
<1> QED
  BY <1>1, LedgerInvariantHolds, PTL

\* No crash, timeout or reconciliation gives back money the provider was called for.
THEOREM AccountingTheorem == LedgerSpec => []CallsAreAccounted
<1>1. LedgerInvariant => CallsAreAccounted
  BY DEF LedgerInvariant
<1> QED
  BY <1>1, LedgerInvariantHolds, PTL

\* A run id buys one provider call at most.
THEOREM OneCallTheorem == LedgerSpec => []OneCallPerRunId
<1>1. LedgerInvariant => OneCallPerRunId
  <2> SUFFICES ASSUME LedgerInvariant, tenant = "live", NEW x \in called, NEW y \in called,
                      reservation[x].run = reservation[y].run
               PROVE  x = y
    BY DEF OneCallPerRunId
  <2>1. x \in Reservations /\ y \in Reservations /\ reservation[x].state # "none"
    BY DEF LedgerInvariant, LedgerTypeOK, CallsAreAccounted
  <2> QED
    BY <2>1 DEF LedgerInvariant, OneReservationPerRunId
<1> QED
  BY <1>1, LedgerInvariantHolds, PTL
=============================================================================
