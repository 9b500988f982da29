--------------------------- MODULE ServiceProofs ---------------------------
(***************************************************************************)
(* The standing policies of module InternalAutonomy, the idempotency keys of *)
(* module ApiIdempotency and the sealed chain of module AuditChain.        *)
(***************************************************************************)
EXTENDS InternalAutonomy, ApiIdempotency, AuditChain, FiniteSetTheorems, TLAPS
-----------------------------------------------------------------------------
(* InternalAutonomy: an occurrence is run once, and only with its task.    *)

\* What a runner holds: rows that were due when it listed them, the hour it began at,
\* and behind a row it is about to close the task that was carried out for it.
RunnersKnow ==
    \A r \in Runners :
        /\ \A taken \in runner[r].todo : taken.at <= hour
        /\ runner[r].phase \in {"checked", "closing"} =>
              /\ runner[r].row \in PolicyRows
              /\ runner[r].row.at <= runner[r].now /\ runner[r].now <= hour
        /\ runner[r].phase = "closing" /\ Policy(r) \in Tasked => <<Policy(r), runner[r].row.at>> \in tasks

AutonomyInv == AutonomyTypeOK /\ RunnersKnow /\ OneRunPerOccurrence

LEMMA DayIsHour == \A n \in Hours, d \in Nat \ {0} : n \div d \in Hours
  BY AutonomyAssumption, Z3 DEF Hours

LEMMA AutonomyInitHolds == AutonomyInit => AutonomyInv
<1> SUFFICES ASSUME AutonomyInit PROVE AutonomyInv
  OBVIOUS
<1> USE AutonomyAssumption DEF AutonomyInit, Resting, NoPolicyRow
<1>1. AutonomyTypeOK
  BY DEF AutonomyTypeOK, Hours, PolicyRows
<1>2. RunnersKnow
  BY DEF RunnersKnow
<1>3. OneRunPerOccurrence
  BY DEF OneRunPerOccurrence
<1> QED
  BY <1>1, <1>2, <1>3 DEF AutonomyInv

\* Going on with the next row, or not, keeps what the runners know.
LEMMA ProceedKeeps ==
    ASSUME AutonomyTypeOK, RunnersKnow, NEW r \in Runners, Proceed(r), hour' = hour,
           tasks \subseteq tasks'
    PROVE  /\ runner' \in [Runners -> [phase : {"idle", "listed", "checked", "closing"}, todo : SUBSET PolicyRows,
                                       row : PolicyRows \cup {NoPolicyRow}, now : Hours]]
           /\ RunnersKnow'
<1>1. 0 \in Hours
  BY AutonomyAssumption DEF Hours
<1>2. runner' \in [Runners -> [phase : {"idle", "listed", "checked", "closing"}, todo : SUBSET PolicyRows,
                               row : PolicyRows \cup {NoPolicyRow}, now : Hours]]
  BY <1>1 DEF Proceed, AutonomyTypeOK, Resting
<1>3. RunnersKnow'
  BY DEF Proceed, AutonomyTypeOK, RunnersKnow, Resting, Policy
<1> QED
  BY <1>2, <1>3

LEMMA HeldRow ==
    ASSUME AutonomyTypeOK, RunnersKnow, NEW r \in Runners, runner[r].phase \in {"checked", "closing"}
    PROVE  /\ Policy(r) \in Policies /\ runner[r].row.at \in Hours /\ runner[r].now \in Hours
           /\ runner[r].row.at < runner[r].now + Interval
<1> USE AutonomyAssumption
<1>1. /\ runner[r].row \in PolicyRows /\ runner[r].row.at <= runner[r].now /\ runner[r].now <= hour
  BY DEF RunnersKnow
<1>2. runner[r].row.policy \in Policies /\ runner[r].row.at \in 0 .. LastHour + Interval
  BY <1>1 DEF PolicyRows
<1>3. hour \in 0 .. LastHour /\ runner[r].now \in 0 .. LastHour
  BY DEF AutonomyTypeOK, Hours
<1>4. LastHour \in Nat /\ Interval \in Nat \ {0}
  OBVIOUS
<1> QED
  BY <1>1, <1>2, <1>3, <1>4 DEF Policy, Hours

LEMMA AutonomyStepHolds == AutonomyInv /\ [AutonomyNext]_autonomyVars => AutonomyInv'
<1> SUFFICES ASSUME AutonomyInv, [AutonomyNext]_autonomyVars PROVE AutonomyInv'
  OBVIOUS
<1> USE AutonomyAssumption DEF standingVars
<1>t. AutonomyTypeOK /\ RunnersKnow /\ OneRunPerOccurrence
  BY DEF AutonomyInv
<1>1. ASSUME NEW r \in Runners, ListPolicies(r) \/ (\E p \in Policies : RunNow(r, p)) PROVE AutonomyInv'
  <2> DEFINE Listed(T) == runner' = [runner EXCEPT ![r].phase = "listed", ![r].todo = T]
  <2>1. PICK D \in SUBSET Due : Listed({RowOf(p) : p \in D})
    <3>1. CASE ListPolicies(r)
      BY <3>1 DEF ListPolicies, Oldest
    <3>2. ASSUME NEW p \in Policies, RunNow(r, p) PROVE \E D \in SUBSET Due : Listed({RowOf(q) : q \in D})
      <4>1. {p} \in SUBSET Due /\ {RowOf(p)} = {RowOf(q) : q \in {p}}
        BY <3>2 DEF RunNow
      <4> QED
        BY <4>1, <3>2 DEF RunNow
    <3> QED
      BY <1>1, <3>1, <3>2
  <2>2. UNCHANGED <<standingVars, tasks, runs, mishaps>> /\ runner[r].phase = "idle"
    BY <1>1 DEF ListPolicies, RunNow, Running
  <2>3. \A p \in Due : RowOf(p) \in PolicyRows /\ RowOf(p).at <= hour
    BY <1>t DEF Due, RowOf, PolicyRows, AutonomyTypeOK
  <2>a. PICK T \in SUBSET PolicyRows : Listed(T) /\ \A taken \in T : taken.at <= hour
    <3>1. \A taken \in {RowOf(p) : p \in D} : taken \in PolicyRows /\ taken.at <= hour
      BY <2>3
    <3> QED
      BY <2>1, <3>1
  <2>4. AutonomyTypeOK'
    BY <1>t, <2>2, <2>a DEF AutonomyTypeOK
  <2>5. RunnersKnow'
    BY <1>t, <2>2, <2>a DEF RunnersKnow, AutonomyTypeOK, Policy
  <2> QED
    BY <1>t, <2>2, <2>4, <2>5 DEF AutonomyInv, OneRunPerOccurrence
<1>2. ASSUME NEW r \in Runners, NEW taken \in runner[r].todo, Start(r, taken) PROVE AutonomyInv'
  <2>1. taken \in PolicyRows /\ taken.at <= hour
    BY <1>t DEF AutonomyTypeOK, RunnersKnow
  <2>2. AutonomyTypeOK'
    BY <1>t, <1>2, <2>1 DEF AutonomyTypeOK, Start, Running, Resting, Hours
  <2>3. RunnersKnow'
    <3> SUFFICES ASSUME NEW q \in Runners
                 PROVE  /\ \A x \in runner'[q].todo : x.at <= hour
                        /\ runner'[q].phase \in {"checked", "closing"} =>
                              /\ runner'[q].row \in PolicyRows
                              /\ runner'[q].row.at <= runner'[q].now /\ runner'[q].now <= hour
                        /\ runner'[q].phase = "closing" /\ runner'[q].row.policy \in Tasked =>
                              <<runner'[q].row.policy, runner'[q].row.at>> \in tasks
      BY <1>2 DEF RunnersKnow, Start, Policy
    <3>1. CASE q # r
      BY <1>t, <1>2, <3>1 DEF RunnersKnow, AutonomyTypeOK, Start, Policy
    <3>2. CASE q = r /\ taken.policy \notin stuck /\ Today(taken.policy) < MaxDaily
      <4>1. runner'[q] = [phase |-> "checked", todo |-> runner[r].todo \ {taken}, row |-> taken, now |-> hour]
        BY <1>t, <1>2, <3>2 DEF AutonomyTypeOK, Start
      <4>2. \A x \in runner[r].todo \ {taken} : x.at <= hour
        BY <1>t DEF RunnersKnow
      <4>3. hour <= hour
        BY <1>t DEF AutonomyTypeOK, Hours
      <4> QED
        BY <2>1, <4>1, <4>2, <4>3
    <3>3. CASE q = r /\ ~(taken.policy \notin stuck /\ Today(taken.policy) < MaxDaily)
      <4>1. runner'[r] = Resting \/ runner'[r] = [runner[r] EXCEPT !.todo = runner[r].todo \ {taken}]
        BY <1>t, <1>2, <3>3 DEF AutonomyTypeOK, Start
      <4> QED
        BY <1>t, <1>2, <3>3, <4>1 DEF RunnersKnow, AutonomyTypeOK, Start, Running, Resting
    <3> QED
      BY <3>1, <3>2, <3>3
  <2> QED
    BY <1>t, <1>2, <2>2, <2>3 DEF AutonomyInv, OneRunPerOccurrence, Start
<1>3. ASSUME NEW r \in Runners, CarryOut(r) PROVE AutonomyInv'
  <2>1. CASE /\ tasks' = IF Policy(r) \in Tasked THEN tasks \cup {<<Policy(r), runner[r].row.at>>} ELSE tasks
             /\ runner' = [runner EXCEPT ![r].phase = "closing"]
    <3>1. Policy(r) \in Policies /\ runner[r].row.at \in Hours
      BY <1>t, <1>3, HeldRow DEF CarryOut, Running
    <3>2. AutonomyTypeOK'
      <4>1. tasks' \subseteq Policies \X Hours
        BY <1>t, <2>1, <3>1 DEF AutonomyTypeOK
      <4>2. runner' \in [Runners -> [phase : {"idle", "listed", "checked", "closing"}, todo : SUBSET PolicyRows,
                                     row : PolicyRows \cup {NoPolicyRow}, now : Hours]]
        BY <1>t, <2>1 DEF AutonomyTypeOK
      <4> QED
        BY <1>t, <1>3, <4>1, <4>2 DEF AutonomyTypeOK, CarryOut
    <3>3. RunnersKnow'
      BY <1>t, <1>3, <2>1 DEF RunnersKnow, AutonomyTypeOK, CarryOut, Running, Policy
    <3>4. OneRunPerOccurrence'
      BY <1>t, <1>3, <2>1 DEF OneRunPerOccurrence, CarryOut
    <3> QED
      BY <3>2, <3>3, <3>4 DEF AutonomyInv
  <2>2. CASE Proceed(r) /\ UNCHANGED tasks
    BY <1>t, <1>3, <2>2, ProceedKeeps DEF CarryOut, AutonomyInv, AutonomyTypeOK, OneRunPerOccurrence
  <2> QED
    BY <1>3, <2>1, <2>2 DEF CarryOut
<1>4. ASSUME NEW r \in Runners, CloseRun(r) PROVE AutonomyInv'
  <2>0. Proceed(r) /\ UNCHANGED <<hour, approved, stuck, tasks, mishaps>>
    BY <1>4 DEF CloseRun
  <2>1. /\ runner' \in [Runners -> [phase : {"idle", "listed", "checked", "closing"}, todo : SUBSET PolicyRows,
                                    row : PolicyRows \cup {NoPolicyRow}, now : Hours]]
        /\ RunnersKnow'
    BY <1>t, <2>0, ProceedKeeps
  <2>2. CASE Live(r) /\ due' = [due EXCEPT ![Policy(r)] = runner[r].now + Interval]
             /\ runs' = runs \cup {[policy |-> Policy(r), at |-> runner[r].row.at, day |-> hour \div Day]}
    <3>1. /\ Policy(r) \in Policies /\ runner[r].row.at \in Hours /\ runner[r].now \in Hours
          /\ runner[r].row.at < runner[r].now + Interval
          /\ Policy(r) \in Tasked => <<Policy(r), runner[r].row.at>> \in tasks
      BY <1>t, <1>4, HeldRow DEF CloseRun, Running, RunnersKnow
    <3>2. hour \div Day \in Hours
      BY <1>t, DayIsHour DEF AutonomyTypeOK
    <3>3. AutonomyTypeOK'
      BY <1>t, <2>0, <2>1, <2>2, <3>1, <3>2 DEF AutonomyTypeOK, Hours
    <3>o. \A e \in runs : e.at < due[e.policy] /\ (e.policy \in Tasked => <<e.policy, e.at>> \in tasks)
      BY <1>t DEF OneRunPerOccurrence
    <3>4. \A e \in runs : e.policy = Policy(r) => e.at < runner[r].row.at
      BY <2>2, <3>o DEF Live
    <3>5. OneRunPerOccurrence'
      <4> DEFINE new == [policy |-> Policy(r), at |-> runner[r].row.at, day |-> hour \div Day]
      <4>1. \A e \in runs : e.at \in Hours /\ e.policy \in Policies
        BY <1>t DEF AutonomyTypeOK
      <4>2. \A d, e \in runs' : d.policy = e.policy /\ d.at = e.at => d = e
        BY <1>t, <2>2, <3>1, <3>4, <4>1 DEF OneRunPerOccurrence, Hours
      <4>3. due \in [Policies -> 0 .. LastHour + Interval]
        BY <1>t DEF AutonomyTypeOK
      <4>4. due'[Policy(r)] = runner[r].now + Interval /\ \A p \in Policies \ {Policy(r)} : due'[p] = due[p]
        BY <2>2, <3>1, <4>3
      <4>5. ASSUME NEW e \in runs'
            PROVE  (e.policy \in Tasked => <<e.policy, e.at>> \in tasks') /\ e.at < due'[e.policy]
        <5>1. CASE e = new
          BY <2>0, <3>1, <4>4, <5>1
        <5>2. CASE e \in runs /\ e.policy = Policy(r)
          BY <1>t, <2>0, <3>1, <3>4, <4>1, <4>4, <5>2 DEF OneRunPerOccurrence, Hours
        <5>3. CASE e \in runs /\ e.policy # Policy(r)
          BY <2>0, <3>o, <4>1, <4>4, <5>3
        <5> QED
          BY <2>2, <5>1, <5>2, <5>3
      <4> QED
        BY <4>2, <4>5 DEF OneRunPerOccurrence
    <3> QED
      BY <2>1, <3>3, <3>5 DEF AutonomyInv
  <2>3. CASE UNCHANGED <<due, runs>>
    BY <1>t, <2>0, <2>1, <2>3 DEF AutonomyInv, AutonomyTypeOK, OneRunPerOccurrence
  <2> QED
    BY <1>4, <2>2, <2>3 DEF CloseRun
<1>5. ASSUME NEW r \in Runners, LoseRunner(r) PROVE AutonomyInv'
  <2>1. 0 \in Hours /\ mishaps' \in 0 .. MaxMishaps
    BY <1>t, <1>5 DEF Hours, LoseRunner, AutonomyTypeOK
  <2>2. AutonomyTypeOK'
    BY <1>t, <1>5, <2>1 DEF LoseRunner, AutonomyTypeOK, Resting
  <2>3. RunnersKnow' /\ OneRunPerOccurrence'
    BY <1>t, <1>5 DEF LoseRunner, AutonomyTypeOK, RunnersKnow, OneRunPerOccurrence, Resting, Policy
  <2> QED
    BY <2>2, <2>3 DEF AutonomyInv
<1>6. ASSUME NEW p \in Policies, RevokePolicy(p) PROVE AutonomyInv'
  BY <1>t, <1>6 DEF RevokePolicy, AutonomyInv, AutonomyTypeOK, RunnersKnow, OneRunPerOccurrence, Policy
<1>7. ASSUME TimePasses PROVE AutonomyInv'
  <2>1. hour' \in Hours /\ hour < hour' /\ hour \in Int /\ hour' \in Int
    BY <1>t, <1>7 DEF TimePasses, AutonomyTypeOK, Hours
  <2>2. AutonomyTypeOK'
    BY <1>t, <1>7, <2>1 DEF TimePasses, AutonomyTypeOK
  <2>3. \A r \in Runners : runner[r].now \in Int /\ \A taken \in runner[r].todo : taken.at \in Int
    BY <1>t DEF AutonomyTypeOK, PolicyRows, Hours
  <2>4. RunnersKnow'
    BY <1>t, <1>7, <2>1, <2>3 DEF TimePasses, RunnersKnow, Policy
  <2> QED
    BY <1>t, <1>7, <2>2, <2>4 DEF TimePasses, AutonomyInv, OneRunPerOccurrence
<1>8. CASE UNCHANGED autonomyVars
  BY <1>t, <1>8 DEF autonomyVars, AutonomyInv, AutonomyTypeOK, RunnersKnow, OneRunPerOccurrence, Policy
<1> QED
  BY <1>1, <1>2, <1>3, <1>4, <1>5, <1>6, <1>7, <1>8 DEF AutonomyNext, RunnerStep

\* The inductive invariant of the standing policies.
THEOREM AutonomyInvariantHolds == AutonomySpec => []AutonomyInv
<1>1. AutonomyInit => AutonomyInv
  BY AutonomyInitHolds
<1>2. AutonomyInv /\ [AutonomyNext]_autonomyVars => AutonomyInv'
  BY AutonomyStepHolds
<1> QED
  BY <1>1, <1>2, PTL DEF AutonomySpec

\* Whoever runs a policy at once, and whatever is lost in between: an occurrence has one
\* run, and a run the task that its policy stands for, if it stands for one.
THEOREM OccurrencesRunOnce == AutonomySpec => []OneRunPerOccurrence
<1>1. AutonomyInv => OneRunPerOccurrence
  BY DEF AutonomyInv
<1> QED
  BY <1>1, AutonomyInvariantHolds, PTL
-----------------------------------------------------------------------------
(* ApiIdempotency: a key has one effect, and one more for each lapse.      *)

\* The requests that have made their mutation, or may still make it, or have a
\* claim to free: a key that is free lets in one more.
Counted == effects \cup {r \in Requests : request[r] \in {"execute", "abandon"}}
Vacancy == IF Taken THEN 0 ELSE 1
VacancyCounts == Cardinality(Counted) + Vacancy <= 1 + lapses

MadeBeforeCompleted == \A r \in Requests : Is(r, "complete") => r \in effects

KeyInv == IdempotencyTypeOK /\ VacancyCounts /\ MadeBeforeCompleted /\ AnswersFit

\* A set that grows by one element at most counts one more at most.
LEMMA GrowsByOne ==
    ASSUME NEW S, IsFiniteSet(S), NEW T, NEW x, T \subseteq S \cup {x}
    PROVE  Cardinality(T) <= Cardinality(S) + 1
<1>1. IsFiniteSet(S \cup {x}) /\ Cardinality(S \cup {x}) <= Cardinality(S) + 1
  <2>1. Cardinality(S) \in Nat
    BY FS_CardinalityType
  <2>2. /\ IsFiniteSet(S \cup {x})
        /\ Cardinality(S \cup {x}) = IF x \in S THEN Cardinality(S) ELSE Cardinality(S) + 1
    BY FS_AddElement
  <2> QED
    BY <2>1, <2>2
<1>2. Cardinality(T) <= Cardinality(S \cup {x}) /\ IsFiniteSet(T)
  BY <1>1, FS_Subset
<1>3. Cardinality(T) \in Nat /\ Cardinality(S) \in Nat /\ Cardinality(S \cup {x}) \in Nat
  BY <1>1, <1>2, FS_CardinalityType
<1> QED
  BY <1>1, <1>2, <1>3

\* One that loses an element counts one less.
LEMMA ShrinksByOne ==
    ASSUME NEW S, IsFiniteSet(S), NEW x \in S, NEW T, T \subseteq S \ {x}
    PROVE  Cardinality(T) + 1 <= Cardinality(S)
<1>1. IsFiniteSet(S \ {x}) /\ Cardinality(S \ {x}) = Cardinality(S) - 1
  BY FS_RemoveElement
<1>2. Cardinality(T) <= Cardinality(S \ {x}) /\ IsFiniteSet(T)
  BY <1>1, FS_Subset
<1>3. Cardinality(T) \in Nat /\ Cardinality(S) \in Nat
  BY <1>2, FS_CardinalityType
<1> QED
  BY <1>1, <1>2, <1>3

LEMMA OneInOneOut ==
    ASSUME NEW c \in Nat, NEW d \in Nat, NEW v \in {0, 1}, NEW w \in {0, 1}, NEW l \in Nat, NEW m \in Nat,
           c + v <= 1 + l, d <= c + 1, w + l + 1 <= v + m
    PROVE  d + w <= 1 + m
  BY SMT

LEMMA CountedIsFinite ==
    ASSUME IdempotencyTypeOK
    PROVE  /\ Counted \subseteq Requests /\ IsFiniteSet(Counted) /\ Cardinality(Counted) \in Nat
           /\ lapses \in Nat /\ Vacancy \in {0, 1}
<1>1. Counted \subseteq Requests /\ lapses \in Nat /\ Vacancy \in {0, 1}
  BY DEF Counted, IdempotencyTypeOK, Vacancy
<1> QED
  BY <1>1, IdempotencyAssumption, FS_Subset, FS_CardinalityType DEF IdempotencyConstants

LEMMA KeyInitHolds == IdempotencyInit => KeyInv
<1> SUFFICES ASSUME IdempotencyInit PROVE KeyInv
  OBVIOUS
<1> USE DEF IdempotencyInit
<1>1. IdempotencyTypeOK
  BY DEF IdempotencyTypeOK, Steps
<1>2. Counted = {} /\ Vacancy = 1
  BY DEF Counted, Vacancy, Taken
<1>3. VacancyCounts
  BY <1>2, FS_EmptySet DEF VacancyCounts
<1>4. MadeBeforeCompleted /\ AnswersFit
  BY DEF MadeBeforeCompleted, AnswersFit, Is, Taken
<1> QED
  BY <1>1, <1>3, <1>4 DEF KeyInv

\* What the statements make of a row is a row.
LEMMA RowsStayRows ==
    ASSUME IdempotencyTypeOK, NEW r \in Requests
    PROVE  /\ NoKey \notin KeyRows
           /\ Processing(payload[r]) \in KeyRows
           /\ Dead(r)  => [keyRow EXCEPT !.stale = FALSE, !.attempts = @ + 1] \in KeyRows
           /\ Fits(r)  => [keyRow EXCEPT !.status = "completed", !.answer = r] \in KeyRows
           /\ Taken    => keyRow \in KeyRows /\ [keyRow EXCEPT !.stale = TRUE] \in KeyRows
<1>n. NoKey \notin KeyRows /\ MaxTakings \in Nat \ {0}
  BY IdempotencyAssumption DEF IdempotencyConstants
<1>1. Processing(payload[r]) \in KeyRows
  <2>1. payload[r] \in Payloads /\ 1 \in 1 .. MaxTakings
    BY <1>n DEF IdempotencyTypeOK
  <2> QED
    BY <2>1 DEF Processing, KeyRows
<1>2. ASSUME Dead(r) PROVE [keyRow EXCEPT !.stale = FALSE, !.attempts = @ + 1] \in KeyRows
  <2>1. keyRow \in KeyRows /\ keyRow.attempts + 1 \in 1 .. MaxTakings
    BY <1>n, <1>2 DEF Dead, Taken, IdempotencyTypeOK, KeyRows
  <2> QED
    BY <2>1 DEF KeyRows
<1>3. ASSUME Fits(r) PROVE [keyRow EXCEPT !.status = "completed", !.answer = r] \in KeyRows
  BY <1>3 DEF Fits, Taken, IdempotencyTypeOK, KeyRows
<1>4. ASSUME Taken PROVE keyRow \in KeyRows /\ [keyRow EXCEPT !.stale = TRUE] \in KeyRows
  BY <1>4 DEF Taken, IdempotencyTypeOK, KeyRows
<1> QED
  BY <1>n, <1>1, <1>2, <1>3, <1>4

LEMMA KeyTypeStep == IdempotencyTypeOK /\ [IdempotencyNext]_idempotencyVars => IdempotencyTypeOK'
<1> SUFFICES ASSUME IdempotencyTypeOK, [IdempotencyNext]_idempotencyVars PROVE IdempotencyTypeOK'
  OBVIOUS
<1> DEFINE RestOK == /\ payload' \in [Requests -> Payloads] /\ keyRow' \in KeyRows \cup {NoKey}
                     /\ effects' \subseteq Requests /\ told' \in [Requests -> Requests \cup {NoKey}]
                     /\ lapses' \in Nat
           Moved == request' \in [Requests -> Steps]
<1>t. RestOK /\ Moved => IdempotencyTypeOK'
  BY DEF IdempotencyTypeOK
<1> HIDE DEF RestOK, Moved
<1>s. ASSUME NEW r \in Requests, NEW s \in Steps, Reach(r, s) PROVE Moved
  BY <1>s DEF Reach, IdempotencyTypeOK, Moved
<1>1. ASSUME NEW r \in Requests, InsertClaim(r) PROVE IdempotencyTypeOK'
  <2>1. Moved
    BY <1>1, <1>s DEF InsertClaim, Steps
  <2> QED
    BY <1>1, <1>t, <2>1, RowsStayRows DEF InsertClaim, IdempotencyTypeOK, RestOK
<1>2. ASSUME NEW r \in Requests, LookAtClaim(r) PROVE IdempotencyTypeOK'
  <2>1. Moved
    BY <1>2, <1>s DEF LookAtClaim, Steps
  <2>2. ASSUME Taken PROVE keyRow.answer \in Requests \cup {NoKey}
    BY <2>2 DEF Taken, IdempotencyTypeOK, KeyRows
  <2>3. told' \in [Requests -> Requests \cup {NoKey}]
    BY <1>2, <2>2 DEF LookAtClaim, IdempotencyTypeOK
  <2> QED
    BY <1>2, <1>t, <2>1, <2>3 DEF LookAtClaim, IdempotencyTypeOK, RestOK
<1>3. ASSUME NEW r \in Requests, TakeOver(r) PROVE IdempotencyTypeOK'
  <2>1. Moved
    BY <1>3, <1>s DEF TakeOver, Steps
  <2>2. lapses' \in Nat
    BY <1>3 DEF TakeOver, IdempotencyTypeOK
  <2>3. keyRow' \in KeyRows \cup {NoKey}
    BY <1>3, RowsStayRows DEF TakeOver, IdempotencyTypeOK
  <2> QED
    BY <1>3, <1>t, <2>1, <2>2, <2>3 DEF TakeOver, IdempotencyTypeOK, RestOK
<1>4. ASSUME NEW r \in Requests, Execute(r) PROVE IdempotencyTypeOK'
  <2>1. Moved
    BY <1>4, <1>s DEF Execute, Steps
  <2> QED
    BY <1>4, <1>t, <2>1 DEF Execute, IdempotencyTypeOK, RestOK
<1>5. ASSUME NEW r \in Requests, CompleteClaim(r) \/ CompletionFails(r) PROVE IdempotencyTypeOK'
  <2>1. Moved
    BY <1>5, <1>s DEF CompleteClaim, CompletionFails, Steps
  <2>2. told' \in [Requests -> Requests \cup {NoKey}]
    BY <1>5 DEF CompleteClaim, CompletionFails, IdempotencyTypeOK
  <2> QED
    BY <1>5, <1>t, <2>1, <2>2, RowsStayRows DEF CompleteClaim, CompletionFails, Completed, IdempotencyTypeOK, RestOK
<1>6. ASSUME NEW r \in Requests, AbandonClaim(r) \/ LoseRequest(r) PROVE IdempotencyTypeOK'
  <2>1. Moved
    BY <1>6, <1>s DEF AbandonClaim, LoseRequest, Steps
  <2> QED
    BY <1>6, <1>t, <2>1 DEF AbandonClaim, LoseRequest, IdempotencyTypeOK, RestOK
<1>7. CASE ClaimAges \/ ForgetKey
  <2>1. Moved
    BY <1>7 DEF ClaimAges, ForgetKey, IdempotencyTypeOK, Moved
  <2>2. keyRow' \in KeyRows \cup {NoKey} /\ lapses' \in Nat
    <3>1. CASE ClaimAges
      <4>1. [keyRow EXCEPT !.stale = TRUE] \in KeyRows
        BY <3>1 DEF ClaimAges, Taken, IdempotencyTypeOK, KeyRows
      <4> QED
        BY <3>1, <4>1 DEF ClaimAges, IdempotencyTypeOK
    <3>2. CASE ForgetKey
      BY <3>2 DEF ForgetKey, IdempotencyTypeOK
    <3> QED
      BY <1>7, <3>1, <3>2
  <2> QED
    BY <1>7, <1>t, <2>1, <2>2 DEF ClaimAges, ForgetKey, IdempotencyTypeOK, RestOK
<1>8. CASE UNCHANGED idempotencyVars
  BY <1>8 DEF idempotencyVars, IdempotencyTypeOK
<1> QED
  BY <1>1, <1>2, <1>3, <1>4, <1>5, <1>6, <1>7, <1>8 DEF IdempotencyNext

\* What is recorded and told is the outcome of a mutation with the same payload.
LEMMA AnswersStep ==
    ASSUME KeyInv, [IdempotencyNext]_idempotencyVars
    PROVE  MadeBeforeCompleted' /\ AnswersFit'
<1> USE IdempotencyAssumption DEF IdempotencyConstants
<1>t. IdempotencyTypeOK /\ MadeBeforeCompleted /\ AnswersFit
  BY DEF KeyInv
<1> USE <1>t DEF IdempotencyTypeOK, MadeBeforeCompleted, AnswersFit, KeyRows, Is, Reach, Taken
<1>1. ASSUME NEW r \in Requests, InsertClaim(r) PROVE MadeBeforeCompleted' /\ AnswersFit'
  BY <1>1 DEF InsertClaim, Processing
<1>2. ASSUME NEW r \in Requests, LookAtClaim(r) PROVE MadeBeforeCompleted' /\ AnswersFit'
  BY <1>2 DEF LookAtClaim, SamePayload
<1>3. ASSUME NEW r \in Requests, TakeOver(r) PROVE MadeBeforeCompleted' /\ AnswersFit'
  <2>1. CASE Dead(r)
    <3>1. keyRow' = [keyRow EXCEPT !.stale = FALSE, !.attempts = @ + 1] /\ keyRow.status = "processing"
      BY <1>3, <2>1 DEF TakeOver, Dead
    <3>2. keyRow'.status = "processing"
      BY <1>t, <2>1, <3>1 DEF Dead
    <3> QED
      BY <1>3, <3>2 DEF TakeOver
  <2>2. CASE ~Dead(r)
    BY <1>3, <2>2 DEF TakeOver
  <2> QED
    BY <2>1, <2>2
<1>4. ASSUME NEW r \in Requests, Execute(r) PROVE MadeBeforeCompleted' /\ AnswersFit'
  BY <1>4 DEF Execute
<1>5. ASSUME NEW r \in Requests, CompleteClaim(r) \/ CompletionFails(r) PROVE MadeBeforeCompleted' /\ AnswersFit'
  <2>1. MadeBeforeCompleted' /\ r \in effects
    BY <1>5 DEF CompleteClaim, CompletionFails
  <2>2. \A q \in Requests : told'[q] # NoKey => told'[q] \in effects' /\ payload'[told'[q]] = payload'[q]
    BY <1>5, <2>1 DEF CompleteClaim, CompletionFails
  <2>3. CASE Fits(r) /\ keyRow' = [keyRow EXCEPT !.status = "completed", !.answer = r]
    <3>1. keyRow'.answer = r /\ keyRow'.payload = payload[r]
      BY <1>t, <2>3 DEF Fits
    <3> QED
      BY <1>5, <2>1, <2>2, <3>1 DEF CompleteClaim, CompletionFails
  <2>4. CASE keyRow' = keyRow
    BY <1>5, <2>1, <2>2, <2>4 DEF CompleteClaim, CompletionFails
  <2> QED
    BY <1>5, <2>3, <2>4 DEF CompleteClaim, CompletionFails, Completed
<1>6. ASSUME NEW r \in Requests, AbandonClaim(r) \/ LoseRequest(r) PROVE MadeBeforeCompleted' /\ AnswersFit'
  BY <1>6 DEF AbandonClaim, LoseRequest, Open
<1>7. CASE ClaimAges \/ ForgetKey
  BY <1>7 DEF ClaimAges, ForgetKey
<1>8. CASE UNCHANGED idempotencyVars
  BY <1>8 DEF idempotencyVars
<1> QED
  BY <1>1, <1>2, <1>3, <1>4, <1>5, <1>6, <1>7, <1>8 DEF IdempotencyNext

\* A place is given up for every place that is taken, or a lapse counted.
LEMMA VacancyStep ==
    ASSUME KeyInv, IdempotencyTypeOK', [IdempotencyNext]_idempotencyVars
    PROVE  VacancyCounts'
<1>t. IdempotencyTypeOK /\ MadeBeforeCompleted /\ VacancyCounts
  BY DEF KeyInv
<1>f. /\ IsFiniteSet(Counted) /\ Cardinality(Counted) \in Nat /\ lapses \in Nat /\ Vacancy \in {0, 1}
      /\ IsFiniteSet(Counted') /\ Cardinality(Counted') \in Nat /\ lapses' \in Nat /\ Vacancy' \in {0, 1}
  <2>1. IsFiniteSet(Counted) /\ Cardinality(Counted) \in Nat /\ lapses \in Nat /\ Vacancy \in {0, 1}
    BY <1>t, CountedIsFinite
  <2>2. Counted' \subseteq Requests /\ lapses' \in Nat /\ Vacancy' \in {0, 1}
    BY DEF Counted, IdempotencyTypeOK, Vacancy
  <2> QED
    BY <2>1, <2>2, IdempotencyAssumption, FS_Subset, FS_CardinalityType DEF IdempotencyConstants
<1>n. NoKey \notin KeyRows
  BY IdempotencyAssumption DEF IdempotencyConstants
\* The four ways in which a step moves the sum.
<1>a. ASSUME Counted' \subseteq Counted, Vacancy' <= Vacancy, lapses' >= lapses PROVE VacancyCounts'
  <2>1. Cardinality(Counted') <= Cardinality(Counted)
    BY <1>f, <1>a, FS_Subset
  <2> QED
    BY <1>t, <1>f, <1>a, <2>1 DEF VacancyCounts
<1>b. ASSUME NEW r \in Requests, Counted' \subseteq Counted \cup {r}, Vacancy' + lapses + 1 <= Vacancy + lapses'
      PROVE  VacancyCounts'
  <2>1. Cardinality(Counted') <= Cardinality(Counted) + 1
    BY <1>f, <1>b, GrowsByOne
  <2>2. Cardinality(Counted) + Vacancy <= 1 + lapses
    BY <1>t DEF VacancyCounts
  <2> HIDE DEF Counted, Vacancy
  <2>3. Cardinality(Counted') + Vacancy' <= 1 + lapses'
    BY <1>f, <1>b, <2>1, <2>2, OneInOneOut
  <2> QED
    BY <2>3 DEF VacancyCounts
<1>c. ASSUME NEW r \in Counted, Counted' \subseteq Counted \ {r}, lapses' = lapses PROVE VacancyCounts'
  <2>1. Cardinality(Counted') + 1 <= Cardinality(Counted)
    BY <1>f, <1>c, ShrinksByOne
  <2> QED
    BY <1>t, <1>f, <1>c, <2>1 DEF VacancyCounts
<1>d. ASSUME Counted' \subseteq Counted, lapses' = lapses + 1 PROVE VacancyCounts'
  <2>1. Cardinality(Counted') <= Cardinality(Counted)
    BY <1>f, <1>d, FS_Subset
  <2> QED
    BY <1>t, <1>f, <1>d, <2>1 DEF VacancyCounts
<1> USE <1>t DEF IdempotencyTypeOK, Is, Reach
<1>1. ASSUME NEW r \in Requests, InsertClaim(r) PROVE VacancyCounts'
  <2>1. CASE Taken
    <3>1. Counted' \subseteq Counted /\ Vacancy' = Vacancy /\ lapses' = lapses
      BY <1>1, <2>1 DEF InsertClaim, Counted, Vacancy, Taken
    <3> QED
      BY <1>a, <1>f, <3>1
  <2>2. CASE ~Taken
    <3>1. keyRow' \in KeyRows
      BY <1>1, <2>2, RowsStayRows DEF InsertClaim
    <3>2. Counted' \subseteq Counted \cup {r} /\ Vacancy' = 0 /\ Vacancy = 1 /\ lapses' = lapses
      BY <1>1, <1>n, <2>2, <3>1 DEF InsertClaim, Counted, Vacancy, Taken
    <3> QED
      BY <1>b, <1>f, <3>2
  <2> QED
    BY <2>1, <2>2
<1>2. ASSUME NEW r \in Requests, LookAtClaim(r) PROVE VacancyCounts'
  <2>1. Counted' \subseteq Counted /\ Vacancy' = Vacancy /\ lapses' = lapses
    BY <1>2 DEF LookAtClaim, Counted, Vacancy, Taken
  <2> QED
    BY <1>a, <1>f, <2>1
<1>3. ASSUME NEW r \in Requests, TakeOver(r) PROVE VacancyCounts'
  <2>1. CASE Dead(r)
    <3>1. Counted' \subseteq Counted \cup {r} /\ lapses' = lapses + 1 /\ keyRow \in KeyRows
      BY <1>3, <2>1 DEF TakeOver, Dead, Counted, Taken
    <3>2. keyRow' \in KeyRows
      BY <1>3, <2>1, RowsStayRows DEF TakeOver
    <3>3. Vacancy = 0 /\ Vacancy' = 0
      BY <1>n, <3>1, <3>2 DEF Vacancy, Taken
    <3> QED
      BY <1>b, <1>f, <3>1, <3>3
  <2>2. CASE ~Dead(r)
    <3>1. Counted' \subseteq Counted /\ Vacancy' = Vacancy /\ lapses' = lapses
      BY <1>3, <2>2 DEF TakeOver, Counted, Vacancy, Taken
    <3> QED
      BY <1>a, <1>f, <3>1
  <2> QED
    BY <2>1, <2>2
<1>4. ASSUME NEW r \in Requests, Execute(r) PROVE VacancyCounts'
  <2>1. Counted' \subseteq Counted /\ Vacancy' = Vacancy /\ lapses' = lapses
    BY <1>4 DEF Execute, Counted, Vacancy, Taken
  <2> QED
    BY <1>a, <1>f, <2>1
<1>5. ASSUME NEW r \in Requests, CompleteClaim(r) \/ CompletionFails(r) PROVE VacancyCounts'
  <2>1. Counted' \subseteq Counted /\ lapses' = lapses
    BY <1>5 DEF CompleteClaim, CompletionFails, Counted, MadeBeforeCompleted
  <2>2. CASE Fits(r)
    <3>1. keyRow \in KeyRows /\ keyRow' \in KeyRows
      BY <1>5, <2>2, RowsStayRows DEF CompleteClaim, CompletionFails, Completed, Fits
    <3> QED
      BY <1>a, <1>n, <1>f, <2>1, <3>1 DEF Vacancy, Taken
  <2>3. CASE ~Fits(r)
    BY <1>a, <1>5, <1>f, <2>1, <2>3 DEF CompleteClaim, CompletionFails, Completed, Vacancy, Taken
  <2> QED
    BY <2>2, <2>3
<1>6. ASSUME NEW r \in Requests, AbandonClaim(r) PROVE VacancyCounts'
  <2>0. Counted' \subseteq Counted /\ r \in Counted
    BY <1>6 DEF AbandonClaim, Counted
  <2>1. CASE UNCHANGED <<keyRow, lapses>>
    BY <1>a, <1>f, <2>0, <2>1 DEF Vacancy, Taken
  <2>2. CASE Open /\ r \in effects /\ ~UNCHANGED <<keyRow, lapses>>
    BY <1>d, <1>6, <2>0, <2>2 DEF AbandonClaim, Open
  <2>3. CASE r \notin effects /\ ~UNCHANGED <<keyRow, lapses>>
    <3>1. Counted' \subseteq Counted \ {r} /\ lapses' = lapses
      BY <1>6, <2>3 DEF AbandonClaim, Counted
    <3> QED
      BY <1>c, <2>0, <3>1
  <2> QED
    BY <1>6, <2>1, <2>2, <2>3 DEF AbandonClaim
<1>7. ASSUME NEW r \in Requests, LoseRequest(r) PROVE VacancyCounts'
  <2>1. Counted' \subseteq Counted /\ Vacancy' = Vacancy /\ lapses' = lapses
    BY <1>7 DEF LoseRequest, Counted, Vacancy, Taken
  <2> QED
    BY <1>a, <1>f, <2>1
<1>8. CASE ClaimAges
  <2>1. Counted' \subseteq Counted /\ lapses' = lapses
    BY <1>8 DEF ClaimAges, Counted
  <2>2. keyRow \in KeyRows /\ keyRow' \in KeyRows
    BY <1>8 DEF ClaimAges, KeyRows, Taken
  <2> QED
    BY <1>a, <1>n, <1>f, <2>1, <2>2 DEF Vacancy, Taken
<1>9. CASE ForgetKey
  BY <1>d, <1>9 DEF ForgetKey, Counted
<1>10. CASE UNCHANGED idempotencyVars
  BY <1>a, <1>f, <1>10 DEF idempotencyVars, Counted, Vacancy, Taken
<1> QED
  BY <1>1, <1>2, <1>3, <1>4, <1>5, <1>6, <1>7, <1>8, <1>9, <1>10 DEF IdempotencyNext

\* The inductive invariant of an idempotency key.
THEOREM KeyInvariantHolds == IdempotencySpec => []KeyInv
<1>1. IdempotencyInit => KeyInv
  BY KeyInitHolds
<1>2. KeyInv /\ [IdempotencyNext]_idempotencyVars => KeyInv'
  BY KeyTypeStep, AnswersStep, VacancyStep DEF KeyInv
<1> QED
  BY <1>1, <1>2, PTL DEF IdempotencySpec

\* However requests under one key race, outlive their claims and fail, the effects are
\* one and the lapses, and an answer is that of a mutation with the same payload.
THEOREM KeyIsKept == IdempotencySpec => []KeyKept
<1>1. KeyInv => KeyKept
  <2> SUFFICES ASSUME KeyInv PROVE KeyKept
    OBVIOUS
  <2>1. IdempotencyTypeOK /\ VacancyCounts /\ AnswersFit
    BY DEF KeyInv
  <2>2. IsFiniteSet(Counted) /\ Cardinality(Counted) \in Nat /\ lapses \in Nat /\ Vacancy \in {0, 1}
    BY <2>1, CountedIsFinite
  <2>3. effects \subseteq Counted
    BY DEF Counted
  <2>4. Cardinality(effects) <= Cardinality(Counted) /\ Cardinality(effects) \in Nat
    BY <2>2, <2>3, FS_Subset, FS_CardinalityType
  <2> QED
    BY <2>1, <2>2, <2>4 DEF VacancyCounts, KeyKept, EffectsExplained
<1> QED
  BY <1>1, KeyInvariantHolds, PTL
-----------------------------------------------------------------------------
(* AuditChain: the chain vouches for what it says.  A number that is free is *)
(* the next one, so that a writer whose batch commits has sealed its event *)
(* over the head that is still there.                                      *)

\* The events are numbered from 1 to the head, each number once.
Numbered ==
    /\ \A e \in events : e.seq \in 1 .. head.count
    /\ \A n \in 1 .. head.count : \E e \in events : e.seq = n
    /\ \A d, e \in events : d.seq = e.seq => d = e

Linked ==
    /\ \A e \in events : \/ e.seq = 1 /\ e.prev = Genesis
                         \/ \E d \in events : d.seq = e.seq - 1 /\ e.prev = d.hash
    /\ head.count = 0 => head.hash = Genesis
    /\ head.count > 0 => \E e \in events : e.seq = head.count /\ e.hash = head.hash

\* A sealed event is behind the head, or right after it and over it.
SealedOver ==
    \A w \in Writers :
        /\ Writing(w, "read") => writer[w].tries < MaxTries
        /\ Writing(w, "sealed") =>
              /\ writer[w].seq \in 1 .. head.count + 1
              /\ writer[w].seq = head.count + 1 => writer[w].prev = head.hash

Author(e) == e.hash[1]

RowTells ==
    /\ \A e \in events : e.hash \in Writers \X Nat
    /\ \A w \in Changers : row = w <=> \E e \in events : Author(e) = w
    /\ \A d, e \in events : Author(d) = Author(e) /\ Author(e) \in Changers => d = e

WritersTell ==
    \A w \in Writers :
        /\ Writing(w, "ok") => \E e \in events : Author(e) = w
        /\ w \notin unheard =>
              /\ \A d, e \in events : Author(d) = w /\ Author(e) = w => d = e
              /\ ~Writing(w, "ok") => \A e \in events : Author(e) # w

\* The verifier stands on an event, and has met none that does not fit.
VerifierSure ==
    /\ verifier.verdict # "invalid"
    /\ \/ verifier.after = 0 /\ verifier.prev = Genesis
       \/ \E e \in events : e.seq = verifier.after /\ e.hash = verifier.prev

ChainInv == AuditTypeOK /\ Numbered /\ Linked /\ SealedOver /\ RowTells /\ WritersTell /\ VerifierSure

LEMMA AuditInitHolds == AuditInit => ChainInv
<1> SUFFICES ASSUME AuditInit PROVE ChainInv
  OBVIOUS
<1>1. AuditTypeOK
  BY AuditAssumption DEF AuditInit, AuditTypeOK, Events, Hashes, Verifying
<1>2. Numbered /\ Linked
  BY DEF AuditInit, Numbered, Linked
<1>3. SealedOver /\ WritersTell /\ VerifierSure
  BY AuditAssumption DEF AuditInit, SealedOver, WritersTell, VerifierSure, Writing, Verifying
<1>4. RowTells
  BY AuditAssumption DEF AuditInit, RowTells
<1> QED
  BY <1>1, <1>2, <1>3, <1>4 DEF ChainInv

\* A stretch of the chain has as many events as it has numbers.
LEMMA StretchCounts ==
    ASSUME ChainInv, NEW a \in Nat, NEW b \in Nat, a <= b, b <= head.count
    PROVE  LET S == {d \in events : a < d.seq /\ d.seq <= b}
           IN  IsFiniteSet(S) /\ Cardinality(S) = b - a
<1> DEFINE S == {d \in events : a < d.seq /\ d.seq <= b}
           T == a + 1 .. b
           f == [d \in S |-> d.seq]
<1>1. IsFiniteSet(T) /\ Cardinality(T) = b - a
  <2>1. a + 1 \in Int /\ b \in Int
    OBVIOUS
  <2>2. IsFiniteSet(T) /\ Cardinality(T) = IF a + 1 > b THEN 0 ELSE b - (a + 1) + 1
    BY <2>1, FS_Interval, Zenon
  <2> QED
    BY <2>2
<1>2. \A d \in S : d.seq \in T
  BY DEF ChainInv, Numbered
<1>3. \A n \in T : \E d \in S : d.seq = n
  <2> SUFFICES ASSUME NEW n \in T PROVE \E d \in S : d.seq = n
    OBVIOUS
  <2>1. n \in 1 .. head.count /\ a < n /\ n <= b
    BY DEF ChainInv, AuditTypeOK
  <2>2. PICK d \in events : d.seq = n
    BY <2>1 DEF ChainInv, Numbered
  <2> QED
    BY <2>1, <2>2
<1>4. \A c, d \in S : c.seq = d.seq => c = d
  BY DEF ChainInv, Numbered
<1> HIDE DEF S, T
<1>5. f \in Injection(S, T)
  BY <1>2, <1>4 DEF Injection, IsInjective
<1>6. f \in Surjection(S, T)
  BY <1>2, <1>3 DEF Surjection
<1>7. IsFiniteSet(S) /\ Cardinality(S) = b - a
  BY <1>1, <1>5, <1>6, FS_Injection
<1> QED
  BY <1>7 DEF S
-----------------------------------------------------------------------------
(* A batch that commits.                                                   *)

\* A number that is free is the next one.
LEMMA FreeIsNext ==
    ASSUME ChainInv, NEW w \in Writers, Writing(w, "sealed"), SeqFree(writer[w].seq)
    PROVE  writer[w].seq = head.count + 1 /\ writer[w].prev = head.hash /\ head.count \in Nat
<1>1. writer[w].seq \in 1 .. head.count + 1 /\ head.count \in Nat
  BY DEF ChainInv, AuditTypeOK, SealedOver
<1>2. writer[w].seq \notin 1 .. head.count
  BY DEF ChainInv, Numbered, SeqFree
<1>3. writer[w].seq = head.count + 1
  BY <1>1, <1>2
<1> QED
  BY <1>1, <1>3 DEF ChainInv, SealedOver

LEMMA ChainGrows ==
    ASSUME ChainInv, NEW w \in Writers, Writing(w, "sealed"), Applies(w)
    PROVE  /\ Numbered' /\ Linked' /\ head'.count = head.count + 1
           /\ events' \subseteq Events /\ head' \in [count : Nat, hash : Hashes]
<1> DEFINE x == Sealed(w)
<1>1. writer[w].seq = head.count + 1 /\ writer[w].prev = head.hash /\ head.count \in Nat
  BY FreeIsNext DEF Applies
<1>2. x.seq = head.count + 1 /\ x.prev = head.hash /\ x.hash = <<w, head.count + 1>>
  BY <1>1 DEF Sealed
<1>3. events' = events \cup {x} /\ head' = [count |-> head.count + 1, hash |-> x.hash]
  BY <1>1, <1>2 DEF Applies
<1>4. x \in Events /\ x.hash \in Hashes
  BY <1>1, <1>2 DEF Sealed, Events, Hashes, ChainInv, AuditTypeOK
<1> HIDE DEF x
<1>5. Numbered'
  <2>1. \A e \in events : e.seq \in 1 .. head.count
    BY DEF ChainInv, Numbered
  <2>2. \A n \in 1 .. head.count + 1 : \E e \in events' : e.seq = n
    <3> SUFFICES ASSUME NEW n \in 1 .. head.count + 1 PROVE \E e \in events' : e.seq = n
      OBVIOUS
    <3>1. CASE n = head.count + 1
      BY <1>2, <1>3, <3>1
    <3>2. CASE n # head.count + 1
      <4>1. n \in 1 .. head.count
        BY <1>1, <3>2
      <4>2. PICK e \in events : e.seq = n
        BY <4>1 DEF ChainInv, Numbered
      <4> QED
        BY <1>3, <4>2
    <3> QED
      BY <3>1, <3>2
  <2>3. \A d, e \in events' : d.seq = e.seq => d = e
    BY <1>1, <1>2, <1>3, <2>1 DEF ChainInv, Numbered
  <2>4. \A e \in events' : e.seq \in 1 .. head.count + 1
    BY <1>1, <1>2, <1>3, <2>1
  <2> QED
    BY <1>3, <2>2, <2>3, <2>4 DEF Numbered
<1>6. Linked'
  <2>1. \/ x.seq = 1 /\ x.prev = Genesis
        \/ \E d \in events : d.seq = x.seq - 1 /\ x.prev = d.hash
    BY <1>1, <1>2 DEF ChainInv, Linked
  <2>2. \A e \in events' : \/ e.seq = 1 /\ e.prev = Genesis
                           \/ \E d \in events' : d.seq = e.seq - 1 /\ e.prev = d.hash
    BY <1>3, <2>1 DEF ChainInv, Linked
  <2>3. head'.count > 0 /\ \E e \in events' : e.seq = head'.count /\ e.hash = head'.hash
    BY <1>1, <1>2, <1>3
  <2> QED
    BY <1>1, <1>3, <2>2, <2>3 DEF Linked
<1> QED
  BY <1>1, <1>3, <1>4, <1>5, <1>6 DEF ChainInv, AuditTypeOK

\* What the other writers have sealed stays behind the head.
LEMMA OthersStayBehind ==
    ASSUME ChainInv, NEW w \in Writers, Writing(w, "sealed"), Applies(w),
           NEW o \in [phase : {"read", "sealed", "ok", "refused", "error"}, tries : 0 .. MaxTries, seq : Nat, prev : Hashes],
           o.phase # "sealed", o.phase = "read" => o.tries < MaxTries,
           writer' = [writer EXCEPT ![w] = o]
    PROVE  SealedOver'
<1>1. head'.count = head.count + 1 /\ head.count \in Nat
  BY ChainGrows DEF ChainInv, AuditTypeOK
<1>2. ASSUME NEW q \in Writers, q # w
      PROVE  /\ writer'[q] = writer[q]
             /\ writer[q].phase = "read" => writer[q].tries < MaxTries
             /\ writer[q].phase = "sealed" => writer[q].seq \in 1 .. head.count + 1
  BY <1>2 DEF ChainInv, AuditTypeOK, SealedOver, Writing
<1>3. writer'[w] = o
  BY DEF ChainInv, AuditTypeOK
<1> QED
  BY <1>1, <1>2, <1>3 DEF SealedOver, Writing

LEMMA RowGrows ==
    ASSUME ChainInv, NEW w \in Writers, Applies(w)
    PROVE  RowTells' /\ row' \in Changers \cup {Nobody}
<1> DEFINE x == Sealed(w)
<1>1. Author(x) = w /\ x.hash \in Writers \X Nat /\ events' = events \cup {x}
  BY DEF Author, Sealed, Applies, ChainInv, AuditTypeOK
<1> HIDE DEF x
<1>2. CASE w \in Changers
  <2>1. row = Nobody /\ row' = w
    BY <1>2 DEF Applies, Matches
  <2>2. \A v \in Changers : \A e \in events : Author(e) # v
    BY <2>1, AuditAssumption DEF ChainInv, RowTells
  <2>3. \A v \in Changers : row' = v <=> \E e \in events' : Author(e) = v
    BY <1>1, <1>2, <2>1, <2>2
  <2>4. \A d, e \in events' : Author(d) = Author(e) /\ Author(e) \in Changers => d = e
    BY <1>1, <2>2
  <2> QED
    BY <1>1, <1>2, <2>1, <2>3, <2>4 DEF RowTells, ChainInv
<1>3. CASE w \notin Changers
  <2>1. row' = row
    BY <1>3 DEF Applies
  <2>2. \A v \in Changers : (\E e \in events' : Author(e) = v) <=> (\E e \in events : Author(e) = v)
    BY <1>1, <1>3
  <2>3. \A d, e \in events' : Author(d) = Author(e) /\ Author(e) \in Changers => d = e
    BY <1>1, <1>3 DEF ChainInv, RowTells
  <2>4. \A e \in events' : e.hash \in Writers \X Nat
    BY <1>1 DEF ChainInv, RowTells
  <2>5. \A v \in Changers : row' = v <=> \E e \in events' : Author(e) = v
    BY <2>1, <2>2 DEF ChainInv, RowTells
  <2> QED
    BY <2>1, <2>3, <2>4, <2>5 DEF RowTells, ChainInv, AuditTypeOK
<1> QED
  BY <1>2, <1>3

\* Where the verifier stands, an event stays.
LEMMA VerifierStays ==
    ASSUME ChainInv, events \subseteq events', UNCHANGED verifier PROVE VerifierSure'
BY DEF ChainInv, VerifierSure

LEMMA NextState ==
    ASSUME ChainInv, NEW w \in Writers, Writing(w, "sealed"), Again(w)
    PROVE  \E o \in [phase : {"read", "error"}, tries : 0 .. MaxTries, seq : Nat, prev : Hashes] :
              writer' = [writer EXCEPT ![w] = o] /\ (o.phase = "read" => o.tries < MaxTries)
<1> DEFINE o == [writer[w] EXCEPT !.phase = IF writer[w].tries < MaxTries THEN "read" ELSE "error"]
<1>1. writer' = [writer EXCEPT ![w] = o]
  BY DEF Again, Write, ChainInv, AuditTypeOK
<1>2. o \in [phase : {"read", "error"}, tries : 0 .. MaxTries, seq : Nat, prev : Hashes]
  BY DEF ChainInv, AuditTypeOK
<1>3. o.phase = "read" => o.tries < MaxTries
  BY DEF ChainInv, AuditTypeOK
<1> QED
  BY <1>1, <1>2, <1>3

\* A committed batch, whatever its writer makes of it.
LEMMA CommitHolds ==
    ASSUME ChainInv, NEW w \in Writers, Writing(w, "sealed"), Applies(w), UNCHANGED verifier,
           NEW o \in [phase : {"read", "sealed", "ok", "refused", "error"}, tries : 0 .. MaxTries, seq : Nat, prev : Hashes],
           o.phase # "sealed", o.phase = "read" => o.tries < MaxTries,
           writer' = [writer EXCEPT ![w] = o],
           (unheard' = unheard /\ o.phase = "ok") \/ (unheard' = unheard \cup {w} /\ o.phase # "ok")
    PROVE  ChainInv'
<1>1. Numbered' /\ Linked' /\ SealedOver' /\ RowTells' /\ VerifierSure'
  BY ChainGrows, OthersStayBehind, RowGrows, VerifierStays DEF Applies
<1>2. AuditTypeOK'
  BY ChainGrows, RowGrows DEF ChainInv, AuditTypeOK
<1>3. events' = events \cup {Sealed(w)} /\ Author(Sealed(w)) = w
  BY DEF Applies, Author, Sealed
<1>4. ASSUME NEW q \in Writers, q # w
      PROVE  writer'[q] = writer[q] /\ (q \in unheard' <=> q \in unheard)
  BY <1>4 DEF ChainInv, AuditTypeOK
<1>5. writer'[w] = o
  BY DEF ChainInv, AuditTypeOK
<1>6. WritersTell'
  <2>1. ASSUME NEW q \in Writers, q # w
        PROVE  /\ writer'[q].phase = "ok" => \E e \in events' : Author(e) = q
               /\ q \notin unheard' =>
                     /\ \A d, e \in events' : Author(d) = q /\ Author(e) = q => d = e
                     /\ writer'[q].phase # "ok" => \A e \in events' : Author(e) # q
    BY <1>3, <1>4, <2>1 DEF ChainInv, WritersTell, Writing
  <2>2. w \notin unheard' => o.phase = "ok" /\ \A e \in events : Author(e) # w
    BY DEF ChainInv, WritersTell, Writing
  <2>3. \E e \in events' : Author(e) = w
    BY <1>3
  <2>4. w \notin unheard' => \A d, e \in events' : Author(d) = w /\ Author(e) = w => d = e
    BY <1>3, <2>2
  <2> QED
    BY <1>5, <2>1, <2>2, <2>3, <2>4 DEF WritersTell, Writing
<1> QED
  BY <1>1, <1>2, <1>6 DEF ChainInv
-----------------------------------------------------------------------------
(* Steps that leave the chain alone.                                       *)

LEMMA WriterHolds ==
    ASSUME ChainInv, NEW w \in Writers, ~Writing(w, "ok"), UNCHANGED <<chainVars, unheard, verifier>>,
           NEW o \in [phase : {"read", "sealed", "refused", "error"}, tries : 0 .. MaxTries, seq : Nat, prev : Hashes],
           o.phase = "read" => o.tries < MaxTries,
           o.phase = "sealed" => o.seq = head.count + 1 /\ o.prev = head.hash,
           writer' = [writer EXCEPT ![w] = o]
    PROVE  ChainInv'
<1>1. writer'[w] = o /\ \A q \in Writers : q # w => writer'[q] = writer[q]
  BY DEF ChainInv, AuditTypeOK
<1>2. AuditTypeOK'
  BY DEF ChainInv, AuditTypeOK, chainVars
<1>3. Numbered' /\ Linked' /\ RowTells' /\ VerifierSure'
  BY DEF ChainInv, Numbered, Linked, RowTells, VerifierSure, chainVars
<1>4. SealedOver'
  BY <1>1 DEF ChainInv, AuditTypeOK, SealedOver, Writing, chainVars
<1>5. WritersTell'
  BY <1>1 DEF ChainInv, WritersTell, Writing, chainVars
<1> QED
  BY <1>2, <1>3, <1>4, <1>5 DEF ChainInv

LEMMA ReadHeadHolds == ASSUME ChainInv, NEW w \in Writers, ReadHead(w) PROVE ChainInv'
<1> DEFINE o == [phase |-> "sealed", tries |-> writer[w].tries + 1, seq |-> head.count + 1, prev |-> head.hash]
<1>1. writer' = [writer EXCEPT ![w] = o] /\ UNCHANGED <<chainVars, unheard, verifier>> /\ ~Writing(w, "ok")
  BY DEF ReadHead, Writing
<1>2. writer[w].tries < MaxTries /\ writer[w].tries \in 0 .. MaxTries /\ head.count \in Nat /\ head.hash \in Hashes
  BY DEF ReadHead, ChainInv, AuditTypeOK, SealedOver
<1>3. o \in [phase : {"read", "sealed", "refused", "error"}, tries : 0 .. MaxTries, seq : Nat, prev : Hashes]
  BY <1>2, AuditAssumption
<1> QED
  BY <1>1, <1>3, WriterHolds

LEMMA CommitAppendHolds == ASSUME ChainInv, NEW w \in Writers, CommitAppend(w) PROVE ChainInv'
<1>1. CASE Applies(w) /\ Write(w, "ok")
  <2>1. PICK o : o = [writer[w] EXCEPT !.phase = "ok"] /\ writer' = [writer EXCEPT ![w] = o]
    BY <1>1 DEF Write, ChainInv, AuditTypeOK
  <2>2. o \in [phase : {"read", "sealed", "ok", "refused", "error"}, tries : 0 .. MaxTries, seq : Nat, prev : Hashes]
        /\ o.phase = "ok"
    BY <2>1 DEF ChainInv, AuditTypeOK
  <2>3. o.phase # "sealed" /\ (o.phase = "read" => o.tries < MaxTries)
    BY <2>2
  <2>4. Writing(w, "sealed") /\ UNCHANGED verifier /\ (unheard' = unheard /\ o.phase = "ok")
    BY <2>2 DEF CommitAppend
  <2> QED
    BY <1>1, <2>1, <2>2, <2>3, <2>4, CommitHolds
<1>2. CASE Write(w, "refused") /\ UNCHANGED <<events, head, row>>
  <2> DEFINE o == [writer[w] EXCEPT !.phase = "refused"]
  <2>1. writer' = [writer EXCEPT ![w] = o]
    BY <1>2 DEF Write, ChainInv, AuditTypeOK
  <2>2. o \in [phase : {"read", "sealed", "refused", "error"}, tries : 0 .. MaxTries, seq : Nat, prev : Hashes]
        /\ o.phase = "refused"
    BY DEF ChainInv, AuditTypeOK
  <2>3. UNCHANGED <<chainVars, unheard, verifier>> /\ ~Writing(w, "ok")
    BY <1>2 DEF CommitAppend, chainVars, Writing
  <2> HIDE DEF o
  <2> QED
    BY <2>1, <2>2, <2>3, WriterHolds
<1> QED
  BY <1>1, <1>2 DEF CommitAppend

LEMMA AppendAbortsHolds == ASSUME ChainInv, NEW w \in Writers, AppendAborts(w) PROVE ChainInv'
<1>1. Writing(w, "sealed") /\ ~Writing(w, "ok") /\ Again(w) /\ UNCHANGED <<chainVars, unheard, verifier>>
  BY DEF AppendAborts, Writing
<1>2. PICK o \in [phase : {"read", "error"}, tries : 0 .. MaxTries, seq : Nat, prev : Hashes] :
             writer' = [writer EXCEPT ![w] = o] /\ (o.phase = "read" => o.tries < MaxTries)
  BY <1>1, NextState
<1> QED
  BY <1>1, <1>2, WriterHolds

LEMMA AppendUnheardHolds == ASSUME ChainInv, NEW w \in Writers, AppendUnheard(w) PROVE ChainInv'
<1>1. Writing(w, "sealed") /\ Again(w) /\ Applies(w) /\ UNCHANGED verifier /\ unheard' = unheard \cup {w}
  BY DEF AppendUnheard
<1>2. PICK o \in [phase : {"read", "error"}, tries : 0 .. MaxTries, seq : Nat, prev : Hashes] :
             writer' = [writer EXCEPT ![w] = o] /\ (o.phase = "read" => o.tries < MaxTries)
  BY <1>1, NextState
<1> QED
  BY <1>1, <1>2, CommitHolds
-----------------------------------------------------------------------------
(* The verifier.                                                           *)

\* A page is the stretch of the next PageSize numbers.
LEMMA PageIsStretch ==
    ASSUME ChainInv
    PROVE  Page = {e \in events : verifier.after < e.seq /\ e.seq <= verifier.after + PageSize}
<1> DEFINE a == verifier.after
<1>1. a \in Nat /\ PageSize \in Nat /\ head.count \in Nat
  BY AuditAssumption DEF ChainInv, AuditTypeOK
<1>2. ASSUME NEW e \in events, e.seq > a
      PROVE  Cardinality({d \in events : a < d.seq /\ d.seq <= e.seq}) = e.seq - a
  <2>1. e.seq \in Nat /\ a <= e.seq /\ e.seq <= head.count
    BY <1>1, <1>2 DEF ChainInv, Numbered
  <2> HIDE DEF a
  <2> QED
    BY <1>1, <2>1, StretchCounts
<1>3. \A e \in events : e.seq \in Nat
  BY <1>1 DEF ChainInv, Numbered
<1> QED
  BY <1>1, <1>2, <1>3 DEF Page

LEMMA PagesFit == ASSUME ChainInv PROVE PageLinked
<1> DEFINE a == verifier.after
<1>1. a \in Nat /\ PageSize \in Nat /\ head.count \in Nat
  BY AuditAssumption DEF ChainInv, AuditTypeOK
<1>2. \A e \in events : e.seq \in Nat /\ e.seq <= head.count /\ e.seq > 0
  BY <1>1 DEF ChainInv, Numbered
<1> SUFFICES ASSUME NEW e \in Page
             PROVE  /\ e.seq = a + Cardinality({d \in Page : d.seq <= e.seq})
                    /\ \/ e.seq = a + 1 /\ e.prev = verifier.prev
                       \/ \E d \in Page : d.seq = e.seq - 1 /\ e.prev = d.hash
  BY DEF PageLinked
<1>3. e \in events /\ a < e.seq /\ e.seq <= a + PageSize
  BY PageIsStretch
<1>4. {d \in Page : d.seq <= e.seq} = {d \in events : a < d.seq /\ d.seq <= e.seq}
  BY <1>1, <1>2, <1>3, PageIsStretch
<1>5. Cardinality({d \in events : a < d.seq /\ d.seq <= e.seq}) = e.seq - a
  <2>1. e.seq \in Nat /\ a <= e.seq /\ e.seq <= head.count
    BY <1>1, <1>2, <1>3
  <2> HIDE DEF a
  <2> QED
    BY <1>1, <2>1, StretchCounts
<1>6. e.seq = a + Cardinality({d \in Page : d.seq <= e.seq})
  <2> DEFINE n == Cardinality({d \in Page : d.seq <= e.seq})
  <2>1. n = e.seq - a
    BY <1>4, <1>5, Zenon
  <2> HIDE DEF n
  <2>2. e.seq = a + n
    BY <1>1, <1>2, <1>3, <2>1
  <2> QED
    BY <2>2 DEF n
<1>7. CASE e.seq = 1
  <2>1. a = 0 /\ e.prev = Genesis
    BY <1>1, <1>2, <1>3, <1>7 DEF ChainInv, Linked
  <2>2. verifier.prev = Genesis
    BY <1>2, <2>1 DEF ChainInv, VerifierSure
  <2> QED
    BY <1>7, <1>6, <2>1, <2>2
<1>8. CASE e.seq # 1
  <2>1. PICK d \in events : d.seq = e.seq - 1 /\ e.prev = d.hash
    BY <1>3, <1>8 DEF ChainInv, Linked
  <2>2. CASE e.seq = a + 1
    <3>1. a # 0
      BY <1>8, <2>2
    <3>2. PICK c \in events : c.seq = a /\ c.hash = verifier.prev
      BY <3>1 DEF ChainInv, VerifierSure
    <3>3. c = d
      BY <1>1, <2>1, <2>2, <3>2 DEF ChainInv, Numbered
    <3> QED
      BY <1>6, <2>1, <2>2, <3>2, <3>3
  <2>3. CASE e.seq # a + 1
    <3>1. d \in Page
      BY <1>1, <1>2, <1>3, <2>1, <2>3, PageIsStretch
    <3> QED
      BY <1>6, <2>1, <3>1
  <2> QED
    BY <2>2, <2>3
<1> QED
  BY <1>7, <1>8

\* The last event of a page that is not empty.
LEMMA LastOfPage ==
    ASSUME ChainInv, Page # {} PROVE \E e \in Page : \A d \in Page : d.seq <= e.seq
<1> DEFINE a == verifier.after
           m == IF head.count <= a + PageSize THEN head.count ELSE a + PageSize
<1>1. a \in Nat /\ PageSize \in Nat /\ PageSize > 0 /\ head.count \in Nat
  BY AuditAssumption DEF ChainInv, AuditTypeOK
<1>2. \A e \in events : e.seq \in Nat /\ e.seq <= head.count
  BY <1>1 DEF ChainInv, Numbered
<1>3. PICK c \in events : a < c.seq /\ c.seq <= a + PageSize
  BY PageIsStretch
<1>4. m \in 1 .. head.count /\ a < m /\ m <= a + PageSize
  BY <1>1, <1>2, <1>3
<1>5. PICK e \in events : e.seq = m
  BY <1>4 DEF ChainInv, Numbered
<1>6. e \in Page
  BY <1>4, <1>5, PageIsStretch
<1>7. \A d \in Page : d.seq <= m
  BY <1>1, <1>2, PageIsStretch
<1> QED
  BY <1>5, <1>6, <1>7

LEMMA VerifierHolds == ASSUME ChainInv, VerifyPage \/ VerifyAgain PROVE ChainInv'
<1>1. UNCHANGED <<events, head, row, writer, unheard>>
  BY DEF VerifyPage, VerifyAgain, chainVars
<1>2. Numbered' /\ Linked' /\ SealedOver' /\ RowTells' /\ WritersTell'
  BY <1>1 DEF ChainInv, Numbered, Linked, SealedOver, RowTells, WritersTell, Writing
<1>3. VerifierSure' /\ verifier' \in [after : Nat, prev : Hashes, verdict : {"none", "valid", "invalid"}]
  <2>1. CASE VerifyAgain
    BY <1>1, <2>1 DEF VerifyAgain, Verifying, VerifierSure, Hashes
  <2>2. CASE VerifyPage /\ verifier' = [verifier EXCEPT !.verdict = "valid"]
    BY <1>1, <2>2 DEF ChainInv, AuditTypeOK, VerifierSure
  <2>3. CASE VerifyPage /\ ~(Cardinality(Page) < PageSize)
    <3> DEFINE last == CHOOSE e \in Page : \A d \in Page : d.seq <= e.seq
    <3>1. Page # {}
      BY <2>3, FS_EmptySet, AuditAssumption
    <3>2. last \in Page
      BY <3>1, LastOfPage
    <3>3. last \in events /\ last.seq \in Nat /\ last.hash \in Hashes
      BY <3>2, PageIsStretch DEF ChainInv, AuditTypeOK, Events
    <3>4. verifier' = [verifier EXCEPT !.after = last.seq, !.prev = last.hash]
      BY <2>3, PagesFit DEF VerifyPage
    <3> HIDE DEF last
    <3> QED
      BY <1>1, <3>3, <3>4 DEF ChainInv, AuditTypeOK, VerifierSure
  <2>4. CASE VerifyPage /\ Cardinality(Page) < PageSize
    BY <2>2, <2>4, PagesFit DEF VerifyPage
  <2> QED
    BY <2>1, <2>3, <2>4
<1> QED
  BY <1>1, <1>2, <1>3 DEF ChainInv, AuditTypeOK

LEMMA AuditStepHolds == ChainInv /\ [AuditNext]_auditVars => ChainInv'
<1> SUFFICES ASSUME ChainInv, [AuditNext]_auditVars PROVE ChainInv'
  OBVIOUS
<1>1. ASSUME NEW w \in Writers, ReadHead(w) \/ CommitAppend(w) \/ AppendAborts(w) \/ AppendUnheard(w) PROVE ChainInv'
  BY <1>1, ReadHeadHolds, CommitAppendHolds, AppendAbortsHolds, AppendUnheardHolds
<1>2. CASE UNCHANGED auditVars
  BY <1>2 DEF auditVars, chainVars, ChainInv, AuditTypeOK, Numbered, Linked, SealedOver, RowTells, WritersTell,
              VerifierSure, Writing
<1> QED
  BY <1>1, <1>2, VerifierHolds DEF AuditNext

\* The inductive invariant of the audit chain.
THEOREM ChainInvariantHolds == AuditSpec => []ChainInv
<1> QED
  BY AuditInitHolds, AuditStepHolds, PTL DEF AuditSpec

\* The type invariant of the chain, its writers and its verifier.
THEOREM AuditTypeCorrect == AuditSpec => []AuditTypeOK
<1>1. ChainInv => AuditTypeOK
  BY DEF ChainInv
<1> QED
  BY <1>1, ChainInvariantHolds, PTL

LEMMA ChainIsLinked == ChainInv => ChainLinked
<1> SUFFICES ASSUME ChainInv PROVE ChainLinked
  OBVIOUS
<1>1. head.count \in Nat
  BY DEF ChainInv, AuditTypeOK
<1>2. Cardinality({d \in events : 0 < d.seq /\ d.seq <= head.count}) = head.count
  BY <1>1, StretchCounts
<1>3. events = {d \in events : 0 < d.seq /\ d.seq <= head.count}
  BY <1>1 DEF ChainInv, Numbered
<1>4. Cardinality(events) = head.count
  BY <1>2, <1>3, Zenon
<1> QED
  BY <1>4 DEF ChainInv, Numbered, Linked, ChainLinked

\* Events of one author that are all one event.
LEMMA OwnCount ==
    ASSUME NEW w, \A d, e \in events : Author(d) = w /\ Author(e) = w => d = e
    PROVE  Cardinality(OwnEvents(w)) = IF \E e \in events : Author(e) = w THEN 1 ELSE 0
<1>1. CASE \E e \in events : Author(e) = w
  <2>1. PICK e \in events : Author(e) = w
    BY <1>1
  <2>2. OwnEvents(w) = {e}
    BY <2>1 DEF OwnEvents, Author
  <2> QED
    BY <1>1, <2>2, FS_Singleton
<1>2. CASE ~\E e \in events : Author(e) = w
  <2>1. OwnEvents(w) = {}
    BY <1>2 DEF OwnEvents, Author
  <2> QED
    BY <1>2, <2>1, FS_EmptySet
<1> QED
  BY <1>1, <1>2

LEMMA AnswersAreTrue == ChainInv => AnswersHold
<1> SUFFICES ASSUME ChainInv PROVE AnswersHold
  OBVIOUS
<1>1. ASSUME NEW w \in Changers PROVE Cardinality(OwnEvents(w)) = IF row = w THEN 1 ELSE 0
  <2>1. /\ \A d, e \in events : Author(d) = w /\ Author(e) = w => d = e
        /\ row = w <=> \E e \in events : Author(e) = w
    BY DEF ChainInv, RowTells
  <2> QED
    BY <2>1, OwnCount
<1>2. ASSUME NEW w \in Writers, Writing(w, "ok") PROVE OwnEvents(w) # {}
  BY <1>2 DEF ChainInv, WritersTell, OwnEvents, Author
<1>3. ASSUME NEW w \in Writers, w \notin unheard
      PROVE  /\ Cardinality(OwnEvents(w)) <= 1
             /\ writer[w].phase \in {"refused", "error"} => OwnEvents(w) = {}
  <2>1. \A d, e \in events : Author(d) = w /\ Author(e) = w => d = e
    BY <1>3 DEF ChainInv, WritersTell
  <2>2. Cardinality(OwnEvents(w)) \in {0, 1}
    BY <2>1, OwnCount
  <2>3. ~Writing(w, "ok") => OwnEvents(w) = {}
    BY <1>3 DEF ChainInv, WritersTell, OwnEvents, Author
  <2> QED
    BY <2>2, <2>3 DEF Writing
<1> QED
  BY <1>1, <1>2, <1>3 DEF AnswersHold

\* However many writers race for appendAuditEvent's numbers, abort, try again and lose
\* replies: the chain is linked, the answers are true, and verifyAuditChain beside them
\* never calls it invalid.
THEOREM ChainVouchesAlways == AuditSpec => []ChainVouches
<1>1. ChainInv => ChainVouches
  BY ChainIsLinked, AnswersAreTrue DEF ChainInv, VerifierSure, ChainVouches
<1> QED
  BY <1>1, ChainInvariantHolds, PTL
=============================================================================
