---------------------------- MODULE SweepProofs ----------------------------
(***************************************************************************)
(* The cron's sweeps over rows that several of them may take: the scheduled *)
(* observations of module ObservationLoop and the outbox of module         *)
(* NotificationOutbox, for any number of sweeps.                           *)
(***************************************************************************)
EXTENDS MCPlatformServices, WalletProofs, ServiceProofs, FiniteSetTheorems, TLAPS
-----------------------------------------------------------------------------
(* ObservationLoop implements ObservationSchedule: what a sweep remembers of *)
(* an occurrence stays true, or the occurrence is completed and the sweep can *)
(* do nothing to it.                                                       *)

Phases == {"idle", "listing", "due", "taking", "claimed", "verified", "unverified", "broken", "failing"}
ObserverStates == [phase : Phases, at : 0 .. Horizon, tries : 0 .. MaxCount, plan : 0 .. Horizon + 1]
ClaimTables == [Occurrences -> [status : ClaimStates, attempts : 0 .. MaxCount]]

\* What a sweep remembers: an occurrence that has come, is the next one or completed,
\* and was attempted as often as the sweep has read, or will have been.
Informed(o, table, next, now) ==
    o.phase \notin {"idle", "listing"} =>
        /\ o.at \in Occurrences /\ o.at <= now
        /\ next = o.at \/ table[o.at].status = "completed"
        /\ o.phase = "taking" => o.tries <= CountUp(table[o.at].attempts)
        /\ o.phase \notin {"due", "taking"} => o.tries <= table[o.at].attempts
        /\ o.phase = "verified" => o.at < o.plan

ClaimsKnow ==
    \A k \in Occurrences :
        /\ claims[k].status = "none" <=> claims[k].attempts = 0
        /\ k \in checkpoints => claims[k].status = "completed"

ObserversKnow == \A s \in Observers : Informed(observer[s], claims, nextRun, clock)

LoopInv == LoopTypeOK /\ ClaimsKnow /\ ObserversKnow

\* How the claims and the schedule may move under a sweep that does not look.
Evolves(table, later, next, then) ==
    /\ \A k \in Occurrences : /\ table[k].attempts <= later[k].attempts
                              /\ table[k].status = "completed" => later[k].status = "completed"
    /\ next = then \/ next = 0 \/ later[next].status = "completed"

LEMMA Persists ==
    ASSUME NEW o \in ObserverStates, NEW table \in ClaimTables, NEW later \in ClaimTables,
           NEW next, NEW then, NEW now \in Int, NEW soon \in Int, now <= soon,
           Evolves(table, later, next, then), Informed(o, table, next, now)
    PROVE  Informed(o, later, then, soon)
<1> SUFFICES ASSUME o.phase \notin {"idle", "listing"}
             PROVE  /\ o.at \in Occurrences /\ o.at <= soon
                    /\ then = o.at \/ later[o.at].status = "completed"
                    /\ o.phase = "taking" => o.tries <= CountUp(later[o.at].attempts)
                    /\ o.phase \notin {"due", "taking"} => o.tries <= later[o.at].attempts
                    /\ o.phase = "verified" => o.at < o.plan
  BY DEF Informed
<1>1. /\ o.at \in Occurrences /\ o.at <= now
      /\ next = o.at \/ table[o.at].status = "completed"
      /\ o.phase = "taking" => o.tries <= CountUp(table[o.at].attempts)
      /\ o.phase \notin {"due", "taking"} => o.tries <= table[o.at].attempts
      /\ o.phase = "verified" => o.at < o.plan
  BY DEF Informed
<1>2. o.at \in Int /\ o.at # 0 /\ o.tries \in Int
  BY <1>1, LoopAssumption DEF Occurrences, ObserverStates
<1>3. /\ table[o.at].attempts \in 0 .. MaxCount /\ later[o.at].attempts \in 0 .. MaxCount
      /\ table[o.at].attempts <= later[o.at].attempts
      /\ table[o.at].status = "completed" => later[o.at].status = "completed"
  BY <1>1 DEF ClaimTables, Evolves
<1>4. CountUp(table[o.at].attempts) <= CountUp(later[o.at].attempts)
      /\ CountUp(table[o.at].attempts) \in Int /\ CountUp(later[o.at].attempts) \in Int
  BY <1>3, LoopAssumption DEF CountUp
<1>5. then = o.at \/ later[o.at].status = "completed"
  BY <1>1, <1>2, <1>3 DEF Evolves
<1> QED
  BY <1>1, <1>2, <1>3, <1>4, <1>5, LoopAssumption

LEMMA CountUpCounts ==
    \A n \in 0 .. MaxCount : CountUp(n) \in 0 .. MaxCount /\ CountUp(n) > 0 /\ CountUp(n) \in n .. n + 1
  BY LoopAssumption DEF CountUp

\* The others persist when one observer moves.
LEMMA OthersPersist ==
    ASSUME LoopInv, LoopTypeOK', clock <= clock', Evolves(claims, claims', nextRun, nextRun'),
           NEW q \in Observers, observer'[q] = observer[q]
    PROVE  Informed(observer'[q], claims', nextRun', clock')
<1>1. observer[q] \in ObserverStates /\ claims \in ClaimTables /\ claims' \in ClaimTables
      /\ clock \in Int /\ clock' \in Int
  BY DEF LoopInv, LoopTypeOK, ObserverStates, ClaimTables, Phases, Occurrences
<1>2. Informed(observer[q], claims, nextRun, clock)
  BY DEF LoopInv, ObserversKnow
<1> QED
  BY <1>1, <1>2, Persists

LEMMA LoopInitHolds == LoopInit => LoopInv
<1> SUFFICES ASSUME LoopInit PROVE LoopInv
  OBVIOUS
<1>1. LoopTypeOK
  <2>1. {0, 1} \subseteq 0 .. Horizon + 1 /\ 1 \in Occurrences
        /\ 0 \in 0 .. MaxCount /\ 0 \in 0 .. Horizon /\ 0 \in 0 .. MaxSetbacks
    BY LoopAssumption DEF Occurrences
  <2>2. claims \in [Occurrences -> [status : ClaimStates, attempts : 0 .. MaxCount]]
    BY <2>1 DEF LoopInit, ClaimStates
  <2>3. observer = [s \in Observers |-> IdleObserver]
    BY DEF LoopInit
  <2>4. /\ IdleObserver \in ObserverStates /\ taskStatus \in TaskStates /\ nextRun \in 0 .. Horizon + 1
        /\ clock \in Occurrences /\ setbacks \in 0 .. MaxSetbacks
    BY <2>1, LoopAssumption DEF LoopInit, TaskStates, IdleObserver, ObserverStates, Phases
  <2> QED
    BY <2>2, <2>3, <2>4 DEF LoopInit, LoopTypeOK, ObserverStates, Phases
<1>2. ClaimsKnow /\ ObserversKnow
  BY DEF LoopInit, ClaimsKnow, ObserversKnow, Informed, IdleObserver
<1> QED
  BY <1>1, <1>2 DEF LoopInv

\* A step of one observer that leaves the tables alone.
LEMMA QuietStep ==
    ASSUME LoopInv, UNCHANGED <<taskVars, clock, claims, checkpoints>>,
           NEW s \in Observers, NEW o \in ObserverStates,
           observer' = [observer EXCEPT ![s] = o], Informed(o, claims, nextRun, clock),
           vain' \in BOOLEAN, setbacks' \in 0 .. MaxSetbacks
    PROVE  LoopInv'
<1>1. LoopTypeOK'
  BY DEF LoopInv, LoopTypeOK, ObserverStates, Phases, taskVars
<1>2. ClaimsKnow'
  BY DEF LoopInv, ClaimsKnow
<1>3. ObserversKnow'
  BY DEF LoopInv, LoopTypeOK, ObserversKnow, taskVars
<1> QED
  BY <1>1, <1>2, <1>3 DEF LoopInv

\* A step of an observer, or of nobody, that moves the tables.
LEMMA MovingStep ==
    ASSUME LoopInv, LoopTypeOK', ClaimsKnow', clock <= clock',
           Evolves(claims, claims', nextRun, nextRun'),
           NEW s, \A q \in Observers \ {s} : observer'[q] = observer[q],
           s \in Observers => Informed(observer'[s], claims', nextRun', clock')
    PROVE  LoopInv'
<1>1. ASSUME NEW q \in Observers PROVE Informed(observer'[q], claims', nextRun', clock')
  <2>1. CASE q = s
    BY <2>1
  <2>2. CASE q # s
    BY <2>2, OthersPersist
  <2> QED
    BY <2>1, <2>2
<1> QED
  BY <1>1 DEF LoopInv, ObserversKnow

LEMMA IdleInformed ==
    IdleObserver \in ObserverStates
    /\ \A table, next, now : Informed(IdleObserver, table, next, now)
  BY LoopAssumption DEF IdleObserver, ObserverStates, Phases, Informed

\* What an observer knows when it is past its listing.
LEMMA Knows ==
    ASSUME LoopInv, NEW s \in Observers, observer[s].phase \notin {"idle", "listing"}
    PROVE  /\ observer[s] \in ObserverStates
           /\ observer[s].at \in Occurrences /\ observer[s].at <= clock
           /\ nextRun = observer[s].at \/ claims[observer[s].at].status = "completed"
           /\ observer[s].phase = "taking" => observer[s].tries <= CountUp(claims[observer[s].at].attempts)
           /\ observer[s].phase \notin {"due", "taking"} => observer[s].tries <= claims[observer[s].at].attempts
           /\ observer[s].phase = "verified" => observer[s].at < observer[s].plan
           /\ claims[observer[s].at] \in [status : ClaimStates, attempts : 0 .. MaxCount]
  BY DEF LoopInv, LoopTypeOK, ObserversKnow, Informed, ObserverStates, Phases

\* An observer that moves on with what it knows.
LEMMA PhaseMoves ==
    ASSUME LoopInv, UNCHANGED <<taskVars, clock, claims, checkpoints>>, NEW s \in Observers,
           NEW p \in Phases, Observe(s, p),
           observer[s].phase \notin {"idle", "listing", "due", "taking"}, p \in {"unverified", "broken", "failing"},
           vain' \in BOOLEAN, setbacks' \in 0 .. MaxSetbacks
    PROVE  LoopInv'
<1> DEFINE o == [observer[s] EXCEPT !.phase = p]
<1>1. o \in ObserverStates /\ Informed(o, claims, nextRun, clock)
  BY Knows DEF Informed, ObserverStates
<1>2. observer' = [observer EXCEPT ![s] = o]
  BY DEF Observe
<1> QED
  BY <1>1, <1>2, QuietStep

LEMMA StartSweepHolds ==
    ASSUME LoopInv, NEW s \in Observers, StartSweep(s) PROVE LoopInv'
<1>1. clock \in 1 .. Horizon /\ nextRun \in 0 .. Horizon + 1 /\ Horizon \in Nat
  BY LoopAssumption DEF LoopInv, LoopTypeOK, Occurrences
<1>2. nextRun' \in 0 .. Horizon + 1 /\ (nextRun' = nextRun \/ nextRun = 0)
  BY <1>1 DEF StartSweep
<1>3. LoopTypeOK'
  BY <1>2 DEF StartSweep, Observe, LoopInv, LoopTypeOK
<1>4. ClaimsKnow'
  BY DEF StartSweep, LoopInv, ClaimsKnow
<1>5. Evolves(claims, claims', nextRun, nextRun')
  BY <1>2 DEF StartSweep, Evolves, LoopInv, LoopTypeOK
<1>6. /\ \A q \in Observers \ {s} : observer'[q] = observer[q]
      /\ observer'[s].phase = "listing" /\ clock <= clock'
  BY <1>1 DEF StartSweep, Observe, LoopInv, LoopTypeOK
<1> QED
  BY <1>3, <1>4, <1>5, <1>6, MovingStep DEF Informed

LEMMA ListTaskHolds ==
    ASSUME LoopInv, NEW s \in Observers, ListTask(s) PROVE LoopInv'
<1>1. vain' \in BOOLEAN /\ setbacks' \in 0 .. MaxSetbacks /\ UNCHANGED <<taskVars, clock, claims, checkpoints>>
  BY DEF ListTask, LoopInv, LoopTypeOK
<1>2. CASE Leave(s)
  BY <1>1, <1>2, IdleInformed, QuietStep DEF Leave
<1>3. CASE nextRun \in 1 .. clock
           /\ observer' = [observer EXCEPT ![s] = [IdleObserver EXCEPT !.phase = "due", !.at = nextRun]]
  <2> DEFINE o == [IdleObserver EXCEPT !.phase = "due", !.at = nextRun]
  <2>1. clock \in 1 .. Horizon /\ Horizon \in Nat
    BY LoopAssumption DEF LoopInv, LoopTypeOK, Occurrences
  <2>2. nextRun \in Occurrences /\ nextRun <= clock /\ nextRun \in 0 .. Horizon
    BY <1>3, <2>1 DEF Occurrences
  <2>3. o \in ObserverStates /\ Informed(o, claims, nextRun, clock)
    BY <2>2, IdleInformed DEF Informed, ObserverStates, IdleObserver, Phases
  <2> QED
    BY <1>1, <1>3, <2>3, QuietStep
<1> QED
  BY <1>2, <1>3 DEF ListTask

\* A step of an observer that moves the claim of one occurrence.
LEMMA ClaimStep ==
    ASSUME LoopInv, NEW s \in Observers, NEW o \in ObserverStates, NEW k \in Occurrences,
           NEW c \in [status : ClaimStates \ {"none"}, attempts : 1 .. MaxCount],
           claims' = [claims EXCEPT ![k] = c], observer' = [observer EXCEPT ![s] = o],
           claims[k].attempts <= c.attempts, claims[k].status = "completed" => c.status = "completed",
           Informed(o, claims', nextRun, clock),
           UNCHANGED <<kind, nextRun, clock, checkpoints>>,
           taskStatus' \in TaskStates, vain' \in BOOLEAN, setbacks' \in 0 .. MaxSetbacks
    PROVE  LoopInv'
<1>1. claims \in ClaimTables /\ c \in [status : ClaimStates, attempts : 0 .. MaxCount]
  BY LoopAssumption DEF LoopInv, LoopTypeOK, ClaimTables
<1>2. claims' \in ClaimTables
  BY <1>1 DEF ClaimTables
<1>3. LoopTypeOK'
  BY <1>2 DEF LoopInv, LoopTypeOK, ObserverStates, ClaimTables, Phases
<1>4. claims'[k] = c /\ \A j \in Occurrences \ {k} : claims'[j] = claims[j]
  BY <1>1 DEF ClaimTables
<1>5. \A j \in Occurrences : claims[j].attempts \in Int
  BY <1>1 DEF ClaimTables
<1>6. ClaimsKnow'
  <2> SUFFICES ASSUME NEW j \in Occurrences
               PROVE  /\ claims'[j].status = "none" <=> claims'[j].attempts = 0
                      /\ j \in checkpoints => claims'[j].status = "completed"
    BY DEF ClaimsKnow
  <2>1. CASE j = k
    <3>1. c.status # "none" /\ c.attempts # 0
      OBVIOUS
    <3> QED
      BY <1>4, <2>1, <3>1 DEF LoopInv, ClaimsKnow
  <2>2. CASE j # k
    BY <1>4, <2>2 DEF LoopInv, ClaimsKnow
  <2> QED
    BY <2>1, <2>2
<1>7. Evolves(claims, claims', nextRun, nextRun')
  BY <1>4, <1>5 DEF Evolves
<1>8. clock <= clock' /\ \A q \in Observers \ {s} : observer'[q] = observer[q]
  BY DEF LoopInv, LoopTypeOK, Occurrences
<1>9. observer'[s] = o
  BY DEF LoopInv, LoopTypeOK
<1> QED
  BY <1>3, <1>6, <1>7, <1>8, <1>9, MovingStep

LEMMA ClaimOccurrenceHolds ==
    ASSUME LoopInv, NEW s \in Observers, ClaimOccurrence(s) PROVE LoopInv'
<1> DEFINE k == observer[s].at
<1>1. /\ observer[s] \in ObserverStates /\ k \in Occurrences /\ k <= clock
      /\ nextRun = k \/ claims[k].status = "completed"
      /\ claims[k] \in [status : ClaimStates, attempts : 0 .. MaxCount]
  BY Knows DEF ClaimOccurrence, Observing
<1>2. vain' \in BOOLEAN /\ setbacks' \in 0 .. MaxSetbacks /\ UNCHANGED <<taskVars, clock, checkpoints, vain, setbacks>>
  BY DEF ClaimOccurrence, LoopInv, LoopTypeOK
<1>3. CASE claims[k].status = "none"
  <2> DEFINE o == [observer[s] EXCEPT !.phase = "claimed", !.tries = 1]
             c == [status |-> "running", attempts |-> 1]
  <2>1. claims' = [claims EXCEPT ![k] = c] /\ observer' = [observer EXCEPT ![s] = o]
    BY <1>3 DEF ClaimOccurrence
  <2>2. 1 \in 0 .. MaxCount /\ 1 \in 1 .. MaxCount
    BY LoopAssumption
  <2>3. o \in ObserverStates /\ c \in [status : ClaimStates \ {"none"}, attempts : 1 .. MaxCount]
    BY <1>1, <2>2 DEF ObserverStates, Phases, ClaimStates
  <2>4. claims[k].attempts <= c.attempts
    BY <1>1, <1>3 DEF LoopInv, ClaimsKnow
  <2>5. claims'[k] = c /\ o.at = k /\ o.tries = 1 /\ o.phase = "claimed"
    BY <1>1, <2>1 DEF LoopInv, LoopTypeOK, ObserverStates
  <2>6. Informed(o, claims', nextRun, clock)
    BY <1>1, <1>3, <2>5 DEF Informed
  <2>7. taskStatus' \in TaskStates
    BY <1>2 DEF LoopInv, LoopTypeOK, taskVars
  <2> HIDE DEF o, c
  <2> QED
    BY <1>1, <1>2, <1>3, <2>1, <2>3, <2>4, <2>6, <2>7, ClaimStep DEF taskVars
<1>4. CASE claims[k].status \in {"failed", "running"}
  <2> DEFINE o == [observer[s] EXCEPT !.phase = "taking", !.tries = CountUp(claims[k].attempts)]
  <2>1. UNCHANGED claims /\ observer' = [observer EXCEPT ![s] = o]
    BY <1>4 DEF ClaimOccurrence
  <2>2. CountUp(claims[k].attempts) \in 0 .. MaxCount
    BY <1>1, CountUpCounts
  <2>3. o \in ObserverStates
    BY <1>1, <2>2 DEF ObserverStates, Phases
  <2>4. o.at = k /\ o.phase = "taking" /\ o.tries = CountUp(claims[k].attempts)
    BY <1>1 DEF ObserverStates
  <2>5. Informed(o, claims, nextRun, clock)
    BY <1>1, <2>2, <2>4 DEF Informed
  <2> HIDE DEF o
  <2> QED
    BY <1>2, <2>1, <2>3, <2>5, QuietStep
<1>5. CASE Leave(s) /\ UNCHANGED claims
  BY <1>2, <1>5, IdleInformed, QuietStep DEF Leave
<1> QED
  BY <1>3, <1>4, <1>5 DEF ClaimOccurrence

LEMMA TakeClaimHolds ==
    ASSUME LoopInv, NEW s \in Observers, TakeClaim(s) PROVE LoopInv'
<1> DEFINE k == observer[s].at
           o == [observer[s] EXCEPT !.phase = "claimed"]
           c == [status |-> "running", attempts |-> CountUp(claims[k].attempts)]
<1>1. /\ observer[s] \in ObserverStates /\ k \in Occurrences /\ k <= clock
      /\ nextRun = k \/ claims[k].status = "completed"
      /\ observer[s].tries <= CountUp(claims[k].attempts)
      /\ claims[k] \in [status : ClaimStates, attempts : 0 .. MaxCount]
  BY Knows DEF TakeClaim, Observing
<1>2. CountUp(claims[k].attempts) \in 1 .. MaxCount /\ claims[k].attempts <= CountUp(claims[k].attempts)
  BY <1>1, CountUpCounts
<1>3. claims' = [claims EXCEPT ![k] = c] /\ observer' = [observer EXCEPT ![s] = o]
  BY <1>1 DEF TakeClaim, Observe, LoopInv, LoopTypeOK
<1>4. o \in ObserverStates /\ c \in [status : ClaimStates \ {"none"}, attempts : 1 .. MaxCount]
  BY <1>1, <1>2 DEF ObserverStates, Phases, ClaimStates
<1>5. claims[k].status # "completed"
  BY DEF TakeClaim
<1>6. claims'[k] = c /\ o.at = k /\ o.tries = observer[s].tries /\ o.phase = "claimed"
      /\ c.attempts = CountUp(claims[k].attempts)
  BY <1>1, <1>3 DEF LoopInv, LoopTypeOK, ObserverStates
<1>7. Informed(o, claims', nextRun, clock)
  BY <1>1, <1>5, <1>6 DEF Informed
<1>8. /\ UNCHANGED <<kind, nextRun, clock, checkpoints>>
      /\ taskStatus' \in TaskStates /\ vain' \in BOOLEAN
  BY DEF TakeClaim, LoopInv, LoopTypeOK, taskVars
<1>9. setbacks' \in 0 .. MaxSetbacks
  BY LoopAssumption DEF TakeClaim, LoopInv, LoopTypeOK
<1>10. claims[k].attempts <= c.attempts
  BY <1>2, <1>6
<1> HIDE DEF o, c
<1> QED
  BY <1>1, <1>3, <1>4, <1>5, <1>7, <1>8, <1>9, <1>10, ClaimStep

LEMMA ReadSourcesHolds ==
    ASSUME LoopInv, NEW s \in Observers, ReadSources(s) PROVE LoopInv'
<1>1. vain' \in BOOLEAN /\ setbacks' \in 0 .. MaxSetbacks /\ UNCHANGED <<taskVars, clock, claims, checkpoints>>
  BY DEF ReadSources, LoopInv, LoopTypeOK
<1>2. CASE observer' = [observer EXCEPT ![s].phase = "verified", ![s].plan = clock + 1]
  <2> DEFINE o == [observer[s] EXCEPT !.phase = "verified", !.plan = clock + 1]
  <2>1. clock \in 1 .. Horizon /\ clock + 1 \in 0 .. Horizon + 1
    BY LoopAssumption DEF LoopInv, LoopTypeOK, Occurrences
  <2>2. observer' = [observer EXCEPT ![s] = o]
    BY <1>2
  <2>3. observer[s] \in ObserverStates /\ observer[s].phase = "claimed" /\ observer[s].at \in Int
    BY Knows DEF ReadSources, Observing, ObserverStates
  <2>4. o \in ObserverStates /\ o.at = observer[s].at /\ o.tries = observer[s].tries
        /\ o.phase = "verified" /\ o.plan = clock + 1
    BY <2>1, <2>3 DEF ObserverStates, Phases
  <2>5. Informed(o, claims, nextRun, clock)
    BY <2>1, <2>3, <2>4, Knows DEF Informed
  <2> HIDE DEF o
  <2> QED
    BY <1>1, <2>2, <2>4, <2>5, QuietStep
<1>3. CASE \E phase \in {"unverified", "broken"} : Observe(s, phase)
  BY <1>1, <1>3, PhaseMoves DEF ReadSources, Observing, Phases
<1> QED
  BY <1>2, <1>3 DEF ReadSources

LEMMA ObservationCommitHolds ==
    ASSUME LoopInv, NEW s \in Observers, Commit(s) PROVE LoopInv'
<1> DEFINE k == observer[s].at
           c == [claims[k] EXCEPT !.status = "completed"]
<1>1. /\ observer[s] \in ObserverStates /\ k \in Occurrences /\ k <= clock
      /\ k < observer[s].plan /\ observer[s].tries <= claims[k].attempts
      /\ claims[k] \in [status : ClaimStates, attempts : 0 .. MaxCount]
  BY Knows DEF Commit, Observing
<1>2. claims \in ClaimTables
  BY DEF LoopInv, LoopTypeOK, ClaimTables
<1>3. /\ claims' = [claims EXCEPT ![k] = c] /\ checkpoints' = checkpoints \cup {k}
      /\ nextRun = k /\ nextRun' = observer[s].plan /\ claims[k].status = "running"
      /\ UNCHANGED <<kind, taskStatus, clock, vain>>
      /\ setbacks' \in 0 .. MaxSetbacks
  BY <1>2, LoopAssumption DEF Commit, StillMine, LoopInv, LoopTypeOK, ClaimTables
<1>4. c \in [status : ClaimStates, attempts : 0 .. MaxCount] /\ c.status = "completed"
      /\ c.attempts = claims[k].attempts
  BY <1>1 DEF ClaimStates
<1>5. claims' \in ClaimTables /\ claims'[k] = c /\ \A j \in Occurrences \ {k} : claims'[j] = claims[j]
  BY <1>1, <1>2, <1>3, <1>4 DEF ClaimTables
<1> HIDE DEF c
<1>6. PICK o \in {IdleObserver, [observer[s] EXCEPT !.phase = "broken"]} : observer' = [observer EXCEPT ![s] = o]
  BY DEF Commit, Leave, Observe
<1>7. o \in ObserverStates
  BY <1>1, <1>6, IdleInformed DEF ObserverStates, Phases
<1>8. observer[s].plan \in 0 .. Horizon + 1
  BY <1>1 DEF ObserverStates
<1>9. LoopTypeOK'
  BY <1>1, <1>3, <1>5, <1>6, <1>7, <1>8 DEF LoopInv, LoopTypeOK, ClaimTables, ObserverStates, Phases
<1>10. ClaimsKnow'
  BY <1>1, <1>3, <1>4, <1>5 DEF LoopInv, ClaimsKnow
<1>11. \A j \in Occurrences : claims[j].attempts \in Int
  BY <1>2 DEF ClaimTables
<1>12. Evolves(claims, claims', nextRun, nextRun')
  BY <1>3, <1>4, <1>5, <1>11 DEF Evolves
<1>13. clock <= clock' /\ \A q \in Observers \ {s} : observer'[q] = observer[q]
  BY <1>3, <1>6 DEF LoopInv, LoopTypeOK, Occurrences
<1>14. Informed(observer'[s], claims', nextRun', clock')
  <2>1. observer'[s] = o
    BY <1>6 DEF LoopInv, LoopTypeOK
  <2>2. CASE o = IdleObserver
    BY <2>1, <2>2, IdleInformed
  <2>3. CASE o = [observer[s] EXCEPT !.phase = "broken"]
    <3>1. o.at = k /\ o.tries = observer[s].tries /\ o.phase = "broken"
      BY <1>1, <2>3 DEF ObserverStates
    <3> QED
      BY <1>1, <1>3, <1>4, <1>5, <2>1, <3>1 DEF Informed
  <2> QED
    BY <1>6, <2>2, <2>3
<1> QED
  BY <1>9, <1>10, <1>12, <1>13, <1>14, MovingStep

LEMMA FailuresHold ==
    ASSUME LoopInv, NEW s \in Observers, CommitAborts(s) \/ Disappointed(s) PROVE LoopInv'
<1>1. CASE CommitAborts(s)
  <2>1. setbacks' \in 0 .. MaxSetbacks /\ vain' \in BOOLEAN
    BY <1>1, LoopAssumption DEF CommitAborts, LoopInv, LoopTypeOK
  <2> QED
    BY <1>1, <2>1, PhaseMoves DEF CommitAborts, Observing, Phases
<1>2. CASE Disappointed(s)
  <2>1. setbacks' \in 0 .. MaxSetbacks
    <3> PICK asked \in BOOLEAN : asked = (AsksOwner(s) /\ StillMine(s))
      OBVIOUS
    <3>1. (asked => setbacks < MaxSetbacks) /\ setbacks' = setbacks + (IF asked THEN 1 ELSE 0)
      BY <1>2, Zenon DEF Disappointed
    <3> QED
      BY <3>1, LoopAssumption DEF LoopInv, LoopTypeOK
  <2>2. vain' \in BOOLEAN
    BY <1>2, Zenon DEF Disappointed, LoopInv, LoopTypeOK
  <2> QED
    BY <1>2, <2>1, <2>2, PhaseMoves DEF Disappointed, Observing, Phases
<1> QED
  BY <1>1, <1>2

\* A claim that ends with its sweep, for the owner or for the next attempt.  A sweep
\* that has not heard of the owner's asking goes on to end the claim.
LEMMA ClaimsFail ==
    ASSUME LoopInv, NEW s \in Observers, AskOwner(s) \/ FailClaim(s) PROVE LoopInv'
<1> DEFINE k == observer[s].at
           o == IF observer' = [observer EXCEPT ![s] = IdleObserver] THEN IdleObserver
                ELSE [observer[s] EXCEPT !.phase = "failing"]
<1>1. /\ k \in Occurrences /\ claims[k] \in [status : ClaimStates, attempts : 0 .. MaxCount]
      /\ observer[s] \in ObserverStates /\ observer[s].phase \notin {"due", "taking"}
      /\ observer[s].phase \notin {"idle", "listing"}
  BY Knows DEF AskOwner, AsksOwner, FailClaim, Observing
<1>2. /\ UNCHANGED <<kind, nextRun, clock, checkpoints>>
      /\ taskStatus' \in TaskStates /\ setbacks' \in 0 .. MaxSetbacks
  BY LoopAssumption DEF AskOwner, FailClaim, LoopInv, LoopTypeOK, TaskStates, taskVars
<1>3. vain' \in BOOLEAN
  BY Zenon DEF AskOwner, FailClaim, LoopInv, LoopTypeOK
<1>4. claims \in ClaimTables
  BY DEF LoopInv, LoopTypeOK, ClaimTables
<1>o. observer' = [observer EXCEPT ![s] = o]
  BY DEF AskOwner, FailClaim, Observe, Leave
<1>5. CASE claims[k].status = "running"
  <2> DEFINE c == [claims[k] EXCEPT !.status = "failed"]
  <2>1. claims' = [claims EXCEPT ![k] = c]
    BY <1>4, <1>5 DEF AskOwner, FailClaim, ClaimTables
  <2>2. claims[k].attempts # 0
    BY <1>1, <1>5 DEF LoopInv, ClaimsKnow
  <2>3. c \in [status : ClaimStates \ {"none"}, attempts : 1 .. MaxCount] /\ claims[k].attempts <= c.attempts
    BY <1>1, <2>2 DEF ClaimStates
  <2>4. c.status = "failed"
    BY <1>1
  <2>5. claims'[k] = c
    BY <1>1, <1>4, <2>1 DEF ClaimTables
  <2> HIDE DEF c
  <2>6. o \in ObserverStates /\ Informed(o, claims', nextRun', clock')
    <3>1. CASE o = IdleObserver
      BY <3>1, IdleInformed
    <3>2. CASE o = [observer[s] EXCEPT !.phase = "failing"]
      <4>1. o \in ObserverStates /\ o.at = k /\ o.tries = observer[s].tries /\ o.phase = "failing"
        BY <1>1, <3>2 DEF ObserverStates, Phases
      <4>2. k <= clock' /\ (nextRun' = k \/ claims'[k].status = "completed") /\ o.tries <= c.attempts
        <5>1. k <= clock /\ nextRun = k /\ observer[s].tries <= claims[k].attempts
          BY <1>1, <1>5, Knows
        <5>2. /\ observer[s].tries \in Int /\ claims[k].attempts \in Int /\ c.attempts \in Int
              /\ claims[k].attempts <= c.attempts
          BY <1>1, <2>3 DEF ObserverStates
        <5> QED
          BY <1>2, <4>1, <5>1, <5>2
      <4> HIDE DEF o
      <4> QED
        BY <1>1, <2>5, <4>1, <4>2 DEF Informed
    <3> QED
      BY <3>1, <3>2
  <2> HIDE DEF o
  <2> QED
    BY <1>1, <1>2, <1>3, <1>5, <1>o, <2>1, <2>3, <2>6, ClaimStep
<1>6. CASE claims[k].status # "running"
  <2>1. FailClaim(s)
    BY <1>6 DEF AskOwner, StillMine
  <2>2. claims' = claims /\ UNCHANGED <<taskVars, clock, checkpoints>>
    BY <1>4, <1>6, <2>1 DEF FailClaim, ClaimTables
  <2>3. observer' = [observer EXCEPT ![s] = IdleObserver]
    BY <2>1 DEF FailClaim, Leave
  <2> QED
    BY <1>1, <1>2, <1>3, <2>2, <2>3, IdleInformed, QuietStep
<1> QED
  BY <1>5, <1>6

LEMMA LeavingHolds ==
    ASSUME LoopInv, NEW s \in Observers, LeaveClaim(s) \/ LoseObserver(s) PROVE LoopInv'
<1>1. /\ observer' = [observer EXCEPT ![s] = IdleObserver]
      /\ UNCHANGED <<taskVars, clock, claims, checkpoints>> /\ vain' \in BOOLEAN
  BY DEF LeaveClaim, LoseObserver, Leave, LoopInv, LoopTypeOK
<1>2. setbacks' \in 0 .. MaxSetbacks
  BY LoopAssumption DEF LeaveClaim, LoseObserver, LoopInv, LoopTypeOK
<1> QED
  BY <1>1, <1>2, IdleInformed, QuietStep

LEMMA WorldHolds ==
    ASSUME LoopInv, Tick \/ \E to \in TaskStates : OwnerSets(to) PROVE LoopInv'
<1>1. clock \in 1 .. Horizon /\ nextRun \in 0 .. Horizon + 1
  BY DEF LoopInv, LoopTypeOK, Occurrences
<1>2. UNCHANGED <<claims, checkpoints, observer, vain, setbacks, kind>>
  BY DEF Tick, OwnerSets, taskVars
<1>3. /\ clock' \in 1 .. Horizon /\ clock <= clock' /\ nextRun' \in 0 .. Horizon + 1
      /\ taskStatus' \in TaskStates /\ (nextRun' = nextRun \/ nextRun = 0)
  BY <1>1, LoopAssumption DEF Tick, OwnerSets, taskVars, LoopInv, LoopTypeOK
<1>4. LoopTypeOK'
  BY <1>2, <1>3 DEF LoopInv, LoopTypeOK, Occurrences
<1>5. ClaimsKnow'
  BY <1>2 DEF LoopInv, ClaimsKnow
<1>6. Evolves(claims, claims', nextRun, nextRun')
  BY <1>2, <1>3 DEF Evolves, LoopInv, LoopTypeOK
<1>7. ObserversKnow'
  <2>1. ASSUME NEW q \in Observers PROVE Informed(observer'[q], claims', nextRun', clock')
    BY <1>2, <1>3, <1>4, <1>6, OthersPersist
  <2> QED
    BY <2>1 DEF ObserversKnow
<1> QED
  BY <1>4, <1>5, <1>7 DEF LoopInv

LEMMA LoopStepHolds == LoopInv /\ [LoopNext]_loopVars => LoopInv'
<1> SUFFICES ASSUME LoopInv, [LoopNext]_loopVars PROVE LoopInv'
  OBVIOUS
<1>1. ASSUME NEW s \in Observers, StartSweep(s) \/ Observation(s) \/ LoseObserver(s) PROVE LoopInv'
  BY <1>1, StartSweepHolds, ListTaskHolds, ClaimOccurrenceHolds, TakeClaimHolds, ReadSourcesHolds, ObservationCommitHolds,
     FailuresHold, ClaimsFail, LeavingHolds DEF Observation
<1>2. CASE UNCHANGED loopVars
  <2>1. LoopTypeOK' /\ ClaimsKnow' /\ ObserversKnow'
    BY <1>2 DEF loopVars, taskVars, LoopInv, LoopTypeOK, ClaimsKnow, ObserversKnow
  <2> QED
    BY <2>1 DEF LoopInv
<1> QED
  BY <1>1, <1>2, WorldHolds DEF LoopNext

\* The inductive invariant of the observation loops.
THEOREM LoopInvariantHolds == LoopSpec => []LoopInv
<1>1. LoopInit => LoopInv
  BY LoopInitHolds
<1>2. LoopInv /\ [LoopNext]_loopVars => LoopInv'
  BY LoopStepHolds
<1> QED
  BY <1>1, <1>2, PTL DEF LoopSpec

\* The type invariant: what the tables of a task and its sweeps can hold.
THEOREM LoopTypeCorrect == LoopSpec => []LoopTypeOK
<1>1. LoopInv => LoopTypeOK
  BY DEF LoopInv
<1> QED
  BY <1>1, LoopInvariantHolds, PTL
-----------------------------------------------------------------------------
(* The refinement.                                                         *)

Tried == [k \in Occurrences |-> claims[k].attempts]
Promised == Schedule!ScheduleNext \/ UNCHANGED Schedule!scheduleVars

\* Steps that leave the schedule, the checkpoints and the attempts as they are.
LEMMA NothingPromised ==
    ASSUME UNCHANGED <<taskStatus, nextRun, checkpoints, Tried>> PROVE Promised
BY DEF Tried, Promised, Schedule!scheduleVars

\* The insertion of a claim, and its takeover, are attempts at the next occurrence.
LEMMA AttemptPromised ==
    ASSUME LoopInv, NEW s \in Observers, ClaimOccurrence(s) \/ TakeClaim(s) PROVE Promised
<1> DEFINE k == observer[s].at
<1>1. k \in Occurrences /\ k \in Int /\ (nextRun = k \/ claims[k].status = "completed")
  BY DEF LoopInv, ObserversKnow, Informed, ClaimOccurrence, TakeClaim, Observing, Occurrences
<1>2. claims \in ClaimTables /\ UNCHANGED <<taskStatus, nextRun, checkpoints>>
  BY DEF LoopInv, LoopTypeOK, ClaimTables, ClaimOccurrence, TakeClaim, taskVars
<1>3. CASE UNCHANGED claims
  BY <1>2, <1>3, NothingPromised DEF Tried
<1>4. CASE claims' # claims
  <2>1. claims[k].status # "completed"
    BY <1>4 DEF ClaimOccurrence, TakeClaim
  <2>2. PICK n \in claims[k].attempts .. claims[k].attempts + 1 :
          claims' = [claims EXCEPT ![k] = [status |-> "running", attempts |-> n]]
    <3>1. CASE ClaimOccurrence(s)
      <4>1. claims[k].attempts = 0 /\ claims' = [claims EXCEPT ![k] = [status |-> "running", attempts |-> 1]]
        BY <1>1, <1>4, <3>1 DEF ClaimOccurrence, LoopInv, ClaimsKnow
      <4> QED
        BY <4>1
    <3>2. CASE TakeClaim(s)
      <4>1. claims[k].attempts \in 0 .. MaxCount
        BY <1>1, <1>2 DEF ClaimTables
      <4>2. claims' = [claims EXCEPT ![k] = [status |-> "running", attempts |-> CountUp(claims[k].attempts)]]
        BY <1>1, <1>2, <3>2 DEF TakeClaim, ClaimTables
      <4> QED
        BY <4>1, <4>2, CountUpCounts
    <3> QED
      BY <3>1, <3>2
  <2>3. Tried' = [Tried EXCEPT ![nextRun] = n] /\ Tried[nextRun] = claims[k].attempts
    BY <1>1, <1>2, <2>1, <2>2 DEF Tried, ClaimTables
  <2>4. nextRun \in Schedule!Occurrences
    BY <1>1, <2>1 DEF Occurrences, Schedule!Occurrences
  <2>5. Schedule!Attempt
    BY <1>2, <2>2, <2>3, <2>4 DEF Schedule!Attempt, Tried
  <2> QED
    BY <2>5 DEF Promised, Schedule!ScheduleNext
<1> QED
  BY <1>3, <1>4

\* The batch verifies an occurrence that was attempted and never verified.
LEMMA CommitPromised ==
    ASSUME LoopInv, NEW s \in Observers, Commit(s) PROVE Promised
<1> DEFINE k == observer[s].at
<1>1. k \in Occurrences /\ k = nextRun /\ claims[k].status = "running" /\ taskStatus = "active"
  BY DEF LoopInv, ObserversKnow, Informed, Commit, StillMine, Observing
<1>2. k < observer[s].plan /\ observer[s].plan \in k + 1 .. Horizon + 1
  <2>1. k < observer[s].plan
    BY DEF LoopInv, ObserversKnow, Informed, Commit, Observing
  <2>2. observer[s].plan \in 0 .. Horizon + 1
    BY DEF LoopInv, LoopTypeOK
  <2> HIDE DEF k
  <2> QED
    BY <1>1, <2>1, <2>2, LoopAssumption DEF Occurrences
<1>3. claims[k].attempts \in 0 .. MaxCount /\ claims[k].attempts # 0 /\ k \notin checkpoints
  BY <1>1 DEF LoopInv, LoopTypeOK, ClaimsKnow
<1>4. claims' = [claims EXCEPT ![k].status = "completed"] /\ claims \in ClaimTables
  BY DEF Commit, LoopInv, LoopTypeOK, ClaimTables
<1>5. Tried' = Tried /\ Tried[k] > 0
  BY <1>1, <1>3, <1>4, LoopAssumption DEF Tried, ClaimTables
<1>6. checkpoints' = checkpoints \cup {k} /\ nextRun' = observer[s].plan /\ UNCHANGED taskStatus
  BY DEF Commit
<1>7. Schedule!Verify
  BY <1>1, <1>2, <1>3, <1>5, <1>6 DEF Schedule!Verify, Tried, Occurrences, Schedule!Occurrences
<1> QED
  BY <1>7 DEF Promised, Schedule!ScheduleNext

\* Whoever asks the owner has seen three attempts, and they are still there.
LEMMA AskPromised ==
    ASSUME LoopInv, NEW s \in Observers, AskOwner(s) PROVE Promised
<1> DEFINE k == observer[s].at
<1>1. observer[s].phase \in {"unverified", "broken"} /\ observer[s].tries >= Enough
      /\ claims[k].status = "running" /\ taskStatus = "active" /\ nextRun = k
  BY DEF AskOwner, AsksOwner, StillMine, Observing
<1>2. k \in Occurrences /\ observer[s].tries <= claims[k].attempts
  BY <1>1 DEF LoopInv, ObserversKnow, Informed
<1>3. claims[k].attempts \in 0 .. MaxCount /\ observer[s].tries \in 0 .. MaxCount /\ claims \in ClaimTables
  BY <1>2 DEF LoopInv, LoopTypeOK, ClaimTables
<1>4. claims' = [claims EXCEPT ![k].status = "failed"]
  BY DEF AskOwner
<1>5. Tried' = Tried /\ Tried[k] >= Enough
  BY <1>1, <1>2, <1>3, <1>4, LoopAssumption DEF Tried, ClaimTables
<1>6. taskStatus' = "paused" /\ UNCHANGED <<nextRun, checkpoints>>
  BY DEF AskOwner
<1>7. Schedule!AskOwner
  BY <1>1, <1>2, <1>5, <1>6 DEF Schedule!AskOwner, Tried, Occurrences, Schedule!Occurrences
<1> QED
  BY <1>7 DEF Promised, Schedule!ScheduleNext

\* A schedule begins when an active task has none; the owner moves nothing else.
LEMMA StartPromised ==
    ASSUME LoopInv, NEW s \in Observers, StartSweep(s) PROVE Promised
<1>1. UNCHANGED <<taskStatus, claims, checkpoints>>
  BY DEF StartSweep
<1>2. CASE nextRun' = nextRun
  BY <1>1, <1>2, NothingPromised DEF Tried
<1>3. CASE nextRun' # nextRun
  <2>1. taskStatus = "active" /\ nextRun = 0 /\ nextRun' = clock /\ clock \in Occurrences
    BY <1>3 DEF StartSweep, LoopInv, LoopTypeOK
  <2>2. Schedule!Begin
    BY <1>1, <2>1 DEF Schedule!Begin, Schedule!Terminal, Schedule!Occurrences, Occurrences
  <2> QED
    BY <2>2 DEF Promised, Schedule!ScheduleNext
<1> QED
  BY <1>2, <1>3

LEMMA OwnerPromised ==
    ASSUME LoopInv, NEW to \in TaskStates, OwnerSets(to) PROVE Promised
<1>1. UNCHANGED <<claims, checkpoints>> /\ taskStatus \notin {"completed", "cancelled"} /\ taskStatus' = to
      /\ clock \in Occurrences
  BY DEF OwnerSets, LoopInv, LoopTypeOK
<1>2. CASE to = "active" /\ nextRun = 0
  <2>1. Schedule!Begin
    BY <1>1, <1>2 DEF OwnerSets, Schedule!Begin, Schedule!Terminal, Schedule!Occurrences, Occurrences
  <2> QED
    BY <2>1 DEF Promised, Schedule!ScheduleNext
<1>3. CASE ~(to = "active" /\ nextRun = 0)
  <2>1. Schedule!OwnerDecides
    BY <1>1, <1>3 DEF OwnerSets, TaskStates, Schedule!OwnerDecides, Schedule!Terminal, Schedule!States
  <2> QED
    BY <2>1 DEF Promised, Schedule!ScheduleNext
<1> QED
  BY <1>2, <1>3

\* What else an observer does promises nothing.
LEMMA RestPromised ==
    ASSUME LoopInv, NEW s \in Observers,
           ListTask(s) \/ LeaveClaim(s) \/ ReadSources(s) \/ CommitAborts(s) \/ Disappointed(s) \/ FailClaim(s)
           \/ LoseObserver(s)
    PROVE  Promised
<1>1. UNCHANGED <<taskStatus, nextRun, checkpoints>>
  BY DEF ListTask, LeaveClaim, ReadSources, CommitAborts, Disappointed, FailClaim, LoseObserver, taskVars
<1>2. claims \in ClaimTables
  BY DEF LoopInv, LoopTypeOK, ClaimTables
<1>3. Tried' = Tried
  <2>1. CASE FailClaim(s)
    BY <1>2, <2>1 DEF FailClaim, Tried, ClaimTables
  <2>2. CASE ~FailClaim(s)
    <3>1. UNCHANGED claims
      BY <2>2 DEF ListTask, LeaveClaim, ReadSources, CommitAborts, Disappointed, LoseObserver
    <3> QED
      BY <3>1 DEF Tried
  <2> QED
    BY <2>1, <2>2
<1> QED
  BY <1>1, <1>3, NothingPromised

LEMMA StepPromised == LoopInv /\ [LoopNext]_loopVars => Promised
<1> SUFFICES ASSUME LoopInv, [LoopNext]_loopVars PROVE Promised
  OBVIOUS
<1>1. ASSUME NEW s \in Observers, StartSweep(s) \/ Observation(s) \/ LoseObserver(s) PROVE Promised
  BY <1>1, StartPromised, AttemptPromised, CommitPromised, AskPromised, RestPromised DEF Observation
<1>2. CASE Tick \/ UNCHANGED loopVars
  BY <1>2, NothingPromised DEF Tick, loopVars, taskVars, Tried
<1> QED
  BY <1>1, <1>2, OwnerPromised DEF LoopNext

LEMMA InitPromised == LoopInit => Schedule!ScheduleInit
BY DEF LoopInit, Schedule!ScheduleInit, Occurrences, Schedule!Occurrences

\* Each sweep, whatever it overlaps or takes over, does to the task only what the
\* schedule promises: the claims, checkpoints and next_run_at of agent_persistent_tasks.
THEOREM ScheduleKept == LoopSpec => ImplementsSchedule
<1>1. LoopInv /\ [LoopNext]_loopVars => [Schedule!ScheduleNext]_(Schedule!scheduleVars)
  BY StepPromised DEF Promised
<1> QED
  BY <1>1, InitPromised, LoopInvariantHolds, PTL DEF LoopSpec, ImplementsSchedule, Schedule!ScheduleSpec
-----------------------------------------------------------------------------
(* NotificationOutbox: what is sent twice, and the allowance that is spent. *)

\* A sweep has one row in hand.
OneInHand == \A s \in Sweeps : \A n, m \in delivery[s].note : n = m

\* What a sweep lists, holds or has sent is in the table.
SeenIsQueued ==
    \A n \in Notes : outbox[n] = "none" =>
        /\ sends[n] = 0
        /\ \A s \in Sweeps : n \notin delivery[s].note \cup delivery[s].todo

\* A producer at work has one notification in hand, and an allowance is a message's.
ProducersHold ==
    \A p \in Producers : producer[p].phase # "idle" =>
        \E n \in Notes : /\ producer[p].note = {n}
                         /\ producer[p].phase \in {"reserve", "release"} => n \in Messages

\* A sweep may still have a notification accepted, or give the row back for another to
\* do so.
Permits(s, n) == n \in delivery[s].note /\ delivery[s].phase \in {"claimed", "ready", "failing"}
Permitted(n)  == {s \in Sweeps : Permits(s, n)}
RowPermits(n) == IF outbox[n] \in {"none", "queued"} THEN 1 ELSE 0

\* An acceptance takes a permission, and only an excuse makes a new one.
PermissionsCounted ==
    \A n \in Notes : sends[n] + Cardinality(Permitted(n)) + RowPermits(n) <= 1 + excuses[n]

OutboxInv == OutboxTypeOK /\ OneInHand /\ SeenIsQueued /\ ProducersHold /\ PermissionsCounted /\ QuotaAccounted

Sweep == [phase : SweepPhases, todo : SUBSET Notes, note : SUBSET Notes, seen : [Notes -> Nat]]
-----------------------------------------------------------------------------
(* What a sweep's step may do.                                             *)

LEMMA IdleSweepIsSweep == IdleSweep \in Sweep /\ IdleSweep.phase = "idle" /\ IdleSweep.note = {} /\ IdleSweep.todo = {}
<1>1. [n \in Notes |-> 0] \in [Notes -> Nat]
  OBVIOUS
<1> QED
  BY <1>1 DEF IdleSweep, Sweep, SweepPhases

LEMMA Delivers ==
  ASSUME OutboxTypeOK, NEW s \in Sweeps, NEW phase \in SweepPhases, Deliver(s, phase)
  PROVE  /\ delivery' \in [Sweeps -> Sweep]
         /\ delivery'[s].phase = phase /\ delivery'[s].note = delivery[s].note
         /\ delivery'[s].todo = delivery[s].todo
         /\ \A r \in Sweeps \ {s} : delivery'[r] = delivery[r]
<1>0. delivery \in [Sweeps -> Sweep]
  BY DEF OutboxTypeOK, Sweep
<1>1. [delivery[s] EXCEPT !.phase = phase] \in Sweep
  BY <1>0 DEF Sweep
<1> PICK new \in Sweep : new = [delivery[s] EXCEPT !.phase = phase]
  BY <1>1
<1>2. delivery' = [delivery EXCEPT ![s] = new]
  BY DEF Deliver
<1>3. new.phase = phase /\ new.note = delivery[s].note /\ new.todo = delivery[s].todo
  BY <1>0 DEF Sweep
<1> QED
  BY <1>0, <1>2, <1>3

LEMMA GivesUp ==
  ASSUME OutboxTypeOK, NEW s \in Sweeps, NEW n \in Notes, GiveUp(s, n)
  PROVE  /\ delivery' \in [Sweeps -> Sweep]
         /\ delivery'[s].phase = "dead" /\ delivery'[s].note = delivery[s].note
         /\ delivery'[s].todo = delivery[s].todo
         /\ \A r \in Sweeps \ {s} : delivery'[r] = delivery[r]
<1>0. delivery \in [Sweeps -> Sweep]
  BY DEF OutboxTypeOK, Sweep
<1>s. delivery[s].seen \in [Notes -> Nat] /\ delivery[s].seen[n] + 1 \in Nat
  BY <1>0 DEF Sweep
<1> PICK seen \in [Notes -> Nat] : seen = [delivery[s].seen EXCEPT ![n] = delivery[s].seen[n] + 1]
  BY <1>s
<1>1. [delivery[s] EXCEPT !.phase = "dead", !.seen = seen] \in Sweep
  BY <1>0 DEF Sweep, SweepPhases
<1> PICK new \in Sweep : new = [delivery[s] EXCEPT !.phase = "dead", !.seen = seen]
  BY <1>1
<1>2. delivery' = [delivery EXCEPT ![s] = new]
  BY <1>0 DEF GiveUp, Sweep
<1>3. new.phase = "dead" /\ new.note = delivery[s].note /\ new.todo = delivery[s].todo
  BY <1>0 DEF Sweep
<1> QED
  BY <1>0, <1>2, <1>3

LEMMA Continues ==
  ASSUME OutboxTypeOK, NEW s \in Sweeps, NEW todo \in SUBSET Notes, GoOn(s, todo)
  PROVE  /\ delivery' \in [Sweeps -> Sweep]
         /\ delivery'[s].phase \in {"listed", "idle"} /\ delivery'[s].note = {}
         /\ delivery'[s].todo = todo
         /\ \A r \in Sweeps \ {s} : delivery'[r] = delivery[r]
<1>0. delivery \in [Sweeps -> Sweep]
  BY DEF OutboxTypeOK, Sweep
<1>1. CASE todo = {}
  <2>1. delivery' = [delivery EXCEPT ![s] = IdleSweep]
    BY <1>1 DEF GoOn
  <2> QED
    BY <1>0, <1>1, <2>1, IdleSweepIsSweep
<1>2. CASE todo # {}
  <2>1. [delivery[s] EXCEPT !.phase = "listed", !.note = {}, !.todo = todo] \in Sweep
    BY <1>0 DEF Sweep, SweepPhases
  <2> PICK new \in Sweep : new = [delivery[s] EXCEPT !.phase = "listed", !.note = {}, !.todo = todo]
    BY <2>1
  <2>2. delivery' = [delivery EXCEPT ![s] = new]
    BY <1>2 DEF GoOn
  <2>3. new.phase = "listed" /\ new.note = {} /\ new.todo = todo
    BY <1>0 DEF Sweep
  <2> QED
    BY <1>0, <2>2, <2>3
<1> QED
  BY <1>1, <1>2

LEMMA GoesOn ==
  ASSUME OutboxTypeOK, NEW s \in Sweeps, NextRow(s)
  PROVE  /\ delivery' \in [Sweeps -> Sweep]
         /\ delivery'[s].phase \in {"listed", "idle"} /\ delivery'[s].note = {}
         /\ delivery'[s].todo = delivery[s].todo
         /\ \A r \in Sweeps \ {s} : delivery'[r] = delivery[r]
<1>1. delivery[s].todo \in SUBSET Notes
  BY DEF OutboxTypeOK
<1> QED
  BY <1>1, Continues DEF NextRow

\* The step of one sweep changes the number of permissions by its own.
LEMMA PermissionsMove ==
  ASSUME OutboxTypeOK, NEW s \in Sweeps, \A r \in Sweeps \ {s} : delivery'[r] = delivery[r], NEW n
  PROVE  /\ Cardinality(Permitted(n)) \in Nat /\ Cardinality(Permitted(n))' \in Nat
         /\ Cardinality(Permitted(n))' = Cardinality(Permitted(n)) + (IF Permits(s, n)' THEN 1 ELSE 0)
                                                                   - (IF Permits(s, n) THEN 1 ELSE 0)
<1>1. IsFiniteSet(Permitted(n)) /\ Cardinality(Permitted(n)) \in Nat
  BY OutboxAssumption, FS_Subset, FS_CardinalityType DEF Permitted
<1>2. \A r \in Sweeps \ {s} : Permits(r, n)' <=> Permits(r, n)
  BY DEF Permits
<1>3. CASE Permits(s, n)' <=> Permits(s, n)
  <2>1. Permitted(n)' = Permitted(n)
    BY <1>2, <1>3 DEF Permitted
  <2> QED
    BY <1>1, <1>3, <2>1
<1>4. CASE Permits(s, n)' /\ ~Permits(s, n)
  <2>1. Permitted(n)' = Permitted(n) \cup {s} /\ s \notin Permitted(n)
    BY <1>2, <1>4 DEF Permitted
  <2>2. Cardinality(Permitted(n)') = Cardinality(Permitted(n)) + 1
    BY <1>1, <2>1, FS_AddElement
  <2> QED
    BY <1>1, <1>4, <2>2
<1>5. CASE ~Permits(s, n)' /\ Permits(s, n)
  <2>1. Permitted(n)' = Permitted(n) \ {s} /\ s \in Permitted(n)
    BY <1>2, <1>5 DEF Permitted
  <2>2. Cardinality(Permitted(n)') = Cardinality(Permitted(n)) - 1 /\ IsFiniteSet(Permitted(n)')
    BY <1>1, <2>1, FS_RemoveElement
  <2>3. Cardinality(Permitted(n)') \in Nat
    BY <2>2, FS_CardinalityType
  <2> QED
    BY <1>1, <1>5, <2>2, <2>3
<1> QED
  BY <1>3, <1>4, <1>5

\* The allowance is accounted for while producers stand still and no row is new.
LEMMA QuotaStays ==
  ASSUME QuotaAccounted, UNCHANGED <<channel, quotaVars>>,
         \A n \in Notes : outbox'[n] = "none" <=> outbox[n] = "none"
  PROVE  QuotaAccounted'
<1>1. Messages' = Messages
  BY DEF Messages
<1>2. {n \in Messages : outbox[n] # "none"}' = {n \in Messages : outbox[n] # "none"}
  BY <1>1 DEF Messages
<1>3. UNCHANGED <<quota, producer, leaks>>
  BY DEF quotaVars
<1> QED
  BY <1>1, <1>2, <1>3 DEF QuotaAccounted

\* What a step of a sweep has to show.
LEMMA SweepKeeps ==
  ASSUME OutboxInv, OutboxTypeOK', NEW s \in Sweeps, \A r \in Sweeps \ {s} : delivery'[r] = delivery[r],
         UNCHANGED <<channel, quotaVars>>,
         \A n, m \in delivery'[s].note : n = m,
         \A n \in delivery'[s].note \cup delivery'[s].todo : outbox[n] # "none",
         \A n \in Notes :
            /\ outbox'[n] = "none" <=> outbox[n] = "none"
            /\ outbox[n] = "none" => sends'[n] = sends[n]
            /\ sends'[n] + (IF Permits(s, n)' THEN 1 ELSE 0) + RowPermits(n)' + excuses[n]
                 <= sends[n] + (IF Permits(s, n) THEN 1 ELSE 0) + RowPermits(n) + excuses'[n]
  PROVE  OutboxInv'
<1> USE DEF OutboxInv
<1>1. OneInHand' /\ SeenIsQueued'
  BY DEF OneInHand, SeenIsQueued
<1>2. ProducersHold'
  BY DEF ProducersHold, quotaVars, Messages
<1>3. PermissionsCounted'
  <2> SUFFICES ASSUME NEW n \in Notes
               PROVE  sends'[n] + Cardinality(Permitted(n))' + RowPermits(n)' <= 1 + excuses'[n]
    BY DEF PermissionsCounted
  <2> PICK k \in Nat, k1 \in Nat : k = Cardinality(Permitted(n)) /\ k1 = Cardinality(Permitted(n))'
    BY PermissionsMove
  <2>1. k1 = k + (IF Permits(s, n)' THEN 1 ELSE 0) - (IF Permits(s, n) THEN 1 ELSE 0)
    BY PermissionsMove
  <2>2. /\ sends[n] \in Nat /\ sends'[n] \in Nat /\ excuses[n] \in Nat /\ excuses'[n] \in Nat
        /\ RowPermits(n) \in {0, 1} /\ RowPermits(n)' \in {0, 1}
    BY DEF OutboxTypeOK, RowPermits
  <2>3. sends[n] + k + RowPermits(n) <= 1 + excuses[n]
    BY DEF PermissionsCounted
  <2>4. sends'[n] + (IF Permits(s, n)' THEN 1 ELSE 0) + RowPermits(n)' + excuses[n]
          <= sends[n] + (IF Permits(s, n) THEN 1 ELSE 0) + RowPermits(n) + excuses'[n]
    OBVIOUS
  <2> QED
    BY <2>1, <2>2, <2>3, <2>4
<1>4. QuotaAccounted'
  BY QuotaStays
<1> QED
  BY <1>1, <1>2, <1>3, <1>4
-----------------------------------------------------------------------------
(* The steps of a sweep.                                                   *)

LEMMA DeferKeeps == ASSUME OutboxInv, NEW s \in Sweeps, NEW n \in Notes, Defer(s, n) PROVE OutboxInv'
<1> USE DEF Has, Sweeping
<1>0. OutboxTypeOK /\ OneInHand /\ SeenIsQueued /\ {Permits(s, m) : m \in Notes} \subseteq BOOLEAN
  BY DEF OutboxInv, Permits
<1>1. /\ delivery' \in [Sweeps -> Sweep]
      /\ delivery'[s].phase \in {"listed", "idle"} /\ delivery'[s].note = {} /\ delivery'[s].todo \subseteq delivery[s].todo
      /\ \A r \in Sweeps \ {s} : delivery'[r] = delivery[r]
  BY <1>0, GoesOn DEF Defer, SweepPhases
<1>2. OutboxTypeOK'
  BY <1>0, <1>1 DEF Defer, OutboxTypeOK, Settled, noteVars, recipient, quotaVars, Sweep
<1>3. /\ \A m, l \in delivery'[s].note : m = l
      /\ \A m \in delivery'[s].note \cup delivery'[s].todo : outbox[m] # "none"
  BY <1>0, <1>1 DEF Defer, OneInHand, SeenIsQueued, OutboxTypeOK
<1>4. ASSUME NEW m \in Notes
      PROVE  /\ outbox'[m] = "none" <=> outbox[m] = "none"
             /\ outbox[m] = "none" => sends'[m] = sends[m]
             /\ sends'[m] + (IF Permits(s, m)' THEN 1 ELSE 0) + RowPermits(m)' + excuses[m]
                  <= sends[m] + (IF Permits(s, m) THEN 1 ELSE 0) + RowPermits(m) + excuses'[m]
  BY <1>0, <1>1 DEF Defer, OutboxTypeOK, OneInHand, SeenIsQueued, Permits, RowPermits, noteVars
<1> QED
  BY <1>1, <1>2, <1>3, <1>4, SweepKeeps DEF Defer, recipient

LEMMA DeliverInsideKeeps == ASSUME OutboxInv, NEW s \in Sweeps, NEW n \in Notes, DeliverInside(s, n) PROVE OutboxInv'
<1> USE DEF Has, Sweeping
<1>0. OutboxTypeOK /\ OneInHand /\ SeenIsQueued /\ {Permits(s, m) : m \in Notes} \subseteq BOOLEAN
  BY DEF OutboxInv, Permits
<1>1. /\ delivery' \in [Sweeps -> Sweep]
      /\ delivery'[s].phase \in {"listed", "idle"} /\ delivery'[s].note = {} /\ delivery'[s].todo \subseteq delivery[s].todo
      /\ \A r \in Sweeps \ {s} : delivery'[r] = delivery[r]
  BY <1>0, GoesOn DEF DeliverInside, SweepPhases, MarkSent, AttemptNo
<1>2. OutboxTypeOK'
  BY <1>0, <1>1 DEF DeliverInside, MarkSent, AttemptNo, OutboxTypeOK, Settled, noteVars, recipient, quotaVars, Sweep
<1>3. /\ \A m, l \in delivery'[s].note : m = l
      /\ \A m \in delivery'[s].note \cup delivery'[s].todo : outbox[m] # "none"
  BY <1>0, <1>1 DEF DeliverInside, OneInHand, SeenIsQueued, OutboxTypeOK
<1>4. ASSUME NEW m \in Notes
      PROVE  /\ outbox'[m] = "none" <=> outbox[m] = "none"
             /\ outbox[m] = "none" => sends'[m] = sends[m]
             /\ sends'[m] + (IF Permits(s, m)' THEN 1 ELSE 0) + RowPermits(m)' + excuses[m]
                  <= sends[m] + (IF Permits(s, m) THEN 1 ELSE 0) + RowPermits(m) + excuses'[m]
  BY <1>0, <1>1 DEF DeliverInside, MarkSent, AttemptNo, OutboxTypeOK, OneInHand, SeenIsQueued, Permits, RowPermits, noteVars
<1> QED
  BY <1>1, <1>2, <1>3, <1>4, SweepKeeps DEF DeliverInside, recipient

LEMMA LookAtRecipientKeeps == ASSUME OutboxInv, NEW s \in Sweeps, NEW n \in Notes, LookAtRecipient(s, n) PROVE OutboxInv'
<1> USE DEF Has, Sweeping
<1>0. OutboxTypeOK /\ OneInHand /\ SeenIsQueued /\ {Permits(s, m) : m \in Notes} \subseteq BOOLEAN
  BY DEF OutboxInv, Permits
<1>1. /\ delivery' \in [Sweeps -> Sweep]
      /\ delivery'[s].phase \in {"ready", "dead"} /\ delivery'[s].note = delivery[s].note /\ delivery'[s].todo = delivery[s].todo
      /\ \A r \in Sweeps \ {s} : delivery'[r] = delivery[r]
  BY <1>0, Delivers, GivesUp DEF LookAtRecipient, SweepPhases
<1>2. OutboxTypeOK'
  BY <1>0, <1>1 DEF LookAtRecipient, OutboxTypeOK, Settled, noteVars, recipient, quotaVars, Sweep
<1>3. /\ \A m, l \in delivery'[s].note : m = l
      /\ \A m \in delivery'[s].note \cup delivery'[s].todo : outbox[m] # "none"
  BY <1>0, <1>1 DEF LookAtRecipient, OneInHand, SeenIsQueued, OutboxTypeOK
<1>4. ASSUME NEW m \in Notes
      PROVE  /\ outbox'[m] = "none" <=> outbox[m] = "none"
             /\ outbox[m] = "none" => sends'[m] = sends[m]
             /\ sends'[m] + (IF Permits(s, m)' THEN 1 ELSE 0) + RowPermits(m)' + excuses[m]
                  <= sends[m] + (IF Permits(s, m) THEN 1 ELSE 0) + RowPermits(m) + excuses'[m]
  BY <1>0, <1>1 DEF LookAtRecipient, OutboxTypeOK, OneInHand, SeenIsQueued, Permits, RowPermits, noteVars
<1> QED
  BY <1>1, <1>2, <1>3, <1>4, SweepKeeps DEF LookAtRecipient, recipient

LEMMA ProviderAcceptsKeeps == ASSUME OutboxInv, NEW s \in Sweeps, NEW n \in Notes, ProviderAccepts(s, n) PROVE OutboxInv'
<1> USE DEF Has, Sweeping
<1>0. OutboxTypeOK /\ OneInHand /\ SeenIsQueued /\ {Permits(s, m) : m \in Notes} \subseteq BOOLEAN
  BY DEF OutboxInv, Permits
<1>1. /\ delivery' \in [Sweeps -> Sweep]
      /\ delivery'[s].phase \in {"accepted"} /\ delivery'[s].note = delivery[s].note /\ delivery'[s].todo = delivery[s].todo
      /\ \A r \in Sweeps \ {s} : delivery'[r] = delivery[r]
  BY <1>0, Delivers DEF ProviderAccepts, SweepPhases
<1>2. OutboxTypeOK'
  BY <1>0, <1>1 DEF ProviderAccepts, OutboxTypeOK, Settled, noteVars, recipient, quotaVars, Sweep
<1>3. /\ \A m, l \in delivery'[s].note : m = l
      /\ \A m \in delivery'[s].note \cup delivery'[s].todo : outbox[m] # "none"
  BY <1>0, <1>1 DEF ProviderAccepts, OneInHand, SeenIsQueued, OutboxTypeOK
<1>4. ASSUME NEW m \in Notes
      PROVE  /\ outbox'[m] = "none" <=> outbox[m] = "none"
             /\ outbox[m] = "none" => sends'[m] = sends[m]
             /\ sends'[m] + (IF Permits(s, m)' THEN 1 ELSE 0) + RowPermits(m)' + excuses[m]
                  <= sends[m] + (IF Permits(s, m) THEN 1 ELSE 0) + RowPermits(m) + excuses'[m]
  BY <1>0, <1>1 DEF ProviderAccepts, OutboxTypeOK, OneInHand, SeenIsQueued, Permits, RowPermits, noteVars
<1> QED
  BY <1>1, <1>2, <1>3, <1>4, SweepKeeps DEF ProviderAccepts, recipient

LEMMA ProviderRefusesKeeps == ASSUME OutboxInv, NEW s \in Sweeps, NEW n \in Notes, ProviderRefuses(s, n) PROVE OutboxInv'
<1> USE DEF Has, Sweeping
<1>0. OutboxTypeOK /\ OneInHand /\ SeenIsQueued /\ {Permits(s, m) : m \in Notes} \subseteq BOOLEAN
  BY DEF OutboxInv, Permits
<1>1. /\ delivery' \in [Sweeps -> Sweep]
      /\ delivery'[s].phase \in {"failing", "dead"} /\ delivery'[s].note = delivery[s].note /\ delivery'[s].todo = delivery[s].todo
      /\ \A r \in Sweeps \ {s} : delivery'[r] = delivery[r]
  BY <1>0, Delivers, GivesUp DEF ProviderRefuses, SweepPhases
<1>2. OutboxTypeOK'
  BY <1>0, <1>1 DEF ProviderRefuses, OutboxTypeOK, Settled, noteVars, recipient, quotaVars, Sweep
<1>3. /\ \A m, l \in delivery'[s].note : m = l
      /\ \A m \in delivery'[s].note \cup delivery'[s].todo : outbox[m] # "none"
  BY <1>0, <1>1 DEF ProviderRefuses, OneInHand, SeenIsQueued, OutboxTypeOK
<1>4. ASSUME NEW m \in Notes
      PROVE  /\ outbox'[m] = "none" <=> outbox[m] = "none"
             /\ outbox[m] = "none" => sends'[m] = sends[m]
             /\ sends'[m] + (IF Permits(s, m)' THEN 1 ELSE 0) + RowPermits(m)' + excuses[m]
                  <= sends[m] + (IF Permits(s, m) THEN 1 ELSE 0) + RowPermits(m) + excuses'[m]
  BY <1>0, <1>1 DEF ProviderRefuses, OutboxTypeOK, OneInHand, SeenIsQueued, Permits, RowPermits, noteVars
<1> QED
  BY <1>1, <1>2, <1>3, <1>4, SweepKeeps DEF ProviderRefuses, recipient

LEMMA RecordSentKeeps == ASSUME OutboxInv, NEW s \in Sweeps, NEW n \in Notes, RecordSent(s, n) PROVE OutboxInv'
<1> USE DEF Has, Sweeping
<1>0. OutboxTypeOK /\ OneInHand /\ SeenIsQueued /\ {Permits(s, m) : m \in Notes} \subseteq BOOLEAN
  BY DEF OutboxInv, Permits
<1>1. /\ delivery' \in [Sweeps -> Sweep]
      /\ delivery'[s].phase \in {"listed", "idle"} /\ delivery'[s].note = {} /\ delivery'[s].todo \subseteq delivery[s].todo
      /\ \A r \in Sweeps \ {s} : delivery'[r] = delivery[r]
  BY <1>0, GoesOn DEF RecordSent, SweepPhases, MarkSent, AttemptNo
<1>2. OutboxTypeOK'
  BY <1>0, <1>1 DEF RecordSent, MarkSent, AttemptNo, OutboxTypeOK, Settled, noteVars, recipient, quotaVars, Sweep
<1>3. /\ \A m, l \in delivery'[s].note : m = l
      /\ \A m \in delivery'[s].note \cup delivery'[s].todo : outbox[m] # "none"
  BY <1>0, <1>1 DEF RecordSent, OneInHand, SeenIsQueued, OutboxTypeOK
<1>4. ASSUME NEW m \in Notes
      PROVE  /\ outbox'[m] = "none" <=> outbox[m] = "none"
             /\ outbox[m] = "none" => sends'[m] = sends[m]
             /\ sends'[m] + (IF Permits(s, m)' THEN 1 ELSE 0) + RowPermits(m)' + excuses[m]
                  <= sends[m] + (IF Permits(s, m) THEN 1 ELSE 0) + RowPermits(m) + excuses'[m]
  BY <1>0, <1>1 DEF RecordSent, MarkSent, AttemptNo, OutboxTypeOK, OneInHand, SeenIsQueued, Permits, RowPermits, noteVars
<1> QED
  BY <1>1, <1>2, <1>3, <1>4, SweepKeeps DEF RecordSent, recipient

LEMMA AcceptanceLostKeeps == ASSUME OutboxInv, NEW s \in Sweeps, NEW n \in Notes, AcceptanceLost(s, n) PROVE OutboxInv'
<1> USE DEF Has, Sweeping
<1>0. OutboxTypeOK /\ OneInHand /\ SeenIsQueued /\ {Permits(s, m) : m \in Notes} \subseteq BOOLEAN
  BY DEF OutboxInv, Permits
<1>1. /\ delivery' \in [Sweeps -> Sweep]
      /\ delivery'[s].phase \in {"failing"} /\ delivery'[s].note = delivery[s].note /\ delivery'[s].todo = delivery[s].todo
      /\ \A r \in Sweeps \ {s} : delivery'[r] = delivery[r]
  BY <1>0, Delivers DEF AcceptanceLost, SweepPhases
<1>2. OutboxTypeOK'
  BY <1>0, <1>1 DEF AcceptanceLost, OutboxTypeOK, Settled, noteVars, recipient, quotaVars, Sweep
<1>3. /\ \A m, l \in delivery'[s].note : m = l
      /\ \A m \in delivery'[s].note \cup delivery'[s].todo : outbox[m] # "none"
  BY <1>0, <1>1 DEF AcceptanceLost, OneInHand, SeenIsQueued, OutboxTypeOK
<1>4. ASSUME NEW m \in Notes
      PROVE  /\ outbox'[m] = "none" <=> outbox[m] = "none"
             /\ outbox[m] = "none" => sends'[m] = sends[m]
             /\ sends'[m] + (IF Permits(s, m)' THEN 1 ELSE 0) + RowPermits(m)' + excuses[m]
                  <= sends[m] + (IF Permits(s, m) THEN 1 ELSE 0) + RowPermits(m) + excuses'[m]
  BY <1>0, <1>1 DEF AcceptanceLost, OutboxTypeOK, OneInHand, SeenIsQueued, Permits, RowPermits, noteVars
<1> QED
  BY <1>1, <1>2, <1>3, <1>4, SweepKeeps DEF AcceptanceLost, recipient

LEMMA WriteDeadLetterKeeps == ASSUME OutboxInv, NEW s \in Sweeps, NEW n \in Notes, WriteDeadLetter(s, n) PROVE OutboxInv'
<1> USE DEF Has, Sweeping
<1>0. OutboxTypeOK /\ OneInHand /\ SeenIsQueued /\ {Permits(s, m) : m \in Notes} \subseteq BOOLEAN
  BY DEF OutboxInv, Permits
<1>1. /\ delivery' \in [Sweeps -> Sweep]
      /\ delivery'[s].phase \in {"buried"} /\ delivery'[s].note = delivery[s].note /\ delivery'[s].todo = delivery[s].todo
      /\ \A r \in Sweeps \ {s} : delivery'[r] = delivery[r]
  BY <1>0, Delivers DEF WriteDeadLetter, SweepPhases
<1>2. OutboxTypeOK'
  BY <1>0, <1>1 DEF WriteDeadLetter, OutboxTypeOK, Settled, noteVars, recipient, quotaVars, Sweep
<1>3. /\ \A m, l \in delivery'[s].note : m = l
      /\ \A m \in delivery'[s].note \cup delivery'[s].todo : outbox[m] # "none"
  BY <1>0, <1>1 DEF WriteDeadLetter, OneInHand, SeenIsQueued, OutboxTypeOK
<1>4. ASSUME NEW m \in Notes
      PROVE  /\ outbox'[m] = "none" <=> outbox[m] = "none"
             /\ outbox[m] = "none" => sends'[m] = sends[m]
             /\ sends'[m] + (IF Permits(s, m)' THEN 1 ELSE 0) + RowPermits(m)' + excuses[m]
                  <= sends[m] + (IF Permits(s, m) THEN 1 ELSE 0) + RowPermits(m) + excuses'[m]
  BY <1>0, <1>1 DEF WriteDeadLetter, OutboxTypeOK, OneInHand, SeenIsQueued, Permits, RowPermits, noteVars
<1> QED
  BY <1>1, <1>2, <1>3, <1>4, SweepKeeps DEF WriteDeadLetter, recipient

LEMMA MarkFailedKeeps == ASSUME OutboxInv, NEW s \in Sweeps, NEW n \in Notes, MarkFailed(s, n) PROVE OutboxInv'
<1> USE DEF Has, Sweeping
<1>0. OutboxTypeOK /\ OneInHand /\ SeenIsQueued /\ {Permits(s, m) : m \in Notes} \subseteq BOOLEAN
  BY DEF OutboxInv, Permits
<1>1. /\ delivery' \in [Sweeps -> Sweep]
      /\ delivery'[s].phase \in {"listed", "idle"} /\ delivery'[s].note = {} /\ delivery'[s].todo \subseteq delivery[s].todo
      /\ \A r \in Sweeps \ {s} : delivery'[r] = delivery[r]
  BY <1>0, GoesOn DEF MarkFailed, SweepPhases
<1>2. OutboxTypeOK'
  <2>1. delivery[s].seen[n] \in Nat
    BY <1>0 DEF OutboxTypeOK
  <2> QED
    BY <1>0, <1>1, <2>1 DEF MarkFailed, OutboxTypeOK, Settled, noteVars, recipient, quotaVars, Sweep
<1>3. /\ \A m, l \in delivery'[s].note : m = l
      /\ \A m \in delivery'[s].note \cup delivery'[s].todo : outbox[m] # "none"
  BY <1>0, <1>1 DEF MarkFailed, OneInHand, SeenIsQueued, OutboxTypeOK
<1>4. ASSUME NEW m \in Notes
      PROVE  /\ outbox'[m] = "none" <=> outbox[m] = "none"
             /\ outbox[m] = "none" => sends'[m] = sends[m]
             /\ sends'[m] + (IF Permits(s, m)' THEN 1 ELSE 0) + RowPermits(m)' + excuses[m]
                  <= sends[m] + (IF Permits(s, m) THEN 1 ELSE 0) + RowPermits(m) + excuses'[m]
  BY <1>0, <1>1 DEF MarkFailed, OutboxTypeOK, OneInHand, SeenIsQueued, Permits, RowPermits, noteVars
<1> QED
  BY <1>1, <1>2, <1>3, <1>4, SweepKeeps DEF MarkFailed, recipient

LEMMA TryAgainKeeps == ASSUME OutboxInv, NEW s \in Sweeps, NEW n \in Notes, TryAgain(s, n) PROVE OutboxInv'
<1> USE DEF Has, Sweeping
<1>0. OutboxTypeOK /\ OneInHand /\ SeenIsQueued
  BY DEF OutboxInv
<1>1. /\ delivery' \in [Sweeps -> Sweep]
      /\ \/ delivery'[s].phase \in {"listed", "idle"} /\ delivery'[s].note = {}
            /\ delivery'[s].todo \subseteq delivery[s].todo
         \/ delivery'[s].phase = "dead" /\ delivery'[s].note = delivery[s].note
            /\ delivery'[s].todo = delivery[s].todo /\ UNCHANGED outbox
      /\ \A r \in Sweeps \ {s} : delivery'[r] = delivery[r]
  BY <1>0, GivesUp, GoesOn DEF TryAgain
<1>2. OutboxTypeOK'
  <2>1. AttemptNo(s, n) \in Nat
    BY <1>0 DEF AttemptNo, OutboxTypeOK
  <2>2. /\ outbox' \in [Notes -> {"none", "queued", "processing"} \cup Settled]
        /\ attempts' \in [Notes -> Nat] /\ wait' \in [Notes -> {"due", "backoff", "quiet"}]
    <3>1. \/ /\ outbox' = [outbox EXCEPT ![n] = "queued"]
             /\ attempts' = [attempts EXCEPT ![n] = AttemptNo(s, n)]
             /\ wait' = [wait EXCEPT ![n] = "backoff"]
          \/ UNCHANGED <<outbox, attempts, wait>>
      BY DEF TryAgain
    <3>2. outbox' \in [Notes -> {"none", "queued", "processing"} \cup Settled]
      BY <1>0, <3>1 DEF OutboxTypeOK
    <3>3. attempts' \in [Notes -> Nat]
      BY <1>0, <2>1, <3>1 DEF OutboxTypeOK
    <3>4. wait' \in [Notes -> {"due", "backoff", "quiet"}]
      BY <1>0, <3>1 DEF OutboxTypeOK
    <3> QED
      BY <3>2, <3>3, <3>4
  <2>3. UNCHANGED <<letters, channel, consent, quota, producer, leaks, sends, excuses, losses>>
    BY DEF TryAgain, recipient, quotaVars
  <2> QED
    BY <1>0, <1>1, <2>2, <2>3 DEF OutboxTypeOK, Sweep
<1>3. /\ \A m, l \in delivery'[s].note : m = l
      /\ \A m \in delivery'[s].note \cup delivery'[s].todo : outbox[m] # "none"
  BY <1>0, <1>1 DEF TryAgain, OneInHand, SeenIsQueued, OutboxTypeOK
<1>4. ASSUME NEW m \in Notes
      PROVE  /\ outbox'[m] = "none" <=> outbox[m] = "none"
             /\ outbox[m] = "none" => sends'[m] = sends[m]
             /\ sends'[m] + (IF Permits(s, m)' THEN 1 ELSE 0) + RowPermits(m)' + excuses[m]
                  <= sends[m] + (IF Permits(s, m) THEN 1 ELSE 0) + RowPermits(m) + excuses'[m]
  BY <1>0, <1>1 DEF TryAgain, OutboxTypeOK, OneInHand, SeenIsQueued, Permits, RowPermits
<1> QED
  BY <1>1, <1>2, <1>3, <1>4, SweepKeeps DEF TryAgain, recipient

LEMMA ClaimNoteKeeps == ASSUME OutboxInv, NEW s \in Sweeps, NEW n \in Notes, ClaimNote(s, n) PROVE OutboxInv'
<1>0. OutboxTypeOK /\ OneInHand /\ SeenIsQueued /\ delivery \in [Sweeps -> Sweep]
  BY DEF OutboxInv, OutboxTypeOK, Sweep
<1>1. /\ delivery' \in [Sweeps -> Sweep]
      /\ \/ delivery'[s].phase = "claimed" /\ delivery'[s].note = {n} /\ outbox[n] = "queued"
            /\ delivery'[s].todo \subseteq delivery[s].todo
            /\ outbox' = [outbox EXCEPT ![n] = "processing"]
         \/ delivery'[s].phase \in {"idle", "listed"} /\ delivery'[s].note = {}
            /\ delivery'[s].todo \subseteq delivery[s].todo /\ UNCHANGED outbox
      /\ \A r \in Sweeps \ {s} : delivery'[r] = delivery[r]
  <2>1. CASE outbox[n] = "queued"
    <3>1. [delivery[s] EXCEPT !.todo = @ \ {n}, !.note = {n}, !.phase = "claimed"] \in Sweep
      BY <1>0 DEF Sweep, SweepPhases
    <3> PICK new \in Sweep : new = [delivery[s] EXCEPT !.todo = @ \ {n}, !.note = {n}, !.phase = "claimed"]
      BY <3>1
    <3>2. delivery' = [delivery EXCEPT ![s] = new] /\ outbox' = [outbox EXCEPT ![n] = "processing"]
      BY <2>1 DEF ClaimNote
    <3>3. new.phase = "claimed" /\ new.note = {n} /\ new.todo \subseteq delivery[s].todo
      BY <1>0 DEF Sweep
    <3> QED
      BY <1>0, <2>1, <3>2, <3>3
  <2>2. CASE outbox[n] # "queued"
    <3>1. GoOn(s, delivery[s].todo \ {n}) /\ UNCHANGED outbox /\ delivery[s].todo \ {n} \in SUBSET Notes
      BY <1>0, <2>2 DEF ClaimNote, Sweep
    <3> QED
      BY <1>0, <3>1, Continues
  <2> QED
    BY <2>1, <2>2
<1>2. OutboxTypeOK'
  <2>1. outbox' \in [Notes -> {"none", "queued", "processing"} \cup Settled]
    BY <1>0, <1>1 DEF OutboxTypeOK
  <2>2. UNCHANGED <<attempts, wait, letters, channel, consent, quota, producer, leaks, sends, excuses, losses>>
    BY DEF ClaimNote, recipient, quotaVars
  <2> QED
    BY <1>0, <1>1, <2>1, <2>2 DEF OutboxTypeOK, Sweep
<1>3. /\ \A m, l \in delivery'[s].note : m = l
      /\ \A m \in delivery'[s].note \cup delivery'[s].todo : outbox[m] # "none"
  BY <1>0, <1>1 DEF OneInHand, SeenIsQueued, OutboxTypeOK
<1>4. ASSUME NEW m \in Notes
      PROVE  /\ outbox'[m] = "none" <=> outbox[m] = "none"
             /\ outbox[m] = "none" => sends'[m] = sends[m]
             /\ sends'[m] + (IF Permits(s, m)' THEN 1 ELSE 0) + RowPermits(m)' + excuses[m]
                  <= sends[m] + (IF Permits(s, m) THEN 1 ELSE 0) + RowPermits(m) + excuses'[m]
  <2>1. UNCHANGED <<sends, excuses>> /\ ~Permits(s, m)
    BY DEF ClaimNote, Sweeping, Permits
  <2> QED
    BY <1>0, <1>1, <2>1 DEF OutboxTypeOK, Permits, RowPermits
<1> QED
  BY <1>1, <1>2, <1>3, <1>4, SweepKeeps DEF ClaimNote, recipient

LEMMA ListDueKeeps == ASSUME OutboxInv, NEW s \in Sweeps, ListDue(s) PROVE OutboxInv'
<1>0. OutboxTypeOK /\ OneInHand /\ SeenIsQueued /\ delivery \in [Sweeps -> Sweep]
  BY DEF OutboxInv, OutboxTypeOK, Sweep
<1> PICK waiting : waiting = {n \in Notes : outbox[n] = "queued" /\ wait[n] = "due"}
  OBVIOUS
<1>1. /\ delivery' \in [Sweeps -> Sweep]
      /\ delivery'[s].phase \in {"idle", "listed"} /\ delivery'[s].note = {} /\ delivery'[s].todo \subseteq waiting
      /\ \A r \in Sweeps \ {s} : delivery'[r] = delivery[r]
  <2>1. [phase |-> "listed", todo |-> waiting, note |-> {},
         seen |-> [n \in Notes |-> IF n \in waiting THEN attempts[n] ELSE 0]] \in Sweep
    BY <1>0 DEF Sweep, SweepPhases, OutboxTypeOK
  <2> PICK new \in Sweep :
        new = [phase |-> "listed", todo |-> waiting, note |-> {},
               seen |-> [n \in Notes |-> IF n \in waiting THEN attempts[n] ELSE 0]]
    BY <2>1
  <2>2. \/ delivery' = [delivery EXCEPT ![s] = new]
        \/ delivery' = [delivery EXCEPT ![s] = IdleSweep]
    BY DEF ListDue
  <2>3. new.phase = "listed" /\ new.note = {} /\ new.todo = waiting
    OBVIOUS
  <2> QED
    BY <1>0, <2>2, <2>3, IdleSweepIsSweep
<1>2. OutboxTypeOK' /\ UNCHANGED <<outbox, sends, excuses>>
  BY <1>0, <1>1 DEF ListDue, OutboxTypeOK, noteVars, recipient, quotaVars, Sweep
<1>3. ASSUME NEW m \in Notes PROVE ~Permits(s, m)' /\ ~Permits(s, m) /\ RowPermits(m)' = RowPermits(m)
  BY <1>1, <1>2 DEF ListDue, Sweeping, Permits, RowPermits
<1> QED
  <2>1. /\ \A n, m \in delivery'[s].note : n = m
        /\ \A n \in delivery'[s].note \cup delivery'[s].todo : outbox[n] # "none"
        /\ UNCHANGED <<channel, quotaVars>>
    BY <1>1 DEF ListDue, recipient
  <2>2. \A m \in Notes : sends[m] \in Nat /\ excuses[m] \in Nat /\ RowPermits(m) \in Nat
    BY <1>0 DEF OutboxTypeOK, RowPermits
  <2> QED
    BY <1>1, <1>2, <1>3, <2>1, <2>2, SweepKeeps

LEMMA LoseSweepKeeps == ASSUME OutboxInv, NEW s \in Sweeps, LoseSweep(s) PROVE OutboxInv'
<1>0. OutboxTypeOK /\ delivery \in [Sweeps -> Sweep]
  BY DEF OutboxInv, OutboxTypeOK, Sweep
<1>1. /\ delivery' \in [Sweeps -> Sweep] /\ delivery'[s] = IdleSweep
      /\ \A r \in Sweeps \ {s} : delivery'[r] = delivery[r]
  BY <1>0, IdleSweepIsSweep DEF LoseSweep
<1>2. OutboxTypeOK' /\ UNCHANGED <<outbox, sends, excuses>>
  BY <1>0, <1>1, OutboxAssumption DEF LoseSweep, OutboxTypeOK, noteVars, recipient, quotaVars, Sweep
<1>3. ASSUME NEW m \in Notes PROVE ~Permits(s, m)' /\ RowPermits(m)' = RowPermits(m)
  BY <1>1, <1>2, IdleSweepIsSweep DEF Permits, RowPermits
<1> QED
  <2>1. /\ delivery'[s].note = {} /\ delivery'[s].todo = {} /\ UNCHANGED <<channel, quotaVars>>
    BY <1>1, IdleSweepIsSweep DEF LoseSweep, recipient
  <2>2. \A m \in Notes : sends[m] \in Nat /\ excuses[m] \in Nat /\ RowPermits(m) \in Nat
    BY <1>0 DEF OutboxTypeOK, RowPermits
  <2> QED
    BY <1>1, <1>2, <1>3, <2>1, <2>2, SweepKeeps

LEMMA RecoverClaimsKeeps ==
  ASSUME OutboxInv, NEW s \in Sweeps, NEW R \in SUBSET Notes, RecoverClaims(s, R) PROVE OutboxInv'
<1>0. OutboxTypeOK /\ OneInHand /\ SeenIsQueued /\ delivery[s].phase = "idle"
  BY DEF OutboxInv, RecoverClaims, Sweeping
<1>1. /\ delivery' \in [Sweeps -> Sweep]
      /\ delivery'[s].phase = "recovered" /\ delivery'[s].note = delivery[s].note
      /\ delivery'[s].todo = delivery[s].todo
      /\ \A r \in Sweeps \ {s} : delivery'[r] = delivery[r]
  BY <1>0, Delivers DEF RecoverClaims, SweepPhases
<1>2. losses' \in 0 .. MaxLosses
  <2>1. Cardinality(R \ Orphans) \in Nat
    BY OutboxAssumption, FS_Subset, FS_CardinalityType
  <2> QED
    BY <1>0, <2>1, OutboxAssumption DEF RecoverClaims, OutboxTypeOK
<1>3. OutboxTypeOK'
  BY <1>0, <1>1, <1>2 DEF RecoverClaims, OutboxTypeOK, recipient, quotaVars, Sweep
<1>4. /\ \A m, l \in delivery'[s].note : m = l
      /\ \A m \in delivery'[s].note \cup delivery'[s].todo : outbox[m] # "none"
  BY <1>0, <1>1 DEF OneInHand, SeenIsQueued, OutboxTypeOK
<1>5. ASSUME NEW m \in Notes
      PROVE  /\ outbox'[m] = "none" <=> outbox[m] = "none"
             /\ outbox[m] = "none" => sends'[m] = sends[m]
             /\ sends'[m] + (IF Permits(s, m)' THEN 1 ELSE 0) + RowPermits(m)' + excuses[m]
                  <= sends[m] + (IF Permits(s, m) THEN 1 ELSE 0) + RowPermits(m) + excuses'[m]
  <2>1. sends'[m] = sends[m] /\ ~Permits(s, m)' /\ ~Permits(s, m)
    BY <1>0, <1>1 DEF RecoverClaims, Permits
  <2> QED
    BY <1>0, <2>1 DEF RecoverClaims, OutboxTypeOK, RowPermits
<1> QED
  BY <1>1, <1>3, <1>4, <1>5, SweepKeeps DEF RecoverClaims, recipient
-----------------------------------------------------------------------------
(* The steps of producers.                                                 *)

\* Who has an allowance in hand, and the messages it was spent on.
Drawing(p) == producer[p].phase \in {"insert", "release"} /\ producer[p].note \subseteq Messages
Drawn      == {p \in Producers : Drawing(p)}
Charged    == {n \in Messages : outbox[n] # "none"}

Producer == [phase : ProducerPhases, note : SUBSET Notes]

LEMMA ChargedIsFinite == /\ IsFiniteSet(Charged) /\ Cardinality(Charged) \in Nat
                         /\ IsFiniteSet(Drawn) /\ Cardinality(Drawn) \in Nat
<1>1. Charged \subseteq Notes /\ Drawn \subseteq Producers
  BY DEF Charged, Messages, Drawn
<1>2. IsFiniteSet(Charged) /\ IsFiniteSet(Drawn)
  BY <1>1, OutboxAssumption, FS_Subset
<1> QED
  BY <1>2, FS_CardinalityType

LEMMA Produces ==
  ASSUME OutboxTypeOK, NEW p \in Producers, NEW phase \in ProducerPhases, NEW n \in Notes, Produce(p, phase, n)
  PROVE  /\ producer' \in [Producers -> Producer]
         /\ producer'[p].phase = phase /\ producer'[p].note = {n}
         /\ \A q \in Producers \ {p} : producer'[q] = producer[q]
<1>1. [phase |-> phase, note |-> {n}] \in Producer
  BY DEF Producer
<1> PICK new \in Producer : new = [phase |-> phase, note |-> {n}]
  BY <1>1
<1>2. producer' = [producer EXCEPT ![p] = new] /\ new.phase = phase /\ new.note = {n}
  BY DEF Produce
<1> QED
  BY <1>2 DEF OutboxTypeOK, Producer

LEMMA Stops ==
  ASSUME OutboxTypeOK, NEW p \in Producers, Produced(p)
  PROVE  /\ producer' \in [Producers -> Producer] /\ producer'[p].phase = "idle"
         /\ \A q \in Producers \ {p} : producer'[q] = producer[q]
<1>1. [phase |-> "idle", note |-> {}] \in Producer
  BY DEF Producer, ProducerPhases
<1> PICK new \in Producer : new = [phase |-> "idle", note |-> {}]
  BY <1>1
<1>2. producer' = [producer EXCEPT ![p] = new] /\ new.phase = "idle"
  BY DEF Produced
<1> QED
  BY <1>2 DEF OutboxTypeOK, Producer

LEMMA DrawnMoves ==
  ASSUME OutboxTypeOK, NEW p \in Producers, UNCHANGED channel,
         \A q \in Producers \ {p} : producer'[q] = producer[q]
  PROVE  /\ Cardinality(Drawn)' \in Nat
         /\ Cardinality(Drawn)' = Cardinality(Drawn) + (IF Drawing(p)' THEN 1 ELSE 0)
                                                     - (IF Drawing(p) THEN 1 ELSE 0)
<1>1. IsFiniteSet(Drawn) /\ Cardinality(Drawn) \in Nat
  BY ChargedIsFinite
<1>2. \A q \in Producers \ {p} : Drawing(q)' <=> Drawing(q)
  BY DEF Drawing, Messages
<1>3. CASE Drawing(p)' <=> Drawing(p)
  <2>1. Drawn' = Drawn
    BY <1>2, <1>3 DEF Drawn
  <2> QED
    BY <1>1, <1>3, <2>1
<1>4. CASE Drawing(p)' /\ ~Drawing(p)
  <2>1. Drawn' = Drawn \cup {p} /\ p \notin Drawn
    BY <1>2, <1>4 DEF Drawn
  <2>2. Cardinality(Drawn') = Cardinality(Drawn) + 1
    BY <1>1, <2>1, FS_AddElement
  <2> QED
    BY <1>1, <1>4, <2>2
<1>5. CASE ~Drawing(p)' /\ Drawing(p)
  <2>1. Drawn' = Drawn \ {p} /\ p \in Drawn
    BY <1>2, <1>5 DEF Drawn
  <2>2. Cardinality(Drawn') = Cardinality(Drawn) - 1 /\ IsFiniteSet(Drawn')
    BY <1>1, <2>1, FS_RemoveElement
  <2>3. Cardinality(Drawn') \in Nat
    BY <2>2, FS_CardinalityType
  <2> QED
    BY <1>1, <1>5, <2>2, <2>3
<1> QED
  BY <1>3, <1>4, <1>5

\* What a step of a producer has to show, of its row and of the allowance.
LEMMA ProducerKeeps ==
  ASSUME OutboxInv, OutboxTypeOK', NEW p \in Producers, NEW n \in Notes,
         \A q \in Producers \ {p} : producer'[q] = producer[q],
         UNCHANGED <<channel, delivery, sends, excuses>>,
         producer'[p].phase # "idle" => /\ producer'[p].note = {n}
                                        /\ producer'[p].phase \in {"reserve", "release"} => n \in Messages,
         \/ UNCHANGED outbox
         \/ outbox[n] = "none" /\ outbox' = [outbox EXCEPT ![n] = "queued"],
         quota' <= Quota,
         quota' + (IF Drawing(p) THEN 1 ELSE 0) + leaks
            = quota + (IF Drawing(p)' THEN 1 ELSE 0) + leaks'
               + (IF outbox' # outbox /\ n \in Messages THEN 1 ELSE 0)
  PROVE  OutboxInv'
<1> USE DEF OutboxInv
<1>1. OneInHand' /\ SeenIsQueued'
  BY DEF OneInHand, SeenIsQueued, OutboxTypeOK
<1>2. ProducersHold'
  BY DEF ProducersHold, Messages
<1>3. PermissionsCounted'
  <2> SUFFICES ASSUME NEW m \in Notes
               PROVE  sends'[m] + Cardinality(Permitted(m))' + RowPermits(m)' <= 1 + excuses'[m]
    BY DEF PermissionsCounted
  <2>1. Permitted(m)' = Permitted(m)
    BY DEF Permitted, Permits
  <2>2. RowPermits(m)' = RowPermits(m)
    BY DEF RowPermits, OutboxTypeOK
  <2> QED
    BY <2>1, <2>2 DEF PermissionsCounted
<1>4. QuotaAccounted'
  <2> PICK d \in Nat, d1 \in Nat, k \in Nat :
        d = Cardinality(Drawn) /\ d1 = Cardinality(Drawn)' /\ k = Cardinality(Charged)
    BY DrawnMoves, ChargedIsFinite
  <2>1. d1 = d + (IF Drawing(p)' THEN 1 ELSE 0) - (IF Drawing(p) THEN 1 ELSE 0)
    BY DrawnMoves
  <2>2. Cardinality(Charged)' = k + (IF outbox' # outbox /\ n \in Messages THEN 1 ELSE 0)
    <3>1. CASE outbox' # outbox /\ n \in Messages
      <4>1. Charged' = Charged \cup {n} /\ n \notin Charged
        BY <3>1 DEF Charged, Messages, OutboxTypeOK
      <4> QED
        BY <3>1, <4>1, ChargedIsFinite, FS_AddElement
    <3>2. CASE ~(outbox' # outbox /\ n \in Messages)
      <4>1. Charged' = Charged
        BY <3>2 DEF Charged, Messages, OutboxTypeOK
      <4> QED
        BY <3>2, <4>1
    <3> QED
      BY <3>1, <3>2
  <2>3. quota \in Nat /\ quota' \in Nat /\ leaks \in Nat /\ leaks' \in Nat /\ quota = leaks + k + d
    BY DEF OutboxTypeOK, QuotaAccounted, Drawn, Drawing, Charged
  <2> PICK x \in {0, 1} : x = IF Drawing(p) THEN 1 ELSE 0
    OBVIOUS
  <2> PICK y \in {0, 1} : y = IF Drawing(p)' THEN 1 ELSE 0
    OBVIOUS
  <2> PICK z \in {0, 1} : z = IF outbox' # outbox /\ n \in Messages THEN 1 ELSE 0
    OBVIOUS
  <2>5. d1 = d + y - x /\ Cardinality(Charged)' = k + z
    BY <2>1, <2>2
  <2>6. quota' + x + leaks = quota + y + leaks' + z
    OBVIOUS
  <2>4. quota' = leaks' + Cardinality(Charged)' + d1
    <3>1. quota' + x + leaks = leaks + k + d + y + leaks' + z
      BY <2>3, <2>6
    <3>2. quota' + x = k + d + y + leaks' + z
      BY <2>3, <3>1
    <3>3. quota' = leaks' + (k + z) + (d + y - x)
      BY <2>3, <3>2
    <3> QED
      BY <2>5, <3>3
  <2> QED
    BY <2>4 DEF QuotaAccounted, Drawn, Drawing, Charged
<1> QED
  BY <1>1, <1>2, <1>3, <1>4

LEMMA ProducerStepKeeps ==
  ASSUME OutboxInv, NEW p \in Producers, NEW n \in Notes, ProducerStep(p, n) PROVE OutboxInv'
<1> USE DEF Producing
<1>0. /\ OutboxTypeOK /\ ProducersHold /\ QuotaAccounted
      /\ {quota, Quota, leaks} \subseteq Nat /\ quota <= Quota /\ 1 \in Nat
  BY OutboxAssumption DEF OutboxInv, OutboxTypeOK, QuotaAccounted
<1>h. producer[p].phase # "idle" /\ n \in producer[p].note
        => /\ producer[p].note = {n} /\ producer[p].phase \in {"reserve", "release"} => n \in Messages
           /\ Drawing(p) <=> producer[p].phase \in {"insert", "release"} /\ n \in Messages
  BY <1>0 DEF ProducersHold, Drawing
<1>1. CASE LookForKey(p, n)
  <2>1. /\ producer' \in [Producers -> Producer] /\ producer'[p].note = {n}
        /\ producer'[p].phase = IF n \in Messages THEN "reserve" ELSE "insert"
        /\ \A q \in Producers \ {p} : producer'[q] = producer[q]
    BY <1>0, <1>1, Produces DEF LookForKey, ProducerPhases
  <2>2. OutboxTypeOK'
    BY <1>0, <1>1, <2>1 DEF LookForKey, OutboxTypeOK, noteVars, recipient, Producer
  <2>3. ~Drawing(p) /\ ~Drawing(p)'
    BY <1>1, <2>1 DEF LookForKey, Drawing, Messages, recipient
  <2>4. UNCHANGED <<outbox, channel, delivery, sends, excuses, quota, leaks>>
    BY <1>1 DEF LookForKey, noteVars, recipient
  <2> QED
    BY <1>0, <2>1, <2>2, <2>3, <2>4, ProducerKeeps
<1>2. CASE Reserve(p, n)
  <2>1. /\ producer' \in [Producers -> Producer]
        /\ \A q \in Producers \ {p} : producer'[q] = producer[q]
        /\ \/ quota < Quota /\ quota' = quota + 1 /\ producer'[p].phase = "insert" /\ producer'[p].note = {n}
           \/ quota' = quota /\ producer'[p].phase = "idle"
    BY <1>0, <1>2, Produces, Stops DEF Reserve, ProducerPhases
  <2>2. UNCHANGED <<outbox, attempts, wait, letters, channel, consent, leaks, delivery, sends, excuses, losses>>
    BY <1>2 DEF Reserve, noteVars, recipient
  <2>3. OutboxTypeOK'
    BY <1>0, <2>1, <2>2 DEF OutboxTypeOK, Producer
  <2>4. ~Drawing(p) /\ (Drawing(p)' <=> producer'[p].phase = "insert")
    BY <1>2, <1>h, <2>1, <2>2 DEF Reserve, Drawing, Messages
  <2> QED
    BY <1>0, <2>1, <2>2, <2>3, <2>4, ProducerKeeps
<1>3. CASE InsertNote(p, n)
  <2>1. /\ producer' \in [Producers -> Producer]
        /\ \A q \in Producers \ {p} : producer'[q] = producer[q]
        /\ \/ producer'[p].phase = "idle" /\ outbox[n] = "none" /\ outbox' = [outbox EXCEPT ![n] = "queued"]
           \/ producer'[p].phase = "idle" /\ n \notin Messages /\ UNCHANGED outbox
           \/ producer'[p].phase = "release" /\ producer'[p].note = {n} /\ n \in Messages /\ UNCHANGED outbox
    BY <1>0, <1>3, Produces, Stops DEF InsertNote, ProducerPhases
  <2>2. UNCHANGED <<attempts, wait, letters, channel, consent, quota, leaks, delivery, sends, excuses, losses>>
    BY <1>3 DEF InsertNote, recipient
  <2>3. OutboxTypeOK'
    BY <1>0, <2>1, <2>2 DEF OutboxTypeOK, Producer
  <2>4. (Drawing(p) <=> n \in Messages) /\ (Drawing(p)' <=> producer'[p].phase = "release")
    BY <1>3, <1>h, <2>1, <2>2 DEF InsertNote, Drawing, Messages
  <2>5. outbox[n] = "none" /\ outbox' = [outbox EXCEPT ![n] = "queued"] => outbox' # outbox
    BY <1>0 DEF OutboxTypeOK
  <2> QED
    BY <1>0, <2>1, <2>2, <2>3, <2>4, <2>5, ProducerKeeps
<1>4. CASE ReleaseQuota(p, n)
  <2>1. /\ producer' \in [Producers -> Producer] /\ producer'[p].phase = "idle"
        /\ \A q \in Producers \ {p} : producer'[q] = producer[q]
    BY <1>0, <1>4, Stops DEF ReleaseQuota
  <2>2. UNCHANGED <<outbox, attempts, wait, letters, channel, consent, leaks, delivery, sends, excuses, losses>>
    BY <1>4 DEF ReleaseQuota, noteVars, recipient
  <2>3. Drawing(p) /\ ~Drawing(p)'
    BY <1>4, <1>h, <2>1 DEF ReleaseQuota, Drawing
  <2>4. quota > 0
    <3>1. Drawn # {} /\ IsFiniteSet(Drawn) /\ Cardinality(Drawn) \in Nat /\ Cardinality(Charged) \in Nat
      BY <2>3, ChargedIsFinite DEF Drawn
    <3>2. Cardinality(Drawn) # 0
      BY <3>1, FS_EmptySet
    <3> QED
      BY <1>0, <3>1, <3>2 DEF QuotaAccounted, Drawn, Drawing, Charged
  <2>5. quota' = quota - 1 /\ quota' \in Nat
    BY <1>0, <1>4, <2>4 DEF ReleaseQuota
  <2>6. OutboxTypeOK'
    BY <1>0, <2>1, <2>2, <2>5 DEF OutboxTypeOK, Producer
  <2> QED
    BY <1>0, <2>1, <2>2, <2>3, <2>5, <2>6, ProducerKeeps
<1>5. CASE LoseProducer(p, n)
  <2>1. /\ producer' \in [Producers -> Producer] /\ producer'[p].phase = "idle"
        /\ \A q \in Producers \ {p} : producer'[q] = producer[q]
    BY <1>0, <1>5, Stops DEF LoseProducer
  <2>2. /\ UNCHANGED <<outbox, attempts, wait, letters, channel, consent, quota, delivery, sends, excuses>>
        /\ losses' \in 0 .. MaxLosses
    BY <1>0, <1>5, OutboxAssumption DEF LoseProducer, noteVars, recipient, OutboxTypeOK
  <2>3. ~Drawing(p)' /\ leaks' = leaks + (IF Drawing(p) THEN 1 ELSE 0)
    <3>1. Drawing(p) <=> n \in Messages /\ producer[p].phase # "reserve"
      BY <1>0, <1>5, <1>h DEF LoseProducer, OutboxTypeOK, ProducerPhases
    <3> QED
      BY <1>5, <2>1, <3>1 DEF LoseProducer, Drawing
  <2>4. leaks' \in Nat
    BY <1>0, <2>3
  <2>5. OutboxTypeOK'
    BY <1>0, <2>1, <2>2, <2>4 DEF OutboxTypeOK, Producer
  <2> QED
    BY <1>0, <2>1, <2>2, <2>3, <2>4, <2>5, ProducerKeeps
<1> QED
  BY <1>1, <1>2, <1>3, <1>4, <1>5 DEF ProducerStep
-----------------------------------------------------------------------------
(* The recipient, the provider, and the theorems.                          *)

\* Rows that leave the queue or fail, and what does not touch them, keep the invariant.
LEMMA WorldKeeps ==
  ASSUME OutboxInv, OutboxTypeOK', UNCHANGED <<channel, quotaVars, delivery, sends, excuses>>,
         \A n \in Notes : /\ outbox'[n] = "none" <=> outbox[n] = "none"
                          /\ outbox'[n] = "queued" => outbox[n] = "queued"
  PROVE  OutboxInv'
<1> USE DEF OutboxInv
<1>1. OneInHand' /\ SeenIsQueued' /\ ProducersHold'
  BY DEF OneInHand, SeenIsQueued, ProducersHold, quotaVars, Messages
<1>2. PermissionsCounted'
  <2> SUFFICES ASSUME NEW n \in Notes
               PROVE  sends'[n] + Cardinality(Permitted(n))' + RowPermits(n)' <= 1 + excuses'[n]
    BY DEF PermissionsCounted
  <2>1. Permitted(n)' = Permitted(n)
    BY DEF Permitted, Permits
  <2> PICK k \in Nat : k = Cardinality(Permitted(n))
    BY OutboxAssumption, FS_Subset, FS_CardinalityType DEF Permitted
  <2>2. RowPermits(n)' \in Nat /\ RowPermits(n) \in Nat /\ RowPermits(n)' <= RowPermits(n)
    BY DEF RowPermits
  <2>3. sends[n] + k + RowPermits(n) <= 1 + excuses[n] /\ sends[n] \in Nat /\ excuses[n] \in Nat
    BY DEF PermissionsCounted, OutboxTypeOK
  <2> QED
    BY <2>1, <2>2, <2>3
<1>3. QuotaAccounted'
  BY QuotaStays
<1> QED
  BY <1>1, <1>2, <1>3

LEMMA OutboxInitHolds == OutboxInit => OutboxInv
<1> SUFFICES ASSUME OutboxInit PROVE OutboxInv
  OBVIOUS
<1>1. OutboxTypeOK
  <2>1. consent \in BOOLEAN
    BY Zenon DEF OutboxInit
  <2>2. delivery \in [Sweeps -> Sweep]
    BY IdleSweepIsSweep DEF OutboxInit
  <2>3. producer \in [Producers -> [phase : ProducerPhases, note : SUBSET Notes]]
    BY DEF OutboxInit, ProducerPhases
  <2> QED
    BY <2>1, <2>2, <2>3, OutboxAssumption DEF OutboxInit, OutboxTypeOK, Settled, Sweep
<1>2. OneInHand /\ SeenIsQueued /\ ProducersHold
  BY IdleSweepIsSweep DEF OutboxInit, OneInHand, SeenIsQueued, ProducersHold
<1>3. PermissionsCounted
  <2>1. \A n \in Notes : Permitted(n) = {} /\ RowPermits(n) = 1 /\ sends[n] = 0 /\ excuses[n] = 0
    BY IdleSweepIsSweep DEF OutboxInit, Permitted, Permits, RowPermits
  <2> QED
    BY <2>1, FS_EmptySet DEF PermissionsCounted
<1>4. QuotaAccounted
  <2>1. Charged = {} /\ Drawn = {} /\ quota = 0 /\ leaks = 0
    BY DEF OutboxInit, Charged, Messages, Drawn, Drawing
  <2>2. Cardinality(Charged) = 0 /\ Cardinality(Drawn) = 0
    BY <2>1, FS_EmptySet
  <2>3. quota <= Quota /\ quota = leaks + Cardinality(Charged) + Cardinality(Drawn)
    BY <2>1, <2>2, OutboxAssumption
  <2> QED
    BY <2>3 DEF QuotaAccounted, Charged, Drawn, Drawing
<1> QED
  BY <1>1, <1>2, <1>3, <1>4 DEF OutboxInv

LEMMA OutboxStepKeeps == OutboxInv /\ [OutboxNext]_outboxVars => OutboxInv'
<1> SUFFICES ASSUME OutboxInv, [OutboxNext]_outboxVars PROVE OutboxInv'
  OBVIOUS
<1>0. OutboxTypeOK
  BY DEF OutboxInv
<1>1. ASSUME NEW n \in Notes, BecomeDue(n) PROVE OutboxInv'
  <2>1. OutboxTypeOK'
    BY <1>0, <1>1 DEF BecomeDue, OutboxTypeOK, recipient, quotaVars
  <2> QED
    BY <1>1, <2>1, WorldKeeps DEF BecomeDue, recipient
<1>2. ASSUME NEW n \in Notes, ProviderReportsFailure(n) PROVE OutboxInv'
  <2>1. OutboxTypeOK'
    BY <1>0, <1>2 DEF ProviderReportsFailure, OutboxTypeOK, Settled, recipient, quotaVars
  <2>2. outbox[n] # "none"
    BY <1>0, <1>2 DEF ProviderReportsFailure, OutboxInv, SeenIsQueued, OutboxTypeOK
  <2> QED
    BY <1>0, <1>2, <2>1, <2>2, WorldKeeps DEF ProviderReportsFailure, recipient, OutboxTypeOK
<1>3. CASE RevokeConsent
  <2>1. consent' \in BOOLEAN
    BY <1>3, Zenon DEF RevokeConsent
  <2>2. OutboxTypeOK'
    BY <1>0, <1>3, <2>1 DEF RevokeConsent, OutboxTypeOK, Settled, quotaVars
  <2> QED
    BY <1>0, <1>3, <2>2, WorldKeeps DEF RevokeConsent
<1>4. CASE GiveConsent
  <2>1. consent' \in BOOLEAN
    BY <1>4, Zenon DEF GiveConsent
  <2>2. OutboxTypeOK'
    BY <1>0, <1>4, <2>1 DEF GiveConsent, OutboxTypeOK, noteVars, quotaVars
  <2> QED
    BY <1>4, <2>2, WorldKeeps DEF GiveConsent, noteVars
<1>5. CASE UNCHANGED outboxVars
  <2>1. OutboxTypeOK'
    BY <1>0, <1>5 DEF outboxVars, OutboxTypeOK, noteVars, recipient, quotaVars
  <2> QED
    BY <1>5, <2>1, WorldKeeps DEF outboxVars, noteVars, recipient
<1>6. ASSUME NEW s \in Sweeps, SweepStep(s) PROVE OutboxInv'
  BY <1>6, ListDueKeeps, ClaimNoteKeeps, DeferKeeps, DeliverInsideKeeps, LookAtRecipientKeeps,
     ProviderAcceptsKeeps, ProviderRefusesKeeps, RecordSentKeeps, AcceptanceLostKeeps, TryAgainKeeps,
     WriteDeadLetterKeeps, MarkFailedKeeps
  DEF SweepStep
<1> QED
  BY <1>1, <1>2, <1>3, <1>4, <1>5, <1>6, ProducerStepKeeps, RecoverClaimsKeeps, LoseSweepKeeps
  DEF OutboxNext

\* The inductive invariant of the outbox: a permission for every acceptance to come, and
\* an allowance for every message queued or in hand.
THEOREM OutboxInvariantHolds == OutboxSpec => []OutboxInv
  BY OutboxInitHolds, OutboxStepKeeps, PTL DEF OutboxSpec

\* Every variable of the outbox keeps its type.
THEOREM OutboxTypeCorrect == OutboxSpec => []OutboxTypeOK
<1>1. OutboxInv => OutboxTypeOK
  BY DEF OutboxInv
<1> QED
  BY <1>1, OutboxInvariantHolds, PTL

\* A notification is accepted once, and once more for every stale claim put back and
\* every acceptance not recorded, whatever sweeps overlap and are lost.
THEOREM DuplicatesAreExplained == OutboxSpec => []DuplicatesExplained
<1>1. OutboxInv => DuplicatesExplained
  <2> SUFFICES ASSUME OutboxInv, NEW n \in Notes PROVE sends[n] <= 1 + excuses[n]
    BY DEF DuplicatesExplained
  <2> PICK k \in Nat : k = Cardinality(Permitted(n))
    BY OutboxAssumption, FS_Subset, FS_CardinalityType DEF Permitted
  <2>1. /\ sends[n] + k + RowPermits(n) <= 1 + excuses[n]
        /\ sends[n] \in Nat /\ excuses[n] \in Nat /\ RowPermits(n) \in Nat
    BY DEF OutboxInv, PermissionsCounted, OutboxTypeOK, RowPermits
  <2> QED
    BY <2>1
<1> QED
  BY <1>1, OutboxInvariantHolds, PTL

\* The allowance that is charged is that of the messages queued, in hand or lost with a
\* producer, and never more than the plan allows.
THEOREM QuotaIsAccounted == OutboxSpec => []QuotaAccounted
<1>1. OutboxInv => QuotaAccounted
  BY DEF OutboxInv
<1> QED
  BY <1>1, OutboxInvariantHolds, PTL
-----------------------------------------------------------------------------
(* The services of MCPlatformServices beside one another.                  *)

\* Nothing one service does is seen by another.
LEMMA ServicesStandApart ==
  ASSUME [MCNext]_servicesVars
  PROVE  /\ [WalletNext]_walletVars /\ [OutboxNext]_outboxVars /\ [AuditNext]_auditVars
         /\ [LoopNext]_loopVars /\ [AutonomyNext]_autonomyVars /\ [IdempotencyNext]_idempotencyVars
<1>1. CASE UNCHANGED servicesVars
  BY <1>1 DEF servicesVars
<1>2. CASE WalletStep
  BY <1>2 DEF WalletStep, WalletNext
<1>3. CASE OutboxStep
  BY <1>3 DEF OutboxStep
<1>4. CASE AuditStep
  BY <1>4 DEF AuditStep
<1>5. CASE LoopStep
  BY <1>5 DEF LoopStep
<1>6. CASE AutonomyStep
  BY <1>6 DEF AutonomyStep
<1>7. CASE IdempotencyStep
  BY <1>7 DEF IdempotencyStep
<1> QED
  BY <1>1, <1>2, <1>3, <1>4, <1>5, <1>6, <1>7 DEF MCNext

\* A behaviour of all of them is a behaviour of each, so that what is proved of a
\* service alone holds beside the others.
THEOREM ServicesAlone ==
    MCSpec => /\ WalletSpec /\ OutboxSpec /\ AuditSpec
              /\ LoopSpec /\ AutonomySpec /\ IdempotencySpec
<1>1. MCInit => /\ WalletInit /\ OutboxInit /\ AuditInit
                /\ LoopInit /\ AutonomyInit /\ IdempotencyInit
  BY DEF MCInit
<1> QED
  BY <1>1, ServicesStandApart, PTL
  DEF MCSpec, WalletSpec, OutboxSpec, AuditSpec, LoopSpec, AutonomySpec, IdempotencySpec

\* Every service keeps its type beside the others.
THEOREM ServicesTypeCorrect == MCSpec => []ServicesTypeOK
<1>1. /\ WalletTypeOK /\ OutboxTypeOK /\ AuditTypeOK /\ LoopTypeOK /\ AutonomyInv /\ KeyInv
        => ServicesTypeOK
  BY DEF ServicesTypeOK, AutonomyInv, KeyInv
<1> QED
  BY <1>1, ServicesAlone, WalletTypeCorrect, OutboxTypeCorrect, AuditTypeCorrect, LoopTypeCorrect,
     AutonomyInvariantHolds, KeyInvariantHolds, PTL
=============================================================================
