---------------------------- MODULE ObservationLoop ----------------------------
(***************************************************************************)
(* One scheduled task of agent_persistent_tasks under the two loops that   *)
(* observe it: runDueBusinessGoalTasks of business-goal-durable-loop.js    *)
(* for a goal, runDueFinanceWatchTasks of finance-watch-durable-loop.js    *)
(* for a watch.  The tasks of a sweep share nothing but its time.          *)
(*                                                                         *)
(* Sweeps may overlap.  Each reads what is due, claims the occurrence      *)
(* through the key of agent_observation_claims, reads its sources, and     *)
(* commits checkpoint, claim and next_run_at in one batch that aborts      *)
(* unless claim and task are as it saw them.  A claim of thirty minutes is *)
(* taken over under the same id.  recoverVerifiedOccurrence looks for a    *)
(* checkpoint under a claim that is not completed; the batch leaves none.  *)
(***************************************************************************)
EXTENDS Integers, FiniteSets

CONSTANTS
    Observers,    \* overlapping sweeps
    Horizon,      \* bound: time, in intervals of the cadence
    Enough,       \* 3 in the code: attempts after which the owner is asked
    MaxCount,     \* bound: attempts are counted no further
    MaxSetbacks   \* bound: isolates and replies lost, batches aborted, claims that outlive thirty minutes

ASSUME LoopAssumption ==
    /\ {Horizon, Enough} \subseteq Nat \ {0}
    /\ {MaxCount, MaxSetbacks} \subseteq Nat /\ Enough <= MaxCount

VARIABLES
    kind,         \* trigger_spec_json: a business goal or a finance watch
    clock,        \* now
    taskStatus,   \* agent_persistent_tasks.status
    nextRun,      \* agent_persistent_tasks.next_run_at; 0 stands for NULL
    claims,       \* agent_observation_claims, per occurrence
    checkpoints,  \* agent_observation_checkpoints: the occurrences that have one
    observer,     \* per sweep: where it is
    vain,         \* history: since the last sweep began, one failed and nobody will hear of it
    setbacks      \* history: see MaxSetbacks

taskVars == <<kind, taskStatus, nextRun>>
loopVars == <<taskVars, clock, claims, checkpoints, observer, vain, setbacks>>

Occurrences == 1 .. Horizon
TaskStates == {"active", "paused", "completed", "cancelled"}
ClaimStates == {"none", "running", "failed", "completed"}
IdleObserver == [phase |-> "idle", at |-> 0, tries |-> 0, plan |-> 0]

LoopTypeOK ==
    /\ kind        \in {"goal", "watch"}
    /\ clock       \in Occurrences
    /\ taskStatus  \in TaskStates
    /\ nextRun     \in 0 .. Horizon + 1
    /\ claims      \in [Occurrences -> [status : ClaimStates, attempts : 0 .. MaxCount]]
    /\ checkpoints \subseteq Occurrences
    /\ observer    \in [Observers ->
                          [phase : {"idle", "listing", "due", "taking", "claimed", "verified", "unverified", "broken", "failing"},
                           at : 0 .. Horizon, tries : 0 .. MaxCount, plan : 0 .. Horizon + 1]]
    /\ vain        \in BOOLEAN
    /\ setbacks    \in 0 .. MaxSetbacks

LoopInit ==
    /\ kind        \in {"goal", "watch"}
    /\ clock       = 1
    /\ taskStatus  = "active"
    /\ nextRun     \in {0, 1}
    /\ claims      = [k \in Occurrences |-> [status |-> "none", attempts |-> 0]]
    /\ checkpoints = {}
    /\ observer    = [s \in Observers |-> IdleObserver]
    /\ vain        = FALSE
    /\ setbacks    = 0

Observing(s, phase) == observer[s].phase = phase
Observe(s, phase) == observer' = [observer EXCEPT ![s].phase = phase]
Leave(s) == observer' = [observer EXCEPT ![s] = IdleObserver]
CountUp(n) == IF n < MaxCount THEN n + 1 ELSE n
-----------------------------------------------------------------------------
(* What is due.                                                            *)

\* The loop of the goals gives an active task without a time its first one.
StartSweep(s) ==
    /\ Observing(s, "idle")
    /\ nextRun' = IF kind = "goal" /\ taskStatus = "active" /\ nextRun = 0 THEN clock ELSE nextRun
    /\ Observe(s, "listing")
    /\ vain' = FALSE
    /\ UNCHANGED <<kind, taskStatus, clock, claims, checkpoints, setbacks>>

ListTask(s) ==
    /\ Observing(s, "listing")
    /\ IF taskStatus = "active" /\ nextRun \in 1 .. clock
       THEN observer' = [observer EXCEPT ![s] = [IdleObserver EXCEPT !.phase = "due", !.at = nextRun]]
       ELSE Leave(s)
    /\ UNCHANGED <<taskVars, clock, claims, checkpoints, vain, setbacks>>
-----------------------------------------------------------------------------
(* claimObservation.                                                       *)

\* The insertion, or what the key leaves of it: a look at the claim that is there.
ClaimOccurrence(s) ==
    LET k == observer[s].at IN
    /\ Observing(s, "due")
    /\ CASE claims[k].status = "none" ->
              /\ claims' = [claims EXCEPT ![k] = [status |-> "running", attempts |-> 1]]
              /\ observer' = [observer EXCEPT ![s].phase = "claimed", ![s].tries = 1]
         [] claims[k].status \in {"failed", "running"} ->
              /\ observer' = [observer EXCEPT ![s].phase = "taking", ![s].tries = CountUp(claims[k].attempts)]
              /\ UNCHANGED claims
         [] OTHER -> Leave(s) /\ UNCHANGED claims
    /\ UNCHANGED <<taskVars, clock, checkpoints, vain, setbacks>>

Holds(s, k) == observer[s].at = k /\ observer[s].phase \notin {"due", "taking"}
Held(k) == \E s \in Observers : Holds(s, k)

\* Mutant: a claim is its sweep's, whatever became of it.
TakeFailedClaim(s) ==
    /\ Observing(s, "taking") /\ claims[observer[s].at].status = "failed"
    /\ claims' = [claims EXCEPT ![observer[s].at] = [status |-> "running", attempts |-> CountUp(@.attempts)]]
    /\ Observe(s, "claimed")
    /\ UNCHANGED <<taskVars, clock, checkpoints, vain, setbacks>>

\* A failed claim, or one that is thirty minutes old: its sweep is lost, or slow.
TakeClaim(s) ==
    LET k == observer[s].at IN
    /\ Observing(s, "taking")
    /\ claims[k].status \in {"failed", "running"}
    /\ claims[k].status = "running" /\ Held(k) => setbacks < MaxSetbacks
    /\ setbacks' = setbacks + (IF claims[k].status = "running" /\ Held(k) THEN 1 ELSE 0)
    /\ claims' = [claims EXCEPT ![k] = [status |-> "running", attempts |-> CountUp(@.attempts)]]
    /\ Observe(s, "claimed")
    /\ UNCHANGED <<taskVars, clock, checkpoints, vain>>

LeaveClaim(s) ==
    /\ Observing(s, "taking") /\ claims[observer[s].at].status # "failed"
    /\ Leave(s)
    /\ UNCHANGED <<taskVars, clock, claims, checkpoints, vain, setbacks>>
-----------------------------------------------------------------------------
(* runBusinessGoalTask, runFinanceWatchTask.                               *)

\* The sources agree, and the next occurrence is the first after now; or they do not,
\* and a watch has decided about its recovery; or anything else goes wrong.
ReadSources(s) ==
    /\ Observing(s, "claimed")
    /\ \/ observer' = [observer EXCEPT ![s].phase = "verified", ![s].plan = clock + 1]
       \/ \E phase \in {"unverified", "broken"} : Observe(s, phase)
    /\ UNCHANGED <<taskVars, clock, claims, checkpoints, vain, setbacks>>

\* Mutant: the batch trusts what the sweep has listed.
StillMineAnyway(s) == claims[observer[s].at].status = "running" /\ nextRun = observer[s].at

\* What the batch asks for, or else aborts.
StillMine(s) ==
    /\ claims[observer[s].at].status = "running"
    /\ taskStatus = "active" /\ nextRun = observer[s].at

\* The batch; its reply may be lost.
Commit(s) ==
    LET k == observer[s].at IN
    /\ Observing(s, "verified") /\ StillMine(s)
    /\ checkpoints' = checkpoints \cup {k}
    /\ claims' = [claims EXCEPT ![k].status = "completed"]
    /\ nextRun' = observer[s].plan
    /\ \/ Leave(s) /\ UNCHANGED setbacks
       \/ /\ setbacks < MaxSetbacks /\ setbacks' = setbacks + 1
          /\ Observe(s, "broken")
    /\ UNCHANGED <<kind, taskStatus, clock, vain>>

CommitAborts(s) ==
    /\ Observing(s, "verified")
    /\ ~StillMine(s) \/ setbacks < MaxSetbacks
    /\ setbacks' = setbacks + (IF StillMine(s) THEN 1 ELSE 0)
    /\ Observe(s, "broken")
    /\ UNCHANGED <<taskVars, clock, claims, checkpoints, vain>>
-----------------------------------------------------------------------------
(* After a failure.                                                        *)

\* A goal asks its owner after the third attempt whatever went wrong, a watch only
\* when its sources could not be verified.
AsksOwner(s) ==
    /\ observer[s].tries >= Enough
    /\ Observing(s, "unverified") \/ (Observing(s, "broken") /\ kind = "goal")

\* pauseForOwnerAttention, escalateOwnerAttention; the reply may be lost.
AskOwner(s) ==
    /\ AsksOwner(s) /\ StillMine(s)
    /\ claims' = [claims EXCEPT ![observer[s].at].status = "failed"]
    /\ taskStatus' = "paused"
    /\ \/ Leave(s) /\ UNCHANGED setbacks
       \/ /\ setbacks < MaxSetbacks /\ setbacks' = setbacks + 1
          /\ Observe(s, "failing")
    /\ UNCHANGED <<kind, nextRun, clock, checkpoints, vain>>

\* Nobody is asked yet, or the batch that asks aborts, by its guard or by a passing fault.
Disappointed(s) ==
    LET asked == AsksOwner(s) /\ StillMine(s) IN
    /\ observer[s].phase \in {"unverified", "broken"}
    /\ asked => setbacks < MaxSetbacks
    /\ setbacks' = setbacks + (IF asked THEN 1 ELSE 0)
    /\ Observe(s, "failing")
    /\ vain' = (vain \/ (Observing(s, "broken") /\ kind = "watch"))
    /\ UNCHANGED <<taskVars, clock, claims, checkpoints>>

\* failClaim: a claim that is running, whoever has it by now.
FailClaim(s) ==
    LET k == observer[s].at IN
    /\ Observing(s, "failing")
    /\ claims' = [claims EXCEPT ![k].status = IF @ = "running" THEN "failed" ELSE @]
    /\ vain' = (vain \/ \E r \in Observers \ {s} : Holds(r, k))
    /\ Leave(s)
    /\ UNCHANGED <<taskVars, clock, checkpoints, setbacks>>

LoseObserver(s) ==
    /\ setbacks < MaxSetbacks /\ setbacks' = setbacks + 1
    /\ ~Observing(s, "idle")
    /\ Leave(s)
    /\ UNCHANGED <<taskVars, clock, claims, checkpoints, vain>>
-----------------------------------------------------------------------------
(* The owner, and time.                                                    *)

\* transition: the status it has read is in its WHERE, so that both are one step.
OwnerSets(to) ==
    /\ taskStatus \notin {"completed", "cancelled"}
    /\ taskStatus' = to
    /\ nextRun' = IF to = "active" /\ nextRun = 0 THEN clock ELSE nextRun
    /\ UNCHANGED <<kind, clock, claims, checkpoints, observer, vain, setbacks>>

Tick ==
    /\ clock < Horizon /\ clock' = clock + 1
    /\ UNCHANGED <<taskVars, claims, checkpoints, observer, vain, setbacks>>

Observation(s) ==
    \/ ListTask(s) \/ ClaimOccurrence(s) \/ LeaveClaim(s) \/ TakeClaim(s)
    \/ ReadSources(s) \/ Commit(s) \/ CommitAborts(s)
    \/ AskOwner(s) \/ Disappointed(s) \/ FailClaim(s)

LoopNext ==
    \/ \E s \in Observers : StartSweep(s) \/ Observation(s) \/ LoseObserver(s)
    \/ \E to \in TaskStates : OwnerSets(to)
    \/ Tick

LoopSpec == LoopInit /\ [][LoopNext]_loopVars

\* The cron starts sweeps and D1 runs their statements; a claim that nobody holds is
\* thirty minutes old at some sweep.
LoopFairness ==
    /\ \A s \in Observers : WF_loopVars(StartSweep(s)) /\ WF_loopVars(Observation(s))
    /\ SF_loopVars(\E s \in Observers : TakeClaim(s))
-----------------------------------------------------------------------------
(* Properties.                                                             *)

\* The loops keep what ObservationSchedule promises, whatever overlaps, is taken over,
\* fails or is lost.
Schedule == INSTANCE ObservationSchedule WITH
    state <- taskStatus, next <- nextRun, verified <- checkpoints,
    tried <- [k \in Occurrences |-> claims[k].attempts]
ImplementsSchedule == Schedule!ScheduleSpec

\* An occurrence does not stay due: it is verified, or the task comes to a rest before
\* its owner, unless a watch goes on failing for reasons it puts before nobody, or two
\* sweeps go on failing each other's claims.
DueIsObserved == []<>(taskStatus # "active" \/ nextRun \notin 1 .. clock \/ vain)
=============================================================================
