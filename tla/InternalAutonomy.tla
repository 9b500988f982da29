--------------------------- MODULE InternalAutonomy ---------------------------
(***************************************************************************)
(* Standing policies, agent-internal-autonomy.js: runDueInternalAutonomy   *)
(* takes the policies with the oldest next_run_at, and for each of them    *)
(* runInternalAutonomyPolicy reads its sources, has its task carried out   *)
(* through the chain of module TaskExecution (runStandingApprovedTask) and *)
(* closes the occurrence by a compare-and-set.  The owner may run a policy *)
(* at any time, or revoke it.                                              *)
(*                                                                         *)
(* An occurrence that is denied keeps its place.  Some policies are never  *)
(* carried out: a source of theirs does not answer, their grant is gone.   *)
(***************************************************************************)
EXTENDS Integers, FiniteSets

CONSTANTS
    Policies,   \* a set of numbers, in the order of their ids
    Tasked,     \* those whose scopes include 'tasks'
    Runners,    \* sweeps and run requests at once
    Limit,      \* 10 in the code
    Interval,   \* intervalHours
    MaxDaily,   \* maxDailyRuns
    Day,        \* length of a day
    LastHour,   \* bound: time
    MaxMishaps  \* bound: isolates lost

ASSUME AutonomyAssumption ==
    /\ Policies \subseteq Nat /\ IsFiniteSet(Policies)
    /\ {Limit, Interval, MaxDaily, Day} \subseteq Nat \ {0}
    /\ {LastHour, MaxMishaps} \subseteq Nat

ASSUME ScopeAssumption == Tasked \subseteq Policies

VARIABLES
    hour,      \* now
    approved,  \* the policies that are active
    due,       \* next_run_at, per policy
    stuck,     \* the policies that cannot be carried out
    tasks,     \* idempotency keys of task requests carried out: <<policy, occurrence>>
    runs,      \* AUTONOMY_RUN events: occurrence and day
    runner,    \* per runner: where it is
    mishaps    \* isolates lost

standingVars == <<hour, approved, due, stuck>>
autonomyVars == <<standingVars, tasks, runs, runner, mishaps>>

Hours == 0 .. LastHour
PolicyRows == [policy : Policies, at : 0 .. LastHour + Interval]
NoPolicyRow == [policy |-> 0, at |-> 0]
Resting == [phase |-> "idle", todo |-> {}, row |-> NoPolicyRow, now |-> 0]

AutonomyTypeOK ==
    /\ hour     \in Hours
    /\ approved \subseteq Policies
    /\ due      \in [Policies -> 0 .. LastHour + Interval]
    /\ stuck    \subseteq Policies
    /\ tasks    \subseteq Policies \X Hours
    /\ runs     \subseteq [policy : Policies, at : Hours, day : Hours]
    /\ runner   \in [Runners -> [phase : {"idle", "listed", "checked", "closing"},
                                 todo : SUBSET PolicyRows, row : PolicyRows \cup {NoPolicyRow}, now : Hours]]
    /\ mishaps  \in 0 .. MaxMishaps

AutonomyInit ==
    /\ hour     = 0
    /\ approved = Policies
    /\ due      = [p \in Policies |-> 0]
    /\ stuck    \in SUBSET Policies
    /\ tasks    = {}
    /\ runs     = {}
    /\ runner   = [r \in Runners |-> Resting]
    /\ mishaps  = 0

Running(r, phase) == runner[r].phase = phase
Policy(r) == runner[r].row.policy
\* The next row of the listing: a denial, and an exception too, goes on with it.
Proceed(r) ==
    runner' = [runner EXCEPT ![r] = IF @.todo = {} THEN Resting
                                    ELSE [@ EXCEPT !.phase = "listed", !.row = NoPolicyRow, !.now = 0]]
Today(p) == Cardinality({e \in runs : e.policy = p /\ e.day = hour \div Day})
-----------------------------------------------------------------------------
Due == {p \in approved : due[p] <= hour}
\* Mutant: the rows are taken in the order of their ids.
BeforeById(q, p) == q < p

Before(q, p) == due[q] < due[p] \/ (due[q] = due[p] /\ q < p)

\* Mutant: one row less than there is room for.
OldestShort == {p \in Due : Cardinality({q \in Due : Before(q, p)}) < Limit - 1}

\* ORDER BY next_run_at, id LIMIT 10.
Oldest == {p \in Due : Cardinality({q \in Due : Before(q, p)}) < Limit}

RowOf(p) == [policy |-> p, at |-> due[p]]

ListPolicies(r) ==
    /\ Running(r, "idle") /\ Oldest # {}
    /\ runner' = [runner EXCEPT ![r].phase = "listed", ![r].todo = {RowOf(p) : p \in Oldest}]
    /\ UNCHANGED <<standingVars, tasks, runs, mishaps>>

\* POST .../run, by the owner.
RunNow(r, p) ==
    /\ Running(r, "idle") /\ p \in Due
    /\ runner' = [runner EXCEPT ![r].phase = "listed", ![r].todo = {RowOf(p)}]
    /\ UNCHANGED <<standingVars, tasks, runs, mishaps>>

\* The checks and the sources; now is read once.
Start(r, row) ==
    /\ Running(r, "listed") /\ row \in runner[r].todo
    /\ LET p == row.policy
           rest == runner[r].todo \ {row} IN
       runner' = [runner EXCEPT ![r] =
         IF p \notin stuck /\ Today(p) < MaxDaily
         THEN [phase |-> "checked", todo |-> rest, row |-> row, now |-> hour]
         ELSE IF rest = {} THEN Resting ELSE [@ EXCEPT !.todo = rest]]
    /\ UNCHANGED <<standingVars, tasks, runs, mishaps>>

\* Mutant: the occurrence is whichever is next.
LiveAnyway(r) == Policy(r) \in approved

\* The policy is as it was listed.
Live(r) == Policy(r) \in approved /\ due[Policy(r)] = runner[r].row.at

\* runStandingApprovedTask, if the policy has the scope: the key of the occurrence
\* finds a task of an earlier try.
CarryOut(r) ==
    /\ Running(r, "checked")
    /\ \/ /\ Policy(r) \in Tasked => Live(r)
          /\ tasks' = IF Policy(r) \in Tasked THEN tasks \cup {<<Policy(r), runner[r].row.at>>} ELSE tasks
          /\ runner' = [runner EXCEPT ![r].phase = "closing"]
       \/ Policy(r) \in Tasked /\ ~Live(r) /\ Proceed(r) /\ UNCHANGED tasks
    /\ UNCHANGED <<standingVars, runs, mishaps>>

\* The compare-and-set, the event and the audit row.
CloseRun(r) ==
    LET p == Policy(r) IN
    /\ Running(r, "closing")
    /\ IF Live(r) /\ Today(p) < MaxDaily
       THEN /\ due'  = [due EXCEPT ![p] = runner[r].now + Interval]
            /\ runs' = runs \cup {[policy |-> p, at |-> runner[r].row.at, day |-> hour \div Day]}
       ELSE UNCHANGED <<due, runs>>
    /\ Proceed(r)
    /\ UNCHANGED <<hour, approved, stuck, tasks, mishaps>>

LoseRunner(r) ==
    /\ mishaps < MaxMishaps /\ mishaps' = mishaps + 1
    /\ ~Running(r, "idle")
    /\ runner' = [runner EXCEPT ![r] = Resting]
    /\ UNCHANGED <<standingVars, tasks, runs>>

RevokePolicy(p) ==
    /\ p \in approved
    /\ approved' = approved \ {p}
    /\ UNCHANGED <<hour, due, stuck, tasks, runs, runner, mishaps>>

TimePasses ==
    /\ hour < LastHour /\ hour' = hour + 1
    /\ UNCHANGED <<approved, due, stuck, tasks, runs, runner, mishaps>>

RunnerStep(r) == (\E row \in runner[r].todo : Start(r, row)) \/ CarryOut(r) \/ CloseRun(r)

AutonomyNext ==
    \/ \E r \in Runners : ListPolicies(r) \/ RunnerStep(r) \/ LoseRunner(r)
    \/ \E r \in Runners, p \in Policies : RunNow(r, p)
    \/ \E p \in Policies : RevokePolicy(p)
    \/ TimePasses

AutonomySpec == AutonomyInit /\ [][AutonomyNext]_autonomyVars

\* The cron lists again and again, also between the requests of owners.
AutonomyFairness ==
    /\ SF_autonomyVars(\E r \in Runners : ListPolicies(r))
    /\ \A r \in Runners : WF_autonomyVars(RunnerStep(r))
-----------------------------------------------------------------------------
(* Properties.                                                             *)

\* Denied for as long as it is: stuck, or out of runs for the day.
Denied == {p \in Due : p \in stuck \/ Today(p) >= MaxDaily}

\* A due policy that can be carried out is, unless as many as a sweep looks at are due
\* and denied: those keep their places before it.
DuePoliciesRun ==
    \A p \in Policies : []<>(p \notin Due \ Denied \/ Cardinality(Denied) >= Limit)

\* Whoever runs a policy at once, and whatever is lost in between: an occurrence has one
\* run, after the task that the policy stands for, and is not due again.
OneRunPerOccurrence ==
    /\ \A d, e \in runs : d.policy = e.policy /\ d.at = e.at => d = e
    /\ \A e \in runs :
          /\ e.policy \in Tasked => <<e.policy, e.at>> \in tasks
          /\ e.at < due[e.policy]
=============================================================================
