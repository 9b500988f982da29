---------------------------- MODULE MCScheduledWork ----------------------------
(* What the cron works on for ever: the dispatcher's queue, from the state in which *)
(* MCEmployeeDispatch has its requests approved, and the standing policies, whose    *)
(* clock is set back where that of InternalAutonomy stops.  The two share nothing:   *)
(* Init chooses the one a behaviour is about, and the other stands still.            *)
EXTENDS MCEmployeeDispatch, InternalAutonomy

ASSUME ClockAssumption ==
    /\ LastHour + 1 = 2 * Day
    /\ Cardinality(Policies) <= Day + 1

VARIABLE focus

Turn(work) == focus = work

\* How many instants are written down before that one.
Rank(at) == Cardinality({due[p] : p \in {q \in Policies : due[q] < at}})

\* Midnight, on a clock that is set back by a day: what is to come keeps its distance,
\* what is due keeps its order, and nobody counts the runs of the day before.
\* Bound: from the second midnight on, no sweep lasts over it.
ClockTurns ==
    /\ hour = LastHour /\ \A r \in Runners : Running(r, "idle")
    /\ hour' = Day
    /\ due'  = [p \in Policies |-> IF due[p] > hour THEN due[p] - Day ELSE Rank(due[p])]
    /\ tasks' = {} /\ runs' = {}
    /\ UNCHANGED <<approved, stuck, runner, mishaps>>

\* Where the queue is worked on, no policy is due that could be carried out.
MCInit ==
    /\ focus \in {"queue", "policies"}
    /\ MCReadyInit /\ AutonomyInit
    /\ ~Turn("policies") => stuck = Policies

MCNext ==
    /\ \/ Turn("queue")    /\ MCDispatchNext /\ UNCHANGED autonomyVars
       \/ Turn("policies") /\ (AutonomyNext \/ ClockTurns) /\ UNCHANGED allVars
    /\ UNCHANGED focus

\* DispatchFairness and AutonomyFairness, each for its own behaviours.
MCFairness ==
    /\ \A k \in Dispatchers :
          /\ WF_allVars(Turn("queue") /\ Sweep(k))
          /\ \A r \in EmployeeRequests : SF_allVars(Turn("queue") /\ Claim(k, r))
    /\ \A r \in EmployeeRequests : WF_allVars(Turn("queue") /\ Timer(r))
    /\ SF_autonomyVars(Turn("policies") /\ \E r \in Runners : ListPolicies(r))
    /\ \A r \in Runners : WF_autonomyVars(Turn("policies") /\ RunnerStep(r))

MCSpec == MCInit /\ [][MCNext]_<<focus, allVars, autonomyVars>> /\ MCFairness
=============================================================================
