-------------------------- MODULE ObservationSchedule --------------------------
(***************************************************************************)
(* What a scheduled observation task promises its owner: occurrences are   *)
(* verified one after the other, each at most once and only while the task *)
(* is active; its schedule moves on with a verification and with nothing   *)
(* else; and it is put before the owner only after three attempts.         *)
(***************************************************************************)
EXTENDS Integers

CONSTANTS
    Horizon,  \* bound: the last occurrence looked at
    Enough    \* attempts after which the owner is asked

VARIABLES
    state,     \* of the task
    next,      \* its next occurrence; 0 before it has one
    verified,  \* the occurrences that were verified
    tried      \* per occurrence, how often

scheduleVars == <<state, next, verified, tried>>

Occurrences == 1 .. Horizon
States   == {"active", "paused", "completed", "cancelled"}
Terminal == {"completed", "cancelled"}

ScheduleInit ==
    /\ state    = "active"
    /\ next     \in {0, 1}
    /\ verified = {}
    /\ tried    = [k \in Occurrences |-> 0]

Attempt ==
    /\ next \in Occurrences
    /\ \E n \in tried[next] .. tried[next] + 1 : tried' = [tried EXCEPT ![next] = n]
    /\ UNCHANGED <<state, next, verified>>

Verify ==
    /\ state = "active" /\ next \in Occurrences \ verified /\ tried[next] > 0
    /\ verified' = verified \cup {next}
    /\ next' \in next + 1 .. Horizon + 1
    /\ UNCHANGED <<state, tried>>

AskOwner ==
    /\ state = "active" /\ next \in Occurrences /\ tried[next] >= Enough
    /\ state' = "paused"
    /\ UNCHANGED <<next, verified, tried>>

\* The schedule of an active task begins when it has none.
Begin ==
    /\ next = 0 /\ next' \in Occurrences
    /\ state' = "active" /\ state \notin Terminal
    /\ UNCHANGED <<verified, tried>>

OwnerDecides ==
    /\ state \notin Terminal /\ state' \in States
    /\ UNCHANGED <<next, verified, tried>>

ScheduleNext == Attempt \/ Verify \/ AskOwner \/ Begin \/ OwnerDecides

ScheduleSpec == ScheduleInit /\ [][ScheduleNext]_scheduleVars
=============================================================================
