-------------------------- MODULE MCTaskExecution --------------------------
(* Instances of TaskExecution for TLC.  The sets are model values; the        *)
(* specification never tells two users, payloads, delegations or workers      *)
(* apart, nor two requests of one kind.                                       *)
EXTENDS TaskExecution, TLC

MCSymmetry ==
    Permutations(Users) \cup Permutations(Payloads) \cup Permutations(Workers)
      \cup Permutations(Delegations) \cup Permutations(EmployeeRequests)
      \cup Permutations(Requests \ EmployeeRequests)

\* A bound on the world, not on the handlers: states in which the agent is revoked
\* or a user has left are checked, but not what follows them.  There every check
\* denies, as it does while the agent is contained or the user is a manager, and
\* those two can be undone.
MCBound == authority # "revoked" /\ \A u \in Users : role[u] # "none"
=============================================================================
