--------------------------- MODULE MCTenantDeletion ---------------------------
(* Instances of TenantDeletion for TLC. *)
EXTENDS TenantDeletion, TLC

MCSymmetry == Permutations(Requests) \cup Permutations(Owners) \cup Permutations(Sweeps)
                 \cup Permutations(Evidence)
=============================================================================
