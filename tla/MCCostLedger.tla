--------------------------- MODULE MCCostLedger ---------------------------
(* Instances of CostLedger for TLC. *)
EXTENDS CostLedger, TLC

MCSymmetry == Permutations(Reservations) \cup Permutations(RunIds) \cup Permutations(Runners)
=============================================================================
