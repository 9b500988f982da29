-------------------------- MODULE MCPaymentSettlement --------------------------
(* The credit orders of PaymentSettlement and the receipts of ProofOfPayment for    *)
(* TLC.  A receipt never settles an order: Init chooses which of them a behaviour   *)
(* is about, and the others stand still.                                            *)
EXTENDS PaymentSettlement, ProofOfPayment, TLC

VARIABLE focus

MCSymmetry == Permutations(Orders) \cup Permutations(Workers) \cup Permutations(Calls)

MCInit == focus \in {"orders", "receipts"} /\ PaymentsInit /\ PopInit

MCNext ==
    /\ \/ focus = "orders"   /\ PaymentsNext /\ UNCHANGED popVars
       \/ focus = "receipts" /\ PopNext      /\ UNCHANGED vars
    /\ UNCHANGED focus

MCSpec == MCInit /\ [][MCNext]_<<focus, vars, popVars>>

\* A bound on what goes on at once, not on what a handler may do: two handlers, of
\* orders or of AI requests, and one order that is not settled.  The month's grant and
\* lost replies have a run of their own; states that follow them are not explored here.
Busy == Cardinality({w \in Workers : ~In(w, "idle")}) + Cardinality({c \in Calls : call[c] # "idle"})
Unsettled == Cardinality({o \in Orders : order[o] # "none" /\ (settlement[o].status # "applied"
                                             \/ order[o] \in {"pending", "processing"})})
MCBound == ~granted /\ undisturbed /\ Busy <= 2 /\ Unsettled <= 1

\* Orders and receipts keep their types.
MCTypeOK == PaymentsTypeOK /\ PopTypeOK
=============================================================================
