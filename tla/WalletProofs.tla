------------------------------ MODULE WalletProofs ------------------------------
(***************************************************************************)
(* The credits of module CreditWallet, for any number of concurrent        *)
(* requests: the books agree, and the cap is passed by a bounded amount.   *)
(***************************************************************************)
EXTENDS CreditWallet, FiniteSetTheorems, TLAPS

\* What the requests at some places have taken.
Here(P)  == {c \in Calls : call[c] \in P}
CostOf(P) == Cost * Cardinality(Here(P))

\* Requests that hold a part of the allocation, and those the cap has let in but does
\* not count yet.
Allotted == {"claimed", "drawn", "pool"}
Underway == {"admitted", "short", "cleared", "debited", "claimed", "drawn"}

BooksKept ==
    undisturbed => /\ wallet = ledger - CostOf({"debited"})
                   /\ pool + allocated = Pool + CostOf({"claimed"})

\* MAX(0, ...) never hides anything: a request that gives its allocation back has one.
AllocationCovers == CostOf(Allotted) <= allocated

\* A request is admitted under the cap, and finds all others underway at the most.
CapCovers == used + CostOf(Underway) <= Cap + Cost * (Cardinality(Calls) - 1)

WalletInv == WalletTypeOK /\ BooksKept /\ AllocationCovers /\ CapCovers
-----------------------------------------------------------------------------
(* What a request's step does to the counts.                               *)

LEMMA OneMore == ASSUME NEW n \in Nat, WalletConstants PROVE Cost * (n + 1) = Cost * n + Cost
  BY DEF WalletConstants

LEMMA HereIsFinite ==
  ASSUME WalletConstants, NEW P
  PROVE  /\ IsFiniteSet(Here(P)) /\ Cardinality(Here(P)) \in Nat /\ CostOf(P) \in Nat
         /\ Cardinality(Here(P)) <= Cardinality(Calls) /\ Cardinality(Calls) \in Nat
<1>1. Here(P) \subseteq Calls /\ IsFiniteSet(Calls) /\ Cost \in Nat
  BY DEF Here, WalletConstants
<1>2. IsFiniteSet(Here(P)) /\ Cardinality(Here(P)) <= Cardinality(Calls)
  BY <1>1, FS_Subset
<1>3. Cardinality(Here(P)) \in Nat /\ Cardinality(Calls) \in Nat
  BY <1>1, <1>2, FS_CardinalityType
<1> QED
  BY <1>1, <1>2, <1>3 DEF CostOf

LEMMA NothingCosts == ASSUME WalletConstants, NEW P, Here(P) = {} PROVE CostOf(P) = 0
  BY FS_EmptySet DEF WalletConstants, CostOf

\* A request that goes to one of the places takes its cost there, and away from those
\* it leaves.
LEMMA CostMoves ==
  ASSUME WalletConstants, WalletTypeOK, NEW c \in Calls, NEW to \in Places, Go(c, to), NEW P
  PROVE  /\ CostOf(P) \in Nat /\ CostOf(P)' \in Nat
         /\ CostOf(P)' = CostOf(P) + (IF to \in P THEN Cost ELSE 0)
                                 - (IF call[c] \in P THEN Cost ELSE 0)
<1>1. /\ call'[c] = to
      /\ \A d \in Calls \ {c} : call'[d] = call[d]
  BY DEF WalletTypeOK, Go
<1>2. IsFiniteSet(Here(P)) /\ Cardinality(Here(P)) \in Nat /\ Cost \in Nat /\ CostOf(P) \in Nat
  BY HereIsFinite DEF WalletConstants
<1>3. CASE to \in P <=> call[c] \in P
  <2>1. Here(P)' = Here(P)
    BY <1>1, <1>3 DEF Here
  <2> QED
    BY <1>2, <1>3, <2>1 DEF CostOf
<1>4. CASE to \in P /\ call[c] \notin P
  <2>1. Here(P)' = Here(P) \cup {c} /\ c \notin Here(P)
    BY <1>1, <1>4 DEF Here
  <2>2. Cardinality(Here(P)') = Cardinality(Here(P)) + 1
    BY <1>2, <2>1, FS_AddElement
  <2>3. CostOf(P)' = CostOf(P) + Cost
    BY <1>2, <2>2, OneMore DEF CostOf
  <2> QED
    BY <1>2, <1>4, <2>3
<1>5. CASE to \notin P /\ call[c] \in P
  <2>1. Here(P)' = Here(P) \ {c} /\ c \in Here(P)
    BY <1>1, <1>5 DEF Here
  <2>2. Cardinality(Here(P)') = Cardinality(Here(P)) - 1 /\ IsFiniteSet(Here(P)')
    BY <1>2, <2>1, FS_RemoveElement
  <2>3. Cardinality(Here(P)') \in Nat
    BY <2>2, FS_CardinalityType
  <2>4. CostOf(P) = CostOf(P)' + Cost
    BY <1>2, <2>2, <2>3, OneMore DEF CostOf
  <2>5. CostOf(P)' \in Nat
    BY <1>2, <2>3 DEF CostOf
  <2> QED
    BY <1>2, <1>5, <2>4, <2>5
<1> QED
  BY <1>3, <1>4, <1>5

\* The four counts of the invariant.
CountsMoved(c, to) ==
    /\ CostOf({"debited"})' = CostOf({"debited"}) + (IF to = "debited" THEN Cost ELSE 0)
                                                - (IF call[c] = "debited" THEN Cost ELSE 0)
    /\ CostOf({"claimed"})' = CostOf({"claimed"}) + (IF to = "claimed" THEN Cost ELSE 0)
                                                - (IF call[c] = "claimed" THEN Cost ELSE 0)
    /\ CostOf(Allotted)' = CostOf(Allotted) + (IF to \in Allotted THEN Cost ELSE 0)
                                          - (IF call[c] \in Allotted THEN Cost ELSE 0)
    /\ CostOf(Underway)' = CostOf(Underway) + (IF to \in Underway THEN Cost ELSE 0)
                                          - (IF call[c] \in Underway THEN Cost ELSE 0)
    /\ {CostOf({"debited"}), CostOf({"claimed"}), CostOf(Allotted), CostOf(Underway)} \subseteq Nat
    /\ {CostOf({"debited"})', CostOf({"claimed"})', CostOf(Allotted)', CostOf(Underway)'} \subseteq Nat
    /\ call' \in [Calls -> Places]
    /\ CostOf(Underway)' <= Cost * (Cardinality(Calls) - 1) + Cost

LEMMA CountsMove ==
  ASSUME WalletConstants, WalletTypeOK, NEW c \in Calls, NEW to \in Places, Go(c, to)
  PROVE  CountsMoved(c, to)
<1> PICK D, K : D = {"debited"} /\ K = {"claimed"}
  OBVIOUS
<1>1. /\ CostOf(D)' = CostOf(D) + (IF to \in D THEN Cost ELSE 0) - (IF call[c] \in D THEN Cost ELSE 0)
      /\ CostOf(K)' = CostOf(K) + (IF to \in K THEN Cost ELSE 0) - (IF call[c] \in K THEN Cost ELSE 0)
      /\ {CostOf(D), CostOf(K), CostOf(D)', CostOf(K)'} \subseteq Nat
  BY CostMoves
<1>2. /\ CostOf(Allotted)' = CostOf(Allotted) + (IF to \in Allotted THEN Cost ELSE 0)
                                            - (IF call[c] \in Allotted THEN Cost ELSE 0)
      /\ CostOf(Underway)' = CostOf(Underway) + (IF to \in Underway THEN Cost ELSE 0)
                                            - (IF call[c] \in Underway THEN Cost ELSE 0)
      /\ {CostOf(Allotted), CostOf(Underway), CostOf(Allotted)', CostOf(Underway)'} \subseteq Nat
  BY CostMoves
<1>3. call' \in [Calls -> Places]
  BY DEF Go, WalletTypeOK
<1>4. CostOf(Underway)' <= Cost * (Cardinality(Calls) - 1) + Cost
  <2>1. /\ Here(Underway)' \subseteq Calls /\ IsFiniteSet(Calls) /\ Calls # {} /\ Cost \in Nat
    BY DEF Here, WalletConstants
  <2> PICK H : H = Here(Underway)'
    OBVIOUS
  <2>2. Cardinality(H) <= Cardinality(Calls) /\ IsFiniteSet(H)
    BY <2>1, FS_Subset
  <2>3. Cardinality(Calls) \in Nat /\ Cardinality(H) \in Nat /\ Cardinality(Calls) # 0
    BY <2>1, <2>2, FS_CardinalityType, FS_EmptySet
  <2>4. PICK m \in Nat : Cardinality(Calls) = m + 1
    BY <2>3
  <2>5. Cost * (m + 1) = Cost * m + Cost /\ Cardinality(Calls) - 1 = m
    BY <2>4, OneMore
  <2>6. Cost * Cardinality(H) <= Cost * (m + 1)
    BY <2>1, <2>2, <2>3, <2>4
  <2> QED
    BY <2>4, <2>5, <2>6 DEF CostOf
<1> QED
  BY <1>1, <1>2, <1>3, <1>4 DEF CountsMoved
-----------------------------------------------------------------------------
(* The steps.                                                              *)

LEMMA WalletInitInvariant == ASSUME WalletConstants, WalletInit PROVE WalletInv
<1>1. WalletTypeOK
  <2>1. granted \in BOOLEAN /\ hold \in BOOLEAN /\ undisturbed \in BOOLEAN
    BY Zenon DEF WalletInit
  <2> QED
    BY <2>1 DEF WalletConstants, WalletInit, WalletTypeOK, Places
<1>2. \A P : "idle" \notin P => Here(P) = {}
  BY DEF WalletInit, Here
<1>3. Cost \in Nat /\ Cost * 0 = 0
  BY DEF WalletConstants
<1>4. /\ Here({"debited"}) = {} /\ Here({"claimed"}) = {} /\ Here(Allotted) = {} /\ Here(Underway) = {}
  BY <1>2 DEF Allotted, Underway
<1>5. /\ CostOf({"debited"}) = 0 /\ CostOf({"claimed"}) = 0 /\ CostOf(Allotted) = 0 /\ CostOf(Underway) = 0
  BY <1>3, <1>4, FS_EmptySet DEF CostOf
<1>6. Cost * (Cardinality(Calls) - 1) >= 0
  <2>1. Cardinality(Calls) \in Nat /\ Cardinality(Calls) # 0
    BY FS_CardinalityType, FS_EmptySet DEF WalletConstants
  <2> QED
    BY <1>3, <2>1
<1>7. CapCovers
  <2> PICK m \in Int : m = Cost * (Cardinality(Calls) - 1)
    BY <1>3, FS_CardinalityType DEF WalletConstants
  <2> QED
    BY <1>5, <1>6 DEF CapCovers, WalletInit, WalletConstants
<1> QED
  BY <1>1, <1>5, <1>7 DEF WalletInv, BooksKept, AllocationCovers, WalletInit, WalletConstants

\* A step of a request keeps the invariant.
LEMMA CallStepInvariant ==
  ASSUME WalletConstants, WalletInv, NEW c \in Calls, CallStep(c), hold' \in BOOLEAN
  PROVE  WalletInv'
<1>0. WalletTypeOK /\ call[c] \in Places /\ Cost \in Nat /\ {Cap, Pool, ClientCap} \subseteq Nat
  BY DEF WalletInv, WalletTypeOK, WalletConstants
<1> PICK room \in Int : room = Cost * (Cardinality(Calls) - 1)
  BY <1>0, FS_CardinalityType DEF WalletConstants
<1>1. CASE CheckSpend(c)
  <2>1. CountsMoved(c, "admitted")
    BY <1>0, <1>1, CountsMove DEF CheckSpend, Places
  <2> QED
    BY <1>0, <1>1, <2>1
    DEF CheckSpend, CountsMoved, At, bookVars, poolVars, WalletInv, WalletTypeOK, BooksKept,
        AllocationCovers, CapCovers, Allotted, Underway
<1>2. CASE Refuse(c)
  <2>1. CountsMoved(c, "idle")
    BY <1>0, <1>2, CountsMove DEF Refuse, Places
  <2> QED
    BY <1>0, <1>2, <2>1
    DEF Refuse, CountsMoved, At, bookVars, poolVars, WalletInv, WalletTypeOK, BooksKept,
        AllocationCovers, CapCovers, Allotted, Underway
<1>3. CASE DebitWallet(c)
  <2>1. CountsMoved(c, "debited")
    BY <1>0, <1>3, CountsMove DEF DebitWallet, Places
  <2> QED
    BY <1>0, <1>3, <2>1
    DEF DebitWallet, CountsMoved, At, bookVars, poolVars, WalletInv, WalletTypeOK, BooksKept,
        AllocationCovers, CapCovers, Allotted, Underway
<1>4. CASE WalletRefuses(c)
  <2>1. CountsMoved(c, "short")
    BY <1>0, <1>4, CountsMove DEF WalletRefuses, Places
  <2> QED
    BY <1>0, <1>4, <2>1
    DEF WalletRefuses, CountsMoved, At, bookVars, poolVars, WalletInv, WalletTypeOK, BooksKept,
        AllocationCovers, CapCovers, Allotted, Underway
<1>5. CASE LogUsage(c)
  <2>1. CountsMoved(c, "wallet")
    BY <1>0, <1>5, CountsMove DEF LogUsage, Places
  <2> QED
    BY <1>0, <1>5, <2>1
    DEF LogUsage, CountsMoved, At, bookVars, poolVars, WalletInv, WalletTypeOK, BooksKept,
        AllocationCovers, CapCovers, Allotted, Underway
<1>6. CASE LogFails(c)
  <2>1. CountsMoved(c, "idle")
    BY <1>0, <1>6, CountsMove DEF LogFails, Places
  <2> QED
    BY <1>0, <1>6, <2>1
    DEF LogFails, CountsMoved, At, bookVars, poolVars, WalletInv, WalletTypeOK, BooksKept,
        AllocationCovers, CapCovers, Allotted, Underway
<1>7. CASE LogReplyLost(c)
  <2>1. CountsMoved(c, "idle")
    BY <1>0, <1>7, CountsMove DEF LogReplyLost, Places
  <2>2. undisturbed' \in BOOLEAN /\ ~undisturbed'
    BY <1>0, <1>7, Zenon DEF LogReplyLost, WalletTypeOK
  <2>3. WalletTypeOK'
    BY <1>0, <1>7, <2>1, <2>2
    DEF LogReplyLost, CountsMoved, At, bookVars, poolVars, WalletTypeOK, Allotted
  <2>4. BooksKept'
    BY <1>0, <1>7, <2>1, <2>2
    DEF LogReplyLost, CountsMoved, At, bookVars, poolVars, WalletInv, WalletTypeOK, BooksKept, Allotted
  <2>5. AllocationCovers' /\ CapCovers'
    BY <1>0, <1>7, <2>1, <2>2
    DEF LogReplyLost, CountsMoved, At, bookVars, poolVars, WalletInv, WalletTypeOK, AllocationCovers,
        CapCovers, Allotted, Underway
  <2> QED
    BY <2>3, <2>4, <2>5 DEF WalletInv
<1>h. CASE LookAtHold(c)
  <2>1. CountsMoved(c, "cleared")
    BY <1>0, <1>h, CountsMove DEF LookAtHold, Places
  <2> QED
    BY <1>0, <1>h, <2>1
    DEF LookAtHold, CountsMoved, At, bookVars, poolVars, WalletInv, WalletTypeOK, BooksKept,
        AllocationCovers, CapCovers, Allotted, Underway
<1>8. CASE ClaimAllocation(c)
  <2>1. CountsMoved(c, "claimed")
    BY <1>0, <1>8, CountsMove DEF ClaimAllocation, Places
  <2> QED
    BY <1>0, <1>8, <2>1
    DEF ClaimAllocation, CountsMoved, At, bookVars, poolVars, WalletInv, WalletTypeOK, BooksKept,
        AllocationCovers, CapCovers, Allotted, Underway
<1>9. CASE DrawPool(c)
  <2>1. CountsMoved(c, "drawn")
    BY <1>0, <1>9, CountsMove DEF DrawPool, Places
  <2> QED
    BY <1>0, <1>9, <2>1
    DEF DrawPool, CountsMoved, At, bookVars, poolVars, WalletInv, WalletTypeOK, BooksKept,
        AllocationCovers, CapCovers, Allotted, Underway
<1>10. CASE ReturnAllocation(c)
  <2>1. CountsMoved(c, "idle")
    BY <1>0, <1>10, CountsMove DEF ReturnAllocation, Places
  <2>2. call[c] \in Allotted => Cost <= allocated
    BY <1>0, <2>1 DEF CountsMoved, WalletInv, WalletTypeOK, AllocationCovers, Allotted
  <2>3. WalletTypeOK'
    BY <1>0, <1>10, <2>1, <2>2
    DEF ReturnAllocation, CountsMoved, At, bookVars, poolVars, AllocationReturned, WalletTypeOK, Allotted
  <2>4. BooksKept'
    BY <1>0, <1>10, <2>1, <2>2
    DEF ReturnAllocation, CountsMoved, At, bookVars, poolVars, AllocationReturned, WalletInv, WalletTypeOK, BooksKept, Allotted
  <2>5. AllocationCovers' /\ CapCovers'
    BY <1>0, <1>10, <2>1, <2>2
    DEF ReturnAllocation, CountsMoved, At, bookVars, poolVars, AllocationReturned, WalletInv, WalletTypeOK, AllocationCovers,
        CapCovers, Allotted, Underway
  <2> QED
    BY <2>3, <2>4, <2>5 DEF WalletInv
<1>11. CASE DrawReplyLost(c)
  <2>1. CountsMoved(c, "idle")
    BY <1>0, <1>11, CountsMove DEF DrawReplyLost, Places
  <2>2. undisturbed' \in BOOLEAN /\ ~undisturbed'
    BY <1>0, <1>11, Zenon DEF DrawReplyLost, WalletTypeOK
  <2>3. call[c] \in Allotted => Cost <= allocated
    BY <1>0, <2>1 DEF CountsMoved, WalletInv, WalletTypeOK, AllocationCovers, Allotted
  <2>4. WalletTypeOK'
    BY <1>0, <1>11, <2>1, <2>2, <2>3
    DEF DrawReplyLost, CountsMoved, At, bookVars, poolVars, AllocationReturned, WalletTypeOK, Allotted
  <2>5. BooksKept'
    BY <1>0, <1>11, <2>1, <2>2, <2>3
    DEF DrawReplyLost, CountsMoved, At, bookVars, poolVars, AllocationReturned, WalletInv, WalletTypeOK, BooksKept, Allotted
  <2>6. AllocationCovers' /\ CapCovers'
    BY <1>0, <1>11, <2>1, <2>2, <2>3
    DEF DrawReplyLost, CountsMoved, At, bookVars, poolVars, AllocationReturned, WalletInv, WalletTypeOK, AllocationCovers,
        CapCovers, Allotted, Underway
  <2> QED
    BY <2>4, <2>5, <2>6 DEF WalletInv
<1>12. CASE LogDrawn(c)
  <2>1. CountsMoved(c, "pool")
    BY <1>0, <1>12, CountsMove DEF LogDrawn, Places
  <2> QED
    BY <1>0, <1>12, <2>1
    DEF LogDrawn, CountsMoved, At, bookVars, poolVars, WalletInv, WalletTypeOK, BooksKept,
        AllocationCovers, CapCovers, Allotted, Underway
<1>13. CASE ReturnDrawn(c)
  <2>1. CountsMoved(c, "idle")
    BY <1>0, <1>13, CountsMove DEF ReturnDrawn, Places
  <2>2. call[c] \in Allotted => Cost <= allocated
    BY <1>0, <2>1 DEF CountsMoved, WalletInv, WalletTypeOK, AllocationCovers, Allotted
  <2>3. WalletTypeOK'
    BY <1>0, <1>13, <2>1, <2>2
    DEF ReturnDrawn, CountsMoved, At, bookVars, poolVars, AllocationReturned, WalletTypeOK, Allotted
  <2>4. BooksKept'
    BY <1>0, <1>13, <2>1, <2>2
    DEF ReturnDrawn, CountsMoved, At, bookVars, poolVars, AllocationReturned, WalletInv, WalletTypeOK, BooksKept, Allotted
  <2>5. AllocationCovers' /\ CapCovers'
    BY <1>0, <1>13, <2>1, <2>2
    DEF ReturnDrawn, CountsMoved, At, bookVars, poolVars, AllocationReturned, WalletInv, WalletTypeOK, AllocationCovers,
        CapCovers, Allotted, Underway
  <2> QED
    BY <2>3, <2>4, <2>5 DEF WalletInv
<1>14. CASE Answered(c)
  <2>1. CountsMoved(c, "idle")
    BY <1>0, <1>14, CountsMove DEF Answered, Places
  <2> QED
    BY <1>0, <1>14, <2>1
    DEF Answered, CountsMoved, At, bookVars, poolVars, WalletInv, WalletTypeOK, BooksKept,
        AllocationCovers, CapCovers, Allotted, Underway
<1>15. CASE RefundFailedCredit(c)
  <2>1. CountsMoved(c, "idle")
    BY <1>0, <1>15, CountsMove DEF RefundFailedCredit, Places
  <2>2. call[c] \in Allotted => Cost <= allocated
    BY <1>0, <2>1 DEF CountsMoved, WalletInv, WalletTypeOK, AllocationCovers, Allotted
  <2>3. WalletTypeOK'
    BY <1>0, <1>15, <2>1, <2>2
    DEF RefundFailedCredit, CountsMoved, At, bookVars, poolVars, AllocationReturned, WalletTypeOK, Allotted
  <2>4. BooksKept'
    BY <1>0, <1>15, <2>1, <2>2
    DEF RefundFailedCredit, CountsMoved, At, bookVars, poolVars, AllocationReturned, WalletInv, WalletTypeOK, BooksKept, Allotted
  <2>5. AllocationCovers' /\ CapCovers'
    BY <1>0, <1>15, <2>1, <2>2
    DEF RefundFailedCredit, CountsMoved, At, bookVars, poolVars, AllocationReturned, WalletInv, WalletTypeOK, AllocationCovers,
        CapCovers, Allotted, Underway
  <2> QED
    BY <2>3, <2>4, <2>5 DEF WalletInv
<1>16. CASE LoseCall(c)
  <2>1. CountsMoved(c, "idle")
    BY <1>0, <1>16, CountsMove DEF LoseCall, Places
  <2>2. undisturbed' \in BOOLEAN /\ (undisturbed' => undisturbed /\ call[c] \notin {"debited", "claimed"})
    BY <1>0, <1>16, Zenon DEF LoseCall, WalletTypeOK
  <2>3. WalletTypeOK'
    BY <1>0, <1>16, <2>1, <2>2
    DEF LoseCall, CountsMoved, At, bookVars, poolVars, WalletTypeOK, Allotted
  <2>4. BooksKept'
    BY <1>0, <1>16, <2>1, <2>2
    DEF LoseCall, CountsMoved, At, bookVars, poolVars, WalletInv, WalletTypeOK, BooksKept, Allotted
  <2>5. AllocationCovers' /\ CapCovers'
    BY <1>0, <1>16, <2>1, <2>2
    DEF LoseCall, CountsMoved, At, bookVars, poolVars, WalletInv, WalletTypeOK, AllocationCovers,
        CapCovers, Allotted, Underway
  <2> QED
    BY <2>3, <2>4, <2>5 DEF WalletInv
<1> QED
  BY <1>1, <1>2, <1>3, <1>4, <1>5, <1>6, <1>7, <1>h, <1>8,
     <1>9, <1>10, <1>11, <1>12, <1>13, <1>14, <1>15, <1>16 DEF CallStep

\* Every step of the wallet keeps the invariant.
LEMMA WalletStepInvariant ==
  ASSUME WalletConstants, WalletInv, [WalletNext]_walletVars
  PROVE  WalletInv'
<1> USE DEF WalletInv, WalletConstants
<1>s. ASSUME UNCHANGED call
      PROVE  \A P : CostOf(P)' = CostOf(P)
  BY <1>s DEF CostOf, Here
<1>t. \A P : CostOf(P) \in Nat
  BY HereIsFinite
<1>1. ASSUME NEW c \in Calls, CallStep(c) PROVE WalletInv'
  <2>1. hold' \in BOOLEAN
    BY <1>1 DEF WalletTypeOK, CallStep, CheckSpend, Refuse, DebitWallet, WalletRefuses, LogUsage,
         LogFails, LogReplyLost, LookAtHold, ClaimAllocation, DrawPool, ReturnAllocation, DrawReplyLost,
         LogDrawn, ReturnDrawn, Answered, RefundFailedCredit, LoseCall
  <2> QED
    BY <1>1, <2>1, CallStepInvariant
<1>2. CASE MonthlyGrant
  BY <1>2, <1>s, <1>t DEF MonthlyGrant, WalletTypeOK, BooksKept, AllocationCovers, CapCovers, poolVars
<1>3. CASE HoldMoves
  BY <1>3, <1>s DEF HoldMoves, WalletTypeOK, BooksKept, AllocationCovers, CapCovers, bookVars, poolVars
<1>4. CASE Purchase /\ hold' \in BOOLEAN
  BY <1>4, <1>s, <1>t DEF Purchase, WalletTypeOK, BooksKept, AllocationCovers, CapCovers, poolVars
<1>5. CASE Reversal /\ hold' \in BOOLEAN
  <2>1. undisturbed' \in BOOLEAN /\ (undisturbed' => undisturbed /\ wallet >= Credits)
    BY <1>5, Zenon DEF Reversal, WalletTypeOK
  <2> QED
    BY <1>5, <1>s, <1>t, <2>1 DEF Reversal, WalletTypeOK, BooksKept, AllocationCovers, CapCovers, poolVars
<1>6. CASE UNCHANGED walletVars
  BY <1>6, <1>s
  DEF walletVars, WalletTypeOK, BooksKept, AllocationCovers, CapCovers, bookVars, poolVars
<1> QED
  BY <1>1, <1>2, <1>3, <1>4, <1>5, <1>6 DEF WalletNext

\* The ledger rises with a request only by what an answer had cost, or as a stray refund.
LEMMA LedgerFollows ==
  ASSUME WalletConstants, WalletTypeOK, NEW c \in Calls, CallStep(c)
  PROVE  /\ granted' = granted /\ stray' \in Nat /\ CostOf({"wallet"})' \in Nat
         /\ ledger' + CostOf({"wallet"})' <= ledger + CostOf({"wallet"}) + (Cost * stray' - Cost * stray)
<1> PICK W : W = {"wallet"}
  OBVIOUS
<1>0. /\ Cost \in Nat /\ ledger \in Int /\ stray \in Nat
      /\ CostOf(W) \in Nat /\ Cost * stray \in Int /\ Cost * (stray + 1) = Cost * stray + Cost
  BY HereIsFinite, OneMore DEF WalletTypeOK, WalletConstants
<1>m. ASSUME NEW to \in Places, Go(c, to)
      PROVE  /\ CostOf(W)' \in Nat
             /\ CostOf(W)' = CostOf(W) + (IF to = "wallet" THEN Cost ELSE 0)
                                     - (IF call[c] = "wallet" THEN Cost ELSE 0)
  BY <1>m, CostMoves
<1>1. ASSUME NEW to \in Places \ {"wallet"}, Go(c, to), UNCHANGED <<ledger, granted, stray>>
      PROVE  /\ granted' = granted /\ stray' \in Nat /\ CostOf(W)' \in Nat
             /\ ledger' + CostOf(W)' <= ledger + CostOf(W) + (Cost * stray' - Cost * stray)
  BY <1>0, <1>1, <1>m
<1>2. CASE LogUsage(c) \/ LogReplyLost(c)
  <2>1. /\ ledger' = ledger - Cost /\ granted' = granted /\ stray' = stray
        /\ Go(c, "wallet") \/ Go(c, "idle")
    BY <1>2 DEF LogUsage, LogReplyLost
  <2>2. CostOf(W)' \in Nat /\ CostOf(W)' <= CostOf(W) + Cost
    BY <1>0, <1>m, <2>1 DEF Places
  <2> QED
    BY <1>0, <2>1, <2>2
<1>3. CASE RefundFailedCredit(c)
  <2>1. Go(c, "idle") /\ granted' = granted
    BY <1>3 DEF RefundFailedCredit
  <2>2. CostOf(W)' \in Nat /\ CostOf(W)' = CostOf(W) - (IF call[c] = "wallet" THEN Cost ELSE 0)
    BY <1>0, <1>m, <2>1 DEF Places
  <2>3. \/ ledger' = ledger + Cost /\ call[c] = "wallet" /\ stray' = stray
        \/ ledger' = ledger + Cost /\ call[c] # "wallet" /\ stray' = stray + 1
        \/ ledger' = ledger /\ stray' = stray
    BY <1>0, <1>3 DEF RefundFailedCredit, At
  <2> QED
    BY <1>0, <2>1, <2>2, <2>3
<1>4. CASE CheckSpend(c) \/ Refuse(c) \/ DebitWallet(c) \/ WalletRefuses(c) \/ LogFails(c) \/ LookAtHold(c)
           \/ ClaimAllocation(c) \/ DrawPool(c) \/ ReturnAllocation(c) \/ DrawReplyLost(c) \/ LogDrawn(c) \/ ReturnDrawn(c)
           \/ Answered(c) \/ LoseCall(c)
  BY <1>1, <1>4
  DEF CheckSpend, Refuse, DebitWallet, WalletRefuses, LogFails, LookAtHold, ClaimAllocation, DrawPool, ReturnAllocation,
      DrawReplyLost, LogDrawn, ReturnDrawn, Answered, LoseCall, bookVars, Places
<1> QED
  BY <1>2, <1>3, <1>4 DEF CallStep
-----------------------------------------------------------------------------
(* The theorems.                                                           *)

\* The inductive invariant, in every behaviour of the wallet.
THEOREM WalletInvariantHolds == WalletSpec => []WalletInv
<1>1. WalletInit => WalletInv
  BY WalletAssumption, WalletInitInvariant
<1>2. WalletInv /\ [WalletNext]_walletVars => WalletInv'
  BY WalletAssumption, WalletStepInvariant
<1> QED
  BY <1>1, <1>2, PTL DEF WalletSpec

\* Neither the wallet nor the pool nor the allocation goes below zero.
THEOREM WalletTypeCorrect == WalletSpec => []WalletTypeOK
<1>1. WalletInv => WalletTypeOK
  BY DEF WalletInv
<1> QED
  BY <1>1, WalletInvariantHolds, PTL

LEMMA CreditsFollow == ASSUME WalletConstants, WalletInv PROVE CreditsAccounted
<1>1. BooksAgree
  <2>1. {c \in Calls : At(c, "debited")} = Here({"debited"})
    BY DEF At, Here
  <2>2. {c \in Calls : At(c, "claimed")} = Here({"claimed"})
    BY DEF At, Here
  <2> QED
    BY <2>1, <2>2 DEF WalletInv, BooksKept, BooksAgree, Count, CostOf
<1>2. OverrunBounded
  <2>1. CostOf(Underway) \in Nat /\ Cost \in Nat /\ Cardinality(Calls) \in Nat
    BY HereIsFinite DEF WalletConstants
  <2> PICK room \in Int : room = Cost * (Cardinality(Calls) - 1)
    BY <2>1
  <2> QED
    BY <2>1 DEF WalletInv, WalletTypeOK, CapCovers, OverrunBounded, WalletConstants
<1> QED
  BY <1>1, <1>2 DEF CreditsAccounted

\* Wallet and ledger, pool and allocation differ by what requests have taken and not
\* recorded yet, and the month's usage passes the cap by one answer less than there are
\* requests, for any number of them.
THEOREM CreditsTheorem == WalletSpec => []CreditsAccounted
<1>1. WalletInv => CreditsAccounted
  BY WalletAssumption, CreditsFollow
<1> QED
  BY <1>1, WalletInvariantHolds, PTL
=============================================================================
