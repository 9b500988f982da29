----------------------------- MODULE ProofOfPayment -----------------------------
(***************************************************************************)
(* The receipts of one manual bank order, payment-pop-*.js: stagePop-      *)
(* Submission uploads them into quarantine, scanStoredPop has them         *)
(* scanned, readCleanPopForOwner shows them and retireStoredPop removes    *)
(* them.                                                                   *)
(*                                                                         *)
(* A receipt is a reservation under the caller's key, an object in R2 and  *)
(* a document row, written one after the other; a lost reply may leave any *)
(* of them behind.  An upload that is lost is one that takes no further    *)
(* step.  The four limits of reservePopUpload are one, and the rest of its *)
(* validation is left out; so is the receipts' bearing on the order, which *)
(* has none: they never settle it.                                         *)
(***************************************************************************)
EXTENDS Integers, FiniteSets

CONSTANTS
    Uploads,   \* upload requests, each with a document id of its own
    Keys,      \* their idempotency keys
    PerOrder,  \* POP_UPLOAD_LIMITS.perOrder
    Staff,     \* requests of the platform owner at once: scans, retirements, downloads
    Nothing

ASSUME PopAssumption == IsFiniteSet(Uploads) /\ PerOrder \in Nat /\ Nothing \notin Staff \cup Uploads

VARIABLES
    reservation,  \* payment_pop_upload_requests: per key, document and state
    objects,      \* R2: the documents that have an object
    receipt,      \* payment_pop_documents
    upload,       \* per upload: where it is
    task          \* per request of the platform owner: where it is

popVars == <<reservation, objects, receipt, upload, task>>

NoReservation == [state |-> "none", doc |-> Nothing]
NoReceipt == [scan |-> "none", request |-> Nothing, open |-> FALSE, verdict |-> Nothing,
              deleted |-> FALSE, storageDeleted |-> FALSE]
NoTask == [phase |-> "idle", doc |-> Nothing, verdict |-> "failed"]
Verdicts == {"clean", "blocked", "failed"}

PopTypeOK ==
    /\ reservation \in [Keys -> [state : {"none", "reserved", "stored", "failed"}, doc : Uploads \cup {Nothing}]]
    /\ objects \subseteq Uploads
    /\ receipt \in [Uploads -> [scan : Verdicts \cup {"none", "pending"}, request : Staff \cup {Nothing},
                                open : BOOLEAN, verdict : Staff \cup {Nothing},
                                deleted : BOOLEAN, storageDeleted : BOOLEAN]]
    /\ upload \in [Uploads -> [key : Keys \cup {Nothing},
                               phase : {"idle", "reserved", "put", "unsure", "cleaning", "failing", "accepted", "error"}]]
    /\ task \in [Staff -> [phase : {"idle", "asked", "applying", "marked", "deleting", "removed", "reading"},
                           doc : Uploads \cup {Nothing}, verdict : Verdicts]]

PopInit ==
    /\ reservation = [k \in Keys |-> NoReservation]
    /\ objects = {}
    /\ receipt = [d \in Uploads |-> NoReceipt]
    /\ upload  = [u \in Uploads |-> [key |-> Nothing, phase |-> "idle"]]
    /\ task    = [v \in Staff |-> NoTask]
-----------------------------------------------------------------------------
(* stagePopSubmission.  The document of an upload is the upload.           *)

Uploading(u, phase) == upload[u].phase = phase
Upload(u, phase) == upload' = [upload EXCEPT ![u].phase = phase]
Reserved == {k \in Keys : reservation[k].state # "none"}
OwnKey(u) == upload[u].key

\* One statement counts and inserts.
ReserveUpload(u, k) ==
    /\ Uploading(u, "idle") /\ reservation[k].state = "none"
    /\ Cardinality(Reserved) < PerOrder
    /\ reservation' = [reservation EXCEPT ![k] = [state |-> "reserved", doc |-> u]]
    /\ upload' = [upload EXCEPT ![u] = [key |-> k, phase |-> "reserved"]]
    /\ UNCHANGED <<objects, receipt, task>>

\* The key is there already: a replay of what was stored, or a refusal (still in
\* progress, failed before, other bytes, receipt deleted).
FindUpload(u, k) ==
    /\ Uploading(u, "idle") /\ reservation[k].state # "none"
    /\ \E phase \in {"accepted", "error"} :
          /\ phase = "accepted" =>
                reservation[k].state = "stored" /\ ~receipt[reservation[k].doc].deleted
          /\ upload' = [upload EXCEPT ![u] = [key |-> k, phase |-> phase]]
    /\ UNCHANGED <<reservation, objects, receipt, task>>

\* quarantinePop; without a reply the reservation stays as it is.
PutObject(u) ==
    /\ Uploading(u, "reserved")
    /\ \/ objects' = objects \cup {u} /\ \E phase \in {"put", "error"} : Upload(u, phase)
       \/ Upload(u, "error") /\ UNCHANGED objects
    /\ UNCHANGED <<reservation, receipt, task>>

\* The batch of recordPendingPop: guard, document, reservation.
RecordPending(u) ==
    /\ Uploading(u, "put")
    /\ reservation[OwnKey(u)].state = "reserved"
    /\ receipt' = [receipt EXCEPT ![u].scan = "pending"]
    /\ reservation' = [reservation EXCEPT ![OwnKey(u)].state = "stored"]
    /\ \E phase \in {"accepted", "unsure"} : Upload(u, phase)
    /\ UNCHANGED <<objects, task>>

RecordFails(u) ==
    /\ Uploading(u, "put")
    /\ Upload(u, "unsure")
    /\ UNCHANGED <<reservation, objects, receipt, task>>

\* Mutant: an error is taken for an abort.
LookAtReservationNever(u) ==
    /\ Uploading(u, "unsure") /\ Upload(u, "cleaning")
    /\ UNCHANGED <<reservation, objects, receipt, task>>

\* A batch without a reply may have been committed: its reservation tells.
LookAtReservation(u) ==
    /\ Uploading(u, "unsure")
    /\ \/ reservation[OwnKey(u)].state = "stored" /\ ~receipt[u].deleted /\ Upload(u, "accepted")
       \/ reservation[OwnKey(u)].state = "reserved" /\ Upload(u, "cleaning")
       \/ Upload(u, "error")
    /\ UNCHANGED <<reservation, objects, receipt, task>>

CleanUp(u) ==
    /\ Uploading(u, "cleaning")
    /\ \/ objects' = objects \ {u} /\ \E phase \in {"failing", "error"} : Upload(u, phase)
       \/ Upload(u, "error") /\ UNCHANGED objects
    /\ UNCHANGED <<reservation, receipt, task>>

\* failPopReservation; its WHERE says 'reserved'.
FailReservation(u) ==
    /\ Uploading(u, "failing")
    /\ \/ /\ reservation[OwnKey(u)].state = "reserved"
          /\ reservation' = [reservation EXCEPT ![OwnKey(u)].state = "failed"]
       \/ UNCHANGED reservation
    /\ Upload(u, "error")
    /\ UNCHANGED <<objects, receipt, task>>
-----------------------------------------------------------------------------
(* scanStoredPop.                                                          *)

Doing(v, phase) == task[v].phase = phase
Do(v, phase) == task' = [task EXCEPT ![v].phase = phase]
EndTask(v) == task' = [task EXCEPT ![v] = NoTask]
Doc(v) == task[v].doc

\* preparePopScanRequest: no other request may still be open.
AskScanner(v, d) ==
    /\ Doing(v, "idle") /\ d \in objects
    /\ receipt[d].scan = "pending" /\ ~receipt[d].deleted
    /\ ~receipt[d].open
    /\ receipt' = [receipt EXCEPT ![d].request = v, ![d].open = TRUE]
    /\ task' = [task EXCEPT ![v] = [phase |-> "asked", doc |-> d, verdict |-> "failed"]]
    /\ UNCHANGED <<reservation, objects, upload>>

\* scan_request_expires_at.
WindowCloses(d) ==
    /\ receipt[d].open
    /\ receipt' = [receipt EXCEPT ![d].open = FALSE]
    /\ UNCHANGED <<reservation, objects, upload, task>>

Awaited(v) ==
    /\ receipt[Doc(v)].request = v /\ receipt[Doc(v)].open
    /\ receipt[Doc(v)].scan = "pending" /\ ~receipt[Doc(v)].deleted

\* The scanner's answer is compared with the row, and the object read again.
TakeAnswer(v, verdict) ==
    /\ Doing(v, "asked")
    /\ IF Awaited(v) /\ Doc(v) \in objects
       THEN task' = [task EXCEPT ![v].phase = "applying", ![v].verdict = verdict]
       ELSE EndTask(v)
    /\ UNCHANGED <<reservation, objects, receipt, upload>>

\* applyPopScanResult: the compare-and-set, together with its audit event.
ApplyResult(v) ==
    /\ Doing(v, "applying")
    /\ receipt' = IF Awaited(v)
                  THEN [receipt EXCEPT ![Doc(v)].scan = task[v].verdict, ![Doc(v)].verdict = v]
                  ELSE receipt
    /\ EndTask(v)
    /\ UNCHANGED <<reservation, objects, upload>>
-----------------------------------------------------------------------------
(* retireStoredPop and readCleanPopForOwner.                               *)

\* deleted_at, unless it is set; then as the row says, whatever the audit chain said.
Retire(v, d) ==
    /\ Doing(v, "idle") /\ receipt[d].scan # "none" /\ ~receipt[d].storageDeleted
    /\ receipt' = [receipt EXCEPT ![d].deleted = TRUE]
    /\ task' = [task EXCEPT ![v] = [NoTask EXCEPT !.phase = "marked", !.doc = d]]
    /\ UNCHANGED <<reservation, objects, upload>>

\* removeMatchingObject: look, delete, look again.
LookForObject(v) ==
    /\ Doing(v, "marked")
    /\ Do(v, IF Doc(v) \in objects THEN "deleting" ELSE "removed")
    /\ UNCHANGED <<reservation, objects, receipt, upload>>

RemoveObject(v) ==
    /\ Doing(v, "deleting")
    /\ \/ objects' = objects \ {Doc(v)} /\ Do(v, "removed")
       \/ EndTask(v) /\ UNCHANGED objects
    /\ UNCHANGED <<reservation, receipt, upload>>

MarkRemoved(v) ==
    /\ Doing(v, "removed")
    /\ receipt' = [receipt EXCEPT ![Doc(v)].storageDeleted = TRUE]
    /\ EndTask(v)
    /\ UNCHANGED <<reservation, objects, upload>>

OpenReceipt(v, d) ==
    /\ Doing(v, "idle") /\ d \in objects
    /\ receipt[d].scan = "clean" /\ ~receipt[d].deleted
    /\ task' = [task EXCEPT ![v] = [NoTask EXCEPT !.phase = "reading", !.doc = d]]
    /\ UNCHANGED <<reservation, objects, receipt, upload>>

\* The download is committed with its audit event, if the receipt is still as it was
\* opened; its bytes are sent afterwards.
ServeReceipt(v) ==
    /\ Doing(v, "reading")
    /\ EndTask(v)
    /\ UNCHANGED <<reservation, objects, receipt, upload>>

\* A request of the platform owner is lost.
LoseTask(v) ==
    /\ ~Doing(v, "idle") /\ EndTask(v)
    /\ UNCHANGED <<reservation, objects, receipt, upload>>

PopNext ==
    \/ \E u \in Uploads :
          \/ \E k \in Keys : ReserveUpload(u, k) \/ FindUpload(u, k)
          \/ PutObject(u) \/ RecordPending(u) \/ RecordFails(u) \/ LookAtReservation(u)
          \/ CleanUp(u) \/ FailReservation(u)
    \/ \E v \in Staff :
          \/ \E d \in Uploads : AskScanner(v, d) \/ Retire(v, d) \/ OpenReceipt(v, d)
          \/ \E verdict \in Verdicts : TakeAnswer(v, verdict)
          \/ ApplyResult(v) \/ LookForObject(v) \/ RemoveObject(v) \/ MarkRemoved(v) \/ ServeReceipt(v)
          \/ LoseTask(v)
    \/ \E d \in Uploads : WindowCloses(d)

PopSpec == PopInit /\ [][PopNext]_popVars
-----------------------------------------------------------------------------
(* Properties.                                                             *)

HasReceipt(d) == receipt[d].scan # "none"

\* A receipt is there when its reservation says so, and an upload that was told so has one.
ReceiptsBooked ==
    /\ \A d \in Uploads : HasReceipt(d) <=> \E k \in Keys : reservation[k] = [state |-> "stored", doc |-> d]
    /\ \A u \in Uploads : Uploading(u, "accepted") => reservation[OwnKey(u)].state = "stored"
    /\ Cardinality(Reserved) <= PerOrder

\* Its object stays until the receipt is retired, and is gone when the row says so, or
\* when the reservation has failed.
ObjectsKept ==
    /\ \A d \in Uploads : HasReceipt(d) /\ ~receipt[d].deleted => d \in objects
    /\ \A d \in Uploads : receipt[d].storageDeleted => receipt[d].deleted /\ d \notin objects
    /\ \A k \in Keys : reservation[k].state = "failed" => reservation[k].doc \notin objects

\* A verdict is the answer to the request that was open last.
VerdictsCurrent == \A d \in Uploads : receipt[d].scan \in Verdicts => receipt[d].verdict = receipt[d].request

\* Whatever is lost on the way, an accepted receipt is not, and is what was scanned.
ReceiptsKept == ReceiptsBooked /\ ObjectsKept /\ VerdictsCurrent
=============================================================================
