--------------------------- MODULE NotificationOutbox ---------------------------
(***************************************************************************)
(* The notification outbox of worker.js: rows queued under a key, the      *)
(* monthly WhatsApp allowance they are charged to, and the sweeps that     *)
(* deliver them.                                                           *)
(*                                                                         *)
(* A sweep puts rows of stale claims back in the queue, lists what is due  *)
(* and claims and delivers row by row.  A scheduled run of thirty minutes  *)
(* is begun again, so that sweeps may overlap; what a delivery writes does *)
(* not ask whether the claim is still its own.  The limit of a listing     *)
(* (100 rows) is left out.                                                 *)
(***************************************************************************)
EXTENDS Integers, FiniteSets

CONSTANTS
    Notes,        \* keys under which a notification may be queued
    Channels,     \* in_app, email and whatsapp, those in use
    Sweeps,       \* overlapping runs of processNotificationOutbox
    Producers,    \* overlapping handlers that queue notifications
    MaxAttempts,  \* 5 in the code
    Quota,        \* the plan's whatsapp_notifications in a month
    MaxLosses     \* bound: isolates lost, and claims that outlive ten minutes

ASSUME OutboxAssumption ==
    /\ IsFiniteSet(Notes) /\ IsFiniteSet(Producers) /\ IsFiniteSet(Sweeps)
    /\ Channels \subseteq {"in_app", "email", "whatsapp"}
    /\ MaxAttempts \in Nat \ {0} /\ {Quota, MaxLosses} \subseteq Nat

VARIABLES
    channel,   \* notification_outbox.channel
    outbox,    \* notification_outbox.status
    attempts,  \* notification_outbox.attempts
    wait,      \* notification_outbox.scheduled_at: now, or what is waited for
    letters,   \* notification_dead_letters
    consent,   \* whatsapp_consents.status = 'active'
    quota,     \* tenant_usage_counters.value
    delivery,  \* per sweep: where it is
    producer,  \* per producer: where it is
    sends,     \* history: what the provider, or the inbox, has accepted
    excuses,   \* history: claims put back as stale, acceptances not recorded
    leaks,     \* history: producers lost with an allowance in hand
    losses     \* history: see MaxLosses

noteVars   == <<outbox, attempts, wait, letters>>
recipient  == <<channel, consent>>
quotaVars  == <<quota, producer, leaks>>
outboxVars == <<noteVars, recipient, quotaVars, delivery, sends, excuses, losses>>

Messages == {n \in Notes : channel[n] = "whatsapp"}

Settled == {"sent", "failed", "canceled"}

\* listed: between two rows.  ready: nothing left to ask but the provider.
SweepPhases == {"idle", "recovered", "listed", "claimed", "ready", "accepted", "failing", "dead", "buried"}
Delivering  == {"claimed", "ready", "failing", "dead", "buried"}
IdleSweep == [phase |-> "idle", todo |-> {}, note |-> {}, seen |-> [n \in Notes |-> 0]]

ProducerPhases == {"idle", "reserve", "insert", "release"}

OutboxTypeOK ==
    /\ channel  \in [Notes -> Channels]
    /\ outbox   \in [Notes -> {"none", "queued", "processing"} \cup Settled]
    /\ attempts \in [Notes -> Nat]
    /\ wait     \in [Notes -> {"due", "backoff", "quiet"}]
    /\ letters  \subseteq Notes
    /\ consent  \in BOOLEAN
    /\ quota    \in Nat
    /\ delivery \in [Sweeps -> [phase : SweepPhases, todo : SUBSET Notes, note : SUBSET Notes,
                                seen : [Notes -> Nat]]]
    /\ producer \in [Producers -> [phase : ProducerPhases, note : SUBSET Notes]]
    /\ sends    \in [Notes -> Nat]
    /\ excuses  \in [Notes -> Nat]
    /\ leaks    \in Nat
    /\ losses   \in 0 .. MaxLosses

OutboxInit ==
    /\ channel  \in [Notes -> Channels]
    /\ outbox   = [n \in Notes |-> "none"]
    /\ attempts = [n \in Notes |-> 0]
    /\ wait     = [n \in Notes |-> "due"]
    /\ letters  = {}
    /\ consent  = TRUE
    /\ quota    = 0
    /\ delivery = [s \in Sweeps |-> IdleSweep]
    /\ producer = [p \in Producers |-> [phase |-> "idle", note |-> {}]]
    /\ sends    = [n \in Notes |-> 0]
    /\ excuses  = [n \in Notes |-> 0]
    /\ leaks    = 0
    /\ losses   = 0
-----------------------------------------------------------------------------
(* Queueing: enqueueNotification, enqueueWhatsAppNotification and          *)
(* enqueueWhatsAppSessionReply, for a recipient.                           *)

Producing(p, phase, n) == producer[p].phase = phase /\ producer[p].note = {n}
Produce(p, phase, n) == producer' = [producer EXCEPT ![p] = [phase |-> phase, note |-> {n}]]
Produced(p) == producer' = [producer EXCEPT ![p] = [phase |-> "idle", note |-> {}]]

LookForKey(p, n) ==
    /\ producer[p].phase = "idle" /\ outbox[n] = "none"
    /\ Produce(p, IF n \in Messages THEN "reserve" ELSE "insert", n)
    /\ UNCHANGED <<noteVars, recipient, quota, leaks, delivery, sends, excuses, losses>>

\* Mutant: the allowance is compared by the dashboard.
ReserveUnlimited(p, n) ==
    /\ Producing(p, "reserve", n)
    /\ quota' = quota + 1 /\ Produce(p, "insert", n)
    /\ UNCHANGED <<noteVars, recipient, leaks, delivery, sends, excuses, losses>>

\* reserveWhatsAppAllowance: one conditional UPDATE.
Reserve(p, n) ==
    /\ Producing(p, "reserve", n)
    /\ \/ quota < Quota  /\ quota' = quota + 1      /\ Produce(p, "insert", n)
       \/ quota >= Quota /\ UNCHANGED quota /\ Produced(p)
    /\ UNCHANGED <<noteVars, recipient, leaks, delivery, sends, excuses, losses>>

\* INSERT OR IGNORE under notification_outbox_external_dedupe_uq.
InsertNote(p, n) ==
    /\ Producing(p, "insert", n)
    /\ \/ /\ outbox[n] = "none"
          /\ outbox' = [outbox EXCEPT ![n] = "queued"]
          /\ Produced(p)
       \/ /\ outbox[n] # "none"
          /\ IF n \in Messages THEN Produce(p, "release", n) ELSE Produced(p)
          /\ UNCHANGED outbox
    /\ UNCHANGED <<attempts, wait, letters, recipient, quota, leaks, delivery, sends, excuses, losses>>

\* releaseWhatsAppAllowance: MAX(0, value - 1).
ReleaseQuota(p, n) ==
    /\ Producing(p, "release", n)
    /\ quota' = IF quota > 0 THEN quota - 1 ELSE 0
    /\ Produced(p)
    /\ UNCHANGED <<noteVars, recipient, leaks, delivery, sends, excuses, losses>>

LoseProducer(p, n) ==
    /\ losses < MaxLosses /\ losses' = losses + 1
    /\ producer[p].phase # "idle" /\ n \in producer[p].note
    /\ leaks' = leaks + (IF n \in Messages /\ producer[p].phase # "reserve" THEN 1 ELSE 0)
    /\ Produced(p)
    /\ UNCHANGED <<noteVars, recipient, quota, delivery, sends, excuses>>
-----------------------------------------------------------------------------
(* A sweep.                                                                *)

Sweeping(s, phase) == delivery[s].phase = phase
Deliver(s, phase) == delivery' = [delivery EXCEPT ![s].phase = phase]
\* The next row of the listing, or the end of the sweep.
GoOn(s, todo) ==
    delivery' = [delivery EXCEPT ![s] = IF todo = {} THEN IdleSweep
                                        ELSE [@ EXCEPT !.phase = "listed", !.note = {}, !.todo = todo]]
NextRow(s) == GoOn(s, delivery[s].todo)
AttemptNo(s, n) == delivery[s].seen[n] + 1

InHand == UNION {delivery[s].note : s \in Sweeps}
Orphans == {n \in Notes : outbox[n] = "processing" /\ n \notin InHand}

\* Mutant: a row that is claimed is its sweep's, whatever became of it.
RecoverNothing(s, R) ==
    /\ Sweeping(s, "idle") /\ R = {}
    /\ Deliver(s, "recovered")
    /\ UNCHANGED <<noteVars, recipient, quotaVars, sends, excuses, losses>>

\* Claims older than ten minutes are put back, also those of a sweep that is slow.
RecoverClaims(s, R) ==
    /\ Sweeping(s, "idle")
    /\ R \subseteq {n \in Notes : outbox[n] = "processing"}
    /\ losses' = losses + Cardinality(R \ Orphans) /\ losses' <= MaxLosses
    /\ outbox'  = [n \in Notes |-> IF n \in R THEN "queued" ELSE outbox[n]]
    /\ excuses' = [n \in Notes |-> excuses[n] + (IF n \in R THEN 1 ELSE 0)]
    /\ Deliver(s, "recovered")
    /\ UNCHANGED <<attempts, wait, letters, recipient, quotaVars, sends>>

\* The rows are listed with their attempts.
ListDue(s) ==
    /\ Sweeping(s, "recovered")
    /\ LET due == {n \in Notes : outbox[n] = "queued" /\ wait[n] = "due"} IN
       delivery' = [delivery EXCEPT ![s] =
         IF due = {} THEN IdleSweep
         ELSE [phase |-> "listed", todo |-> due, note |-> {},
               seen |-> [n \in Notes |-> IF n \in due THEN attempts[n] ELSE 0]]]
    /\ UNCHANGED <<noteVars, recipient, quotaVars, sends, excuses, losses>>

\* Mutant: a listed row is taken as it was listed.
ClaimNoteBlindly(s, n) ==
    /\ Sweeping(s, "listed") /\ n \in delivery[s].todo
    /\ outbox' = [outbox EXCEPT ![n] = "processing"]
    /\ delivery' = [delivery EXCEPT ![s].todo = @ \ {n}, ![s].note = {n}, ![s].phase = "claimed"]
    /\ UNCHANGED <<attempts, wait, letters, recipient, quotaVars, sends, excuses, losses>>

\* The claim: status = 'queued' once more.
ClaimNote(s, n) ==
    /\ Sweeping(s, "listed") /\ n \in delivery[s].todo
    /\ \/ /\ outbox[n] = "queued"
          /\ outbox' = [outbox EXCEPT ![n] = "processing"]
          /\ delivery' = [delivery EXCEPT ![s].todo = @ \ {n}, ![s].note = {n}, ![s].phase = "claimed"]
       \/ /\ outbox[n] # "queued"
          /\ GoOn(s, delivery[s].todo \ {n})
          /\ UNCHANGED outbox
    /\ UNCHANGED <<attempts, wait, letters, recipient, quotaVars, sends, excuses, losses>>

Has(s, n) == n \in delivery[s].note

\* deliverNotification in quiet hours.
Defer(s, n) ==
    /\ Sweeping(s, "claimed") /\ Has(s, n) /\ channel[n] # "in_app"
    /\ outbox' = [outbox EXCEPT ![n] = "queued"]
    /\ wait'   = [wait EXCEPT ![n] = "quiet"]
    /\ NextRow(s)
    /\ UNCHANGED <<attempts, letters, recipient, quotaVars, sends, excuses, losses>>

MarkSent(s, n) ==
    /\ outbox'   = [outbox EXCEPT ![n] = "sent"]
    /\ attempts' = [attempts EXCEPT ![n] = AttemptNo(s, n)]
    /\ NextRow(s)

DeliverInside(s, n) ==
    /\ Sweeping(s, "claimed") /\ Has(s, n) /\ channel[n] = "in_app"
    /\ MarkSent(s, n)
    /\ sends' = [sends EXCEPT ![n] = @ + 1]
    /\ UNCHANGED <<wait, letters, recipient, quotaVars, excuses, losses>>

\* The catch gives a row up: this attempt counts.
GiveUp(s, n) == delivery' = [delivery EXCEPT ![s].phase = "dead", ![s].seen[n] = @ + 1]

\* The recipient's preferences, before any attempt, then sendWhatsAppNotification's look
\* at the consent.
LookAtRecipient(s, n) ==
    /\ Sweeping(s, "claimed") /\ Has(s, n) /\ channel[n] # "in_app"
    /\ \/ Deliver(s, "dead")
       \/ (n \in Messages => consent) /\ Deliver(s, "ready")
       \/ n \in Messages /\ ~consent /\ GiveUp(s, n)
    /\ UNCHANGED <<noteVars, recipient, quotaVars, sends, excuses, losses>>

ProviderAccepts(s, n) ==
    /\ Sweeping(s, "ready") /\ Has(s, n)
    /\ sends' = [sends EXCEPT ![n] = @ + 1]
    /\ Deliver(s, "accepted")
    /\ UNCHANGED <<noteVars, recipient, quotaVars, excuses, losses>>

\* Any answer but an acceptance: for good, or to be tried again.
ProviderRefuses(s, n) ==
    /\ Sweeping(s, "ready") /\ Has(s, n)
    /\ Deliver(s, "failing") \/ GiveUp(s, n)
    /\ UNCHANGED <<noteVars, recipient, quotaVars, sends, excuses, losses>>

RecordSent(s, n) ==
    /\ Sweeping(s, "accepted") /\ Has(s, n)
    /\ MarkSent(s, n)
    /\ UNCHANGED <<wait, letters, recipient, quotaVars, sends, excuses, losses>>

\* The reply was lost, or what records it fails: caught like a refusal.
AcceptanceLost(s, n) ==
    /\ Sweeping(s, "accepted") /\ Has(s, n)
    /\ excuses' = [excuses EXCEPT ![n] = @ + 1]
    /\ Deliver(s, "failing")
    /\ UNCHANGED <<noteVars, recipient, quotaVars, sends, losses>>

\* The catch: queue it again with a back-off, until the attempts are used up.
TryAgain(s, n) ==
    /\ Sweeping(s, "failing") /\ Has(s, n)
    /\ \/ /\ AttemptNo(s, n) < MaxAttempts
          /\ outbox'   = [outbox EXCEPT ![n] = "queued"]
          /\ attempts' = [attempts EXCEPT ![n] = AttemptNo(s, n)]
          /\ wait'     = [wait EXCEPT ![n] = "backoff"]
          /\ NextRow(s)
       \/ /\ AttemptNo(s, n) >= MaxAttempts
          /\ GiveUp(s, n)
          /\ UNCHANGED <<outbox, attempts, wait>>
    /\ UNCHANGED <<letters, recipient, quotaVars, sends, excuses, losses>>

\* markDeadLetter: a row of its own, then the notification.
WriteDeadLetter(s, n) ==
    /\ Sweeping(s, "dead") /\ Has(s, n)
    /\ letters' = letters \cup {n}
    /\ Deliver(s, "buried")
    /\ UNCHANGED <<outbox, attempts, wait, recipient, quotaVars, sends, excuses, losses>>

MarkFailed(s, n) ==
    /\ Sweeping(s, "buried") /\ Has(s, n)
    /\ outbox'   = [outbox EXCEPT ![n] = "failed"]
    /\ attempts' = [attempts EXCEPT ![n] = delivery[s].seen[n]]
    /\ NextRow(s)
    /\ UNCHANGED <<wait, letters, recipient, quotaVars, sends, excuses, losses>>

\* An isolate is lost, or a statement outside the try fails and ends the sweep.
LoseSweep(s) ==
    /\ losses < MaxLosses /\ losses' = losses + 1
    /\ ~Sweeping(s, "idle")
    /\ delivery' = [delivery EXCEPT ![s] = IdleSweep]
    /\ UNCHANGED <<noteVars, recipient, quotaVars, sends, excuses>>
-----------------------------------------------------------------------------
(* Time, the recipient and the provider's webhook.                         *)

BecomeDue(n) ==
    /\ wait[n] # "due"
    /\ wait' = [wait EXCEPT ![n] = "due"]
    /\ UNCHANGED <<outbox, attempts, letters, recipient, quotaVars, delivery, sends, excuses, losses>>

\* DELETE /api/notification-channels/whatsapp.
RevokeConsent ==
    /\ consent /\ consent' = FALSE
    /\ outbox' = [n \in Notes |-> IF n \in Messages /\ outbox[n] = "queued" THEN "canceled" ELSE outbox[n]]
    /\ UNCHANGED <<attempts, wait, letters, channel, quotaVars, delivery, sends, excuses, losses>>

\* PUT of the same path: what was cancelled stays so.
GiveConsent ==
    /\ ~consent /\ consent' = TRUE
    /\ UNCHANGED <<noteVars, channel, quotaVars, delivery, sends, excuses, losses>>

\* A status of the provider says that what it accepted could not be delivered.
ProviderReportsFailure(n) ==
    /\ n \in Messages /\ sends[n] > 0 /\ outbox[n] # "failed"
    /\ outbox'  = [outbox EXCEPT ![n] = "failed"]
    /\ letters' = letters \cup {n}
    /\ UNCHANGED <<attempts, wait, recipient, quotaVars, delivery, sends, excuses, losses>>

ProducerStep(p, n) ==
    \/ LookForKey(p, n) \/ Reserve(p, n) \/ InsertNote(p, n) \/ ReleaseQuota(p, n) \/ LoseProducer(p, n)

SweepStep(s) ==
    \/ ListDue(s)
    \/ \E n \in Notes :
          \/ ClaimNote(s, n) \/ Defer(s, n) \/ DeliverInside(s, n) \/ LookAtRecipient(s, n)
          \/ ProviderAccepts(s, n) \/ ProviderRefuses(s, n) \/ RecordSent(s, n) \/ AcceptanceLost(s, n)
          \/ TryAgain(s, n) \/ WriteDeadLetter(s, n) \/ MarkFailed(s, n)

OutboxNext ==
    \/ \E p \in Producers, n \in Notes : ProducerStep(p, n)
    \/ \E s \in Sweeps, R \in SUBSET Notes : RecoverClaims(s, R)
    \/ \E s \in Sweeps : SweepStep(s) \/ LoseSweep(s)
    \/ \E n \in Notes : BecomeDue(n) \/ ProviderReportsFailure(n)
    \/ RevokeConsent \/ GiveConsent

OutboxSpec == OutboxInit /\ [][OutboxNext]_outboxVars

\* The cron starts sweeps for ever and D1 runs their statements; a claim that nobody
\* holds is ten minutes old at some sweep.
OutboxFairness ==
    /\ SF_outboxVars(\E s \in Sweeps : RecoverClaims(s, Orphans))
    /\ \A s \in Sweeps : WF_outboxVars(SweepStep(s))
    /\ \A n \in Notes : WF_outboxVars(BecomeDue(n))
-----------------------------------------------------------------------------
(* Properties.                                                             *)

\* A notification is accepted once, and once more for every claim that was put back
\* as stale and every acceptance that was not recorded: neither overlapping sweeps nor
\* their unconditional writes are a reason of their own.
DuplicatesExplained == \A n \in Notes : sends[n] <= 1 + excuses[n]

\* What is charged is what is queued, in a producer's hand or lost with one, and never
\* more than the plan allows.
QuotaAccounted ==
    /\ quota <= Quota
    /\ quota = leaks + Cardinality({n \in Messages : outbox[n] # "none"})
                     + Cardinality({p \in Producers : producer[p].phase \in {"insert", "release"}
                                                      /\ producer[p].note \subseteq Messages})

\* Every notification that was queued is sent, buried or cancelled, unless it meets
\* its recipient's quiet hours again and again.
NotificationsSettle ==
    \A n \in Notes : [](outbox[n] = "queued" => <>(outbox[n] \in Settled)) \/ []<>(wait[n] = "quiet")
=============================================================================
