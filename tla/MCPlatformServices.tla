--------------------------- MODULE MCPlatformServices ---------------------------
(* The services of the platform that share nothing in these models, checked in one  *)
(* run: Init chooses the service a behaviour is about, and the others stand still.  *)
EXTENDS CreditWallet, NotificationOutbox, AuditChain, ObservationLoop, InternalAutonomy,
        ApiIdempotency

VARIABLE focus

Services == {"wallet", "outbox", "audit", "loop", "autonomy", "idempotency"}
Turn(service) == focus = service

servicesVars == <<focus, walletVars, outboxVars, auditVars, loopVars, autonomyVars, idempotencyVars>>

\* Bound: producers overlap with one another, sweeps with one another.
OutboxBound == (\A p \in Producers : producer[p].phase = "idle") \/ (\A s \in Sweeps : Sweeping(s, "idle"))

\* Bound: of the two final states of a task, one.
LoopBound == taskStatus # "cancelled"

\* A service that stands still does so in one of its initial states.
MCInit ==
    /\ focus \in Services
    /\ WalletInit /\ OutboxInit /\ AuditInit /\ LoopInit /\ AutonomyInit /\ IdempotencyInit
    /\ ~Turn("outbox")   => channel = [n \in Notes |-> "in_app"]
    /\ ~Turn("loop")     => kind = "goal" /\ nextRun = 0
    /\ ~Turn("autonomy") => stuck = Policies
    /\ ~Turn("idempotency") => payload = [r \in Requests |-> CHOOSE p \in Payloads : TRUE]

WalletStep ==
    /\ (\E c \in Calls : CallStep(c)) \/ MonthlyGrant
    /\ UNCHANGED <<outboxVars, auditVars, loopVars, autonomyVars, idempotencyVars>>
OutboxStep   == OutboxNext   /\ UNCHANGED <<walletVars, auditVars, loopVars, autonomyVars, idempotencyVars>>
AuditStep    == AuditNext    /\ UNCHANGED <<walletVars, outboxVars, loopVars, autonomyVars, idempotencyVars>>
LoopStep     == LoopNext     /\ UNCHANGED <<walletVars, outboxVars, auditVars, autonomyVars, idempotencyVars>>
AutonomyStep == AutonomyNext /\ UNCHANGED <<walletVars, outboxVars, auditVars, loopVars, idempotencyVars>>
IdempotencyStep ==
    IdempotencyNext /\ UNCHANGED <<walletVars, outboxVars, auditVars, loopVars, autonomyVars>>

MCNext ==
    /\ \/ Turn("wallet")      /\ WalletStep
       \/ Turn("outbox")      /\ OutboxStep /\ OutboxBound'
       \/ Turn("audit")       /\ AuditStep
       \/ Turn("loop")        /\ LoopStep /\ LoopBound'
       \/ Turn("autonomy")    /\ AutonomyStep
       \/ Turn("idempotency") /\ IdempotencyStep
    /\ UNCHANGED focus

\* OutboxFairness and LoopFairness, each for its own behaviours.
MCFairness ==
    /\ SF_outboxVars(Turn("outbox") /\ \E s \in Sweeps : RecoverClaims(s, Orphans))
    /\ \A s \in Sweeps : WF_outboxVars(Turn("outbox") /\ SweepStep(s))
    /\ \A n \in Notes : WF_outboxVars(Turn("outbox") /\ BecomeDue(n))
    /\ \A s \in Observers : /\ WF_loopVars(Turn("loop") /\ StartSweep(s))
                            /\ WF_loopVars(Turn("loop") /\ Observation(s))
    /\ SF_loopVars(Turn("loop") /\ \E s \in Observers : TakeClaim(s))

MCSpec == MCInit /\ [][MCNext]_servicesVars /\ MCFairness

\* Every component keeps its type.
ServicesTypeOK == /\ WalletTypeOK /\ OutboxTypeOK /\ AuditTypeOK /\ LoopTypeOK /\ AutonomyTypeOK
                  /\ IdempotencyTypeOK
=============================================================================
