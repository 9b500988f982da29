---------------------------- MODULE ApiIdempotency ----------------------------
(***************************************************************************)
(* One idempotency key of one user in one scope: beginApiIdempotency,      *)
(* completeApiIdempotency, abandonApiIdempotency and                       *)
(* idempotentJsonMutation of worker.js over table api_idempotency.         *)
(*                                                                         *)
(* The client sends a request again under its key.  The first one to       *)
(* insert the row executes; the others are refused or get the recorded     *)
(* answer.  A claim of two minutes is taken for dead and taken over, and   *)
(* neither the end of a claim nor its abandonment asks whose it is.        *)
(***************************************************************************)
EXTENDS Integers, FiniteSets

CONSTANTS
    Requests,     \* the requests that come with the key
    Payloads,     \* what they may ask for, up to its hash
    MaxTakings,   \* the CHECK on api_idempotency.attempts, 100 in the code
    NoKey

\* A row of api_idempotency.
KeyRows == [status : {"processing", "completed"}, payload : Payloads, stale : BOOLEAN,
            attempts : 1 .. MaxTakings, answer : Requests \cup {NoKey}]

IdempotencyConstants ==
    /\ IsFiniteSet(Requests)
    /\ MaxTakings \in Nat \ {0}
    /\ NoKey \notin Requests \cup KeyRows

ASSUME IdempotencyAssumption == IdempotencyConstants

VARIABLES
    payload,  \* the request's body
    keyRow,   \* the row of api_idempotency, or NoKey
    request,  \* where the request is
    effects,  \* the requests whose mutation was made
    told,     \* per request: the one whose answer it was given
    lapses    \* history: occasions on which the key lost track of a request

idempotencyVars == <<payload, keyRow, request, effects, told, lapses>>

Steps == {"new", "look", "take", "execute", "complete", "abandon", "refused", "answered", "lost"}

Processing(p) == [status |-> "processing", payload |-> p, stale |-> FALSE, attempts |-> 1, answer |-> NoKey]

IdempotencyTypeOK ==
    /\ payload \in [Requests -> Payloads]
    /\ keyRow  \in KeyRows \cup {NoKey}
    /\ request \in [Requests -> Steps]
    /\ effects \subseteq Requests
    /\ told    \in [Requests -> Requests \cup {NoKey}]
    /\ lapses  \in Nat

IdempotencyInit ==
    /\ payload \in [Requests -> Payloads]
    /\ keyRow  = NoKey
    /\ request = [r \in Requests |-> "new"]
    /\ effects = {}
    /\ told    = [r \in Requests |-> NoKey]
    /\ lapses  = 0

Is(r, step) == request[r] = step
Reach(r, step) == request' = [request EXCEPT ![r] = step]
Taken == keyRow # NoKey
-----------------------------------------------------------------------------
(* beginApiIdempotency.                                                    *)

\* INSERT OR IGNORE: the row is this request's, or there was one.
InsertClaim(r) ==
    /\ Is(r, "new")
    /\ \/ /\ ~Taken /\ keyRow' = Processing(payload[r]) /\ Reach(r, "execute")
       \/ /\ Taken /\ UNCHANGED keyRow /\ Reach(r, "look")
    /\ UNCHANGED <<payload, effects, told, lapses>>

\* Mutant: a key is taken for the request itself.
SamePayloadAssumed(r) == TRUE

SamePayload(r) == keyRow.payload = payload[r]

\* The row is gone (503) or of another request (409); the recorded answer; or a
\* claim that may be dead.
LookAtClaim(r) ==
    /\ Is(r, "look")
    /\ \/ /\ ~(Taken /\ SamePayload(r))
          /\ Reach(r, "refused") /\ UNCHANGED told
       \/ /\ Taken /\ SamePayload(r) /\ keyRow.status = "completed"
          /\ Reach(r, "answered") /\ told' = [told EXCEPT ![r] = keyRow.answer]
       \/ /\ Taken /\ SamePayload(r) /\ keyRow.status = "processing"
          /\ Reach(r, "take") /\ UNCHANGED told
    /\ UNCHANGED <<payload, keyRow, effects, lapses>>

\* Mutant: a claim is dead when it is asked for again.
DeadAtOnce(r) ==
    Taken /\ keyRow.payload = payload[r] /\ keyRow.status = "processing" /\ keyRow.attempts < MaxTakings

Dead(r) ==
    /\ Taken /\ keyRow.payload = payload[r] /\ keyRow.status = "processing"
    /\ keyRow.stale /\ keyRow.attempts < MaxTakings

\* The UPDATE that takes a dead claim over; 425 when it finds none.
TakeOver(r) ==
    /\ Is(r, "take")
    /\ \/ /\ Dead(r)
          /\ keyRow' = [keyRow EXCEPT !.stale = FALSE, !.attempts = @ + 1]
          /\ lapses' = IF keyRow.stale THEN lapses + 1 ELSE lapses
          /\ Reach(r, "execute")
       \/ /\ ~Dead(r) /\ Reach(r, "refused")
          /\ UNCHANGED <<keyRow, lapses>>
    /\ UNCHANGED <<payload, effects, told>>
-----------------------------------------------------------------------------
(* idempotentJsonMutation.                                                 *)

\* The mutation is made, refused (a status of 400 or more), or it throws, and
\* then it may have been made.
Execute(r) ==
    /\ Is(r, "execute")
    /\ \/ effects' = effects \cup {r} /\ (Reach(r, "complete") \/ Reach(r, "abandon"))
       \/ UNCHANGED effects /\ Reach(r, "abandon")
    /\ UNCHANGED <<payload, keyRow, told, lapses>>

\* Mutant: the key alone names the row to complete.
FitsAnyRow(r) == Taken

\* The row it ends has its payload; nothing asks for its claim.
Fits(r) == Taken /\ keyRow.payload = payload[r]

Completed(r) ==
    keyRow' = IF Fits(r) THEN [keyRow EXCEPT !.status = "completed", !.answer = r] ELSE keyRow

CompleteClaim(r) ==
    /\ Is(r, "complete")
    /\ Completed(r)
    /\ Reach(r, "answered") /\ told' = [told EXCEPT ![r] = r]
    /\ UNCHANGED <<payload, effects, lapses>>

\* The UPDATE fails, or only its reply: the catch abandons the claim.
CompletionFails(r) ==
    /\ Is(r, "complete")
    /\ Completed(r) \/ UNCHANGED keyRow
    /\ Reach(r, "abandon")
    /\ UNCHANGED <<payload, effects, told, lapses>>

\* Mutant: the key is freed, whatever has become of it.
OpenAlways == Taken

Open == Taken /\ keyRow.status = "processing"

\* The DELETE takes any claim that is processing; it may fail, which is ignored.
AbandonClaim(r) ==
    /\ Is(r, "abandon")
    /\ \/ /\ Open /\ keyRow' = NoKey
          /\ lapses' = IF r \in effects /\ keyRow.status = "processing" THEN lapses + 1 ELSE lapses
       \/ UNCHANGED <<keyRow, lapses>>
    /\ Reach(r, "refused")
    /\ UNCHANGED <<payload, effects, told>>

\* The isolate is lost.
LoseRequest(r) ==
    /\ request[r] \in {"look", "take", "execute", "complete", "abandon"}
    /\ Reach(r, "lost")
    /\ UNCHANGED <<payload, keyRow, effects, told, lapses>>

\* Two minutes pass.
ClaimAges ==
    /\ Taken /\ keyRow.status = "processing" /\ ~keyRow.stale
    /\ keyRow' = [keyRow EXCEPT !.stale = TRUE]
    /\ UNCHANGED <<payload, request, effects, told, lapses>>

Working(r) == request[r] \in {"execute", "complete", "abandon"}

\* The daily sweep deletes rows of seven days; no request works for so long.
ForgetKey ==
    /\ Taken
    /\ keyRow.status = "completed" \/ keyRow.stale
    /\ \A r \in Requests : ~Working(r)
    /\ keyRow' = NoKey /\ lapses' = lapses + 1
    /\ UNCHANGED <<payload, request, effects, told>>

IdempotencyNext ==
    \/ \E r \in Requests :
          \/ InsertClaim(r) \/ LookAtClaim(r) \/ TakeOver(r)
          \/ Execute(r) \/ CompleteClaim(r) \/ CompletionFails(r)
          \/ AbandonClaim(r) \/ LoseRequest(r)
    \/ ClaimAges \/ ForgetKey

IdempotencySpec == IdempotencyInit /\ [][IdempotencyNext]_idempotencyVars
-----------------------------------------------------------------------------
(* Properties.                                                             *)

\* A key has one effect, and one more for each time it lost track of a request: a claim
\* taken over after two minutes, one abandoned after its mutation was made (which
\* tests/v78-12154-idempotency-runtime.mjs:22 calls safe to retry), a row forgotten.  An
\* outlived request that frees its successor's claim costs no effect more.
EffectsExplained == Cardinality(effects) <= 1 + lapses

\* Whoever is answered gets the outcome of a mutation that was made and that it asked
\* for; so does whoever will be, by the row as it is.
AnswersFit ==
    /\ \A r \in Requests : told[r] # NoKey => told[r] \in effects /\ payload[told[r]] = payload[r]
    /\ (Taken /\ keyRow.status = "completed") =>
          keyRow.answer \in effects /\ payload[keyRow.answer] = keyRow.payload

KeyKept == EffectsExplained /\ AnswersFit
=============================================================================
