------------------------------- MODULE AuditChain -------------------------------
(***************************************************************************)
(* The sealed audit chain of one tenant: appendAuditEvent and              *)
(* verifyAuditChain of worker.js, and appendSealedAuditEvent of            *)
(* audit-lineage-writer.js, which commits a compare-and-set of some other  *)
(* row together with its event.                                            *)
(*                                                                         *)
(* A writer reads the head, seals its event over it and inserts event and  *)
(* head in one batch.  The batch aborts when the number is taken, and the  *)
(* writer begins again, also when the batch had committed and only its     *)
(* reply was lost.  One whose isolate is gone is one that takes no further *)
(* step.  A hash is what tells two events apart.                           *)
(***************************************************************************)
EXTENDS Integers, FiniteSets

CONSTANTS
    Writers,   \* appends in flight, each of one event
    Changers,  \* those of them that change the row: they all expect it as it was
    MaxTries,  \* 5 in the code
    PageSize,  \* 500 in the code
    Genesis,
    Nobody

ASSUME AuditAssumption ==
    /\ IsFiniteSet(Writers) /\ Changers \subseteq Writers
    /\ Nobody \notin Writers
    /\ MaxTries \in Nat \ {0} /\ PageSize \in Nat \ {0}

VARIABLES
    events,    \* audit_events
    head,      \* audit_chain_state
    row,       \* who has changed the row of the mutation
    writer,    \* per writer: where it is
    unheard,   \* history: the writers a committed batch did not reach
    verifier   \* verifyAuditChain, page after page

chainVars == <<events, head, row>>
auditVars == <<chainVars, writer, unheard, verifier>>

Hashes == {Genesis} \cup (Writers \X Nat)
Events == [seq : Nat, prev : Hashes, hash : Hashes]

AuditTypeOK ==
    /\ events   \subseteq Events
    /\ head     \in [count : Nat, hash : Hashes]
    /\ row      \in Changers \cup {Nobody}
    /\ writer   \in [Writers -> [phase : {"read", "sealed", "ok", "refused", "error"},
                                 tries : 0 .. MaxTries, seq : Nat, prev : Hashes]]
    /\ unheard  \subseteq Writers
    /\ verifier \in [after : Nat, prev : Hashes, verdict : {"none", "valid", "invalid"}]

Verifying == [after |-> 0, prev |-> Genesis, verdict |-> "none"]

AuditInit ==
    /\ events   = {}
    /\ head     = [count |-> 0, hash |-> Genesis]
    /\ row      = Nobody
    /\ writer   = [w \in Writers |-> [phase |-> "read", tries |-> 0, seq |-> 0, prev |-> Genesis]]
    /\ unheard  = {}
    /\ verifier = Verifying

Writing(w, phase) == writer[w].phase = phase
Write(w, phase) == writer' = [writer EXCEPT ![w].phase = phase]
-----------------------------------------------------------------------------
\* The head is read and the event sealed over it.
ReadHead(w) ==
    /\ Writing(w, "read")
    /\ writer' = [writer EXCEPT ![w] = [phase |-> "sealed", tries |-> @.tries + 1,
                                        seq |-> head.count + 1, prev |-> head.hash]]
    /\ UNCHANGED <<chainVars, unheard, verifier>>

Sealed(w) == [seq |-> writer[w].seq, prev |-> writer[w].prev, hash |-> <<w, writer[w].seq>>]

\* Mutant: a number may be taken twice.
SeqFreeAlways(n) == TRUE

\* audit_tenant_seq_unique.
SeqFree(n) == \A e \in events : e.seq # n

\* Mutant: the event is written whether or not the mutation found its row.
MatchesAnyway(w) == TRUE

\* The mutation finds the row as its caller has seen it; an append without one
\* has nothing to find.
Matches(w) == w \in Changers => row = Nobody

\* The batch: mutation, event, head; changes() = 1 hangs each on the one before.
Applies(w) ==
    /\ Matches(w) /\ SeqFree(writer[w].seq)
    /\ events' = events \cup {Sealed(w)}
    /\ head'   = [count |-> writer[w].seq, hash |-> Sealed(w).hash]
    /\ row'    = IF w \in Changers THEN w ELSE row

CommitAppend(w) ==
    /\ Writing(w, "sealed")
    /\ \/ /\ Applies(w) /\ Write(w, "ok")
       \/ /\ ~Matches(w) /\ Write(w, "refused")
          /\ UNCHANGED <<events, head, row>>
    /\ UNCHANGED <<unheard, verifier>>

\* Mutant: it is tried for as long as it takes.
AgainAlways(w) == Write(w, "read")

\* It aborts, for the number or because the database fails, and is tried again; after
\* the last try a row of audit_write_failures says so, for people to read.
Again(w) == Write(w, IF writer[w].tries < MaxTries THEN "read" ELSE "error")

AppendAborts(w) ==
    /\ Writing(w, "sealed")
    /\ Again(w)
    /\ UNCHANGED <<chainVars, unheard, verifier>>

AppendUnheard(w) ==
    /\ Writing(w, "sealed")
    /\ Applies(w)
    /\ unheard' = unheard \cup {w}
    /\ Again(w)
    /\ UNCHANGED verifier
-----------------------------------------------------------------------------
(* verifyAuditChain beside the writers.                                    *)

\* The first PageSize events after the last one seen.
Page == {e \in events : /\ e.seq > verifier.after
                        /\ Cardinality({d \in events : verifier.after < d.seq /\ d.seq <= e.seq}) <= PageSize}

\* Each has the number and the predecessor that the ones before it call for.
PageLinked ==
    \A e \in Page :
        /\ e.seq = verifier.after + Cardinality({d \in Page : d.seq <= e.seq})
        /\ \/ e.seq = verifier.after + 1 /\ e.prev = verifier.prev
           \/ \E d \in Page : d.seq = e.seq - 1 /\ e.prev = d.hash

\* An event that does not fit ends it, and so does a page that is not full.
VerifyPage ==
    LET last == CHOOSE e \in Page : \A d \in Page : d.seq <= e.seq IN
    /\ verifier.verdict = "none"
    /\ verifier' =
         IF ~PageLinked THEN [verifier EXCEPT !.verdict = "invalid"]
         ELSE IF Cardinality(Page) < PageSize THEN [verifier EXCEPT !.verdict = "valid"]
         ELSE [verifier EXCEPT !.after = last.seq, !.prev = last.hash]
    /\ UNCHANGED <<chainVars, writer, unheard>>

VerifyAgain ==
    /\ verifier.verdict # "none"
    /\ verifier' = Verifying
    /\ UNCHANGED <<chainVars, writer, unheard>>

AuditNext ==
    \/ \E w \in Writers :
          \/ ReadHead(w) \/ CommitAppend(w) \/ AppendAborts(w) \/ AppendUnheard(w)
    \/ VerifyPage \/ VerifyAgain

AuditSpec == AuditInit /\ [][AuditNext]_auditVars
-----------------------------------------------------------------------------
(* Properties.                                                             *)

OwnEvents(w) == {e \in events : e.hash[1] = w}

\* However writers race, the numbers have no gap and no double, every event names the
\* one before it and the head the last.
ChainLinked ==
    /\ \A e \in events : \/ e.seq = 1 /\ e.prev = Genesis
                         \/ \E d \in events : d.seq = e.seq - 1 /\ e.prev = d.hash
    /\ \A d, e \in events : d.seq = e.seq => d = e
    /\ head.count = Cardinality(events)
    /\ head.count > 0 => \E e \in events : e.seq = head.count /\ e.hash = head.hash

\* A change of the row and its event are one, and the answers tell the truth unless a
\* reply was lost: then an append may be there twice, and a change that was made may be
\* called refused or failed.
AnswersHold ==
    /\ \A w \in Changers : Cardinality(OwnEvents(w)) = IF row = w THEN 1 ELSE 0
    /\ \A w \in Writers :
          /\ Writing(w, "ok") => OwnEvents(w) # {}
          /\ w \notin unheard =>
                /\ Cardinality(OwnEvents(w)) <= 1
                /\ writer[w].phase \in {"refused", "error"} => OwnEvents(w) = {}

\* The chain holds, what it says was done was done, and a verifier that reads its pages
\* while writers run never calls it invalid.
ChainVouches == ChainLinked /\ AnswersHold /\ verifier.verdict # "invalid"
=============================================================================
