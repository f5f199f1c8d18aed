------------------------------- MODULE Reviews -------------------------------
(***************************************************************************)
(* Candidates and their review.  Extraction and other writers propose      *)
(* candidates; library callers, the console and clients of the legacy      *)
(* routes decide them directly; clients of the memory-review-v1 profile    *)
(* inspect a candidate, receive an opaque revision and decide it with that *)
(* revision and an operation key, and retry when an answer is lost.        *)
(*                                                                         *)
(* The database is one value, since a backup is a copy of it and a restore *)
(* replaces it.  Triggers advance its epoch in every transaction that      *)
(* changes memory; how far does not matter, so it advances by one.         *)
(***************************************************************************)
EXTENDS Naturals, FiniteSets

CONSTANTS
    Candidates,
    Values,        \* contents of candidates and of the claims of their slot
    NoValue,       \* no content
    HighRisk,      \* candidates with risk_severity high or critical
    Requests,      \* decisions that clients of the profile send
    CredentialOf,  \* the credential of each
    KeyOf,         \* the Idempotency-Key of each
    NoRequest,     \* not sent
    NoBackup,      \* not taken
    MaxEpoch,      \* bound: changes of memory
    MaxRenewals    \* bound: restores, migrations and restarts

ASSUME ReviewsAssumption ==
    /\ NoValue \notin Values
    /\ HighRisk \subseteq Candidates
    /\ MaxEpoch \in Nat /\ MaxRenewals \in Nat
    /\ {CredentialOf[r] : r \in Requests} \cap Requests = {}

VARIABLES
    db,          \* the database
    backup,      \* a copy of it
    renewed,     \* generations that were ever given out
    service,     \* the service's identity (with its secret) and the generation it saw
    view,        \* the revision of what each credential inspected last
    sent,        \* the decision that each request carries
    outdated,    \* ghost: views and requests older than the last change of memory
    applied,     \* ghost: how often each request was applied
    answers      \* ghost: the decisions that each request was told of

vars == <<db, backup, renewed, service, view, sent, outdated, applied, answers>>

Terminal == {"promoted", "rejected", "merged", "duplicate"}
\* "pending_review" stands for "needs_scope" and "needs_conflict_resolution"
\* too: nothing tells them apart.
Editable == {"pending_review", "needs_evidence", "invalid"}
Statuses == {"absent", "validated"} \cup Terminal \cup Editable
Actions == {"promote", "reject"}
Credentials == {CredentialOf[r] : r \in Requests}

\* What a reviewer of any candidate relies on.
World(d) == [status |-> d.status, content |-> d.content, risk |-> d.risk,
             validated |-> d.validated, claims |-> d.claims, inForce |-> d.inForce]

Init ==
    /\ db = [generation |-> 1, epoch |-> 0,
             status |-> [c \in Candidates |-> "absent"],
             content |-> [c \in Candidates |-> NoValue],
             risk |-> [c \in Candidates |-> FALSE],
             validated |-> [c \in Candidates |-> FALSE],
             claims |-> [c \in Candidates |-> 0],
             inForce |-> {}, replays |-> {}]
    /\ backup = NoBackup
    /\ renewed = 1
    /\ service = [identity |-> 1, generation |-> 0]
    /\ view = [u \in Credentials |-> NoRequest]
    /\ sent = [r \in Requests |-> NoRequest]
    /\ applied = [r \in Requests |-> 0]
    /\ outdated = {}
    /\ answers = [r \in Requests |-> {}]

Exists(c) == db.status[c] # "absent"
Open(c) == Exists(c) /\ db.status[c] \notin Terminal

\* The database becomes new; whoever inspected another memory is outdated.
Becomes(new) ==
    /\ db' = new
    /\ outdated' = IF World(new) = World(db) THEN outdated ELSE Credentials \cup Requests

\* A transaction that changes memory: the triggers advance the epoch.
Advance(new) ==
    /\ db.epoch < MaxEpoch
    /\ Becomes([new EXCEPT !.epoch = db.epoch + 1])

\* The transactions of everyone but the service's review protocol.
Others == UNCHANGED <<backup, renewed, service, view, sent, applied, answers>>

-----------------------------------------------------------------------------
(* Proposing, reviewing and promoting a candidate in the library.          *)

\* Another value of the slot is in force.
Contradicts(d, v) == \E w \in d.inForce : w # v

Proposed(c, v, s, risk) ==
    [db EXCEPT !.status[c] = s, !.content[c] = v, !.risk[c] = risk]

\* Candidates that a client or a peer proposes are not rated.
Remember(c, v) ==
    /\ db.status[c] = "absent"
    /\ Advance(Proposed(c, v, "pending_review", FALSE))
    /\ Others

\* _store_candidate_draft rates a draft once, as a contradiction or a duplicate.
Extract(c, v) ==
    /\ db.status[c] = "absent"
    /\ \/ \E s \in {"invalid", "needs_evidence", "duplicate"} :
            Advance(Proposed(c, v, s, TRUE))
       \/ /\ Contradicts(db, v)
          /\ Advance(Proposed(c, v, "pending_review", TRUE))
       \/ /\ ~Contradicts(db, v)
          /\ \E s \in {"pending_review", "invalid", "needs_evidence"} :
               Advance(Proposed(c, v, s, FALSE))
    /\ Others

Decisions == {"validate", "reject", "mark_duplicate", "needs_scope", "defer", "edit"}

\* The status each decision of review_candidate leaves; s is the one that edits
\* ask for.
StatusAfter(c, decision, s) ==
    CASE decision = "validate" -> "validated"
      [] decision = "reject" -> "rejected"
      [] decision = "mark_duplicate" -> "duplicate"
      [] decision = "edit" -> s
      [] decision = "defer" -> db.status[c]
      [] decision = "needs_scope" -> "pending_review"

\* Edits: a new content and an editable status, or none.
Edits(c, v, s) == s \in Editable \/ (v = db.content[c] /\ s = db.status[c])

Reviewed(c, decision, v, s) ==
    [db EXCEPT !.content[c] = v, !.status[c] = StatusAfter(c, decision, s),
               !.validated[c] = @ \/ decision = "validate"]

ReviewCandidate(c, decision, v, s) ==
    /\ Open(c) /\ Edits(c, v, s)
    /\ Advance(Reviewed(c, decision, v, s))
    /\ Others

\* _candidate_promotion_failures is empty: the contradiction is looked up
\* again, and a risky candidate was validated at some time.
Promotable(d, c) ==
    /\ d.status[c] \notin {"invalid", "needs_evidence"}
    /\ ~d.risk[c]
    /\ ~Contradicts(d, d.content[c])
    /\ c \in HighRisk => d.validated[c]

Promoted(d, c) ==
    [d EXCEPT !.status[c] = "promoted", !.claims[c] = @ + 1,
              !.inForce = @ \cup {d.content[c]}]

\* promote_candidate: edits, if any, are a review of their own first.
PromoteCandidate(c, v, s, force) ==
    /\ Open(c) /\ Edits(c, v, s)
    /\ force \/ Promotable(Reviewed(c, "edit", v, s), c)
    /\ Advance(Promoted(Reviewed(c, "edit", v, s), c))
    /\ Others

\* deletion.apply reaches a candidate through its evidence, and archives the
\* claims that rest on it; another claim may keep their values in force.
DeleteCandidate(c, v, values) ==
    /\ Exists(c) /\ v \in {db.content[c], NoValue} /\ values \subseteq db.inForce
    /\ Advance([db EXCEPT !.status[c] = "rejected", !.content[c] = v, !.inForce = values])
    /\ Others

\* Any other writer changes which values of the slot are in force.
ChangeMemory(values) ==
    /\ values # db.inForce
    /\ Advance([db EXCEPT !.inForce = values])
    /\ Others

-----------------------------------------------------------------------------
(* The review protocol of the service.                                     *)

\* state(): a generation that the service did not know gives it a new identity.
Service ==
    IF service.generation \notin {0, db.generation}
    THEN [identity |-> service.identity + 1, generation |-> db.generation]
    ELSE [service EXCEPT !.generation = db.generation]

\* revision(): opaque, and different for everything it is made of.
Revision(identity, c, u) ==
    [identity |-> identity, generation |-> db.generation, epoch |-> db.epoch,
     candidate |-> c, credential |-> u]

\* GET of a candidate.
Inspect(u, c) ==
    /\ Exists(c)
    /\ service' = Service
    /\ view' = [view EXCEPT ![u] = Revision(Service.identity, c, u)]
    /\ outdated' = outdated \ {u}
    /\ UNCHANGED <<db, backup, renewed, sent, applied, answers>>

\* The client decides what it inspected; the request may arrive any number of
\* times from now on.
Send(r, action) ==
    /\ sent[r] = NoRequest /\ view[CredentialOf[r]] # NoRequest
    /\ sent' = [sent EXCEPT ![r] = [action |-> action, revision |-> view[CredentialOf[r]]]]
    /\ outdated' = IF CredentialOf[r] \in outdated THEN outdated \cup {r} ELSE outdated \ {r}
    /\ UNCHANGED <<db, backup, renewed, service, view, applied, answers>>

Record(r) == <<CredentialOf[r], KeyOf[r]>>
Body(r) == <<sent[r].action, sent[r].revision>>
Target(r) == sent[r].revision.candidate
Receipt(r) == [record |-> Record(r), body |-> Body(r), by |-> r]
Kept(r) == {row \in db.replays : row.record = Record(r)}

Reply(r, answer) == answers' = [answers EXCEPT ![r] = @ \cup {answer}]

\* A mutated form of Current: generations are not compared.
CurrentEpoch(r) ==
    [sent[r].revision EXCEPT !.generation = db.generation, !.identity = Service.identity]
        = Revision(Service.identity, Target(r), CredentialOf[r])

\* The revision is the one a new inspection would give.
Current(r) == sent[r].revision = Revision(Service.identity, Target(r), CredentialOf[r])

Decided(r) ==
    LET c == Target(r)
        outcome == IF sent[r].action = "promote" THEN Promoted(db, c)
                   ELSE [db EXCEPT !.status[c] = "rejected"]
    IN  [outcome EXCEPT !.replays = @ \cup {Receipt(r)}]

\* The receipt of the key answers a retry of the same decision.
Replay(r) ==
    /\ sent[r] # NoRequest /\ Kept(r) # {}
    /\ \E row \in Kept(r) : row.body = Body(r) /\ Reply(r, row.by)
    /\ service' = Service
    /\ UNCHANGED <<db, backup, renewed, view, sent, outdated, applied>>

Applicable(r) ==
    /\ Current(r)
    /\ Open(Target(r)) /\ db.status[Target(r)] # "invalid"
    /\ sent[r].action = "promote" => Promotable(db, Target(r))

\* Comparison, decision, audit and receipt are one transaction.
Decide(r) ==
    /\ sent[r] # NoRequest /\ Kept(r) = {} /\ Applicable(r)
    /\ Advance(Decided(r))
    /\ applied' = [applied EXCEPT ![r] = @ + 1]
    /\ Reply(r, r)
    /\ service' = Service
    /\ UNCHANGED <<backup, renewed, view, sent>>

\* The key was used for another decision, or the revision is stale, or the
\* candidate is decided or may not be promoted; all writes are rolled back.
Refuse(r) ==
    /\ sent[r] # NoRequest
    /\ IF Kept(r) = {} THEN ~Applicable(r) ELSE \A row \in Kept(r) : row.body # Body(r)
    /\ service' = Service
    /\ UNCHANGED <<db, backup, renewed, view, sent, outdated, applied, answers>>

\* Receipts are kept for 24 hours.
Expire ==
    /\ \E row \in db.replays : Becomes([db EXCEPT !.replays = @ \ {row}])
    /\ Others

-----------------------------------------------------------------------------
(* Restarts, backups, restores and migrations.                             *)

Renewals == renewed + service.identity

Restart ==
    /\ Renewals < MaxRenewals + 2
    /\ service' = [identity |-> service.identity + 1, generation |-> 0]
    /\ UNCHANGED <<db, backup, renewed, view, sent, outdated, applied, answers>>

Backup ==
    /\ backup = NoBackup
    /\ backup' = db
    /\ UNCHANGED <<db, renewed, service, view, sent, outdated, applied, answers>>

\* A mutated form of Rotated: the generation stays.
RotatedKeepingGeneration(d) ==
    [d EXCEPT !.epoch = d.epoch + 1, !.replays = {}]

\* rotate_generation.
Rotated(d) ==
    [d EXCEPT !.generation = renewed + 1, !.epoch = d.epoch + 1, !.replays = {}]

\* restore_backup in place, and the migration of a database that has a review
\* state, rotate the generation before anyone reads the database.
Renew(d) ==
    /\ Renewals < MaxRenewals + 2 /\ d.epoch < MaxEpoch
    /\ Becomes(Rotated(d))
    /\ renewed' = renewed + 1
    /\ UNCHANGED <<backup, service, view, sent, applied, answers>>

Restore == backup # NoBackup /\ Renew(backup)
Migrate == Renew(db)

-----------------------------------------------------------------------------
CandidateStep(c) ==
    \/ \E v \in Values : Remember(c, v) \/ Extract(c, v)
    \/ \E v \in Values, s \in Statuses :
         \/ \E decision \in Decisions : ReviewCandidate(c, decision, v, s)
         \/ \E force \in BOOLEAN : PromoteCandidate(c, v, s, force)
    \/ \E v \in Values \cup {NoValue}, values \in SUBSET Values : DeleteCandidate(c, v, values)
    \/ \E u \in Credentials : Inspect(u, c)

RequestStep(r) ==
    \/ \E action \in Actions : Send(r, action)
    \/ Replay(r) \/ Decide(r) \/ Refuse(r)

Next ==
    \/ \E c \in Candidates : CandidateStep(c)
    \/ \E r \in Requests : RequestStep(r)
    \/ \E values \in SUBSET Values : ChangeMemory(values)
    \/ Expire \/ Restart \/ Backup \/ Restore \/ Migrate

Spec == Init /\ [][Next]_vars

-----------------------------------------------------------------------------
(* Properties.                                                             *)

Revisions == [identity : Nat, generation : Nat, epoch : Nat,
              candidate : Candidates, credential : Credentials]
Requested == [action : Actions, revision : Revisions]
Records == {Record(r) : r \in Requests}

Databases ==
    [generation : Nat, epoch : Nat,
     status : [Candidates -> Statuses], content : [Candidates -> Values \cup {NoValue}],
     risk : [Candidates -> BOOLEAN], validated : [Candidates -> BOOLEAN],
     claims : [Candidates -> Nat], inForce : SUBSET Values,
     replays : SUBSET [record : Records, body : Actions \X Revisions, by : Requests]]

TypeOK ==
    /\ db \in Databases /\ backup \in Databases \cup {NoBackup}
    /\ renewed \in Nat
    /\ service \in [identity : Nat, generation : Nat]
    /\ view \in [Credentials -> Revisions \cup {NoRequest}]
    /\ sent \in [Requests -> Requested \cup {NoRequest}]
    /\ outdated \subseteq Credentials \cup Requests
    /\ applied \in [Requests -> Nat]
    /\ answers \in [Requests -> SUBSET Requests]

\* A decision takes effect only on exactly the memory that its reviewer
\* inspected: between the two nothing changed that a reviewer relies on, be it
\* this candidate, another one or a claim of the slot, by whatever writer, and
\* no restore brought an earlier database back.
DecisionsMatchInspections ==
    [][\A r \in Requests : applied'[r] # applied[r] => r \notin outdated]_vars

\* A decision takes effect at most once, however often it is sent, although
\* receipts expire, the service restarts and a restore undoes the decision.
AppliedOnce == \A r \in Requests : applied[r] <= 1

\* A success is reported only for a decision that took effect, and only to the
\* credential that sent it, for the same action on the same revision.
AnswersAreDecisions ==
    \A r \in Requests : \A q \in answers[r] :
        /\ applied[q] = 1
        /\ CredentialOf[q] = CredentialOf[r] /\ Body(q) = Body(r)

\* A candidate yields one claim at most, whoever promotes it and however often:
\* clients of the profile, the console, legacy clients and the library race.
OneClaimEach == \A c \in Candidates : db.claims[c] <= 1

\* A decision about a candidate is final.  Only a restore of an older database
\* undoes it, and a deletion withdraws it.
DecisionsAreFinal ==
    [][\A c \in Candidates :
          (db.status[c] \in Terminal /\ db'.generation = db.generation)
          => /\ db'.status[c] \in {db.status[c], "rejected"}
             /\ db'.content[c] \in {db.content[c], NoValue}
             /\ db'.claims[c] = db.claims[c]]_vars

\* A receipt that is still kept tells what became of its candidate, also in a
\* database that was restored.
ReceiptsTellTheOutcome ==
    \A row \in db.replays :
        LET c == Target(row.by) IN
        IF sent[row.by].action = "promote"
        THEN db.claims[c] = 1 /\ db.status[c] \in {"promoted", "rejected"}
        ELSE db.claims[c] = 0 /\ db.status[c] = "rejected"
=============================================================================
