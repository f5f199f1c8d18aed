------------------------------- MODULE Imports -------------------------------
(***************************************************************************)
(* Federation, the side of content: what imported bundles do to this       *)
(* site's memory.  The trust an import needs is that of Peers; every step  *)
(* of this module is a step of Peers or leaves it alone.                   *)
(*                                                                         *)
(* The remote publishes claims, each resting on one evidence event, and    *)
(* deletes some.  A bundle carries the claims its share shows, their       *)
(* evidence if the share includes it, and notices of deletions of what the *)
(* share has disclosed before, if the share receives redactions.  An       *)
(* import is one transaction: notices, evidence, claims; it fails as a     *)
(* whole.  Each remote claim has a slot of its own here, in which the      *)
(* owner may have a native claim that contradicts it (of an exclusive      *)
(* predicate).                                                             *)
(***************************************************************************)
EXTENDS Peers, Sequences

CONSTANTS
    Claims,         \* the remote's claims
    Evidence,       \* the remote's evidence events
    EvidenceOf,     \* the evidence of each claim
    WithEvidence,   \* the shares that include evidence
    WithRedactions, \* the shares that receive redactions
    Projects,       \* the claims of a project, decision or procedure type
    NothingSent,    \* the contents of a file nothing was written to
    Operations,     \* bound: the optional operations of an instance
    MaxRevocations  \* bound: the times the two sites take a grant or trust away

ASSUME ImportsAssumption ==
    /\ EvidenceOf \in [Claims -> Evidence]
    /\ WithEvidence \subseteq Shares
    /\ WithRedactions \subseteq Shares
    /\ Projects \subseteq Claims
    /\ MaxRevocations \in Nat

VARIABLES
    published,  \* the remote's claims: their status, as far as a share shows it
    deleted,    \* the remote's deletion_tombstones
    disclosed,  \* the objects in the change sets of each share
    content,    \* the payload of the bundle in each file
    native,     \* this site's own contradicting claim in each slot
    copies,     \* this site's rows for each remote claim
    held,       \* this site's imported evidence
    withdrawn   \* sync_tombstones: the notices this site has applied

importVars == <<published, deleted, disclosed, content, native, copies, held, withdrawn>>
vars == <<peerVars, importVars>>

Object(kind, o) == <<kind, o>>
Objects == ({"claim"} \X Claims) \cup ({"evidence"} \X Evidence)

\* What a share shows of a claim: superseded and disputed claims are
\* exported with that status, rejected and archived ones are not exported.
Shown   == {"serving", "retired"}
Payload == [items : [Claims -> Shown \cup {"withheld"}], notices : SUBSET Objects]

\* A row of candidate_claims or claims: "retired" stands for every status out
\* of service; text is FALSE once the content was scrubbed (which leaves a
\* deletion tombstone of the row).
Row == [kind : {"candidate"}, status : {"pending", "rejected", "promoted"}, text : BOOLEAN]
       \cup [kind : {"claim"}, status : {"serving", "retired"}, text : BOOLEAN]

\* The rows made of one remote claim in their order, the one the remote
\* source mapping points to (0: none), the status it was sent with, what the
\* rows cite, the synthetic evidence written for a claim that came without,
\* and the sync conflict with the native claim.
Copy == [rows : Seq(Row), source : Nat, sent : Shown \cup {"nothing"},
         cites : {"nothing", "evidence", "note"}, note : {"none", "kept", "scrubbed"},
         conflict : {"none", "unresolved", "deferred", "resolved"}]

NoCopy == [rows |-> <<>>, source |-> 0, sent |-> "nothing", cites |-> "nothing",
           note |-> "none", conflict |-> "none"]

Init ==
    /\ PeerInit
    /\ published = [c \in Claims |-> "serving"]
    /\ deleted = {}
    /\ disclosed = [s \in Shares |-> {}]
    /\ content = [f \in Files |-> NothingSent]
    /\ native = [c \in Claims |-> "none"]
    /\ copies = [c \in Claims |-> NoCopy]
    /\ held = [e \in Evidence |-> "none"]
    /\ withdrawn = {}

-----------------------------------------------------------------------------
(* The remote instance.                                                    *)

\* A decision moves a claim in or out of what shares show.
SetStatus(c, status) ==
    /\ "status" \in Operations
    /\ Object("claim", c) \notin deleted /\ published[c] # status
    /\ published' = [published EXCEPT ![c] = status]
    /\ UNCHANGED <<peerVars, deleted, disclosed, content, native, copies, held, withdrawn>>

\* redact of a claim: its evidence stays.
RedactClaim(c) ==
    /\ Object("claim", c) \notin deleted
    /\ deleted' = deleted \cup {Object("claim", c)}
    /\ published' = [published EXCEPT ![c] = "withheld"]
    /\ UNCHANGED <<peerVars, disclosed, content, native, copies, held, withdrawn>>

\* redact of an evidence event, with every claim that rests on it.
RedactEvidence(e) ==
    /\ Object("evidence", e) \notin deleted
    /\ LET on == {c \in Claims : EvidenceOf[c] = e}
       IN  /\ deleted' = deleted \cup {Object("evidence", e)} \cup ({"claim"} \X on)
           /\ published' = [c \in Claims |-> IF c \in on THEN "withheld" ELSE published[c]]
    /\ UNCHANGED <<peerVars, disclosed, content, native, copies, held, withdrawn>>

\* The objects a bundle of share s with these items shows.
Shows(s, items) ==
    LET shown == {c \in Claims : items[c] # "withheld"}
    IN  ({"claim"} \X shown)
        \cup IF s \in WithEvidence THEN {"evidence"} \X {EvidenceOf[c] : c \in shown} ELSE {}

\* _exportable_tombstones, for a share that receives redactions.
Notices(s) == IF s \in WithRedactions THEN deleted \cap disclosed[s] ELSE {}

\* _build_share_payload and _record_changeset.
ExportBundle(s, f) ==
    /\ Export(s, f)
    /\ content' = [content EXCEPT ![f] = [items |-> published, notices |-> Notices(s)]]
    /\ disclosed' = [disclosed EXCEPT ![s] = @ \cup Shows(s, published)]
    /\ UNCHANGED <<published, deleted, native, copies, held, withdrawn>>

-----------------------------------------------------------------------------
(* Rows.                                                                   *)

Source(copy) == copy.rows[copy.source]
Mapped(copy) == copy.source # 0
MappedCandidate(copy) == Mapped(copy) /\ Source(copy).kind = "candidate"

\* Content that is waiting for review or in service.
LiveRow(row) == row.text /\ row.status \in {"pending", "serving"}

\* deletion.apply on one row.
Scrubbed(row) ==
    [row EXCEPT !.text = FALSE,
                !.status = IF row.kind = "candidate" THEN "rejected" ELSE "retired"]

ScrubRow(copy, i) == [copy EXCEPT !.rows[i] = Scrubbed(@)]

ScrubAll(copy) ==
    [copy EXCEPT !.rows = [i \in DOMAIN copy.rows |-> Scrubbed(copy.rows[i])]]

NewRow(copy, kind, status) ==
    Append(copy.rows, [kind |-> kind, status |-> status, text |-> TRUE])

\* All the rows of a claim cite what its first one cites.
Cites(copy, e, c) == copy.cites = "evidence" /\ EvidenceOf[c] = e

-----------------------------------------------------------------------------
(* Imports: notices.                                                       *)

\* The evidence _apply_remote_tombstone scrubs for the notices N: what they
\* name, and what a mapped candidate they name rests on.
ScrubbedEvidence(N) ==
    {e \in Evidence :
        \/ Object("evidence", e) \in N /\ held[e] # "none"
        \/ \E c \in Claims : /\ Object("claim", c) \in N
                             /\ MappedCandidate(copies[c]) /\ Cites(copies[c], e, c)}

\* A mutated form of Noticed: the rows made from the mapped one stay.
NoticedAlone(N) ==
    [c \in Claims |->
       IF Object("claim", c) \in N /\ Mapped(copies[c])
       THEN ScrubRow(copies[c], copies[c].source) ELSE copies[c]]

\* The rows after the notices.  A mapped candidate takes its evidence with
\* it, and with the evidence every row that cites it; of a mapped claim only
\* its own row goes.
Noticed(N) ==
    [c \in Claims |->
       LET copy == copies[c]
           named == Object("claim", c) \in N /\ Mapped(copy)
       IN  IF named /\ MappedCandidate(copy)
           THEN [ScrubAll(copy) EXCEPT !.note = IF @ = "kept" THEN "scrubbed" ELSE @]
           ELSE IF \E e \in ScrubbedEvidence(N) : Cites(copy, e, c) THEN ScrubAll(copy)
           ELSE IF named THEN ScrubRow(copy, copy.source)
           ELSE copy]

-----------------------------------------------------------------------------
(* Imports: evidence and claims, after the notices N.                      *)

\* Evidence this site will not take: withdrawn, or deleted here.
Gone(N, e) ==
    \/ Object("evidence", e) \in withdrawn \cup N
    \/ held[e] = "scrubbed" \/ e \in ScrubbedEvidence(N)

\* The claims of the bundle that reach _import_claim and are not withdrawn.
Offered(b, body, N, c) ==
    /\ body.items[c] # "withheld"
    /\ b.share \in WithEvidence => ~Gone(N, EvidenceOf[c])
    /\ Object("claim", c) \notin withdrawn \cup N

CitesIn(b) == IF b.share \in WithEvidence THEN "evidence" ELSE "note"

\* _previous_remote_object raises: a mapped, undeleted claim is sent with
\* another payload (its status, or whether it names evidence, differs).
Changed(b, body, N) ==
    \E c \in Claims :
        /\ Offered(b, body, N, c)
        /\ LET copy == Noticed(N)[c]
           IN  /\ Mapped(copy) /\ Source(copy).text
               /\ copy.sent # body.items[c] \/ copy.cites # CitesIn(b)

\* A claim that was mapped before: its rows stay as they are, and a native
\* contradiction is recorded once.
Repeated(c, copy) ==
    IF Source(copy).text /\ native[c] = "serving" /\ copy.conflict = "none"
    THEN [copy EXCEPT !.conflict = "unresolved"] ELSE copy

\* _import_claim.
Imported(b, body, c, copy, active) ==
    IF Mapped(copy) THEN Repeated(c, copy)
    ELSE [copy EXCEPT
            !.rows = IF active /\ native[c] # "serving"
                     THEN NewRow(copy, "claim", body.items[c])
                     ELSE NewRow(copy, "candidate", "pending"),
            !.source = 1, !.sent = body.items[c], !.cites = CitesIn(b),
            !.note = IF b.share \in WithEvidence THEN "none" ELSE "kept",
            !.conflict = IF native[c] = "serving" THEN "unresolved" ELSE "none"]

Import(f, policy) ==
    /\ Receive(f, policy)
    /\ LET b == file[f]
           body == content[f]
           N == body.notices \ withdrawn
           delivered == {e \in Evidence : /\ b.share \in WithEvidence /\ ~Gone(N, e)
                                          /\ \E c \in Claims : /\ EvidenceOf[c] = e
                                                               /\ body.items[c] # "withheld"}
       IN  /\ ~Changed(b, body, N)
           /\ withdrawn' = withdrawn \cup N
           /\ held' = [e \in Evidence |->
                         IF e \in ScrubbedEvidence(N) THEN "scrubbed"
                         ELSE IF e \in delivered THEN "kept" ELSE held[e]]
           /\ copies' = [c \in Claims |->
                           LET copy == Noticed(N)[c]
                           IN  IF Offered(b, body, N, c)
                               THEN Imported(b, body, c, copy, ImportsActive(policy, c \in Projects))
                               ELSE copy]
    /\ UNCHANGED <<published, deleted, disclosed, content, native>>

\* sync over a bundle file: an import of a share this site knows, which the
\* collection is of.
Sync(s, f, policy) ==
    /\ accepted[s].status = "active" /\ s \notin lapsed
    /\ peer.status \notin {"absent", "revoked", "blocked"}
    /\ file[f] # NoFile /\ file[f].share = s
    /\ Import(f, policy)

-----------------------------------------------------------------------------
(* The owner's own memory and reviews.                                     *)

Touches(c, copy) ==
    /\ copies' = [copies EXCEPT ![c] = copy]
    /\ UNCHANGED <<peerVars, published, deleted, disclosed, content, held, withdrawn>>

\* A claim of the owner's that contradicts the remote one, and its retirement
\* by a later decision.
WriteNative(c) ==
    /\ "native" \in Operations
    /\ native[c] = "none"
    /\ native' = [native EXCEPT ![c] = "serving"]
    /\ Touches(c, copies[c])

RetireNative(c) ==
    /\ native[c] = "serving"
    /\ native' = [native EXCEPT ![c] = "retired"]
    /\ Touches(c, copies[c])

\* review_candidate's terminal decisions.
Reject(c, i) ==
    /\ copies[c].rows[i].status = "pending"
    /\ Touches(c, [copies[c] EXCEPT !.rows[i].status = "rejected"])
    /\ UNCHANGED native

\* The candidate in row i becomes a claim in a row of its own.
Promoted(copy, i) ==
    [copy EXCEPT !.rows = NewRow([copy EXCEPT !.rows[i].status = "promoted"], "claim", "serving")]

\* promote_candidate: next to a contradicting claim only by force.  The
\* source mapping stays with the candidate.
Promote(c, i, force) ==
    /\ copies[c].rows[i].status = "pending"
    /\ native[c] = "serving" => force
    /\ Touches(c, Promoted(copies[c], i))
    /\ UNCHANGED native

\* A claim row goes out of service by a decision of the owner's.
RetireCopy(c, i) ==
    /\ copies[c].rows[i].status = "serving"
    /\ Touches(c, [copies[c] EXCEPT !.rows[i].status = "retired"])
    /\ UNCHANGED native

\* redact of a claim row here.
ForgetCopy(c, i) ==
    /\ "forget" \in Operations
    /\ copies[c].rows[i].kind = "claim" /\ copies[c].rows[i].text
    /\ Touches(c, ScrubRow(copies[c], i))
    /\ UNCHANGED native

\* redact of the synthetic evidence of a claim here.
ForgetNote(c) ==
    /\ "forget" \in Operations
    /\ copies[c].note = "kept"
    /\ Touches(c, [ScrubAll(copies[c]) EXCEPT !.note = "scrubbed"])
    /\ UNCHANGED native

\* redact of an imported evidence event here.
ForgetEvidence(e) ==
    /\ "forget" \in Operations
    /\ held[e] = "kept"
    /\ held' = [held EXCEPT ![e] = "scrubbed"]
    /\ copies' = [c \in Claims |->
                    IF Cites(copies[c], e, c) THEN ScrubAll(copies[c]) ELSE copies[c]]
    /\ UNCHANGED <<peerVars, published, deleted, disclosed, content, native, withdrawn>>

-----------------------------------------------------------------------------
(* resolve_sync_conflict.                                                  *)

\* _sync_resolution_targets: both sides must be what the conflict recorded.
Resolvable(c) ==
    /\ copies[c].conflict \in {"unresolved", "deferred"}
    /\ native[c] = "serving"
    /\ LiveRow(Source(copies[c]))
    /\ Object("claim", c) \notin withdrawn

Resolved(copy) == [copy EXCEPT !.conflict = "resolved"]

\* keep_local and reject_remote.
KeepLocal(c) ==
    /\ Resolvable(c)
    /\ LET copy == copies[c]
       IN  Touches(c, Resolved([copy EXCEPT !.rows[copy.source].status =
                                  IF MappedCandidate(copy) THEN "rejected" ELSE "retired"]))
    /\ UNCHANGED native

\* accept_remote_active of a candidate moves the source mapping to the claim.
AcceptRemote(c) ==
    /\ Resolvable(c)
    /\ native' = [native EXCEPT ![c] = "retired"]
    /\ LET copy == copies[c]
       IN  Touches(c, Resolved(IF MappedCandidate(copy)
                               THEN [Promoted(copy, copy.source) EXCEPT !.source = Len(copy.rows) + 1]
                               ELSE copy))

\* accept_remote_as_candidate of a claim puts a new candidate in its place.
DemoteRemote(c) ==
    /\ Resolvable(c)
    /\ LET copy == copies[c]
       IN  Touches(c, Resolved(IF MappedCandidate(copy) THEN copy
                               ELSE [copy EXCEPT
                                       !.rows = NewRow([copy EXCEPT !.rows[copy.source].status = "retired"],
                                                       "candidate", "pending"),
                                       !.source = Len(copy.rows) + 1]))
    /\ UNCHANGED native

Defer(c) ==
    /\ Resolvable(c) /\ copies[c].conflict = "unresolved"
    /\ Touches(c, [copies[c] EXCEPT !.conflict = "deferred"])
    /\ UNCHANGED native

-----------------------------------------------------------------------------
Revocations ==
    Cardinality(lapsed) + Cardinality({s \in Shares : granted[s] = "revoked"})
    + Cardinality({s \in Shares : accepted[s].status = "revoked"})
    + IF peer.revoked THEN 1 ELSE 0

Trust ==
    /\ RemoteDecision \/ OwnerDecision
    /\ Revocations' <= MaxRevocations
    /\ UNCHANGED importVars

Remote ==
    \/ \E c \in Claims, status \in Shown \cup {"withheld"} : SetStatus(c, status)
    \/ \E c \in Claims : RedactClaim(c)
    \/ \E e \in Evidence : RedactEvidence(e)
    \/ \E s \in Shares, f \in Files : ExportBundle(s, f)

\* What becomes of what was imported: reviews, decisions and the routes of sync
\* conflicts.
Review(c) ==
    \/ WriteNative(c) \/ RetireNative(c) \/ ForgetNote(c)
    \/ \E i \in DOMAIN copies[c].rows :
          \/ Reject(c, i) \/ RetireCopy(c, i) \/ ForgetCopy(c, i)
          \/ \E force \in BOOLEAN : Promote(c, i, force)
    \/ KeepLocal(c) \/ AcceptRemote(c) \/ DemoteRemote(c) \/ Defer(c)

Next ==
    \/ Trust
    \/ Remote
    \/ \E f \in Files, policy \in Policies : Import(f, policy) \/ \E s \in Shares : Sync(s, f, policy)
    \/ \E c \in Claims : Review(c)
    \/ \E e \in Evidence : ForgetEvidence(e)

Spec == Init /\ [][Next]_vars

-----------------------------------------------------------------------------
(* Properties.                                                             *)

\* What came in by some bundle.
Arrived == ({"claim"} \X {c \in Claims : Mapped(copies[c])})
           \cup ({"evidence"} \X {e \in Evidence : held[e] # "none"})

ImportsTypeOK ==
    /\ PeerTypeOK
    /\ published \in [Claims -> Shown \cup {"withheld"}]
    /\ deleted \subseteq Objects
    /\ disclosed \in [Shares -> SUBSET Objects]
    /\ content \in [Files -> Payload \cup {NothingSent}]
    /\ native \in [Claims -> {"none", "serving", "retired"}]
    /\ copies \in [Claims -> Copy]
    /\ \A c \in Claims : copies[c].source \in 0..Len(copies[c].rows)
    /\ held \in [Evidence -> {"none", "kept", "scrubbed"}]
    /\ withdrawn \subseteq Objects

\* What the remote withdrew stays out: once a notice was applied, no row made
\* of the claim waits for review or serves, however often it had been
\* promoted, resolved or moved, and whatever older bundle comes in later;
\* nor is withdrawn evidence kept.
WithdrawnStaysOut ==
    /\ \A c \in Claims : Object("claim", c) \in withdrawn =>
         \A i \in DOMAIN copies[c].rows : ~LiveRow(copies[c].rows[i])
    /\ \A e \in Evidence : Object("evidence", e) \in withdrawn => held[e] # "kept"

\* A deletion reaches every copy that was disclosed under a share that receives
\* redactions: the next bundle of the share carries the notice, though the
\* share shows nothing of it any more, whatever bundle files of it there still
\* are; and what was imported here and disclosed under no other share is
\* announced by some next bundle.
DeletionsStayAnnounced ==
    \A o \in deleted :
        /\ \A f \in Files :
              content[f] # NothingSent /\ o \in Shows(file[f].share, content[f].items) =>
                (file[f].share \in WithRedactions => o \in Notices(file[f].share))
        /\ o \in Arrived /\ {s \in Shares : o \in disclosed[s]} \subseteq WithRedactions
             => \E s \in Shares : o \in Notices(s)

\* What the owner put out of service or deleted here comes back by no import:
\* a row that was scrubbed keeps no text, a decided row is not decided anew,
\* and a claim has more rows after an import only if it had none.
\* Next to a native claim an import puts nothing into service, and it leaves
\* a conflict on record.
ImportsOverwriteNothing ==
    [][(\E f \in Files, policy \in Policies : Import(f, policy)) =>
         \A c \in Claims :
            LET old == copies[c]
                new == copies'[c]
            IN  /\ native'[c] = native[c]
                /\ old.rows # <<>> =>
                     /\ Len(new.rows) = Len(old.rows) /\ new.source = old.source
                     /\ \A i \in DOMAIN old.rows : new.rows[i] \in {old.rows[i], Scrubbed(old.rows[i])}
                     /\ old.conflict # "none" => new.conflict = old.conflict
                /\ old.rows = <<>> /\ new.rows # <<>> /\ native[c] = "serving" =>
                     new.rows[1].kind = "candidate" /\ new.conflict = "unresolved"]_vars
=============================================================================
