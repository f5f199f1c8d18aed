---------------------------- MODULE Protection ----------------------------
(***************************************************************************)
(* The copies of what evidence and claims say: the stored payload of an    *)
(* evidence event, sealed or not, the row of a claim in the full-text      *)
(* index, and its vectors in the semantic index; with protected mode, the  *)
(* content keys and their rotation.                                        *)
(*                                                                         *)
(* Every transaction is one action.  Two methods read before theirs:       *)
(* rotate_key counts the payloads of the old key, and index_semantic reads *)
(* the texts it will embed.  A service runs the whole method in one        *)
(* transaction; a library process leaves others room in between.           *)
(***************************************************************************)
EXTENDS Naturals, FiniteSets

CONSTANTS
    Events,     \* evidence events
    Claims,     \* claims
    Cites,      \* the evidence of each claim
    Providers,  \* embedding providers, each with one model
    Remote,     \* those that are reached over the network
    Policies,   \* indexing policies callers ask for
    MaxKeys     \* bound: content keys ever created

ASSUME ProtectionAssumption ==
    /\ Cites \in [Claims -> SUBSET Events]
    /\ Remote \subseteq Providers
    /\ Policies \subseteq {"index_public_and_personal_only", "local_only_sensitive",
                           "index_redacted_sensitive", "explicit_sensitive_indexing"}
    /\ MaxKeys \in Nat

VARIABLES
    protected,  \* is protected mode, and with it content encryption, enabled
    key,        \* encryption_key_records, in the order of their creation
    event,      \* evidence_events
    claim,      \* claims: status and what their text is
    fulltext,   \* claims_fts: the text indexed for a claim
    vectors,    \* embeddings of claims
    rotating,   \* a library process between its count and its rotation
    indexing,   \* a library process between its texts and its vectors
    late,       \* ghost: events sealed with a key while it was rotated as unused
    drift,      \* integrity_findings: is one of a full-text index with rows too many on record
    held        \* ghost: claims erased while a library process held their text

protectionVars == <<protected, key, event, claim, fulltext, vectors, rotating, indexing, drift, late, held>>

Keys == 1..MaxKeys
Clear == 0      \* the payload is not sealed

\* "personal" also stands for public, "private" for sensitive.
Levels == {"personal", "private", "secret"}
Private(level) == level \in {"private", "secret"}
Above(a, b) == <<a, b>> \in {<<"private", "personal">>, <<"secret", "personal">>, <<"secret", "private">>}

\* kept FALSE: the content has been replaced by a redaction.
Event == [level : Levels, seal : Keys \cup {Clear}, kept : BOOLEAN]
NoEvent == [level |-> "none", seal |-> Clear, kept |-> FALSE]

\* "retired" stands for superseded, rejected and archived, "active" for the
\* other statuses; text "own" is what the claim was written with.
ClaimRow == [status : {"none", "active", "retired", "deleted"}, text : {"none", "own", "redacted"}]
Vector == [claim : Claims, provider : Providers, version : Policies,
           text : {"own", "redacted"}, status : {"indexed", "stale"}]

NotRotating == [key |-> Clear, used |-> FALSE]
NotIndexing == [provider |-> "none", policy |-> "none", texts |-> {}]

ProtectionInit ==
    /\ protected = FALSE
    /\ key = [k \in Keys |-> "none"]
    /\ event = [e \in Events |-> NoEvent]
    /\ claim = [c \in Claims |-> [status |-> "none", text |-> "none"]]
    /\ fulltext = [c \in Claims |-> "none"]
    /\ vectors = {}
    /\ rotating = NotRotating /\ indexing = NotIndexing
    /\ drift = FALSE
    /\ late = {} /\ held = {}

Stored(e) == event[e] # NoEvent
Sealed(e) == Stored(e) /\ event[e].seal # Clear
Recorded(c) == claim[c].status \in {"active", "retired"}

-----------------------------------------------------------------------------
(* Content keys and protected mode.                                        *)

Unused == {k \in Keys : key[k] = "none" /\ \A j \in Keys : j < k => key[j] # "none"}
Active(keys) == {k \in Keys : keys[k] = "active"}

\* A mutated form of ContentKey: retired keys are among the listed ones.
ContentKeyAny(k, keys) ==
    \/ /\ k \in Keys /\ key[k] # "none" /\ \A j \in Keys : key[j] # "none" => k <= j
       /\ keys = key
    \/ /\ \A j \in Keys : key[j] = "none" /\ k \in Unused
       /\ keys = [key EXCEPT ![k] = "active"]

\* list_keys()[0], the newest one, created now if there is none.
ContentKey(k, keys) ==
    \/ /\ k \in Active(key) /\ \A j \in Active(key) : j <= k
       /\ keys = key
    \/ /\ Active(key) = {} /\ k \in Unused
       /\ keys = [key EXCEPT ![k] = "active"]

CreateKey ==
    /\ \E k \in Unused : key' = [key EXCEPT ![k] = "active"]
    /\ UNCHANGED <<protected, drift, event, claim, fulltext, vectors, rotating, indexing, late, held>>

\* What is stored already is neither sealed nor taken from the indexes.
SetProtectedMode(on) ==
    /\ protected' = on
    /\ IF on THEN \E k \in Keys : ContentKey(k, key') ELSE UNCHANGED key
    /\ UNCHANGED <<drift, event, claim, fulltext, vectors, rotating, indexing, late, held>>

\* The seal of content stored at a level.
Seal(level, seal, keys) ==
    IF protected /\ Private(level) THEN ContentKey(seal, keys)
    ELSE seal = Clear /\ keys = key

\* A mutated form of WriteEvent: an event that exists keeps its payload.
WriteEventLevelOnly(e, level) ==
    /\ ~Stored(e) \/ Above(level, event[e].level)
    /\ \E seal \in Keys \cup {Clear} :
         /\ Seal(level, seal, key')
         /\ event' = [event EXCEPT ![e] = [level |-> level, kept |-> TRUE,
                                           seal |-> IF Stored(e) THEN event[e].seal ELSE seal]]
         /\ late' = late
    /\ UNCHANGED <<protected, drift, claim, fulltext, vectors, rotating, indexing, held>>

\* An event is identified by its content.  One that exists is only written
\* again for a stricter level, with the content that came in.
WriteEvent(e, level) ==
    /\ ~Stored(e) \/ Above(level, event[e].level)
    /\ \E seal \in Keys \cup {Clear} :
         /\ Seal(level, seal, key')
         /\ event' = [event EXCEPT ![e] = [level |-> level, seal |-> seal, kept |-> TRUE]]
         /\ late' = IF seal # Clear /\ rotating = [key |-> seal, used |-> FALSE]
                    THEN late \cup {e} ELSE late \ {e}
    /\ UNCHANGED <<protected, drift, claim, fulltext, vectors, rotating, indexing, held>>

PayloadsOf(k) == {e \in Events : Sealed(e) /\ event[e].seal = k}

Rotated(old, used) ==
    /\ \E new \in Unused :
         /\ key' = [key EXCEPT ![old] = "rotated", ![new] = "active"]
         /\ event' = [e \in Events |->
                        IF used /\ e \in PayloadsOf(old) THEN [event[e] EXCEPT !.seal = new] ELSE event[e]]
    /\ late' = IF used THEN late \ PayloadsOf(old) ELSE late
    /\ UNCHANGED <<protected, drift, claim, fulltext, vectors, indexing, held>>

RotateKey(k) ==
    /\ k \in Active(key)
    /\ Rotated(k, PayloadsOf(k) # {})
    /\ UNCHANGED rotating

CountForRotation(k) ==
    /\ rotating = NotRotating /\ k \in Active(key)
    /\ rotating' = [key |-> k, used |-> PayloadsOf(k) # {}]
    /\ UNCHANGED <<protected, drift, key, event, claim, fulltext, vectors, indexing, late, held>>

CommitRotation ==
    /\ rotating # NotRotating
    /\ Rotated(rotating.key, rotating.used)
    /\ rotating' = NotRotating

-----------------------------------------------------------------------------
(* The full-text index.                                                    *)

\* The links of a claim end with the claim's row and with the event's.
CitesPrivate(c) ==
    claim[c].status # "deleted" /\ \E e \in Cites[c] : Stored(e) /\ Private(event[e].level)

\* should_skip_claim_index: only while protected mode is on.
Indexed(c, text) == IF protected /\ CitesPrivate(c) THEN "none" ELSE text

RecordClaim(c) ==
    /\ claim[c].status = "none" /\ \A e \in Cites[c] : Stored(e)
    /\ claim' = [claim EXCEPT ![c] = [status |-> "active", text |-> "own"]]
    /\ fulltext' = [fulltext EXCEPT ![c] = Indexed(c, "own")]
    /\ UNCHANGED <<protected, drift, key, event, vectors, rotating, indexing, late, held>>

\* Superseded, rejected, or back in service: no index follows.
ChangeStatus(c) ==
    /\ Recorded(c)
    /\ claim' = [claim EXCEPT ![c].status = IF @ = "active" THEN "retired" ELSE "active"]
    /\ UNCHANGED <<protected, drift, key, event, fulltext, vectors, rotating, indexing, late, held>>

\* A deep check counts the rows of the index against the claims in service.
Drifted == Cardinality({c \in Claims : fulltext[c] # "none"}) >
           Cardinality({c \in Claims : claim[c].status = "active"})

\* Findings stay on record, and a finding can be repaired more than once.
CheckIntegrity ==
    /\ drift' = (drift \/ Drifted)
    /\ UNCHANGED <<protected, key, event, claim, fulltext, vectors, rotating, indexing, late, held>>

\* Only such a finding can be repaired: an index that lacks rows stays so.
RepairFulltext ==
    /\ drift
    /\ fulltext' = [c \in Claims |->
                      IF claim[c].status = "active" THEN Indexed(c, claim[c].text) ELSE "none"]
    /\ UNCHANGED <<protected, drift, key, event, claim, vectors, rotating, indexing, late, held>>

-----------------------------------------------------------------------------
(* The semantic index.                                                     *)

Stale(v) == [v EXCEPT !.status = "stale"]

\* The text of a claim that may be embedded under a policy; "none" is blocked.
Embeddable(c, text, provider, policy) ==
    CASE ~CitesPrivate(c) \/ policy = "explicit_sensitive_indexing" -> text
      [] CitesPrivate(c) /\ policy = "local_only_sensitive" /\ provider \notin Remote -> text
      [] CitesPrivate(c) /\ policy = "index_redacted_sensitive" /\ provider \notin Remote -> "redacted"
      [] OTHER -> "none"

OtherVersions(provider, policy) ==
    {v \in vectors : v.provider = provider /\ v.version # policy}

\* One for each text that is not blocked.
NewVectors(provider, policy, texts) ==
    {[claim |-> t[1], provider |-> provider, version |-> policy,
      text |-> Embeddable(t[1], t[2], provider, policy), status |-> "indexed"] :
        t \in {u \in texts : Embeddable(u[1], u[2], provider, policy) # "none"}}

\* One vector per claim, provider and version.  A claim that is blocked keeps
\* the vector an earlier run made of it under the same policy.
Embedded(provider, policy, texts) ==
    LET new == NewVectors(provider, policy, texts)
        replaced == {v \in vectors : \E n \in new : v.claim = n.claim /\ v.provider = n.provider
                                                    /\ v.version = n.version}
        others == OtherVersions(provider, policy)
    IN  vectors' = ((vectors \ replaced) \ others) \cup {Stale(v) : v \in others} \cup new

TextsOf(S) == {<<c, claim[c].text>> : c \in {d \in S : claim[d].status = "active"}}

IndexSemantic(provider, policy, wanted) ==
    /\ Embedded(provider, policy, TextsOf(wanted))
    /\ UNCHANGED <<protected, drift, key, event, claim, fulltext, rotating, indexing, late, held>>

ReadTexts(provider, policy, wanted) ==
    /\ indexing = NotIndexing /\ TextsOf(wanted) # {}
    /\ indexing' = [provider |-> provider, policy |-> policy, texts |-> TextsOf(wanted)]
    /\ UNCHANGED <<protected, drift, key, event, claim, fulltext, vectors, rotating, late, held>>

StoreVectors ==
    /\ indexing # NotIndexing
    /\ Embedded(indexing.provider, indexing.policy, indexing.texts)
    /\ indexing' = NotIndexing
    /\ UNCHANGED <<protected, drift, key, event, claim, fulltext, rotating, late, held>>

MarkStaleSemantic(provider) ==
    /\ vectors' = {IF v.provider = provider THEN Stale(v) ELSE v : v \in vectors}
    /\ UNCHANGED <<protected, drift, key, event, claim, fulltext, rotating, indexing, late, held>>

\* A verification with the provider's dimension finds nothing; with another,
\* every vector is marked.
VerifySemantic(provider) == MarkStaleSemantic(provider)

PruneStaleSemantic(provider) ==
    /\ vectors' = {v \in vectors : ~(v.provider = provider /\ v.status = "stale")}
    /\ UNCHANGED <<protected, drift, key, event, claim, fulltext, rotating, indexing, late, held>>

\* What the search compares with a query.
Compared(v, provider) == v.provider = provider /\ v.status = "indexed"

\* It takes the version of the newest of them.
Searchable(provider) == {v \in vectors : Compared(v, provider)}

-----------------------------------------------------------------------------
(* Withdrawal and erasure.                                                 *)

Archived(C) ==
    /\ claim' = [c \in Claims |-> IF c \in C THEN [claim[c] EXCEPT !.status = "retired"] ELSE claim[c]]
    /\ fulltext' = [c \in Claims |-> IF c \in C THEN "none" ELSE fulltext[c]]
    /\ vectors' = {IF v.claim \in C THEN Stale(v) ELSE v : v \in vectors}
    /\ UNCHANGED <<protected, drift, key, event, rotating, indexing, late, held>>

Citing(e) == {c \in Claims : e \in Cites[c] /\ Recorded(c)}

\* Forgotten in the mode "tombstone": withdrawn, with the wording kept.
ForgetClaim(c) == Recorded(c) /\ Archived({c})
ForgetEvent(e) == Stored(e) /\ Archived(Citing(e))

\* A mutated form of Scrubbed: vectors are marked stale and kept.
ScrubbedKeepingVectors(C, row) ==
    /\ claim' = [c \in Claims |-> IF c \in C THEN row ELSE claim[c]]
    /\ fulltext' = [c \in Claims |-> IF c \in C THEN "none" ELSE fulltext[c]]
    /\ vectors' = {IF v.claim \in C THEN Stale(v) ELSE v : v \in vectors}
    /\ held' = held \cup {c \in C : \E t \in indexing.texts : t = <<c, "own">>}
    /\ UNCHANGED <<protected, drift, key, rotating, indexing>>

\* What deletion.apply does to claims whose text it scrubs.
Scrubbed(C, row) ==
    /\ claim' = [c \in Claims |-> IF c \in C THEN row ELSE claim[c]]
    /\ fulltext' = [c \in Claims |-> IF c \in C THEN "none" ELSE fulltext[c]]
    /\ vectors' = {v \in vectors : v.claim \notin C}
    /\ held' = held \cup {c \in C : \E t \in indexing.texts : t = <<c, "own">>}
    /\ UNCHANGED <<protected, drift, key, rotating, indexing>>

RedactedRow == [status |-> "retired", text |-> "redacted"]
DeletedRow  == [status |-> "deleted", text |-> "redacted"]

EraseClaim(c, row) ==
    /\ Recorded(c)
    /\ Scrubbed({c}, row)
    /\ UNCHANGED <<event, late>>

\* Claims that cite the event are redacted with it.
EraseEvent(e, row) ==
    /\ Stored(e)
    /\ Scrubbed(Citing(e), RedactedRow)
    /\ event' = [event EXCEPT ![e] = row]
    /\ late' = late \ {e}

\* What one action of a retention policy leaves of a claim.
RetainedRow(c, action) ==
    CASE action = "archived" -> [claim[c] EXCEPT !.status = "retired"]
      [] action = "redacted" -> RedactedRow
      [] action = "deleted" -> DeletedRow

\* One run of the retention policies: every claim they match is archived,
\* redacted or deleted, or the run changes nothing.
RunRetention(outcome) ==
    LET C == DOMAIN outcome
        erased == {c \in C : outcome[c] # "archived"}
    IN  /\ C # {} /\ \A c \in C : Recorded(c)
        /\ claim' = [c \in Claims |-> IF c \in C THEN RetainedRow(c, outcome[c]) ELSE claim[c]]
        /\ fulltext' = [c \in Claims |-> IF c \in C THEN "none" ELSE fulltext[c]]
        /\ vectors' = {IF v.claim \in C THEN Stale(v) ELSE v : v \in {w \in vectors : w.claim \notin erased}}
        /\ held' = held \cup {c \in erased : \E t \in indexing.texts : t = <<c, "own">>}
        /\ UNCHANGED <<protected, drift, key, event, rotating, indexing, late>>

-----------------------------------------------------------------------------

RedactEvent(e) == EraseEvent(e, [event[e] EXCEPT !.seal = Clear, !.kept = FALSE])
DeleteEvent(e) == EraseEvent(e, NoEvent)

\* What the routes of keys, erasure, retention and integrity offer, and the index.
ProtectionNext ==
    \/ CreateKey \/ CommitRotation \/ CheckIntegrity \/ RepairFulltext \/ StoreVectors
    \/ \E on \in BOOLEAN : SetProtectedMode(on)
    \/ \E e \in Events : RedactEvent(e) \/ DeleteEvent(e) \/ ForgetEvent(e) \/ \E level \in Levels : WriteEvent(e, level)
    \/ \E k \in Keys : RotateKey(k) \/ CountForRotation(k)
    \/ \E C \in SUBSET Claims : \E outcome \in [C -> {"archived", "redacted", "deleted"}] : RunRetention(outcome)
    \/ \E c \in Claims : \/ RecordClaim(c) \/ ChangeStatus(c) \/ ForgetClaim(c)
                         \/ EraseClaim(c, RedactedRow) \/ EraseClaim(c, DeletedRow)
    \/ \E provider \in Providers :
         \/ MarkStaleSemantic(provider) \/ VerifySemantic(provider) \/ PruneStaleSemantic(provider)
         \/ \E policy \in Policies, wanted \in SUBSET Claims :
              IndexSemantic(provider, policy, wanted) \/ ReadTexts(provider, policy, wanted)

ProtectionSpec == ProtectionInit /\ [][ProtectionNext]_protectionVars

-----------------------------------------------------------------------------
(* Properties.                                                             *)

\* What was redacted or deleted is in no index any more: neither a search of
\* words nor one by similarity finds the claim by what it said.  Except for
\* what a library process had read when it was erased and embeds after it.
ErasedTextLeavesIndexes ==
    \A c \in Claims : claim[c].text = "redacted" =>
        /\ fulltext[c] # "own"
        /\ c \notin held => \A v \in vectors : v.claim = c => v.text # "own"

\* The vectors of a provider that searches can match are all of one index
\* version: the search, which picks the version of the newest vector, overlooks
\* none, and scores of different policies are never mixed.
SearchSeesEveryVector ==
    \A provider \in Providers : \A v, w \in Searchable(provider) : v.version = w.version

\* A key is retired only when nothing is sealed with it any more, so that its
\* material can be destroyed.  Except for payloads that were sealed between
\* the count of a library process, which found the key unused, and its commit.
RetiredKeysSealNothing ==
    \A e \in Events : Sealed(e) /\ e \notin late => key[event[e].seal] = "active"

\* While protected mode is on, no step leaves private content in the clear: not
\* one that stores it, raises its level or re-encrypts it.
ProtectionSeals ==
    [][protected => \A e \in Events :
          event'[e] # event[e] /\ Private(event'[e].level) /\ event'[e].kept =>
              event'[e].seal # Clear]_protectionVars
=============================================================================
