---------------------------- MODULE Derivations ----------------------------
(***************************************************************************)
(* Derived memory: inferences drawn from claims, the claims and            *)
(* reflections they are promoted to, reflections and abstractions, the     *)
(* derivation edges between them, and what happens along these edges when  *)
(* a source is retired, invalidated or deleted.                            *)
(*                                                                         *)
(* Records are numbered in the order of their creation, so that every edge *)
(* leads to a greater number.  An evidence event is part of the claims     *)
(* that cite it.  What the conflict engine and the owner decide about a    *)
(* claim is any change of its status (module Conflicts says which); a      *)
(* derived claim is one of memory_type "inference".  The refresh queue and *)
(* the invalidation events, which nothing reads back, are left out.        *)
(***************************************************************************)
EXTENDS Naturals, FiniteSets

CONSTANTS
    MaxRecords,  \* bound: the records of a namespace
    Strengths    \* bound: the strengths of inferences

ASSUME DerivationsAssumption ==
    /\ MaxRecords \in Nat
    /\ Strengths \subseteq {"weak", "strong", "entailed"}

Ids == 1..MaxRecords

VARIABLES
    record,  \* claims, inference_candidates, reflections, abstraction_records
    draft,   \* what a library process that derives has read, before its
             \* transaction; a service runs the whole method in one
    erased,  \* ghost: claims whose wording was redacted or deleted
    held     \* ghost: claims whose wording was in a draft when a record that
             \* holds it was redacted or deleted

derivationVars == <<record, draft, erased, held>>

\* "retired" stands for superseded, rejected and archived, "disputed" also
\* for claims that are candidates again; a deleted claim's row is gone.
ClaimStatuses == {"active", "core", "disputed", "retired", "deleted"}

\* "pending" also stands for the two statuses that ask for another review.
InferenceStatuses == {"pending", "validated", "promoted", "rejected", "stale", "invalidated"}
EditableStatuses  == {"pending", "stale", "invalidated"}
ReflectionStatuses == {"candidate", "active", "stale", "invalidated"}

\* from: the sources of its derivation edges; text: the claims whose wording
\* it holds.
Record == [kind : {"none", "claim", "derived", "inference", "reflection", "abstraction"},
           status : {"none"} \cup ClaimStatuses \cup InferenceStatuses \cup ReflectionStatuses,
           from : SUBSET Ids, text : SUBSET Ids, strength : Strengths \cup {"none"}]

NoRecord == [kind |-> "none", status |-> "none", from |-> {}, text |-> {}, strength |-> "none"]
Draft   == [kind : {"inference", "reflection"}, from : SUBSET Ids, text : SUBSET Ids]
NoDraft == [kind |-> "none", from |-> {}, text |-> {}]

DerivationsInit ==
    /\ record = [n \in Ids |-> NoRecord]
    /\ draft = NoDraft
    /\ erased = {} /\ held = {}

Exists(n) == record[n].kind # "none" /\ record[n].status # "deleted"
There     == {n \in Ids : Exists(n)}
Claim(n)  == record[n].kind \in {"claim", "derived"} /\ Exists(n)
New(n)    == record[n].kind = "none" /\ \A m \in Ids : m < n => record[m].kind # "none"

\* What record n is derived from; the edges of a claim whose row is gone are
\* cut.
Sources(n) == {m \in record[n].from : Exists(m)}

\* Everything derived from the records R, through any number of edges, and R.
Reached(R) ==
    LET reached[n \in Ids] == n \in R \/ \E m \in Sources(n) : reached[m]
    IN  {n \in Ids : reached[n]}
Derived(R) == Reached(R) \ R

TextOf(S) == UNION {record[n].text : n \in S}

-----------------------------------------------------------------------------
(* Invalidation.                                                           *)

\* _apply_invalidation_action, in the modes mark_stale, queue_refresh and
\* recompute.
MarkedStale(r) ==
    CASE r.kind \in {"reflection", "abstraction"} -> [r EXCEPT !.status = "stale"]
      [] r.kind = "inference" /\ r.status \notin {"rejected", "promoted"} ->
            [r EXCEPT !.status = "stale"]
      [] r.kind = "derived" /\ r.status \notin {"core", "retired", "deleted"} ->
            [r EXCEPT !.status = "disputed"]
      [] OTHER -> r

\* invalidate_derived of the records R: the whole graph below them.
Staled(R) == LET below == Derived(R)
             IN  [n \in Ids |-> IF n \in below THEN MarkedStale(record[n]) ELSE record[n]]

\* The mode "invalidate" rejects derived claims, each of which marks what is
\* derived from it as stale; the order of the walk decides which of the two
\* marks a record below a rejected claim is left with.
Invalidated(n) ==
    LET r == record[n]
    IN  CASE r.kind \in {"reflection", "abstraction"} -> "invalidated"
          [] r.kind = "inference" /\ r.status \notin {"rejected", "promoted"} -> "invalidated"
          [] r.kind = "derived" /\ r.status \notin {"core", "retired", "deleted"} -> "retired"
          [] OTHER -> r.status

InvalidateDerived(n, mode) ==
    /\ Exists(n)
    /\ IF mode = "mark_stale" THEN record' = Staled({n})
       ELSE LET reached == Derived({n})
                rejected == {m \in reached : record[m].kind = "derived" /\ Invalidated(m) # record[m].status}
                below == Derived(rejected)
            IN  \E stale \in SUBSET {m \in below : Invalidated(m) = "invalidated"} :
                   record' = [m \in Ids |->
                                IF m \in stale THEN [record[m] EXCEPT !.status = "stale"]
                                ELSE IF m \in reached
                                THEN [record[m] EXCEPT !.status = Invalidated(m)]
                                ELSE record[m]]
    /\ UNCHANGED <<draft, erased, held>>

\* The job refresh_reflections: whatever made them stale.
Refreshed(r) == [r EXCEPT !.status = "candidate"]

RefreshReflections ==
    /\ record' = [n \in Ids |-> IF record[n].kind = "reflection" /\ record[n].status = "stale"
                                THEN Refreshed(record[n]) ELSE record[n]]
    /\ UNCHANGED <<draft, erased, held>>

-----------------------------------------------------------------------------
(* Claims.                                                                 *)

\* Detection, in the transaction of a new claim: D are the claims it disputes.
Disputed(D) == [m \in Ids |-> IF m \in D THEN [record[m] EXCEPT !.status = "disputed"] ELSE record[m]]
Detections == {<<{}, "active">>} \cup
              {<<D, "disputed">> : D \in SUBSET {m \in Ids : Claim(m) /\ record[m].status = "active"}}

WriteClaim(n) ==
    /\ New(n)
    /\ \E d \in Detections :
         record' = [Disputed(d[1]) EXCEPT
                      ![n] = [NoRecord EXCEPT !.kind = "claim", !.status = d[2], !.text = {n}]]
    /\ UNCHANGED <<draft, erased, held>>

\* A mutated form of SetStatus: only the records made from the claim itself.
SetStatusShallow(c, s) ==
    /\ Claim(c) /\ record[c].status # s
    /\ record' = [n \in Ids |-> IF n = c THEN [record[n] EXCEPT !.status = s]
                                ELSE IF s = "retired" /\ c \in record[n].from
                                THEN MarkedStale(record[n]) ELSE record[n]]
    /\ UNCHANGED <<draft, erased, held>>

\* _set_claim_status: a claim that is rejected, superseded or archived takes
\* what is derived from it along.
SetStatus(c, s) ==
    /\ Claim(c) /\ record[c].status # s
    /\ record' = [(IF s = "retired" THEN Staled({c}) ELSE record) EXCEPT ![c].status = s]
    /\ UNCHANGED <<draft, erased, held>>

\* The action "archive" of a retention policy updates the row alone.
RetentionArchive(c) ==
    /\ Claim(c) /\ record[c].status # "retired"
    /\ record' = [record EXCEPT ![c].status = "retired"]
    /\ UNCHANGED <<draft, erased, held>>

-----------------------------------------------------------------------------
(* Deriving.                                                               *)

Inferred(S, text, strength) ==
    [NoRecord EXCEPT !.kind = "inference", !.status = "pending", !.from = S,
                     !.text = text, !.strength = strength]

Reflected(S, text, status) ==
    [NoRecord EXCEPT !.kind = "reflection", !.status = status, !.from = S, !.text = text]

\* What the engines draw one inference from, and how strong they call it: the
\* logical and the factual engine a claim or two, in any status; the
\* reflection engine two or three claims in force.
Drawn(S, strength) ==
    /\ \A c \in S : Claim(c)
    /\ \/ Cardinality(S) \in 1..2 /\ strength \in {"strong", "entailed"}
       \/ /\ Cardinality(S) \in 2..3 /\ strength = "strong"
          /\ \A c \in S : record[c].status \in {"active", "core"}

\* run_inference stores what its engines draw.
RunInference(n, S, strength) ==
    /\ Drawn(S, strength) /\ New(n)
    /\ record' = [record EXCEPT ![n] = Inferred(S, TextOf(S), strength)]
    /\ UNCHANGED <<draft, erased, held>>

Reflectable(S) == S # {} /\ \A m \in S : Claim(m) \/ record[m].kind = "reflection"

\* build_reflection, of claims and reflections in any status; without review
\* it serves at once.
BuildReflection(n, S, status) ==
    /\ Reflectable(S) /\ New(n)
    /\ record' = [record EXCEPT ![n] = Reflected(S, TextOf(S), status)]
    /\ UNCHANGED <<draft, erased, held>>

\* In a library process memory may change between the two halves of either.
ReadSources(kind, S) ==
    /\ draft = NoDraft
    /\ IF kind = "inference" THEN \E strength \in Strengths : Drawn(S, strength) ELSE Reflectable(S)
    /\ draft' = [kind |-> kind, from |-> S, text |-> TextOf(S)]
    /\ UNCHANGED <<record, erased, held>>

StoreDraft(n, status, strength) ==
    /\ draft # NoDraft /\ New(n) /\ strength # "weak"
    /\ record' = [record EXCEPT ![n] = IF draft.kind = "inference"
                                       THEN Inferred(draft.from, draft.text, strength)
                                       ELSE Reflected(draft.from, draft.text, status)]
    /\ draft' = NoDraft
    /\ UNCHANGED <<erased, held>>

\* create_abstraction asks nothing about its sources.
CreateAbstraction(n, S) ==
    /\ S # {} /\ (\A m \in S : Exists(m)) /\ New(n)
    /\ record' = [record EXCEPT ![n] = [NoRecord EXCEPT !.kind = "abstraction", !.status = "active",
                                                        !.from = S, !.text = TextOf(S)]]
    /\ UNCHANGED <<draft, erased, held>>

-----------------------------------------------------------------------------
(* Reviewing and promoting inferences.                                     *)

Reviewable(i) == /\ record[i].kind = "inference"
                 /\ record[i].status \notin {"promoted", "rejected"}

Decisions(i) == {"validated", "rejected"} \cup EditableStatuses \cup {record[i].status}

\* review_inference, with edits of status and strength.
ReviewInference(i, s, strength) ==
    /\ Reviewable(i)
    /\ s \in Decisions(i)
    /\ record' = [record EXCEPT ![i].status = s, ![i].strength = strength]
    /\ UNCHANGED <<draft, erased, held>>

\* _inference_promotion_failures is empty; low confidence, an open conflict
\* and a contradicting claim are further reasons to refuse.
PromotableInference(i, target) ==
    /\ record[i].status = "validated"
    /\ record[i].strength # "weak"
    /\ \A c \in record[i].from : record[c].status # "retired"
    /\ target = "core" => record[i].strength = "entailed"

\* promote_inference to a claim: written active, compared, made core.  It
\* reads every source, and none may be gone.
PromoteToClaim(n, i, target, force) ==
    /\ Reviewable(i) /\ (\A c \in record[i].from : Exists(c)) /\ New(n)
    /\ force \/ PromotableInference(i, target)
    /\ \E d \in Detections :
         /\ target = "core" /\ d[2] = "disputed" => force
         /\ record' = [Disputed(d[1]) EXCEPT
                         ![i].status = "promoted",
                         ![n] = [NoRecord EXCEPT !.kind = "derived", !.from = {i}, !.text = record[i].text,
                                                 !.status = IF target = "core" THEN "core" ELSE d[2]]]
    /\ UNCHANGED <<draft, erased, held>>

\* To a reflection, which serves at once.
PromoteToReflection(n, i, force) ==
    /\ Reviewable(i) /\ (\A c \in record[i].from : Exists(c)) /\ New(n)
    /\ force \/ PromotableInference(i, "active")
    /\ record' = [record EXCEPT ![i].status = "promoted",
                                ![n] = Reflected(record[i].from \cup {i}, record[i].text, "active")]
    /\ UNCHANGED <<draft, erased, held>>

-----------------------------------------------------------------------------
(* Deletion.                                                               *)

\* A mutated form of Withdrawn: promoted inferences are closed business.
WithdrawnButPromoted(r, scrub) ==
    IF r.status = "promoted" THEN r
    ELSE [r EXCEPT !.status = IF r.kind \in {"claim", "derived"} THEN "retired" ELSE "stale",
                   !.text = IF scrub THEN {} ELSE @]

\* What deletion.apply does to a record, whatever its status.
Withdrawn(r, scrub) ==
    [r EXCEPT !.status = IF r.kind \in {"claim", "derived"} THEN "retired" ELSE "stale",
              !.text = IF scrub THEN {} ELSE @]

\* deletion.apply to the closure of the roots R.
Applied(R, scrub) ==
    LET reached == Reached(R)
    IN  [n \in Ids |-> IF n \in reached THEN Withdrawn(record[n], scrub) ELSE record[n]]

Erase(R) == /\ erased' = erased \cup R
            /\ held' = held \cup (TextOf(Reached(R)) \cap draft.text)

\* redact and forget of a claim, or of the evidence of the claims R (which is
\* a root of its own, so that the claims are derived from it).
Delete(R, scrub) ==
    /\ R # {} /\ \A c \in R : Claim(c)
    /\ record' = Applied(R, scrub)
    /\ IF scrub THEN Erase(R) ELSE UNCHANGED <<erased, held>>
    /\ UNCHANGED draft

\* forget in the mode derived_invalidate leaves the claim itself alone.
DeriveInvalidate(c) ==
    /\ Claim(c)
    /\ record' = [Applied({c}, FALSE) EXCEPT ![c] = record[c]]
    /\ UNCHANGED <<draft, erased, held>>

\* A hard deletion also drops the row of the claim, and its edges.
HardDelete(c) ==
    /\ Claim(c)
    /\ LET applied == Applied({c}, TRUE)
       IN  record' = [applied EXCEPT ![c] = [NoRecord EXCEPT !.kind = record[c].kind, !.status = "deleted"]]
    /\ Erase({c})
    /\ UNCHANGED draft

-----------------------------------------------------------------------------
Deriving(n) ==
    \/ \E S \in SUBSET There, strength \in Strengths : RunInference(n, S, strength)
    \/ \E S \in SUBSET There, s \in {"candidate", "active"} : BuildReflection(n, S, s)
    \/ \E s \in {"candidate", "active"}, strength \in Strengths : StoreDraft(n, s, strength)
    \/ \E S \in SUBSET There : CreateAbstraction(n, S)
    \/ \E i \in Ids, s \in {"active", "core"}, force \in BOOLEAN : PromoteToClaim(n, i, s, force)
    \/ \E i \in Ids, force \in BOOLEAN : PromoteToReflection(n, i, force)

Retiring(n) ==
    \/ \E s \in ClaimStatuses \ {"deleted"} : SetStatus(n, s)
    \/ DeriveInvalidate(n) \/ RetentionArchive(n)
    \/ \E mode \in {"mark_stale", "invalidate"} : InvalidateDerived(n, mode)

\* What the reasoning routes offer, and the decisions about claims beside them.
Remembering ==
    \/ \E n \in Ids : \/ New(n) /\ (WriteClaim(n) \/ Deriving(n))
                      \/ Exists(n) /\ Retiring(n)
                      \/ Reviewable(n) /\ \E s \in InferenceStatuses, strength \in Strengths : ReviewInference(n, s, strength)
    \/ \E kind \in {"inference", "reflection"}, S \in SUBSET There : ReadSources(kind, S)
    \/ RefreshReflections

DerivationsNext ==
    \/ Remembering
    \/ \E R \in SUBSET There, scrub \in BOOLEAN : Delete(R, scrub)
    \/ \E c \in Ids : HardDelete(c)

DerivationsSpec == DerivationsInit /\ [][DerivationsNext]_derivationVars

-----------------------------------------------------------------------------
(* Properties.                                                             *)

DerivationsTypeOK ==
    /\ record \in [Ids -> Record]
    /\ draft \in Draft \cup {NoDraft}
    /\ held \subseteq Ids /\ erased \subseteq Ids
    /\ \A n \in Ids : \A m \in record[n].from : m < n

\* What recall shows of derived memory; a core claim is kept on purpose.
Serves(n) == /\ record[n].kind \in {"derived", "reflection", "abstraction"}
             /\ record[n].status = "active"

Gone == {n \in Ids : record[n].kind \in {"claim", "derived"} /\ record[n].status \in {"retired", "deleted"}}

\* When a claim goes out of force (rejected, superseded, archived, invalidated,
\* redacted or deleted), nothing that was derived from it goes on serving,
\* however many inferences, promoted claims and reflections lie in between and
\* whatever state these are in.  A retention policy that archives is the
\* exception.
WithdrawalsReachEverything ==
    [][\A c \in Gone' \ Gone :
          RetentionArchive(c) \/ \A n \in Derived({c}) : ~Serves(n)']_derivationVars

\* A reflection or an abstraction that was once withdrawn never serves again,
\* although the refresh of reflections lifts every stale mark, whoever set it.
WithdrawnStaysOut ==
    [][\A n \in Ids : record[n].kind \in {"reflection", "abstraction"} /\ ~Serves(n)
                        => ~Serves(n)']_derivationVars

\* The wording of a claim that was redacted or deleted is gone from
\* everything that was made of it, also where a later deletion cut the edges
\* and where derived records were promoted or reviewed again; unless an
\* unfinished method held it at that moment.
ErasedTextStaysErased ==
    \A n \in Ids : record[n].text \cap (erased \ held) = {}

\* "Terminal inferences cannot be promoted again": an inference becomes one
\* claim or reflection.
PromotedOnce ==
    \A i \in Ids : record[i].kind = "inference" =>
        Cardinality({n \in Ids : record[n].kind \in {"derived", "reflection"} /\ i \in record[n].from}) <= 1
=============================================================================
