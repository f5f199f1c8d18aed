------------------------------- MODULE Reads -------------------------------
(***************************************************************************)
(* What readers of the service are shown of memory and of what was derived *)
(* from it: by reading it, in the recorded traces of retrievals and packs, *)
(* and in the stored answers that a repeated call is given.  Nothing of    *)
(* it is decided when memory is written: every reading asks anew, for the  *)
(* record and for everything below it.                                     *)
(*                                                                         *)
(* A ceiling stands for all that a credential may see (namespaces and      *)
(* projects are decided in the same places); the level of a claim is the   *)
(* strictest of its evidence.  A trace by a library process reads memory   *)
(* before its transaction and asks nobody.                                 *)
(***************************************************************************)
EXTENDS Derivations

CONSTANT MaxLevel  \* bound: privacy levels

ASSUME ReadsAssumption == MaxLevel \in Nat

Levels == 0..MaxLevel

VARIABLES
    level,    \* evidence_events: the privacy level of the evidence of a claim
    removed,  \* deletion_tombstones: the targets of redactions and deletions
    traced,   \* retrieval_trace_items, context_trace_items: snapshots
    tracing,  \* the snapshot of a library process that has yet to store it
    answers,  \* idempotency_records: completed answers and their sources
    late      \* ghost: claims whose wording was in such a snapshot when a
              \* record that holds it was redacted or deleted

readsVars == <<level, removed, traced, tracing, answers, late>>

\* via: the record whose readers may see the item.
TraceItem == [of : Ids, via : Ids, text : SUBSET Ids]
Answer    == [of : Ids, ceiling : Levels, sources : SUBSET Ids, text : SUBSET Ids]

ReadsInit ==
    /\ DerivationsInit
    /\ level = [n \in Ids |-> 0]
    /\ removed = {} /\ traced = {} /\ tracing = {} /\ answers = {} /\ late = {}

-----------------------------------------------------------------------------
(* Access.                                                                 *)

\* The parents that a record's readers must be allowed to see: those it was
\* made from, but a promoted reflection does not name its inference.
Parents(n) == IF record[n].kind = "reflection"
              THEN {m \in record[n].from : record[m].kind # "inference"}
              ELSE record[n].from

\* The decision on record n after those on its parents: claims by their
\* evidence, what is derived by all of its parents (the evidence of a derived
\* claim is that of its sources); abstractions are nobody's to read.
Permitted(ceiling, n, allowed) ==
    \/ record[n].kind = "claim" /\ level[n] <= ceiling
    \/ record[n].kind = "derived" /\ \A m \in Parents(n) : allowed[m]
    \/ /\ record[n].kind \in {"inference", "reflection"}
       /\ Parents(n) # {} /\ \A m \in Parents(n) : allowed[m]

\* A mutated form of Allowed: the row decides whether a record is there.
AllowedByRow(ceiling) ==
    LET allowed[n \in Ids] == Exists(n) /\ Permitted(ceiling, n, allowed)
    IN  {n \in Ids : allowed[n]}

\* ReadAccess.allowed.
Allowed(ceiling) ==
    LET allowed[n \in Ids] == Exists(n) /\ n \notin removed /\ Permitted(ceiling, n, allowed)
    IN  {n \in Ids : allowed[n]}

\* An event that is ingested again under a stricter level.
RaiseLevel(c) ==
    /\ record[c].kind = "claim" /\ level[c] < MaxLevel
    /\ level' = [level EXCEPT ![c] = @ + 1]
    /\ UNCHANGED <<derivationVars, removed, traced, tracing, answers, late>>

-----------------------------------------------------------------------------
(* Traces.                                                                 *)

\* Claims of any status, as what was left out; of what is derived, what packs
\* show.
Traceable(n) ==
    \/ Claim(n)
    \/ record[n].kind = "reflection" /\ record[n].status = "active"
    \/ record[n].kind = "inference" /\ record[n].status = "validated"

\* Packs name the inference of a derived claim, and readers of the inference
\* see the item.
Snapshots(n) ==
    {[of |-> n, via |-> v, text |-> record[n].text] :
        v \in {n} \cup {i \in record[n].from : record[n].kind = "derived"}}

Trace(n, ceiling) ==
    /\ Traceable(n) /\ n \in Allowed(ceiling)
    /\ \E item \in Snapshots(n) : traced' = traced \cup {item}
    /\ UNCHANGED <<derivationVars, level, removed, tracing, answers, late>>

ReadForTrace(n) ==
    /\ tracing = {} /\ Traceable(n)
    /\ \E item \in Snapshots(n) : tracing' = {item}
    /\ UNCHANGED <<derivationVars, level, removed, traced, answers, late>>

StoreTrace ==
    /\ tracing # {}
    /\ traced' = traced \cup tracing /\ tracing' = {}
    /\ UNCHANGED <<derivationVars, level, removed, answers, late>>

\* ReadAccess.trace_items.
ShownItems(ceiling) == {item \in traced : item.via \in Allowed(ceiling)}

-----------------------------------------------------------------------------
(* Stored answers.                                                         *)

\* Everything that was asked about on the way to the decision on n.
Asked(n) == {m \in Ids : n \in Reached({m})}

\* A call under an operation key answers with a record; one that the call
\* itself has made was not asked about.
StoreAnswer(n, ceiling) ==
    /\ n \in Allowed(ceiling)
    /\ \E own \in IF record[n].kind = "claim" THEN {{}} ELSE {{}, {n}} :
         answers' = answers \cup {[of |-> n, ceiling |-> ceiling, sources |-> Asked(n) \ own,
                                   text |-> record[n].text]}
    /\ UNCHANGED <<derivationVars, level, removed, traced, tracing, late>>

\* replay.validate: the authority is the same, the sources are asked about
\* again.
Replayable(ceiling) == {a \in answers : a.ceiling = ceiling /\ a.sources \subseteq Allowed(ceiling)}

-----------------------------------------------------------------------------
(* Deletion.                                                               *)

\* A mutated form of Scrubbed: traces of the target itself.
ScrubbedShallow(R) ==
    /\ traced' = {item \in traced : item.of \notin R}
    /\ answers' = {a \in answers : ({a.of} \cup a.sources) \cap Reached(R) = {}}

\* deletion.apply with scrub drops the trace items of whatever is reached,
\* and the stored answers that mention it.
Scrubbed(R) ==
    /\ traced' = {item \in traced : item.of \notin Reached(R)}
    /\ answers' = {a \in answers : ({a.of} \cup a.sources) \cap Reached(R) = {}}

\* Without it, only the target gets a tombstone.
Tombstoned(R, scrub) ==
    /\ removed' = removed \cup IF scrub THEN Reached(R) ELSE R
    /\ IF scrub THEN Scrubbed(R) ELSE UNCHANGED <<traced, answers>>
    /\ late' = late \cup IF scrub THEN TextOf(Reached(R)) \cap UNION {item.text : item \in tracing} ELSE {}
    /\ UNCHANGED <<level, tracing>>

DeleteForReaders(R, scrub) == Delete(R, scrub) /\ Tombstoned(R, scrub)
HardDeleteForReaders(c)    == HardDelete(c) /\ Tombstoned({c}, TRUE)

-----------------------------------------------------------------------------
\* What the routes of traces and explanations offer, and what readers live with.
ReadsStep ==
    \/ \E n \in Ids : RaiseLevel(n) \/ ReadForTrace(n)
    \/ \E n \in Ids, k \in Levels : Trace(n, k) \/ StoreAnswer(n, k)
    \/ StoreTrace
    \/ \E R \in SUBSET There, scrub \in BOOLEAN : DeleteForReaders(R, scrub)
    \/ \E c \in Ids : HardDeleteForReaders(c)

ReadsNext == ReadsStep \/ (Remembering /\ UNCHANGED readsVars)

ReadsSpec == ReadsInit /\ [][ReadsNext]_<<derivationVars, readsVars>>

-----------------------------------------------------------------------------
(* Properties.                                                             *)

ReadsTypeOK ==
    /\ level \in [Ids -> Levels]
    /\ removed \subseteq Ids /\ late \subseteq Ids
    /\ traced \subseteq TraceItem /\ tracing \subseteq TraceItem
    /\ answers \subseteq Answer

Within(text, ceiling) == \A c \in text : c \notin erased /\ level[c] <= ceiling

\* Whatever a reader is shown (memory itself, an item of a trace, the answer
\* of a call that is repeated) holds only wording of claims that lie within
\* the reader's ceiling now and have not been redacted or deleted, however
\* much was derived in between, also when a level was raised later and when a
\* library process stored what it had read too late.
ReadersStayWithinCeilings ==
    \A k \in Levels :
        /\ \A n \in Allowed(k) : Within(record[n].text, k)
        /\ \A item \in ShownItems(k) : Within(item.text, k)
        /\ \A a \in Replayable(k) : Within(a.text, k)

\* The wording of a claim that was redacted or deleted is in no trace and in
\* no stored answer, about whatever was made of it; but for a trace, if an
\* unfinished library method held it at that moment.
ErasedTextLeavesTraces ==
    /\ \A item \in traced : item.text \cap (erased \ (held \cup late)) = {}
    /\ \A a \in answers : a.text \cap erased = {}
=============================================================================
