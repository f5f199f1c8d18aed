--------------------------- MODULE MCDerivations ---------------------------
\* Derivations and Reads with bounds on what is combined with what, by profile.
EXTENDS Reads

VARIABLE profile

Count(kind) == Cardinality({n \in Ids : record[n].kind = kind})

\* Nothing is added while an inference waits for its review.
Reviewed == \A n \in Ids : record[n].status = "pending" => \A m \in Ids : m > n => record[m] = NoRecord

\* Long chains above one claim, in a service.
Chains == /\ Count("claim") <= 1 /\ Count("abstraction") = 0 /\ draft = NoDraft
          /\ record[4] # NoRecord => \A n \in Ids : record[n].strength \in {"none", "entailed"}
          /\ record[1].status \notin {"disputed", "core"}
          /\ Reviewed /\ \A n \in Ids : record[n].status # "invalidated"

\* Records with several sources, and library processes.
Webs == /\ Count("claim") <= 2
        /\ \A n \in 4..MaxRecords : record[n] = NoRecord
        /\ \A n \in Ids : /\ record[n].strength \in {"none", "strong"}
                          /\ record[n].kind = "claim" => record[n].status \notin {"core", "disputed"}

\* Readers of what three records can hold, of which nothing but deletions
\* changes the status, and of which the level of one is raised.
Readers == /\ Count("claim") <= 2 /\ Count("abstraction") = 0 /\ draft.kind # "inference"
           /\ \A n \in 4..MaxRecords : record[n] = NoRecord
           /\ \A n \in Ids : /\ record[n].strength \in {"none", "strong"}
                             /\ record[n].status \in {"none", "active", "pending", "validated", "promoted", "retired", "stale", "deleted"}
                             /\ record[n].status \in {"retired", "stale"} => n \in Reached(removed)
           /\ Cardinality(traced) + Cardinality(answers) <= 1
           /\ Reviewed
           /\ draft = NoDraft \/ (tracing \cup traced = {} /\ answers = {} /\ draft.from = {1, 2})
           /\ tracing = {} \/ (traced = {} /\ answers = {})
           /\ \A n \in 2..MaxRecords : level[n] = 0

Sizes == CASE profile = "chains" -> Chains [] profile = "webs" -> Webs [] profile = "readers" -> Readers

MCInit == ReadsInit /\ profile \in {"chains", "webs", "readers"}

\* Nobody reads.
Derives == \/ Remembering /\ UNCHANGED readsVars
           \/ \E R \in SUBSET There, scrub \in BOOLEAN : DeleteForReaders(R, scrub)
           \/ \E c \in Ids : HardDeleteForReaders(c)

MCNext == /\ IF profile = "readers" THEN ReadsNext ELSE Derives
          /\ UNCHANGED profile /\ Sizes'
MCSpec == MCInit /\ [][MCNext]_<<derivationVars, readsVars, profile>>
=============================================================================
