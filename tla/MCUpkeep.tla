------------------------------ MODULE MCUpkeep ------------------------------
(* Instances of Jobs, Confidence, Learning, Evaluations, Entities, Tasks and *)
(* Sessions.                                                                 *)
EXTENDS MCJobs, Confidence, Evaluations, Entities, Sessions, Tasks

CONSTANTS
    Profiles,       \* those of this instance
    b1, b2, g1, g2, o1, o2, o3, u1, u2, u3, c2, c3, n1, n2, e1, e2

VARIABLE profile

\* Every change of status and every judgement, over two claims without policies.
Judgments ==
    /\ policy = [seeded |-> "code", namespace |-> "none"] /\ plain = There
    /\ judgement[g1] = "none" => judgement[g2] = "none"

\* Policies and recomputations, over claims that are active or rejected.
HalfLives == /\ judgement[g1] = "none" /\ judgement[g2] = "none"
             /\ \A c \in Rated : standing[c] \in {"absent", "active", "rejected"}

\* Identifiers are taken in the order of a sequence.
Taken(ids, used(_)) == \A i \in 2..Len(ids) : used(ids[i]) => used(ids[i - 1])

ProposalsInOrder == LET used(p) == proposal[p] # NoProposal IN Taken(<<o1, o2, o3>>, used)
RunsInOrder == LET used(r) == run[r] # NoRun IN Taken(<<u1, u2, u3>>, used)

\* Two proposals, of which one is made with the first run; a library may store
\* that run late.  Cases are added in order and nothing is rejected.
Gates ==
    /\ ProposalsInOrder /\ RunsInOrder /\ proposal[o3] = NoProposal
    /\ basis[o2] = "none" /\ basis[o1] \in {"none", u1}
    /\ c3 \in cases => c2 \in cases
    /\ \A r \in Runs : run[r] # NoRun => run[r].cases # {} /\ (r # u1 => run[r].phase = "stored" /\ run[r].passed)
    /\ \A p \in Proposals : proposal[p].status # "rejected"

\* A claim of one event and a candidate of another, whose entities a service or a
\* library merges.
Merges == /\ claimed[e2] \in {"none", "candidate"} /\ linked[e2] = {}
          /\ \A n \in Names : name[<<n, "chosen">>] \in {"absent", n1}
          /\ merging # NoMerge => text[e2] = {}

\* Two tasks about an object, one about an inference and one about a flag.
Few == \A t \in Targets : Len(tasks[t]) <= IF t \in Objects THEN 2 ELSE 1

MCInit == Init /\ ConfidenceInit /\ EvaluationsInit /\ EntitiesInit /\ SessionsInit /\ TasksInit /\ profile \in Profiles

Judges == ConfidenceNext /\ IF profile = "judgements" THEN Judgments' ELSE HalfLives'

Learns == LearningNext /\ ProposalsInOrder' /\ UNCHANGED <<cases, run, basis, judge>>

MCNext ==
    /\ UNCHANGED profile
    /\ IF profile = "jobs" THEN Next ELSE UNCHANGED vars
    /\ IF profile \in {"judgements", "policies"} THEN Judges ELSE UNCHANGED confidenceVars
    /\ CASE profile = "learning" -> Learns
         [] profile = "gates" -> EvaluationsNext /\ Gates'
         [] OTHER -> UNCHANGED evaluationVars
    /\ IF profile = "names" THEN EntitiesNext /\ Merges' ELSE UNCHANGED entityVars
    /\ IF profile = "sessions" THEN SessionsNext ELSE UNCHANGED sessionVars
    /\ IF profile = "tasks" THEN TasksNext /\ Few' ELSE UNCHANGED taskVars

MCSpec == MCInit /\ [][MCNext]_<<vars, confidenceVars, evaluationVars, entityVars, sessionVars, taskVars, profile>>
=============================================================================
