----------------------------- MODULE Confidence -----------------------------
(***************************************************************************)
(* The confidence of the claims of a namespace, of one memory type.        *)
(*                                                                         *)
(* A number is stored with every claim, by which recall ranks and filters. *)
(* It is computed from the claim's place, its judgements, its half-life,   *)
(* its base, its sources and its age.  Most operations that change one of  *)
(* these compute it again, some do not.  The model keeps, in place of the  *)
(* number, the first three of what it was computed from; where the code    *)
(* compares numbers, every outcome is possible.                            *)
(***************************************************************************)

CONSTANTS
    Rated,          \* claims
    Judgements,     \* rows of feedback
    Days            \* half-lives other than the one the code has for the type

ASSUME ConfidenceAssumption == "none" \notin Rated

VARIABLES
    standing,       \* claims: status
    days,           \* claims: half_life_days
    disputed,       \* the members of the unresolved conflict family
    policy,         \* half_life_policies: the seeded row and one of the namespace
    judgement,      \* feedback: the claim that each row is about
    rated,          \* claims.confidence_effective and the latest snapshot
    plain,          \* claims whose writer gave no half-life
    current,        \* claims computed since a policy last changed
    overruled       \* ghost: claims that Overrule changed since they were computed

confidenceVars == <<standing, days, disputed, policy, judgement, rated, plain, current, overruled>>

Lengths == {"code"} \cup Days
Serving == {"active", "core"}
Out == {"rejected", "superseded", "archived"}

There == {c \in Rated : standing[c] # "absent"}

ConfidenceInit ==
    /\ standing = [c \in Rated |-> "absent"]
    /\ days = [c \in Rated |-> "code"]
    /\ disputed = {}
    /\ policy = [seeded |-> "code", namespace |-> "none"]
    /\ judgement = [g \in Judgements |-> "none"]
    /\ rated = [c \in Rated |-> [half |-> "none", place |-> "none", judged |-> {}]]
    /\ plain = {} /\ current = {} /\ overruled = {}

-----------------------------------------------------------------------------
(* What a confidence is computed from.                                     *)

\* A policy that was not seeded decides, then a length of the claim's own that
\* is not the code's, then the seeded policy.
HalfLife(own) ==
    IF policy.namespace # "none" THEN policy.namespace
    ELSE IF own # "code" THEN own ELSE policy.seeded

\* The factor of the claim's place among others.
Place(c) ==
    IF standing[c] \in Out THEN standing[c]
    ELSE IF c \in disputed THEN "open"
    ELSE IF standing[c] = "disputed" THEN "disputed" ELSE "clear"

Judged(c) == {g \in Judgements : judgement[g] = c}

Inputs(c) == [half |-> HalfLife(days[c]), place |-> Place(c), judged |-> Judged(c)]

\* The confidence of the claims of C after the step; a number that equals the
\* latest snapshot is not stored again.
Rate(C) ==
    /\ rated' = [c \in Rated |-> IF c \in C THEN Inputs(c)' ELSE rated[c]]
    /\ current' = current \cup C
    /\ overruled' = overruled \ C

\* It is stored with the half-life, which becomes the claim's own.
Lengthened(C) == [c \in Rated |-> IF c \in C THEN HalfLife(days[c]) ELSE days[c]]

-----------------------------------------------------------------------------
(* Writing claims and policies.                                            *)

\* A claim in force that contradicts others is disputed with them; only the
\* claim that is written is computed.
Write(c, status, given, against) ==
    /\ standing[c] = "absent"
    /\ status \in Serving \cup {"candidate"}
    /\ against \subseteq {d \in Rated : standing[d] \in Serving \cup {"disputed"}}
    /\ status = "candidate" => against = {}
    /\ LET parties == IF against = {} THEN {} ELSE {c} \cup against
           states == [standing EXCEPT ![c] = status]
       IN  /\ standing' = [d \in Rated |->
                  IF d \in parties /\ states[d] # "core" THEN "disputed" ELSE states[d]]
           /\ disputed' = disputed \cup parties
    /\ plain' = IF given = "code" THEN plain \cup {c} ELSE plain
    /\ days' = [days EXCEPT ![c] = HalfLife(given)]
    /\ UNCHANGED <<policy, judgement>>
    /\ Rate({c})

\* One row for each key: the seeded row is updated in its place.
SetPolicy(row, length) ==
    /\ row \in {"seeded", "namespace"} /\ length \in Days
    /\ policy' = [policy EXCEPT ![row] = length]
    /\ current' = {}
    /\ UNCHANGED <<standing, days, disputed, judgement, rated, plain, overruled>>

-----------------------------------------------------------------------------
(* Judgements.                                                             *)

\* A signal of no strength, and most others, leave the status alone.
Verdicts(c) ==
    IF standing[c] = "core" THEN {"core"}
    ELSE {standing[c], "rejected", "disputed"} \cup
         (IF standing[c] = "candidate" THEN {"active"} ELSE {})

Judge(g, c) ==
    /\ judgement[g] = "none" /\ c \in There
    /\ judgement' = [judgement EXCEPT ![g] = c]
    /\ \E s \in Verdicts(c) : standing' = [standing EXCEPT ![c] = s]
    /\ days' = Lengthened({c})
    /\ UNCHANGED <<disputed, policy, plain>>
    /\ Rate({c})

-----------------------------------------------------------------------------
(* Decisions.                                                              *)

Only(c, status) == [d \in {c} |-> status]

Ruled(changes, C) ==
    /\ standing' = [c \in Rated |-> IF c \in DOMAIN changes THEN changes[c] ELSE standing[c]]
    /\ days' = Lengthened(C)
    /\ UNCHANGED <<policy, judgement, plain>>
    /\ Rate(C)

\* A promotion that is not forced needs no dispute, and enough confidence,
\* importance and evidence.
Promote(c, status, force) ==
    /\ c \in There /\ status \in Serving
    /\ force \/ (standing[c] \notin {"rejected", "superseded"} /\ c \notin disputed)
    /\ disputed' = disputed
    /\ Ruled(Only(c, status), {c})

Demote(c, status) ==
    /\ c \in There /\ status \in Out \cup {"candidate", "disputed"}
    /\ disputed' = disputed
    /\ Ruled(Only(c, status), {c})

Supersede(old, new) ==
    /\ {old, new} \subseteq There
    /\ disputed' = disputed
    /\ Ruled(Only(old, "superseded"), {old, new})

\* A scope brings a claim back that no open family holds.
Scope(c) ==
    /\ c \in There
    /\ disputed' = disputed
    /\ Ruled(Only(c, IF standing[c] = "disputed" /\ c \notin disputed
                     THEN "active" ELSE standing[c]), {c})

Restored(c) == IF standing[c] = "core" THEN "core" ELSE "active"

\* What a resolution may make of a member: it is chosen, kept, or put out.
Rulings(c) ==
    {Restored(c), IF standing[c] = "disputed" THEN "active" ELSE standing[c],
     "superseded", "rejected"}

\* A family, in dispute or settled before; no other is in dispute.
Family(C) == C # {} /\ C \subseteq There /\ disputed \in {{}, C}

\* A mutated form of Resolve: the members that are put out are not computed.
ResolveServing(ruling) ==
    /\ Family(DOMAIN ruling) /\ \A c \in DOMAIN ruling : ruling[c] \in Rulings(c)
    /\ disputed' = {}
    /\ Ruled(ruling, {c \in DOMAIN ruling : ruling[c] \in Serving})

\* Whatever the strategy, every member is computed.
Resolve(ruling) ==
    /\ Family(DOMAIN ruling) /\ \A c \in DOMAIN ruling : ruling[c] \in Rulings(c)
    /\ disputed' = {}
    /\ Ruled(ruling, DOMAIN ruling)

\* mark_unresolved leaves the dispute open, or opens it again; what the family
\* had chosen, if anything, comes into force.
MarkDisputed(C, chosen) ==
    /\ Family(C)
    /\ disputed' = C
    /\ Ruled([c \in C \cap chosen |-> Restored(c)], C)

\* The resolution of a sync conflict, the invalidation of a claim that was
\* inferred, retention and redaction set the status and compute nothing.
Overrule(c, status) ==
    /\ c \in There /\ status \in {"rejected", "archived", "disputed"}
    /\ status = "disputed" => standing[c] \in {"candidate", "active"}
    /\ standing' = [standing EXCEPT ![c] = status]
    /\ overruled' = overruled \cup {c}
    /\ UNCHANGED <<days, disputed, policy, judgement, rated, plain, current>>

\* The decay job, curation, a rollback of a procedure and a retrieval that asks
\* for it: all claims or one.
Recompute(C) ==
    /\ C # {} /\ C \subseteq There
    /\ UNCHANGED <<standing, disputed, policy, judgement, plain>>
    /\ days' = Lengthened(C)
    /\ Rate(C)

\* Claims are computed and read first and decided one after the other, in a
\* library each in a transaction of its own: what is archived was active or a
\* candidate, and little in it, when the curation began.
Curate(c) ==
    \/ \E s \in Serving : Promote(c, s, FALSE)
    \/ Demote(c, "archived")

-----------------------------------------------------------------------------
Deciding(c) ==
    \/ \E s \in Serving, force \in BOOLEAN : Promote(c, s, force)
    \/ \E s \in Out \cup {"candidate", "disputed"} : Demote(c, s)
    \/ \E d \in Rated \ {c} : Supersede(c, d)
    \/ Scope(c)
    \/ Curate(c)
    \/ \E s \in {"rejected", "archived", "disputed"} : Overrule(c, s)

\* What the routes of confidence and curation offer, and the decisions beside them.
ConfidenceNext ==
    \/ \E c \in Rated, s \in Serving \cup {"candidate"}, given \in Lengths, against \in SUBSET Rated :
          Write(c, s, given, against)
    \/ \E row \in {"seeded", "namespace"}, length \in Days : SetPolicy(row, length)
    \/ \E g \in Judgements, c \in Rated : Judge(g, c)
    \/ \E c \in Rated : Deciding(c)
    \/ \E C \in SUBSET Rated :
          \/ \E ruling \in [C -> Serving \cup Out \cup {"candidate"}] : Resolve(ruling)
          \/ \E chosen \in {{}} \cup {{c} : c \in C} : MarkDisputed(C, chosen)
    \/ \E C \in {There} \cup {{c} : c \in Rated} : Recompute(C)

-----------------------------------------------------------------------------
(* Properties.                                                             *)

\* What recall ranks a claim by counts every judgement about it and was computed
\* in the place that the claim has now, whatever disputes it joined and whoever
\* decided them.  Detection computes only the claim that was written, so the
\* other members of an open dispute, and what was overruled, may lag behind.
RankedByWhatIsKnown ==
    \A c \in There :
        /\ rated[c].judged = Judged(c)
        /\ rated[c].place = Place(c) \/ c \in disputed \cup overruled

\* A claim that was written without a half-life decays by the policy in force,
\* once it is computed after the policy was set.
PoliciesReachClaims ==
    \A c \in plain \cap current :
        rated[c].half = IF policy.namespace # "none" THEN policy.namespace ELSE policy.seeded
=============================================================================
