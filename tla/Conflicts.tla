------------------------------ MODULE Conflicts ------------------------------
(***************************************************************************)
(* The lifecycle of the claims of one slot (a namespace, a subject and a   *)
(* predicate) and the conflict engine: claims are written, promoted,       *)
(* demoted, judged by feedback, scoped and curated; detection groups those *)
(* that contradict or repeat each other into families; resolution decides  *)
(* a family.                                                               *)
(*                                                                         *)
(* Every method is one transaction and one action, the detection that      *)
(* write_claim ends with included; only curate lists claims first and      *)
(* decides them one by one.  Values never change; confidence only opens or *)
(* closes a branch, so it is a nondeterministic choice.                    *)
(***************************************************************************)
EXTENDS Naturals, FiniteSets

CONSTANTS
    Claims,       \* claim ids of the slot
    ValueOf,      \* the object of each claim
    Scopes,       \* scopes that exclude each other: contexts or periods; a scope
                  \* without any condition, which always applies, is left out
    NoClaim,      \* no claim
    NoScope,      \* no scope
    MaxFamilies,  \* bound: conflict families of the slot
    Operations    \* bound: the optional operations of an instance

ASSUME ConflictsAssumption ==
    /\ NoClaim \notin Claims
    /\ NoScope \notin Scopes
    /\ MaxFamilies \in Nat

FamilyIds == 1..MaxFamilies

VARIABLES
    status,     \* claims.status, or "absent"
    scopes,     \* claim_scopes: the scopes recorded for each claim
    family,     \* conflict_families, in the order of their creation
    multi,      \* predicate_semantics: is the predicate multivalued
    plan,       \* what a curation in progress decided for each claim
    unchecked,  \* ghost: claims that became detectable since the last detection
    byHand      \* ghost: claims that feedback or a demotion marked disputed

vars == <<status, scopes, family, multi, plan, unchecked, byHand>>

Statuses == {"absent", "candidate", "active", "core", "disputed",
             "superseded", "rejected", "archived"}
Serving == {"active", "core"}
Detectable == {"active", "core", "disputed"}
Promotions == {"active", "core"}
Demotions == {"candidate", "disputed", "superseded", "archived", "rejected"}

NoFamily ==
    [kind |-> "none", status |-> "absent", members |-> {}, active |-> NoClaim,
     assigned |-> [c \in Claims |-> NoScope], decided |-> FALSE]

NewFamily(kind) == [NoFamily EXCEPT !.kind = kind, !.status = "unresolved"]

Init ==
    /\ status = [c \in Claims |-> "absent"]
    /\ scopes = [c \in Claims |-> {}]
    /\ family = [f \in FamilyIds |-> NoFamily]
    /\ multi \in BOOLEAN
    /\ plan = [c \in Claims |-> "none"]
    /\ unchecked = {}
    /\ byHand = {}

Exists(c) == status[c] # "absent"

\* _has_unresolved_conflicts, of any kind of family.
InOpenFamily(c, families) ==
    \E f \in FamilyIds : families[f].status = "unresolved" /\ c \in families[f].members

\* _set_claim_status for any number of claims, and what it does to the ghosts;
\* hand are the claims a person disputes.
Becomes(new, hand) ==
    /\ status' = new
    /\ unchecked' = unchecked \cup
                    {c \in Claims : new[c] \in Detectable /\ status[c] \notin Detectable}
    /\ byHand' = {c \in byHand \cup hand : new[c] = "disputed"}

\* "core" if it was, "active" otherwise.
Activated(c) == IF status[c] = "core" THEN "core" ELSE "active"

-----------------------------------------------------------------------------
(* Detection.                                                              *)

\* _approved_scope_pairs: a resolution gave c and d separate scopes, and each
\* of them has exactly the scope it was given.
Approved(c, d) ==
    \E f \in FamilyIds :
        /\ family[f].status = "scoped"
        /\ {c, d} \subseteq family[f].members
        /\ scopes[c] = {family[f].assigned[c]}
        /\ scopes[d] = {family[f].assigned[d]}
        /\ family[f].assigned[c] # family[f].assigned[d]

\* A mutated form of Opposed: claims in dispute are not compared again.
OpposedServing(c, d, st) ==
    /\ ~multi
    /\ {st[c], st[d]} \subseteq Serving
    /\ ValueOf[c] # ValueOf[d]
    /\ ~Approved(c, d)

\* c and d contradict each other when the statuses are st.
Opposed(c, d, st) ==
    /\ ~multi
    /\ {st[c], st[d]} \subseteq Detectable
    /\ ValueOf[c] # ValueOf[d]
    /\ ~Approved(c, d)

\* Every connected component of the opposed claims joins the same family.
Disputants(st) == {c \in Claims : \E d \in Claims : Opposed(c, d, st)}

Duplicates(st) ==
    {c \in Claims : \E d \in Claims \ {c} :
        {st[c], st[d]} \subseteq Detectable /\ ValueOf[c] = ValueOf[d]}

OpenFamilies(kind) ==
    {f \in FamilyIds : family[f].status = "unresolved" /\ family[f].kind = kind}

\* A mutated form of Target: a new family for every detection.
TargetAlwaysNew(kind, f, taken) ==
    /\ kind # "none"
    /\ family[f].status = "absent" /\ f \notin taken
    /\ \A g \in FamilyIds : g < f => (family[g].status # "absent" \/ g \in taken)

\* _create_or_update_conflict: the newest open family of the kind, whatever
\* its members, or a new one.
Target(kind, f, taken) ==
    IF OpenFamilies(kind) # {}
    THEN f \in OpenFamilies(kind) /\ \A g \in OpenFamilies(kind) : g <= f
    ELSE /\ family[f].status = "absent" /\ f \notin taken
         /\ \A g \in FamilyIds : g < f => (family[g].status # "absent" \/ g \in taken)

Joined(f, kind, new) ==
    LET row == IF family[f].status = "absent" THEN NewFamily(kind) ELSE family[f]
    IN  [row EXCEPT !.members = @ \cup new]

\* Core claims join a dispute and stay core.
Disputing(st) ==
    [c \in Claims |-> IF c \in Disputants(st) /\ st[c] # "core" THEN "disputed" ELSE st[c]]

\* detect_conflicts of the slot, in the transaction that made its statuses st.
Detect(st) ==
    \E df, uf \in FamilyIds \cup {0} :
        /\ IF Disputants(st) = {} THEN df = 0 ELSE df # 0 /\ Target("dispute", df, {})
        /\ IF Duplicates(st) = {} THEN uf = 0 ELSE uf # 0 /\ Target("duplicate", uf, {df})
        /\ status' = Disputing(st)
        /\ family' = [f \in FamilyIds |->
                        IF f = df THEN Joined(f, "dispute", Disputants(st))
                        ELSE IF f = uf THEN Joined(f, "duplicate", Duplicates(st))
                        ELSE family[f]]
        /\ unchecked' = {}
        /\ byHand' = byHand \ Disputants(st)

DetectConflicts ==
    /\ Detect(status)
    /\ UNCHANGED <<scopes, multi, plan>>

-----------------------------------------------------------------------------
(* Writing a claim.                                                        *)

\* A claim written as a candidate is not compared with anything.
WriteCandidate(c) ==
    /\ status[c] = "absent"
    /\ Becomes([status EXCEPT ![c] = "candidate"], {})
    /\ UNCHANGED <<scopes, family, multi, plan>>

\* A claim written active or core is compared in the same transaction.
WriteServing(c, s) ==
    /\ status[c] = "absent"
    /\ Detect([status EXCEPT ![c] = s])
    /\ UNCHANGED <<scopes, multi, plan>>

-----------------------------------------------------------------------------
(* Decisions about one claim.                                              *)

\* _promotion_failures is empty, as far as the lifecycle is concerned.
Promotable(c) ==
    /\ status[c] \notin {"absent", "rejected", "superseded"}
    /\ ~InOpenFamily(c, family)

PromoteClaim(c, target, force) ==
    /\ "promote" \in Operations /\ Exists(c)
    /\ force \/ Promotable(c)
    /\ Becomes([status EXCEPT ![c] = target], {})
    /\ UNCHANGED <<scopes, family, multi, plan>>

DemoteClaim(c, target) ==
    /\ "demote" \in Operations /\ Exists(c)
    /\ Becomes([status EXCEPT ![c] = target],
               IF status[c] = "disputed" THEN {} ELSE {c})
    /\ UNCHANGED <<scopes, family, multi, plan>>

SupersedeClaim(old, new) ==
    /\ "supersede" \in Operations /\ Exists(old) /\ Exists(new)
    /\ Becomes([status EXCEPT ![old] = "superseded"], {})
    /\ UNCHANGED <<scopes, family, multi, plan>>

\* The status a signal asks for: "confirmed" and "verified" activate a
\* candidate, "wrong" rejects or disputes, "contradicted" disputes.
Judgements(c) ==
    {"rejected", "disputed"} \cup IF status[c] = "candidate" THEN {"active"} ELSE {}

\* feedback never changes the status of a core claim, and finds no family.
Feedback(c) ==
    /\ "feedback" \in Operations /\ Exists(c) /\ status[c] # "core"
    /\ \E s \in Judgements(c) :
         Becomes([status EXCEPT ![c] = s], IF status[c] = "disputed" THEN {} ELSE {c})
    /\ UNCHANGED <<scopes, family, multi, plan>>

ScopeClaim(c, s) ==
    /\ "scope" \in Operations /\ Exists(c)
    /\ scopes' = [scopes EXCEPT ![c] = @ \cup {s}]
    /\ Becomes([status EXCEPT ![c] =
                  IF @ = "disputed" /\ ~InOpenFamily(c, family) THEN "active" ELSE @], {})
    /\ UNCHANGED <<family, multi, plan>>

\* A declaration changes no claim and no family; nothing is detected again.
SetPredicateSemantics ==
    /\ "semantics" \in Operations
    /\ multi' = ~multi
    /\ unchecked' = {c \in Claims : Exists(c)}
    /\ UNCHANGED <<status, scopes, family, plan, byHand>>

-----------------------------------------------------------------------------
(* Resolving a family.                                                     *)

\* The family after a decision; given are the scopes that it hands out.
Decided(f, verdict, chosen, given) ==
    [kind |-> family[f].kind, status |-> verdict, members |-> family[f].members,
     active |-> chosen, decided |-> TRUE,
     assigned |-> [c \in Claims |-> IF c \in DOMAIN given THEN given[c] ELSE NoScope]]

Unscoped == [c \in {} |-> NoScope]

WithScopes(given) ==
    [c \in Claims |-> IF c \in DOMAIN given THEN scopes[c] \cup {given[c]} ELSE scopes[c]]

\* The selected claim: one the caller or the strategy names, or the one an
\* earlier resolution of the family chose.
Selections(f) ==
    family[f].members \cup IF family[f].active = NoClaim THEN {NoClaim} ELSE {}

\* _scope_claim_in_transaction: a disputed claim that no open family holds
\* becomes active.
Reactivated(c, families) ==
    IF status[c] = "disputed" /\ ~InOpenFamily(c, families) THEN "active" ELSE status[c]

\* The strategies that pick a winner, and "manual": a member is chosen,
\* superseded, kept with a scope or rejected, the core ones included.  Where
\* the caller supersedes nobody, all but the chosen one are.  The scopes of
\* those that are kept are not compared with each other.
Settle(f, kept) ==
    /\ family[f].status # "absent"
    /\ \E chosen \in Selections(f), superseded \in SUBSET family[f].members,
          verdict \in {"resolved", "rejected"} :
       \E given \in [kept -> Scopes] :
         /\ ({chosen} \cup kept) \cap superseded = {}
         /\ (chosen # NoClaim /\ superseded = {}) => kept \subseteq {chosen}
         /\ verdict = "rejected" => chosen # NoClaim /\ superseded = {}
         /\ family' = [family EXCEPT ![f] = Decided(f, verdict, chosen, given)]
         /\ Becomes([c \in Claims |->
                       IF c = chosen THEN Activated(c)
                       ELSE IF c \in superseded THEN "superseded"
                       ELSE IF c \in kept THEN Reactivated(c, family')
                       ELSE IF c \in family[f].members THEN "rejected"
                       ELSE status[c]], {})
         /\ scopes' = WithScopes(given)
    /\ UNCHANGED <<multi, plan>>

\* context_scope and time_scope: every member gets a scope, members with
\* different values different ones.
ScopeMembers(f) ==
    /\ family[f].status # "absent"
    /\ \E chosen \in Selections(f), given \in [family[f].members -> Scopes] :
         /\ \A c, d \in family[f].members : ValueOf[c] # ValueOf[d] => given[c] # given[d]
         /\ family' = [family EXCEPT ![f] = Decided(f, "scoped", chosen, given)]
         /\ Becomes([c \in Claims |->
                       IF c = chosen THEN Activated(c)
                       ELSE IF c \in family[f].members THEN Reactivated(c, family')
                       ELSE status[c]], {})
         /\ scopes' = WithScopes(given)
    /\ UNCHANGED <<multi, plan>>

\* mark_unresolved re-opens the family and activates what it had chosen.
MarkUnresolved(f) ==
    /\ family[f].status # "absent"
    /\ family' = [family EXCEPT ![f] = Decided(f, "unresolved", @.active, Unscoped)]
    /\ Becomes([c \in Claims |-> IF c = family[f].active THEN Activated(c) ELSE status[c]], {})
    /\ UNCHANGED <<scopes, multi, plan>>

Coexist(f) ==
    /\ multi /\ family[f].status # "absent"
    /\ family' = [family EXCEPT ![f] = Decided(f, "resolved", NoClaim, Unscoped)]
    /\ Becomes([c \in Claims |-> IF c \in family[f].members THEN Activated(c) ELSE status[c]], {})
    /\ UNCHANGED <<scopes, multi, plan>>

ResolveConflict(f) ==
    \/ \E kept \in SUBSET family[f].members : Settle(f, kept)
    \/ ScopeMembers(f) \/ MarkUnresolved(f) \/ Coexist(f)

-----------------------------------------------------------------------------
(* Curation: a listing, then one transaction per decision.                 *)

Suggestions(c) ==
    IF \E f \in FamilyIds : /\ family[f].status = "unresolved"
                            /\ family[f].kind = "duplicate" /\ c \in family[f].members
    THEN {"none"}
    ELSE CASE status[c] = "candidate" -> {"none", "active", "archived"}
           [] status[c] = "active"    -> {"none", "core", "archived"}
           [] OTHER                   -> {"none"}

Curate ==
    /\ "curate" \in Operations
    /\ \A c \in Claims : plan[c] = "none"
    /\ plan' \in [Claims -> {"none", "active", "core", "archived"}]
    /\ \A c \in Claims : plan'[c] \in Suggestions(c)
    /\ plan' # plan
    /\ UNCHANGED <<status, scopes, family, multi, unchecked, byHand>>

\* promote_claim tests the claim again; demote_claim does not.
CurateClaim(c) ==
    /\ plan[c] # "none"
    /\ plan' = [plan EXCEPT ![c] = "none"]
    /\ IF plan[c] = "archived" \/ Promotable(c)
       THEN Becomes([status EXCEPT ![c] = plan[c]], {})
       ELSE UNCHANGED <<status, unchecked, byHand>>
    /\ UNCHANGED <<scopes, family, multi>>

-----------------------------------------------------------------------------
\* What the routes of claims and conflicts offer about one claim.
ClaimStep(c) ==
    \/ WriteCandidate(c)
    \/ \E s \in Serving : WriteServing(c, s)
    \/ \E s \in Promotions, force \in BOOLEAN : PromoteClaim(c, s, force)
    \/ \E s \in Demotions : DemoteClaim(c, s)
    \/ \E d \in Claims : SupersedeClaim(c, d)
    \/ Feedback(c)
    \/ \E s \in Scopes : ScopeClaim(c, s)
    \/ CurateClaim(c)

Next ==
    \/ \E c \in Claims : ClaimStep(c)
    \/ \E f \in FamilyIds : ResolveConflict(f)
    \/ DetectConflicts
    \/ SetPredicateSemantics
    \/ Curate

Spec == Init /\ [][Next]_vars

-----------------------------------------------------------------------------
(* Properties.                                                             *)

Families ==
    [kind : {"none", "dispute", "duplicate"},
     status : {"absent", "unresolved", "resolved", "rejected", "scoped"},
     members : SUBSET Claims, active : Claims \cup {NoClaim},
     assigned : [Claims -> Scopes \cup {NoScope}], decided : BOOLEAN]

TypeOK ==
    /\ status \in [Claims -> Statuses]
    /\ scopes \in [Claims -> SUBSET Scopes]
    /\ family \in [FamilyIds -> Families]
    /\ multi \in BOOLEAN
    /\ plan \in [Claims -> {"none", "active", "core", "archived"}]
    /\ unchecked \subseteq Claims
    /\ byHand \subseteq Claims

\* The members that the last decision about a family left in force: the one it
\* chose, and those it gave a scope.
LeftInForce(f) ==
    {c \in family[f].members : c = family[f].active \/ family[f].assigned[c] # NoScope}

\* The family waits for a decision about the two, or left both in force.
Records(f, c, d) ==
    /\ {c, d} \subseteq family[f].members
    /\ family[f].status = "unresolved" \/ {c, d} \subseteq LeftInForce(f)

\* No contradiction escapes: two claims with different values of an exclusive
\* predicate are both in force only if a family of both is open, or was decided
\* by leaving both in force, or if one of them came into force after the last
\* detection.  Whatever writers, resolutions, re-resolutions and decisions
\* about single claims came in between.
ContradictionsOnRecord ==
    \A c, d \in Claims :
        (/\ ~multi
         /\ {status[c], status[d]} \subseteq Detectable
         /\ ValueOf[c] # ValueOf[d]
         /\ {c, d} \cap unchecked = {})
        => \E f \in FamilyIds : Records(f, c, d)

\* A claim that the engine marked disputed is in an open family, so that some
\* resolution is still going to decide it.
DisputesHaveFamilies ==
    \A c \in Claims :
        (status[c] = "disputed" /\ c \notin byHand) => InOpenFamily(c, family)

\* Later assertions join the open dispute: there is at most one family of a
\* kind that waits for its first decision.
OneOpenDispute ==
    \A f, g \in FamilyIds :
        (/\ family[f].status = "unresolved" /\ ~family[f].decided
         /\ family[g].status = "unresolved" /\ ~family[g].decided
         /\ family[f].kind = family[g].kind)
        => f = g

\* An undecided dispute keeps its members, core ones excepted, out of recall.
OpenDisputesNotServed ==
    \A f \in FamilyIds :
        (/\ family[f].status = "unresolved" /\ family[f].kind = "dispute"
         /\ ~family[f].decided /\ ~multi)
        => \A c \in family[f].members : status[c] # "active"
=============================================================================
