----------------------------- MODULE MCConflicts -----------------------------
(* Instances of Conflicts and Recall for TLC.  A profile selects the       *)
(* operations of an instance, and how many claims it has: the product of   *)
(* them all is out of reach.                                               *)
EXTENDS Recall, TLC

CONSTANTS a, b, c, s1, s2

VARIABLE profile

\* a and c say the same, b contradicts them.
Repeated == (a :> "x") @@ (b :> "y") @@ (c :> "x")

Profiles == {"decisions", "repeated", "scopes", "recall"}

\* Three claims that are written in force, scoped and resolved once.
FirstDecisions ==
    /\ ~multi /\ \A i \in Claims : scopes'[i] = scopes[i] \/ scopes[i] = {}
    /\ \A i \in Claims : Exists(i) \/ status'[i] # "candidate"

\* One of the two claims that agree takes part, and what scopes claims only
\* where the profile is about scopes.  Packs are about two claims and scopes, in
\* a library, or three claims without, in a service.  They leave out nothing but
\* what the reader may not see, and begin with claims that differ unless a
\* period may end.
Bounded ==
    /\ \/ profile = "repeated" \/ (profile = "scopes" /\ FirstDecisions)
       \/ profile = "recall" /\ ~dated /\ \A i \in Claims : scopes'[i] = {}
       \/ "absent" \in {status'[a], status'[c]}
    /\ profile \notin {"scopes", "recall"} => UNCHANGED scopes

Reading ==
    /\ Cardinality({i \in Claims : Exists(i)}) >= 2
    /\ RecallStep /\ (pack.disturbed => pack'.phase # "reading")
    /\ LET there == {i \in Claims : status[i] # "absent"}
       IN  /\ pack'.hidden # {} => there = Claims /\ Cardinality(pack'.hidden) = 1
           /\ pack'.phase # "none" => pack'.service = (there = Claims)
           /\ pack.phase = "none" => dated \/ \E c1, c2 \in pack'.shown : ValueOf[c1] # ValueOf[c2]
    /\ pack'.asked \subseteq UNION {scopes[i] : i \in Claims} /\ Cardinality(pack'.asked) <= 1
    /\ pack'.phase = "done" => pack'.shown = pack.shown
    /\ \/ pack'.phase # "reading"
       \/ Eligible(IF pack.phase = "none" THEN pack'.asked ELSE {}, pack'.hidden) \subseteq pack'.shown

Deciding(i) ==
    \/ \E s \in Promotions, force \in BOOLEAN : PromoteClaim(i, s, force)
    \/ \E s \in Demotions : DemoteClaim(i, s)
    \/ \E j \in Claims : SupersedeClaim(i, j)
    \/ Feedback(i)

Writing(i) ==
    \/ profile # "recall" /\ WriteCandidate(i)
    \/ \E s \in Serving : WriteServing(i, s)

\* A manual decision hands out scopes only where there are none yet, no
\* periods where packs are made, and one scope where there are three claims.
Keepable(f) ==
    {kept \in SUBSET family[f].members :
        /\ profile \in {"scopes", "recall"} /\ ~dated
        /\ \A i \in Claims : scopes[i] = {}
        /\ family[f].members = Claims => Cardinality(kept) <= 1}

Resolving(f) ==
    /\ (profile = "scopes" /\ \A i \in Claims : Exists(i)) => ~family[f].decided
    /\ \/ \E kept \in Keepable(f) \cup {{}} : Settle(f, kept)
       \/ profile \in {"scopes", "recall"} /\ ScopeMembers(f)
       \/ MarkUnresolved(f) \/ Coexist(f)

\* A curation of one claim.
CurateOne ==
    /\ \E i \in Claims, s \in {"active", "core", "archived"} : plan' = [plan EXCEPT ![i] = s]
    /\ Curate

Governing ==
    \/ \E i \in Claims : Writing(i)
    \/ \E f \in FamilyIds : Resolving(f)
    \/ DetectConflicts
    \/ profile = "decisions" /\ \E i \in Claims : Deciding(i)
    \/ profile = "repeated" /\ SetPredicateSemantics
    \/ profile = "scopes" /\ \E i \in Claims, s \in Scopes : ScopeClaim(i, s)
    \/ profile = "decisions" /\ (CurateOne \/ \E i \in Claims : CurateClaim(i))

MCInit ==
    /\ RecallInit /\ profile \in Profiles
    /\ IF profile = "recall" THEN ~multi ELSE ~dated

\* A pack in the making is disturbed by a detection.  The bound is compared with
\* TRUE so that TLC does not branch on it.
MCNext ==
    \/ /\ pack.phase # "done" /\ ~pack.disturbed
       /\ IF pack.phase = "none" THEN Governing ELSE DetectConflicts
       /\ Bounded = TRUE /\ Meanwhile
    \/ profile = "recall" /\ Reading

MCSpec == MCInit /\ [][MCNext /\ UNCHANGED profile]_<<vars, recallVars, profile>>

Interchangeable == Permutations({a, c}) \cup Permutations(Scopes)
=============================================================================
