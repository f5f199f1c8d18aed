---------------------------- MODULE UpkeepProofs ----------------------------
(***************************************************************************)
(* Proofs about Confidence, Learning, Evaluations, Entities, Sessions and  *)
(* Tasks: for every number of claims, judgements, policies, knobs,         *)
(* procedures, proposals, evaluation runs and cases, names, sources,       *)
(* projects, sessions, statements, objects and inferences.                 *)
(*                                                                         *)
(* Confidence: a step computes every claim whose place or judgements it    *)
(* changes, puts it into the open dispute, or overrules it.                *)
(*                                                                         *)
(* Learning: the versions of a policy are a sequence of which one is       *)
(* marked, and the marks that an application or a rollback leaves are      *)
(* known whatever stood in it.  Evaluations: a stored run never changes    *)
(* and cases are only added, so the run that judged a version goes on      *)
(* covering the cases of the run that its proposal was made with.  Every   *)
(* step is one of Learning or leaves policies and procedures alone.        *)
(*                                                                         *)
(* Entities: an entity that was not merged has its name among its aliases, *)
(* and every name that nobody gave by hand is in the text of some source   *)
(* that mentions the entity.  Sessions: what a request makes is there from *)
(* the step that makes it.  Tasks: what a library has read of a target is  *)
(* what the target says, unless it read before the redaction.              *)
(***************************************************************************)
EXTENDS Confidence, Evaluations, Entities, Sessions, Tasks, FiniteSetTheorems, TLAPS

-----------------------------------------------------------------------------
(* Confidence.                                                             *)

ConfidenceSpec == ConfidenceInit /\ [][ConfidenceNext]_confidenceVars

RatedInv ==
    /\ judgement \in [Judgements -> Rated \cup {"none"}]
    /\ DOMAIN rated = Rated /\ DOMAIN standing = Rated /\ disputed \subseteq Rated
    /\ RankedByWhatIsKnown

\* A computation is of the present, and the claims that it leaves out are where
\* they were or in dispute.
LEMMA RateKeeps ==
    ASSUME RatedInv, NEW C \in SUBSET Rated, Rate(C), disputed' \subseteq Rated,
           judgement' \in [Judgements -> Rated \cup {"none"}], DOMAIN standing' = Rated,
           \A c \in Rated \ C : c \in disputed' \/ (standing'[c] = standing[c] /\ c \notin disputed),
           \A c \in Rated \ C : standing'[c] # "absent" => standing[c] # "absent",
           \A c \in Rated \ C : Judged(c)' = Judged(c)
    PROVE  RatedInv'
<1>1. DOMAIN rated' = Rated
  BY DEF Rate
<1>2. ASSUME NEW c \in Rated, standing'[c] # "absent"
      PROVE  /\ rated'[c].judged = Judged(c)'
             /\ rated'[c].place = Place(c)' \/ c \in disputed' \cup overruled'
  <2>1. CASE c \in C
    <3>1. rated'[c] = Inputs(c)'
      BY <2>1 DEF Rate
    <3> QED BY <3>1 DEF Inputs
  <2>2. CASE c \notin C
    <3>1. rated'[c] = rated[c] /\ (c \in overruled' <=> c \in overruled)
      BY <2>2 DEF Rate
    <3>2. /\ rated[c].judged = Judged(c)
          /\ rated[c].place = Place(c) \/ c \in disputed \cup overruled
      BY <1>2, <2>2 DEF RatedInv, RankedByWhatIsKnown, There
    <3>3. c \in disputed' \/ (c \notin disputed /\ Place(c)' = Place(c))
      BY <2>2 DEF Place
    <3> QED BY <2>2, <3>1, <3>2, <3>3
  <2> QED BY <2>1, <2>2
<1> QED BY <1>1, <1>2 DEF RatedInv, RankedByWhatIsKnown, There

\* A decision computes the claims that it rules about.
LEMMA RuledKeeps ==
    ASSUME RatedInv, NEW changes, NEW C \in SUBSET Rated, DOMAIN changes \subseteq C, Ruled(changes, C),
           disputed' = disputed \/ (disputed' \subseteq C /\ disputed \subseteq C)
    PROVE  RatedInv'
<1>1. /\ Rate(C) /\ judgement' = judgement /\ DOMAIN standing' = Rated
      /\ \A c \in Rated \ C : standing'[c] = standing[c]
  BY DEF Ruled
<1>2. \A c \in Rated : Judged(c)' = Judged(c)
  BY <1>1 DEF Judged
<1>3. judgement' \in [Judgements -> Rated \cup {"none"}] /\ disputed' \subseteq Rated
  BY <1>1 DEF RatedInv
<1>4. \A c \in Rated \ C : c \in disputed' \/ (standing'[c] = standing[c] /\ c \notin disputed)
  BY <1>1
<1> QED BY <1>1, <1>2, <1>3, <1>4, RateKeeps

LEMMA SingleChange == ASSUME NEW c, NEW s PROVE DOMAIN Only(c, s) = {c}
BY DEF Only

\* What is overruled may lag behind.
LEMMA OverruleKeeps == ASSUME RatedInv, NEW c \in Rated, NEW s, Overrule(c, s) PROVE RatedInv'
<1>1. /\ DOMAIN standing' = Rated /\ UNCHANGED <<disputed, judgement, rated>>
      /\ \A d \in Rated \ {c} : standing'[d] = standing[d]
      /\ overruled' = overruled \cup {c} /\ standing[c] # "absent"
  BY DEF Overrule, RatedInv, There
<1>2. \A d \in Rated : Judged(d)' = Judged(d)
  BY <1>1 DEF Judged
<1>3. \A d \in Rated \ {c} : Place(d)' = Place(d)
  BY <1>1 DEF Place
<1> QED BY <1>1, <1>2, <1>3 DEF RatedInv, RankedByWhatIsKnown, There

\* Policies compute nothing and decide nothing.
LEMMA UnratedKeeps ==
    RatedInv /\ UNCHANGED <<standing, disputed, judgement, rated, overruled>> => RatedInv'
BY DEF RatedInv, RankedByWhatIsKnown, There, Judged, Place

\* Decisions about one claim.
LEMMA DecidingKeeps == ASSUME RatedInv, NEW c \in Rated, Deciding(c) PROVE RatedInv'
<1>1. ASSUME NEW s, NEW force \in BOOLEAN, Promote(c, s, force) PROVE RatedInv'
  BY <1>1, RuledKeeps, SingleChange DEF Promote
<1>2. ASSUME NEW s, Demote(c, s) PROVE RatedInv'
  BY <1>2, RuledKeeps, SingleChange DEF Demote
<1>3. ASSUME NEW d \in Rated, Supersede(c, d) PROVE RatedInv'
  <2>1. PICK C \in SUBSET Rated : C = {c, d}
    OBVIOUS
  <2>2. PICK changes : changes = Only(c, "superseded")
    OBVIOUS
  <2>3. Ruled(changes, C) /\ disputed' = disputed
    BY <1>3, <2>1, <2>2 DEF Supersede
  <2>4. DOMAIN changes \subseteq C
    BY <2>1, <2>2 DEF Only
  <2> QED BY <2>3, <2>4, RuledKeeps
<1>4. ASSUME Scope(c) PROVE RatedInv'
  <2>1. PICK s : s = IF standing[c] = "disputed" /\ c \notin disputed THEN "active" ELSE standing[c]
    OBVIOUS
  <2>2. Ruled(Only(c, s), {c}) /\ disputed' = disputed
    BY <1>4, <2>1 DEF Scope
  <2> QED BY <2>2, RuledKeeps, SingleChange
<1>5. ASSUME Curate(c) PROVE RatedInv'
  BY <1>1, <1>2, <1>5 DEF Curate
<1>6. ASSUME NEW s, Overrule(c, s) PROVE RatedInv'
  BY <1>6, OverruleKeeps
<1> QED BY <1>1, <1>2, <1>3, <1>4, <1>5, <1>6 DEF Deciding

LEMMA RatedStep == RatedInv /\ [ConfidenceNext]_confidenceVars => RatedInv'
<1> SUFFICES ASSUME RatedInv, [ConfidenceNext]_confidenceVars PROVE RatedInv'
  OBVIOUS
<1>1. ASSUME NEW c \in Rated, NEW s, NEW half, NEW against \in SUBSET Rated, Write(c, s, half, against)
      PROVE  RatedInv'
  <2>1. /\ Rate({c}) /\ judgement' = judgement /\ disputed' \subseteq Rated /\ DOMAIN standing' = Rated
    BY <1>1 DEF Write, RatedInv
  <2>2. \A d \in Rated \ {c} : d \in disputed' \/ (standing'[d] = standing[d] /\ d \notin disputed)
    BY <1>1 DEF Write, RatedInv
  <2>3. \A d \in Rated \ {c} : standing'[d] # "absent" => standing[d] # "absent"
    BY <1>1 DEF Write, RatedInv, Serving
  <2>4. \A d \in Rated : Judged(d)' = Judged(d)
    BY <2>1 DEF Judged
  <2>5. judgement' \in [Judgements -> Rated \cup {"none"}]
    BY <2>1 DEF RatedInv
  <2> QED BY <2>1, <2>2, <2>3, <2>4, <2>5, RateKeeps
<1>2. ASSUME NEW row, NEW length, SetPolicy(row, length) PROVE RatedInv'
  BY <1>2, UnratedKeeps DEF SetPolicy
<1>3. ASSUME NEW g \in Judgements, NEW c \in Rated, Judge(g, c) PROVE RatedInv'
  <2>1. /\ judgement' = [judgement EXCEPT ![g] = c] /\ judgement[g] = "none"
        /\ Rate({c}) /\ disputed' = disputed /\ DOMAIN standing' = Rated
        /\ \A d \in Rated \ {c} : standing'[d] = standing[d]
    BY <1>3 DEF Judge, RatedInv
  <2>2. judgement' \in [Judgements -> Rated \cup {"none"}]
    BY <2>1 DEF RatedInv
  <2>3. \A d \in Rated \ {c} : Judged(d)' = Judged(d)
    <3>1. \A d \in Rated \ {c}, h \in Judgements : judgement'[h] = d <=> judgement[h] = d
      BY <2>1, ConfidenceAssumption DEF RatedInv
    <3> QED BY <3>1 DEF Judged
  <2>4. disputed' \subseteq Rated /\ {c} \in SUBSET Rated
    BY <2>1 DEF RatedInv
  <2> QED BY <2>1, <2>2, <2>3, <2>4, RateKeeps
<1>4. ASSUME NEW C \in SUBSET Rated PROVE
        /\ \A ruling \in [C -> Serving \cup Out \cup {"candidate"}] : Resolve(ruling) => RatedInv'
        /\ \A chosen : MarkDisputed(C, chosen) => RatedInv'
  <2>1. ASSUME NEW ruling \in [C -> Serving \cup Out \cup {"candidate"}], Resolve(ruling) PROVE RatedInv'
    <3>1. Ruled(ruling, C) /\ disputed' \subseteq C /\ disputed \subseteq C /\ DOMAIN ruling \subseteq C
      BY <2>1 DEF Resolve, Family
    <3> QED BY <3>1, RuledKeeps
  <2>2. ASSUME NEW chosen, MarkDisputed(C, chosen) PROVE RatedInv'
    <3>1. PICK changes : changes = [c \in C \cap chosen |-> Restored(c)]
      OBVIOUS
    <3>2. Ruled(changes, C) /\ disputed' \subseteq C /\ disputed \subseteq C /\ DOMAIN changes \subseteq C
      BY <2>2, <3>1 DEF MarkDisputed, Family
    <3> QED BY <3>2, RuledKeeps
  <2> QED BY <2>1, <2>2
<1>5. ASSUME NEW C, Recompute(C) PROVE RatedInv'
  <2>1. /\ C \in SUBSET Rated /\ Rate(C) /\ UNCHANGED <<judgement, disputed, standing>>
    BY <1>5 DEF Recompute, There
  <2>2. /\ judgement' \in [Judgements -> Rated \cup {"none"}]
        /\ disputed' \subseteq Rated /\ DOMAIN standing' = Rated
    BY <2>1 DEF RatedInv
  <2>3. \A d \in Rated : Judged(d)' = Judged(d)
    BY <2>1 DEF Judged
  <2>4. \A d \in Rated \ C : d \in disputed' \/ (standing'[d] = standing[d] /\ d \notin disputed)
    BY <2>1
  <2>5. \A d \in Rated \ C : standing'[d] # "absent" => standing[d] # "absent"
    BY <2>1
  <2> QED BY <2>1, <2>2, <2>3, <2>4, <2>5, RateKeeps
<1>6. ASSUME UNCHANGED confidenceVars PROVE RatedInv'
  BY <1>6, UnratedKeeps DEF confidenceVars
<1> QED BY <1>1, <1>2, <1>3, <1>4, <1>5, <1>6, DecidingKeeps DEF ConfidenceNext

\* The stored confidence of a claim counts every judgement, and every decision
\* that a resolution, a promotion, a demotion or a scope made of the claim.
THEOREM ConfidenceIsCurrent == ConfidenceSpec => []RankedByWhatIsKnown
<1>1. ConfidenceInit => RatedInv
  BY DEF ConfidenceInit, RatedInv, RankedByWhatIsKnown, There
<1>2. RatedInv /\ [ConfidenceNext]_confidenceVars => RatedInv'
  BY RatedStep
<1>3. RatedInv => RankedByWhatIsKnown
  BY DEF RatedInv
<1> QED BY <1>1, <1>2, <1>3, PTL DEF ConfidenceSpec

-----------------------------------------------------------------------------
(* Adaptive memory.                                                        *)

Values == Proposals \cup {"initial"}
VersionStatuses == {"active", "superseded", "rolled_back"}
PolicyRow == [status : VersionStatuses, config : [Knobs -> Values], summary : {"none", "own", "proposal"}]
ProcedureRow == [status : VersionStatuses, text : Proposals]
Change == (UNION {[D -> Values] : D \in SUBSET Knobs}) \cup {<<>>}
ProposalRow == [target : Policies \cup Procedures \cup Titles,
                status : {"pending_review", "approved", "rejected", "applied"},
                change : Change, passed : BOOLEAN]
ClaimRow == [status : {"active", "archived", "deleted"}, text : Values \cup {"original", "redacted", "none"},
             index : Values \cup {"original", "redacted", "none"}]

LearningTypeOK ==
    /\ policyVersion \in [Policies -> Seq(PolicyRow)]
    /\ activeVersion \in [Policies -> Nat]
    /\ proposal \in [Proposals -> {NoProposal} \cup ProposalRow]
    /\ procedureVersion \in [Procedures \cup Titles -> Seq(ProcedureRow)]
    /\ procedureClaim \in [Procedures -> ClaimRow]

LearningInv == LearningTypeOK /\ OneVersionInForce

\* The versions that are marked active.
Marked(versions) == {v \in DOMAIN versions : versions[v].status = "active"}

Replaced(s, a, new) == Append([s EXCEPT ![a].status = "superseded"], new)
Recalled(s, a, v) == [[s EXCEPT ![a].status = "rolled_back"] EXCEPT ![v].status = "active"]

\* A new version comes in force and the one before goes out.
LEMMA MarkedAppended ==
    ASSUME NEW s \in Seq(PolicyRow), NEW a, Marked(s) = {a}, NEW new \in PolicyRow, new.status = "active"
    PROVE  /\ Replaced(s, a, new) \in Seq(PolicyRow) /\ Len(Replaced(s, a, new)) = Len(s) + 1
           /\ Marked(Replaced(s, a, new)) = {Len(s) + 1}
           /\ \A v \in DOMAIN s : Replaced(s, a, new)[v].summary = s[v].summary
           /\ Replaced(s, a, new)[Len(s) + 1] = new
<1> DEFINE row == [s[a] EXCEPT !.status = "superseded"]
           r == [s EXCEPT ![a] = row]
           t == Append(r, new)
<1>1. a \in DOMAIN s /\ s[a] \in PolicyRow
  BY DEF Marked
<1>2. row \in PolicyRow /\ row.status = "superseded" /\ row.summary = s[a].summary
  BY <1>1 DEF PolicyRow, VersionStatuses
<1> HIDE DEF row
<1>3. /\ r \in Seq(PolicyRow) /\ Len(r) = Len(s) /\ DOMAIN r = DOMAIN s
      /\ r[a] = row /\ \A v \in DOMAIN s \ {a} : r[v] = s[v]
  BY <1>1, <1>2
<1> HIDE DEF r
<1>4. /\ t \in Seq(PolicyRow) /\ Len(t) = Len(s) + 1 /\ DOMAIN t = DOMAIN s \cup {Len(s) + 1}
      /\ \A v \in DOMAIN s : t[v] = r[v]
      /\ t[Len(s) + 1] = new
  BY <1>3
<1>5. \A v \in DOMAIN s : v # Len(s) + 1
  OBVIOUS
<1> HIDE DEF t
<1>6. Marked(t) \subseteq {Len(s) + 1}
  <2> SUFFICES ASSUME NEW v \in DOMAIN s, t[v].status = "active" PROVE FALSE
    BY <1>4 DEF Marked
  <2>1. t[v] = r[v]
    BY <1>4
  <2>2. v # a
    BY <1>2, <1>3, <2>1
  <2>3. v \in Marked(s)
    BY <1>3, <2>1, <2>2 DEF Marked
  <2> QED BY <2>2, <2>3
<1>7. Len(s) + 1 \in Marked(t)
  BY <1>4 DEF Marked
<1>8. \A v \in DOMAIN s : t[v].summary = s[v].summary
  BY <1>2, <1>3, <1>4
<1>9. t = Replaced(s, a, new)
  BY DEF t, r, row, Replaced
<1> QED BY <1>4, <1>6, <1>7, <1>8, <1>9

\* Any version comes in force again and the one in force goes out.
LEMMA MarkedRolledBack ==
    ASSUME NEW s \in Seq(PolicyRow), NEW a, Marked(s) = {a}, NEW v \in DOMAIN s
    PROVE  /\ Recalled(s, a, v) \in Seq(PolicyRow) /\ Len(Recalled(s, a, v)) = Len(s)
           /\ Marked(Recalled(s, a, v)) = {v}
           /\ \A w \in DOMAIN s : Recalled(s, a, v)[w].summary = s[w].summary
<1> DEFINE row == [s[a] EXCEPT !.status = "rolled_back"]
           r == [s EXCEPT ![a] = row]
           back == [r[v] EXCEPT !.status = "active"]
           t == [r EXCEPT ![v] = back]
<1>1. a \in DOMAIN s /\ s[a] \in PolicyRow
  BY DEF Marked
<1>2. row \in PolicyRow /\ row.status = "rolled_back" /\ row.summary = s[a].summary
  BY <1>1 DEF PolicyRow, VersionStatuses
<1> HIDE DEF row
<1>3. /\ r \in Seq(PolicyRow) /\ Len(r) = Len(s) /\ DOMAIN r = DOMAIN s
      /\ r[a] = row /\ \A w \in DOMAIN s \ {a} : r[w] = s[w]
  BY <1>1, <1>2
<1> HIDE DEF r
<1>4. r[v] \in PolicyRow
  BY <1>3
<1>5. back \in PolicyRow /\ back.status = "active" /\ back.summary = r[v].summary
  BY <1>4 DEF PolicyRow, VersionStatuses
<1> HIDE DEF back
<1>6. /\ t \in Seq(PolicyRow) /\ Len(t) = Len(s) /\ DOMAIN t = DOMAIN s
      /\ t[v] = back /\ \A w \in DOMAIN s \ {v} : t[w] = r[w]
  BY <1>3, <1>5
<1> HIDE DEF t
<1>7. Marked(t) \subseteq {v}
  <2> SUFFICES ASSUME NEW w \in DOMAIN s, w # v, t[w].status = "active" PROVE FALSE
    BY <1>6 DEF Marked
  <2>1. t[w] = r[w]
    BY <1>6
  <2>2. w # a
    BY <1>2, <1>3, <2>1
  <2>3. w \in Marked(s)
    BY <1>3, <2>1, <2>2 DEF Marked
  <2> QED BY <2>2, <2>3
<1>8. v \in Marked(t)
  BY <1>5, <1>6 DEF Marked
<1>9. \A w \in DOMAIN s : t[w].summary = s[w].summary
  BY <1>2, <1>3, <1>5, <1>6
<1>10. t = Recalled(s, a, v)
  BY DEF t, r, row, back, Recalled
<1> QED BY <1>6, <1>7, <1>8, <1>9, <1>10

\* The first version of each policy is in force, and no procedure has one.
LEMMA LearningInitInv == LearningInit => LearningInv
<1> SUFFICES ASSUME LearningInit PROVE LearningInv
  OBVIOUS
<1> DEFINE first == [status |-> "active", config |-> [k \in Knobs |-> "initial"], summary |-> "none"]
<1>1. first \in PolicyRow
  BY DEF PolicyRow, Values, VersionStatuses
<1>2. first.status = "active"
  OBVIOUS
<1> HIDE DEF first
<1>3. << first >> \in Seq(PolicyRow) /\ DOMAIN << first >> = {1} /\ << first >>[1] = first
  BY <1>1
<1>4. policyVersion = [q \in Policies |-> << first >>] /\ activeVersion = [q \in Policies |-> 1]
  BY DEF LearningInit, first
<1>5. policyVersion \in [Policies -> Seq(PolicyRow)] /\ activeVersion \in [Policies -> Nat] /\ PolicyVersionsInForce
  BY <1>2, <1>3, <1>4 DEF PolicyVersionsInForce
<1>6. /\ procedureVersion = [c \in Procedures \cup Titles |-> <<>>]
      /\ procedureClaim = [c \in Procedures |-> [status |-> "active", text |-> "original", index |-> "original"]]
      /\ proposal = [p \in Proposals |-> NoProposal]
  BY DEF LearningInit
<1>7. /\ procedureVersion \in [Procedures \cup Titles -> Seq(ProcedureRow)]
      /\ procedureClaim \in [Procedures -> ClaimRow]
      /\ proposal \in [Proposals -> {NoProposal} \cup ProposalRow]
  BY <1>6 DEF ClaimRow
<1>8. ProcedureVersionsInForce
  BY <1>6 DEF ProcedureVersionsInForce, InForce
<1> QED BY <1>5, <1>7, <1>8 DEF LearningInv, LearningTypeOK, OneVersionInForce

-----------------------------------------------------------------------------
(* Proposals.                                                              *)

\* A proposal that is written or reviewed leaves the versions alone.
LEMMA ProposalTyped ==
    ASSUME LearningInv, UNCHANGED <<policyVersion, activeVersion, procedureVersion, procedureClaim>>,
           proposal' \in [Proposals -> {NoProposal} \cup ProposalRow]
    PROVE  LearningInv'
BY DEF LearningInv, LearningTypeOK, OneVersionInForce, PolicyVersionsInForce, ProcedureVersionsInForce, InForce

LEMMA WrittenTyped ==
    ASSUME LearningInv, NEW p \in Proposals, NEW target \in Policies \cup Procedures \cup Titles,
           NEW status \in {"pending_review", "approved"}, NEW change \in Change, NEW passed \in BOOLEAN,
           Written(p, target, status, change, passed)
    PROVE  proposal' \in [Proposals -> {NoProposal} \cup ProposalRow]
<1>1. [target |-> target, status |-> status, change |-> change, passed |-> passed] \in ProposalRow
  BY DEF ProposalRow
<1> QED BY <1>1 DEF Written, LearningInv, LearningTypeOK

LEMMA ProposeKeeps ==
    ASSUME LearningInv, NEW p \in Proposals, NEW passed \in BOOLEAN,
           \/ \E q \in Policies, knobs \in (SUBSET Knobs) \ {{}} : ProposePolicy(p, q, knobs, passed)
           \/ \E v \in Nat, k \in Knobs : OptimizeRetrieval(p, v, k, passed)
           \/ \E c \in Procedures \cup Titles, status \in {"pending_review", "approved"} :
                ProposeProcedure(p, c, status)
    PROVE  LearningInv'
<1>1. ASSUME NEW q \in Policies, NEW knobs \in SUBSET Knobs, ProposePolicy(p, q, knobs, passed)
      PROVE  LearningInv'
  <2>1. [k \in knobs |-> p] \in Change
    BY DEF Change, Values
  <2> QED BY <1>1, <2>1, WrittenTyped, ProposalTyped DEF ProposePolicy
<1>2. ASSUME NEW v, NEW k \in Knobs, OptimizeRetrieval(p, v, k, passed) PROVE LearningInv'
  <2> DEFINE base == policyVersion["ranking"][v].config
             change == [base EXCEPT ![k] = p]
  <2>1. /\ "ranking" \in Policies /\ v \in DOMAIN policyVersion["ranking"]
        /\ Written(p, "ranking", "pending_review", change, passed)
        /\ UNCHANGED <<policyVersion, activeVersion, procedureVersion, procedureClaim>>
    BY <1>2 DEF OptimizeRetrieval
  <2>2. policyVersion["ranking"][v] \in PolicyRow
    BY <2>1 DEF LearningInv, LearningTypeOK
  <2>3. base \in [Knobs -> Values]
    BY <2>2 DEF PolicyRow
  <2> HIDE DEF base
  <2>4. change \in [Knobs -> Values]
    BY <2>3 DEF Values
  <2>5. change \in Change
    BY <2>4 DEF Change
  <2> HIDE DEF change
  <2> QED BY <2>1, <2>5, WrittenTyped, ProposalTyped
<1>3. ASSUME NEW c \in Procedures \cup Titles, NEW status \in {"pending_review", "approved"},
             ProposeProcedure(p, c, status)
      PROVE  LearningInv'
  <2>1. <<>> \in Change
    BY DEF Change
  <2>2. Written(p, c, status, <<>>, FALSE)
    BY <1>3 DEF ProposeProcedure
  <2>3. proposal' \in [Proposals -> {NoProposal} \cup ProposalRow]
    BY <2>1, <2>2, WrittenTyped
  <2> QED BY <1>3, <2>3, ProposalTyped DEF ProposeProcedure
<1> QED BY <1>1, <1>2, <1>3

LEMMA ReviewKeeps ==
    ASSUME LearningInv, NEW p \in Proposals, NEW decision, ReviewProposal(p, decision)
    PROVE  LearningInv'
<1> DEFINE status == CASE decision = "approve" -> "approved" [] decision = "reject" -> "rejected"
                       [] OTHER -> "pending_review"
<1>1. /\ proposal[p].status = "pending_review" /\ proposal' = [proposal EXCEPT ![p].status = status]
      /\ UNCHANGED <<policyVersion, activeVersion, procedureVersion, procedureClaim>>
  BY DEF ReviewProposal
<1>2. status \in {"approved", "rejected", "pending_review"}
  OBVIOUS
<1> HIDE DEF status
<1>3. proposal[p] \in ProposalRow
  BY <1>1 DEF LearningInv, LearningTypeOK, NoProposal
<1>4. [proposal[p] EXCEPT !.status = status] \in ProposalRow
  BY <1>2, <1>3 DEF ProposalRow
<1>5. proposal' \in [Proposals -> {NoProposal} \cup ProposalRow]
  BY <1>1, <1>4 DEF LearningInv, LearningTypeOK
<1> QED BY <1>1, <1>5, ProposalTyped

LEMMA AppliedTyped ==
    ASSUME LearningInv, NEW p \in Proposals, proposal[p].status = "approved",
           proposal' = [proposal EXCEPT ![p].status = "applied"]
    PROVE  proposal' \in [Proposals -> {NoProposal} \cup ProposalRow] /\ proposal[p] \in ProposalRow
<1>1. proposal[p] \in ProposalRow
  BY DEF LearningInv, LearningTypeOK, NoProposal
<1>2. [proposal[p] EXCEPT !.status = "applied"] \in ProposalRow
  BY <1>1 DEF ProposalRow
<1> QED BY <1>1, <1>2 DEF LearningInv, LearningTypeOK

-----------------------------------------------------------------------------
(* Policies.                                                               *)

\* What comes of the versions of a policy when a proposal is applied.
LEMMA ApplyPolicyDoes ==
    ASSUME LearningInv, NEW p \in Proposals, NEW gated \in BOOLEAN, ApplyPolicy(p, gated)
    PROVE  LET q == proposal[p].target
               old == policyVersion[q]
               new == policyVersion'[q]
           IN  /\ q \in Policies /\ proposal[p] \in ProposalRow
               /\ policyVersion' = [policyVersion EXCEPT ![q] = new]
               /\ new \in Seq(PolicyRow) /\ Len(new) = Len(old) + 1 /\ Marked(new) = {Len(old) + 1}
               /\ \A v \in DOMAIN old : new[v].summary = old[v].summary
               /\ new[Len(old) + 1].summary = IF gated THEN "own" ELSE IF proposal[p].passed THEN "proposal" ELSE "none"
               /\ activeVersion' = [activeVersion EXCEPT ![q] = Len(old) + 1]
<1> DEFINE q == proposal[p].target
           base == policyVersion[q][activeVersion[q]].config
           change == proposal[p].change
           config == [k \in Knobs |-> IF k \in DOMAIN change THEN change[k] ELSE base[k]]
           summary == IF gated THEN "own" ELSE IF proposal[p].passed THEN "proposal" ELSE "none"
           new == [status |-> "active", config |-> config, summary |-> summary]
<1>1. /\ proposal[p].status = "approved" /\ q \in Policies
      /\ policyVersion' = [policyVersion EXCEPT ![q] = Superseding(q, new)]
      /\ activeVersion' = [activeVersion EXCEPT ![q] = Len(policyVersion[q]) + 1]
      /\ proposal' = [proposal EXCEPT ![p].status = "applied"]
  BY DEF ApplyPolicy, PolicyVersion
<1>2. proposal[p] \in ProposalRow
  BY <1>1, AppliedTyped
<1>3. Marked(policyVersion[q]) = {activeVersion[q]} /\ policyVersion[q] \in Seq(PolicyRow)
  BY <1>1 DEF LearningInv, LearningTypeOK, OneVersionInForce, PolicyVersionsInForce, Marked
<1>4. policyVersion[q][activeVersion[q]] \in PolicyRow
  BY <1>3 DEF Marked
<1>5. base \in [Knobs -> Values]
  BY <1>4 DEF PolicyRow
<1>6. change \in Change
  BY <1>2 DEF ProposalRow
<1> HIDE DEF base, change
<1>7. config \in [Knobs -> Values]
  <2> SUFFICES ASSUME NEW k \in Knobs PROVE (IF k \in DOMAIN change THEN change[k] ELSE base[k]) \in Values
    OBVIOUS
  <2>1. CASE change = <<>>
    BY <1>5, <2>1
  <2>2. CASE change # <<>>
    <3>1. PICK D \in SUBSET Knobs : change \in [D -> Values]
      BY <1>6, <2>2 DEF Change
    <3> QED BY <1>5, <3>1
  <2> QED BY <2>1, <2>2
<1> HIDE DEF config
<1>8. summary \in {"none", "own", "proposal"}
  OBVIOUS
<1> HIDE DEF summary
<1>9. new \in PolicyRow /\ new.status = "active" /\ new.summary = summary
  BY <1>7, <1>8 DEF PolicyRow, VersionStatuses
<1> HIDE DEF new, q
<1> DEFINE rows == Replaced(policyVersion[q], activeVersion[q], new)
<1>10. /\ rows \in Seq(PolicyRow) /\ Len(rows) = Len(policyVersion[q]) + 1
       /\ Marked(rows) = {Len(policyVersion[q]) + 1}
       /\ \A v \in DOMAIN policyVersion[q] : rows[v].summary = policyVersion[q][v].summary
       /\ rows[Len(policyVersion[q]) + 1] = new
  <2> DEFINE old == policyVersion[q]
             a == activeVersion[q]
  <2>1. Marked(old) = {a} /\ old \in Seq(PolicyRow)
    BY <1>3
  <2>2. rows = Replaced(old, a, new)
    OBVIOUS
  <2> HIDE DEF old, a, rows
  <2>3. old \in Seq(PolicyRow) /\ Marked(old) = {a} /\ new \in PolicyRow /\ new.status = "active"
    BY <1>9, <2>1
  <2>4. PICK t : t = Replaced(old, a, new)
    OBVIOUS
  <2>5. /\ t \in Seq(PolicyRow) /\ Len(t) = Len(old) + 1 /\ Marked(t) = {Len(old) + 1}
        /\ \A v \in DOMAIN old : t[v].summary = old[v].summary
        /\ t[Len(old) + 1] = new
    BY <2>3, <2>4, MarkedAppended
  <2>6. /\ rows \in Seq(PolicyRow) /\ Len(rows) = Len(old) + 1 /\ Marked(rows) = {Len(old) + 1}
        /\ \A v \in DOMAIN old : rows[v].summary = old[v].summary
        /\ rows[Len(old) + 1] = new
    BY <2>2, <2>4, <2>5
  <2> QED BY <2>6 DEF old
<1>11. policyVersion' = [policyVersion EXCEPT ![q] = rows]
  BY <1>1 DEF Superseding, Replaced
<1> HIDE DEF rows
<1>12. policyVersion'[q] = rows
  BY <1>1, <1>11 DEF LearningInv, LearningTypeOK
<1> QED BY <1>1, <1>2, <1>9, <1>10, <1>11, <1>12 DEF q, summary

LEMMA RollbackPolicyDoes ==
    ASSUME LearningInv, NEW q \in Policies, NEW v \in DOMAIN policyVersion[q], RollbackPolicy(q, v)
    PROVE  LET old == policyVersion[q]
               new == policyVersion'[q]
           IN  /\ policyVersion' = [policyVersion EXCEPT ![q] = new]
               /\ new \in Seq(PolicyRow) /\ Len(new) = Len(old) /\ Marked(new) = {v}
               /\ \A w \in DOMAIN old : new[w].summary = old[w].summary
               /\ activeVersion' = [activeVersion EXCEPT ![q] = v]
<1> DEFINE rows == Recalled(policyVersion[q], activeVersion[q], v)
<1>1. /\ policyVersion' = [policyVersion EXCEPT ![q] = rows]
      /\ activeVersion' = [activeVersion EXCEPT ![q] = v]
  BY DEF RollbackPolicy, Recalled
<1>2. Marked(policyVersion[q]) = {activeVersion[q]} /\ policyVersion[q] \in Seq(PolicyRow)
  BY DEF LearningInv, LearningTypeOK, OneVersionInForce, PolicyVersionsInForce, Marked
<1>3. /\ rows \in Seq(PolicyRow) /\ Len(rows) = Len(policyVersion[q]) /\ Marked(rows) = {v}
      /\ \A w \in DOMAIN policyVersion[q] : rows[w].summary = policyVersion[q][w].summary
  <2> DEFINE old == policyVersion[q]
             a == activeVersion[q]
  <2>1. Marked(old) = {a} /\ old \in Seq(PolicyRow) /\ v \in DOMAIN old
    BY <1>2
  <2>2. rows = Recalled(old, a, v)
    OBVIOUS
  <2> HIDE DEF old, a, rows
  <2>4. /\ Recalled(old, a, v) \in Seq(PolicyRow) /\ Len(Recalled(old, a, v)) = Len(old)
        /\ Marked(Recalled(old, a, v)) = {v}
        /\ \A w \in DOMAIN old : Recalled(old, a, v)[w].summary = old[w].summary
    BY <2>1, MarkedRolledBack, Zenon
  <2>3. /\ rows \in Seq(PolicyRow) /\ Len(rows) = Len(old) /\ Marked(rows) = {v}
        /\ \A w \in DOMAIN old : rows[w].summary = old[w].summary
    BY <2>2, <2>4, Zenon
  <2> QED BY <2>3 DEF old
<1> HIDE DEF rows
<1>4. policyVersion'[q] = rows
  BY <1>1 DEF LearningInv, LearningTypeOK
<1> QED BY <1>1, <1>3, <1>4

\* A step that gives one policy versions of which one is in force.
LEMMA PolicyKeeps ==
    ASSUME LearningInv, NEW q \in Policies, NEW rows \in Seq(PolicyRow), NEW v \in Nat, Marked(rows) = {v},
           policyVersion' = [policyVersion EXCEPT ![q] = rows], activeVersion' = [activeVersion EXCEPT ![q] = v],
           proposal' \in [Proposals -> {NoProposal} \cup ProposalRow],
           UNCHANGED <<procedureVersion, procedureClaim>>
    PROVE  LearningInv'
<1>1. policyVersion' \in [Policies -> Seq(PolicyRow)] /\ activeVersion' \in [Policies -> Nat]
  BY DEF LearningInv, LearningTypeOK
<1>2. ASSUME NEW r \in Policies PROVE Marked(policyVersion'[r]) = {activeVersion'[r]}
  <2>1. CASE r = q
    BY <2>1 DEF LearningInv, LearningTypeOK
  <2>2. CASE r # q
    BY <2>2 DEF LearningInv, LearningTypeOK, OneVersionInForce, PolicyVersionsInForce, Marked
  <2> QED BY <2>1, <2>2
<1>3. PolicyVersionsInForce'
  BY <1>2 DEF PolicyVersionsInForce, Marked
<1>4. ProcedureVersionsInForce'
  BY DEF LearningInv, OneVersionInForce, ProcedureVersionsInForce, InForce
<1> QED BY <1>1, <1>3, <1>4 DEF LearningInv, LearningTypeOK, OneVersionInForce

LEMMA ApplyPolicyKeeps ==
    ASSUME LearningInv, NEW p \in Proposals, NEW gated \in BOOLEAN, ApplyPolicy(p, gated)
    PROVE  LearningInv'
<1> DEFINE q == proposal[p].target
<1>1. /\ q \in Policies /\ policyVersion' = [policyVersion EXCEPT ![q] = policyVersion'[q]]
      /\ policyVersion'[q] \in Seq(PolicyRow) /\ Marked(policyVersion'[q]) = {Len(policyVersion[q]) + 1}
      /\ activeVersion' = [activeVersion EXCEPT ![q] = Len(policyVersion[q]) + 1]
  BY ApplyPolicyDoes
<1>2. Len(policyVersion[q]) + 1 \in Nat
  BY <1>1 DEF LearningInv, LearningTypeOK
<1>3. proposal' \in [Proposals -> {NoProposal} \cup ProposalRow] /\ UNCHANGED <<procedureVersion, procedureClaim>>
  BY AppliedTyped DEF ApplyPolicy
<1> HIDE DEF q
<1> QED BY <1>1, <1>2, <1>3, PolicyKeeps

LEMMA RollbackPolicyKeeps ==
    ASSUME LearningInv, NEW q \in Policies, NEW v \in DOMAIN policyVersion[q], RollbackPolicy(q, v)
    PROVE  LearningInv'
<1>1. /\ policyVersion' = [policyVersion EXCEPT ![q] = policyVersion'[q]]
      /\ policyVersion'[q] \in Seq(PolicyRow) /\ Marked(policyVersion'[q]) = {v}
      /\ activeVersion' = [activeVersion EXCEPT ![q] = v]
  BY RollbackPolicyDoes
<1>2. v \in Nat /\ policyVersion[q] \in Seq(PolicyRow)
  BY DEF LearningInv, LearningTypeOK
<1>3. UNCHANGED <<proposal, procedureVersion, procedureClaim>>
  BY DEF RollbackPolicy
<1> QED BY <1>1, <1>2, <1>3, PolicyKeeps DEF LearningInv, LearningTypeOK

-----------------------------------------------------------------------------
(* Procedures.                                                             *)

\* A step that gives one procedure versions of which one is in force, and writes
\* that one's text into its claim.
LEMMA ProcedureKeeps ==
    ASSUME LearningInv, NEW c \in Procedures \cup Titles, NEW rows \in Seq(ProcedureRow),
           NEW w \in DOMAIN rows, Marked(rows) = {w},
           procedureVersion' = [procedureVersion EXCEPT ![c] = rows],
           WriteProcedure(c, rows[w].text),
           proposal' \in [Proposals -> {NoProposal} \cup ProposalRow],
           UNCHANGED <<policyVersion, activeVersion>>
    PROVE  LearningInv'
<1>1. /\ procedureVersion' \in [Procedures \cup Titles -> Seq(ProcedureRow)]
      /\ procedureVersion'[c] = rows
      /\ \A d \in Procedures \cup Titles : d # c => procedureVersion'[d] = procedureVersion[d]
  BY DEF LearningInv, LearningTypeOK
<1>2. /\ procedureClaim' \in [Procedures -> ClaimRow]
      /\ \A d \in Procedures : d # c => procedureClaim'[d] = procedureClaim[d]
      /\ c \in Procedures => procedureClaim'[c].text = rows[w].text /\ procedureClaim'[c].index = rows[w].text
  <2>1. procedureClaim \in [Procedures -> ClaimRow]
    BY DEF LearningInv, LearningTypeOK
  <2>2. CASE c \notin Procedures
    BY <2>1, <2>2 DEF WriteProcedure
  <2>3. CASE c \in Procedures
    <3> DEFINE row == [procedureClaim[c] EXCEPT !.text = rows[w].text, !.index = rows[w].text]
    <3>1. rows[w] \in ProcedureRow
      OBVIOUS
    <3>2. rows[w].text \in Values
      BY <3>1 DEF ProcedureRow, Values
    <3>3. procedureClaim[c] \in ClaimRow
      BY <2>1, <2>3
    <3>4. row \in ClaimRow /\ row.text = rows[w].text /\ row.index = rows[w].text
      BY <3>2, <3>3 DEF ClaimRow
    <3>5. procedureClaim' = [procedureClaim EXCEPT ![c] = row]
      BY <2>1, <2>3, <3>3 DEF WriteProcedure, ClaimRow
    <3> HIDE DEF row
    <3> QED BY <2>1, <2>3, <3>4, <3>5
  <2> QED BY <2>2, <2>3
<1>3. \A d \in Procedures \cup Titles : InForce(d)' = Marked(procedureVersion'[d])
  BY DEF InForce, Marked
<1>4. \A d \in Procedures \cup Titles : InForce(d) = Marked(procedureVersion[d])
  BY DEF InForce, Marked
<1>5. ASSUME NEW d \in Procedures \cup Titles
      PROVE  /\ procedureVersion'[d] # <<>> => \E v \in DOMAIN procedureVersion'[d] : InForce(d)' = {v}
             /\ d \in Procedures /\ procedureClaim'[d].status # "deleted" /\ procedureClaim'[d].text # "redacted" =>
                  /\ procedureClaim'[d].index = procedureClaim'[d].text
                  /\ \A v \in InForce(d)' : procedureClaim'[d].text = procedureVersion'[d][v].text
  <2>1. CASE d = c
    BY <1>1, <1>2, <1>3, <2>1
  <2>2. CASE d # c
    <3>1. /\ procedureVersion[d] # <<>> => \E v \in DOMAIN procedureVersion[d] : InForce(d) = {v}
          /\ d \in Procedures /\ procedureClaim[d].status # "deleted" /\ procedureClaim[d].text # "redacted" =>
                  /\ procedureClaim[d].index = procedureClaim[d].text
                  /\ \A v \in InForce(d) : procedureClaim[d].text = procedureVersion[d][v].text
      BY DEF LearningInv, OneVersionInForce, ProcedureVersionsInForce
    <3> QED BY <1>1, <1>2, <1>3, <1>4, <2>2, <3>1
  <2> QED BY <2>1, <2>2
<1>6. ProcedureVersionsInForce'
  BY <1>5 DEF ProcedureVersionsInForce
<1>7. PolicyVersionsInForce'
  BY DEF LearningInv, OneVersionInForce, PolicyVersionsInForce
<1> QED BY <1>1, <1>2, <1>6, <1>7 DEF LearningInv, LearningTypeOK, OneVersionInForce

LEMMA ApplyProcedureKeeps ==
    ASSUME LearningInv, NEW p \in Proposals, ApplyProcedure(p)
    PROVE  LearningInv'
<1> DEFINE c == proposal[p].target
           old == procedureVersion[c]
           row(v) == IF old[v].status = "active" THEN [old[v] EXCEPT !.status = "superseded"] ELSE old[v]
           superseded == [v \in DOMAIN old |-> row(v)]
           new == [status |-> "active", text |-> p]
           rows == Append(superseded, new)
<1>1. /\ proposal[p].status = "approved" /\ c \in Procedures \cup Titles
      /\ procedureVersion' = [procedureVersion EXCEPT ![c] = rows]
      /\ proposal' = [proposal EXCEPT ![p].status = "applied"]
      /\ WriteProcedure(c, p) /\ UNCHANGED <<policyVersion, activeVersion>>
  BY DEF ApplyProcedure
<1>2. old \in Seq(ProcedureRow) /\ \A v \in DOMAIN old : old[v] \in ProcedureRow
  BY <1>1 DEF LearningInv, LearningTypeOK
<1>3. \A v \in DOMAIN old : row(v) \in ProcedureRow /\ row(v).status # "active"
  BY <1>2 DEF ProcedureRow, VersionStatuses
<1> HIDE DEF row
<1>4. superseded \in Seq(ProcedureRow) /\ Len(superseded) = Len(old) /\ DOMAIN superseded = DOMAIN old
  BY <1>2, <1>3
<1>5. \A v \in DOMAIN old : superseded[v].status # "active"
  BY <1>3
<1>6. new \in ProcedureRow /\ new.status = "active" /\ new.text = p
  BY DEF ProcedureRow, VersionStatuses
<1> HIDE DEF superseded, new
<1>7. /\ rows \in Seq(ProcedureRow) /\ DOMAIN rows = DOMAIN old \cup {Len(old) + 1}
      /\ rows[Len(old) + 1] = new /\ \A v \in DOMAIN old : rows[v] = superseded[v]
  BY <1>4, <1>6
<1> HIDE DEF rows
<1>8. Marked(rows) = {Len(old) + 1} /\ Len(old) + 1 \in DOMAIN rows /\ rows[Len(old) + 1].text = p
  BY <1>5, <1>6, <1>7 DEF Marked
<1>9. proposal' \in [Proposals -> {NoProposal} \cup ProposalRow]
  BY <1>1, AppliedTyped
<1> HIDE DEF c, old
<1> QED BY <1>1, <1>7, <1>8, <1>9, ProcedureKeeps

LEMMA RollbackProcedureKeeps ==
    ASSUME LearningInv, NEW c \in Procedures \cup Titles, NEW v \in DOMAIN procedureVersion[c],
           RollbackProcedure(c, v)
    PROVE  LearningInv'
<1> DEFINE old == procedureVersion[c]
<1>1. old \in Seq(ProcedureRow) /\ \A w \in DOMAIN old : old[w] \in ProcedureRow
  BY DEF LearningInv, LearningTypeOK
<1>2. PICK w \in DOMAIN old : InForce(c) = {w}
  BY <1>1 DEF LearningInv, OneVersionInForce, ProcedureVersionsInForce
<1>3. \A x \in DOMAIN old : old[x].status = "active" => x = w
  BY <1>2 DEF InForce
<1>4. /\ procedureVersion' = [procedureVersion EXCEPT ![c] = RolledBack(c, v, w)]
      /\ WriteProcedure(c, old[v].text) /\ UNCHANGED <<policyVersion, activeVersion, proposal>>
  BY <1>2 DEF RollbackProcedure
<1> DEFINE row(x) == CASE x = v -> [old[x] EXCEPT !.status = "active"]
                       [] x = w /\ x # v -> [old[x] EXCEPT !.status = "rolled_back"]
                       [] OTHER -> old[x]
           rows == [x \in DOMAIN old |-> row(x)]
<1>5. RolledBack(c, v, w) = rows
  BY DEF RolledBack
<1>6. \A x \in DOMAIN old : /\ row(x) \in ProcedureRow /\ row(x).text = old[x].text
                            /\ row(x).status = "active" <=> x = v
  <2> SUFFICES ASSUME NEW x \in DOMAIN old
               PROVE  /\ row(x) \in ProcedureRow /\ row(x).text = old[x].text
                      /\ row(x).status = "active" <=> x = v
    OBVIOUS
  <2>1. CASE x = v
    BY <1>1, <2>1 DEF ProcedureRow, VersionStatuses
  <2>2. CASE x = w /\ x # v
    BY <1>1, <2>2 DEF ProcedureRow, VersionStatuses
  <2>3. CASE x # w /\ x # v
    BY <1>1, <1>3, <2>3
  <2> QED BY <2>1, <2>2, <2>3
<1> HIDE DEF row
<1>7. rows \in Seq(ProcedureRow) /\ DOMAIN rows = DOMAIN old /\ rows[v].text = old[v].text
  BY <1>1, <1>6
<1>8. Marked(rows) = {v}
  BY <1>6 DEF Marked
<1> HIDE DEF rows, old
<1>9. proposal' \in [Proposals -> {NoProposal} \cup ProposalRow] /\ v \in DOMAIN rows
  BY <1>4, <1>7 DEF LearningInv, LearningTypeOK, old
<1> QED BY <1>4, <1>5, <1>7, <1>8, <1>9, ProcedureKeeps

\* A procedure that is redacted or deleted is excused.
LEMMA WithdrawnProcedure ==
    ASSUME LearningInv, NEW c \in Procedures, RedactProcedure(c) \/ DeleteProcedure(c)
    PROVE  LearningInv'
<1>1. UNCHANGED <<policyVersion, activeVersion, proposal, procedureVersion>>
  BY DEF RedactProcedure, DeleteProcedure
<1>2. /\ procedureClaim' \in [Procedures -> ClaimRow]
      /\ \A d \in Procedures : d # c => procedureClaim'[d] = procedureClaim[d]
      /\ procedureClaim'[c].status = "deleted" \/ procedureClaim'[c].text = "redacted"
  <2>1. PICK row \in {[status |-> "archived", text |-> "redacted", index |-> "none"],
                      [status |-> "deleted", text |-> "none", index |-> "none"]} :
          procedureClaim' = [procedureClaim EXCEPT ![c] = row]
    BY DEF RedactProcedure, DeleteProcedure
  <2>2. row \in ClaimRow /\ (row.status = "deleted" \/ row.text = "redacted")
    BY DEF ClaimRow
  <2> QED BY <2>1, <2>2 DEF LearningInv, LearningTypeOK
<1>3. \A d \in Procedures \cup Titles : InForce(d)' = InForce(d)
  BY <1>1 DEF InForce
<1>4. ASSUME NEW d \in Procedures \cup Titles
      PROVE  /\ procedureVersion'[d] # <<>> => \E v \in DOMAIN procedureVersion'[d] : InForce(d)' = {v}
             /\ d \in Procedures /\ procedureClaim'[d].status # "deleted" /\ procedureClaim'[d].text # "redacted" =>
                  /\ procedureClaim'[d].index = procedureClaim'[d].text
                  /\ \A v \in InForce(d)' : procedureClaim'[d].text = procedureVersion'[d][v].text
  <2>1. /\ procedureVersion[d] # <<>> => \E v \in DOMAIN procedureVersion[d] : InForce(d) = {v}
        /\ d \in Procedures /\ procedureClaim[d].status # "deleted" /\ procedureClaim[d].text # "redacted" =>
                /\ procedureClaim[d].index = procedureClaim[d].text
                /\ \A v \in InForce(d) : procedureClaim[d].text = procedureVersion[d][v].text
    BY DEF LearningInv, OneVersionInForce, ProcedureVersionsInForce
  <2> QED BY <1>1, <1>2, <1>3, <2>1
<1>5. ProcedureVersionsInForce' /\ PolicyVersionsInForce'
  BY <1>1, <1>4 DEF ProcedureVersionsInForce, PolicyVersionsInForce, LearningInv, OneVersionInForce
<1> QED BY <1>1, <1>2, <1>5 DEF LearningInv, LearningTypeOK, OneVersionInForce

LEMMA LearningStutter == LearningInv /\ UNCHANGED learningVars => LearningInv'
<1> SUFFICES ASSUME LearningInv, UNCHANGED learningVars PROVE LearningInv'
  OBVIOUS
<1>1. UNCHANGED <<policyVersion, activeVersion, proposal, procedureVersion, procedureClaim>>
  BY DEF learningVars
<1>2. LearningTypeOK'
  BY <1>1 DEF LearningInv, LearningTypeOK
<1>3. PolicyVersionsInForce'
  BY <1>1 DEF LearningInv, OneVersionInForce, PolicyVersionsInForce
<1>4. \A c : InForce(c)' = InForce(c)
  BY <1>1 DEF InForce
<1>5. ProcedureVersionsInForce'
  BY <1>1, <1>4 DEF LearningInv, OneVersionInForce, ProcedureVersionsInForce
<1> QED BY <1>2, <1>3, <1>5 DEF LearningInv, OneVersionInForce

LEMMA LearningStep == LearningInv /\ [LearningNext]_learningVars => LearningInv'
<1> SUFFICES ASSUME LearningInv, LearningNext PROVE LearningInv'
  BY LearningStutter
<1>1. ASSUME NEW p \in Proposals, NEW passed \in BOOLEAN,
             \/ \E q \in Policies, knobs \in (SUBSET Knobs) \ {{}} : ProposePolicy(p, q, knobs, passed)
             \/ \E v \in 1..Len(policyVersion["ranking"]), k \in Knobs : OptimizeRetrieval(p, v, k, passed)
             \/ ApplyPolicy(p, passed)
      PROVE  LearningInv'
  <2>1. CASE \E q \in Policies, knobs \in (SUBSET Knobs) \ {{}} : ProposePolicy(p, q, knobs, passed)
    BY <2>1, ProposeKeeps
  <2>2. CASE \E v \in 1..Len(policyVersion["ranking"]), k \in Knobs : OptimizeRetrieval(p, v, k, passed)
    BY <2>2, ProposeKeeps
  <2>3. CASE ApplyPolicy(p, passed)
    BY <2>3, ApplyPolicyKeeps
  <2> QED BY <1>1, <2>1, <2>2, <2>3
<1>2. ASSUME NEW p \in Proposals, NEW c \in Procedures \cup Titles, NEW status \in {"pending_review", "approved"},
             ProposeProcedure(p, c, status)
      PROVE  LearningInv'
  <2>1. TRUE \in BOOLEAN
    OBVIOUS
  <2> QED BY <1>2, <2>1, ProposeKeeps
<1> QED BY <1>1, <1>2, ReviewKeeps, ApplyProcedureKeeps, RollbackPolicyKeeps, RollbackProcedureKeeps,
           WithdrawnProcedure
        DEF LearningNext

LearningSpec == LearningInit /\ [][LearningNext]_learningVars

\* Whatever is proposed, applied, rolled back and redacted in whatever order: one
\* version of a policy or procedure is in force, and the claim says what it says.
THEOREM VersionsInForce == LearningSpec => []OneVersionInForce
<1>1. LearningInit => LearningInv
  BY LearningInitInv
<1>2. LearningInv /\ [LearningNext]_learningVars => LearningInv'
  BY LearningStep
<1>3. LearningInv => OneVersionInForce
  BY DEF LearningInv
<1> QED BY <1>1, <1>2, <1>3, PTL DEF LearningSpec

-----------------------------------------------------------------------------
(* Evaluations.                                                            *)

RunRow == [versions : [Policies -> Nat], cases : SUBSET Cases, phase : {"asking", "stored"}, passed : BOOLEAN]

EvaluationsTypeOK ==
    /\ cases \subseteq Cases
    /\ run \in [Runs -> {NoRun} \cup RunRow]
    /\ basis \in [Proposals -> Runs \cup {"none"}]
    /\ judge \in [Policies -> Seq(Runs \cup {"none"})]

\* Cases are only added; a proposal that passed names a run that is stored; each
\* version has its judge.
RunsOnRecord ==
    /\ \A r \in Runs : run[r].cases \subseteq cases
    /\ \A p \in Proposals : proposal[p].passed => basis[p] \in Runs /\ run[basis[p]].phase = "stored"
    /\ \A q \in Policies : Len(judge[q]) = Len(policyVersion[q])

\* The application that brought a gated version in force, seen from the versions.
Gated(q, r, v) ==
    /\ r \in Runs /\ run[r].phase = "stored" /\ run[r].passed /\ run[r].versions[q] = v
    /\ \E p \in Proposals : /\ proposal[p].target = q /\ proposal[p].status = "applied"
                            /\ basis[p] \in Runs /\ run[basis[p]].phase = "stored"
                            /\ run[basis[p]].cases \subseteq run[r].cases

GatesHeld ==
    \A q \in Policies : \A v \in DOMAIN judge[q] : \A r :
        judge[q][v] = r /\ policyVersion[q][v].summary = "own" => Gated(q, r, v)

EvaluationsInv == LearningInv /\ EvaluationsTypeOK /\ RunsOnRecord /\ GatesHeld

LEMMA EvaluationsInitInv == EvaluationsInit => EvaluationsInv
<1> SUFFICES ASSUME EvaluationsInit PROVE EvaluationsInv
  OBVIOUS
<1>1. LearningInv
  BY LearningInitInv DEF EvaluationsInit
<1>2. EvaluationsTypeOK
  BY DEF EvaluationsInit, EvaluationsTypeOK
<1>3. RunsOnRecord
  BY DEF EvaluationsInit, LearningInit, RunsOnRecord, NoRun, NoProposal
<1>4. GatesHeld
  BY DEF EvaluationsInit, LearningInit, GatesHeld
<1> QED BY <1>1, <1>2, <1>3, <1>4 DEF EvaluationsInv

\* Every step of evaluations and policies is one of Learning or none of it.
LEMMA StepsOfLearning ==
    ASSUME EvaluationsInv, [EvaluationsNext]_evaluationVars
    PROVE  [LearningNext]_learningVars
<1>1. ASSUME NEW p \in Proposals, NEW q \in Policies, NEW knobs \in (SUBSET Knobs) \ {{}}, NEW passed \in BOOLEAN,
             ProposePolicy(p, q, knobs, passed)
      PROVE  LearningNext
  BY <1>1 DEF LearningNext
<1>2. ASSUME NEW p \in Proposals, NEW r \in Runs, NEW versions \in VersionsToAsk, NEW k \in Knobs,
             NEW passed \in BOOLEAN, Optimize(p, r, versions, k, passed)
      PROVE  LearningNext
  <2>1. OptimizeRetrieval(p, versions["ranking"], k, passed)
    BY <1>2 DEF Optimize
  <2>2. versions["ranking"] \in 1..Len(policyVersion["ranking"])
    <3>1. "ranking" \in Policies /\ versions["ranking"] \in DOMAIN policyVersion["ranking"]
      BY <2>1 DEF OptimizeRetrieval
    <3>2. policyVersion["ranking"] \in Seq(PolicyRow)
      BY <3>1 DEF EvaluationsInv, LearningInv, LearningTypeOK
    <3> QED BY <3>1, <3>2
  <2> QED BY <2>1, <2>2 DEF LearningNext
<1>3. ASSUME NEW p \in Proposals, NEW gated \in BOOLEAN, ApplyPolicy(p, gated) PROVE LearningNext
  BY <1>3 DEF LearningNext
<1>4. ASSUME NEW p \in Proposals, NEW decision \in {"approve", "reject", "defer", "request_changes"},
             Review(p, decision)
      PROVE  LearningNext
  BY <1>4 DEF LearningNext, Review
<1>5. ASSUME NEW q \in Policies, NEW v \in DOMAIN policyVersion[q], Rollback(q, v) PROVE LearningNext
  BY <1>5 DEF LearningNext, Rollback
<1>6. ASSUME NEW p \in Proposals, NEW q \in Policies, NEW knobs \in (SUBSET Knobs) \ {{}}, NEW r \in Runs,
             ProposeOn(p, q, knobs, r)
      PROVE  LearningNext
  <2>1. run[r].passed \in BOOLEAN
    <3>1. run[r] = NoRun \/ run[r] \in RunRow
      BY DEF EvaluationsInv, EvaluationsTypeOK
    <3>2. CASE run[r] = NoRun
      <4>1. NoRun.passed = FALSE
        BY DEF NoRun
      <4> QED BY <3>2, <4>1
    <3>3. CASE run[r] \in RunRow
      BY <3>3 DEF RunRow
    <3> QED BY <3>1, <3>2, <3>3
  <2> QED BY <1>1, <1>6, <2>1 DEF ProposeOn
<1>7. ASSUME NEW p \in Proposals, NEW q \in Policies, NEW knobs \in (SUBSET Knobs) \ {{}},
             ProposeOnNothing(p, q, knobs)
      PROVE  LearningNext
  <2>1. FALSE \in BOOLEAN /\ ProposePolicy(p, q, knobs, FALSE)
    BY <1>7 DEF ProposeOnNothing
  <2> QED BY <1>1, <2>1
<1>8. ASSUME NEW p \in Proposals, ApplyUngated(p) \/ \E r \in Runs : ApplyGated(p, r) PROVE LearningNext
  <2>1. TRUE \in BOOLEAN /\ FALSE \in BOOLEAN
    OBVIOUS
  <2>2. ApplyPolicy(p, FALSE) \/ ApplyPolicy(p, TRUE)
    BY <1>8 DEF ApplyUngated, ApplyGated
  <2> QED BY <1>3, <2>1, <2>2
<1>9. ASSUME NEW r \in Runs, NEW passed \in BOOLEAN,
             \/ StoreEvaluation(r, passed)
             \/ \E versions \in VersionsToAsk : EvaluateInService(r, versions, passed) \/ EvaluateInLibrary(r, versions)
      PROVE  UNCHANGED learningVars
  BY <1>9 DEF StoreEvaluation, EvaluateInService, EvaluateInLibrary
<1>10. ASSUME NEW c \in Cases, AddCase(c) PROVE UNCHANGED learningVars
  BY <1>10 DEF AddCase
<1>11. CASE UNCHANGED evaluationVars
  BY <1>11 DEF evaluationVars
<1> QED BY <1>2, <1>4, <1>5, <1>6, <1>7, <1>8, <1>9, <1>10, <1>11 DEF EvaluationsNext

-----------------------------------------------------------------------------
(* What no step takes back.                                                *)

\* A run that is stored stays as it is, and so does a proposal that was applied.
RunsKept == \A s \in Runs : run[s].phase = "stored" => run'[s] = run[s]
AppliedKept == \A p \in Proposals :
                 proposal[p].status = "applied" => proposal'[p] = proposal[p] /\ basis'[p] = basis[p]

LEMMA GatedStays ==
    ASSUME NEW q, NEW r, NEW v, Gated(q, r, v), RunsKept, AppliedKept
    PROVE  Gated(q, r, v)'
<1>1. r \in Runs /\ run[r].phase = "stored" /\ run[r].passed /\ run[r].versions[q] = v
  BY DEF Gated
<1>2. PICK p \in Proposals : /\ proposal[p].target = q /\ proposal[p].status = "applied"
                             /\ basis[p] \in Runs /\ run[basis[p]].phase = "stored"
                             /\ run[basis[p]].cases \subseteq run[r].cases
  BY DEF Gated
<1>3. proposal'[p] = proposal[p] /\ basis'[p] = basis[p]
  BY <1>2 DEF AppliedKept
<1>4. run'[r] = run[r] /\ run'[basis[p]] = run[basis[p]]
  BY <1>1, <1>2 DEF RunsKept
<1> QED BY <1>1, <1>2, <1>3, <1>4 DEF Gated

\* Versions keep their judge and their summary.
LEMMA GatesStay ==
    ASSUME EvaluationsInv, RunsKept, AppliedKept, judge' = judge,
           \A q \in Policies : \A v \in DOMAIN policyVersion[q] :
               policyVersion'[q][v].summary = policyVersion[q][v].summary
    PROVE  GatesHeld'
<1> SUFFICES ASSUME NEW q \in Policies, NEW v \in DOMAIN judge[q], NEW r, judge[q][v] = r,
                    policyVersion'[q][v].summary = "own"
             PROVE  Gated(q, r, v)'
  BY DEF GatesHeld
<1>1. DOMAIN judge[q] = DOMAIN policyVersion[q]
  BY DEF EvaluationsInv, EvaluationsTypeOK, RunsOnRecord, LearningInv, LearningTypeOK
<1>2. Gated(q, r, v)
  BY <1>1 DEF EvaluationsInv, GatesHeld
<1> QED BY <1>2, GatedStays

LEMMA RunTyped ==
    ASSUME EvaluationsInv, NEW r \in Runs
    PROVE  \/ run[r] = NoRun /\ run[r].phase = "none" /\ run[r].passed = FALSE
           \/ run[r] \in RunRow /\ run[r].cases \subseteq cases
<1>1. run[r] \in {NoRun} \cup RunRow /\ run[r].cases \subseteq cases
  BY DEF EvaluationsInv, EvaluationsTypeOK, RunsOnRecord
<1>2. NoRun.phase = "none" /\ NoRun.passed = FALSE
  BY DEF NoRun
<1> QED BY <1>1, <1>2

\* A run that is made or stored.
LEMMA RunSteps ==
    ASSUME EvaluationsInv, NEW r \in Runs, NEW versions \in [Policies -> Nat], NEW passed \in BOOLEAN,
           \/ RunEvaluation(r, versions, passed)
           \/ EvaluateInLibrary(r, versions)
           \/ StoreEvaluation(r, passed),
           cases' = cases
    PROVE  /\ run' \in [Runs -> {NoRun} \cup RunRow] /\ RunsKept
           /\ \A s \in Runs : run'[s].cases \subseteq cases'
<1>1. ASSUME NEW row \in RunRow, row.cases \subseteq cases, run[r].phase # "stored",
             run' = [run EXCEPT ![r] = row]
      PROVE  /\ run' \in [Runs -> {NoRun} \cup RunRow] /\ RunsKept
             /\ \A s \in Runs : run'[s].cases \subseteq cases'
  <2>1. run' \in [Runs -> {NoRun} \cup RunRow] /\ \A s \in Runs : run'[s] = IF s = r THEN row ELSE run[s]
    BY <1>1 DEF EvaluationsInv, EvaluationsTypeOK
  <2>2. RunsKept
    BY <1>1, <2>1 DEF RunsKept
  <2>3. \A s \in Runs : run'[s].cases \subseteq cases'
    BY <1>1, <2>1 DEF EvaluationsInv, RunsOnRecord
  <2> QED BY <2>1, <2>2, <2>3
<1>2. cases \subseteq Cases
  BY DEF EvaluationsInv, EvaluationsTypeOK
<1>3. CASE RunEvaluation(r, versions, passed)
  <2> DEFINE row == [versions |-> versions, cases |-> cases, phase |-> "stored", passed |-> passed]
  <2>1. row \in RunRow /\ row.cases \subseteq cases
    BY <1>2 DEF RunRow
  <2>2. run[r].phase # "stored" /\ run' = [run EXCEPT ![r] = row]
    BY <1>3 DEF RunEvaluation, NoRun
  <2> HIDE DEF row
  <2> QED BY <1>1, <2>1, <2>2
<1>4. CASE EvaluateInLibrary(r, versions)
  <2> DEFINE row == [versions |-> versions, cases |-> cases, phase |-> "asking", passed |-> FALSE]
  <2>1. row \in RunRow /\ row.cases \subseteq cases
    BY <1>2 DEF RunRow
  <2>2. run[r].phase # "stored" /\ run' = [run EXCEPT ![r] = row]
    BY <1>4 DEF EvaluateInLibrary, NoRun
  <2> HIDE DEF row
  <2> QED BY <1>1, <2>1, <2>2
<1>5. CASE StoreEvaluation(r, passed)
  <2> DEFINE row == [[run[r] EXCEPT !.phase = "stored"] EXCEPT !.passed = passed]
  <2>1. run[r].phase = "asking" /\ run' = [run EXCEPT ![r] = row]
    BY <1>5 DEF StoreEvaluation, EvaluationsInv, EvaluationsTypeOK
  <2>2. run[r] \in RunRow /\ run[r].cases \subseteq cases
    BY <2>1, RunTyped
  <2>3. row \in RunRow /\ row.cases \subseteq cases
    BY <2>2 DEF RunRow
  <2> HIDE DEF row
  <2> QED BY <1>1, <2>1, <2>3
<1> QED BY <1>3, <1>4, <1>5

\* Proposals that are written, reviewed or applied.
LEMMA WrittenKeeps ==
    ASSUME EvaluationsInv, NEW p \in Proposals, NEW target, NEW change, NEW passed,
           Written(p, target, "pending_review", change, passed)
    PROVE  /\ \A o \in Proposals \ {p} : proposal'[o] = proposal[o]
           /\ proposal'[p].passed = passed /\ proposal[p].status # "applied" /\ ~proposal[p].passed
<1>1. NoProposal.status = "none" /\ ~NoProposal.passed
  BY DEF NoProposal
<1> DEFINE row == [target |-> target, status |-> "pending_review", change |-> change, passed |-> passed]
<1>2. proposal[p] = NoProposal /\ proposal' = [proposal EXCEPT ![p] = row] /\ row.passed = passed
  BY DEF Written
<1> HIDE DEF row
<1>3. proposal \in [Proposals -> {NoProposal} \cup ProposalRow]
  BY DEF EvaluationsInv, LearningInv, LearningTypeOK
<1> QED BY <1>1, <1>2, <1>3

LEMMA ReviewedOrApplied ==
    ASSUME EvaluationsInv, NEW p \in Proposals, NEW status, proposal[p].status # "applied",
           proposal' = [proposal EXCEPT ![p].status = status], basis' = basis
    PROVE  AppliedKept /\ \A o \in Proposals : proposal'[o].passed = proposal[o].passed
<1>1. proposal[p] = NoProposal \/ proposal[p] \in ProposalRow
  BY DEF EvaluationsInv, LearningInv, LearningTypeOK
<1> DEFINE row == [proposal[p] EXCEPT !.status = status]
<1>2. row.passed = proposal[p].passed
  BY <1>1 DEF NoProposal, ProposalRow
<1>3. proposal' = [proposal EXCEPT ![p] = row]
  OBVIOUS
<1> HIDE DEF row
<1>4. \A o \in Proposals : proposal'[o] = IF o = p THEN row ELSE proposal[o]
  BY <1>3 DEF EvaluationsInv, LearningInv, LearningTypeOK
<1> QED BY <1>2, <1>4 DEF AppliedKept

-----------------------------------------------------------------------------
(* Steps.                                                                  *)

\* A step that adds no version keeps the gates.
LEMMA NothingComesInForce ==
    ASSUME EvaluationsInv, LearningInv', cases \subseteq cases', cases' \subseteq Cases,
           run' \in [Runs -> {NoRun} \cup RunRow], \A s \in Runs : run'[s].cases \subseteq cases',
           basis' \in [Proposals -> Runs \cup {"none"}],
           \A p \in Proposals : proposal'[p].passed => basis'[p] \in Runs /\ run'[basis'[p]].phase = "stored",
           judge' = judge,
           \A q \in Policies : /\ Len(policyVersion'[q]) = Len(policyVersion[q])
                               /\ \A v \in DOMAIN policyVersion[q] :
                                    policyVersion'[q][v].summary = policyVersion[q][v].summary,
           RunsKept, AppliedKept
    PROVE  EvaluationsInv'
<1>1. EvaluationsTypeOK'
  BY DEF EvaluationsInv, EvaluationsTypeOK
<1>2. RunsOnRecord'
  BY DEF EvaluationsInv, RunsOnRecord
<1>3. GatesHeld'
  BY GatesStay
<1> QED BY <1>1, <1>2, <1>3 DEF EvaluationsInv

\* A proposal that passed goes on naming a stored run.
LEMMA StoredBasis ==
    ASSUME EvaluationsInv, RunsKept, NEW p \in Proposals, proposal[p].passed
    PROVE  basis[p] \in Runs /\ run[basis[p]].phase = "stored" /\ run'[basis[p]].phase = "stored"
BY DEF EvaluationsInv, RunsOnRecord, RunsKept

LEMMA AskingKeeps ==
    ASSUME EvaluationsInv, LearningInv', NEW r \in Runs, NEW versions \in [Policies -> Nat], NEW passed \in BOOLEAN,
           \/ EvaluateInService(r, versions, passed)
           \/ EvaluateInLibrary(r, versions)
           \/ StoreEvaluation(r, passed)
    PROVE  EvaluationsInv'
<1>1. UNCHANGED <<learningVars, cases, basis, judge>>
  BY DEF EvaluateInService, EvaluateInLibrary, StoreEvaluation
<1>2. /\ run' \in [Runs -> {NoRun} \cup RunRow] /\ RunsKept
      /\ \A s \in Runs : run'[s].cases \subseteq cases'
  BY <1>1, RunSteps DEF EvaluateInService
<1>3. proposal' = proposal /\ policyVersion' = policyVersion
  BY <1>1 DEF learningVars
<1>4. \A p \in Proposals : proposal'[p].passed => basis'[p] \in Runs /\ run'[basis'[p]].phase = "stored"
  BY <1>1, <1>2, <1>3, StoredBasis
<1>5. AppliedKept
  BY <1>1, <1>3 DEF AppliedKept
<1>6. cases' \subseteq Cases /\ basis' \in [Proposals -> Runs \cup {"none"}]
  BY <1>1 DEF EvaluationsInv, EvaluationsTypeOK
<1> QED BY <1>1, <1>2, <1>3, <1>4, <1>5, <1>6, NothingComesInForce

LEMMA AddCaseKeeps ==
    ASSUME EvaluationsInv, LearningInv', NEW c \in Cases, AddCase(c)
    PROVE  EvaluationsInv'
<1>1. UNCHANGED <<learningVars, run, basis, judge>> /\ cases' = cases \cup {c}
  BY DEF AddCase
<1>2. proposal' = proposal /\ policyVersion' = policyVersion
  BY <1>1 DEF learningVars
<1>3. RunsKept /\ AppliedKept
  BY <1>1, <1>2 DEF RunsKept, AppliedKept
<1>4. cases' \subseteq Cases /\ run' \in [Runs -> {NoRun} \cup RunRow] /\ basis' \in [Proposals -> Runs \cup {"none"}]
  BY <1>1 DEF EvaluationsInv, EvaluationsTypeOK
<1>5. \A s \in Runs : run'[s].cases \subseteq cases'
  BY <1>1 DEF EvaluationsInv, RunsOnRecord
<1>6. \A p \in Proposals : proposal'[p].passed => basis'[p] \in Runs /\ run'[basis'[p]].phase = "stored"
  BY <1>1, <1>2 DEF EvaluationsInv, RunsOnRecord
<1> QED BY <1>1, <1>2, <1>3, <1>4, <1>5, <1>6, NothingComesInForce

\* A proposal is written with a run that is stored, one made with it, or none.
LEMMA ProposingKeeps ==
    ASSUME EvaluationsInv, LearningInv', NEW p \in Proposals, NEW target, NEW change, NEW passed,
           Written(p, target, "pending_review", change, passed),
           UNCHANGED <<policyVersion, cases, judge>>,
           run' \in [Runs -> {NoRun} \cup RunRow], RunsKept, \A s \in Runs : run'[s].cases \subseteq cases',
           \/ passed = FALSE /\ basis' = basis
           \/ \E r \in Runs : run'[r].phase = "stored" /\ basis' = [basis EXCEPT ![p] = r]
    PROVE  EvaluationsInv'
<1>1. /\ \A o \in Proposals \ {p} : proposal'[o] = proposal[o] /\ basis'[o] = basis[o]
      /\ proposal'[p].passed = passed /\ proposal[p].status # "applied"
      /\ basis' \in [Proposals -> Runs \cup {"none"}]
  BY WrittenKeeps DEF EvaluationsInv, EvaluationsTypeOK
<1>2. AppliedKept
  BY <1>1 DEF AppliedKept
<1>3. ASSUME NEW o \in Proposals, proposal'[o].passed
      PROVE  basis'[o] \in Runs /\ run'[basis'[o]].phase = "stored"
  <2>1. CASE o = p
    <3>1. PICK r \in Runs : run'[r].phase = "stored" /\ basis' = [basis EXCEPT ![p] = r]
      BY <1>1, <1>3, <2>1
    <3>2. basis'[p] = r
      BY <3>1 DEF EvaluationsInv, EvaluationsTypeOK
    <3> QED BY <2>1, <3>1, <3>2
  <2>2. CASE o # p
    BY <1>1, <1>3, <2>2, StoredBasis
  <2> QED BY <2>1, <2>2
<1>4. cases' \subseteq Cases
  BY DEF EvaluationsInv, EvaluationsTypeOK
<1> QED BY <1>1, <1>2, <1>3, <1>4, NothingComesInForce

LEMMA ProposeOnKeeps ==
    ASSUME EvaluationsInv, LearningInv', NEW p \in Proposals, NEW q \in Policies, NEW knobs,
           ProposeOnNothing(p, q, knobs) \/ \E r \in Runs : ProposeOn(p, q, knobs, r)
    PROVE  EvaluationsInv'
<1>1. UNCHANGED <<policyVersion, cases, judge, run>>
  BY DEF ProposeOnNothing, ProposeOn, ProposePolicy
<1>2. run' \in [Runs -> {NoRun} \cup RunRow] /\ RunsKept /\ \A s \in Runs : run'[s].cases \subseteq cases'
  BY <1>1 DEF RunsKept, EvaluationsInv, EvaluationsTypeOK, RunsOnRecord
<1>3. CASE ProposeOnNothing(p, q, knobs)
  <2>1. Written(p, q, "pending_review", [k \in knobs |-> p], FALSE) /\ basis' = basis
    BY <1>3 DEF ProposeOnNothing, ProposePolicy
  <2> QED BY <1>1, <1>2, <2>1, ProposingKeeps
<1>4. CASE \E r \in Runs : ProposeOn(p, q, knobs, r)
  <2>1. PICK r \in Runs : ProposeOn(p, q, knobs, r)
    BY <1>4
  <2>2. PICK passed : passed = run[r].passed
    OBVIOUS
  <2>3. /\ Written(p, q, "pending_review", [k \in knobs |-> p], passed)
        /\ run'[r].phase = "stored" /\ basis' = [basis EXCEPT ![p] = r]
    BY <1>1, <2>1, <2>2 DEF ProposeOn, ProposePolicy
  <2> QED BY <1>1, <1>2, <2>3, ProposingKeeps
<1> QED BY <1>3, <1>4

LEMMA OptimizeKeeps ==
    ASSUME EvaluationsInv, LearningInv', NEW p \in Proposals, NEW r \in Runs, NEW versions \in [Policies -> Nat],
           NEW k \in Knobs, NEW passed \in BOOLEAN, Optimize(p, r, versions, k, passed)
    PROVE  EvaluationsInv'
<1>1. /\ UNCHANGED <<policyVersion, cases, judge>> /\ basis' = [basis EXCEPT ![p] = r]
      /\ RunEvaluation(r, versions, passed)
  BY DEF Optimize, OptimizeRetrieval
<1>2. PICK change : Written(p, "ranking", "pending_review", change, passed)
  BY DEF Optimize, OptimizeRetrieval
<1>3. run' \in [Runs -> {NoRun} \cup RunRow] /\ RunsKept /\ \A s \in Runs : run'[s].cases \subseteq cases'
  BY <1>1, RunSteps
<1>4. run'[r].phase = "stored"
  BY <1>1 DEF RunEvaluation, EvaluationsInv, EvaluationsTypeOK
<1> QED BY <1>1, <1>2, <1>3, <1>4, ProposingKeeps

LEMMA ReviewedKeeps ==
    ASSUME EvaluationsInv, LearningInv', NEW p \in Proposals, NEW decision, Review(p, decision)
    PROVE  EvaluationsInv'
<1>1. PICK status : /\ proposal[p].status # "applied" /\ proposal' = [proposal EXCEPT ![p].status = status]
                    /\ UNCHANGED <<policyVersion, cases, run, basis, judge>>
  BY DEF Review, ReviewProposal
<1>2. AppliedKept /\ \A o \in Proposals : proposal'[o].passed = proposal[o].passed
  BY <1>1, ReviewedOrApplied
<1>3. RunsKept
  BY <1>1 DEF RunsKept
<1>4. \A o \in Proposals : proposal'[o].passed => basis'[o] \in Runs /\ run'[basis'[o]].phase = "stored"
  BY <1>1, <1>2, <1>3, StoredBasis
<1>5. /\ cases' \subseteq Cases /\ run' \in [Runs -> {NoRun} \cup RunRow] /\ basis' \in [Proposals -> Runs \cup {"none"}]
      /\ \A s \in Runs : run'[s].cases \subseteq cases'
  BY <1>1 DEF EvaluationsInv, EvaluationsTypeOK, RunsOnRecord
<1> QED BY <1>1, <1>2, <1>3, <1>4, <1>5, NothingComesInForce

LEMMA RollbackKeeps ==
    ASSUME EvaluationsInv, LearningInv', NEW q \in Policies, NEW v \in DOMAIN policyVersion[q], Rollback(q, v)
    PROVE  EvaluationsInv'
<1>1. UNCHANGED <<proposal, cases, run, basis, judge>> /\ RollbackPolicy(q, v)
  BY DEF Rollback, RollbackPolicy
<1>2. PICK new : /\ policyVersion' = [policyVersion EXCEPT ![q] = new] /\ Len(new) = Len(policyVersion[q])
                 /\ \A w \in DOMAIN policyVersion[q] : new[w].summary = policyVersion[q][w].summary
  BY <1>1, RollbackPolicyDoes DEF EvaluationsInv
<1>3. \A o \in Policies : /\ Len(policyVersion'[o]) = Len(policyVersion[o])
                          /\ \A w \in DOMAIN policyVersion[o] :
                               policyVersion'[o][w].summary = policyVersion[o][w].summary
  BY <1>2 DEF EvaluationsInv, LearningInv, LearningTypeOK
<1>4. RunsKept /\ AppliedKept
  BY <1>1 DEF RunsKept, AppliedKept
<1>5. /\ cases' \subseteq Cases /\ run' \in [Runs -> {NoRun} \cup RunRow] /\ basis' \in [Proposals -> Runs \cup {"none"}]
      /\ \A s \in Runs : run'[s].cases \subseteq cases'
      /\ \A o \in Proposals : proposal'[o].passed => basis'[o] \in Runs /\ run'[basis'[o]].phase = "stored"
  BY <1>1 DEF EvaluationsInv, EvaluationsTypeOK, RunsOnRecord
<1> QED BY <1>1, <1>3, <1>4, <1>5, NothingComesInForce

\* A version comes in force with a judge of its own: those before keep theirs.
LEMMA VersionComesInForce ==
    ASSUME EvaluationsInv, RunsKept, AppliedKept,
           NEW q \in Policies, NEW new \in Seq(PolicyRow), NEW r \in Runs \cup {"none"}, NEW v \in Nat,
           v = Len(policyVersion[q]) + 1, Len(new) = v,
           policyVersion' = [policyVersion EXCEPT ![q] = new],
           \A w \in DOMAIN policyVersion[q] : new[w].summary = policyVersion[q][w].summary,
           judge' = [judge EXCEPT ![q] = Append(@, r)],
           new[v].summary = "own" => Gated(q, r, v)'
    PROVE  /\ judge' \in [Policies -> Seq(Runs \cup {"none"})] /\ GatesHeld'
           /\ \A o \in Policies : Len(judge'[o]) = Len(policyVersion'[o])
<1>1. /\ policyVersion \in [Policies -> Seq(PolicyRow)] /\ judge \in [Policies -> Seq(Runs \cup {"none"})]
      /\ \A o \in Policies : Len(judge[o]) = Len(policyVersion[o])
  BY DEF EvaluationsInv, EvaluationsTypeOK, RunsOnRecord, LearningInv, LearningTypeOK
<1>2. PICK rows : rows = Append(judge[q], r)
  OBVIOUS
<1>3. /\ rows \in Seq(Runs \cup {"none"}) /\ Len(rows) = v /\ DOMAIN rows = DOMAIN judge[q] \cup {v}
      /\ rows[v] = r /\ \A w \in DOMAIN judge[q] : rows[w] = judge[q][w]
  BY <1>1, <1>2
<1>4. judge' = [judge EXCEPT ![q] = rows]
  BY <1>1, <1>2
<1>5. judge' \in [Policies -> Seq(Runs \cup {"none"})] /\ judge'[q] = rows /\ policyVersion'[q] = new
  BY <1>1, <1>3, <1>4
<1>6. \A o \in Policies \ {q} : judge'[o] = judge[o] /\ policyVersion'[o] = policyVersion[o]
  BY <1>1, <1>4
<1>7. \A o \in Policies : Len(judge'[o]) = Len(policyVersion'[o])
  BY <1>1, <1>3, <1>5, <1>6
<1>8. \A w \in DOMAIN judge[q] : w \in DOMAIN policyVersion[q]
  BY <1>1
<1>9. ASSUME NEW o \in Policies, NEW w \in DOMAIN judge'[o], NEW s, judge'[o][w] = s,
             policyVersion'[o][w].summary = "own"
      PROVE  Gated(o, s, w)'
  <2>1. CASE o = q /\ w = v
    <3>1. s = r /\ policyVersion'[o][w] = new[v]
      BY <1>3, <1>5, <1>9, <2>1
    <3>2. Gated(q, r, v)'
      BY <1>9, <3>1
    <3> QED BY <2>1, <3>1, <3>2
  <2>2. CASE ~(o = q /\ w = v)
    <3>1. w \in DOMAIN judge[o] /\ judge[o][w] = s
      BY <1>3, <1>5, <1>6, <1>9, <2>2
    <3>2. policyVersion[o][w].summary = "own"
      BY <1>5, <1>6, <1>8, <1>9, <3>1
    <3>3. Gated(o, s, w)
      BY <3>1, <3>2 DEF EvaluationsInv, GatesHeld
    <3> QED BY <3>3, GatedStays
  <2> QED BY <2>1, <2>2
<1>10. GatesHeld'
  BY <1>9 DEF GatesHeld
<1> QED BY <1>5, <1>7, <1>10

\* What an application leaves alone and what it marks.
LEMMA ApplyKeepsRecords ==
    ASSUME EvaluationsInv, NEW p \in Proposals, NEW gated, ApplyPolicy(p, gated), basis' = basis, RunsKept
    PROVE  /\ AppliedKept /\ proposal'[p].target = proposal[p].target /\ proposal'[p].status = "applied"
           /\ \A o \in Proposals : proposal'[o].passed => basis'[o] \in Runs /\ run'[basis'[o]].phase = "stored"
<1>1. proposal[p].status = "approved" /\ proposal' = [proposal EXCEPT ![p].status = "applied"]
  BY DEF ApplyPolicy
<1>2. AppliedKept /\ \A o \in Proposals : proposal'[o].passed = proposal[o].passed
  BY <1>1, ReviewedOrApplied
<1>3. proposal[p] \in ProposalRow /\ proposal \in [Proposals -> {NoProposal} \cup ProposalRow]
  BY <1>1, AppliedTyped DEF EvaluationsInv, LearningInv, LearningTypeOK
<1>4. PICK row : row = [proposal[p] EXCEPT !.status = "applied"]
  OBVIOUS
<1>5. row.target = proposal[p].target /\ row.status = "applied"
  BY <1>3, <1>4 DEF ProposalRow
<1>6. proposal'[p] = row
  BY <1>1, <1>3, <1>4
<1> QED BY <1>2, <1>5, <1>6, StoredBasis

LEMMA ApplyUngatedKeeps ==
    ASSUME EvaluationsInv, LearningInv', NEW p \in Proposals, ApplyUngated(p)
    PROVE  EvaluationsInv'
<1>1. PICK gated : gated = FALSE
  OBVIOUS
<1>2. /\ ApplyPolicy(p, gated) /\ UNCHANGED <<cases, run, basis>> /\ gated \in BOOLEAN
      /\ judge' = [judge EXCEPT ![proposal[p].target] = Append(@, basis[p])]
  BY <1>1 DEF ApplyUngated
<1>3. RunsKept
  BY <1>2 DEF RunsKept
<1>4. /\ AppliedKept
      /\ \A o \in Proposals : proposal'[o].passed => basis'[o] \in Runs /\ run'[basis'[o]].phase = "stored"
  BY <1>2, <1>3, ApplyKeepsRecords
<1>5. PICK q : q = proposal[p].target
  OBVIOUS
<1>6. PICK new : new = policyVersion'[q]
  OBVIOUS
<1>7. /\ q \in Policies /\ policyVersion' = [policyVersion EXCEPT ![q] = new] /\ new \in Seq(PolicyRow)
      /\ Len(new) = Len(policyVersion[q]) + 1
      /\ \A v \in DOMAIN policyVersion[q] : new[v].summary = policyVersion[q][v].summary
      /\ new[Len(policyVersion[q]) + 1].summary # "own"
  BY <1>1, <1>2, <1>5, <1>6, ApplyPolicyDoes DEF EvaluationsInv
<1>8. PICK v \in Nat : v = Len(policyVersion[q]) + 1
  BY <1>7 DEF EvaluationsInv, LearningInv, LearningTypeOK
<1>9. PICK r \in Runs \cup {"none"} : r = basis[p]
  BY DEF EvaluationsInv, EvaluationsTypeOK
<1>10. judge' = [judge EXCEPT ![q] = Append(@, r)]
  BY <1>2, <1>5, <1>9
<1>11. /\ judge' \in [Policies -> Seq(Runs \cup {"none"})] /\ GatesHeld'
       /\ \A o \in Policies : Len(judge'[o]) = Len(policyVersion'[o])
  BY <1>3, <1>4, <1>7, <1>8, <1>10, VersionComesInForce
<1>12. EvaluationsTypeOK' /\ RunsOnRecord'
  BY <1>2, <1>4, <1>11 DEF EvaluationsInv, EvaluationsTypeOK, RunsOnRecord
<1> QED BY <1>11, <1>12 DEF EvaluationsInv

\* The version is asked itself, on the cases there are now: those of the run the
\* proposal names are among them.
LEMMA ApplyGatedKeeps ==
    ASSUME EvaluationsInv, LearningInv', NEW p \in Proposals, NEW r \in Runs, ApplyGated(p, r)
    PROVE  EvaluationsInv'
<1>1. PICK gated : gated = TRUE
  OBVIOUS
<1>2. /\ ApplyPolicy(p, gated) /\ UNCHANGED <<cases, basis>> /\ gated \in BOOLEAN /\ proposal[p].passed
      /\ judge' = [judge EXCEPT ![proposal[p].target] = Append(@, r)]
      /\ RunEvaluation(r, activeVersion', gated)
  BY <1>1 DEF ApplyGated, ApplyPolicy, Gate
<1>3. PICK versions \in [Policies -> Nat] : versions = activeVersion'
  BY DEF LearningInv, LearningTypeOK
<1>4. /\ run' \in [Runs -> {NoRun} \cup RunRow] /\ RunsKept
      /\ \A s \in Runs : run'[s].cases \subseteq cases'
  <2>1. RunEvaluation(r, versions, gated)
    BY <1>2, <1>3
  <2> QED BY <1>2, <2>1, RunSteps
<1>5. /\ AppliedKept /\ proposal'[p].target = proposal[p].target /\ proposal'[p].status = "applied"
      /\ \A o \in Proposals : proposal'[o].passed => basis'[o] \in Runs /\ run'[basis'[o]].phase = "stored"
  BY <1>2, <1>4, ApplyKeepsRecords
<1>6. PICK q : q = proposal[p].target
  OBVIOUS
<1>7. PICK new : new = policyVersion'[q]
  OBVIOUS
<1>8. /\ q \in Policies /\ policyVersion' = [policyVersion EXCEPT ![q] = new] /\ new \in Seq(PolicyRow)
      /\ Len(new) = Len(policyVersion[q]) + 1
      /\ \A v \in DOMAIN policyVersion[q] : new[v].summary = policyVersion[q][v].summary
      /\ activeVersion' = [activeVersion EXCEPT ![q] = Len(policyVersion[q]) + 1]
  BY <1>2, <1>6, <1>7, ApplyPolicyDoes DEF EvaluationsInv
<1>9. PICK v \in Nat : v = Len(policyVersion[q]) + 1
  BY <1>8 DEF EvaluationsInv, LearningInv, LearningTypeOK
<1>10. versions[q] = v
  BY <1>3, <1>8, <1>9 DEF EvaluationsInv, LearningInv, LearningTypeOK
<1>11. /\ run'[r].phase = "stored" /\ run'[r].passed /\ run'[r].versions[q] = v /\ run'[r].cases = cases
  BY <1>1, <1>2, <1>3, <1>10 DEF RunEvaluation, EvaluationsInv, EvaluationsTypeOK
<1>12. /\ basis[p] \in Runs /\ run'[basis[p]].phase = "stored" /\ run'[basis[p]].cases \subseteq cases
  BY <1>2, <1>4, StoredBasis DEF EvaluationsInv, RunsOnRecord, RunsKept
<1>13. Gated(q, r, v)'
  BY <1>2, <1>5, <1>6, <1>11, <1>12 DEF Gated
<1>14. r \in Runs \cup {"none"} /\ judge' = [judge EXCEPT ![q] = Append(@, r)]
  BY <1>2, <1>6
<1>15. /\ judge' \in [Policies -> Seq(Runs \cup {"none"})] /\ GatesHeld'
       /\ \A o \in Policies : Len(judge'[o]) = Len(policyVersion'[o])
  BY <1>4, <1>5, <1>8, <1>9, <1>13, <1>14, VersionComesInForce
<1>16. EvaluationsTypeOK' /\ RunsOnRecord'
  BY <1>2, <1>4, <1>5, <1>15 DEF EvaluationsInv, EvaluationsTypeOK, RunsOnRecord
<1> QED BY <1>15, <1>16 DEF EvaluationsInv

LEMMA EvaluationsStutter == EvaluationsInv /\ UNCHANGED evaluationVars => EvaluationsInv'
<1> SUFFICES ASSUME EvaluationsInv, UNCHANGED evaluationVars PROVE EvaluationsInv'
  OBVIOUS
<1>1. UNCHANGED <<learningVars, policyVersion, proposal, cases, run, basis, judge>>
  BY DEF evaluationVars, learningVars
<1>2. LearningInv'
  BY <1>1, LearningStutter DEF EvaluationsInv
<1>3. EvaluationsTypeOK' /\ RunsOnRecord' /\ GatesHeld'
  BY <1>1 DEF EvaluationsInv, EvaluationsTypeOK, RunsOnRecord, GatesHeld, Gated
<1> QED BY <1>2, <1>3 DEF EvaluationsInv

LEMMA EvaluationsStep == EvaluationsInv /\ [EvaluationsNext]_evaluationVars => EvaluationsInv'
<1> SUFFICES ASSUME EvaluationsInv, EvaluationsNext PROVE EvaluationsInv'
  BY EvaluationsStutter
<1>1. LearningInv'
  BY StepsOfLearning, LearningStep DEF EvaluationsInv
<1>2. ASSUME NEW r \in Runs, NEW passed \in BOOLEAN, StoreEvaluation(r, passed) PROVE EvaluationsInv'
  <2>1. PICK versions \in [Policies -> Nat] : versions = [q \in Policies |-> 0]
    OBVIOUS
  <2> QED BY <1>1, <1>2, <2>1, AskingKeeps
<1>3. ASSUME NEW r \in Runs, NEW passed \in BOOLEAN, NEW versions \in VersionsToAsk,
             \/ EvaluateInService(r, versions, passed)
             \/ EvaluateInLibrary(r, versions)
             \/ \E p \in Proposals, k \in Knobs : Optimize(p, r, versions, k, passed)
      PROVE  EvaluationsInv'
  <2>1. versions \in [Policies -> Nat]
    <3>1. versions \in [Policies -> 1..(Cardinality(Proposals) + 1)]
      BY <1>3 DEF VersionsToAsk
    <3>2. 1..(Cardinality(Proposals) + 1) \subseteq Nat
      OBVIOUS
    <3> QED BY <3>1, <3>2
  <2> QED BY <1>1, <1>3, <2>1, AskingKeeps, OptimizeKeeps
<1> QED BY <1>1, <1>2, <1>3, AddCaseKeeps, ProposeOnKeeps, ReviewedKeeps, ApplyUngatedKeeps, ApplyGatedKeeps,
           RollbackKeeps
        DEF EvaluationsNext

EvaluationsSpec == EvaluationsInit /\ [][EvaluationsNext]_evaluationVars

\* Whatever else came into force in between, and whatever case was added: a
\* version that came into force through the gate was itself asked and passed, on
\* every case of the run its proposal was made with.
THEOREM GatedJudged == EvaluationsSpec => []GatedVersionsWereJudged
<1>1. EvaluationsInit => EvaluationsInv
  BY EvaluationsInitInv
<1>2. EvaluationsInv /\ [EvaluationsNext]_evaluationVars => EvaluationsInv'
  BY EvaluationsStep
<1>3. EvaluationsInv => GatedVersionsWereJudged
  <2> SUFFICES ASSUME EvaluationsInv, NEW q \in Policies, NEW v \in DOMAIN judge[q],
                      policyVersion[q][v].summary = "own"
               PROVE  /\ run[judge[q][v]].passed
                      /\ run[judge[q][v]].versions[q] = v
                      /\ \E p \in Proposals : /\ proposal[p].target = q /\ proposal[p].status = "applied"
                                              /\ basis[p] # "none"
                                              /\ run[basis[p]].cases \subseteq run[judge[q][v]].cases
    BY DEF GatedVersionsWereJudged
  <2>1. PICK r : r = judge[q][v]
    OBVIOUS
  <2>2. Gated(q, r, v)
    BY <2>1 DEF EvaluationsInv, GatesHeld
  <2> QED BY <2>1, <2>2, EvaluationsAssumption DEF Gated
<1> QED BY <1>1, <1>2, <1>3, PTL DEF EvaluationsSpec

\* Evaluations and the gate in front of them add nothing to what policies and
\* procedures may do: every step is one of theirs or leaves them alone.
THEOREM EvaluationsImplementLearning == EvaluationsSpec => LearningSpec
<1>1. EvaluationsInit => EvaluationsInv /\ LearningInit
  BY EvaluationsInitInv DEF EvaluationsInit
<1>2. EvaluationsInv /\ [EvaluationsNext]_evaluationVars => EvaluationsInv'
  BY EvaluationsStep
<1>3. EvaluationsInv /\ [EvaluationsNext]_evaluationVars => [LearningNext]_learningVars
  BY StepsOfLearning
<1> QED BY <1>1, <1>2, <1>3, PTL DEF EvaluationsSpec, LearningSpec

-----------------------------------------------------------------------------
(* Entities.                                                               *)

MergeRead == [source : Entities, target : Entities, carried : SUBSET Names]

EntitiesTypeOK ==
    /\ text \in [Sources -> SUBSET Names]
    /\ claimed \in [Sources -> {"none", "candidate", "claim", "deleted"}]
    /\ mentioned \in [Sources -> SUBSET Entities]
    /\ proposed \in [Sources -> SUBSET Entities]
    /\ linked \in [Sources -> SUBSET Entities]
    /\ name \in [Entities -> Names \cup {"absent", "redacted"}]
    /\ alias \in [Names -> Entities \cup {NoEntity}]
    /\ given \subseteq Names
    /\ merging = NoMerge \/ merging \in MergeRead

\* An entity that is called by a name, and was not merged away, has the alias.
NamesAreAliases == \A e \in Entities \ merged : name[e] \in Names => alias[name[e]] = e

\* An alias that no caller brought is a name in some event that mentions the entity.
AliasesAreMentioned ==
    \A n \in Names \ given : alias[n] # NoEntity =>
        \E s \in Sources : n \in text[s] /\ alias[n] \in mentioned[s]

\* What is not extracted yet holds no name.
ExtractedOnly == \A s \in Sources : claimed[s] = "none" => text[s] = {}

EntitiesInv == EntitiesTypeOK /\ NamesAreAliases /\ AliasesAreMentioned /\ ExtractedOnly

\* There is no entity yet.
LEMMA EntitiesInitInv == EntitiesInit => EntitiesInv
BY EntitiesAssumption
DEF EntitiesInit, EntitiesInv, EntitiesTypeOK, NamesAreAliases, AliasesAreMentioned, ExtractedOnly, Entities

LEMMA EntityIsNotNone == \A e \in Entities : e # NoEntity
BY DEF Entities, NoEntity

\* New entities are called by names that nothing had.
LEMMA CreateKeeps ==
    ASSUME EntitiesInv, NEW N \in SUBSET Names, NEW type \in {"inferred", "chosen"}, Create(N, type),
           UNCHANGED merged
    PROVE  /\ name' \in [Entities -> Names \cup {"absent", "redacted"}]
           /\ alias' \in [Names -> Entities \cup {NoEntity}]
           /\ NamesAreAliases'
           /\ \A n \in Names \ N : alias'[n] = alias[n]
           /\ \A n \in N : alias'[n] # NoEntity => alias'[n] = Entity(n, type)
<1>1. /\ name' = [e \in Entities |->
                  IF e[1] \in N /\ e[2] = type /\ IsNew(e[1]) /\ name[e] = "absent" THEN e[1] ELSE name[e]]
      /\ alias' = [n \in Names |-> IF n \in N /\ IsNew(n) THEN <<n, type>> ELSE alias[n]]
  BY DEF Create
<1>2. /\ name \in [Entities -> Names \cup {"absent", "redacted"}]
      /\ alias \in [Names -> Entities \cup {NoEntity}]
      /\ NamesAreAliases
  BY DEF EntitiesInv, EntitiesTypeOK
<1>3. \A n \in Names : <<n, type>> \in Entities
  BY DEF Entities
<1>4. name' \in [Entities -> Names \cup {"absent", "redacted"}] /\ alias' \in [Names -> Entities \cup {NoEntity}]
  BY <1>1, <1>2, <1>3
<1>5. \A n \in N : alias'[n] # NoEntity => alias'[n] = Entity(n, type)
  BY <1>1 DEF IsNew, Entity
<1>6. ASSUME NEW e \in Entities \ merged, name'[e] \in Names PROVE alias'[name'[e]] = e
  <2>1. CASE name'[e] = name[e]
    <3>1. alias[name[e]] = e /\ e # NoEntity
      BY <1>2, <1>6, <2>1, EntityIsNotNone DEF NamesAreAliases
    <3> QED BY <1>1, <1>6, <2>1, <3>1 DEF IsNew
  <2>2. CASE name'[e] # name[e]
    <3>1. name'[e] = e[1] /\ e[1] \in N /\ e[2] = type /\ IsNew(e[1])
      BY <1>1, <1>6, <2>2
    <3>2. e = <<e[1], type>>
      BY <1>6, <3>1 DEF Entities
    <3> QED BY <1>1, <1>6, <3>1, <3>2
  <2> QED BY <2>1, <2>2
<1>7. NamesAreAliases'
  BY <1>6 DEF NamesAreAliases
<1> QED BY <1>1, <1>4, <1>5, <1>7

\* An entity that is found is one.
LEMMA EntityFound ==
    ASSUME EntitiesInv, NEW n \in Names, NEW type \in {"inferred", "chosen"}
    PROVE  Entity(n, type) \in Entities
<1>1. alias[n] \in Entities \cup {NoEntity}
  BY DEF EntitiesInv, EntitiesTypeOK
<1>2. Named(n) # {} => (CHOOSE e \in Named(n) : TRUE) \in Entities
  BY DEF Named
<1>3. <<n, type>> \in Entities
  BY DEF Entities
<1> QED BY <1>1, <1>2, <1>3 DEF Entity

\* A caller brings a name.
LEMMA ResolveKeeps ==
    ASSUME EntitiesInv, NEW n \in Names, NEW type \in {"inferred", "chosen"}, ResolveEntity(n, type)
    PROVE  EntitiesInv'
<1>1. Create({n}, type) /\ given' = given \cup {n}
      /\ UNCHANGED <<text, claimed, mentioned, proposed, linked, merged, merging>>
  BY DEF ResolveEntity
<1>2. /\ name' \in [Entities -> Names \cup {"absent", "redacted"}]
      /\ alias' \in [Names -> Entities \cup {NoEntity}]
      /\ NamesAreAliases'
      /\ \A m \in Names \ {n} : alias'[m] = alias[m]
  BY <1>1, CreateKeeps
<1>3. AliasesAreMentioned'
  BY <1>1, <1>2 DEF EntitiesInv, AliasesAreMentioned
<1> QED BY <1>1, <1>2, <1>3 DEF EntitiesInv, EntitiesTypeOK, ExtractedOnly

\* An event mentions what its names lead to.
LEMMA ExtractKeeps ==
    ASSUME EntitiesInv, NEW s \in Sources, NEW N \in SUBSET Names, Extract(s, N)
    PROVE  EntitiesInv'
<1> DEFINE found == {Entity(n, "inferred") : n \in N}
<1>1. /\ claimed[s] = "none" /\ text' = [text EXCEPT ![s] = N]
      /\ claimed' = [claimed EXCEPT ![s] = "candidate"]
      /\ Create(N, "inferred")
      /\ proposed' = [proposed EXCEPT ![s] = found] /\ mentioned' = [mentioned EXCEPT ![s] = found]
      /\ UNCHANGED <<linked, merged, given, merging>>
  BY DEF Extract
<1>2. found \subseteq Entities
  BY EntityFound
<1>3. /\ name' \in [Entities -> Names \cup {"absent", "redacted"}]
      /\ alias' \in [Names -> Entities \cup {NoEntity}]
      /\ NamesAreAliases'
      /\ \A m \in Names \ N : alias'[m] = alias[m]
      /\ \A n \in N : alias'[n] # NoEntity => alias'[n] = Entity(n, "inferred")
  BY <1>1, CreateKeeps
<1>4. \A n \in N : alias'[n] # NoEntity => alias'[n] \in found
  BY <1>3
<1> HIDE DEF found
<1>5. /\ text' \in [Sources -> SUBSET Names] /\ mentioned' \in [Sources -> SUBSET Entities]
      /\ proposed' \in [Sources -> SUBSET Entities]
      /\ claimed' \in [Sources -> {"none", "candidate", "claim", "deleted"}]
  BY <1>1, <1>2 DEF EntitiesInv, EntitiesTypeOK
<1>6. /\ text'[s] = N /\ mentioned'[s] = found /\ text[s] = {}
      /\ \A u \in Sources \ {s} : text'[u] = text[u] /\ mentioned'[u] = mentioned[u]
  BY <1>1 DEF EntitiesInv, EntitiesTypeOK, ExtractedOnly
<1>7. ASSUME NEW n \in Names \ given', alias'[n] # NoEntity
      PROVE  \E u \in Sources : n \in text'[u] /\ alias'[n] \in mentioned'[u]
  <2>1. CASE n \in N
    BY <1>4, <1>6, <1>7, <2>1
  <2>2. CASE n \notin N
    <3>1. alias'[n] = alias[n] /\ n \in Names \ given
      BY <1>1, <1>3, <1>7, <2>2
    <3> QED BY <1>6, <1>7, <3>1 DEF EntitiesInv, AliasesAreMentioned
  <2> QED BY <2>1, <2>2
<1>8. AliasesAreMentioned'
  BY <1>7 DEF AliasesAreMentioned
<1>9. ExtractedOnly'
  BY <1>1, <1>6 DEF EntitiesInv, EntitiesTypeOK, ExtractedOnly
<1> QED BY <1>1, <1>3, <1>5, <1>8, <1>9 DEF EntitiesInv, EntitiesTypeOK

\* The links of an entity follow it into another.
LEMMA MovedMentions ==
    ASSUME EntitiesInv, NEW from \in Entities, NEW into \in Entities, Moved(from, into)
    PROVE  /\ mentioned' \in [Sources -> SUBSET Entities]
           /\ proposed' \in [Sources -> SUBSET Entities]
           /\ linked' \in [Sources -> SUBSET Entities]
           /\ \A s \in Sources : \A e \in mentioned[s] :
                 IF e = from THEN into \in mentioned'[s] ELSE e \in mentioned'[s]
BY DEF Moved, EntitiesInv, EntitiesTypeOK

\* A merge keeps every alias mentioned, but for what a caller brings.
LEMMA MergeKeeps ==
    ASSUME EntitiesInv, NEW from \in Entities, NEW into \in Entities, NEW brought \in SUBSET Names,
           Merge(from, into, brought), given \subseteq given', given' \subseteq Names,
           \A n \in brought : alias[n] = NoEntity => n \in given',
           merging' = NoMerge \/ merging' = merging
    PROVE  EntitiesInv'
<1>1. /\ from # into /\ UNCHANGED <<text, claimed, name>>
      /\ alias' = [n \in Names |->
            IF alias[n] = from \/ (n \in brought /\ alias[n] = NoEntity) THEN into ELSE alias[n]]
      /\ Moved(from, into) /\ merged' = merged \cup {from}
  BY DEF Merge
<1>2. /\ mentioned' \in [Sources -> SUBSET Entities]
      /\ proposed' \in [Sources -> SUBSET Entities]
      /\ linked' \in [Sources -> SUBSET Entities]
      /\ \A s \in Sources : \A e \in mentioned[s] :
            IF e = from THEN into \in mentioned'[s] ELSE e \in mentioned'[s]
  BY <1>1, MovedMentions
<1>3. alias' \in [Names -> Entities \cup {NoEntity}]
  BY <1>1 DEF EntitiesInv, EntitiesTypeOK
<1>4. NamesAreAliases'
  BY <1>1, EntityIsNotNone DEF EntitiesInv, NamesAreAliases
<1>5. ASSUME NEW n \in Names \ given', alias'[n] # NoEntity
      PROVE  \E s \in Sources : n \in text'[s] /\ alias'[n] \in mentioned'[s]
  <2>1. n \in Names \ given /\ alias[n] # NoEntity
    BY <1>1, <1>5, EntityIsNotNone
  <2>2. PICK s \in Sources : n \in text[s] /\ alias[n] \in mentioned[s]
    BY <2>1 DEF EntitiesInv, AliasesAreMentioned
  <2>3. alias'[n] = IF alias[n] = from THEN into ELSE alias[n]
    BY <1>1, <2>1
  <2>4. n \in text'[s] /\ alias'[n] \in mentioned'[s]
    BY <1>1, <1>2, <2>2, <2>3
  <2> QED BY <2>4
<1>6. AliasesAreMentioned'
  BY <1>5 DEF AliasesAreMentioned
<1> QED BY <1>1, <1>2, <1>3, <1>4, <1>6 DEF EntitiesInv, EntitiesTypeOK, ExtractedOnly

\* In a service nothing happens in between: a name without an alias is that of a
\* source that was merged away.
LEMMA MergeInServiceKeeps ==
    ASSUME EntitiesInv, NEW from \in Entities, NEW into \in Entities, MergeInService(from, into)
    PROVE  EntitiesInv'
<1>1. /\ Merge(from, into, Carried(from)) /\ merging' = merging
      /\ given' = given \cup Brought(from, {})
  BY DEF MergeInService
<1>2. Carried(from) \in SUBSET Names /\ Brought(from, {}) \subseteq Names
  BY DEF Carried, Brought
<1>3. ASSUME NEW n \in Carried(from), alias[n] = NoEntity PROVE n \in given'
  <2>1. n \in Names /\ name[from] = n
    BY <1>3, EntityIsNotNone DEF Carried
  <2>2. from \in merged
    BY <1>3, <2>1, EntityIsNotNone DEF EntitiesInv, NamesAreAliases
  <2> QED BY <1>1, <2>1, <2>2 DEF Brought
<1>4. given \subseteq given' /\ given' \subseteq Names
  BY <1>1, <1>2 DEF EntitiesInv, EntitiesTypeOK
<1> QED BY <1>1, <1>2, <1>3, <1>4, MergeKeeps

\* A library brings the names it has read.
LEMMA MergeInLibraryKeeps == ASSUME EntitiesInv, MergeInLibrary PROVE EntitiesInv'
<1>1. merging \in MergeRead /\ merging' = NoMerge
  BY DEF MergeInLibrary, EntitiesInv, EntitiesTypeOK
<1> DEFINE from == merging.source
           into == merging.target
           brought == merging.carried
<1>2. from \in Entities /\ into \in Entities /\ brought \in SUBSET Names
  BY <1>1 DEF MergeRead
<1>3. \/ /\ Merge(from, into, brought)
         /\ given' = given \cup Brought(from, brought)
      \/ UNCHANGED <<text, claimed, mentioned, proposed, linked, name, merged, alias, given>>
  BY DEF MergeInLibrary
<1> HIDE DEF from, into, brought
<1>4. CASE UNCHANGED <<text, claimed, mentioned, proposed, linked, name, merged, alias, given>>
  BY <1>1, <1>4 DEF EntitiesInv, EntitiesTypeOK, NamesAreAliases, AliasesAreMentioned, ExtractedOnly
<1>5. CASE Merge(from, into, brought) /\ given' = given \cup Brought(from, brought)
  <2>1. brought \subseteq Brought(from, brought) /\ Brought(from, brought) \subseteq Names
    BY <1>2 DEF Brought
  <2>2. given \subseteq given' /\ given' \subseteq Names /\ \A n \in brought : n \in given'
    BY <1>5, <2>1 DEF EntitiesInv, EntitiesTypeOK
  <2> QED BY <1>1, <1>2, <1>5, <2>2, MergeKeeps
<1> QED BY <1>3, <1>4, <1>5

\* Entities that are erased have no name and no alias left.
LEMMA ErasedKeeps ==
    ASSUME EntitiesInv, NEW E \in SUBSET Entities, Erased(E), UNCHANGED <<mentioned, given>>,
           NEW S \in SUBSET Sources,
           \A s \in Sources \ S : text'[s] = text[s], \A s \in S : mentioned[s] \subseteq E
    PROVE  /\ name' \in [Entities -> Names \cup {"absent", "redacted"}]
           /\ alias' \in [Names -> Entities \cup {NoEntity}]
           /\ NamesAreAliases' /\ AliasesAreMentioned'
<1>1. /\ name' = [e \in Entities |-> IF e \in E THEN "redacted" ELSE name[e]]
      /\ alias' = [n \in Names |-> IF alias[n] \in E THEN NoEntity ELSE alias[n]]
      /\ merged' = merged \ E
  BY DEF Erased
<1>2. /\ name' \in [Entities -> Names \cup {"absent", "redacted"}]
      /\ alias' \in [Names -> Entities \cup {NoEntity}]
  BY <1>1 DEF EntitiesInv, EntitiesTypeOK
<1>3. ASSUME NEW e \in Entities \ merged', name'[e] \in Names PROVE alias'[name'[e]] = e
  <2>1. e \notin E /\ name'[e] = name[e] /\ e \notin merged
    BY <1>1, <1>3, EntitiesAssumption
  <2> QED BY <1>1, <1>3, <2>1 DEF EntitiesInv, NamesAreAliases
<1>4. ASSUME NEW n \in Names \ given', alias'[n] # NoEntity
      PROVE  \E s \in Sources : n \in text'[s] /\ alias'[n] \in mentioned'[s]
  <2>1. alias'[n] = alias[n] /\ alias[n] \notin E
    BY <1>1, <1>4
  <2>2. PICK s \in Sources : n \in text[s] /\ alias[n] \in mentioned[s]
    BY <1>4, <2>1 DEF EntitiesInv, AliasesAreMentioned
  <2>3. s \notin S
    BY <2>1, <2>2
  <2> QED BY <2>1, <2>2, <2>3
<1> QED BY <1>2, <1>3, <1>4 DEF NamesAreAliases, AliasesAreMentioned

\* A redaction or a deletion of evidence, of a claim.
LEMMA DeletionKeeps ==
    ASSUME EntitiesInv, NEW s \in Sources, RedactEvidence(s) \/ RedactClaim(s) \/ HardDeleteClaim(s)
    PROVE  EntitiesInv'
<1>1. mentioned[s] \in SUBSET Entities /\ linked[s] \in SUBSET Entities
  BY DEF EntitiesInv, EntitiesTypeOK
<1>2. ASSUME RedactEvidence(s) PROVE EntitiesInv'
  <2>1. /\ text' = [text EXCEPT ![s] = {}] /\ Erased(mentioned[s] \cup linked[s])
        /\ UNCHANGED <<claimed, mentioned, proposed, linked, given, merging>>
    BY <1>2 DEF RedactEvidence
  <2>2. text' \in [Sources -> SUBSET Names] /\ \A u \in Sources \ {s} : text'[u] = text[u]
    BY <2>1 DEF EntitiesInv, EntitiesTypeOK
  <2>3. /\ name' \in [Entities -> Names \cup {"absent", "redacted"}]
        /\ alias' \in [Names -> Entities \cup {NoEntity}]
        /\ NamesAreAliases' /\ AliasesAreMentioned'
    <3> DEFINE E == mentioned[s] \cup linked[s]
               S == {s}
    <3>1. E \in SUBSET Entities /\ S \in SUBSET Sources /\ \A u \in S : mentioned[u] \subseteq E
      BY <1>1
    <3>2. Erased(E) /\ \A u \in Sources \ S : text'[u] = text[u]
      BY <2>1, <2>2
    <3> HIDE DEF E, S
    <3> QED BY <2>1, <3>1, <3>2, ErasedKeeps
  <2>4. ExtractedOnly'
    BY <2>1 DEF EntitiesInv, EntitiesTypeOK, ExtractedOnly
  <2> QED BY <2>1, <2>2, <2>3, <2>4 DEF EntitiesInv, EntitiesTypeOK
<1>3. ASSUME RedactClaim(s) \/ HardDeleteClaim(s) PROVE EntitiesInv'
  <2>1. Erased(linked[s]) /\ UNCHANGED <<text, mentioned, proposed, given, merging>>
    BY <1>3 DEF RedactClaim, HardDeleteClaim
  <2>2. /\ name' \in [Entities -> Names \cup {"absent", "redacted"}]
        /\ alias' \in [Names -> Entities \cup {NoEntity}]
        /\ NamesAreAliases' /\ AliasesAreMentioned'
    <3> DEFINE S == {}
    <3>1. S \in SUBSET Sources /\ \A u \in S : mentioned[u] \subseteq linked[s]
      OBVIOUS
    <3>2. \A u \in Sources \ S : text'[u] = text[u]
      BY <2>1
    <3> HIDE DEF S
    <3> QED BY <1>1, <2>1, <3>1, <3>2, ErasedKeeps
  <2>3. /\ claimed' \in [Sources -> {"none", "candidate", "claim", "deleted"}]
        /\ linked' \in [Sources -> SUBSET Entities] /\ ExtractedOnly'
    BY <1>3, <2>1 DEF RedactClaim, HardDeleteClaim, EntitiesInv, EntitiesTypeOK, ExtractedOnly
  <2> QED BY <2>1, <2>2, <2>3 DEF EntitiesInv, EntitiesTypeOK
<1> QED BY <1>2, <1>3

LEMMA EntitiesStep == EntitiesInv /\ [EntitiesNext]_entityVars => EntitiesInv'
<1> SUFFICES ASSUME EntitiesInv, [EntitiesNext]_entityVars PROVE EntitiesInv'
  OBVIOUS
<1>1. ASSUME NEW s \in Sources, PromoteMentions(s) PROVE EntitiesInv'
  <2>1. UNCHANGED <<text, mentioned, proposed, name, merged, alias, given, merging>>
    BY <1>1 DEF PromoteMentions
  <2>2. /\ claimed' \in [Sources -> {"none", "candidate", "claim", "deleted"}]
        /\ linked' \in [Sources -> SUBSET Entities] /\ ExtractedOnly'
    BY <1>1 DEF PromoteMentions, EntitiesInv, EntitiesTypeOK, ExtractedOnly
  <2> QED BY <2>1, <2>2 DEF EntitiesInv, EntitiesTypeOK, NamesAreAliases, AliasesAreMentioned
<1>2. ASSUME NEW e \in Entities, NEW f \in Entities, ReadForMerge(e, f) PROVE EntitiesInv'
  <2>1. /\ merging' = [source |-> e, target |-> f, carried |-> Carried(e)]
        /\ UNCHANGED <<text, claimed, mentioned, proposed, linked, name, merged, alias, given>>
    BY <1>2 DEF ReadForMerge
  <2>2. merging' \in MergeRead
    BY <2>1 DEF MergeRead, Carried
  <2> QED BY <2>1, <2>2 DEF EntitiesInv, EntitiesTypeOK, NamesAreAliases, AliasesAreMentioned, ExtractedOnly
<1>3. ASSUME UNCHANGED entityVars PROVE EntitiesInv'
  BY <1>3 DEF entityVars, EntitiesInv, EntitiesTypeOK, NamesAreAliases, AliasesAreMentioned, ExtractedOnly
<1> QED BY <1>1, <1>2, <1>3, ResolveKeeps, ExtractKeeps, DeletionKeeps, MergeInServiceKeeps, MergeInLibraryKeeps
        DEF EntitiesNext

\* A name that no event holds and no caller brought has no alias, and what is
\* called by it was merged away.
LEMMA NamesForgotten == EntitiesInv => ErasedNamesLeaveEntities
<1> SUFFICES ASSUME EntitiesInv, NEW n \in Names \ (given \cup UNION {text[s] : s \in Sources})
             PROVE  alias[n] = NoEntity /\ Named(n) \subseteq merged
  BY DEF ErasedNamesLeaveEntities
<1>1. alias[n] = NoEntity
  BY DEF EntitiesInv, AliasesAreMentioned
<1>2. Named(n) \subseteq merged
  BY <1>1, EntityIsNotNone DEF Named, EntitiesInv, NamesAreAliases
<1> QED BY <1>1, <1>2

EntitiesSpec == EntitiesInit /\ [][EntitiesNext]_entityVars

\* Once every event that holds a name is redacted, no alias says it and no entity
\* that was not merged away is called by it, however entities were merged.
THEOREM EntitiesForget == EntitiesSpec => []ErasedNamesLeaveEntities
<1>1. EntitiesInit => EntitiesInv
  BY EntitiesInitInv
<1>2. EntitiesInv /\ [EntitiesNext]_entityVars => EntitiesInv'
  BY EntitiesStep
<1> QED BY <1>1, <1>2, NamesForgotten, PTL DEF EntitiesSpec

-----------------------------------------------------------------------------
(* Sessions.                                                               *)

StatementStatuses == {"absent", "pending", "active", "core", "retired"}

SessionsInv ==
    /\ statement \in [Statements -> StatementStatuses]
    /\ title \in [Projects -> ProjectTitles \cup {"none"}]
    /\ ended \subseteq Statements /\ source \subseteq Statements
    /\ RequestsAreWhole

\* Nothing is stated yet.
LEMMA SessionsInitInv == SessionsInit => SessionsInv
BY DEF SessionsInit, SessionsInv, StatementStatuses, RequestsAreWhole

\* A request that is carried out leaves its evidence and its statement, any other
\* neither.
LEMMA StatedWhole ==
    ASSUME SessionsInv, NEW s \in Statements, NEW status \in {"active", "pending"}, NEW done \in 0..3,
           Stated(s, status, done)
    PROVE  \/ /\ done = 3
              /\ source' = source \cup {s} /\ statement' = [statement EXCEPT ![s] = status]
           \/ done # 3 /\ UNCHANGED <<source, statement>>
BY DEF Stated, Ingested, Committed

\* What is stated anew is there, and takes no title away.
LEMMA StatedKeeps ==
    ASSUME SessionsInv, NEW s \in Statements, NEW status \in {"active", "pending"}, NEW done \in 0..3,
           Stated(s, status, done), UNCHANGED <<title, withdrawn>>,
           s \in Projects \X ProjectTitles => status = "active" \/ statement[s] = "absent",
           ended' \subseteq ended \cup {s}, done # 3 => ended' = ended
    PROVE  SessionsInv'
<1>1. CASE done = 3
  <2>1. source' = source \cup {s} /\ statement' = [statement EXCEPT ![s] = status]
    BY <1>1, StatedWhole
  <2>2. /\ statement' \in [Statements -> StatementStatuses]
        /\ title' \in [Projects -> ProjectTitles \cup {"none"}]
        /\ ended' \subseteq Statements /\ source' \subseteq Statements
    BY <2>1 DEF SessionsInv, StatementStatuses
  <2>3. ASSUME NEW u \in ended' \cup source' PROVE statement'[u] # "absent" \/ u \in withdrawn'
    BY <2>1, <2>3 DEF SessionsInv, RequestsAreWhole
  <2>4. ASSUME NEW p \in Projects, title'[p] # "none"
        PROVE  \E t \in ProjectTitles : statement'[<<p, t>>] \in Citable \/ <<p, t>> \in withdrawn'
    <3>1. PICK t \in ProjectTitles : statement[<<p, t>>] \in Citable \/ <<p, t>> \in withdrawn
      BY <2>4 DEF SessionsInv, RequestsAreWhole
    <3>2. <<p, t>> \in Statements /\ <<p, t>> \in Projects \X ProjectTitles
      BY DEF Statements
    <3>3. statement'[<<p, t>>] \in Citable \/ <<p, t>> \in withdrawn'
      BY <2>1, <3>1, <3>2 DEF Citable, SessionsInv
    <3> QED BY <3>3
  <2> QED BY <2>2, <2>3, <2>4 DEF SessionsInv, RequestsAreWhole
<1>2. CASE done # 3
  BY <1>2, StatedWhole DEF SessionsInv, RequestsAreWhole
<1> QED BY <1>1, <1>2

\* A project gets a title and the statement of it at once.
LEMMA CreateProjectKeeps ==
    ASSUME SessionsInv, NEW p \in Projects, NEW t \in ProjectTitles, NEW done \in 0..3, CreateProject(p, t, done)
    PROVE  SessionsInv'
<1> DEFINE new == <<p, t>>
<1>1. new \in Statements /\ new \in Projects \X ProjectTitles
  BY DEF Statements
<1>2. /\ title' = IF done = 3 THEN [title EXCEPT ![p] = t] ELSE title
      /\ UNCHANGED <<meeting, ended, withdrawn>>
  BY DEF CreateProject, Committed
<1>3. \/ /\ \E u \in ProjectTitles : statement[<<p, u>>] \in Citable
         /\ UNCHANGED <<source, statement>>
      \/ Stated(new, "active", done)
  BY DEF CreateProject
<1>4. CASE done # 3
  <2>1. UNCHANGED <<title, source, statement>>
    BY <1>1, <1>2, <1>3, <1>4, StatedWhole
  <2> QED BY <1>2, <2>1 DEF SessionsInv, RequestsAreWhole
<1>5. CASE done = 3
  <2>1. \/ UNCHANGED <<source, statement>> /\ \E u \in ProjectTitles : statement[<<p, u>>] \in Citable
        \/ source' = source \cup {new} /\ statement' = [statement EXCEPT ![new] = "active"]
    BY <1>1, <1>3, <1>5, StatedWhole
  <2>2. /\ statement' \in [Statements -> StatementStatuses]
        /\ title' \in [Projects -> ProjectTitles \cup {"none"}]
        /\ ended' \subseteq Statements /\ source' \subseteq Statements
    BY <1>1, <1>2, <2>1 DEF SessionsInv, StatementStatuses
  <2>3. ASSUME NEW u \in ended' \cup source' PROVE statement'[u] # "absent" \/ u \in withdrawn'
    BY <1>1, <1>2, <2>1, <2>3 DEF SessionsInv, RequestsAreWhole
  <2>4. ASSUME NEW s \in Statements, statement[s] \in Citable PROVE statement'[s] \in Citable
    BY <1>1, <2>1, <2>4 DEF SessionsInv, Citable
  <2>5. ASSUME NEW q \in Projects, title'[q] # "none"
        PROVE  \E u \in ProjectTitles : statement'[<<q, u>>] \in Citable \/ <<q, u>> \in withdrawn'
    <3>1. \A u \in ProjectTitles : <<q, u>> \in Statements
      BY DEF Statements
    <3>2. CASE q = p /\ UNCHANGED statement
      BY <1>1, <2>1, <3>2 DEF SessionsInv, Citable
    <3>3. CASE q = p /\ statement' = [statement EXCEPT ![new] = "active"]
      BY <1>1, <3>3 DEF SessionsInv, Citable
    <3>4. CASE q # p
      <4>1. title[q] # "none"
        BY <1>2, <2>5, <3>4 DEF SessionsInv
      <4>2. PICK u \in ProjectTitles : statement[<<q, u>>] \in Citable \/ <<q, u>> \in withdrawn
        BY <4>1 DEF SessionsInv, RequestsAreWhole
      <4> QED BY <1>2, <2>4, <3>1, <4>2
    <3> QED BY <2>1, <3>2, <3>3, <3>4
  <2> QED BY <2>2, <2>3, <2>5 DEF SessionsInv, RequestsAreWhole
<1> QED BY <1>4, <1>5

\* A session ends with its summary.
LEMMA EndSessionKeeps ==
    ASSUME SessionsInv, NEW m \in Meetings, NEW s \in Summaries, NEW status \in {"active", "pending"},
           NEW done \in 0..3, EndSession(m, s, status, done)
    PROVE  SessionsInv'
<1>1. s \in Statements /\ s \notin Projects \X ProjectTitles
  BY SessionsAssumption DEF Statements, Summaries
<1>2. ended' \subseteq ended \cup {s} /\ (done # 3 => ended' = ended)
  BY DEF EndSession, Committed
<1> QED BY <1>1, <1>2, StatedKeeps DEF EndSession

LEMMA SessionsStep == SessionsInv /\ [SessionsNext]_sessionVars => SessionsInv'
<1> SUFFICES ASSUME SessionsInv, [SessionsNext]_sessionVars PROVE SessionsInv'
  OBVIOUS
<1>1. ASSUME NEW p \in Projects, NEW t \in ProjectTitles, NEW done \in 0..3, CreateProject(p, t, done)
      PROVE  SessionsInv'
  BY <1>1, CreateProjectKeeps
<1>2. ASSUME NEW m \in Meetings, StartSession(m) \/ EndQuietly(m) PROVE SessionsInv'
  BY <1>2 DEF StartSession, EndQuietly, SessionsInv, RequestsAreWhole
<1>3. ASSUME NEW m \in Meetings, NEW s \in Summaries, NEW status \in {"active", "pending"},
             NEW done \in 0..3, EndSession(m, s, status, done)
      PROVE  SessionsInv'
  BY <1>3, EndSessionKeeps
<1>4. ASSUME NEW n \in Notes, NEW status \in {"active", "pending"}, NEW done \in 0..3, Remember(n, status, done)
      PROVE  SessionsInv'
  <2>1. n \in Statements
    BY DEF Statements
  <2> QED BY <1>4, <2>1, StatedKeeps DEF Remember
<1>5. ASSUME NEW s \in Statements, NEW status \in {"absent", "active", "core", "retired"}, Reconsider(s, status)
      PROVE  SessionsInv'
  BY <1>5 DEF Reconsider, SessionsInv, RequestsAreWhole, StatementStatuses
<1>6. ASSUME UNCHANGED sessionVars PROVE SessionsInv'
  BY <1>6 DEF sessionVars, SessionsInv, RequestsAreWhole
<1> QED BY <1>1, <1>2, <1>3, <1>4, <1>5, <1>6 DEF SessionsNext

SessionsSpec == SessionsInit /\ [][SessionsNext]_sessionVars

\* Whichever write of a request fails, a session that was ended with a summary
\* left it in memory, a project is known by a title, and evidence of a statement
\* has its statement, until somebody decides about it.
THEOREM RequestsWhole == SessionsSpec => []RequestsAreWhole
<1>1. SessionsInit => SessionsInv
  BY SessionsInitInv
<1>2. SessionsInv /\ [SessionsNext]_sessionVars => SessionsInv'
  BY SessionsStep
<1>3. SessionsInv => RequestsAreWhole
  BY DEF SessionsInv
<1> QED BY <1>1, <1>2, <1>3, PTL DEF SessionsSpec

-----------------------------------------------------------------------------
(* Review tasks.                                                           *)

Task == [status : Unsettled \cup Closed, says : {"live", "redacted"}]

TasksTypeOK ==
    /\ waiting \in [Targets -> {"absent", "pending", "decided"}]
    /\ wording \in [Targets -> {"live", "redacted"}]
    /\ tasks \in [Targets -> Seq(Task)]
    /\ reader = NoReader \/ reader \in [target : Targets, says : {"live", "redacted"}]
    /\ carried \subseteq Targets

\* What a library has read of a target is what the target says, unless it was
\* redacted since and is known to have been carried.
ReaderIsCurrent ==
    reader # NoReader /\ reader.target \notin carried /\ wording[reader.target] = "redacted" =>
        reader.says = "redacted"

TasksInv == TasksTypeOK /\ ReaderIsCurrent /\ TasksFollowTheirTargets

\* Nothing waits.
LEMMA TasksInitInv == TasksInit => TasksInv
<1> SUFFICES ASSUME TasksInit PROVE TasksInv
  OBVIOUS
<1>1. tasks \in [Targets -> Seq(Task)] /\ \A t \in Targets : tasks[t] = <<>>
  BY DEF TasksInit
<1> QED BY <1>1 DEF TasksInit, TasksInv, TasksTypeOK, ReaderIsCurrent, TasksFollowTheirTargets

\* A task of one target changes its status.
LEMMA TransitionKeeps ==
    ASSUME TasksInv, NEW t \in Targets, NEW i \in DOMAIN tasks[t],
           NEW status \in {"resolved", "dismissed", "deferred"}, Transition(t, i, status)
    PROVE  TasksInv'
<1>1. /\ tasks' = [tasks EXCEPT ![t][i].status = status]
      /\ UNCHANGED <<waiting, wording, reader, carried>>
  BY DEF Transition
<1> DEFINE row == [tasks[t][i] EXCEPT !.status = status]
           rows == [tasks[t] EXCEPT ![i] = row]
<1>2. tasks[t] \in Seq(Task) /\ tasks[t][i] \in Task
  BY DEF TasksInv, TasksTypeOK
<1>3. row \in Task /\ row.says = tasks[t][i].says
  BY <1>2 DEF Task, Unsettled, Closed
<1>4. tasks' = [tasks EXCEPT ![t] = rows]
  BY <1>1
<1> HIDE DEF row
<1>5. rows \in Seq(Task) /\ Len(rows) = Len(tasks[t]) /\ DOMAIN rows = DOMAIN tasks[t]
  BY <1>2, <1>3
<1>6. \A k \in DOMAIN rows : rows[k].says = tasks[t][k].says
  BY <1>2, <1>3
<1> HIDE DEF rows
<1>7. tasks' \in [Targets -> Seq(Task)] /\ \A u \in Targets \ {t} : tasks'[u] = tasks[u]
  BY <1>4, <1>5 DEF TasksInv, TasksTypeOK
<1>8. tasks'[t] = rows
  BY <1>4 DEF TasksInv, TasksTypeOK
<1>9. TasksFollowTheirTargets'
  BY <1>1, <1>5, <1>6, <1>7, <1>8 DEF TasksInv, TasksFollowTheirTargets
<1> QED BY <1>1, <1>7, <1>9 DEF TasksInv, TasksTypeOK, ReaderIsCurrent

\* So do all open tasks of a target that the console decides about.
LEMMA DecideOnConsoleKeeps ==
    ASSUME TasksInv, NEW t \in Targets, DecideOnConsole(t)
    PROVE  TasksInv'
<1> DEFINE row(i) == IF tasks[t][i].status = "open" THEN [tasks[t][i] EXCEPT !.status = "resolved"] ELSE tasks[t][i]
           rows == [i \in DOMAIN tasks[t] |-> row(i)]
<1>1. /\ tasks' = [tasks EXCEPT ![t] = rows] /\ waiting' = [waiting EXCEPT ![t] = "decided"]
      /\ UNCHANGED <<wording, reader, carried>>
  BY DEF DecideOnConsole
<1>2. tasks[t] \in Seq(Task) /\ \A i \in DOMAIN tasks[t] : tasks[t][i] \in Task
  BY DEF TasksInv, TasksTypeOK
<1>3. \A i \in DOMAIN tasks[t] : row(i) \in Task /\ row(i).says = tasks[t][i].says
  BY <1>2 DEF Task, Unsettled, Closed
<1> HIDE DEF row
<1>5. rows \in Seq(Task) /\ Len(rows) = Len(tasks[t]) /\ DOMAIN rows = DOMAIN tasks[t]
  BY <1>2, <1>3
<1>6. \A k \in DOMAIN rows : rows[k].says = tasks[t][k].says
  BY <1>2, <1>3
<1> HIDE DEF rows
<1>7. tasks' \in [Targets -> Seq(Task)] /\ \A u \in Targets \ {t} : tasks'[u] = tasks[u]
  BY <1>1, <1>5 DEF TasksInv, TasksTypeOK
<1>8. tasks'[t] = rows
  BY <1>1 DEF TasksInv, TasksTypeOK
<1>9. TasksFollowTheirTargets'
  BY <1>1, <1>5, <1>6, <1>7, <1>8 DEF TasksInv, TasksFollowTheirTargets
<1> QED BY <1>1, <1>7, <1>9 DEF TasksInv, TasksTypeOK, ReaderIsCurrent

\* A redaction scrubs every task of its target, and marks what is being read.
LEMMA RedactKeeps ==
    ASSUME TasksInv, NEW t \in Targets, Redact(t)
    PROVE  TasksInv'
<1> DEFINE row(i) == [tasks[t][i] EXCEPT !.says = "redacted"]
           rows == [i \in DOMAIN tasks[t] |-> row(i)]
<1>1. /\ tasks' = [tasks EXCEPT ![t] = rows] /\ wording' = [wording EXCEPT ![t] = "redacted"]
      /\ \E status \in {"pending", "decided"} : waiting' = [waiting EXCEPT ![t] = status]
      /\ carried' = IF reader.target = t THEN carried \cup {t} ELSE carried
      /\ reader' = reader /\ t \notin Flags
  BY DEF Redact, Scrubbed
<1>2. tasks[t] \in Seq(Task) /\ \A i \in DOMAIN tasks[t] : tasks[t][i] \in Task
  BY DEF TasksInv, TasksTypeOK
<1>3. \A i \in DOMAIN tasks[t] : row(i) \in Task /\ row(i).says = "redacted"
  BY <1>2 DEF Task
<1> HIDE DEF row
<1>5. rows \in Seq(Task) /\ DOMAIN rows = DOMAIN tasks[t]
  BY <1>2, <1>3
<1>6. \A k \in DOMAIN rows : rows[k].says = "redacted"
  BY <1>3
<1> HIDE DEF rows
<1>7. tasks' \in [Targets -> Seq(Task)] /\ \A u \in Targets \ {t} : tasks'[u] = tasks[u]
  BY <1>1, <1>5 DEF TasksInv, TasksTypeOK
<1>8. tasks'[t] = rows /\ \A u \in Targets \ {t} : wording'[u] = wording[u]
  BY <1>1 DEF TasksInv, TasksTypeOK
<1>9. TasksFollowTheirTargets'
  BY <1>1, <1>5, <1>6, <1>7, <1>8 DEF TasksInv, TasksFollowTheirTargets
<1>10. waiting' \in [Targets -> {"absent", "pending", "decided"}] /\ wording' \in [Targets -> {"live", "redacted"}]
  BY <1>1 DEF TasksInv, TasksTypeOK
<1>11. ReaderIsCurrent'
  BY <1>1, <1>8 DEF TasksInv, TasksTypeOK, ReaderIsCurrent, NoReader
<1> QED BY <1>1, <1>7, <1>9, <1>10, <1>11 DEF TasksInv, TasksTypeOK

\* One task more.
LEMMA AppendedTask ==
    ASSUME NEW s \in Seq(Task), NEW says \in {"live", "redacted"}
    PROVE  /\ Append(s, NewTask(says)) \in Seq(Task)
           /\ Len(Append(s, NewTask(says))) = Len(s) + 1
           /\ \A i \in DOMAIN Append(s, NewTask(says)) :
                 Append(s, NewTask(says))[i].says = IF i = Len(s) + 1 THEN says ELSE s[i].says
           /\ DOMAIN Append(s, NewTask(says)) = DOMAIN s \cup {Len(s) + 1}
<1>1. NewTask(says) \in Task /\ NewTask(says).says = says
  BY DEF NewTask, Task, Unsettled
<1> QED BY <1>1

\* The tasks of everything that waits say what it says.
LEMMA GenerateKeeps == ASSUME TasksInv, Generate PROVE TasksInv'
<1> DEFINE new(t) == t \in Objects /\ Wanted(t)
<1>1. /\ tasks' = [t \in Targets |-> IF new(t) THEN Append(tasks[t], NewTask(wording[t])) ELSE tasks[t]]
      /\ UNCHANGED <<waiting, wording, reader, carried>>
  BY DEF Generate
<1> HIDE DEF new
<1>2. \A t \in Targets : tasks[t] \in Seq(Task) /\ wording[t] \in {"live", "redacted"}
  BY DEF TasksInv, TasksTypeOK
<1>3. tasks' \in [Targets -> Seq(Task)]
  BY <1>1, <1>2, AppendedTask
<1>4. ASSUME NEW t \in Targets \ carried, wording[t] = "redacted", NEW i \in DOMAIN tasks'[t]
      PROVE  tasks'[t][i].says = "redacted"
  <2>1. \A k \in DOMAIN tasks[t] : tasks[t][k].says = "redacted"
    BY <1>4 DEF TasksInv, TasksFollowTheirTargets
  <2>2. CASE new(t)
    <3>1. tasks'[t] = Append(tasks[t], NewTask(wording[t]))
      BY <1>1, <2>2
    <3> QED BY <1>2, <1>4, <2>1, <3>1, AppendedTask
  <2>3. CASE ~ new(t)
    BY <1>1, <1>4, <2>1, <2>3
  <2> QED BY <2>2, <2>3
<1> QED BY <1>1, <1>3, <1>4 DEF TasksInv, TasksTypeOK, ReaderIsCurrent, TasksFollowTheirTargets

\* A library's task says what it has read.
LEMMA CreateTaskKeeps == ASSUME TasksInv, CreateTask PROVE TasksInv'
<1> DEFINE t == reader.target
           rows == Append(tasks[t], NewTask(reader.says))
<1>1. /\ t \in Targets /\ reader.says \in {"live", "redacted"} /\ reader # NoReader
      /\ tasks[t] \in Seq(Task)
  BY DEF CreateTask, TasksInv, TasksTypeOK
<1>2. /\ tasks' = [tasks EXCEPT ![t] = rows] /\ reader' = NoReader
      /\ UNCHANGED <<waiting, wording, carried>>
  BY DEF CreateTask
<1>3. /\ rows \in Seq(Task) /\ DOMAIN rows = DOMAIN tasks[t] \cup {Len(tasks[t]) + 1}
      /\ \A i \in DOMAIN rows : rows[i].says = IF i = Len(tasks[t]) + 1 THEN reader.says ELSE tasks[t][i].says
  BY <1>1, AppendedTask
<1> HIDE DEF rows
<1>4. /\ tasks' \in [Targets -> Seq(Task)] /\ tasks'[t] = rows
      /\ \A u \in Targets \ {t} : tasks'[u] = tasks[u]
  BY <1>1, <1>2, <1>3 DEF TasksInv, TasksTypeOK
<1>5. t \notin carried /\ wording[t] = "redacted" => reader.says = "redacted"
  BY <1>1 DEF TasksInv, ReaderIsCurrent
<1>6. ASSUME NEW u \in Targets \ carried, wording[u] = "redacted", NEW i \in DOMAIN tasks'[u]
      PROVE  tasks'[u][i].says = "redacted"
  <2>1. \A k \in DOMAIN tasks[u] : tasks[u][k].says = "redacted"
    BY <1>6 DEF TasksInv, TasksFollowTheirTargets
  <2>2. CASE u = t
    BY <1>3, <1>4, <1>5, <1>6, <2>1, <2>2
  <2>3. CASE u # t
    BY <1>4, <1>6, <2>1, <2>3
  <2> QED BY <2>2, <2>3
<1> QED BY <1>2, <1>4, <1>6 DEF TasksInv, TasksTypeOK, ReaderIsCurrent, TasksFollowTheirTargets

LEMMA TasksStep == TasksInv /\ [TasksNext]_taskVars => TasksInv'
<1> SUFFICES ASSUME TasksInv, [TasksNext]_taskVars PROVE TasksInv'
  OBVIOUS
<1>1. ASSUME NEW t \in Targets, Appear(t) \/ Decide(t) PROVE TasksInv'
  <2>1. UNCHANGED <<wording, tasks, reader, carried>>
    BY <1>1 DEF Appear, Decide
  <2>2. waiting' \in [Targets -> {"absent", "pending", "decided"}]
    BY <1>1 DEF Appear, Decide, TasksInv, TasksTypeOK
  <2> QED BY <2>1, <2>2 DEF TasksInv, TasksTypeOK, ReaderIsCurrent, TasksFollowTheirTargets
<1>2. ASSUME NEW t \in Targets, ReadTarget(t) PROVE TasksInv'
  BY <1>2 DEF ReadTarget, TasksInv, TasksTypeOK, ReaderIsCurrent, TasksFollowTheirTargets, NoReader
<1>3. ASSUME UNCHANGED taskVars PROVE TasksInv'
  BY <1>3 DEF taskVars, TasksInv, TasksTypeOK, ReaderIsCurrent, TasksFollowTheirTargets
<1> QED BY <1>1, <1>2, <1>3, DecideOnConsoleKeeps, RedactKeeps, TransitionKeeps, GenerateKeeps, CreateTaskKeeps
        DEF TasksNext

TasksSpec == TasksInit /\ [][TasksNext]_taskVars

\* No task says what was redacted unless a library had read it before, in every
\* order of decisions, generations and redactions.
THEOREM TasksForget == TasksSpec => []TasksFollowTheirTargets
<1>1. TasksInit => TasksInv
  BY TasksInitInv
<1>2. TasksInv /\ [TasksNext]_taskVars => TasksInv'
  BY TasksStep
<1>3. TasksInv => TasksFollowTheirTargets
  BY DEF TasksInv
<1> QED BY <1>1, <1>2, <1>3, PTL DEF TasksSpec
=============================================================================
