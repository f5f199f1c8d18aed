------------------------------ MODULE Learning ------------------------------
(***************************************************************************)
(* Adaptive memory: the versions of the ranking and context pack policies, *)
(* the versions of procedures, and the proposals that change them.         *)
(*                                                                         *)
(* A proposal is reviewed and then applied, long after it was written and  *)
(* in any order with others, with rollbacks and with deletions of the      *)
(* procedures' claims.  Every action is one transaction of the code.       *)
(***************************************************************************)
EXTENDS Naturals, Sequences

CONSTANTS
    Proposals,      \* proposals of any kind; also what they propose
    Policies,       \* "ranking" and "context_pack"
    Knobs,          \* weights, filters and thresholds of a policy
    Procedures,     \* procedures that are claims
    Titles          \* procedures known by a title only

ASSUME LearningAssumption == Policies \subseteq {"ranking", "context_pack"}

VARIABLES
    policyVersion,      \* ranking_policy_versions, context_pack_policy_versions
    activeVersion,      \* ranking_policies, context_pack_policies: active_version_id
    proposal,           \* policy_proposals, procedure_update_proposals
    procedureVersion,   \* procedure_versions
    procedureClaim      \* claims and claims_fts of procedures

learningVars == <<policyVersion, activeVersion, proposal, procedureVersion, procedureClaim>>

NoProposal == [target |-> "none", status |-> "none", change |-> <<>>, passed |-> FALSE]

LearningInit ==
    /\ policyVersion = [p \in Policies |->
            << [status |-> "active", config |-> [k \in Knobs |-> "initial"], summary |-> "none"] >>]
    /\ activeVersion = [p \in Policies |-> 1]
    /\ proposal = [p \in Proposals |-> NoProposal]
    /\ procedureVersion = [c \in Procedures \cup Titles |-> <<>>]
    /\ procedureClaim = [c \in Procedures |-> [status |-> "active", text |-> "original", index |-> "original"]]

-----------------------------------------------------------------------------
(* Proposals and their review.                                             *)

Written(p, target, status, change, passed) ==
    /\ proposal[p] = NoProposal
    /\ proposal' = [proposal EXCEPT ![p] =
            [target |-> target, status |-> status, change |-> change, passed |-> passed]]

\* passed: the evaluation run the proposal names passed the gate.
ProposePolicy(p, policy, knobs, passed) ==
    /\ Written(p, policy, "pending_review", [k \in knobs |-> p], passed)
    /\ UNCHANGED <<policyVersion, activeVersion, procedureVersion, procedureClaim>>

\* The whole configuration of a baseline version, with one weight changed.
OptimizeRetrieval(p, baseline, knob, passed) ==
    /\ "ranking" \in Policies
    /\ baseline \in DOMAIN policyVersion["ranking"]
    /\ Written(p, "ranking", "pending_review",
               [policyVersion["ranking"][baseline].config EXCEPT ![knob] = p], passed)
    /\ UNCHANGED <<policyVersion, activeVersion, procedureVersion, procedureClaim>>

\* A proposal of low risk needs no review when its author says so.
ProposeProcedure(p, c, status) ==
    /\ status \in {"pending_review", "approved"}
    /\ Written(p, c, status, <<>>, FALSE)
    /\ UNCHANGED <<policyVersion, activeVersion, procedureVersion, procedureClaim>>

\* To defer and to request changes leave a pending proposal pending.
ReviewProposal(p, decision) ==
    /\ proposal[p].status = "pending_review"
    /\ proposal' = [proposal EXCEPT ![p].status =
            CASE decision = "approve" -> "approved" [] decision = "reject" -> "rejected"
              [] OTHER -> "pending_review"]
    /\ UNCHANGED <<policyVersion, activeVersion, procedureVersion, procedureClaim>>

-----------------------------------------------------------------------------
(* Policies.                                                               *)

\* The row of a version; its number is its place.
PolicyVersion(config, summary) == [status |-> "active", config |-> config, summary |-> summary]

\* A mutated form of Superseding: the version the proposal was based on is
\* superseded, the first one, instead of the one in force.
SupersedingFirst(policy, new) ==
    Append([policyVersion[policy] EXCEPT ![1].status = "superseded"], new)

Superseding(policy, new) ==
    Append([policyVersion[policy] EXCEPT ![activeVersion[policy]].status = "superseded"], new)

\* The change is laid over the configuration in force now.  With the gate, the
\* evaluation the proposal names must have passed, and the new version is
\* evaluated itself: where that fails, all of this is rolled back.
ApplyPolicy(p, gated) ==
    LET policy == proposal[p].target
        base == policyVersion[policy][activeVersion[policy]].config
        change == proposal[p].change
        new == PolicyVersion([k \in Knobs |-> IF k \in DOMAIN change THEN change[k] ELSE base[k]],
                             IF gated THEN "own" ELSE IF proposal[p].passed THEN "proposal" ELSE "none") IN
    /\ proposal[p].status = "approved"
    /\ policy \in Policies
    /\ gated => proposal[p].passed
    /\ policyVersion' = [policyVersion EXCEPT ![policy] = Superseding(policy, new)]
    /\ activeVersion' = [activeVersion EXCEPT ![policy] = Len(policyVersion[policy]) + 1]
    /\ proposal' = [proposal EXCEPT ![p].status = "applied"]
    /\ UNCHANGED <<procedureVersion, procedureClaim>>

\* Any version of the policy, the one in force included.
RollbackPolicy(policy, v) ==
    /\ v \in DOMAIN policyVersion[policy]
    /\ policyVersion' = [policyVersion EXCEPT ![policy] =
            [[@ EXCEPT ![activeVersion[policy]].status = "rolled_back"] EXCEPT ![v].status = "active"]]
    /\ activeVersion' = [activeVersion EXCEPT ![policy] = v]
    /\ UNCHANGED <<proposal, procedureVersion, procedureClaim>>

-----------------------------------------------------------------------------
(* Procedures.                                                             *)

\* Whatever the status of the claim: only one that is gone refuses.
WriteProcedure(c, text) ==
    IF c \in Procedures
    THEN /\ procedureClaim[c].status # "deleted"
         /\ procedureClaim' = [procedureClaim EXCEPT ![c].text = text, ![c].index = text]
    ELSE UNCHANGED procedureClaim

ApplyProcedure(p) ==
    LET c == proposal[p].target
        superseded == [v \in DOMAIN procedureVersion[c] |->
            IF procedureVersion[c][v].status = "active"
            THEN [procedureVersion[c][v] EXCEPT !.status = "superseded"] ELSE procedureVersion[c][v]] IN
    /\ proposal[p].status = "approved"
    /\ c \in Procedures \cup Titles
    /\ procedureVersion' = [procedureVersion EXCEPT ![c] = Append(superseded, [status |-> "active", text |-> p])]
    /\ proposal' = [proposal EXCEPT ![p].status = "applied"]
    /\ WriteProcedure(c, p)
    /\ UNCHANGED <<policyVersion, activeVersion>>

InForce(c) == {v \in DOMAIN procedureVersion[c] : procedureVersion[c][v].status = "active"}

RolledBack(c, v, current) ==
    [w \in DOMAIN procedureVersion[c] |->
        CASE w = v -> [procedureVersion[c][w] EXCEPT !.status = "active"]
          [] w = current /\ w # v -> [procedureVersion[c][w] EXCEPT !.status = "rolled_back"]
          [] OTHER -> procedureVersion[c][w]]

\* One version in force is rolled back, if there is one (LIMIT 1).
RollbackProcedure(c, v) ==
    /\ v \in DOMAIN procedureVersion[c]
    /\ \E current \in InForce(c) \cup {0} :
         /\ InForce(c) # {} => current # 0
         /\ procedureVersion' = [procedureVersion EXCEPT ![c] = RolledBack(c, v, current)]
    /\ WriteProcedure(c, procedureVersion[c][v].text)
    /\ UNCHANGED <<policyVersion, activeVersion, proposal>>

\* deletion.apply and the hard deletion know nothing of procedure versions.
RedactProcedure(c) ==
    /\ procedureClaim[c].status # "deleted"
    /\ procedureClaim' = [procedureClaim EXCEPT ![c] =
            [status |-> "archived", text |-> "redacted", index |-> "none"]]
    /\ UNCHANGED <<policyVersion, activeVersion, proposal, procedureVersion>>

DeleteProcedure(c) ==
    /\ procedureClaim[c].status # "deleted"
    /\ procedureClaim' = [procedureClaim EXCEPT ![c] = [status |-> "deleted", text |-> "none", index |-> "none"]]
    /\ UNCHANGED <<policyVersion, activeVersion, proposal, procedureVersion>>

LearningNext ==
    \/ \E p \in Proposals, passed \in BOOLEAN :
         \/ \E policy \in Policies, knobs \in (SUBSET Knobs) \ {{}} : ProposePolicy(p, policy, knobs, passed)
         \/ \E v \in 1..Len(policyVersion["ranking"]), k \in Knobs : OptimizeRetrieval(p, v, k, passed)
         \/ ApplyPolicy(p, passed)
    \/ \E p \in Proposals, c \in Procedures \cup Titles, status \in {"pending_review", "approved"} :
         ProposeProcedure(p, c, status)
    \/ \E p \in Proposals, decision \in {"approve", "reject", "defer", "request_changes"} :
         ReviewProposal(p, decision)
    \/ \E p \in Proposals : ApplyProcedure(p)
    \/ \E policy \in Policies : \E v \in DOMAIN policyVersion[policy] : RollbackPolicy(policy, v)
    \/ \E c \in Procedures \cup Titles : \E v \in DOMAIN procedureVersion[c] : RollbackProcedure(c, v)
    \/ \E c \in Procedures : RedactProcedure(c) \/ DeleteProcedure(c)

-----------------------------------------------------------------------------
PolicyVersionsInForce ==
    \A p \in Policies :
        {v \in DOMAIN policyVersion[p] : policyVersion[p][v].status = "active"} = {activeVersion[p]}

ProcedureVersionsInForce ==
    \A c \in Procedures \cup Titles :
        /\ procedureVersion[c] # <<>> => \E v \in DOMAIN procedureVersion[c] : InForce(c) = {v}
        /\ c \in Procedures /\ procedureClaim[c].status # "deleted" /\ procedureClaim[c].text # "redacted" =>
             /\ procedureClaim[c].index = procedureClaim[c].text
             /\ \A v \in InForce(c) : procedureClaim[c].text = procedureVersion[c][v].text

\* Exactly one version of a policy is marked active and it is the one the
\* policy names; a procedure has one active version, and its claim and its row
\* in the full-text index say what that version says until they are redacted
\* (memory.py apply_policy_proposal, rollback_policy, apply_procedure_update,
\* rollback_procedure).
OneVersionInForce == PolicyVersionsInForce /\ ProcedureVersionsInForce
=============================================================================
