---------------------------- MODULE Evaluations ----------------------------
(***************************************************************************)
(* Evaluations of policies, and the gate in front of their application.    *)
(*                                                                         *)
(* An evaluation asks the cases of a set under one version of each policy  *)
(* and stores whether all of them passed.  A proposal may name one.  What  *)
(* memory answers changes all the time and is left to chance: a run passes *)
(* or does not, and the same question asked again may end otherwise.       *)
(***************************************************************************)
EXTENDS Learning, FiniteSets

CONSTANTS
    Cases,          \* evaluation_cases
    Runs            \* evaluation_runs

ASSUME EvaluationsAssumption == "none" \notin Runs

VARIABLES
    cases,          \* the cases of the evaluation set
    run,            \* evaluation_runs, and those a library has not stored yet
    basis,          \* proposals: evaluation_run_id
    judge           \* versions: the run of evaluation_summary_json

evaluationVars == <<learningVars, cases, run, basis, judge>>

NoRun == [versions |-> <<>>, cases |-> {}, phase |-> "none", passed |-> FALSE]

EvaluationsInit ==
    /\ LearningInit
    /\ cases = {}
    /\ run = [r \in Runs |-> NoRun]
    /\ basis = [p \in Proposals |-> "none"]
    /\ judge = [policy \in Policies |-> <<"none">>]

AddCase(c) ==
    /\ c \notin cases
    /\ cases' = cases \cup {c}
    /\ UNCHANGED <<learningVars, run, basis, judge>>

-----------------------------------------------------------------------------
(* Runs.                                                                   *)

\* A version of each policy, the one in force where none is named.
VersionsToAsk == {f \in [Policies -> 1..(Cardinality(Proposals) + 1)] :
                    \A policy \in Policies : f[policy] <= Len(policyVersion[policy])}

\* Without cases nothing passes.
Verdict(asked, passed) == passed => asked # {}

\* A request of the service and the gate: one transaction.
RunEvaluation(r, versions, passed) ==
    /\ run[r] = NoRun /\ Verdict(cases, passed)
    /\ run' = [run EXCEPT ![r] = [versions |-> versions, cases |-> cases, phase |-> "stored", passed |-> passed]]

EvaluateInService(r, versions, passed) ==
    /\ RunEvaluation(r, versions, passed)
    /\ UNCHANGED <<learningVars, cases, basis, judge>>

\* In a library the cases are read first and asked one after the other, each
\* with a context pack; the run is stored at the end.
EvaluateInLibrary(r, versions) ==
    /\ run[r] = NoRun
    /\ run' = [run EXCEPT ![r] = [versions |-> versions, cases |-> cases, phase |-> "asking", passed |-> FALSE]]
    /\ UNCHANGED <<learningVars, cases, basis, judge>>

StoreEvaluation(r, passed) ==
    /\ run[r].phase = "asking" /\ Verdict(run[r].cases, passed)
    /\ run' = [run EXCEPT ![r].phase = "stored", ![r].passed = passed]
    /\ UNCHANGED <<learningVars, cases, basis, judge>>

-----------------------------------------------------------------------------
(* Proposals and the gate.                                                 *)

\* The status of the gate is that of the run when it was stored.
ProposeOn(p, policy, knobs, r) ==
    /\ run[r].phase = "stored"
    /\ ProposePolicy(p, policy, knobs, run[r].passed)
    /\ basis' = [basis EXCEPT ![p] = r]
    /\ UNCHANGED <<cases, run, judge>>

ProposeOnNothing(p, policy, knobs) ==
    /\ ProposePolicy(p, policy, knobs, FALSE)
    /\ UNCHANGED <<cases, run, basis, judge>>

\* optimize_retrieval evaluates its baseline, not what it proposes.
Optimize(p, r, versions, knob, passed) ==
    /\ RunEvaluation(r, versions, passed)
    /\ OptimizeRetrieval(p, versions["ranking"], knob, passed)
    /\ basis' = [basis EXCEPT ![p] = r]
    /\ UNCHANGED <<cases, judge>>

Review(p, decision) ==
    /\ ReviewProposal(p, decision)
    /\ UNCHANGED <<cases, run, basis, judge>>

\* A mutated form of Gate: the run the proposal names is enough.
GateByName(p, r) ==
    /\ run' = run
    /\ judge' = [judge EXCEPT ![proposal[p].target] = Append(@, basis[p])]

\* The new version is asked itself, with the other policy's version in force and
\* the cases there are now; where it does not pass, everything is rolled back.
Gate(p, r) ==
    /\ RunEvaluation(r, activeVersion', TRUE)
    /\ judge' = [judge EXCEPT ![proposal[p].target] = Append(@, r)]

ApplyGated(p, r) ==
    /\ ApplyPolicy(p, TRUE)
    /\ Gate(p, r)
    /\ UNCHANGED <<cases, basis>>

\* The version comes with the summary of the run that was named.
ApplyUngated(p) ==
    /\ ApplyPolicy(p, FALSE)
    /\ judge' = [judge EXCEPT ![proposal[p].target] = Append(@, basis[p])]
    /\ UNCHANGED <<cases, run, basis>>

Rollback(policy, v) ==
    /\ RollbackPolicy(policy, v)
    /\ UNCHANGED <<cases, run, basis, judge>>

\* What the routes of evaluations, learning and policies offer.
EvaluationsNext ==
    \/ \E c \in Cases : AddCase(c)
    \/ \E r \in Runs, passed \in BOOLEAN :
         \/ StoreEvaluation(r, passed)
         \/ \E versions \in VersionsToAsk :
              \/ EvaluateInService(r, versions, passed)
              \/ EvaluateInLibrary(r, versions)
              \/ \E p \in Proposals, k \in Knobs : Optimize(p, r, versions, k, passed)
    \/ \E p \in Proposals, policy \in Policies, knobs \in (SUBSET Knobs) \ {{}} :
         ProposeOnNothing(p, policy, knobs) \/ \E r \in Runs : ProposeOn(p, policy, knobs, r)
    \/ \E p \in Proposals, decision \in {"approve", "reject", "defer", "request_changes"} : Review(p, decision)
    \/ \E p \in Proposals : ApplyUngated(p) \/ \E r \in Runs : ApplyGated(p, r)
    \/ \E policy \in Policies : \E v \in DOMAIN policyVersion[policy] : Rollback(policy, v)

-----------------------------------------------------------------------------
(* Properties.                                                             *)

\* A version that came into force through the gate was itself asked and passed,
\* on every case of the run its proposal was made with and any added since,
\* whatever came into force between the proposal and its application.
GatedVersionsWereJudged ==
    \A policy \in Policies : \A v \in DOMAIN judge[policy] :
        policyVersion[policy][v].summary = "own" =>
            /\ run[judge[policy][v]].passed
            /\ run[judge[policy][v]].versions[policy] = v
            /\ \E p \in Proposals : /\ proposal[p].target = policy /\ proposal[p].status = "applied"
                                    /\ basis[p] # "none"
                                    /\ run[basis[p]].cases \subseteq run[judge[policy][v]].cases
=============================================================================
