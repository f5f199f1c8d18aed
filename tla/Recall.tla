------------------------------- MODULE Recall -------------------------------
(***************************************************************************)
(* Context packs over the claims of one slot: several retrievals, then the *)
(* warnings.  A service makes a pack in one transaction, a library process *)
(* reads memory as it changes.  Each retrieval takes the time for itself.  *)
(*                                                                         *)
(* Filters of other kinds, words, vectors, ranking and limits may leave    *)
(* any claim out; derived memory is in Derivations.  More than fifty open  *)
(* disputes, of which the newest are warned about, are left out.           *)
(***************************************************************************)
EXTENDS Conflicts

VARIABLES
    dated,  \* are the scopes of the slot periods, and not contexts
    clock,  \* the period it is, or NoScope
    pack    \* the context pack in the making

recallVars == <<dated, clock, pack>>

NoPack == [phase |-> "none", service |-> FALSE, asked |-> {}, hidden |-> {}, shown |-> {},
           warned |-> {}, straddled |-> FALSE, disturbed |-> FALSE]

RecallInit ==
    /\ Init
    /\ dated \in BOOLEAN
    /\ clock \in {NoScope} \cup IF dated THEN Scopes ELSE {}
    /\ pack = NoPack

-----------------------------------------------------------------------------
\* _scope_rows_match: one scope of the claim applies, a period because it is
\* that period, a context because the query shares a term with it.
Matches(c, contexts) ==
    \/ scopes[c] = {}
    \/ scopes[c] \cap (IF dated THEN {clock} ELSE contexts) # {}

\* governed_claim_filter with its default statuses, and the reader's access.
Eligible(contexts, hidden) ==
    {c \in Claims : status[c] \in Serving /\ Matches(c, contexts) /\ c \notin hidden}

\* What a retrieval may return.
Retrieved(contexts, hidden) == SUBSET Eligible(contexts, hidden)

\* The first retrieval, for the query: asked are the contexts it mentions;
\* hidden is what the reader may not see.
BeginPack(service, asked, hidden) ==
    /\ pack.phase = "none"
    /\ dated => asked = {}
    /\ service \/ hidden = {}
    /\ \E found \in Retrieved(asked, hidden) :
         pack' = [NoPack EXCEPT !.phase = "reading", !.service = service, !.asked = asked,
                                !.hidden = hidden, !.shown = found]
    /\ UNCHANGED <<vars, dated, clock>>

\* The retrievals without a query: preferences and identity, the project, the
\* session before.  They match no context.
AddAmbient ==
    /\ pack.phase = "reading"
    /\ \E found \in Retrieved({}, pack.hidden) \ {{}} : pack' = [pack EXCEPT !.shown = @ \cup found]
    /\ UNCHANGED <<vars, dated, clock>>

\* A mutated form of Warnings: only disputes that nobody has decided before.
WarningsOnce(hidden) ==
    {family[f].members : f \in {g \in FamilyIds : /\ family[g].status = "unresolved"
                                                  /\ ~family[g].decided
                                                  /\ family[g].members \cap hidden = {}}}

\* Open families, of any kind; one with a member the reader may not see is
\* not mentioned.
Warnings(hidden) ==
    {family[f].members : f \in {g \in FamilyIds : /\ family[g].status = "unresolved"
                                                  /\ family[g].members \cap hidden = {}}}

\* Warnings take from the token budget first and are never left out; items
\* that no longer fit are.
WithinBudget(found) == SUBSET found

FinishPack ==
    /\ pack.phase = "reading"
    /\ \E kept \in WithinBudget(pack.shown) :
         pack' = [pack EXCEPT !.phase = "done", !.shown = kept, !.warned = Warnings(pack.hidden)]
    /\ UNCHANGED <<vars, dated, clock>>

DeliverPack ==
    /\ pack.phase = "done"
    /\ pack' = NoPack
    /\ UNCHANGED <<vars, dated, clock>>

Tick ==
    /\ dated
    /\ clock' \in (Scopes \cup {NoScope}) \ {clock}
    /\ pack' = IF pack.phase = "reading" THEN [pack EXCEPT !.straddled = TRUE] ELSE pack
    /\ UNCHANGED <<vars, dated>>

\* What a writer does to a pack in the making: a service keeps it waiting.
Meanwhile ==
    /\ ~pack.service
    /\ pack' = IF pack.phase = "none" THEN pack ELSE [pack EXCEPT !.disturbed = TRUE]
    /\ UNCHANGED <<dated, clock>>

\* What the routes context-pack and retrieve offer, and the clock.
RecallStep ==
    \/ \E service \in BOOLEAN, asked \in SUBSET Scopes, hidden \in SUBSET Claims :
         BeginPack(service, asked, hidden)
    \/ AddAmbient \/ FinishPack \/ DeliverPack \/ Tick

RecallNext ==
    \/ RecallStep
    \/ Next /\ Meanwhile

RecallSpec == RecallInit /\ [][RecallNext]_<<vars, recallVars>>

-----------------------------------------------------------------------------
(* Properties.                                                             *)

Packs == [phase : {"none", "reading", "done"}, service : BOOLEAN, asked : SUBSET Scopes,
          hidden : SUBSET Claims, shown : SUBSET Claims, warned : SUBSET SUBSET Claims,
          straddled : BOOLEAN, disturbed : BOOLEAN]

RecallTypeOK ==
    /\ dated \in BOOLEAN
    /\ clock \in Scopes \cup {NoScope}
    /\ pack \in Packs

\* Not compared since one of them came into force, or since a declaration.
Uncompared(c, d) == {c, d} \cap unchecked # {}

\* A resolution gave them scopes, and others were added afterwards.
Rescoped(c, d) ==
    ~Approved(c, d) /\ \E f \in FamilyIds : family[f].status = "scoped" /\ {c, d} \subseteq family[f].members

\* A resolution that was not about scopes left both in force: it chose one
\* and gave the other a scope, or gave both scopes that it did not compare.
KeptByHand(c, d) ==
    \E f \in FamilyIds : family[f].status \notin {"unresolved", "scoped"} /\ {c, d} \subseteq LeftInForce(f)

\* Their family has a member that this reader may not know about.
HiddenDispute(c, d) ==
    \E f \in FamilyIds : /\ {c, d} \subseteq family[f].members
                         /\ family[f].members \cap pack.hidden # {}

\* Whoever reads two contradictory claims in one pack is warned of their
\* dispute, also when core claims go on serving through it, when an old
\* dispute was opened again, and when scopes that a resolution approved are
\* all that keeps them apart.  Where this cannot be expected is named: claims
\* not compared yet or scoped again by hand, two that a manual resolution kept
\* both, a query about both contexts, a period that ended or memory that
\* changed while the pack was made, and a dispute the reader may not know about.
ContradictionsComeWithWarnings ==
    (/\ pack.phase = "done" /\ ~multi
     /\ ~pack.straddled /\ ~pack.disturbed /\ \A s, t \in pack.asked : s = t)
    => \A c, d \in pack.shown :
         ValueOf[c] # ValueOf[d] =>
            \/ \E W \in pack.warned : {c, d} \subseteq W
            \/ Uncompared(c, d) \/ Rescoped(c, d) \/ KeptByHand(c, d) \/ HiddenDispute(c, d)
=============================================================================
