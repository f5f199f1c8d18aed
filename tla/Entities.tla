------------------------------ MODULE Entities ------------------------------
(***************************************************************************)
(* The entities of a namespace: people, projects and things that evidence  *)
(* mentions and that candidates and claims are about.                      *)
(*                                                                         *)
(* An entity is found by an alias, then by its canonical name; the id of a *)
(* new one is made of its type and name, so that it can meet the row of an *)
(* entity whose name was erased.  Two entities can be merged.  A redaction *)
(* erases the names of every entity that the redacted object leads to.     *)
(***************************************************************************)
EXTENDS Naturals, FiniteSets

CONSTANTS
    Names,          \* names, in lower case and with their spellings
    Sources         \* events, each with the candidate and the claim drawn from it

ASSUME EntitiesAssumption == Names \cap {"absent", "redacted"} = {}

VARIABLES
    text,           \* the names an event's content holds
    claimed,        \* how far the event's candidate came
    mentioned,      \* entity_mentions
    proposed,       \* candidate_entity_links
    linked,         \* claim_entity_links
    name,           \* entities.canonical_name
    merged,         \* entities whose metadata say what they were merged into
    alias,          \* entity_aliases
    given,          \* names a caller brought, not an event
    merging         \* a merge of a library that has read its entities

entityVars == <<text, claimed, mentioned, proposed, linked, name, merged, alias, given, merging>>

Entities == Names \X {"inferred", "chosen"}
NoEntity == <<>>
NoMerge == [source |-> NoEntity, target |-> NoEntity, carried |-> {}]

EntitiesInit ==
    /\ text = [s \in Sources |-> {}]
    /\ claimed = [s \in Sources |-> "none"]
    /\ mentioned = [s \in Sources |-> {}]
    /\ proposed = [s \in Sources |-> {}]
    /\ linked = [s \in Sources |-> {}]
    /\ name = [e \in Entities |-> "absent"]
    /\ merged = {}
    /\ alias = [n \in Names |-> NoEntity]
    /\ given = {}
    /\ merging = NoMerge

-----------------------------------------------------------------------------
(* Resolution.                                                             *)

Named(n) == {e \in Entities : name[e] = n}

\* The id of a new entity comes from the type and the name.
Entity(n, type) ==
    IF alias[n] # NoEntity THEN alias[n]
    ELSE IF Named(n) # {} THEN CHOOSE e \in Named(n) : TRUE ELSE <<n, type>>

IsNew(n) == alias[n] = NoEntity /\ Named(n) = {}

\* A row that is there already is not written again; its aliases are.
Create(N, type) ==
    /\ name' = [e \in Entities |->
            IF e[1] \in N /\ e[2] = type /\ IsNew(e[1]) /\ name[e] = "absent" THEN e[1] ELSE name[e]]
    /\ alias' = [n \in Names |-> IF n \in N /\ IsNew(n) THEN <<n, type>> ELSE alias[n]]

\* resolve_entity, with a type of the caller's.
ResolveEntity(n, type) ==
    /\ Create({n}, type)
    /\ given' = given \cup {n}
    /\ UNCHANGED <<text, claimed, mentioned, proposed, linked, merged, merging>>

\* The draft of a candidate names the entities of its evidence.
Extract(s, N) ==
    /\ claimed[s] = "none"
    /\ text' = [text EXCEPT ![s] = N]
    /\ claimed' = [claimed EXCEPT ![s] = "candidate"]
    /\ Create(N, "inferred")
    /\ LET found == {Entity(n, "inferred") : n \in N}
       IN  /\ proposed' = [proposed EXCEPT ![s] = found]
           /\ mentioned' = [mentioned EXCEPT ![s] = found]
    /\ UNCHANGED <<linked, merged, given, merging>>

PromoteMentions(s) ==
    /\ claimed[s] = "candidate"
    /\ claimed' = [claimed EXCEPT ![s] = "claim"]
    /\ linked' = [linked EXCEPT ![s] = proposed[s]]
    /\ UNCHANGED <<text, mentioned, proposed, name, merged, alias, given, merging>>

-----------------------------------------------------------------------------
(* Merges.                                                                 *)

Carried(e) == {n \in Names : alias[n] = e \/ name[e] = n}

\* A mutated form of Moved: the mentions stay with the source.
MovedLinks(source, target) ==
    LET move(E) == IF source \in E THEN (E \ {source}) \cup {target} ELSE E
    IN  /\ mentioned' = mentioned
        /\ proposed' = [s \in Sources |-> move(proposed[s])]
        /\ linked' = [s \in Sources |-> move(linked[s])]

Moved(source, target) ==
    LET move(E) == IF source \in E THEN (E \ {source}) \cup {target} ELSE E
    IN  /\ mentioned' = [s \in Sources |-> move(mentioned[s])]
        /\ proposed' = [s \in Sources |-> move(proposed[s])]
        /\ linked' = [s \in Sources |-> move(linked[s])]

\* A claim or candidate linked to both breaks a primary key: nothing is merged.
Distinct(source, target) ==
    \A s \in Sources : ~ {source, target} \subseteq proposed[s] /\ ~ {source, target} \subseteq linked[s]

\* The row of the source stays, with its name.
Merge(source, target, carried) ==
    /\ source # target /\ name[source] # "absent" /\ name[target] # "absent"
    /\ Distinct(source, target)
    /\ alias' = [n \in Names |->
            IF alias[n] = source \/ (n \in carried /\ alias[n] = NoEntity) THEN target ELSE alias[n]]
    /\ Moved(source, target)
    /\ merged' = merged \cup {source}
    /\ UNCHANGED <<text, claimed, name>>

\* What a library read before, and the name of a row that was merged away: the
\* caller brings it back.
Brought(source, carried) == carried \cup IF source \in merged THEN {name[source]} \cap Names ELSE {}

MergeInService(source, target) ==
    /\ Merge(source, target, Carried(source))
    /\ given' = given \cup Brought(source, {})
    /\ UNCHANGED merging

\* A library reads the names before its transaction and brings them back.
ReadForMerge(source, target) ==
    /\ merging = NoMerge
    /\ source # target /\ name[source] # "absent" /\ name[target] # "absent"
    /\ merging' = [source |-> source, target |-> target, carried |-> Carried(source)]
    /\ UNCHANGED <<text, claimed, mentioned, proposed, linked, name, merged, alias, given>>

MergeInLibrary ==
    /\ merging # NoMerge
    /\ IF Distinct(merging.source, merging.target)
       THEN /\ Merge(merging.source, merging.target, merging.carried)
            /\ given' = given \cup Brought(merging.source, merging.carried)
       ELSE UNCHANGED <<text, claimed, mentioned, proposed, linked, name, merged, alias, given>>
    /\ merging' = NoMerge

-----------------------------------------------------------------------------
(* Deletions.                                                              *)

\* The entities of E lose their names, their aliases and their metadata.
Erased(E) ==
    /\ name' = [e \in Entities |-> IF e \in E THEN "redacted" ELSE name[e]]
    /\ alias' = [n \in Names |-> IF alias[n] \in E THEN NoEntity ELSE alias[n]]
    /\ merged' = merged \ E

\* With what was drawn from it.
RedactEvidence(s) ==
    /\ claimed[s] # "none"
    /\ text' = [text EXCEPT ![s] = {}]
    /\ Erased(mentioned[s] \cup linked[s])
    /\ UNCHANGED <<claimed, mentioned, proposed, linked, given, merging>>

RedactClaim(s) ==
    /\ claimed[s] = "claim"
    /\ Erased(linked[s])
    /\ UNCHANGED <<text, claimed, mentioned, proposed, linked, given, merging>>

HardDeleteClaim(s) ==
    /\ claimed[s] = "claim"
    /\ claimed' = [claimed EXCEPT ![s] = "deleted"]
    /\ Erased(linked[s])
    /\ linked' = [linked EXCEPT ![s] = {}]
    /\ UNCHANGED <<text, mentioned, proposed, given, merging>>

EntitiesNext ==
    \/ \E n \in Names, type \in {"inferred", "chosen"} : ResolveEntity(n, type)
    \/ \E s \in Sources :
         \/ \E N \in (SUBSET Names) \ {{}} : Extract(s, N)
         \/ PromoteMentions(s) \/ RedactEvidence(s) \/ RedactClaim(s) \/ HardDeleteClaim(s)
    \/ \E e, f \in Entities : MergeInService(e, f) \/ ReadForMerge(e, f)
    \/ MergeInLibrary

-----------------------------------------------------------------------------
(* Properties.                                                             *)

\* Once every event that mentions a name is redacted, no alias says it and no
\* entity is called by it, however entities were merged; except for names that
\* callers brought, and for an entity that was merged away: nothing leads to its
\* row any more, and a redaction misses it.
ErasedNamesLeaveEntities ==
    \A n \in Names \ (given \cup UNION {text[s] : s \in Sources}) :
        alias[n] = NoEntity /\ Named(n) \subseteq merged
=============================================================================
