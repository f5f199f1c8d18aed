--------------------------- MODULE ConflictsProofs ---------------------------
(***************************************************************************)
(* Conflicts: no contradiction escapes detection, the engine's disputes    *)
(* wait in an open family, and later assertions join the open dispute, for *)
(* every set of claims, values, scopes and enabled operations; and whoever *)
(* reads a contradiction in a context pack is warned of it.                *)
(*                                                                         *)
(* The conjunction of the four invariants is inductive.  Each action but   *)
(* detection and SetPredicateSemantics changes statuses through Becomes,   *)
(* so the argument is made once, for what Becomes does to the record       *)
(* (RecordKept) and to the disputes (DisputesKept).                        *)
(***************************************************************************)
EXTENDS Recall, TLAPS

Inv == TypeOK /\ ContradictionsOnRecord /\ DisputesHaveFamilies /\ OneOpenDispute

\* A family goes on recording what two of its members say, unless one of them
\* leaves force.
Kept(new) ==
    \A f \in FamilyIds : \A c, d \in Claims :
        (Records(f, c, d) /\ c # d /\ new[c] \in Detectable /\ new[d] \in Detectable)
        => Records(f, c, d)'

\* A family that a step leaves alone records what it did.
LEMMA SameRecord ==
    ASSUME NEW f \in FamilyIds, family'[f] = family[f], NEW c, NEW d
    PROVE  Records(f, c, d)' <=> Records(f, c, d)
BY DEF Records, LeftInForce

\* A step that leaves families alone keeps its records.
LEMMA RecordsUnchanged ==
    ASSUME ContradictionsOnRecord, UNCHANGED <<status, family, multi, unchecked>>
    PROVE  ContradictionsOnRecord'
BY SameRecord DEF ContradictionsOnRecord

\* Becomes keeps the types of what it changes.
LEMMA BecomesTypes ==
    ASSUME TypeOK, NEW new \in [Claims -> Statuses], NEW hand, hand \subseteq Claims,
           Becomes(new, hand)
    PROVE  /\ status' \in [Claims -> Statuses]
           /\ unchecked' \subseteq Claims /\ byHand' \subseteq Claims
  BY DEF Becomes, TypeOK

\* Status changes keep the contradictions on record.
LEMMA RecordKept ==
    ASSUME TypeOK, ContradictionsOnRecord, NEW new \in [Claims -> Statuses], NEW hand,
           Becomes(new, hand), multi' = multi, Kept(new)
    PROVE  ContradictionsOnRecord'
<1> SUFFICES ASSUME NEW c \in Claims, NEW d \in Claims, ~multi,
                    new[c] \in Detectable, new[d] \in Detectable,
                    ValueOf[c] # ValueOf[d], c \notin unchecked', d \notin unchecked'
             PROVE  \E f \in FamilyIds : Records(f, c, d)'
  BY DEF ContradictionsOnRecord, Becomes
<1>1. status[c] \in Detectable /\ status[d] \in Detectable /\ c \notin unchecked /\ d \notin unchecked
  BY DEF Becomes
<1>2. PICK f \in FamilyIds : Records(f, c, d)
  BY <1>1 DEF ContradictionsOnRecord
<1>3. c # d
  OBVIOUS
<1>4. Records(f, c, d)'
  BY <1>2, <1>3 DEF Kept
<1> QED
  BY <1>4

\* Status changes keep the disputes in families.
LEMMA DisputesKept ==
    ASSUME DisputesHaveFamilies, NEW new \in [Claims -> Statuses], NEW hand, Becomes(new, hand),
           \A c \in Claims : (new[c] = "disputed" /\ c \notin hand) =>
               status[c] = "disputed" /\ (InOpenFamily(c, family) => InOpenFamily(c, family'))
    PROVE  DisputesHaveFamilies'
<1> SUFFICES ASSUME NEW c \in Claims, new[c] = "disputed", c \notin byHand'
             PROVE  InOpenFamily(c, family')
  BY DEF DisputesHaveFamilies, Becomes, InOpenFamily
<1>1. c \notin byHand /\ c \notin hand
  BY DEF Becomes
<1> QED
  BY <1>1 DEF DisputesHaveFamilies

\* A decision about one claim that leaves the families alone.
LEMMA SingleDecision ==
    ASSUME Inv, NEW c \in Claims, NEW s \in Statuses, NEW hand, hand \subseteq Claims,
           Becomes([status EXCEPT ![c] = s], hand),
           s = "disputed" => (status[c] = "disputed" \/ c \in hand),
           UNCHANGED <<family, multi>>
    PROVE  /\ ContradictionsOnRecord' /\ DisputesHaveFamilies' /\ OneOpenDispute'
           /\ status' \in [Claims -> Statuses]
           /\ unchecked' \subseteq Claims /\ byHand' \subseteq Claims
<1> DEFINE new == [status EXCEPT ![c] = s]
<1>1. new \in [Claims -> Statuses]
  BY DEF Inv, TypeOK
<1>2. Kept(new)
  BY SameRecord DEF Kept
<1>3. ContradictionsOnRecord'
  BY <1>1, <1>2, RecordKept DEF Inv
<1>4. \A d \in Claims : (new[d] = "disputed" /\ d \notin hand) =>
               status[d] = "disputed" /\ (InOpenFamily(d, family) => InOpenFamily(d, family'))
  BY DEF Inv, TypeOK, InOpenFamily
<1>5. DisputesHaveFamilies'
  BY <1>1, <1>4, DisputesKept DEF Inv
<1>6. OneOpenDispute'
  BY DEF Inv, OneOpenDispute
<1> QED
  BY <1>1, <1>3, <1>5, <1>6, BecomesTypes DEF Inv

-----------------------------------------------------------------------------
\* What a resolution leaves in a family.
LEMMA DecidedType ==
    ASSUME TypeOK, NEW f \in FamilyIds, NEW verdict \in {"unresolved", "resolved", "rejected", "scoped"},
           NEW chosen \in Claims \cup {NoClaim}, NEW kept, NEW given \in [kept -> Scopes]
    PROVE  Decided(f, verdict, chosen, given) \in Families
<1> DEFINE assigned == [c \in Claims |-> IF c \in DOMAIN given THEN given[c] ELSE NoScope]
<1>1. assigned \in [Claims -> Scopes \cup {NoScope}] /\ DOMAIN given = kept
  OBVIOUS
<1>2. Decided(f, verdict, chosen, given) =
        [kind |-> family[f].kind, status |-> verdict, members |-> family[f].members,
         active |-> chosen, decided |-> TRUE, assigned |-> assigned]
  BY <1>1 DEF Decided
<1> HIDE DEF assigned
<1>3. family[f] \in Families
  BY DEF TypeOK
<1> QED
  BY <1>1, <1>2, <1>3 DEF Families

\* Whoever a decision gives a scope keeps it.
LEMMA DecidedScopes ==
    ASSUME TypeOK, NEW f \in FamilyIds, NEW verdict, NEW chosen, NEW kept, kept \subseteq Claims,
           NEW given \in [kept -> Scopes], NEW c \in kept
    PROVE  Decided(f, verdict, chosen, given).assigned[c] # NoScope
<1>1. Decided(f, verdict, chosen, given).assigned =
        [d \in Claims |-> IF d \in DOMAIN given THEN given[d] ELSE NoScope]
  BY DEF Decided
<1>2. given[c] \in Scopes /\ c \in DOMAIN given /\ c \in Claims
  OBVIOUS
<1>3. [d \in Claims |-> IF d \in DOMAIN given THEN given[d] ELSE NoScope][c] = given[c]
  BY <1>2
<1> QED
  BY <1>1, <1>2, <1>3, ConflictsAssumption

\* Scopes are handed out to members.
LEMMA WithScopesType ==
    ASSUME TypeOK, NEW kept, NEW given \in [kept -> Scopes]
    PROVE  WithScopes(given) \in [Claims -> SUBSET Scopes]
BY DEF WithScopes, TypeOK

LEMMA UnscopedType == Unscoped \in [{} -> Scopes]
BY DEF Unscoped

\* A decision records what it leaves in force.
LEMMA DecisionRecords ==
    ASSUME TypeOK, NEW f \in FamilyIds, NEW row, family' = [family EXCEPT ![f] = row],
           row.members = family[f].members,
           NEW new,
           \A c, d \in family[f].members :
               (c # d /\ new[c] \in Detectable /\ new[d] \in Detectable) =>
                   \/ row.status = "unresolved"
                   \/ /\ c = row.active \/ row.assigned[c] # NoScope
                      /\ d = row.active \/ row.assigned[d] # NoScope
    PROVE  Kept(new)
<1> SUFFICES ASSUME NEW g \in FamilyIds, NEW c \in Claims, NEW d \in Claims,
                    Records(g, c, d), c # d, new[c] \in Detectable, new[d] \in Detectable
             PROVE  Records(g, c, d)'
  BY DEF Kept
<1>1. CASE g # f
  <2>1. family'[g] = family[g]
    BY <1>1 DEF TypeOK
  <2> QED
    BY <2>1, SameRecord
<1>2. CASE g = f
  <2>1. family'[g] = row
    BY <1>2 DEF TypeOK
  <2>2. c \in family[f].members /\ d \in family[f].members
    BY <1>2 DEF Records
  <2> QED
    BY <1>2, <2>1, <2>2 DEF Records, LeftInForce
<1> QED
  BY <1>1, <1>2

\* A family that was decided no longer waits for its first decision.
LEMMA DecidedOnce ==
    ASSUME TypeOK, OneOpenDispute, NEW f \in FamilyIds, NEW row,
           row.decided = TRUE, family' = [family EXCEPT ![f] = row]
    PROVE  OneOpenDispute'
  BY DEF OneOpenDispute, TypeOK

\* What a member that is kept with a scope becomes.
LEMMA ReactivatedStatus ==
    ASSUME TypeOK, NEW c \in Claims, NEW families
    PROVE  /\ Reactivated(c, families) \in Statuses
           /\ Reactivated(c, families) = "disputed" =>
                 status[c] = "disputed" /\ InOpenFamily(c, families)
BY DEF Reactivated, TypeOK, Statuses

\* Picking a winner, and deciding by hand, keeps the invariant: what is
\* neither chosen nor kept leaves force.
LEMMA SettleKeeps ==
    ASSUME Inv, NEW f \in FamilyIds, NEW kept \in SUBSET family[f].members, Settle(f, kept)
    PROVE  Inv'
<1> DEFINE row(verdict, chosen, given) == Decided(f, verdict, chosen, given)
           after(chosen, superseded) ==
             [c \in Claims |->
                IF c = chosen THEN Activated(c)
                ELSE IF c \in superseded THEN "superseded"
                ELSE IF c \in kept THEN Reactivated(c, family')
                ELSE IF c \in family[f].members THEN "rejected"
                ELSE status[c]]
<1>1. PICK chosen \in Selections(f), superseded \in SUBSET family[f].members,
           verdict \in {"resolved", "rejected"} :
        \E given \in [kept -> Scopes] :
          /\ family' = [family EXCEPT ![f] = row(verdict, chosen, given)]
          /\ Becomes(after(chosen, superseded), {})
          /\ scopes' = WithScopes(given)
  BY Zenon DEF Settle
<1>2. PICK given \in [kept -> Scopes] :
          /\ family' = [family EXCEPT ![f] = row(verdict, chosen, given)]
          /\ Becomes(after(chosen, superseded), {})
          /\ scopes' = WithScopes(given)
  BY <1>1
<1>3. chosen \in Claims \cup {NoClaim} /\ family[f].members \subseteq Claims
  BY DEF Inv, TypeOK, Families, Selections
<1>4. DOMAIN given = kept /\ \A c \in kept : given[c] \in Scopes
  OBVIOUS
<1> DEFINE new == after(chosen, superseded)
<1>5. /\ row(verdict, chosen, given) \in Families
      /\ row(verdict, chosen, given).status = verdict
      /\ row(verdict, chosen, given).active = chosen
      /\ row(verdict, chosen, given).members = family[f].members
      /\ row(verdict, chosen, given).decided = TRUE
  <2>1. TypeOK /\ verdict \in {"unresolved", "resolved", "rejected", "scoped"}
    BY DEF Inv
  <2>2. row(verdict, chosen, given) \in Families
    BY <1>3, <2>1, DecidedType
  <2> QED
    BY <2>2 DEF Decided
<1>6. \A c \in kept : row(verdict, chosen, given).assigned[c] # NoScope
  BY <1>3, DecidedScopes DEF Inv
<1> HIDE DEF row
<1>7. \A c \in Claims : new[c] =
        IF c = chosen THEN Activated(c)
        ELSE IF c \in superseded THEN "superseded"
        ELSE IF c \in kept THEN Reactivated(c, family')
        ELSE IF c \in family[f].members THEN "rejected"
        ELSE status[c]
  OBVIOUS
<1>8. new \in [Claims -> Statuses]
  <2>1. \A c \in Claims : Reactivated(c, family') \in Statuses
    BY ReactivatedStatus DEF Inv
  <2> QED
    BY <2>1 DEF Inv, TypeOK, Statuses, Activated
<1>9. family' = [family EXCEPT ![f] = row(verdict, chosen, given)]
  BY <1>2
<1>10. Becomes(new, {}) /\ scopes' = WithScopes(given)
  BY <1>2
<1>11. multi' = multi /\ plan' = plan
  BY DEF Settle
<1> HIDE DEF after
<1>12. TypeOK'
  <2>1. family' \in [FamilyIds -> Families]
    BY <1>5, <1>9 DEF Inv, TypeOK
  <2>2. /\ status' \in [Claims -> Statuses]
        /\ unchecked' \subseteq Claims /\ byHand' \subseteq Claims
    BY <1>8, <1>10, BecomesTypes DEF Inv
  <2>3. scopes' \in [Claims -> SUBSET Scopes]
    BY <1>4, <1>10, WithScopesType DEF Inv
  <2> QED
    BY <1>11, <2>1, <2>2, <2>3 DEF Inv, TypeOK
<1>13. ContradictionsOnRecord'
  <2>1. ASSUME NEW c \in family[f].members, new[c] \in Detectable
        PROVE  c = chosen \/ c \in kept
    BY <1>3, <1>7, <2>1 DEF Detectable
  <2>2. \A c, d \in family[f].members :
           (c # d /\ new[c] \in Detectable /\ new[d] \in Detectable) =>
               \/ row(verdict, chosen, given).status = "unresolved"
               \/ /\ \/ c = row(verdict, chosen, given).active
                     \/ row(verdict, chosen, given).assigned[c] # NoScope
                  /\ \/ d = row(verdict, chosen, given).active
                     \/ row(verdict, chosen, given).assigned[d] # NoScope
    BY <1>5, <1>6, <2>1
  <2>3. TypeOK /\ row(verdict, chosen, given).members = family[f].members
    BY <1>5 DEF Inv
  <2>4. Kept(new)
    BY <1>9, <2>2, <2>3, DecisionRecords, ZenonT(30)
  <2> QED
    BY <1>8, <1>10, <1>11, <2>4, RecordKept DEF Inv
<1>14. DisputesHaveFamilies'
  <2>1. ASSUME NEW c \in Claims, new[c] = "disputed"
        PROVE  status[c] = "disputed" /\ (InOpenFamily(c, family) => InOpenFamily(c, family'))
    <3>1. CASE c \in family[f].members
      <4>1. new[c] = Reactivated(c, family')
        BY <1>7, <2>1, <3>1 DEF Activated
      <4> QED
        BY <2>1, <4>1, ReactivatedStatus DEF Inv
    <3>2. CASE c \notin family[f].members
      <4>1. status[c] = "disputed"
        BY <1>7, <2>1, <3>2 DEF Activated
      <4> QED
        BY <1>9, <3>2, <4>1 DEF InOpenFamily, Inv, TypeOK
    <3> QED
      BY <3>1, <3>2
  <2> QED
    BY <1>8, <1>10, <2>1, DisputesKept DEF Inv
<1>15. OneOpenDispute'
  BY <1>5, <1>9, DecidedOnce DEF Inv
<1> QED
  BY <1>12, <1>13, <1>14, <1>15 DEF Inv

\* Giving the members of a family separate scopes keeps the invariant.
LEMMA ScopeMembersKeeps ==
    ASSUME Inv, NEW f \in FamilyIds, ScopeMembers(f)
    PROVE  Inv'
<1> DEFINE row(chosen, given) == Decided(f, "scoped", chosen, given)
           after(chosen) ==
             [c \in Claims |->
                IF c = chosen THEN Activated(c)
                ELSE IF c \in family[f].members THEN Reactivated(c, family')
                ELSE status[c]]
<1>1. PICK chosen \in Selections(f), given \in [family[f].members -> Scopes] :
        /\ family' = [family EXCEPT ![f] = row(chosen, given)]
        /\ Becomes(after(chosen), {})
        /\ scopes' = WithScopes(given)
  BY Zenon DEF ScopeMembers
<1> DEFINE new == after(chosen)
<1>2. chosen \in Claims \cup {NoClaim} /\ family[f].members \subseteq Claims
  BY DEF Inv, TypeOK, Families, Selections
<1>3. DOMAIN given = family[f].members /\ \A c \in family[f].members : given[c] \in Scopes
  OBVIOUS
<1>4. /\ row(chosen, given) \in Families
      /\ row(chosen, given).status = "scoped"
      /\ row(chosen, given).active = chosen
      /\ row(chosen, given).members = family[f].members
      /\ row(chosen, given).decided = TRUE
  <2>1. row(chosen, given) \in Families
    BY <1>2, DecidedType DEF Inv
  <2> QED
    BY <2>1 DEF Decided
<1>5. \A c \in family[f].members : row(chosen, given).assigned[c] # NoScope
  BY <1>2, DecidedScopes DEF Inv
<1> HIDE DEF row
<1>6. \A c \in Claims : new[c] =
        IF c = chosen THEN Activated(c)
        ELSE IF c \in family[f].members THEN Reactivated(c, family')
        ELSE status[c]
  OBVIOUS
<1>7. new \in [Claims -> Statuses]
  <2>1. \A c \in Claims : Reactivated(c, family') \in Statuses
    BY ReactivatedStatus DEF Inv
  <2> QED
    BY <2>1 DEF Inv, TypeOK, Statuses, Activated
<1>8. family' = [family EXCEPT ![f] = row(chosen, given)]
  BY <1>1
<1>9. Becomes(new, {}) /\ scopes' = WithScopes(given)
  BY <1>1
<1>10. multi' = multi /\ plan' = plan
  BY DEF ScopeMembers
<1> HIDE DEF after
<1>11. TypeOK'
  <2>1. family' \in [FamilyIds -> Families]
    BY <1>4, <1>8 DEF Inv, TypeOK
  <2>2. /\ status' \in [Claims -> Statuses]
        /\ unchecked' \subseteq Claims /\ byHand' \subseteq Claims
    BY <1>7, <1>9, BecomesTypes DEF Inv
  <2>3. scopes' \in [Claims -> SUBSET Scopes]
    BY <1>3, <1>9, WithScopesType DEF Inv
  <2> QED
    BY <1>10, <2>1, <2>2, <2>3 DEF Inv, TypeOK
<1>12. ContradictionsOnRecord'
  <2>2. Kept(new)
    BY <1>4, <1>5, <1>8, DecisionRecords DEF Inv
  <2> QED
    BY <1>7, <1>9, <1>10, <2>2, RecordKept DEF Inv
<1>13. DisputesHaveFamilies'
  <2>1. ASSUME NEW c \in Claims, new[c] = "disputed"
        PROVE  status[c] = "disputed" /\ (InOpenFamily(c, family) => InOpenFamily(c, family'))
    <3>1. CASE c \in family[f].members
      <4>1. new[c] = Reactivated(c, family')
        BY <1>6, <1>9, <2>1, <3>1 DEF Activated
      <4> QED
        BY <2>1, <4>1, ReactivatedStatus DEF Inv
    <3>2. CASE c \notin family[f].members
      <4>1. status[c] = "disputed"
        BY <1>6, <2>1, <3>2 DEF Activated
      <4> QED
        BY <1>8, <3>2, <4>1 DEF InOpenFamily, Inv, TypeOK
    <3> QED
      BY <3>1, <3>2
  <2> QED
    BY <1>7, <1>9, <2>1, DisputesKept DEF Inv
<1>14. OneOpenDispute'
  BY <1>4, <1>8, DecidedOnce DEF Inv
<1> QED
  BY <1>11, <1>12, <1>13, <1>14 DEF Inv

\* Re-opening a family keeps the invariant.
LEMMA MarkUnresolvedKeeps ==
    ASSUME Inv, NEW f \in FamilyIds, MarkUnresolved(f)
    PROVE  Inv'
<1> DEFINE row == Decided(f, "unresolved", family[f].active, Unscoped)
           new == [c \in Claims |-> IF c = family[f].active THEN Activated(c) ELSE status[c]]
<1>1. family' = [family EXCEPT ![f] = row] /\ Becomes(new, {}) /\ multi' = multi
  BY DEF MarkUnresolved, Inv, TypeOK
<1>2. /\ row \in Families /\ row.status = "unresolved"
      /\ row.members = family[f].members /\ row.decided = TRUE
  <2>1. TypeOK /\ family[f].active \in Claims \cup {NoClaim}
    BY DEF Inv, TypeOK, Families
  <2>2. row \in Families
    BY <2>1, DecidedType, UnscopedType
  <2> QED
    BY <2>2 DEF Decided
<1>3. new \in [Claims -> Statuses]
  BY DEF Inv, TypeOK, Statuses, Activated
<1> HIDE DEF row
<1>4. TypeOK'
  <2>1. family' \in [FamilyIds -> Families]
    BY <1>1, <1>2 DEF Inv, TypeOK
  <2>2. /\ status' \in [Claims -> Statuses]
        /\ unchecked' \subseteq Claims /\ byHand' \subseteq Claims
    BY <1>1, <1>3, BecomesTypes DEF Inv
  <2> QED
    BY <2>1, <2>2 DEF Inv, TypeOK, MarkUnresolved
<1>5. ContradictionsOnRecord'
  <2>1. Kept(new)
    BY <1>1, <1>2, DecisionRecords DEF Inv
  <2> QED
    BY <1>1, <1>3, <2>1, RecordKept DEF Inv
<1>6. DisputesHaveFamilies'
  <2>1. ASSUME NEW c \in Claims, new[c] = "disputed"
        PROVE  status[c] = "disputed" /\ (InOpenFamily(c, family) => InOpenFamily(c, family'))
    BY <1>1, <1>2, <2>1 DEF Activated, InOpenFamily, Inv, TypeOK
  <2> QED
    BY <1>1, <1>3, <2>1, DisputesKept DEF Inv
<1>7. OneOpenDispute'
  BY <1>1, <1>2, DecidedOnce DEF Inv
<1> QED
  BY <1>4, <1>5, <1>6, <1>7 DEF Inv

\* Letting the members of a family coexist keeps the invariant: the predicate
\* is multivalued.
LEMMA CoexistKeeps ==
    ASSUME Inv, NEW f \in FamilyIds, Coexist(f)
    PROVE  Inv'
<1> DEFINE row == Decided(f, "resolved", NoClaim, Unscoped)
           new == [c \in Claims |-> IF c \in family[f].members THEN Activated(c) ELSE status[c]]
<1>1. family' = [family EXCEPT ![f] = row] /\ Becomes(new, {}) /\ multi /\ multi' = multi
  BY DEF Coexist
<1>2. row \in Families /\ row.decided = TRUE
  BY DecidedType, UnscopedType DEF Inv, Decided
<1>3. new \in [Claims -> Statuses]
  BY DEF Inv, TypeOK, Statuses, Activated
<1> HIDE DEF row
<1>4. TypeOK'
  <2>1. family' \in [FamilyIds -> Families]
    BY <1>1, <1>2 DEF Inv, TypeOK
  <2>2. /\ status' \in [Claims -> Statuses]
        /\ unchecked' \subseteq Claims /\ byHand' \subseteq Claims
    BY <1>1, <1>3, BecomesTypes DEF Inv
  <2> QED
    BY <2>1, <2>2 DEF Inv, TypeOK, Coexist
<1>5. ContradictionsOnRecord'
  BY <1>1 DEF ContradictionsOnRecord
<1>6. DisputesHaveFamilies'
  <2>1. ASSUME NEW c \in Claims, new[c] = "disputed"
        PROVE  status[c] = "disputed" /\ (InOpenFamily(c, family) => InOpenFamily(c, family'))
    <3>1. status[c] = "disputed" /\ c \notin family[f].members
      BY <2>1 DEF Activated
    <3> QED
      BY <1>1, <3>1 DEF InOpenFamily, Inv, TypeOK
  <2> QED
    BY <1>1, <1>3, <2>1, DisputesKept DEF Inv
<1>7. OneOpenDispute'
  BY <1>1, <1>2, DecidedOnce DEF Inv
<1> QED
  BY <1>4, <1>5, <1>6, <1>7 DEF Inv

-----------------------------------------------------------------------------
\* What detection may do to the family that receives its findings.
LEMMA TargetJoined ==
    ASSUME TypeOK, NEW f \in FamilyIds, NEW kind \in {"dispute", "duplicate"}, NEW taken,
           NEW found, found \subseteq Claims, Target(kind, f, taken)
    PROVE  /\ Joined(f, kind, found) \in Families
           /\ Joined(f, kind, found).status = "unresolved"
           /\ found \subseteq Joined(f, kind, found).members
           /\ family[f].status \in {"absent", "unresolved"}
           /\ family[f].status = "unresolved" =>
                /\ family[f].members \subseteq Joined(f, kind, found).members
                /\ Joined(f, kind, found).kind = family[f].kind
                /\ Joined(f, kind, found).decided = family[f].decided
                /\ family[f].kind = kind
           /\ family[f].status = "absent" =>
                OpenFamilies(kind) = {} /\ Joined(f, kind, found).kind = kind
<1>1. family[f] \in Families
  BY DEF TypeOK
<1>2. NewFamily(kind) \in Families
  BY DEF Families, NewFamily, NoFamily
<1>3. CASE OpenFamilies(kind) # {}
  <2>1. family[f].status = "unresolved" /\ family[f].kind = kind
    BY <1>3 DEF Target, OpenFamilies
  <2> QED
    BY <1>1, <2>1 DEF Joined, Families
<1>4. CASE OpenFamilies(kind) = {}
  <2>1. family[f].status = "absent"
    BY <1>4 DEF Target
  <2> QED
    BY <1>2, <1>4, <2>1 DEF Joined, Families, NewFamily, NoFamily
<1> QED
  BY <1>3, <1>4

\* Detection restores the record of every contradiction and keeps the rest.
LEMMA DetectKeeps ==
    ASSUME Inv, NEW st \in [Claims -> Statuses], Detect(st), multi' = multi,
           \A c \in Claims : st[c] = "disputed" => status[c] = "disputed"
    PROVE  /\ ContradictionsOnRecord' /\ DisputesHaveFamilies' /\ OneOpenDispute'
           /\ status' \in [Claims -> Statuses] /\ family' \in [FamilyIds -> Families]
           /\ unchecked' \subseteq Claims /\ byHand' \subseteq Claims
<1>1. PICK df, uf \in FamilyIds \cup {0} :
        /\ IF Disputants(st) = {} THEN df = 0 ELSE df # 0 /\ Target("dispute", df, {})
        /\ IF Duplicates(st) = {} THEN uf = 0 ELSE uf # 0 /\ Target("duplicate", uf, {df})
        /\ status' = Disputing(st)
        /\ family' = [f \in FamilyIds |->
                        IF f = df THEN Joined(f, "dispute", Disputants(st))
                        ELSE IF f = uf THEN Joined(f, "duplicate", Duplicates(st))
                        ELSE family[f]]
        /\ unchecked' = {}
        /\ byHand' = byHand \ Disputants(st)
  BY Zenon DEF Detect
<1> DEFINE dispute == Joined(df, "dispute", Disputants(st))
           duplicate == Joined(uf, "duplicate", Duplicates(st))
<1>2. Disputants(st) \subseteq Claims /\ Duplicates(st) \subseteq Claims /\ 0 \notin FamilyIds
  BY DEF Disputants, Duplicates, FamilyIds
<1>3. ASSUME df \in FamilyIds
      PROVE  /\ dispute \in Families
             /\ dispute.status = "unresolved"
             /\ Disputants(st) \subseteq dispute.members
             /\ family[df].status \in {"absent", "unresolved"}
             /\ family[df].status = "unresolved" =>
                  /\ family[df].members \subseteq dispute.members
                  /\ dispute.kind = family[df].kind
                  /\ dispute.decided = family[df].decided
                  /\ family[df].kind = "dispute"
             /\ family[df].status = "absent" =>
                  OpenFamilies("dispute") = {} /\ dispute.kind = "dispute"
  <2>1. Target("dispute", df, {})
    BY <1>1, <1>2, <1>3
  <2> QED
    BY <1>2, <1>3, <2>1, TargetJoined, SMTT(30) DEF Inv
<1>4. ASSUME uf \in FamilyIds
      PROVE  /\ duplicate \in Families
             /\ duplicate.status = "unresolved"
             /\ family[uf].status \in {"absent", "unresolved"}
             /\ family[uf].status = "unresolved" =>
                  /\ family[uf].members \subseteq duplicate.members
                  /\ duplicate.kind = family[uf].kind
                  /\ duplicate.decided = family[uf].decided
                  /\ family[uf].kind = "duplicate"
             /\ family[uf].status = "absent" =>
                  OpenFamilies("duplicate") = {} /\ duplicate.kind = "duplicate"
  <2>1. Target("duplicate", uf, {df})
    BY <1>1, <1>2, <1>4
  <2> QED
    BY <1>2, <1>4, <2>1, TargetJoined, SMTT(30) DEF Inv
<1>5. family' = [f \in FamilyIds |-> IF f = df THEN dispute
                                     ELSE IF f = uf THEN duplicate ELSE family[f]]
  BY <1>1
<1> HIDE DEF dispute, duplicate
<1>6. family' \in [FamilyIds -> Families]
  BY <1>3, <1>4, <1>5 DEF Inv, TypeOK
<1>7. /\ status' \in [Claims -> Statuses]
      /\ unchecked' \subseteq Claims /\ byHand' \subseteq Claims
  BY <1>1 DEF Inv, TypeOK, Statuses, Disputing
<1>8. \A f \in FamilyIds : family[f].status \notin {"absent", "unresolved"} => family'[f] = family[f]
  BY <1>3, <1>4, <1>5
<1>9. Disputants(st) # {} => df \in FamilyIds
  BY <1>1, <1>2
<1>10. ContradictionsOnRecord'
  <2> SUFFICES ASSUME NEW c \in Claims, NEW d \in Claims, ~multi,
                      status'[c] \in Detectable, status'[d] \in Detectable,
                      ValueOf[c] # ValueOf[d]
               PROVE  \E f \in FamilyIds : Records(f, c, d)'
    BY DEF ContradictionsOnRecord
  <2>1. st[c] \in Detectable /\ st[d] \in Detectable
    BY <1>1 DEF Disputing, Disputants, Opposed
  <2>2. CASE Approved(c, d)
    <3>1. PICK f \in FamilyIds : /\ family[f].status = "scoped" /\ {c, d} \subseteq family[f].members
                                 /\ scopes[c] = {family[f].assigned[c]}
                                 /\ scopes[d] = {family[f].assigned[d]}
      BY <2>2 DEF Approved
    <3>2. family[f].assigned[c] # NoScope /\ family[f].assigned[d] # NoScope
      BY <3>1, ConflictsAssumption DEF Inv, TypeOK
    <3>3. Records(f, c, d)
      BY <3>1, <3>2 DEF Records, LeftInForce
    <3> QED
      BY <1>8, <3>1, <3>3, SameRecord
  <2>3. CASE ~Approved(c, d)
    <3>1. Opposed(c, d, st) /\ Opposed(d, c, st)
      BY <2>1, <2>3 DEF Opposed, Approved
    <3>2. c \in Disputants(st) /\ d \in Disputants(st)
      BY <3>1 DEF Disputants
    <3>3. df \in FamilyIds
      BY <1>9, <3>2
    <3>4. family'[df] = dispute /\ dispute.status = "unresolved" /\ {c, d} \subseteq dispute.members
      BY <1>3, <1>5, <3>2, <3>3
    <3> QED
      BY <3>3, <3>4 DEF Records
  <2> QED
    BY <2>2, <2>3
<1>11. DisputesHaveFamilies'
  <2> SUFFICES ASSUME NEW c \in Claims, status'[c] = "disputed", c \notin byHand'
               PROVE  InOpenFamily(c, family')
    BY DEF DisputesHaveFamilies, InOpenFamily
  <2>1. CASE c \in Disputants(st)
    BY <1>3, <1>5, <1>9, <2>1 DEF InOpenFamily
  <2>2. CASE c \notin Disputants(st)
    <3>1. status[c] = "disputed" /\ c \notin byHand
      BY <1>1, <2>2 DEF Disputing
    <3>2. PICK f \in FamilyIds : family[f].status = "unresolved" /\ c \in family[f].members
      BY <3>1 DEF Inv, DisputesHaveFamilies, InOpenFamily
    <3>3. family'[f].status = "unresolved" /\ c \in family'[f].members
      BY <1>3, <1>4, <1>5, <3>2
    <3> QED
      BY <3>3 DEF InOpenFamily
  <2> QED
    BY <2>1, <2>2
<1>12. OneOpenDispute'
  <2> DEFINE Waits(row) == row.status = "unresolved" /\ ~row.decided
  <2>1. ASSUME NEW f \in FamilyIds, Waits(family'[f])
        PROVE  \/ Waits(family[f]) /\ family'[f].kind = family[f].kind
               \/ /\ f = df /\ OpenFamilies("dispute") = {} /\ family'[f].kind = "dispute"
               \/ /\ f = uf /\ OpenFamilies("duplicate") = {} /\ family'[f].kind = "duplicate"
    BY <1>3, <1>4, <1>5, <2>1
  <2> SUFFICES ASSUME NEW f \in FamilyIds, NEW g \in FamilyIds,
                      Waits(family'[f]), Waits(family'[g]), family'[f].kind = family'[g].kind
               PROVE  f = g
    BY DEF OneOpenDispute
  <2>2. CASE Waits(family[f]) /\ family'[f].kind = family[f].kind
             /\ Waits(family[g]) /\ family'[g].kind = family[g].kind
    BY <2>2 DEF Inv, OneOpenDispute
  <2>3. CASE ~(Waits(family[f]) /\ family'[f].kind = family[f].kind)
    BY <2>1, <2>3 DEF OpenFamilies
  <2>4. CASE ~(Waits(family[g]) /\ family'[g].kind = family[g].kind)
    BY <2>1, <2>4 DEF OpenFamilies
  <2> QED
    BY <2>2, <2>3, <2>4
<1> QED
  BY <1>6, <1>7, <1>10, <1>11, <1>12

-----------------------------------------------------------------------------
\* The invariant holds initially.
LEMMA InitInv == Init => Inv
<1> SUFFICES ASSUME Init
             PROVE  Inv
  OBVIOUS
<1>1. TypeOK
  BY DEF Init, TypeOK, Statuses, Families, NoFamily
<1>2. ContradictionsOnRecord /\ DisputesHaveFamilies
  BY DEF Init, ContradictionsOnRecord, DisputesHaveFamilies, Detectable
<1>3. OneOpenDispute
  BY DEF Init, OneOpenDispute, NoFamily
<1> QED
  BY <1>1, <1>2, <1>3 DEF Inv

\* A step of one claim keeps the invariant.
LEMMA ClaimStepKeeps ==
    ASSUME Inv, NEW c \in Claims, ClaimStep(c)
    PROVE  Inv'
<1> USE DEF Inv
<1>1. CASE WriteCandidate(c)
  <2>1. /\ "candidate" \in Statuses
        /\ Becomes([status EXCEPT ![c] = "candidate"], {}) /\ UNCHANGED <<family, multi>>
    BY <1>1 DEF WriteCandidate, Statuses
  <2>2. /\ ContradictionsOnRecord' /\ DisputesHaveFamilies' /\ OneOpenDispute'
        /\ status' \in [Claims -> Statuses]
        /\ unchecked' \subseteq Claims /\ byHand' \subseteq Claims
    BY <2>1, SingleDecision
  <2> QED
    BY <1>1, <2>2 DEF WriteCandidate, TypeOK
<1>2. ASSUME NEW s \in Serving, WriteServing(c, s)
      PROVE  Inv'
  <2> DEFINE st == [status EXCEPT ![c] = s]
  <2>1. /\ st \in [Claims -> Statuses]
        /\ \A d \in Claims : st[d] = "disputed" => status[d] = "disputed"
    BY DEF TypeOK, Serving, Statuses
  <2>2. Detect(st) /\ UNCHANGED <<scopes, multi, plan>>
    BY <1>2 DEF WriteServing
  <2> HIDE DEF st
  <2> QED
    BY <2>1, <2>2, DetectKeeps DEF TypeOK
<1>4. ASSUME NEW s \in Promotions, NEW force \in BOOLEAN, PromoteClaim(c, s, force)
      PROVE  Inv'
  <2>1. /\ s \in Statuses /\ s # "disputed"
        /\ Becomes([status EXCEPT ![c] = s], {}) /\ UNCHANGED <<family, multi>>
    BY <1>4 DEF PromoteClaim, Promotions, Statuses
  <2>2. /\ ContradictionsOnRecord' /\ DisputesHaveFamilies' /\ OneOpenDispute'
        /\ status' \in [Claims -> Statuses]
        /\ unchecked' \subseteq Claims /\ byHand' \subseteq Claims
    BY <2>1, SingleDecision
  <2> QED
    BY <1>4, <2>2 DEF PromoteClaim, TypeOK
<1>5. ASSUME NEW s \in Demotions, DemoteClaim(c, s)
      PROVE  Inv'
  <2> DEFINE hand == IF status[c] = "disputed" THEN {} ELSE {c}
  <2>1. /\ s \in Statuses /\ hand \subseteq Claims /\ (status[c] = "disputed" \/ c \in hand)
        /\ Becomes([status EXCEPT ![c] = s], hand) /\ UNCHANGED <<family, multi>>
    BY <1>5 DEF DemoteClaim, Demotions, Statuses
  <2> HIDE DEF hand
  <2>2. /\ ContradictionsOnRecord' /\ DisputesHaveFamilies' /\ OneOpenDispute'
        /\ status' \in [Claims -> Statuses]
        /\ unchecked' \subseteq Claims /\ byHand' \subseteq Claims
    BY <2>1, SingleDecision
  <2> QED
    BY <1>5, <2>2 DEF DemoteClaim, TypeOK
<1>6. ASSUME NEW d \in Claims, SupersedeClaim(c, d)
      PROVE  Inv'
  <2>1. /\ "superseded" \in Statuses
        /\ Becomes([status EXCEPT ![c] = "superseded"], {}) /\ UNCHANGED <<family, multi>>
    BY <1>6 DEF SupersedeClaim, Statuses
  <2>2. /\ ContradictionsOnRecord' /\ DisputesHaveFamilies' /\ OneOpenDispute'
        /\ status' \in [Claims -> Statuses]
        /\ unchecked' \subseteq Claims /\ byHand' \subseteq Claims
    BY <2>1, SingleDecision
  <2> QED
    BY <1>6, <2>2 DEF SupersedeClaim, TypeOK
<1>7. CASE Feedback(c)
  <2> DEFINE hand == IF status[c] = "disputed" THEN {} ELSE {c}
  <2>1. PICK s \in Judgements(c) : Becomes([status EXCEPT ![c] = s], hand)
    BY <1>7 DEF Feedback
  <2>2. /\ s \in Statuses /\ hand \subseteq Claims /\ (status[c] = "disputed" \/ c \in hand)
        /\ UNCHANGED <<family, multi>>
    BY <1>7 DEF Feedback, Judgements, Statuses
  <2> HIDE DEF hand
  <2>3. /\ ContradictionsOnRecord' /\ DisputesHaveFamilies' /\ OneOpenDispute'
        /\ status' \in [Claims -> Statuses]
        /\ unchecked' \subseteq Claims /\ byHand' \subseteq Claims
    BY <2>1, <2>2, SingleDecision
  <2> QED
    BY <1>7, <2>3 DEF Feedback, TypeOK
<1>8. ASSUME NEW s \in Scopes, ScopeClaim(c, s)
      PROVE  Inv'
  <2> DEFINE new == IF status[c] = "disputed" /\ ~InOpenFamily(c, family)
                    THEN "active" ELSE status[c]
  <2>1. new \in Statuses /\ (new = "disputed" => status[c] = "disputed")
    BY DEF TypeOK, Statuses
  <2>2. Becomes([status EXCEPT ![c] = new], {}) /\ UNCHANGED <<family, multi>>
    BY <1>8 DEF ScopeClaim, TypeOK
  <2> HIDE DEF new
  <2>3. /\ ContradictionsOnRecord' /\ DisputesHaveFamilies' /\ OneOpenDispute'
        /\ status' \in [Claims -> Statuses]
        /\ unchecked' \subseteq Claims /\ byHand' \subseteq Claims
    BY <2>1, <2>2, SingleDecision
  <2> QED
    BY <1>8, <2>3 DEF ScopeClaim, TypeOK
<1>9. CASE CurateClaim(c)
  <2>1. /\ ContradictionsOnRecord' /\ DisputesHaveFamilies' /\ OneOpenDispute'
        /\ status' \in [Claims -> Statuses]
        /\ unchecked' \subseteq Claims /\ byHand' \subseteq Claims
    <3>1. CASE plan[c] = "archived" \/ Promotable(c)
      <4>1. /\ plan[c] \in Statuses /\ plan[c] # "disputed"
            /\ Becomes([status EXCEPT ![c] = plan[c]], {}) /\ UNCHANGED <<family, multi>>
        BY <1>9, <3>1 DEF CurateClaim, TypeOK, Statuses
      <4> QED
        BY <4>1, SingleDecision
    <3>2. CASE ~(plan[c] = "archived" \/ Promotable(c))
      BY <1>9, <3>2, RecordsUnchanged DEF CurateClaim, TypeOK, DisputesHaveFamilies,
                        InOpenFamily, OneOpenDispute
    <3> QED
      BY <3>1, <3>2
  <2> QED
    BY <1>9, <2>1 DEF CurateClaim, TypeOK
<1> QED
  BY <1>1, <1>2, <1>4, <1>5, <1>6, <1>7, <1>8, <1>9 DEF ClaimStep

\* Every step keeps the invariant.
LEMMA NextInv == Inv /\ [Next]_vars => Inv'
<1> SUFFICES ASSUME Inv, [Next]_vars
             PROVE  Inv'
  OBVIOUS
<1>1. ASSUME NEW c \in Claims, ClaimStep(c)
      PROVE  Inv'
  BY <1>1, ClaimStepKeeps
<1>2. ASSUME NEW f \in FamilyIds, ResolveConflict(f)
      PROVE  Inv'
  BY <1>2, SettleKeeps, ScopeMembersKeeps, MarkUnresolvedKeeps, CoexistKeeps
     DEF ResolveConflict, Inv
<1>3. CASE DetectConflicts
  BY <1>3, DetectKeeps DEF DetectConflicts, Inv, TypeOK
<1>4. CASE SetPredicateSemantics
  BY <1>4 DEF SetPredicateSemantics, Inv, TypeOK, ContradictionsOnRecord, DisputesHaveFamilies,
              InOpenFamily, OneOpenDispute, Exists, Detectable
<1>5. CASE Curate
  BY <1>5, RecordsUnchanged DEF Curate, Inv, TypeOK, DisputesHaveFamilies, InOpenFamily,
              OneOpenDispute
<1>6. CASE UNCHANGED vars
  BY <1>6, RecordsUnchanged DEF vars, Inv, TypeOK, DisputesHaveFamilies, InOpenFamily,
              OneOpenDispute
<1> QED
  BY <1>1, <1>2, <1>3, <1>4, <1>5, <1>6 DEF Next

\* No contradiction escapes detection, a claim that the engine disputed is in
\* an open family, and a slot has at most one undecided family of a kind, in
\* every state of every slot: whatever the writers, decisions and
\* resolutions, and however many claims and families there are.
THEOREM ConflictSafety ==
    Spec => [](TypeOK /\ ContradictionsOnRecord /\ DisputesHaveFamilies /\ OneOpenDispute)
<1>1. Inv => TypeOK /\ ContradictionsOnRecord /\ DisputesHaveFamilies /\ OneOpenDispute
  BY DEF Inv
<1> QED
  BY <1>1, InitInv, NextInv, PTL DEF Spec

\* Later assertions join the open dispute instead of opening another one.
THEOREM OneDispute == Spec => []OneOpenDispute
<1>1. Inv => OneOpenDispute
  BY DEF Inv
<1> QED
  BY <1>1, InitInv, NextInv, PTL DEF Spec

-----------------------------------------------------------------------------
(* Context packs.  What a pack in the making shows is still in force and    *)
(* still applies when it is finished, unless the pack says otherwise; the   *)
(* record of contradictions then names a family for any two of its claims,  *)
(* and the warnings are taken from the same state.                          *)

\* What the retrievals of an undisturbed pack found still holds.
ShownHolds ==
    (pack.phase = "reading" /\ ~pack.disturbed /\ ~pack.straddled) =>
        \A c \in pack.shown : status[c] \in Serving /\ Matches(c, pack.asked)

RecallInv ==
    /\ Inv
    /\ RecallTypeOK
    /\ ShownHolds
    /\ ContradictionsComeWithWarnings

\* A retrieval without a query finds nothing that a query would not match.
LEMMA AmbientMatches ==
    ASSUME NEW c, NEW asked, Matches(c, {})
    PROVE  Matches(c, asked)
  BY DEF Matches

\* Two claims that both apply to a query about one context, or to one period,
\* were not given separate scopes.
LEMMA ApprovedApart ==
    ASSUME NEW c \in Claims, NEW d \in Claims, NEW asked, \A s, t \in asked : s = t,
           Matches(c, asked), Matches(d, asked)
    PROVE  ~Approved(c, d)
<1> SUFFICES ASSUME Approved(c, d)
             PROVE  FALSE
  OBVIOUS
<1>1. PICK f \in FamilyIds : /\ scopes[c] = {family[f].assigned[c]}
                             /\ scopes[d] = {family[f].assigned[d]}
                             /\ family[f].assigned[c] # family[f].assigned[d]
  BY DEF Approved
<1> DEFINE applies == IF dated THEN {clock} ELSE asked
<1>2. scopes[c] \cap applies # {} /\ scopes[d] \cap applies # {}
  BY <1>1 DEF Matches
<1>3. family[f].assigned[c] \in applies /\ family[f].assigned[d] \in applies
  BY <1>1, <1>2
<1>4. \A s, t \in applies : s = t
  OBVIOUS
<1> QED
  BY <1>1, <1>3, <1>4

\* The exceptions that a pack is judged by do not depend on its making.
LEMMA SameExceptions ==
    ASSUME UNCHANGED vars, NEW c, NEW d
    PROVE  /\ Uncompared(c, d)' <=> Uncompared(c, d)
           /\ Rescoped(c, d)' <=> Rescoped(c, d)
           /\ KeptByHand(c, d)' <=> KeptByHand(c, d)
           /\ pack'.hidden = pack.hidden => (HiddenDispute(c, d)' <=> HiddenDispute(c, d))
  BY DEF vars, Uncompared, Rescoped, Approved, KeptByHand, LeftInForce, HiddenDispute

\* Two claims of a pack that contradict each other have an open family that
\* the reader may know of, unless one of the exceptions applies.
LEMMA DisputeIsOpen ==
    ASSUME Inv, ~multi, NEW asked, \A s, t \in asked : s = t,
           NEW c \in Claims, NEW d \in Claims, ValueOf[c] # ValueOf[d],
           status[c] \in Serving, status[d] \in Serving,
           Matches(c, asked), Matches(d, asked),
           ~Uncompared(c, d), ~Rescoped(c, d), ~KeptByHand(c, d), ~HiddenDispute(c, d)
    PROVE  \E W \in Warnings(pack.hidden) : {c, d} \subseteq W
<1>1. PICK f \in FamilyIds : Records(f, c, d)
  <2>1. {status[c], status[d]} \subseteq Detectable /\ {c, d} \cap unchecked = {}
    BY DEF Serving, Detectable, Uncompared
  <2> QED
    BY <2>1 DEF Inv, ContradictionsOnRecord
<1>2. {c, d} \subseteq family[f].members
  BY <1>1 DEF Records
<1>3. family[f].status = "unresolved"
  <2>1. family[f].status # "scoped"
    BY <1>2, ApprovedApart DEF Rescoped
  <2>2. family[f].status \notin {"unresolved", "scoped"} => ~({c, d} \subseteq LeftInForce(f))
    BY DEF KeptByHand
  <2> QED
    BY <1>1, <2>1, <2>2 DEF Records
<1>4. family[f].members \cap pack.hidden = {}
  BY <1>2 DEF HiddenDispute
<1> QED
  BY <1>2, <1>3, <1>4 DEF Warnings

\* A pack whose claims still hold comes with the warnings it needs.
LEMMA FinishedWithWarnings ==
    ASSUME Inv, RecallTypeOK, ShownHolds, FinishPack
    PROVE  ContradictionsComeWithWarnings'
<1>1. PICK kept \in SUBSET pack.shown :
        pack' = [pack EXCEPT !.phase = "done", !.shown = kept, !.warned = Warnings(pack.hidden)]
  BY DEF FinishPack, WithinBudget
<1>2. /\ pack.phase = "reading" /\ UNCHANGED vars /\ multi' = multi
      /\ pack'.shown \subseteq pack.shown /\ pack'.warned = Warnings(pack.hidden)
      /\ pack'.asked = pack.asked /\ pack'.hidden = pack.hidden
      /\ pack'.straddled = pack.straddled /\ pack'.disturbed = pack.disturbed
      /\ pack.shown \subseteq Claims
  BY <1>1 DEF FinishPack, RecallTypeOK, Packs, vars
<1> SUFFICES ASSUME ~multi, ~pack.straddled, ~pack.disturbed, \A s, t \in pack.asked : s = t,
                    NEW c \in pack'.shown, NEW d \in pack'.shown, ValueOf[c] # ValueOf[d],
                    ~Uncompared(c, d)', ~Rescoped(c, d)', ~KeptByHand(c, d)', ~HiddenDispute(c, d)'
             PROVE  \E W \in pack'.warned : {c, d} \subseteq W
  BY <1>2 DEF ContradictionsComeWithWarnings
<1>3. ~Uncompared(c, d) /\ ~Rescoped(c, d) /\ ~KeptByHand(c, d) /\ ~HiddenDispute(c, d)
  BY <1>2, SameExceptions
<1>4. /\ c \in Claims /\ status[c] \in Serving /\ Matches(c, pack.asked)
      /\ d \in Claims /\ status[d] \in Serving /\ Matches(d, pack.asked)
  BY <1>2 DEF ShownHolds
<1> QED
  BY <1>2, <1>3, <1>4, DisputeIsOpen

\* A finished pack that a step leaves as it is keeps its warnings.
LEMMA WarningsKept ==
    ASSUME ContradictionsComeWithWarnings, UNCHANGED vars, pack' = pack
    PROVE  ContradictionsComeWithWarnings'
<1>1. multi' = multi
  BY DEF vars
<1>2. \A c, d \in pack.shown : /\ Uncompared(c, d)' <=> Uncompared(c, d)
                               /\ Rescoped(c, d)' <=> Rescoped(c, d)
                               /\ KeptByHand(c, d)' <=> KeptByHand(c, d)
                               /\ HiddenDispute(c, d)' <=> HiddenDispute(c, d)
  BY SameExceptions
<1> QED
  BY <1>1, <1>2 DEF ContradictionsComeWithWarnings

\* Where nothing was written, the invariant of the slot and the claims of a
\* pack hold as before.
LEMMA Unwritten ==
    ASSUME Inv, UNCHANGED vars
    PROVE  /\ Inv'
           /\ \A c, asked : (dated' = dated /\ clock' = clock) => (Matches(c, asked)' <=> Matches(c, asked))
           /\ status' = status
<1>1. Inv'
  BY NextInv
<1>2. status' = status /\ scopes' = scopes
  BY DEF vars
<1> QED
  BY <1>1, <1>2 DEF Matches

LEMMA RecallStepKeeps ==
    ASSUME RecallInv, RecallStep
    PROVE  RecallInv'
<1> USE DEF RecallInv
<1>1. UNCHANGED <<vars, dated>>
  BY DEF RecallStep, BeginPack, AddAmbient, FinishPack, DeliverPack, Tick
<1>2. /\ Inv' /\ status' = status
      /\ \A c, asked : clock' = clock => (Matches(c, asked)' <=> Matches(c, asked))
  BY <1>1, Unwritten
<1>3. ASSUME NEW service \in BOOLEAN, NEW asked \in SUBSET Scopes, NEW hidden \in SUBSET Claims,
             BeginPack(service, asked, hidden)
      PROVE  RecallTypeOK' /\ ShownHolds' /\ ContradictionsComeWithWarnings'
  <2>1. PICK found \in Retrieved(asked, hidden) :
          pack' = [NoPack EXCEPT !.phase = "reading", !.service = service, !.asked = asked,
                                 !.hidden = hidden, !.shown = found]
    BY <1>3 DEF BeginPack
  <2>2. found \subseteq Claims /\ \A c \in found : status[c] \in Serving /\ Matches(c, asked)
    BY DEF Retrieved, Eligible
  <2>3. /\ pack' \in Packs /\ pack'.phase = "reading"
        /\ pack'.shown = found /\ pack'.asked = asked
    BY <2>1, <2>2 DEF NoPack, Packs
  <2>4. clock' = clock
    BY <1>3 DEF BeginPack
  <2>5. RecallTypeOK'
    BY <1>1, <2>3, <2>4 DEF RecallTypeOK
  <2>6. ShownHolds'
    BY <1>2, <2>2, <2>3, <2>4 DEF ShownHolds
  <2> QED
    BY <2>3, <2>5, <2>6 DEF ContradictionsComeWithWarnings
<1>4. ASSUME AddAmbient
      PROVE  RecallTypeOK' /\ ShownHolds' /\ ContradictionsComeWithWarnings'
  <2>1. PICK found \in Retrieved({}, pack.hidden) : pack' = [pack EXCEPT !.shown = @ \cup found]
    BY <1>4 DEF AddAmbient
  <2>2. \A c \in found : c \in Claims /\ status[c] \in Serving /\ Matches(c, pack.asked)
    BY AmbientMatches DEF Retrieved, Eligible
  <2>3. /\ pack' \in Packs /\ pack'.phase = pack.phase /\ pack'.asked = pack.asked
        /\ pack'.shown = pack.shown \cup found
        /\ pack'.straddled = pack.straddled /\ pack'.disturbed = pack.disturbed
    BY <2>1, <2>2 DEF RecallTypeOK, Packs
  <2>4. clock' = clock /\ pack.phase = "reading"
    BY <1>4 DEF AddAmbient
  <2>5. RecallTypeOK'
    BY <1>1, <2>3, <2>4 DEF RecallTypeOK
  <2>6. ShownHolds'
    BY <1>2, <2>2, <2>3, <2>4 DEF ShownHolds
  <2> QED
    BY <2>3, <2>4, <2>5, <2>6 DEF ContradictionsComeWithWarnings
<1>5. ASSUME FinishPack
      PROVE  RecallTypeOK' /\ ShownHolds' /\ ContradictionsComeWithWarnings'
  <2>1. PICK kept \in SUBSET pack.shown :
          pack' = [pack EXCEPT !.phase = "done", !.shown = kept, !.warned = Warnings(pack.hidden)]
    BY <1>5 DEF FinishPack, WithinBudget
  <2>2. Warnings(pack.hidden) \in SUBSET SUBSET Claims
    BY DEF Warnings, Inv, TypeOK, Families
  <2>3. pack' \in Packs /\ pack'.phase = "done"
    BY <2>1, <2>2 DEF RecallTypeOK, Packs
  <2>4. RecallTypeOK' /\ ShownHolds'
    BY <1>1, <1>5, <2>3 DEF FinishPack, RecallTypeOK, ShownHolds
  <2> QED
    BY <2>4, <1>5, FinishedWithWarnings
<1>6. ASSUME DeliverPack
      PROVE  RecallTypeOK' /\ ShownHolds' /\ ContradictionsComeWithWarnings'
  <2>1. pack' = NoPack /\ clock' = clock
    BY <1>6 DEF DeliverPack
  <2>2. NoPack \in Packs /\ NoPack.phase = "none"
    BY DEF NoPack, Packs
  <2> QED
    BY <1>1, <2>1, <2>2 DEF RecallTypeOK, ShownHolds, ContradictionsComeWithWarnings
<1>7. ASSUME Tick
      PROVE  RecallTypeOK' /\ ShownHolds' /\ ContradictionsComeWithWarnings'
  <2>1. clock' \in Scopes \cup {NoScope}
    BY <1>7 DEF Tick
  <2>2. CASE pack.phase = "reading"
    <3>1. pack' = [pack EXCEPT !.straddled = TRUE]
      BY <1>7, <2>2 DEF Tick
    <3>2. pack' \in Packs /\ pack'.phase = "reading" /\ pack'.straddled
      BY <2>2, <3>1 DEF RecallTypeOK, Packs
    <3> QED
      BY <1>1, <2>1, <3>2 DEF RecallTypeOK, ShownHolds, ContradictionsComeWithWarnings
  <2>3. CASE pack.phase # "reading"
    <3>1. pack' = pack
      BY <1>7, <2>3 DEF Tick
    <3>2. ContradictionsComeWithWarnings'
      BY <1>1, <3>1, WarningsKept
    <3> QED
      BY <1>1, <2>1, <2>3, <3>1, <3>2 DEF RecallTypeOK, ShownHolds
  <2> QED
    BY <2>2, <2>3
<1> QED
  BY <1>2, <1>3, <1>4, <1>5, <1>6, <1>7 DEF RecallStep

\* A writer's step while a pack is made.
LEMMA MeanwhileKeeps ==
    ASSUME RecallInv, Next, Meanwhile
    PROVE  RecallInv'
<1> USE DEF RecallInv
<1>1. Inv'
  BY NextInv
<1>2. CASE pack.phase = "none"
  BY <1>1, <1>2 DEF Meanwhile, RecallTypeOK, ShownHolds, ContradictionsComeWithWarnings
<1>3. CASE pack.phase # "none"
  <2>1. pack' = [pack EXCEPT !.disturbed = TRUE] /\ UNCHANGED <<dated, clock>>
    BY <1>3 DEF Meanwhile
  <2>2. pack' \in Packs /\ pack'.disturbed
    BY <2>1 DEF RecallTypeOK, Packs
  <2> QED
    BY <1>1, <2>1, <2>2 DEF RecallTypeOK, ShownHolds, ContradictionsComeWithWarnings
<1> QED
  BY <1>2, <1>3

\* Packs only read: what they are made of changes as Conflicts describes.
THEOREM PacksOnlyRead == RecallSpec => Spec
<1>1. RecallInit => Init
  BY DEF RecallInit
<1>2. [RecallNext]_<<vars, recallVars>> => [Next]_vars
  BY DEF RecallNext, RecallStep, BeginPack, AddAmbient, FinishPack, DeliverPack, Tick
<1> QED
  BY <1>1, <1>2, PTL DEF RecallSpec, Spec

\* Whoever reads a contradiction in one context pack is warned of its dispute,
\* for every set of claims, scopes and families, every reader and any
\* interleaving of packs with writers, decisions and resolutions; the
\* exceptions are those the property names.
THEOREM WarnedReaders == RecallSpec => []ContradictionsComeWithWarnings
<1>1. RecallInit => RecallInv
  <2> SUFFICES ASSUME RecallInit
               PROVE  RecallInv
    OBVIOUS
  <2>1. NoPack \in Packs /\ NoPack.phase = "none"
    BY DEF NoPack, Packs
  <2>2. RecallTypeOK
    BY <2>1 DEF RecallInit, RecallTypeOK
  <2> QED
    BY <2>1, <2>2, InitInv DEF RecallInit, RecallInv, ShownHolds, ContradictionsComeWithWarnings
<1>2. RecallInv /\ [RecallNext]_<<vars, recallVars>> => RecallInv'
  <2> SUFFICES ASSUME RecallInv, [RecallNext]_<<vars, recallVars>>
               PROVE  RecallInv'
    OBVIOUS
  <2>1. CASE RecallStep
    BY <2>1, RecallStepKeeps
  <2>2. CASE Next /\ Meanwhile
    BY <2>2, MeanwhileKeeps
  <2>3. CASE UNCHANGED <<vars, recallVars>>
    <3>1. UNCHANGED vars /\ UNCHANGED <<dated, clock, pack>>
      BY <2>3 DEF recallVars
    <3>2. Inv' /\ ContradictionsComeWithWarnings' /\ RecallTypeOK'
      BY <3>1, Unwritten, WarningsKept DEF RecallInv, RecallTypeOK
    <3>3. ShownHolds'
      BY <3>1, Unwritten DEF RecallInv, ShownHolds
    <3> QED
      BY <3>2, <3>3 DEF RecallInv
  <2> QED
    BY <2>1, <2>2, <2>3 DEF RecallNext
<1>3. RecallInv => ContradictionsComeWithWarnings
  BY DEF RecallInv
<1> QED
  BY <1>1, <1>2, <1>3, PTL DEF RecallSpec
=============================================================================
