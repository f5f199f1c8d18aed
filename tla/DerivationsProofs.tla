------------------------- MODULE DerivationsProofs -------------------------
(***************************************************************************)
(* Derived memory and its readers, for any number of records: the wording  *)
(* of what was erased, what goes out of force with its sources, and that   *)
(* it stays out.                                                           *)
(***************************************************************************)
EXTENDS Reads, WellFoundedInduction, TLAPS

-----------------------------------------------------------------------------
(* What is derived from what.  Edges lead to greater numbers, so that a     *)
(* statement about what is reached is proved for a least exception.         *)

Less == {pair \in Nat \X Nat : pair[1] < pair[2]}

LEMMA LessIsWellFounded == IsWellFoundedOn(Less, Nat)
  BY NatLessThanWellFounded DEF OpToRel, Less

\* Every set of numbers that is not empty has a least element.
LEMMA LeastNumber ==
    ASSUME NEW T \in SUBSET Nat, T # {}
    PROVE  \E x \in T : \A y \in T : x <= y
<1>1. PICK x \in T : \A y \in T : ~ (<<y, x>> \in Less)
  BY LessIsWellFounded, WFMin
<1>2. ASSUME NEW y \in T PROVE x <= y
  <2>1. <<y, x>> \in Nat \X Nat
    OBVIOUS
  <2>2. ~(y < x)
    BY <1>1, <2>1 DEF Less
  <2> QED BY <2>2
<1> QED BY <1>2

\* Sources and Reached, of a table of records.
SourcesIn(rec, n) == {m \in rec[n].from : rec[m].kind # "none" /\ rec[m].status # "deleted"}

ReachedIn(rec, R) ==
    LET reached[n \in Ids] == n \in R \/ \E m \in SourcesIn(rec, n) : reached[m]
    IN  {n \in Ids : reached[n]}

Ascending(rec) == \A n \in Ids : \A m \in rec[n].from : m \in Ids /\ m < n

LEMMA ReachedNow == \A R : Reached(R) = ReachedIn(record, R)
  BY DEF Reached, ReachedIn, Sources, SourcesIn, Exists

LEMMA ReachedThen == \A R : Reached(R)' = ReachedIn(record', R)
  BY DEF Reached, ReachedIn, Sources, SourcesIn, Exists

LEMMA SourcesAreIds ==
    ASSUME NEW rec, Ascending(rec), NEW n \in Ids
    PROVE  \A m \in SourcesIn(rec, n) : m \in Ids /\ m < n
  BY DEF SourcesIn, Ascending

Solves(rec, R, f) == f = [n \in Ids |-> n \in R \/ \E m \in SourcesIn(rec, n) : f[m]]

\* The recursive definition has a solution: the least set that is closed.
LEMMA SomeReach ==
    ASSUME NEW rec, Ascending(rec), NEW R
    PROVE  \E f : Solves(rec, R, f)
<1> DEFINE Closed(X) == \A n \in Ids : (n \in R \/ \E m \in SourcesIn(rec, n) : m \in X) => n \in X
           least == {n \in Ids : \A X \in SUBSET Ids : Closed(X) => n \in X}
           f == [n \in Ids |-> n \in least]
<1>1. Closed(least)
  <2> SUFFICES ASSUME NEW n \in Ids, n \in R \/ \E m \in SourcesIn(rec, n) : m \in least,
                      NEW X \in SUBSET Ids, Closed(X)
               PROVE  n \in X
    OBVIOUS
  <2>1. least \subseteq X
    OBVIOUS
  <2> QED BY <2>1
<1>2. ASSUME NEW n \in least PROVE n \in R \/ \E m \in SourcesIn(rec, n) : m \in least
  <2> SUFFICES ASSUME ~(n \in R \/ \E m \in SourcesIn(rec, n) : m \in least) PROVE FALSE
    OBVIOUS
  <2>1. Closed(least \ {n})
    BY <1>1
  <2> QED BY <2>1
<1>3. ASSUME NEW n \in Ids PROVE f[n] <=> n \in R \/ \E m \in SourcesIn(rec, n) : f[m]
  <2>1. n \in least <=> n \in R \/ \E m \in SourcesIn(rec, n) : m \in least
    BY <1>1, <1>2
  <2>2. \A m \in SourcesIn(rec, n) : m \in Ids
    BY SourcesAreIds
  <2> HIDE DEF least
  <2> QED BY <2>1, <2>2
<1>4. f = [n \in Ids |-> n \in R \/ \E m \in SourcesIn(rec, n) : f[m]]
  <2> HIDE DEF least
  <2>1. f = [n \in Ids |-> f[n]]
    OBVIOUS
  <2>2. ASSUME NEW n \in Ids PROVE f[n] = (n \in R \/ \E m \in SourcesIn(rec, n) : f[m])
    <3>1. f[n] \in BOOLEAN
      OBVIOUS
    <3> HIDE DEF f
    <3> QED BY <1>3, <3>1
  <2> QED BY <2>1, <2>2
<1> HIDE DEF f
<1> QED BY <1>4 DEF Solves

\* What is reached: the roots, and whatever has a source that is reached.
LEMMA Reach ==
    ASSUME NEW rec, Ascending(rec), NEW R, NEW n \in Ids
    PROVE  n \in ReachedIn(rec, R) <=> n \in R \/ \E m \in SourcesIn(rec, n) : m \in ReachedIn(rec, R)
<1> DEFINE f == CHOOSE f : Solves(rec, R, f)
<1>1. Solves(rec, R, f)
  BY SomeReach
<1>2. ReachedIn(rec, R) = {k \in Ids : f[k]}
  BY DEF ReachedIn, Solves
<1>3. \A m \in SourcesIn(rec, n) : m \in Ids
  BY SourcesAreIds
<1> HIDE DEF f
<1> QED BY <1>1, <1>2, <1>3 DEF Solves

LEMMA ReachedAreIds == \A rec, R : ReachedIn(rec, R) \subseteq Ids
  BY DEF ReachedIn

\* And nothing else: a set that holds the roots and whatever has a source in
\* it holds everything that is reached.
LEMMA ReachedIsLeast ==
    ASSUME NEW rec, Ascending(rec), NEW R, NEW X,
           \A n \in Ids : n \in ReachedIn(rec, R) /\ (n \in R \/ \E m \in SourcesIn(rec, n) : m \in X) => n \in X
    PROVE  ReachedIn(rec, R) \subseteq X
<1> SUFFICES ASSUME ReachedIn(rec, R) \ X # {} PROVE FALSE
  OBVIOUS
<1>1. ReachedIn(rec, R) \ X \in SUBSET Nat
  BY ReachedAreIds, DerivationsAssumption DEF Ids
<1>2. PICK n \in ReachedIn(rec, R) \ X : \A y \in ReachedIn(rec, R) \ X : n <= y
  BY <1>1, LeastNumber
<1>3. n \in Ids
  BY ReachedAreIds
<1>4. n \in R \/ \E m \in SourcesIn(rec, n) : m \in ReachedIn(rec, R)
  BY <1>3, Reach
<1>5. \A m \in SourcesIn(rec, n) : m \in Ids /\ m < n
  BY <1>3, SourcesAreIds
<1>6. \A m \in SourcesIn(rec, n) : m \in ReachedIn(rec, R) => m \in X
  <2> SUFFICES ASSUME NEW m \in SourcesIn(rec, n), m \in ReachedIn(rec, R), m \notin X PROVE FALSE
    OBVIOUS
  <2>1. n <= m
    BY <1>2
  <2> QED BY <1>3, <1>5, <2>1, DerivationsAssumption DEF Ids
<1> QED BY <1>2, <1>3, <1>4, <1>6

LEMMA ReachedThroughReached ==
    ASSUME NEW rec, Ascending(rec), NEW R, NEW S, R \cap Ids \subseteq ReachedIn(rec, S)
    PROVE  ReachedIn(rec, R) \subseteq ReachedIn(rec, S)
  BY Reach, ReachedIsLeast, ReachedAreIds

\* Another table, in which sources may only be missing among what is reached
\* from L, reaches the same but for what is reached from L.
LEMMA ReachedAgain ==
    ASSUME NEW rec, NEW new, Ascending(rec), Ascending(new), NEW R, NEW L,
           \A n \in Ids \ ReachedIn(rec, L) : SourcesIn(rec, n) \subseteq SourcesIn(new, n)
    PROVE  ReachedIn(rec, R) \subseteq ReachedIn(new, R) \cup ReachedIn(rec, L)
<1> DEFINE X == ReachedIn(new, R) \cup ReachedIn(rec, L)
<1>1. ASSUME NEW n \in Ids, n \in R \/ \E m \in SourcesIn(rec, n) : m \in X
      PROVE  n \in X
  <2>1. CASE n \in R
    BY <2>1, Reach
  <2>2. ASSUME NEW m \in SourcesIn(rec, n), m \in ReachedIn(rec, L) PROVE n \in X
    BY <2>2, Reach
  <2>3. ASSUME NEW m \in SourcesIn(rec, n), m \in ReachedIn(new, R) PROVE n \in X
    <3>1. CASE n \in ReachedIn(rec, L)
      BY <3>1
    <3>2. CASE n \notin ReachedIn(rec, L)
      <4>1. m \in SourcesIn(new, n)
        BY <3>2
      <4> QED BY <2>3, <4>1, Reach
    <3> QED BY <3>1, <3>2
  <2> QED BY <1>1, <2>1, <2>2, <2>3
<1> QED BY <1>1, ReachedIsLeast, ZenonT(60)

-----------------------------------------------------------------------------
(* The inductive invariant.                                                *)

\* Records are numbered without gaps, and a number that was not given out
\* holds nothing.
Numbered ==
    /\ \A n \in Ids : record[n].kind = "none" => record[n] = NoRecord
    /\ \A n, m \in Ids : record[n].kind # "none" /\ m < n => record[m].kind # "none"
    /\ \A m \in draft.from \cup erased : record[m].kind # "none"

\* Only rows of claims are gone; nothing has edges or wording then.
Cut == \A n \in Ids : record[n].status = "deleted" =>
           record[n].kind \in {"claim", "derived"} /\ record[n].from = {} /\ record[n].text = {}

\* Whoever holds the wording of a claim is reached from it, so that a deletion
\* of the claim finds the record.
WordingIsReached == \A n \in Ids : \A c \in record[n].text \ held : n \in Reached({c})

\* A draft holds wording that its sources still hold.
DraftIsSourced ==
    \A c \in draft.text \ held : c \notin erased /\ \E m \in draft.from : c \in record[m].text

DerivationsInv ==
    DerivationsTypeOK /\ Numbered /\ Cut /\ WordingIsReached /\ DraftIsSourced /\ ErasedTextStaysErased

LEMMA TypesAscend == DerivationsTypeOK => Ascending(record)
  BY DEF DerivationsTypeOK, Ascending, Record

\* Steps that change nothing but the status of records that are there.
Restatus ==
    /\ record' \in [Ids -> Record]
    /\ \A n \in Ids : /\ record'[n].kind = record[n].kind
                      /\ record'[n].from = record[n].from
                      /\ record'[n].text = record[n].text
                      /\ record'[n].status = "deleted" <=> record[n].status = "deleted"
                      /\ record[n].kind = "none" => record'[n] = record[n]
    /\ UNCHANGED <<draft, erased, held>>

LEMMA RestatusKeeps ==
    ASSUME DerivationsInv, Restatus
    PROVE  DerivationsInv'
<1> USE DEF DerivationsInv
<1>1. DerivationsTypeOK'
  BY DEF DerivationsTypeOK, Restatus
<1>2. Numbered' /\ Cut' /\ DraftIsSourced' /\ ErasedTextStaysErased'
  BY DEF Numbered, Cut, DraftIsSourced, ErasedTextStaysErased, Restatus, DerivationsTypeOK, Draft, NoDraft, Record
<1>3. WordingIsReached'
  <2>1. Ascending(record) /\ Ascending(record')
    BY <1>1, TypesAscend, DerivationsAssumption DEF DerivationsTypeOK, Ascending, Record
  <2>2. \A n \in Ids : SourcesIn(record, n) = SourcesIn(record', n)
    BY <2>1 DEF SourcesIn, Restatus, Ascending
  <2>3. ReachedIn(record, {}) = {}
    BY <2>1, ReachedIsLeast
  <2>4. \A c : ReachedIn(record, {c}) \subseteq ReachedIn(record', {c})
    BY <2>1, <2>2, <2>3, ReachedAgain
  <2> QED BY <2>4, ReachedNow, ReachedThen DEF WordingIsReached, Restatus
<1> QED BY <1>1, <1>2, <1>3

\* Steps that add record n, whose wording is its own or that of its sources.
Adds(n) ==
    /\ n \in Ids /\ New(n)
    /\ record' \in [Ids -> Record]
    /\ \A m \in Ids \ {n} : /\ record'[m].kind = record[m].kind
                            /\ record'[m].from = record[m].from
                            /\ record'[m].text = record[m].text
                            /\ record'[m].status = "deleted" <=> record[m].status = "deleted"
                            /\ record[m].kind = "none" => record'[m] = record[m]
    /\ record'[n].kind # "none" /\ record'[n].status # "deleted"
    /\ \A m \in record'[n].from : record[m].kind # "none"
    /\ \A c \in record'[n].text \ held :
          /\ c \notin erased
          /\ c = n \/ \E m \in record'[n].from : c \in record[m].text
    /\ UNCHANGED <<erased, held>> /\ draft' \in {draft, NoDraft}

LEMMA AddsKeeps ==
    ASSUME DerivationsInv, NEW n, Adds(n)
    PROVE  DerivationsInv'
<1> USE DEF DerivationsInv
<1>1. n \in Ids /\ record[n] = NoRecord /\ Ids \subseteq Nat
  BY DerivationsAssumption DEF Adds, New, Numbered, Ids
<1>2. ASSUME NEW m \in Ids, record[m].kind # "none" PROVE m # n /\ m < n
  <2>1. m \in Nat /\ n \in Nat
    BY <1>1
  <2> QED BY <1>1, <1>2, <2>1 DEF Numbered, NoRecord
<1>3. \A m \in Ids : m < n => record[m].kind # "none"
  BY DEF Adds, New
<1>4. DerivationsTypeOK'
  <2>1. \A m \in record'[n].from : m \in Ids /\ m < n
    <3>1. record'[n].from \subseteq Ids
      BY <1>1 DEF Adds, Record
    <3> QED BY <1>2, <3>1 DEF Adds
  <2>2. \A k \in Ids : \A m \in record'[k].from : m < k
    BY <2>1 DEF Adds, DerivationsTypeOK
  <2>3. record' \in [Ids -> Record] /\ draft' \in Draft \cup {NoDraft}
    BY DEF Adds, DerivationsTypeOK
  <2>4. held' \subseteq Ids /\ erased' \subseteq Ids
    BY DEF Adds, DerivationsTypeOK
  <2> QED BY <2>2, <2>3, <2>4 DEF DerivationsTypeOK
<1>5. Numbered'
  <2>1. ASSUME NEW k \in Ids, NEW m \in Ids, record'[k].kind # "none", m < k
        PROVE  record'[m].kind # "none"
    <3>1. CASE k = n
      BY <1>3, <2>1, <3>1 DEF Adds
    <3>2. CASE k # n
      <4>1. record[k].kind # "none"
        BY <2>1, <3>2 DEF Adds
      <4>2. record[m].kind # "none"
        BY <2>1, <4>1 DEF Numbered
      <4> QED BY <4>2 DEF Adds
    <3> QED BY <3>1, <3>2
  <2>2. \A k \in Ids : record'[k].kind = "none" => record'[k] = NoRecord
    BY DEF Adds, Numbered
  <2>3. \A m \in draft'.from \cup erased' : record'[m].kind # "none"
    <3>1. ASSUME NEW m \in draft.from \cup erased PROVE record'[m].kind # "none"
      <4>1. m \in Ids
        BY DEF DerivationsTypeOK, Draft, NoDraft
      <4> QED BY <4>1 DEF Numbered, Adds
    <3>2. draft'.from \subseteq draft.from
      BY DEF Adds, NoDraft
    <3> QED BY <3>1, <3>2 DEF Adds
  <2> QED BY <2>1, <2>2, <2>3 DEF Numbered
<1>6. Cut' /\ ErasedTextStaysErased'
  <2>1. n \notin erased
    BY <1>1 DEF Numbered, NoRecord
  <2> QED BY <2>1 DEF Cut, ErasedTextStaysErased, Adds
<1>7. DraftIsSourced'
  <2>1. CASE draft' = NoDraft
    BY <2>1 DEF DraftIsSourced, NoDraft
  <2>2. CASE draft' = draft
    <3>1. \A m \in draft.from : m \in Ids /\ m # n
      BY <1>2 DEF DerivationsTypeOK, Draft, NoDraft, Numbered
    <3> QED BY <2>2, <3>1 DEF DraftIsSourced, Adds
  <2> QED BY <2>1, <2>2 DEF Adds
<1>8. WordingIsReached'
  <2>1. Ascending(record) /\ Ascending(record')
    BY <1>4, TypesAscend, DerivationsAssumption DEF DerivationsTypeOK, Ascending, Record
  <2>2. \A k \in Ids : SourcesIn(record, k) \subseteq SourcesIn(record', k)
    <3>1. CASE record[n].from = {}
      <4> SUFFICES ASSUME NEW k \in Ids, NEW m \in SourcesIn(record, k) PROVE m \in SourcesIn(record', k)
        OBVIOUS
      <4>1. m \in Ids /\ record[m].kind # "none" /\ k # n
        BY <2>1, <3>1 DEF Ascending, SourcesIn
      <4>2. m # n
        BY <1>2, <4>1
      <4> QED BY <4>1, <4>2 DEF SourcesIn, Adds
    <3> QED BY <1>1, <3>1 DEF NoRecord
  <2>3. ReachedIn(record, {}) = {}
    BY <2>1, ReachedIsLeast
  <2>4. \A c : ReachedIn(record, {c}) \subseteq ReachedIn(record', {c})
    BY <2>1, <2>2, <2>3, ReachedAgain
  <2>5. ASSUME NEW c \in record'[n].text \ held PROVE n \in ReachedIn(record', {c})
    <3>1. CASE c = n
      BY <1>1, <2>1, <3>1, Reach
    <3>2. ASSUME NEW m \in record'[n].from, c \in record[m].text PROVE n \in ReachedIn(record', {c})
      <4>1. m \in Ids
        BY <1>1 DEF Adds, Record
      <4>2. m \in ReachedIn(record', {c})
        BY <2>4, <2>5, <3>2, <4>1, ReachedNow DEF WordingIsReached
      <4>3. record[m].kind # "none" /\ record[m].status # "deleted"
        BY <3>2, <4>1 DEF Adds, Cut
      <4>4. m \in SourcesIn(record', n)
        BY <1>2, <4>1, <4>3 DEF SourcesIn, Adds
      <4> QED BY <1>1, <2>1, <4>2, <4>4, Reach
    <3> QED BY <2>5, <3>1, <3>2 DEF Adds
  <2> QED BY <2>4, <2>5, ReachedNow, ReachedThen DEF WordingIsReached, Adds
<1> QED BY <1>4, <1>5, <1>6, <1>7, <1>8

\* Steps that scrub whatever is reached from the records R, and may cut the
\* edges of some of it.
Erases(R) ==
    /\ record' \in [Ids -> Record]
    /\ R \subseteq Ids /\ \A c \in R : Exists(c)
    /\ \A n \in Ids \ Reached(R) : record'[n] = record[n]
    /\ \A n \in Reached(R) : /\ record'[n].kind = record[n].kind
                             /\ record'[n].from \subseteq record[n].from
                             /\ record'[n].text = {}
                             /\ record'[n].status = "deleted" =>
                                    record[n].kind \in {"claim", "derived"} /\ record'[n].from = {}
    /\ Erase(R) /\ UNCHANGED draft

LEMMA ReachedExist ==
    ASSUME DerivationsTypeOK, Numbered, Cut,
           NEW R, \A c \in R : Exists(c), NEW n \in Reached(R)
    PROVE  n \in Ids /\ Exists(n)
<1> USE TypesAscend
<1>1. n \in Ids /\ (n \in R \/ \E m \in SourcesIn(record, n) : m \in Reached(R))
  BY ReachedNow, ReachedAreIds, Reach
<1> QED BY <1>1 DEF SourcesIn, NoRecord, Numbered, Cut, Exists

LEMMA ErasesKeeps ==
    ASSUME DerivationsInv, NEW R, Erases(R)
    PROVE  DerivationsInv'
<1> USE DEF DerivationsInv
<1>1. Ascending(record)
  BY TypesAscend
<1>2. Reached(R) \subseteq Ids
  BY ReachedNow, ReachedAreIds
<1>3. DerivationsTypeOK'
  <2>1. ASSUME NEW n \in Ids, NEW m \in record'[n].from PROVE m < n
    BY <1>2 DEF Erases, DerivationsTypeOK
  <2>2. erased' \subseteq Ids /\ held' \subseteq Ids
    <3>1. draft.text \subseteq Ids
      BY DEF DerivationsTypeOK, Draft, NoDraft
    <3> QED BY <3>1 DEF Erases, Erase, DerivationsTypeOK
  <2> QED BY <2>1, <2>2 DEF Erases, DerivationsTypeOK
<1>4. Ascending(record')
  BY <1>3 DEF DerivationsTypeOK, Ascending, Record
<1>5. \A n \in Ids : record'[n].kind = record[n].kind
  BY DEF Erases
<1>6. Numbered'
  <2>1. \A n \in Reached(R) : record[n].kind # "none"
    BY ReachedExist DEF Erases, Exists
  <2>2. \A n \in Ids : record'[n].kind = "none" => record'[n] = NoRecord
    BY <1>5, <2>1 DEF Erases, Numbered
  <2>3. \A n, m \in Ids : record'[n].kind # "none" /\ m < n => record'[m].kind # "none"
    BY <1>5 DEF Numbered
  <2>4. ASSUME NEW m \in draft'.from \cup erased' PROVE record'[m].kind # "none"
    <3>1. m \in draft.from \cup erased \cup R
      BY DEF Erases, Erase
    <3>2. m \in Ids
      BY <3>1 DEF DerivationsTypeOK, Draft, NoDraft, Erases
    <3> QED BY <1>5, <3>1, <3>2 DEF Numbered, Erases, Exists
  <2> QED BY <2>2, <2>3, <2>4 DEF Numbered
<1>7. Cut'
  BY DEF Cut, Erases
<1>8. \A c \in R : Reached({c}) \subseteq Reached(R)
  <2>1. \A c \in R : {c} \cap Ids \subseteq ReachedIn(record, R)
    BY <1>1, Reach
  <2> QED BY <1>1, <2>1, ReachedThroughReached, ReachedNow
<1>9. ASSUME NEW n \in Ids \ Reached(R), NEW c \in record[n].text \ held PROVE c \notin R
  BY <1>8 DEF WordingIsReached
<1>10. ErasedTextStaysErased'
  <2> SUFFICES ASSUME NEW n \in Ids, NEW c \in record'[n].text, c \in erased', c \notin held'
               PROVE  FALSE
    BY DEF ErasedTextStaysErased
  <2>1. n \notin Reached(R) /\ c \in record[n].text /\ c \notin held
    BY DEF Erases, Erase
  <2>2. c \in R
    BY <2>1 DEF Erases, Erase, ErasedTextStaysErased
  <2> QED BY <1>9, <2>1, <2>2
<1>11. DraftIsSourced'
  <2> SUFFICES ASSUME NEW c \in draft.text \ held'
               PROVE  c \notin erased' /\ \E m \in draft.from : c \in record'[m].text
    BY DEF DraftIsSourced, Erases
  <2>1. c \in draft.text \ held /\ c \notin TextOf(Reached(R))
    BY DEF Erases, Erase
  <2>2. PICK m \in draft.from : c \in record[m].text
    BY <2>1 DEF DraftIsSourced
  <2>3. m \in Ids
    BY DEF DerivationsTypeOK, Draft, NoDraft
  <2>4. m \notin Reached(R)
    BY <2>1, <2>2 DEF TextOf
  <2>5. c \notin R /\ c \notin erased
    BY <1>9, <2>1, <2>2, <2>3, <2>4 DEF DraftIsSourced
  <2> QED BY <2>2, <2>3, <2>4, <2>5 DEF Erases, Erase
<1>12. WordingIsReached'
  <2> SUFFICES ASSUME NEW n \in Ids, NEW c \in record'[n].text \ held'
               PROVE  n \in ReachedIn(record', {c})
    BY ReachedThen DEF WordingIsReached
  <2>1. n \notin Reached(R) /\ c \in record[n].text \ held
    BY DEF Erases, Erase
  <2>2. n \in ReachedIn(record, {c})
    BY <2>1, ReachedNow DEF WordingIsReached
  <2>3. ASSUME NEW k \in Ids \ ReachedIn(record, R) PROVE SourcesIn(record, k) \subseteq SourcesIn(record', k)
    <3> SUFFICES ASSUME NEW m \in SourcesIn(record, k) PROVE m \in SourcesIn(record', k)
      OBVIOUS
    <3>1. m \in Ids /\ m \notin ReachedIn(record, R)
      BY <1>1, SourcesAreIds, Reach
    <3>2. record'[m] = record[m] /\ record'[k] = record[k]
      BY <2>3, <3>1, ReachedNow DEF Erases
    <3> QED BY <3>2 DEF SourcesIn
  <2>4. ReachedIn(record, {c}) \subseteq ReachedIn(record', {c}) \cup ReachedIn(record, R)
    BY <1>1, <1>4, <2>3, ReachedAgain
  <2> QED BY <2>1, <2>2, <2>4, ReachedNow
<1> QED BY <1>3, <1>6, <1>7, <1>10, <1>11, <1>12

-----------------------------------------------------------------------------
(* The actions that change only what is thought of records.                *)

\* One record before and after such a step.
Restated(r, s) ==
    /\ s \in Record
    /\ s.kind = r.kind /\ s.from = r.from /\ s.text = r.text
    /\ s.status = "deleted" <=> r.status = "deleted"
    /\ r.kind = "none" => s = r

LEMMA SameIsRestated == ASSUME NEW r \in Record PROVE Restated(r, r)
  BY DEF Restated

LEMMA StatusIsRestated ==
    ASSUME NEW r \in Record, r.kind # "none", r.status # "deleted", NEW s,
           s \in (ClaimStatuses \ {"deleted"}) \cup InferenceStatuses \cup ReflectionStatuses
    PROVE  Restated(r, [r EXCEPT !.status = s])
  BY DEF Restated, Record, ClaimStatuses, InferenceStatuses, ReflectionStatuses

LEMMA MarkIsRestated ==
    ASSUME NEW r \in Record, r.kind # "none", r.status # "deleted"
    PROVE  Restated(r, MarkedStale(r))
<1>1. \A s \in {"stale", "disputed"} : Restated(r, [r EXCEPT !.status = s])
  BY StatusIsRestated DEF ClaimStatuses, InferenceStatuses
<1> QED BY <1>1, SameIsRestated DEF MarkedStale

LEMMA DerivedExist ==
    ASSUME DerivationsInv, NEW R, \A c \in R : Exists(c), NEW n \in Derived(R)
    PROVE  n \in Ids /\ record[n] \in Record /\ Exists(n)
  BY ReachedExist DEF Derived, DerivationsInv, DerivationsTypeOK

LEMMA StaledIsRestated ==
    ASSUME DerivationsInv, NEW R, \A c \in R : Exists(c), NEW n \in Ids
    PROVE  Restated(record[n], Staled(R)[n])
<1>1. record[n] \in Record
  BY DEF DerivationsInv, DerivationsTypeOK
<1>2. n \in Derived(R) => Exists(n)
  BY DerivedExist
<1> QED BY <1>1, <1>2, MarkIsRestated, SameIsRestated DEF Staled, Exists

LEMMA InvalidationRestates ==
    ASSUME DerivationsInv, NEW n \in Ids, NEW mode, InvalidateDerived(n, mode)
    PROVE  Restatus
<1>1. CASE mode = "mark_stale"
  <2>1. \A k \in Ids : Restated(record[k], Staled({n})[k])
    BY StaledIsRestated DEF InvalidateDerived
  <2> QED BY <1>1, <2>1 DEF InvalidateDerived, Staled, Restatus, Restated
<1>2. CASE mode # "mark_stale"
  <2>1. PICK stale : /\ stale \subseteq Derived({m \in Derived({n}) : record[m].kind = "derived" /\ Invalidated(m) # record[m].status})
                     /\ record' = [m \in Ids |-> IF m \in stale THEN [record[m] EXCEPT !.status = "stale"]
                                                 ELSE IF m \in Derived({n})
                                                 THEN [record[m] EXCEPT !.status = Invalidated(m)]
                                                 ELSE record[m]]
    BY <1>2 DEF InvalidateDerived
  <2>2. \A m \in Derived({n}) : Exists(m)
    BY DerivedExist DEF InvalidateDerived
  <2>3. \A m \in stale : Exists(m)
    BY <2>1, <2>2, DerivedExist
  <2>4. ASSUME NEW m \in Ids PROVE Restated(record[m], record'[m])
    <3>1. record[m] \in Record
      BY DEF DerivationsInv, DerivationsTypeOK
    <3>2. CASE m \in stale
      BY <2>1, <2>3, <3>1, <3>2, StatusIsRestated DEF Exists, InferenceStatuses
    <3>3. CASE m \in Derived({n}) /\ m \notin stale
      <4>1. Invalidated(m) \in {"invalidated", "retired"} \/ Invalidated(m) = record[m].status
        BY DEF Invalidated
      <4>2. CASE Invalidated(m) \in {"invalidated", "retired"}
        BY <2>1, <2>2, <3>1, <3>3, <4>2, StatusIsRestated DEF Exists, InferenceStatuses, ClaimStatuses
      <4>3. CASE Invalidated(m) = record[m].status
        <5>1. record'[m] = record[m]
          BY <2>1, <3>1, <3>3, <4>3 DEF Record
        <5> QED BY <3>1, <5>1, SameIsRestated
      <4> QED BY <4>1, <4>2, <4>3
    <3>4. CASE m \notin Derived({n}) /\ m \notin stale
      BY <2>1, <3>1, <3>4, SameIsRestated
    <3> QED BY <3>2, <3>3, <3>4
  <2> QED BY <2>1, <2>4 DEF Restatus, Restated, InvalidateDerived
<1> QED BY <1>1, <1>2

LEMMA RefreshRestates == ASSUME DerivationsInv, RefreshReflections PROVE Restatus
<1>1. ASSUME NEW n \in Ids PROVE Restated(record[n], record'[n])
  BY SameIsRestated, StatusIsRestated DEF DerivationsInv, DerivationsTypeOK, RefreshReflections, Refreshed, ReflectionStatuses
<1> QED BY <1>1 DEF Restatus, Restated, RefreshReflections

LEMMA SetStatusRestates ==
    ASSUME DerivationsInv, NEW c \in Ids, NEW s \in ClaimStatuses \ {"deleted"}, SetStatus(c, s)
    PROVE  Restatus
<1>1. \A n \in Ids : Restated(record[n], Staled({c})[n]) /\ Restated(record[n], record[n])
  BY StaledIsRestated, SameIsRestated DEF SetStatus, Claim, DerivationsInv, DerivationsTypeOK
<1>2. ASSUME NEW f, f \in {Staled({c}), record}
      PROVE  /\ f \in [Ids -> Record]
             /\ \A n \in Ids : Restated(record[n], [f EXCEPT ![c].status = s][n])
  <2>1. f \in [Ids -> Record]
    BY <1>1, <1>2 DEF Staled, Restated, DerivationsInv, DerivationsTypeOK
  <2>2. Restated(record[c], f[c]) /\ f[c].kind # "none" /\ f[c].status # "deleted"
    BY <1>1, <1>2 DEF Restated, SetStatus, Claim, Exists
  <2>3. Restated(f[c], [f[c] EXCEPT !.status = s])
    BY <2>1, <2>2, StatusIsRestated
  <2>4. Restated(record[c], [f[c] EXCEPT !.status = s])
    BY <2>2, <2>3 DEF Restated
  <2> QED BY <1>1, <1>2, <2>1, <2>4
<1>3. record' = [(IF s = "retired" THEN Staled({c}) ELSE record) EXCEPT ![c].status = s]
  BY DEF SetStatus
<1>4. record' \in [Ids -> Record] /\ \A n \in Ids : Restated(record[n], record'[n])
  <2>1. \A n \in Ids : Restated(record[n], record'[n])
    BY <1>2, <1>3
  <2>2. record' = [n \in Ids |-> record'[n]]
    BY <1>2, <1>3
  <2> QED BY <2>1, <2>2 DEF Restated
<1> QED BY <1>4 DEF Restatus, Restated, SetStatus

LEMMA RetentionRestates == ASSUME DerivationsInv, NEW c \in Ids, RetentionArchive(c) PROVE Restatus
<1>1. ASSUME NEW n \in Ids PROVE Restated(record[n], record'[n])
  BY SameIsRestated, StatusIsRestated DEF DerivationsInv, DerivationsTypeOK, RetentionArchive, ClaimStatuses, Claim, Exists
<1> QED BY <1>1 DEF Restatus, Restated, RetentionArchive, DerivationsInv, DerivationsTypeOK

LEMMA ReviewRestates ==
    ASSUME DerivationsInv, NEW i \in Ids, NEW s \in InferenceStatuses, NEW strength \in Strengths,
           ReviewInference(i, s, strength)
    PROVE  Restatus
<1>1. /\ record[i] \in Record /\ record[i].kind = "inference"
      /\ \A n \in Ids : record[n] \in Record
  BY DEF ReviewInference, Reviewable, DerivationsInv, DerivationsTypeOK
<1>2. record[i].status # "deleted"
  BY <1>1 DEF DerivationsInv, Cut
<1>3. /\ record' \in [Ids -> Record] /\ record'[i] = [record[i] EXCEPT !.status = s, !.strength = strength]
      /\ \A n \in Ids \ {i} : record'[n] = record[n]
  BY <1>1 DEF ReviewInference, DerivationsInv, DerivationsTypeOK, Record
<1>4. Restated(record[i], [record[i] EXCEPT !.status = s, !.strength = strength])
  BY <1>1, <1>2 DEF Restated, Record, InferenceStatuses
<1>5. \A n \in Ids : Restated(record[n], record'[n])
  BY <1>1, <1>3, <1>4, SameIsRestated
<1> QED BY <1>3, <1>5 DEF Restatus, Restated, ReviewInference

-----------------------------------------------------------------------------
(* The actions that add a record.                                          *)

\* What a new record may hold.
Addable(n, r) ==
    /\ r \in Record /\ r.kind # "none" /\ r.status # "deleted"
    /\ \A m \in r.from : record[m].kind # "none"
    /\ \A c \in r.text \ held :
          /\ c \notin erased
          /\ c = n \/ \E m \in r.from : c \in record[m].text

LEMMA AddableAdds ==
    ASSUME DerivationsInv, NEW n \in Ids, New(n), NEW r, Addable(n, r),
           NEW f, f \in [Ids -> Record], \A m \in Ids \ {n} : Restated(record[m], f[m]),
           record' = [f EXCEPT ![n] = r],
           UNCHANGED <<erased, held>>, draft' \in {draft, NoDraft}
    PROVE  Adds(n)
<1>1. record' \in [Ids -> Record] /\ record'[n] = r
  BY DEF Addable
<1>2. ASSUME NEW m \in Ids \ {n} PROVE record'[m] = f[m] /\ Restated(record[m], f[m])
  OBVIOUS
<1> QED BY <1>1, <1>2 DEF Adds, Addable, Restated

LEMMA PlainAdds ==
    ASSUME DerivationsInv, NEW n \in Ids, New(n), NEW r, Addable(n, r),
           record' = [record EXCEPT ![n] = r],
           UNCHANGED <<erased, held>>, draft' \in {draft, NoDraft}
    PROVE  Adds(n)
<1>1. record \in [Ids -> Record] /\ \A m \in Ids : Restated(record[m], record[m])
  BY SameIsRestated DEF DerivationsInv, DerivationsTypeOK
<1> QED BY <1>1, AddableAdds

\* The wording that S holds, for a record made of S.
LEMMA DrawnText ==
    ASSUME DerivationsInv, NEW S, S \subseteq There
    PROVE  /\ S \subseteq Ids /\ TextOf(S) \subseteq Ids
           /\ \A m \in S : record[m].kind # "none"
           /\ \A c \in TextOf(S) \ held : c \notin erased /\ \E m \in S : c \in record[m].text
  BY DEF There, Exists, TextOf, DerivationsInv, DerivationsTypeOK, Record, ErasedTextStaysErased

LEMMA InferredIsAddable ==
    ASSUME NEW n, NEW S, NEW text, NEW strength \in Strengths, S \subseteq Ids, text \subseteq Ids,
           \A m \in S : record[m].kind # "none",
           \A c \in text \ held : c \notin erased /\ \E m \in S : c \in record[m].text
    PROVE  Addable(n, Inferred(S, text, strength))
  BY DEF Addable, Inferred, NoRecord, Record, InferenceStatuses

LEMMA ReflectedIsAddable ==
    ASSUME NEW n, NEW S, NEW text, NEW status \in {"candidate", "active"}, S \subseteq Ids, text \subseteq Ids,
           \A m \in S : record[m].kind # "none",
           \A c \in text \ held : c \notin erased /\ \E m \in S : c \in record[m].text
    PROVE  Addable(n, Reflected(S, text, status))
  BY DEF Addable, Reflected, NoRecord, Record, ReflectionStatuses

LEMMA InferenceAdds ==
    ASSUME DerivationsInv, NEW n \in Ids, NEW S \in SUBSET There, NEW strength \in Strengths,
           RunInference(n, S, strength)
    PROVE  Adds(n)
<1>1. Addable(n, Inferred(S, TextOf(S), strength))
  BY DrawnText, InferredIsAddable
<1> QED BY <1>1, PlainAdds DEF RunInference

LEMMA ReflectionAdds ==
    ASSUME DerivationsInv, NEW n \in Ids, NEW S \in SUBSET There, NEW s \in {"candidate", "active"},
           BuildReflection(n, S, s)
    PROVE  Adds(n)
<1>1. Addable(n, Reflected(S, TextOf(S), s))
  BY DrawnText, ReflectedIsAddable
<1> QED BY <1>1, PlainAdds DEF BuildReflection

LEMMA AbstractionAdds ==
    ASSUME DerivationsInv, NEW n \in Ids, NEW S \in SUBSET There, CreateAbstraction(n, S)
    PROVE  Adds(n)
<1> DEFINE r == [NoRecord EXCEPT !.kind = "abstraction", !.status = "active", !.from = S, !.text = TextOf(S)]
<1>1. Addable(n, r)
  BY DrawnText DEF Addable, NoRecord, Record, ClaimStatuses
<1> HIDE DEF r
<1>2. record' = [record EXCEPT ![n] = r] /\ New(n) /\ UNCHANGED <<draft, erased, held>>
  BY DEF CreateAbstraction, r
<1> QED BY <1>1, <1>2, PlainAdds

LEMMA StoredDraftAdds ==
    ASSUME DerivationsInv, NEW n \in Ids, NEW s \in {"candidate", "active"}, NEW strength \in Strengths,
           StoreDraft(n, s, strength)
    PROVE  Adds(n)
<1>1. /\ draft.from \subseteq Ids /\ draft.text \subseteq Ids
      /\ \A m \in draft.from : record[m].kind # "none"
      /\ \A c \in draft.text \ held : c \notin erased /\ \E m \in draft.from : c \in record[m].text
  BY DEF StoreDraft, DerivationsInv, DerivationsTypeOK, Draft, Numbered, DraftIsSourced
<1>2. /\ Addable(n, Inferred(draft.from, draft.text, strength))
      /\ Addable(n, Reflected(draft.from, draft.text, s))
  BY <1>1, InferredIsAddable, ReflectedIsAddable
<1> QED BY <1>2, PlainAdds DEF StoreDraft

LEMMA DetectionRestates ==
    ASSUME DerivationsInv, NEW d \in Detections
    PROVE  /\ Disputed(d[1]) \in [Ids -> Record]
           /\ \A m \in Ids : Restated(record[m], Disputed(d[1])[m])
           /\ d[2] \in {"active", "disputed"}
<1>1. \A m \in d[1] : m \in Ids /\ Claim(m)
  BY DEF Detections
<1>2. ASSUME NEW m \in Ids PROVE Restated(record[m], Disputed(d[1])[m])
  BY <1>1, SameIsRestated, StatusIsRestated DEF Disputed, Claim, Exists, DerivationsInv, DerivationsTypeOK, ClaimStatuses
<1> QED BY <1>2 DEF Restated, Disputed, Detections

LEMMA ClaimAdds == ASSUME DerivationsInv, NEW n \in Ids, WriteClaim(n) PROVE Adds(n)
<1>1. PICK d \in Detections :
         record' = [Disputed(d[1]) EXCEPT ![n] = [NoRecord EXCEPT !.kind = "claim", !.status = d[2], !.text = {n}]]
  BY DEF WriteClaim
<1> DEFINE r == [NoRecord EXCEPT !.kind = "claim", !.status = d[2], !.text = {n}]
<1>2. Addable(n, r)
  <2>1. n \notin erased
    BY DEF WriteClaim, New, DerivationsInv, Numbered
  <2> QED BY <2>1, DetectionRestates DEF Addable, NoRecord, Record, ClaimStatuses
<1>3. record' = [Disputed(d[1]) EXCEPT ![n] = r]
  BY <1>1
<1> HIDE DEF r
<1> QED BY <1>2, <1>3, DetectionRestates, AddableAdds DEF WriteClaim

LEMMA PromotedClaimAdds ==
    ASSUME DerivationsInv, NEW n \in Ids, NEW i \in Ids, NEW target \in {"active", "core"}, NEW force,
           PromoteToClaim(n, i, target, force)
    PROVE  Adds(n)
<1>1. PICK d \in Detections :
         record' = [Disputed(d[1]) EXCEPT
                      ![i].status = "promoted",
                      ![n] = [NoRecord EXCEPT !.kind = "derived", !.from = {i}, !.text = record[i].text,
                                              !.status = IF target = "core" THEN "core" ELSE d[2]]]
  BY DEF PromoteToClaim
<1> DEFINE r == [NoRecord EXCEPT !.kind = "derived", !.from = {i}, !.text = record[i].text,
                                 !.status = IF target = "core" THEN "core" ELSE d[2]]
           f == [Disputed(d[1]) EXCEPT ![i].status = "promoted"]
<1>2. record[i] \in Record /\ record[i].kind # "none" /\ record[i].status # "deleted" /\ i # n
  BY DEF PromoteToClaim, Reviewable, New, DerivationsInv, DerivationsTypeOK, Cut
<1>3. Addable(n, r)
  BY <1>2, DetectionRestates DEF Addable, NoRecord, Record, ClaimStatuses, DerivationsInv, ErasedTextStaysErased
<1>4. f \in [Ids -> Record] /\ \A m \in Ids : Restated(record[m], f[m])
  <2>1. LET g == Disputed(d[1])[i] IN Restated(g, [g EXCEPT !.status = "promoted"]) /\ Restated(record[i], g)
    <3>1. /\ Restated(record[i], Disputed(d[1])[i])
          /\ Disputed(d[1])[i] \in Record /\ Disputed(d[1])[i].kind # "none" /\ Disputed(d[1])[i].status # "deleted"
      BY <1>2, DetectionRestates DEF Restated
    <3> QED BY <3>1, StatusIsRestated DEF InferenceStatuses
  <2>2. Restated(record[i], [Disputed(d[1])[i] EXCEPT !.status = "promoted"])
    BY <2>1 DEF Restated
  <2>3. \A m \in Ids : Restated(record[m], f[m])
    BY <2>2, DetectionRestates
  <2>4. f = [m \in Ids |-> f[m]]
    BY DetectionRestates
  <2> QED BY <2>3, <2>4 DEF Restated
<1>5. record' = [f EXCEPT ![n] = r]
  BY <1>1
<1> HIDE DEF r, f
<1> QED BY <1>3, <1>4, <1>5, AddableAdds DEF PromoteToClaim

LEMMA PromotedReflectionAdds ==
    ASSUME DerivationsInv, NEW n \in Ids, NEW i \in Ids, NEW force, PromoteToReflection(n, i, force)
    PROVE  Adds(n)
<1> DEFINE r == Reflected(record[i].from \cup {i}, record[i].text, "active")
           f == [record EXCEPT ![i].status = "promoted"]
<1>1. record[i] \in Record /\ record[i].kind # "none" /\ record[i].status # "deleted"
  BY DEF PromoteToReflection, Reviewable, DerivationsInv, DerivationsTypeOK, Cut
<1>2. Addable(n, r)
  <2>1. \A m \in record[i].from \cup {i} : record[m].kind # "none"
    BY <1>1 DEF PromoteToReflection, Exists
  <2>2. record[i].from \cup {i} \subseteq Ids /\ record[i].text \subseteq Ids
    BY <1>1 DEF Record
  <2>3. \A c \in record[i].text \ held : c \notin erased
    BY DEF DerivationsInv, ErasedTextStaysErased
  <2> QED BY <2>1, <2>2, <2>3, ReflectedIsAddable
<1>3. f \in [Ids -> Record] /\ \A m \in Ids : Restated(record[m], f[m])
  <2>1. Restated(record[i], [record[i] EXCEPT !.status = "promoted"])
    BY <1>1, StatusIsRestated DEF InferenceStatuses
  <2> QED BY <2>1, SameIsRestated DEF Restated, DerivationsInv, DerivationsTypeOK
<1>4. record' = [f EXCEPT ![n] = r]
  BY DEF PromoteToReflection
<1> HIDE DEF r, f
<1> QED BY <1>2, <1>3, <1>4, AddableAdds DEF PromoteToReflection

-----------------------------------------------------------------------------
(* Deletions, and the invariant.                                           *)

LEMMA WithdrawnRecord ==
    ASSUME NEW r \in Record, r.kind # "none", r.status # "deleted", NEW scrub \in BOOLEAN
    PROVE  /\ Withdrawn(r, scrub) \in Record
           /\ Withdrawn(r, scrub).kind = r.kind /\ Withdrawn(r, scrub).from = r.from
           /\ Withdrawn(r, scrub).status \in {"retired", "stale"}
           /\ scrub => Withdrawn(r, scrub).text = {}
           /\ ~scrub => Withdrawn(r, scrub).text = r.text
  BY DEF Withdrawn, Record, ClaimStatuses, InferenceStatuses

LEMMA AppliedRecords ==
    ASSUME DerivationsInv, NEW R, \A c \in R : Exists(c), NEW scrub \in BOOLEAN
    PROVE  /\ Applied(R, scrub) \in [Ids -> Record]
           /\ \A n \in Ids \ Reached(R) : Applied(R, scrub)[n] = record[n]
           /\ \A n \in Reached(R) : /\ n \in Ids /\ Exists(n)
                                    /\ Applied(R, scrub)[n] = Withdrawn(record[n], scrub)
                                    /\ Applied(R, scrub)[n].kind = record[n].kind
                                    /\ Applied(R, scrub)[n].from = record[n].from
                                    /\ Applied(R, scrub)[n].status \in {"retired", "stale"}
                                    /\ scrub => Applied(R, scrub)[n].text = {}
                                    /\ ~scrub => Applied(R, scrub)[n].text = record[n].text
<1>1. \A n \in Reached(R) : n \in Ids /\ Exists(n)
  BY ReachedExist DEF DerivationsInv
<1>2. ASSUME NEW n \in Ids PROVE record[n] \in Record
  BY DEF DerivationsInv, DerivationsTypeOK
<1>3. ASSUME NEW n \in Reached(R)
      PROVE  /\ Withdrawn(record[n], scrub) \in Record
             /\ Withdrawn(record[n], scrub).kind = record[n].kind /\ Withdrawn(record[n], scrub).from = record[n].from
             /\ Withdrawn(record[n], scrub).status \in {"retired", "stale"}
             /\ scrub => Withdrawn(record[n], scrub).text = {}
             /\ ~scrub => Withdrawn(record[n], scrub).text = record[n].text
  BY <1>1, <1>2, WithdrawnRecord DEF Exists
<1> QED BY <1>1, <1>2, <1>3 DEF Applied

LEMMA ScrubbedRecords ==
    ASSUME DerivationsInv, NEW R, \A c \in R : Exists(c), NEW n \in Reached(R)
    PROVE  /\ n \in Ids
           /\ Applied(R, TRUE)[n].kind = record[n].kind /\ Applied(R, TRUE)[n].from = record[n].from
           /\ Applied(R, TRUE)[n].status \in {"retired", "stale"} /\ Applied(R, TRUE)[n].text = {}
<1>1. n \in Ids
  BY AppliedRecords
<1>2. /\ Applied(R, TRUE)[n].kind = record[n].kind /\ Applied(R, TRUE)[n].from = record[n].from
      /\ Applied(R, TRUE)[n].status \in {"retired", "stale"}
  BY AppliedRecords
<1>3. Applied(R, TRUE)[n].text = {}
  BY AppliedRecords
<1> QED BY <1>1, <1>2, <1>3

\* Without scrubbing, only the status of what is reached changes.
LEMMA AppliedIsRestated ==
    ASSUME DerivationsInv, NEW R, \A c \in R : Exists(c), NEW n \in Ids
    PROVE  Restated(record[n], Applied(R, FALSE)[n])
<1>1. CASE n \in Reached(R)
  BY <1>1, AppliedRecords DEF Restated, Exists
<1>2. CASE n \notin Reached(R)
  <2>1. Applied(R, FALSE)[n] = record[n] /\ record[n] \in Record
    BY <1>2, AppliedRecords DEF DerivationsInv, DerivationsTypeOK
  <2> QED BY <2>1, SameIsRestated
<1> QED BY <1>1, <1>2

LEMMA DeletionErases ==
    ASSUME DerivationsInv, NEW R \in SUBSET There, NEW scrub \in BOOLEAN, Delete(R, scrub), scrub
    PROVE  Erases(R)
<1>1. \A c \in R : c \in Ids /\ Exists(c)
  BY DEF There
<1>2. record' = Applied(R, TRUE) /\ Erase(R) /\ UNCHANGED draft
  BY DEF Delete
<1>3. record' \in [Ids -> Record] /\ \A n \in Ids \ Reached(R) : record'[n] = record[n]
  BY <1>1, <1>2, AppliedRecords, ZenonT(60)
<1>4. \A n \in Reached(R) : /\ record'[n].kind = record[n].kind /\ record'[n].from = record[n].from
                            /\ record'[n].text = {} /\ record'[n].status # "deleted"
  BY <1>1, <1>2, ScrubbedRecords
<1> QED BY <1>1, <1>2, <1>3, <1>4 DEF Erases

LEMMA DeletionRestates ==
    ASSUME DerivationsInv, NEW R \in SUBSET There, Delete(R, FALSE)
    PROVE  Restatus
<1>1. \A c \in R : c \in Ids /\ Exists(c)
  BY DEF There
<1>2. record' = Applied(R, FALSE) /\ UNCHANGED <<draft, erased, held>>
  BY DEF Delete
<1>3. \A n \in Ids : Restated(record[n], record'[n])
  BY <1>1, <1>2, AppliedIsRestated
<1>4. record' \in [Ids -> Record]
  BY <1>1, <1>2, AppliedRecords
<1> QED BY <1>2, <1>3, <1>4 DEF Restatus, Restated

LEMMA DeleteKeeps ==
    ASSUME DerivationsInv, NEW R \in SUBSET There, NEW scrub \in BOOLEAN, Delete(R, scrub)
    PROVE  DerivationsInv'
<1>1. CASE scrub
  BY <1>1, DeletionErases, ErasesKeeps
<1>2. CASE ~scrub
  <2>1. Delete(R, FALSE)
    BY <1>2
  <2> QED BY <2>1, DeletionRestates, RestatusKeeps
<1> QED BY <1>1, <1>2

LEMMA HardDeletionErases ==
    ASSUME DerivationsInv, NEW c \in Ids, HardDelete(c)
    PROVE  Erases({c})
<1> DEFINE gone == [NoRecord EXCEPT !.kind = record[c].kind, !.status = "deleted"]
<1>1. Exists(c) /\ record[c].kind \in {"claim", "derived"}
  BY DEF HardDelete, Claim
<1>2. gone \in Record /\ gone.kind = record[c].kind /\ gone.from = {} /\ gone.text = {}
  BY <1>1 DEF NoRecord, Record, ClaimStatuses
<1>3. c \in Reached({c})
  BY ReachedNow, Reach, TypesAscend DEF DerivationsInv
<1>4. record' = [Applied({c}, TRUE) EXCEPT ![c] = gone]
  BY DEF HardDelete
<1>5. /\ \A n \in Ids \ Reached({c}) : record'[n] = record[n]
      /\ record' \in [Ids -> Record]
      /\ \A n \in Reached({c}) : /\ record'[n].kind = record[n].kind
                                 /\ record'[n].from \subseteq record[n].from
                                 /\ record'[n].text = {}
                                 /\ n # c => record'[n].status # "deleted"
  <2>1. \A e \in {c} : Exists(e)
    BY <1>1
  <2> DEFINE applied == Applied({c}, TRUE)
  <2>2. applied \in [Ids -> Record] /\ \A n \in Ids \ Reached({c}) : applied[n] = record[n]
    BY <2>1, AppliedRecords
  <2>3. \A n \in Reached({c}) : /\ n \in Ids /\ applied[n].kind = record[n].kind
                                /\ applied[n].from = record[n].from
                                /\ applied[n].status \in {"retired", "stale"} /\ applied[n].text = {}
    BY <2>1, ScrubbedRecords
  <2>4. record' = [applied EXCEPT ![c] = gone]
    BY <1>4
  <2> HIDE DEF gone, applied
  <2>5. \A n \in Ids : record'[n] = IF n = c THEN gone ELSE applied[n]
    BY <2>2, <2>4
  <2>6. record' \in [Ids -> Record]
    BY <1>2, <2>2, <2>4
  <2> QED BY <1>2, <1>3, <2>2, <2>3, <2>5, <2>6
<1>6. record'[c].from = {}
  <2>1. Applied({c}, TRUE) \in [Ids -> Record]
    BY <1>1, AppliedRecords
  <2> HIDE DEF gone
  <2> QED BY <1>2, <1>4, <2>1
<1> QED BY <1>1, <1>5, <1>6 DEF Erases, HardDelete

LEMMA HardDeleteKeeps ==
    ASSUME DerivationsInv, NEW c \in Ids, HardDelete(c)
    PROVE  DerivationsInv'
  BY HardDeletionErases, ErasesKeeps

LEMMA DeriveInvalidateRestates ==
    ASSUME DerivationsInv, NEW c \in Ids, DeriveInvalidate(c)
    PROVE  Restatus
<1>1. record' = [Applied({c}, FALSE) EXCEPT ![c] = record[c]] /\ \A e \in {c} : Exists(e)
  BY DEF DeriveInvalidate, Claim
<1>2. Applied({c}, FALSE) \in [Ids -> Record] /\ record[c] \in Record
  BY <1>1, AppliedRecords DEF DerivationsInv, DerivationsTypeOK
<1>3. \A n \in Ids : Restated(record[n], Applied({c}, FALSE)[n]) /\ Restated(record[n], record[n])
  BY <1>1, AppliedIsRestated, SameIsRestated DEF DerivationsInv, DerivationsTypeOK
<1>4. record' \in [Ids -> Record] /\ \A n \in Ids : Restated(record[n], record'[n])
  BY <1>1, <1>2, <1>3
<1> QED BY <1>4 DEF Restatus, Restated, DeriveInvalidate

LEMMA ReadSourcesKeeps ==
    ASSUME DerivationsInv, NEW kind \in {"inference", "reflection"}, NEW S \in SUBSET There,
           ReadSources(kind, S)
    PROVE  DerivationsInv'
<1> USE DEF DerivationsInv
<1>1. UNCHANGED <<record, erased, held>> /\ draft' = [kind |-> kind, from |-> S, text |-> TextOf(S)]
  BY DEF ReadSources
<1>2. DerivationsTypeOK' /\ Numbered' /\ Cut' /\ ErasedTextStaysErased' /\ DraftIsSourced'
  BY <1>1, DrawnText DEF DerivationsTypeOK, Draft, Numbered, Cut, ErasedTextStaysErased, DraftIsSourced
<1>3. WordingIsReached'
  BY <1>1, ReachedNow, ReachedThen DEF WordingIsReached
<1> QED BY <1>2, <1>3

LEMMA DerivationsStart == DerivationsInit => DerivationsInv
<1> SUFFICES ASSUME DerivationsInit PROVE DerivationsInv
  OBVIOUS
<1>1. record \in [Ids -> Record]
  BY DEF DerivationsInit, NoRecord, Record
<1> QED BY <1>1 DEF DerivationsInit, DerivationsInv, DerivationsTypeOK, Numbered, Cut, WordingIsReached,
                   DraftIsSourced, ErasedTextStaysErased, NoRecord, NoDraft

\* A step of the namespace restates records, adds one, erases some, or reads.
LEMMA RememberingKeeps == ASSUME DerivationsInv, Remembering PROVE DerivationsInv'
<1>1. ASSUME NEW n \in Ids, WriteClaim(n) \/ Deriving(n) PROVE DerivationsInv'
  BY <1>1, AddsKeeps, ClaimAdds, InferenceAdds, ReflectionAdds, StoredDraftAdds, AbstractionAdds,
     PromotedClaimAdds, PromotedReflectionAdds DEF Deriving
<1>2. ASSUME NEW n \in Ids, Retiring(n) PROVE DerivationsInv'
  BY <1>2, RestatusKeeps, SetStatusRestates, DeriveInvalidateRestates, RetentionRestates,
     InvalidationRestates DEF Retiring
<1>3. ASSUME NEW n \in Ids, NEW s \in InferenceStatuses, NEW strength \in Strengths, ReviewInference(n, s, strength)
      PROVE  DerivationsInv'
  BY <1>3, RestatusKeeps, ReviewRestates
<1>4. CASE RefreshReflections
  BY <1>4, RestatusKeeps, RefreshRestates
<1>5. ASSUME NEW kind \in {"inference", "reflection"}, NEW S \in SUBSET There, ReadSources(kind, S)
      PROVE  DerivationsInv'
  BY <1>5, ReadSourcesKeeps
<1> QED BY <1>1, <1>2, <1>3, <1>4, <1>5 DEF Remembering

LEMMA DerivationsStep == ASSUME DerivationsInv, [DerivationsNext]_derivationVars PROVE DerivationsInv'
<1>1. CASE DerivationsNext
  BY <1>1, RememberingKeeps, DeleteKeeps, HardDeleteKeeps DEF DerivationsNext
<1>2. CASE UNCHANGED derivationVars
  <2>1. Restatus
    BY <1>2, SameIsRestated DEF derivationVars, Restatus, DerivationsInv, DerivationsTypeOK
  <2> QED BY <2>1, RestatusKeeps
<1> QED BY <1>1, <1>2

\* deletion.apply finds everything that holds the wording of what it erases,
\* for any number of records: whoever holds the wording of a claim is derived
\* from it along edges that no deletion of something else cuts.
THEOREM ErasureIsComplete == DerivationsSpec => []ErasedTextStaysErased
<1>1. DerivationsSpec => []DerivationsInv
  BY DerivationsStart, DerivationsStep, PTL DEF DerivationsSpec
<1>2. DerivationsInv => ErasedTextStaysErased
  BY DEF DerivationsInv
<1> QED BY <1>1, <1>2, PTL

-----------------------------------------------------------------------------
(* What goes out of force takes along what is derived from it.             *)

\* What is derived from a record has a greater number.
LEMMA DerivedAreLater ==
    ASSUME DerivationsTypeOK, NEW c \in Ids, NEW n \in Derived({c})
    PROVE  n \in Ids /\ c < n
<1>1. Ids \subseteq Nat /\ Ascending(record)
  BY DerivationsAssumption, TypesAscend DEF Ids
<1>2. ReachedIn(record, {c}) \subseteq {m \in Ids : c <= m}
  <2>1. ASSUME NEW m \in Ids, m \in {c} \/ \E k \in SourcesIn(record, m) : k \in {i \in Ids : c <= i}
        PROVE  c <= m
    <3>1. CASE m = c
      BY <1>1, <3>1
    <3>2. ASSUME NEW k \in SourcesIn(record, m), c <= k PROVE c <= m
      <4>1. k \in Ids /\ k < m
        BY <1>1, SourcesAreIds
      <4>2. c \in Nat /\ k \in Nat /\ m \in Nat
        BY <1>1, <4>1
      <4> QED BY <3>2, <4>1, <4>2
    <3> QED BY <2>1, <3>1, <3>2
  <2> QED BY <1>1, <2>1, ReachedIsLeast
<1>3. n \in Ids /\ c <= n /\ n # c
  BY <1>2, ReachedNow DEF Derived
<1>4. c \in Nat /\ n \in Nat
  BY <1>1, <1>3
<1> QED BY <1>3, <1>4

\* And what is derived from something that is reached is reached.
LEMMA DerivedThrough ==
    ASSUME DerivationsTypeOK, NEW R, NEW c \in Reached(R)
    PROVE  Derived({c}) \subseteq Reached(R)
<1>1. {c} \cap Ids \subseteq ReachedIn(record, R)
  BY ReachedNow
<1> QED BY <1>1, ReachedNow, ReachedThroughReached, TypesAscend DEF Derived

\* What a record that is marked, or invalidated, is left as.
LEMMA MarkedAreOut ==
    ASSUME NEW r \in Record
    PROVE  /\ r.kind \in {"derived", "reflection", "abstraction"} => MarkedStale(r).status # "active"
           /\ MarkedStale(r).kind = r.kind
           /\ r.kind \in {"claim", "derived"} => MarkedStale(r).status \in {r.status, "disputed"}
  BY DEF MarkedStale, Record

LEMMA InvalidatedAreOut ==
    ASSUME NEW n, record[n].kind \in {"derived", "reflection", "abstraction"}
    PROVE  Invalidated(n) # "active"
  BY DEF Invalidated

\* Steps in which no claim goes out of force.
Calm == \A m \in Ids : m \in Gone' => m \in Gone

LEMMA AdditionsAreCalm ==
    ASSUME DerivationsInv, NEW n \in Ids, WriteClaim(n) \/ Deriving(n)
    PROVE  Calm
<1>1. record \in [Ids -> Record]
  BY DEF DerivationsInv, DerivationsTypeOK
<1>2. CASE WriteClaim(n)
  <2>1. PICK d \in Detections :
          record' = [Disputed(d[1]) EXCEPT ![n] = [NoRecord EXCEPT !.kind = "claim", !.status = d[2], !.text = {n}]]
    BY <1>2 DEF WriteClaim
  <2> QED BY <1>1, <2>1, DetectionRestates DEF Calm, Gone, Disputed, NoRecord, Record
<1>3. CASE \E i \in Ids, s \in {"active", "core"}, force \in BOOLEAN : PromoteToClaim(n, i, s, force)
  <2>1. PICK i \in Ids, s \in {"active", "core"}, d \in Detections :
          /\ record[i].kind = "inference"
          /\ record' = [Disputed(d[1]) EXCEPT
                          ![i].status = "promoted",
                          ![n] = [NoRecord EXCEPT !.kind = "derived", !.from = {i}, !.text = record[i].text,
                                                  !.status = IF s = "core" THEN "core" ELSE d[2]]]
    BY <1>3 DEF PromoteToClaim, Reviewable
  <2>2. /\ Disputed(d[1]) \in [Ids -> Record] /\ Disputed(d[1])[i].kind = "inference"
        /\ d[2] \in {"active", "disputed"}
    BY <2>1, DetectionRestates DEF Restated
  <2>3. /\ record'[i].kind = "inference" \/ i = n
        /\ record'[n].status \in {"active", "core", "disputed"}
        /\ \A m \in Ids \ {n, i} : record'[m] = Disputed(d[1])[m]
    BY <2>1, <2>2 DEF NoRecord, Record
  <2>4. ASSUME NEW m \in Ids, m \in Gone' PROVE m \in Gone
    <3>1. m # n /\ m # i
      BY <2>3, <2>4 DEF Gone
    <3>2. record'[m] = Disputed(d[1])[m]
      BY <2>3, <3>1
    <3> QED BY <1>1, <2>4, <3>2 DEF Gone, Disputed, Record
  <2> QED BY <2>4 DEF Calm
<1>4. CASE \E i \in Ids, force \in BOOLEAN : PromoteToReflection(n, i, force)
  BY <1>1, <1>4 DEF PromoteToReflection, Reviewable, Reflected, NoRecord, Calm, Gone, Record
<1>5. CASE \E S \in SUBSET There, strength \in Strengths : RunInference(n, S, strength)
  BY <1>1, <1>5 DEF RunInference, Inferred, NoRecord, Calm, Gone
<1>6. CASE \E S \in SUBSET There, s \in {"candidate", "active"} : BuildReflection(n, S, s)
  BY <1>1, <1>6 DEF BuildReflection, Reflected, NoRecord, Calm, Gone
<1>7. CASE \E s \in {"candidate", "active"}, strength \in Strengths : StoreDraft(n, s, strength)
  BY <1>1, <1>7 DEF StoreDraft, Inferred, Reflected, NoRecord, Calm, Gone
<1>8. CASE \E S \in SUBSET There : CreateAbstraction(n, S)
  BY <1>1, <1>8 DEF CreateAbstraction, NoRecord, Calm, Gone
<1> QED BY <1>2, <1>3, <1>4, <1>5, <1>6, <1>7, <1>8 DEF Deriving

\* What the property says of one claim that goes out of force.
TakesAlong(c) == RetentionArchive(c) \/ \A n \in Derived({c}) : ~Serves(n)'

LEMMA CalmTakesAlong == ASSUME Calm PROVE \A c \in Gone' \ Gone : TakesAlong(c)
  BY DEF Calm, Gone

LEMMA SetStatusTakesAlong ==
    ASSUME DerivationsInv, NEW e \in Ids, NEW s \in ClaimStatuses \ {"deleted"}, SetStatus(e, s),
           NEW c \in Gone' \ Gone
    PROVE  TakesAlong(c)
<1>1. record \in [Ids -> Record] /\ c \in Ids
  BY DEF DerivationsInv, DerivationsTypeOK, Gone
<1>2. Staled({e}) \in [Ids -> Record]
  BY StaledIsRestated DEF Staled, Restated, SetStatus, Claim
<1>3. record' = [(IF s = "retired" THEN Staled({e}) ELSE record) EXCEPT ![e].status = s]
  BY DEF SetStatus
<1>4. ASSUME NEW n \in Ids, n # e PROVE record'[n] \in {record[n], MarkedStale(record[n])}
  BY <1>1, <1>2, <1>3, <1>4 DEF Staled
<1>5. c = e
  <2> SUFFICES ASSUME c # e PROVE FALSE
    OBVIOUS
  <2>1. record'[c] \in {record[c], MarkedStale(record[c])}
    BY <1>1, <1>4
  <2> QED BY <1>1, <2>1, MarkedAreOut DEF Gone
<1>6. s = "retired"
  BY <1>1, <1>2, <1>3, <1>5 DEF Gone, ClaimStatuses, Record
<1>7. ASSUME NEW n \in Derived({c}) PROVE ~Serves(n)'
  <2>1. n \in Ids /\ n # e
    BY <1>1, <1>5, DerivedAreLater DEF DerivationsInv, Derived
  <2>2. record'[n] = MarkedStale(record[n])
    BY <1>2, <1>3, <1>5, <1>6, <2>1 DEF Staled
  <2> QED BY <1>1, <2>1, <2>2, MarkedAreOut DEF Serves
<1> QED BY <1>7 DEF TakesAlong

LEMMA InvalidationTakesAlong ==
    ASSUME DerivationsInv, NEW e \in Ids, NEW mode, InvalidateDerived(e, mode), NEW c \in Gone' \ Gone
    PROVE  TakesAlong(c)
<1>1. record \in [Ids -> Record] /\ c \in Ids
  BY DEF DerivationsInv, DerivationsTypeOK, Gone
<1>2. Restatus
  BY InvalidationRestates
<1>3. CASE mode = "mark_stale"
  <2>1. record'[c] \in {record[c], MarkedStale(record[c])}
    BY <1>1, <1>3 DEF InvalidateDerived, Staled
  <2> QED BY <1>1, <2>1, MarkedAreOut DEF Gone
<1>4. CASE mode # "mark_stale"
  <2>1. PICK stale : /\ \A m \in stale : Invalidated(m) = "invalidated"
                     /\ record' = [m \in Ids |-> IF m \in stale THEN [record[m] EXCEPT !.status = "stale"]
                                                 ELSE IF m \in Derived({e})
                                                 THEN [record[m] EXCEPT !.status = Invalidated(m)]
                                                 ELSE record[m]]
    BY <1>4 DEF InvalidateDerived
  <2>2. c \notin stale /\ c \in Derived({e})
    BY <1>1, <2>1 DEF Gone, Record
  <2>3. ASSUME NEW n \in Derived({c}) PROVE ~Serves(n)'
    <3>1. n \in Ids /\ c < n /\ e < c
      BY <1>1, <2>2, DerivedAreLater DEF DerivationsInv
    <3>2. n # e
      BY <1>1, <3>1, DerivationsAssumption DEF Ids
    <3>3. n \in Derived({e})
      BY <2>2, <3>2, DerivedThrough DEF Derived, DerivationsInv
    <3>4. record'[n].kind = record[n].kind /\ record'[n].status \in {"stale", Invalidated(n)}
      BY <1>1, <2>1, <3>1, <3>3 DEF Record
    <3> QED BY <3>4, InvalidatedAreOut DEF Serves
  <2> QED BY <2>3 DEF TakesAlong
<1> QED BY <1>3, <1>4

LEMMA DeriveInvalidateTakesAlong ==
    ASSUME DerivationsInv, NEW e \in Ids, DeriveInvalidate(e), NEW c \in Gone' \ Gone
    PROVE  TakesAlong(c)
<1>1. record \in [Ids -> Record] /\ c \in Ids /\ \A x \in {e} : Exists(x)
  BY DEF DerivationsInv, DerivationsTypeOK, Gone, DeriveInvalidate, Claim
<1>2. Applied({e}, FALSE) \in [Ids -> Record] /\ \A n \in Ids \ Reached({e}) : Applied({e}, FALSE)[n] = record[n]
  BY <1>1, AppliedRecords
<1>3. record' = [Applied({e}, FALSE) EXCEPT ![e] = record[e]]
  BY DEF DeriveInvalidate
<1>4. \A n \in Ids : record'[n] = IF n = e THEN record[e] ELSE Applied({e}, FALSE)[n]
  BY <1>2, <1>3
<1>5. c # e /\ c \in Reached({e})
  <2>1. c # e
    BY <1>4 DEF Gone
  <2> QED BY <1>1, <1>2, <1>4, <2>1 DEF Gone
<1>6. ASSUME NEW n \in Derived({c}) PROVE ~Serves(n)'
  <2>1. n \in Ids /\ c < n /\ e < c
    BY <1>1, <1>5, DerivedAreLater DEF DerivationsInv, Derived
  <2>2. n # e
    BY <1>1, <2>1, DerivationsAssumption DEF Ids
  <2>3. n \in Reached({e})
    BY <1>5, DerivedThrough DEF DerivationsInv
  <2>4. Applied({e}, FALSE)[n].status \in {"retired", "stale"}
    BY <1>1, <2>3, AppliedRecords
  <2> QED BY <1>4, <2>1, <2>2, <2>4 DEF Serves
<1> QED BY <1>6 DEF TakesAlong

LEMMA DeletionTakesAlong ==
    ASSUME DerivationsInv, NEW R \in SUBSET There, NEW scrub \in BOOLEAN, Delete(R, scrub), NEW c \in Gone' \ Gone
    PROVE  TakesAlong(c)
<1>1. \A e \in R : Exists(e)
  BY DEF There
<1>2. c \in Ids /\ record' = Applied(R, scrub)
  BY DEF Gone, Delete
<1>3. c \in Reached(R)
  <2>1. c \notin Reached(R) => record'[c] = record[c]
    BY <1>1, <1>2, AppliedRecords
  <2> QED BY <1>2, <2>1 DEF Gone
<1>4. ASSUME NEW n \in Derived({c}) PROVE ~Serves(n)'
  <2>1. n \in Reached(R)
    BY <1>3, DerivedThrough DEF DerivationsInv
  <2>2. record'[n].status \in {"retired", "stale"}
    BY <1>1, <1>2, <2>1, AppliedRecords
  <2> QED BY <2>2 DEF Serves
<1> QED BY <1>4 DEF TakesAlong

LEMMA HardDeletionTakesAlong ==
    ASSUME DerivationsInv, NEW e \in Ids, HardDelete(e), NEW c \in Gone' \ Gone
    PROVE  TakesAlong(c)
<1>1. c \in Ids /\ \A x \in {e} : Exists(x)
  BY DEF Gone, HardDelete, Claim
<1> DEFINE gone == [NoRecord EXCEPT !.kind = record[e].kind, !.status = "deleted"]
<1>2. Applied({e}, TRUE) \in [Ids -> Record] /\ \A n \in Ids \ Reached({e}) : Applied({e}, TRUE)[n] = record[n]
  BY <1>1, AppliedRecords
<1>3. record' = [Applied({e}, TRUE) EXCEPT ![e] = gone] /\ gone.status = "deleted"
  BY DEF HardDelete, NoRecord
<1> HIDE DEF gone
<1>4. \A n \in Ids : record'[n] = IF n = e THEN gone ELSE Applied({e}, TRUE)[n]
  BY <1>2, <1>3
<1>5. c \in Reached({e})
  <2>1. e \in Reached({e})
    BY ReachedNow, Reach, TypesAscend DEF DerivationsInv
  <2> QED BY <1>1, <1>2, <1>4, <2>1 DEF Gone
<1>6. ASSUME NEW n \in Derived({c}) PROVE ~Serves(n)'
  <2>1. n \in Ids /\ n \in Reached({e})
    BY <1>1, <1>5, DerivedThrough, DerivedAreLater DEF DerivationsInv
  <2>2. Applied({e}, TRUE)[n].status \in {"retired", "stale"}
    BY <1>1, <2>1, ScrubbedRecords
  <2> QED BY <1>3, <1>4, <2>1, <2>2 DEF Serves
<1> QED BY <1>6 DEF TakesAlong

LEMMA EveryStepTakesAlong ==
    ASSUME DerivationsInv, DerivationsNext, NEW c \in Gone' \ Gone
    PROVE  TakesAlong(c)
<1>1. CASE \E n \in Ids : WriteClaim(n) \/ Deriving(n)
  BY <1>1, AdditionsAreCalm, CalmTakesAlong
<1>2. ASSUME NEW n \in Ids, Retiring(n) PROVE TakesAlong(c)
  <2>1. CASE RetentionArchive(n)
    <3>1. CASE c = n
      BY <2>1, <3>1 DEF TakesAlong
    <3>2. CASE c # n
      BY <2>1, <3>2 DEF RetentionArchive, Gone, DerivationsInv, DerivationsTypeOK
    <3> QED BY <3>1, <3>2
  <2> QED BY <1>2, <2>1, SetStatusTakesAlong, DeriveInvalidateTakesAlong, InvalidationTakesAlong DEF Retiring
<1>3. ASSUME NEW i \in Ids, NEW s, NEW strength, ReviewInference(i, s, strength) PROVE TakesAlong(c)
  <2>1. Calm
    BY <1>3 DEF ReviewInference, Reviewable, Calm, Gone, DerivationsInv, DerivationsTypeOK, Record
  <2> QED BY <2>1, CalmTakesAlong
<1>4. CASE RefreshReflections
  <2>1. Calm
    BY <1>4 DEF RefreshReflections, Refreshed, Calm, Gone, DerivationsInv, DerivationsTypeOK, Record
  <2> QED BY <2>1, CalmTakesAlong
<1>5. CASE UNCHANGED record
  BY <1>5 DEF Gone
<1>6. CASE Remembering
  BY <1>1, <1>2, <1>3, <1>4, <1>5, <1>6 DEF Remembering, ReadSources
<1> QED BY <1>6, DeletionTakesAlong, HardDeletionTakesAlong DEF DerivationsNext

\* Whatever takes a claim out of force reaches everything that was derived
\* from it, for any number of records; but for a retention policy that
\* archives.
THEOREM WithdrawalsSpread == DerivationsSpec => WithdrawalsReachEverything
<1>1. DerivationsInv /\ [DerivationsNext]_derivationVars
         => [\A c \in Gone' \ Gone :
                RetentionArchive(c) \/ \A n \in Derived({c}) : ~Serves(n)']_derivationVars
  BY EveryStepTakesAlong DEF TakesAlong
<1>2. DerivationsSpec => []DerivationsInv
  BY DerivationsStart, DerivationsStep, PTL DEF DerivationsSpec
<1> QED BY <1>1, <1>2, PTL DEF DerivationsSpec, WithdrawalsReachEverything

-----------------------------------------------------------------------------
(* What was withdrawn comes back by no step.                               *)

\* One record, before and after.
StaysOut(r, s) ==
    r.kind \in {"reflection", "abstraction"} /\ r.status # "active" => s.status # "active"

LEMMA WithdrawnStatesOut ==
    ASSUME NEW r \in Record
    PROVE  /\ StaysOut(r, r) /\ StaysOut(r, MarkedStale(r)) /\ StaysOut(r, Refreshed(r))
           /\ \A scrub : StaysOut(r, Withdrawn(r, scrub))
           /\ \A s : s # "active" => StaysOut(r, [r EXCEPT !.status = s])
BY DEF StaysOut, MarkedStale, Refreshed, Withdrawn, Record

\* A record that is added has a number nothing had.
LEMMA AdditionsStayOut ==
    ASSUME DerivationsInv, NEW n \in Ids, New(n), WriteClaim(n) \/ Deriving(n), NEW k \in Ids
    PROVE  StaysOut(record[k], record'[k])
<1>1. record \in [Ids -> Record]
  BY DEF DerivationsInv, DerivationsTypeOK
<1>2. \A D : DOMAIN Disputed(D) = Ids /\ Disputed(D)[k] \in {record[k], [record[k] EXCEPT !.status = "disputed"]}
  BY DEF Disputed
<1>3. CASE k = n
  BY <1>3 DEF New, StaysOut
<1>4. ASSUME NEW D, NEW r, NEW i \in Ids, record[i].kind = "inference", k # n,
             \/ record' = [Disputed(D) EXCEPT ![n] = r]
             \/ record' = [Disputed(D) EXCEPT ![i].status = "promoted", ![n] = r]
      PROVE  StaysOut(record[k], record'[k])
  <2>1. CASE k = i
    BY <1>4, <2>1 DEF StaysOut
  <2>2. CASE k # i
    <3>1. record'[k] = Disputed(D)[k]
      BY <1>2, <1>4, <2>2
    <3> QED BY <1>1, <1>2, <3>1, WithdrawnStatesOut
  <2> QED BY <2>1, <2>2
<1>5. ASSUME k # n, WriteClaim(n) PROVE StaysOut(record[k], record'[k])
  <2>1. PICK d \in Detections :
          record' = [Disputed(d[1]) EXCEPT ![n] = [NoRecord EXCEPT !.kind = "claim", !.status = d[2], !.text = {n}]]
    BY <1>5, Zenon DEF WriteClaim
  <2>2. record'[k] = Disputed(d[1])[k]
    BY <1>2, <1>5, <2>1
  <2> QED BY <1>1, <1>2, <2>2, WithdrawnStatesOut
<1>6. ASSUME k # n, NEW i \in Ids, NEW target, NEW force, PromoteToClaim(n, i, target, force)
      PROVE  StaysOut(record[k], record'[k])
  <2>1. PICK D, r : record' = [Disputed(D) EXCEPT ![i].status = "promoted", ![n] = r]
    BY <1>6 DEF PromoteToClaim
  <2> QED BY <1>4, <1>6, <2>1 DEF PromoteToClaim, Reviewable
<1>7. ASSUME k # n, NEW i \in Ids, NEW force, PromoteToReflection(n, i, force)
      PROVE  StaysOut(record[k], record'[k])
  <2>1. k = i \/ record'[k] = record[k]
    BY <1>1, <1>7 DEF PromoteToReflection
  <2> QED BY <1>1, <1>7, <2>1, WithdrawnStatesOut DEF PromoteToReflection, Reviewable, StaysOut
<1>8. ASSUME k # n, NEW r, record' = [record EXCEPT ![n] = r] PROVE StaysOut(record[k], record'[k])
  BY <1>1, <1>8, WithdrawnStatesOut
<1>9. CASE /\ k # n
           /\ \/ \E S, strength : RunInference(n, S, strength)
              \/ \E S, s : BuildReflection(n, S, s)
              \/ \E s, strength : StoreDraft(n, s, strength)
              \/ \E S : CreateAbstraction(n, S)
  <2>1. \E r : record' = [record EXCEPT ![n] = r]
    BY <1>9, Zenon DEF RunInference, BuildReflection, StoreDraft, CreateAbstraction
  <2> QED BY <1>8, <1>9, <2>1
<1> QED
  BY <1>3, <1>5, <1>6, <1>7, <1>9 DEF Deriving

\* A decision about a claim or an inference, an invalidation or a refresh
\* leaves a withdrawn reflection withdrawn or waiting for a review.
LEMMA RestatingStaysOut ==
    ASSUME DerivationsInv, NEW k \in Ids,
           \/ \E n \in Ids : Retiring(n)
           \/ \E n \in Ids : \E s, strength : ReviewInference(n, s, strength)
           \/ RefreshReflections
    PROVE  StaysOut(record[k], record'[k])
<1>1. record \in [Ids -> Record] /\ record[k] \in Record
  BY DEF DerivationsInv, DerivationsTypeOK
<1>2. ASSUME NEW n \in Ids, NEW s \in ClaimStatuses \ {"deleted"}, SetStatus(n, s)
      PROVE  StaysOut(record[k], record'[k])
  <2>1. CASE k = n
    BY <1>2, <2>1 DEF SetStatus, Claim, StaysOut
  <2>2. CASE k # n
    <3>1. record'[k] \in {record[k], MarkedStale(record[k])}
      BY <1>1, <1>2, <2>2 DEF SetStatus, Staled
    <3> QED BY <1>1, <3>1, WithdrawnStatesOut
  <2> QED BY <2>1, <2>2
<1>3. ASSUME NEW n \in Ids, DeriveInvalidate(n) PROVE StaysOut(record[k], record'[k])
  <2>1. record'[k] \in {record[k], Withdrawn(record[k], FALSE)}
    BY <1>1, <1>3 DEF DeriveInvalidate, Applied
  <2> QED BY <1>1, <2>1, WithdrawnStatesOut
<1>4. ASSUME NEW n \in Ids, RetentionArchive(n) PROVE StaysOut(record[k], record'[k])
  <2>1. record'[k] \in {record[k], [record[k] EXCEPT !.status = "retired"]}
    BY <1>1, <1>4 DEF RetentionArchive
  <2> QED BY <1>1, <2>1, WithdrawnStatesOut
<1>5. ASSUME NEW n \in Ids, NEW mode, InvalidateDerived(n, mode) PROVE StaysOut(record[k], record'[k])
  <2>1. \/ record'[k] \in {record[k], MarkedStale(record[k]), [record[k] EXCEPT !.status = "stale"]}
        \/ record'[k] = [record[k] EXCEPT !.status = Invalidated(k)]
    BY <1>5 DEF InvalidateDerived, Staled
  <2>2. record[k].kind \in {"reflection", "abstraction"} => Invalidated(k) # "active"
    BY InvalidatedAreOut
  <2>3. CASE record[k].kind \in {"reflection", "abstraction"}
    BY <1>1, <2>1, <2>2, <2>3, WithdrawnStatesOut
  <2> QED BY <2>3 DEF StaysOut
<1>6. ASSUME NEW n \in Ids, NEW s, NEW strength, ReviewInference(n, s, strength)
      PROVE  StaysOut(record[k], record'[k])
  <2>1. k = n \/ record'[k] = record[k]
    BY <1>1, <1>6 DEF ReviewInference
  <2> QED BY <1>1, <1>6, <2>1, WithdrawnStatesOut DEF ReviewInference, Reviewable, StaysOut
<1>7. CASE RefreshReflections
  <2>1. record'[k] \in {record[k], Refreshed(record[k])}
    BY <1>7 DEF RefreshReflections
  <2> QED BY <1>1, <2>1, WithdrawnStatesOut
<1> QED BY <1>2, <1>3, <1>4, <1>5, <1>6, <1>7 DEF Retiring

\* So does a deletion.
LEMMA DeletingStaysOut ==
    ASSUME DerivationsInv, NEW k \in Ids,
           (\E R, scrub : Delete(R, scrub)) \/ \E c \in Ids : HardDelete(c)
    PROVE  StaysOut(record[k], record'[k])
<1>1. record[k] \in Record
  BY DEF DerivationsInv, DerivationsTypeOK
<1>2. ASSUME NEW R, NEW scrub PROVE Applied(R, scrub)[k] \in {record[k], Withdrawn(record[k], scrub)}
  BY DEF Applied
<1>3. ASSUME NEW R, NEW scrub, Delete(R, scrub) PROVE StaysOut(record[k], record'[k])
  BY <1>1, <1>2, <1>3, WithdrawnStatesOut DEF Delete
<1>4. ASSUME NEW c \in Ids, HardDelete(c) PROVE StaysOut(record[k], record'[k])
  <2> DEFINE applied == Applied({c}, TRUE)
             r == [NoRecord EXCEPT !.kind = record[c].kind, !.status = "deleted"]
  <2>1. record' = [applied EXCEPT ![c] = r] /\ Claim(c)
    BY <1>4, Zenon DEF HardDelete
  <2>2. DOMAIN applied = Ids
    BY DEF Applied
  <2>3. CASE k = c
    BY <2>1, <2>3 DEF Claim, StaysOut
  <2>4. CASE k # c
    <3> HIDE DEF applied, r
    <3>1. record'[k] = applied[k]
      BY <2>1, <2>2, <2>4
    <3> USE DEF applied
    <3> QED BY <1>1, <1>2, <3>1, WithdrawnStatesOut
  <2> QED BY <2>3, <2>4
<1> QED BY <1>3, <1>4

\* A reflection or an abstraction that was withdrawn serves again by no
\* decision, invalidation, refresh, promotion or deletion, for any number of
\* records (memory.py refresh_reflections, review_inference,
\* _apply_invalidation_action).
THEOREM WithdrawnStayOut == DerivationsSpec => WithdrawnStaysOut
<1>1. ASSUME DerivationsInv, DerivationsNext, NEW k \in Ids PROVE StaysOut(record[k], record'[k])
  <2>1. CASE UNCHANGED record
    BY <2>1 DEF StaysOut
  <2> QED
    BY <1>1, <2>1, AdditionsStayOut, RestatingStaysOut, DeletingStaysOut
    DEF DerivationsNext, Remembering, ReadSources
<1>2. DerivationsInv /\ [DerivationsNext]_derivationVars
        => [\A n \in Ids : record[n].kind \in {"reflection", "abstraction"} /\ ~Serves(n)
                             => ~Serves(n)']_derivationVars
  BY <1>1 DEF StaysOut, Serves
<1>3. DerivationsSpec => []DerivationsInv
  BY DerivationsStart, DerivationsStep, PTL DEF DerivationsSpec
<1> QED BY <1>2, <1>3, PTL DEF DerivationsSpec, WithdrawnStaysOut

-----------------------------------------------------------------------------
(* Readers.  The recursive decision of ReadAccess.allowed has a solution    *)
(* too: the least set that holds whatever is permitted because of it.       *)

Admitted(ceiling, n, X) ==
    /\ Exists(n) /\ n \notin removed
    /\ \/ record[n].kind = "claim" /\ level[n] <= ceiling
       \/ record[n].kind = "derived" /\ Parents(n) \subseteq X
       \/ record[n].kind \in {"inference", "reflection"} /\ Parents(n) # {} /\ Parents(n) \subseteq X

Decides(ceiling, f) == f = [n \in Ids |-> Exists(n) /\ n \notin removed /\ Permitted(ceiling, n, f)]

LEMMA ParentsAreIds == ASSUME DerivationsTypeOK, NEW n \in Ids PROVE \A m \in Parents(n) : m \in Ids /\ m < n
  BY TypesAscend DEF Parents, Ascending

LEMMA DecisionIsAdmission ==
    ASSUME DerivationsTypeOK, NEW k, NEW X, NEW n \in Ids, NEW f, \A m \in Ids : f[m] <=> m \in X
    PROVE  Exists(n) /\ n \notin removed /\ Permitted(k, n, f) <=> Admitted(k, n, X)
<1>1. (\A m \in Parents(n) : f[m]) <=> Parents(n) \subseteq X
  BY ParentsAreIds
<1> QED BY <1>1 DEF Permitted, Admitted

LEMMA SomeDecision ==
    ASSUME DerivationsTypeOK, NEW k
    PROVE  \E f : Decides(k, f)
<1> DEFINE Closed(X) == \A n \in Ids : Admitted(k, n, X) => n \in X
           least == {n \in Ids : \A X \in SUBSET Ids : Closed(X) => n \in X}
           f == [n \in Ids |-> n \in least]
<1>1. \A X, Y : X \subseteq Y => \A n \in Ids : Admitted(k, n, X) => Admitted(k, n, Y)
  BY DEF Admitted
<1>2. Closed(least)
  <2> SUFFICES ASSUME NEW n \in Ids, Admitted(k, n, least), NEW X \in SUBSET Ids, Closed(X)
               PROVE  n \in X
    OBVIOUS
  <2>1. least \subseteq X
    OBVIOUS
  <2> HIDE DEF least
  <2> QED BY <1>1, <2>1
<1>3. ASSUME NEW n \in least PROVE Admitted(k, n, least)
  <2> SUFFICES ASSUME ~Admitted(k, n, least) PROVE FALSE
    OBVIOUS
  <2>1. Closed(least \ {n})
    BY <1>1, <1>2
  <2> QED BY <2>1
<1> HIDE DEF least
<1>4. Decides(k, f)
  <2>1. \A n \in Ids : f[n] <=> n \in least
    OBVIOUS
  <2>2. \A n \in Ids : f[n] \in BOOLEAN
    OBVIOUS
  <2>3. f = [n \in Ids |-> f[n]]
    OBVIOUS
  <2> HIDE DEF f
  <2>4. ASSUME NEW n \in Ids PROVE f[n] = (Exists(n) /\ n \notin removed /\ Permitted(k, n, f))
    <3>1. f[n] <=> Admitted(k, n, least)
      BY <1>2, <1>3, <2>1
    <3>2. Exists(n) /\ n \notin removed /\ Permitted(k, n, f) <=> Admitted(k, n, least)
      BY <2>1, DecisionIsAdmission
    <3> QED BY <2>2, <3>1, <3>2
  <2> QED BY <2>3, <2>4 DEF Decides
<1> HIDE DEF f
<1> QED BY <1>4

\* What is allowed is admitted because of what is allowed.
LEMMA AllowedIsAdmitted ==
    ASSUME DerivationsTypeOK, NEW k, NEW n \in Allowed(k)
    PROVE  n \in Ids /\ Admitted(k, n, Allowed(k))
<1> DEFINE f == CHOOSE f : Decides(k, f)
<1>1. Decides(k, f)
  BY SomeDecision
<1>2. Allowed(k) = {m \in Ids : f[m]}
  BY DEF Allowed, Decides
<1> HIDE DEF f
<1>3. n \in Ids /\ f[n] /\ \A m \in Ids : f[m] <=> m \in Allowed(k)
  BY <1>2
<1>4. Exists(n) /\ n \notin removed /\ Permitted(k, n, f)
  BY <1>1, <1>3 DEF Decides
<1> QED BY <1>3, <1>4, DecisionIsAdmission

-----------------------------------------------------------------------------
(* What readers are shown: the inductive invariant.                        *)

\* What records of each kind are made of.
Shaped == \A n \in Ids :
    /\ record[n].kind = "claim" => record[n].text \subseteq {n}
    /\ record[n].kind = "derived" => \E i : record[n].from \subseteq {i}
    /\ record[n].kind = "inference" => \A m \in record[n].from : record[m].kind \in {"claim", "derived"}

\* A record accounts for the wording of claim c: it holds it, or readers know
\* that it was removed.
Accounts(m, c) == m \in removed \/ c \in record[m].text

\* Whatever wording a record holds, one of the parents that its readers are
\* asked about accounts for it.
Grounded == \A n \in Ids : \A c \in record[n].text :
    /\ record[c].kind = "claim"
    /\ record[n].kind = "claim" \/ \E m \in Parents(n) : Accounts(m, c)

DraftGrounded ==
    /\ \A m \in draft.from : record[m].kind \in {"claim", "derived"} \cup
                                (IF draft.kind = "inference" THEN {} ELSE {"reflection"})
    /\ \A c \in draft.text : record[c].kind = "claim" /\ \E m \in draft.from : Accounts(m, c)

\* The record whose readers may see an item accounts for it, and so does the
\* record that a deletion would find the item by.
ItemsHold == \A item \in traced \cup tracing : \A c \in item.text :
    Accounts(item.via, c) /\ c \in held \cup late \cup record[item.of].text

\* A stored answer names the claims whose wording it holds.
AnswersHold == \A a \in answers :
    /\ a.text \subseteq a.sources /\ a.text \cap erased = {}
    /\ \A c \in a.text : record[c].kind = "claim"

ReadsInv ==
    /\ DerivationsInv /\ ReadsTypeOK
    /\ Shaped /\ Grounded /\ DraftGrounded
    /\ erased \subseteq removed /\ ItemsHold /\ AnswersHold

LEMMA ReadsTypes ==
    ASSUME ReadsInv
    PROVE  /\ DerivationsTypeOK /\ Numbered /\ Cut /\ record \in [Ids -> Record]
           /\ \A n \in Ids : record[n].text \subseteq Ids /\ record[n].from \subseteq Ids
           /\ \A item \in traced \cup tracing : item.of \in Ids /\ item.via \in Ids /\ item.text \subseteq Ids
           /\ \A a \in answers : a.of \in Ids /\ a.sources \subseteq Ids /\ a.text \subseteq Ids
           /\ draft.from \subseteq Ids /\ draft.text \subseteq Ids
  BY DEF ReadsInv, DerivationsInv, DerivationsTypeOK, ReadsTypeOK, Record, TraceItem, Answer, Draft, NoDraft

\* Whoever is allowed to see a record is allowed to see the claims whose
\* wording it holds, and was asked about all of them.
LEMMA AllowedWording ==
    ASSUME ReadsInv, NEW k, NEW n \in Allowed(k), NEW c \in record[n].text
    PROVE  n \in Reached({c}) /\ c \in Ids /\ level[c] <= k /\ c \notin removed
<1> DEFINE Sound(m) == \A e \in record[m].text : m \in Reached({e}) /\ level[e] <= k /\ e \notin removed
           T == {m \in Allowed(k) : ~Sound(m)}
<1>1. Ids \subseteq Nat /\ Ascending(record)
  BY DerivationsAssumption, ReadsTypes, TypesAscend DEF Ids
<1>2. \A m \in Allowed(k) : m \in Ids /\ Admitted(k, m, Allowed(k))
  BY AllowedIsAdmitted, ReadsTypes
<1>3. ASSUME NEW m \in Allowed(k), \A x \in Allowed(k) : x < m => Sound(x) PROVE Sound(m)
  <2> SUFFICES ASSUME NEW e \in record[m].text PROVE m \in Reached({e}) /\ level[e] <= k /\ e \notin removed
    OBVIOUS
  <2>1. m \in Ids /\ Admitted(k, m, Allowed(k)) /\ e \in Ids
    BY <1>2, ReadsTypes
  <2>2. CASE record[m].kind = "claim"
    <3>1. e = m
      BY <2>1, <2>2 DEF ReadsInv, Shaped
    <3>2. m \in Reached({e})
      BY <1>1, <2>1, <3>1, Reach, ReachedNow
    <3> QED BY <2>1, <2>2, <3>1, <3>2 DEF Admitted
  <2>3. CASE record[m].kind # "claim"
    <3>1. PICK x \in Parents(m) : Accounts(x, e)
      BY <2>1, <2>3 DEF ReadsInv, Grounded
    <3>2. x \in Allowed(k) /\ x \in Ids /\ x < m
      BY <2>1, <2>3, <3>1, ParentsAreIds, ReadsTypes DEF Admitted
    <3>3. Exists(x) /\ x \notin removed
      BY <1>2, <3>2 DEF Admitted
    <3>4. x \in Reached({e}) /\ level[e] <= k /\ e \notin removed
      BY <1>3, <3>1, <3>2, <3>3 DEF Accounts
    <3>5. x \in SourcesIn(record, m)
      BY <3>1, <3>3 DEF Parents, SourcesIn, Exists
    <3>6. m \in Reached({e})
      BY <1>1, <2>1, <3>4, <3>5, Reach, ReachedNow
    <3> QED BY <3>4, <3>6
  <2> QED BY <2>2, <2>3
<1>4. T = {}
  <2> SUFFICES ASSUME T # {} PROVE FALSE
    OBVIOUS
  <2>1. T \in SUBSET Nat
    BY <1>1, <1>2
  <2>2. PICK m \in T : \A y \in T : m <= y
    BY <2>1, LeastNumber
  <2>3. ASSUME NEW x \in T, x < m PROVE FALSE
    <3>1. m <= x /\ m \in Nat /\ x \in Nat
      BY <1>1, <1>2, <2>2
    <3> QED BY <2>3, <3>1
  <2>4. \A x \in Allowed(k) : x < m => Sound(x)
    BY <2>3
  <2> QED BY <1>3, <2>2, <2>4
<1>5. Sound(n)
  BY <1>4
<1> QED BY <1>2, <1>5, ReadsTypes

\* The invariant keeps readers within their ceilings.
LEMMA ReadersAreWithin == ReadsInv => ReadersStayWithinCeilings
<1> SUFFICES ASSUME ReadsInv, NEW k \in Levels
             PROVE  /\ \A n \in Allowed(k) : Within(record[n].text, k)
                    /\ \A item \in ShownItems(k) : Within(item.text, k)
                    /\ \A a \in Replayable(k) : Within(a.text, k)
  BY DEF ReadersStayWithinCeilings
<1>1. \A n \in Allowed(k) : Within(record[n].text, k)
  BY AllowedWording DEF Within, ReadsInv
<1>2. ASSUME NEW item \in ShownItems(k) PROVE Within(item.text, k)
  <2>1. item \in traced /\ item.via \in Allowed(k)
    BY DEF ShownItems
  <2>2. item.via \notin removed
    BY <2>1, AllowedIsAdmitted, ReadsTypes DEF Admitted
  <2>3. item.text \subseteq record[item.via].text
    BY <2>1, <2>2 DEF ReadsInv, ItemsHold, Accounts
  <2> QED BY <1>1, <2>1, <2>3 DEF Within
<1>3. ASSUME NEW a \in Replayable(k) PROVE Within(a.text, k)
  <2>1. a \in answers /\ a.sources \subseteq Allowed(k)
    BY DEF Replayable
  <2>2. ASSUME NEW c \in a.text PROVE c \notin erased /\ level[c] <= k
    <3>1. c \in Allowed(k) /\ record[c].kind = "claim" /\ c \notin erased
      BY <2>1 DEF ReadsInv, AnswersHold
    <3>2. Admitted(k, c, Allowed(k))
      BY <3>1, AllowedIsAdmitted, ReadsTypes
    <3> QED BY <3>1, <3>2 DEF Admitted
  <2> QED BY <2>2 DEF Within
<1> QED BY <1>1, <1>2, <1>3

LEMMA TracesAreErased == ReadsInv => ErasedTextLeavesTraces
<1> SUFFICES ASSUME ReadsInv PROVE ErasedTextLeavesTraces
  OBVIOUS
<1>1. \A item \in traced : item.text \cap (erased \ (held \cup late)) = {}
  BY ReadsTypes DEF ReadsInv, ItemsHold, DerivationsInv, ErasedTextStaysErased
<1> QED BY <1>1 DEF ErasedTextLeavesTraces, ReadsInv, AnswersHold

-----------------------------------------------------------------------------
(* The steps of memory, for its readers.                                   *)

\* What a new record r, of number n, is made of.
MadeOf(n, r) ==
    /\ r.kind = "claim" => r.text \subseteq {n}
    /\ r.kind = "derived" => \E i : r.from \subseteq {i}
    /\ r.kind = "inference" => \A m \in r.from : record[m].kind \in {"claim", "derived"}
    /\ \A m \in r.from : record[m].kind # "none"
    /\ r.kind = "claim" \/ \A c \in r.text :
          /\ record[c].kind = "claim"
          /\ \E m \in r.from : Accounts(m, c) /\ (r.kind = "reflection" => record[m].kind # "inference")

\* Steps in which records stay what they are and new ones are well made.
Grows ==
    /\ \A m \in Ids : record[m].kind # "none" => /\ record'[m].kind = record[m].kind
                                                 /\ record'[m].from = record[m].from
                                                 /\ record'[m].text = record[m].text
    /\ \A m \in Ids : record[m].kind = "none" => record'[m] = record[m] \/ MadeOf(m, record'[m])
    /\ UNCHANGED <<erased, held>>

LEMMA GrowthKeepsGrounds ==
    ASSUME ReadsInv, DerivationsInv', Grows, removed \subseteq removed'
    PROVE  Shaped' /\ Grounded'
<1>1. /\ \A m \in Ids : record[m].kind # "none" => record'[m].kind = record[m].kind
      /\ \A n \in Ids : \A m \in record[n].from : m \in Ids /\ record[m].kind # "none" /\ record'[m].kind = record[m].kind
  <2>1. ASSUME NEW n \in Ids, NEW m \in record[n].from PROVE m \in Ids /\ record[m].kind # "none"
    BY ReadsTypes DEF DerivationsTypeOK, Numbered, NoRecord
  <2> QED BY <2>1 DEF Grows
<1>2. ASSUME NEW m \in Ids, NEW c, Accounts(m, c) PROVE Accounts(m, c)'
  <2>1. record[m].kind = "none" => record[m].text = {}
    BY ReadsTypes DEF Numbered, NoRecord
  <2> QED BY <1>2, <2>1 DEF Accounts, Grows
<1>3. ASSUME NEW n \in Ids, record[n].kind # "none"
      PROVE  /\ record'[n].kind = "claim" => record'[n].text \subseteq {n}
             /\ record'[n].kind = "derived" => \E i : record'[n].from \subseteq {i}
             /\ record'[n].kind = "inference" => \A m \in record'[n].from : record'[m].kind \in {"claim", "derived"}
             /\ \A c \in record'[n].text : /\ record'[c].kind = "claim"
                                           /\ record'[n].kind = "claim" \/ \E m \in Parents(n)' : Accounts(m, c)'
  <2>1. record'[n].kind = record[n].kind /\ record'[n].from = record[n].from /\ record'[n].text = record[n].text
    BY <1>3 DEF Grows
  <2>2. Parents(n)' = Parents(n)
    BY <1>1, <2>1 DEF Parents
  <2>3. ASSUME NEW c \in record[n].text
        PROVE  record'[c].kind = "claim" /\ (record[n].kind = "claim" \/ \E m \in Parents(n) : Accounts(m, c)')
    <3>1. c \in Ids /\ \A m \in Parents(n) : m \in Ids
      BY ReadsTypes, ParentsAreIds
    <3> QED BY <1>1, <1>2, <3>1 DEF ReadsInv, Grounded
  <2> QED BY <1>1, <2>1, <2>2, <2>3 DEF ReadsInv, Shaped
<1>4. ASSUME NEW n \in Ids, record[n].kind = "none", record'[n].kind # "none", MadeOf(n, record'[n])
      PROVE  /\ record'[n].kind = "claim" => record'[n].text \subseteq {n}
             /\ record'[n].kind = "derived" => \E i : record'[n].from \subseteq {i}
             /\ record'[n].kind = "inference" => \A m \in record'[n].from : record'[m].kind \in {"claim", "derived"}
             /\ \A c \in record'[n].text : /\ record'[c].kind = "claim"
                                           /\ record'[n].kind = "claim" \/ \E m \in Parents(n)' : Accounts(m, c)'
  <2>1. record'[n].from \subseteq Ids /\ record'[n].text \subseteq Ids
    BY DEF DerivationsInv, DerivationsTypeOK, Record
  <2>2. \A m \in record'[n].from : record'[m].kind = record[m].kind
    BY <1>1, <1>4, <2>1 DEF MadeOf
  <2>3. CASE record'[n].kind = "claim"
    BY <1>4, <2>3 DEF MadeOf
  <2>4. CASE record'[n].kind # "claim"
    <3>1. ASSUME NEW c \in record'[n].text PROVE record'[c].kind = "claim" /\ \E m \in Parents(n)' : Accounts(m, c)'
      <4>1. c \in Ids /\ record[c].kind = "claim"
        BY <1>4, <2>1, <2>4 DEF MadeOf
      <4>2. PICK m \in record'[n].from : Accounts(m, c) /\ (record'[n].kind = "reflection" => record[m].kind # "inference")
        BY <1>4, <2>4 DEF MadeOf
      <4>3. m \in Parents(n)' /\ Accounts(m, c)'
        BY <1>2, <2>1, <2>2, <4>2 DEF Parents
      <4> QED BY <1>1, <4>1, <4>3
    <3> QED BY <1>4, <2>2, <2>4, <3>1 DEF MadeOf
  <2> QED BY <2>3, <2>4
<1>5. ASSUME NEW n \in Ids, record'[n].kind = "none" PROVE record'[n].text = {}
  BY <1>5 DEF DerivationsInv, Numbered, NoRecord
<1>6. \A n \in Ids : record[n].kind = "none" /\ record'[n].kind # "none" => MadeOf(n, record'[n])
  BY DEF Grows
<1> QED BY <1>3, <1>4, <1>5, <1>6 DEF Shaped, Grounded

LEMMA GrowthKeepsReads ==
    ASSUME ReadsInv, DerivationsInv', Grows, UNCHANGED readsVars, DraftGrounded'
    PROVE  ReadsInv'
<1>1. Shaped' /\ Grounded'
  BY GrowthKeepsGrounds DEF readsVars
<1>2. /\ \A m \in Ids : record[m].text \subseteq record'[m].text
      /\ \A m \in Ids : record[m].kind = "claim" => record'[m].kind = "claim"
  BY ReadsTypes DEF Grows, Numbered, NoRecord
<1>3. ItemsHold' /\ AnswersHold'
  <2>1. ItemsHold'
    <3> SUFFICES ASSUME NEW item \in traced \cup tracing, NEW c \in item.text
                 PROVE  Accounts(item.via, c)' /\ c \in held \cup late \cup record'[item.of].text
      BY DEF ItemsHold, readsVars, Grows
    <3>1. item.via \in Ids /\ item.of \in Ids
      BY ReadsTypes
    <3> QED BY <1>2, <3>1 DEF ReadsInv, ItemsHold, Accounts, readsVars
  <2>2. AnswersHold'
    <3> SUFFICES ASSUME NEW a \in answers
                 PROVE  /\ a.text \subseteq a.sources /\ a.text \cap erased = {}
                        /\ \A c \in a.text : record'[c].kind = "claim"
      BY DEF AnswersHold, readsVars, Grows
    <3>1. a.text \subseteq Ids
      BY ReadsTypes
    <3> QED BY <1>2, <3>1 DEF ReadsInv, AnswersHold
  <2> QED BY <2>1, <2>2
<1>4. ReadsTypeOK' /\ (erased \subseteq removed)'
  BY DEF ReadsInv, ReadsTypeOK, readsVars, Grows
<1> QED BY <1>1, <1>3, <1>4 DEF ReadsInv

\* A draft stays grounded while records grow.
LEMMA GrowthKeepsDraft ==
    ASSUME ReadsInv, Grows, UNCHANGED removed, draft' \in {draft, NoDraft}
    PROVE  DraftGrounded'
<1>1. CASE draft' = NoDraft
  BY <1>1 DEF DraftGrounded, NoDraft
<1>2. CASE draft' = draft
  <2>1. \A m \in Ids : record[m].kind # "none" => record'[m].kind = record[m].kind /\ record'[m].text = record[m].text
    BY DEF Grows
  <2>2. \A m \in draft.from : m \in Ids /\ record[m].kind # "none"
    BY ReadsTypes DEF Numbered
  <2>3. \A m \in draft.from : \A c : Accounts(m, c) => Accounts(m, c)'
    BY <2>1, <2>2 DEF Accounts
  <2>4. \A c \in draft.text : c \in Ids
    BY ReadsTypes
  <2> QED BY <1>2, <2>1, <2>2, <2>3, <2>4 DEF ReadsInv, DraftGrounded
<1> QED BY <1>1, <1>2

LEMMA RestatusGrows == ASSUME Restatus PROVE Grows
  BY DEF Restatus, Grows

LEMMA AddsGrows == ASSUME NEW n, Adds(n), MadeOf(n, record'[n]) PROVE Grows
  BY DEF Adds, New, Grows

LEMMA WordingIsOfClaims ==
    ASSUME ReadsInv, NEW S, S \subseteq There, NEW c \in TextOf(S)
    PROVE  record[c].kind = "claim" /\ \E m \in S : Accounts(m, c)
  BY DEF TextOf, There, ReadsInv, Grounded, Accounts

LEMMA ClaimIsMade == ASSUME ReadsInv, NEW n \in Ids, WriteClaim(n) PROVE MadeOf(n, record'[n])
<1>1. PICK d \in Detections :
        record' = [Disputed(d[1]) EXCEPT ![n] = [NoRecord EXCEPT !.kind = "claim", !.status = d[2], !.text = {n}]]
  BY DEF WriteClaim
<1>2. record'[n].kind = "claim" /\ record'[n].text = {n} /\ record'[n].from = {}
  BY <1>1, DetectionRestates DEF NoRecord, ReadsInv
<1> QED BY <1>2 DEF MadeOf

LEMMA InferenceIsMade ==
    ASSUME ReadsInv, NEW n \in Ids, NEW S \in SUBSET There, NEW strength, RunInference(n, S, strength)
    PROVE  MadeOf(n, record'[n])
<1>1. record'[n].kind = "inference" /\ record'[n].from = S /\ record'[n].text = TextOf(S)
  BY ReadsTypes DEF RunInference, Inferred, NoRecord
<1>2. \A m \in S : record[m].kind \in {"claim", "derived"}
  BY DEF RunInference, Drawn, Claim
<1> QED BY <1>1, <1>2, WordingIsOfClaims DEF MadeOf

LEMMA ReflectionIsMade ==
    ASSUME ReadsInv, NEW n \in Ids, NEW S \in SUBSET There, NEW s, BuildReflection(n, S, s)
    PROVE  MadeOf(n, record'[n])
<1>1. record'[n].kind = "reflection" /\ record'[n].from = S /\ record'[n].text = TextOf(S)
  BY ReadsTypes DEF BuildReflection, Reflected, NoRecord
<1>2. \A m \in S : record[m].kind \in {"claim", "derived", "reflection"}
  BY DEF BuildReflection, Reflectable, Claim
<1> QED BY <1>1, <1>2, WordingIsOfClaims DEF MadeOf

LEMMA AbstractionIsMade ==
    ASSUME ReadsInv, NEW n \in Ids, NEW S \in SUBSET There, CreateAbstraction(n, S)
    PROVE  MadeOf(n, record'[n])
<1>1. record'[n].kind = "abstraction" /\ record'[n].from = S /\ record'[n].text = TextOf(S)
  BY ReadsTypes DEF CreateAbstraction, NoRecord
<1>2. \A m \in S : record[m].kind # "none"
  BY DEF There, Exists
<1> QED BY <1>1, <1>2, WordingIsOfClaims DEF MadeOf

LEMMA StoredDraftIsMade ==
    ASSUME ReadsInv, NEW n \in Ids, NEW s, NEW strength, StoreDraft(n, s, strength)
    PROVE  MadeOf(n, record'[n])
<1>1. /\ record'[n].kind = IF draft.kind = "inference" THEN "inference" ELSE "reflection"
      /\ record'[n].from = draft.from /\ record'[n].text = draft.text
  BY ReadsTypes DEF StoreDraft, Inferred, Reflected, NoRecord
<1> QED BY <1>1 DEF MadeOf, ReadsInv, DraftGrounded

LEMMA PromotedClaimIsMade ==
    ASSUME ReadsInv, NEW n \in Ids, NEW i \in Ids, NEW target, NEW force, PromoteToClaim(n, i, target, force)
    PROVE  MadeOf(n, record'[n])
<1>1. PICK d \in Detections :
        record' = [Disputed(d[1]) EXCEPT
                     ![i].status = "promoted",
                     ![n] = [NoRecord EXCEPT !.kind = "derived", !.from = {i}, !.text = record[i].text,
                                             !.status = IF target = "core" THEN "core" ELSE d[2]]]
  BY DEF PromoteToClaim
<1>2. record'[n].kind = "derived" /\ record'[n].from = {i} /\ record'[n].text = record[i].text
  BY <1>1, DetectionRestates DEF NoRecord, ReadsInv
<1>3. record[i].kind = "inference" /\ \A c \in record[i].text : record[c].kind = "claim" /\ Accounts(i, c)
  BY DEF PromoteToClaim, Reviewable, ReadsInv, Grounded, Accounts
<1> QED BY <1>2, <1>3 DEF MadeOf

LEMMA PromotedReflectionIsMade ==
    ASSUME ReadsInv, NEW n \in Ids, NEW i \in Ids, NEW force, PromoteToReflection(n, i, force)
    PROVE  MadeOf(n, record'[n])
<1>1. /\ record'[n].kind = "reflection" /\ record'[n].text = record[i].text
      /\ record'[n].from = record[i].from \cup {i}
  BY ReadsTypes DEF PromoteToReflection, Reflected, NoRecord
<1>2. record[i].kind = "inference" /\ \A m \in record[i].from : record[m].kind \in {"claim", "derived"}
  BY DEF PromoteToReflection, Reviewable, ReadsInv, Shaped
<1>3. ASSUME NEW c \in record[i].text PROVE record[c].kind = "claim" /\ \E m \in record[i].from : Accounts(m, c)
  BY <1>2 DEF ReadsInv, Grounded, Parents
<1> QED BY <1>1, <1>2, <1>3 DEF MadeOf

LEMMA RememberingGrows ==
    ASSUME ReadsInv, Remembering
    PROVE  Grows
<1> USE DEF ReadsInv
<1>1. ASSUME NEW n \in Ids, WriteClaim(n) PROVE Grows
  <2>1. Adds(n)
    BY <1>1, ClaimAdds
  <2> QED BY <1>1, <2>1, ClaimIsMade, AddsGrows
<1>2. ASSUME NEW n \in Ids, Deriving(n) PROVE Grows
  <2>1. Adds(n)
    BY <1>2, InferenceAdds, ReflectionAdds, StoredDraftAdds, AbstractionAdds, PromotedClaimAdds,
       PromotedReflectionAdds DEF Deriving
  <2>2. MadeOf(n, record'[n])
    BY <1>2, InferenceIsMade, ReflectionIsMade, StoredDraftIsMade, AbstractionIsMade, PromotedClaimIsMade,
       PromotedReflectionIsMade DEF Deriving
  <2> QED BY <2>1, <2>2, AddsGrows
<1>3. ASSUME NEW n \in Ids, Retiring(n) PROVE Grows
  <2>1. Restatus
    BY <1>3, SetStatusRestates, DeriveInvalidateRestates, RetentionRestates, InvalidationRestates DEF Retiring
  <2> QED BY <2>1, RestatusGrows
<1>4. ASSUME NEW n \in Ids, NEW s \in InferenceStatuses, NEW strength \in Strengths, ReviewInference(n, s, strength)
      PROVE  Grows
  <2>1. Restatus
    BY <1>4, ReviewRestates
  <2> QED BY <2>1, RestatusGrows
<1>5. CASE RefreshReflections
  <2>1. Restatus
    BY <1>5, RefreshRestates
  <2> QED BY <2>1, RestatusGrows
<1>6. ASSUME NEW kind, NEW S, ReadSources(kind, S) PROVE Grows
  BY <1>6 DEF ReadSources, Grows
<1> QED BY <1>1, <1>2, <1>3, <1>4, <1>5, <1>6 DEF Remembering

LEMMA ReadSourcesKeepsDraft ==
    ASSUME ReadsInv, NEW kind \in {"inference", "reflection"}, NEW S \in SUBSET There, ReadSources(kind, S),
           UNCHANGED removed
    PROVE  DraftGrounded'
<1>1. UNCHANGED record /\ draft' = [kind |-> kind, from |-> S, text |-> TextOf(S)]
  BY DEF ReadSources
<1>2. \A m \in S : record[m].kind \in {"claim", "derived"} \cup (IF kind = "inference" THEN {} ELSE {"reflection"})
  BY DEF ReadSources, Drawn, Reflectable, Claim
<1>3. \A c \in TextOf(S) : record[c].kind = "claim" /\ \E m \in S : Accounts(m, c)
  BY WordingIsOfClaims
<1> QED BY <1>1, <1>2, <1>3 DEF DraftGrounded, Accounts

LEMMA RememberingKeepsReads ==
    ASSUME ReadsInv, Remembering, UNCHANGED readsVars
    PROVE  ReadsInv'
<1>1. DerivationsInv' /\ Grows
  BY RememberingKeeps, RememberingGrows DEF ReadsInv
<1>2. DraftGrounded'
  <2>1. CASE draft' \in {draft, NoDraft}
    BY <1>1, <2>1, GrowthKeepsDraft DEF readsVars
  <2>2. CASE \E kind \in {"inference", "reflection"}, S \in SUBSET There : ReadSources(kind, S)
    BY <2>2, ReadSourcesKeepsDraft DEF readsVars
  <2>3. draft' \in {draft, NoDraft} \/ \E kind \in {"inference", "reflection"}, S \in SUBSET There : ReadSources(kind, S)
    BY DEF Remembering, WriteClaim, Deriving, RunInference, BuildReflection, StoreDraft, CreateAbstraction,
           PromoteToClaim, PromoteToReflection, Retiring, SetStatus, DeriveInvalidate, RetentionArchive,
           InvalidateDerived, ReviewInference, RefreshReflections
  <2> QED BY <2>1, <2>2, <2>3
<1> QED BY <1>1, <1>2, GrowthKeepsReads

-----------------------------------------------------------------------------
(* Deletions, and the steps of readers.                                    *)

LEMMA ScrubbingKeepsReads ==
    ASSUME ReadsInv, NEW R, Erases(R), Tombstoned(R, TRUE)
    PROVE  ReadsInv'
<1>1. DerivationsInv'
  BY ErasesKeeps DEF ReadsInv
<1>2. R \subseteq Reached(R) /\ Reached(R) \subseteq Ids
  <2>1. ASSUME NEW c \in R PROVE c \in Reached(R)
    <3>1. c \in Ids
      BY DEF Erases
    <3> QED BY <3>1, Reach, ReachedNow, ReadsTypes, TypesAscend
  <2> QED BY <2>1, ReachedNow, ReachedAreIds
<1>3. /\ removed' = removed \cup Reached(R)
      /\ erased' = erased \cup R /\ held \subseteq held'
      /\ late' = late \cup (TextOf(Reached(R)) \cap UNION {item.text : item \in tracing})
      /\ traced' = {item \in traced : item.of \notin Reached(R)}
      /\ answers' = {a \in answers : ({a.of} \cup a.sources) \cap Reached(R) = {}}
      /\ UNCHANGED <<level, tracing, draft>>
  BY DEF Tombstoned, Scrubbed, Erases, Erase
<1>4. /\ \A n \in Ids : record'[n].kind = record[n].kind
      /\ \A n \in Ids \ Reached(R) : record'[n] = record[n]
      /\ \A n \in Reached(R) : record'[n].text = {} /\ record'[n].from \subseteq record[n].from
  BY DEF Erases
<1>5. \A m \in Ids : \A c : Accounts(m, c) => Accounts(m, c)'
  BY <1>3, <1>4 DEF Accounts
<1>6. ReadsTypeOK' /\ (erased \subseteq removed)'
  <2>1. /\ level' \in [Ids -> Levels] /\ removed' \subseteq Ids /\ traced' \subseteq TraceItem
        /\ tracing' \subseteq TraceItem /\ answers' \subseteq Answer /\ erased' \subseteq removed'
    BY <1>2, <1>3 DEF ReadsInv, ReadsTypeOK
  <2>2. late' \subseteq Ids
    <3>1. UNION {item.text : item \in tracing} \subseteq Ids
      BY ReadsTypes
    <3> QED BY <1>3, <3>1 DEF ReadsInv, ReadsTypeOK
  <2> QED BY <2>1, <2>2 DEF ReadsTypeOK
<1>7. Shaped'
  <2>1. \A n \in Ids : record[n].from \subseteq Ids
    BY ReadsTypes
  <2>2. \A n \in Ids : record'[n].from \subseteq record[n].from /\ record'[n].text \subseteq record[n].text
    BY <1>4
  <2> QED BY <1>4, <2>1, <2>2 DEF ReadsInv, Shaped
<1>8. Grounded'
  <2> SUFFICES ASSUME NEW n \in Ids, NEW c \in record'[n].text
               PROVE  record'[c].kind = "claim" /\ (record'[n].kind = "claim" \/ \E m \in Parents(n)' : Accounts(m, c)')
    BY DEF Grounded
  <2>1. record'[n] = record[n] /\ c \in record[n].text
    BY <1>4
  <2>2. c \in Ids /\ \A m \in Parents(n) : m \in Ids
    BY <2>1, ReadsTypes, ParentsAreIds
  <2>3. Parents(n)' = Parents(n)
    <3>1. \A m \in record[n].from : m \in Ids
      BY ReadsTypes
    <3> QED BY <1>4, <2>1, <3>1 DEF Parents
  <2> QED BY <1>4, <1>5, <2>1, <2>2, <2>3 DEF ReadsInv, Grounded
<1>9. DraftGrounded'
  <2>1. \A m \in draft.from \cup draft.text : m \in Ids
    BY ReadsTypes
  <2> QED BY <1>3, <1>4, <1>5, <2>1 DEF ReadsInv, DraftGrounded
<1>10. ItemsHold'
  <2> SUFFICES ASSUME NEW item \in traced' \cup tracing', NEW c \in item.text
               PROVE  Accounts(item.via, c)' /\ c \in held' \cup late' \cup record'[item.of].text
    BY DEF ItemsHold
  <2>1. item \in traced \cup tracing /\ item.of \in Ids /\ item.via \in Ids
    BY <1>3, ReadsTypes
  <2>2. Accounts(item.via, c)' /\ c \in held \cup late \cup record[item.of].text
    BY <1>5, <2>1 DEF ReadsInv, ItemsHold
  <2>3. CASE item.of \notin Reached(R)
    BY <1>3, <1>4, <2>1, <2>2, <2>3
  <2>4. CASE item.of \in Reached(R)
    <3>1. item \in tracing
      BY <1>3, <2>4
    <3>2. c \in record[item.of].text => c \in late'
      BY <1>3, <2>4, <3>1 DEF TextOf
    <3> QED BY <1>3, <2>2, <3>2
  <2> QED BY <2>3, <2>4
<1>11. AnswersHold'
  <2> SUFFICES ASSUME NEW a \in answers'
               PROVE  /\ a.text \subseteq a.sources /\ a.text \cap erased' = {}
                      /\ \A c \in a.text : record'[c].kind = "claim"
    BY DEF AnswersHold
  <2>1. a \in answers /\ a.text \subseteq Ids /\ a.sources \cap Reached(R) = {}
    BY <1>3, ReadsTypes
  <2> QED BY <1>2, <1>3, <1>4, <2>1 DEF ReadsInv, AnswersHold
<1> QED BY <1>1, <1>6, <1>7, <1>8, <1>9, <1>10, <1>11 DEF ReadsInv

\* Without scrubbing, more is removed and nothing else changes for readers.
LEMMA RetractionKeepsReads ==
    ASSUME ReadsInv, DerivationsInv', Restatus, NEW R, R \subseteq Ids, Tombstoned(R, FALSE)
    PROVE  ReadsInv'
<1>1. removed' = removed \cup R /\ UNCHANGED <<level, tracing, traced, answers, draft, erased, held>> /\ late' = late
  BY DEF Tombstoned, Restatus
<1>2. Shaped' /\ Grounded'
  BY <1>1, RestatusGrows, GrowthKeepsGrounds
<1>3. \A m \in Ids : /\ record'[m].kind = record[m].kind /\ record'[m].text = record[m].text
                     /\ \A c : Accounts(m, c) => Accounts(m, c)'
  BY <1>1 DEF Restatus, Accounts
<1>4. ReadsTypeOK' /\ (erased \subseteq removed)'
  BY <1>1 DEF ReadsInv, ReadsTypeOK
<1>5. DraftGrounded'
  <2>1. \A m \in draft.from \cup draft.text : m \in Ids
    BY ReadsTypes
  <2> QED BY <1>1, <1>3, <2>1 DEF ReadsInv, DraftGrounded
<1>6. ItemsHold'
  <2>1. \A item \in traced \cup tracing : item.of \in Ids /\ item.via \in Ids
    BY ReadsTypes
  <2> QED BY <1>1, <1>3, <2>1 DEF ReadsInv, ItemsHold
<1>7. AnswersHold'
  <2>1. \A a \in answers : a.text \subseteq Ids
    BY ReadsTypes
  <2> QED BY <1>1, <1>3, <2>1 DEF ReadsInv, AnswersHold
<1> QED BY <1>2, <1>4, <1>5, <1>6, <1>7 DEF ReadsInv

LEMMA DeletionKeepsReads ==
    ASSUME ReadsInv, NEW R \in SUBSET There, NEW scrub \in BOOLEAN, DeleteForReaders(R, scrub)
    PROVE  ReadsInv'
<1>1. DerivationsInv'
  BY DeleteKeeps DEF ReadsInv, DeleteForReaders
<1>2. CASE scrub
  <2>1. Tombstoned(R, TRUE) /\ Erases(R)
    BY <1>2, DeletionErases DEF ReadsInv, DeleteForReaders, Tombstoned
  <2> QED BY <2>1, ScrubbingKeepsReads
<1>3. CASE ~scrub
  <2>1. scrub = FALSE
    BY <1>3
  <2>2. Delete(R, FALSE) /\ Tombstoned(R, FALSE) /\ R \subseteq Ids
    BY <2>1 DEF DeleteForReaders, There
  <2> QED BY <1>1, <2>2, DeletionRestates, RetractionKeepsReads DEF ReadsInv
<1> QED BY <1>2, <1>3

LEMMA HardDeletionKeepsReads ==
    ASSUME ReadsInv, NEW c \in Ids, HardDeleteForReaders(c)
    PROVE  ReadsInv'
  BY HardDeletionErases, ScrubbingKeepsReads DEF ReadsInv, HardDeleteForReaders

\* What is in a snapshot at the moment it is taken.
LEMMA SnapshotsHold ==
    ASSUME ReadsInv, NEW n \in Ids, NEW item \in Snapshots(n)
    PROVE  /\ item \in TraceItem
           /\ \A c \in item.text : Accounts(item.via, c) /\ c \in record[item.of].text
<1>1. record[n].from \subseteq Ids /\ record[n].text \subseteq Ids
  BY ReadsTypes
<1>2. item.of = n /\ item.text = record[n].text /\ item.via \in {n} \cup {i \in record[n].from : record[n].kind = "derived"}
  BY DEF Snapshots
<1>3. item \in TraceItem
  BY <1>1 DEF Snapshots, TraceItem
<1>4. ASSUME NEW c \in record[n].text PROVE Accounts(item.via, c)
  <2>1. CASE item.via = n
    BY <2>1 DEF Accounts
  <2>2. CASE item.via \in record[n].from /\ record[n].kind = "derived"
    <3>1. PICK m \in Parents(n) : Accounts(m, c)
      BY <2>2 DEF ReadsInv, Grounded
    <3>2. m = item.via
      BY <2>2, <3>1 DEF ReadsInv, Shaped, Parents
    <3> QED BY <3>1, <3>2
  <2> QED BY <1>2, <2>1, <2>2
<1> QED BY <1>2, <1>3, <1>4

\* Steps of readers leave memory alone.
LEMMA MemoryKeeps ==
    ASSUME ReadsInv, UNCHANGED <<derivationVars, removed>>
    PROVE  DerivationsInv' /\ Shaped' /\ Grounded' /\ DraftGrounded' /\ (erased \subseteq removed)'
<1>1. DerivationsInv'
  BY DerivationsStep DEF ReadsInv, derivationVars
<1>2. Grows
  BY DEF Grows, derivationVars
<1>3. Shaped' /\ Grounded'
  BY <1>1, <1>2, GrowthKeepsGrounds
<1>4. DraftGrounded'
  BY DEF ReadsInv, DraftGrounded, Accounts, derivationVars
<1> QED BY <1>1, <1>3, <1>4 DEF ReadsInv, derivationVars

LEMMA TracingKeepsReads ==
    ASSUME ReadsInv, NEW items, \A item \in items : \E n \in Ids : item \in Snapshots(n),
           UNCHANGED <<derivationVars, level, removed, answers, late>>,
           traced' \subseteq traced \cup tracing \cup items, tracing' \subseteq tracing \cup items
    PROVE  ReadsInv'
<1>1. \A item \in items : /\ item \in TraceItem
                          /\ \A c \in item.text : Accounts(item.via, c) /\ c \in record[item.of].text
  BY SnapshotsHold
<1>2. ReadsTypeOK'
  BY <1>1 DEF ReadsInv, ReadsTypeOK
<1>3. ItemsHold'
  <2> SUFFICES ASSUME NEW item \in traced' \cup tracing', NEW c \in item.text
               PROVE  Accounts(item.via, c) /\ c \in held \cup late \cup record[item.of].text
    BY DEF ItemsHold, Accounts, derivationVars
  <2> QED BY <1>1 DEF ReadsInv, ItemsHold
<1>4. AnswersHold'
  BY DEF ReadsInv, AnswersHold, derivationVars
<1> QED BY <1>2, <1>3, <1>4, MemoryKeeps DEF ReadsInv

LEMMA RaiseLevelKeeps == ASSUME ReadsInv, NEW c \in Ids, RaiseLevel(c) PROVE ReadsInv'
<1>1. UNCHANGED <<derivationVars, removed, traced, tracing, answers, late>>
  BY DEF RaiseLevel
<1>2. ReadsTypeOK'
  <2>1. level' \in [Ids -> Levels]
    <3>1. level[c] \in Nat /\ level[c] < MaxLevel /\ level[c] \in Levels
      BY DEF RaiseLevel, ReadsInv, ReadsTypeOK, Levels
    <3>2. level[c] + 1 \in Levels
      BY <3>1, ReadsAssumption DEF Levels
    <3> QED BY <3>2 DEF RaiseLevel, ReadsInv, ReadsTypeOK
  <2> QED BY <1>1, <2>1 DEF ReadsInv, ReadsTypeOK
<1>3. ItemsHold' /\ AnswersHold'
  BY <1>1 DEF ReadsInv, ItemsHold, AnswersHold, Accounts, derivationVars
<1> QED BY <1>1, <1>2, <1>3, MemoryKeeps DEF ReadsInv

LEMMA StoreAnswerKeeps == ASSUME ReadsInv, NEW n \in Ids, NEW k \in Levels, StoreAnswer(n, k) PROVE ReadsInv'
<1>1. /\ UNCHANGED <<derivationVars, level, removed, traced, tracing, late>>
      /\ n \in Allowed(k)
  BY DEF StoreAnswer
<1>2. PICK own \in IF record[n].kind = "claim" THEN {{}} ELSE {{}, {n}} :
        answers' = answers \cup {[of |-> n, ceiling |-> k, sources |-> Asked(n) \ own, text |-> record[n].text]}
  BY DEF StoreAnswer
<1> DEFINE a == [of |-> n, ceiling |-> k, sources |-> Asked(n) \ own, text |-> record[n].text]
<1>3. a \in Answer
  BY ReadsTypes DEF Answer, Asked
<1>4. ASSUME NEW c \in record[n].text PROVE c \in Asked(n) \ own /\ c \notin erased /\ record[c].kind = "claim"
  <2>1. n \in Reached({c}) /\ c \in Ids /\ c \notin removed
    BY <1>1, AllowedWording
  <2>2. record[c].kind = "claim"
    BY DEF ReadsInv, Grounded
  <2> QED BY <2>1, <2>2 DEF Asked, ReadsInv
<1>5. a.text \subseteq a.sources /\ a.text \cap erased = {} /\ \A c \in a.text : record[c].kind = "claim"
  BY <1>4
<1> HIDE DEF a
<1>6. answers' = answers \cup {a}
  BY <1>2 DEF a
<1>7. ReadsTypeOK' /\ AnswersHold'
  BY <1>1, <1>3, <1>5, <1>6 DEF ReadsInv, ReadsTypeOK, AnswersHold, derivationVars
<1>8. ItemsHold'
  BY <1>1 DEF ReadsInv, ItemsHold, Accounts, derivationVars
<1> QED BY <1>1, <1>7, <1>8, MemoryKeeps DEF ReadsInv

LEMMA ReadsStart == ReadsInit => ReadsInv
<1> SUFFICES ASSUME ReadsInit PROVE ReadsInv
  OBVIOUS
<1>1. DerivationsInv
  BY DerivationsStart DEF ReadsInit
<1>2. ReadsTypeOK
  BY ReadsAssumption DEF ReadsInit, ReadsTypeOK, Levels
<1>3. Shaped /\ Grounded /\ DraftGrounded
  BY DEF ReadsInit, DerivationsInit, NoRecord, NoDraft, Shaped, Grounded, DraftGrounded
<1>4. erased \subseteq removed /\ ItemsHold /\ AnswersHold
  BY DEF ReadsInit, DerivationsInit, ItemsHold, AnswersHold
<1> QED BY <1>1, <1>2, <1>3, <1>4 DEF ReadsInv

LEMMA ReadsSteps == ASSUME ReadsInv, [ReadsNext]_<<derivationVars, readsVars>> PROVE ReadsInv'
<1>1. ASSUME NEW n \in Ids, NEW k \in Levels, Trace(n, k) PROVE ReadsInv'
  <2>1. PICK item \in Snapshots(n) : traced' = traced \cup {item}
    BY <1>1 DEF Trace
  <2> QED BY <1>1, <2>1, TracingKeepsReads DEF Trace
<1>2. ASSUME NEW n \in Ids, ReadForTrace(n) PROVE ReadsInv'
  <2>1. PICK item \in Snapshots(n) : tracing' = {item}
    BY <1>2 DEF ReadForTrace
  <2> QED BY <1>2, <2>1, TracingKeepsReads DEF ReadForTrace
<1>3. CASE StoreTrace
  <2>1. \A item \in {} : \E n \in Ids : item \in Snapshots(n)
    OBVIOUS
  <2> QED BY <1>3, <2>1, TracingKeepsReads DEF StoreTrace
<1>4. CASE UNCHANGED <<derivationVars, readsVars>>
  <2>1. \A item \in {} : \E n \in Ids : item \in Snapshots(n)
    OBVIOUS
  <2> QED BY <1>4, <2>1, TracingKeepsReads DEF readsVars
<1> QED BY <1>1, <1>2, <1>3, <1>4, RaiseLevelKeeps, StoreAnswerKeeps, DeletionKeepsReads, HardDeletionKeepsReads,
           RememberingKeepsReads DEF ReadsNext, ReadsStep

LEMMA ReadsAlways == ReadsSpec => []ReadsInv
  BY ReadsStart, ReadsSteps, PTL DEF ReadsSpec

\* Readers see only wording of claims within their ceilings that were not
\* redacted or deleted: in memory, in traces and in repeated answers, for any
\* number of records and levels.
THEOREM ReadersAreConfined == ReadsSpec => []ReadersStayWithinCeilings
  BY ReadsAlways, ReadersAreWithin, PTL

\* Deletions find every trace and every stored answer that holds the wording
\* of what they erase, but for what an unfinished library method holds.
THEOREM TracesForget == ReadsSpec => []ErasedTextLeavesTraces
  BY ReadsAlways, TracesAreErased, PTL

\* Readers and their traces add nothing to what memory itself may do.
THEOREM ReadersOnlyRead == ReadsSpec => DerivationsSpec
<1>1. ReadsInit => DerivationsInit
  BY DEF ReadsInit
<1>2. [ReadsNext]_<<derivationVars, readsVars>> => [DerivationsNext]_derivationVars
  BY DEF ReadsNext, ReadsStep, DerivationsNext, RaiseLevel, ReadForTrace, Trace, StoreAnswer, StoreTrace,
         DeleteForReaders, HardDeleteForReaders
<1> QED BY <1>1, <1>2, PTL DEF ReadsSpec, DerivationsSpec
=============================================================================
