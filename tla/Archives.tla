----------------------------- MODULE Archives -----------------------------
(***************************************************************************)
(* Logical archives of a source database and their import into another    *)
(* one.  A logical backup reads one table after the other, without a       *)
(* transaction: other processes may write in between.  An import is one    *)
(* transaction, which fails as a whole or maps every imported object of    *)
(* the source to a new local copy, by its source key.                      *)
(*                                                                         *)
(* One namespace of the source is imported into one namespace.  Archives   *)
(* are authentic and complete files; verification and encryption, which    *)
(* refuse other ones before anything is read, are left out.                *)
(***************************************************************************)
EXTENDS Naturals, FiniteSets

CONSTANTS
    Evidence,     \* evidence events of the source
    SourceClaims, \* claims of the source
    Uses,         \* the evidence each claim cites
    MaxArchives   \* bound: archives taken

\* A claim links to at least one event.
ASSUME ArchivesAssumption ==
    /\ Uses \in [SourceClaims -> SUBSET Evidence]
    /\ \A c \in SourceClaims : Uses[c] # {}
    /\ Evidence \cap SourceClaims = {}
    /\ MaxArchives \in Nat

Objects == Evidence \cup SourceClaims

VARIABLES
    row,       \* the source's evidence_events and claims
    notice,    \* the source's deletion_tombstones
    reading,   \* a logical backup between two of its tables
    archives,  \* the archives taken
    copy,      \* the target's copies of the source's objects
    mapped,    \* source_mappings: the state of the object that was imported
    made,      \* ghost: copies made of each object
    told       \* ghost: copies the target had when an archive announced a deletion

archiveVars == <<row, notice, reading, archives, copy, mapped, made, told>>

\* A claim is edited: its status, confidence or importance changes.  A
\* redacted row is kept, a deleted one is gone.
Rows == {"none", "first", "edited", "redacted", "deleted"}

\* "removed" copies carry a tombstone of their own; "withdrawn" ones were
\* archived because their evidence got one.
Copies == {"none", "present", "withdrawn", "removed"}

Archive == [rows : [Objects -> Rows], links : SUBSET (SourceClaims \X Evidence),
            notices : SUBSET Objects, torn : BOOLEAN]
NotReading == [next |-> "none"]

ArchivesInit ==
    /\ row = [o \in Objects |-> "none"] /\ notice = {}
    /\ reading = NotReading /\ archives = {}
    /\ copy = [o \in Objects |-> "none"]
    /\ mapped = [o \in Objects |-> "none"]
    /\ made = [o \in Objects |-> 0] /\ told = {}

-----------------------------------------------------------------------------
(* The source.                                                             *)

HasRow(o) == row[o] \in {"first", "edited", "redacted"}
CitedBy(S) == {c \in SourceClaims : Uses[c] \cap S # {} /\ HasRow(c)}

\* The rows of the backup that is being read are no snapshot any more.
SourceWrites(rows, notices) ==
    /\ row' = rows /\ notice' = notices
    /\ reading' = IF reading = NotReading \/ (rows = row /\ notices = notice)
                  THEN reading ELSE [reading EXCEPT !.torn = TRUE]
    /\ UNCHANGED <<archives, copy, mapped, made, told>>

\* An event is identified by its content.  A deleted one can come in again as
\* the same event, and so can a redacted one, at a stricter level.
Again(o) == o \in Evidence /\ row[o] \in {"redacted", "deleted"}

Create(o) ==
    /\ row[o] = "none" \/ Again(o)
    /\ o \in SourceClaims => \A e \in Uses[o] : HasRow(e)
    /\ SourceWrites([row EXCEPT ![o] = "first"], notice)

Edit(c) ==
    /\ row[c] = "first"
    /\ SourceWrites([row EXCEPT ![c] = "edited"], notice)

\* A mutated form of Erase: the claims that cite the evidence stay.
EraseAlone(o, mode) ==
    /\ HasRow(o)
    /\ SourceWrites([row EXCEPT ![o] = mode], notice \cup {o})

\* redact, and forget by hard deletion: claims that cite the evidence are
\* redacted with it, each with a tombstone of its own.
Erase(o, mode) ==
    /\ HasRow(o)
    /\ SourceWrites([p \in Objects |-> IF p = o THEN mode ELSE IF p \in CitedBy({o}) THEN "redacted" ELSE row[p]],
                    notice \cup {o} \cup CitedBy({o}))

-----------------------------------------------------------------------------
(* Logical backups.                                                        *)

Links == {l \in SourceClaims \X Evidence : l[2] \in Uses[l[1]] /\ HasRow(l[1]) /\ HasRow(l[2])}
RowsOf(S) == [o \in Objects |-> IF o \in S /\ HasRow(o) THEN row[o] ELSE "none"]

ReadEvidence ==
    /\ reading = NotReading /\ Cardinality(archives) < MaxArchives
    /\ reading' = [next |-> "claims", rows |-> RowsOf(Evidence), links |-> {}, torn |-> FALSE]
    /\ UNCHANGED <<row, notice, archives, copy, mapped, made, told>>

ReadClaims ==
    /\ reading.next = "claims"
    /\ reading' = [reading EXCEPT !.next = "links",
                                  !.rows = [o \in Objects |-> IF o \in SourceClaims THEN RowsOf(SourceClaims)[o] ELSE @[o]]]
    /\ UNCHANGED <<row, notice, archives, copy, mapped, made, told>>

ReadLinks ==
    /\ reading.next = "links"
    /\ reading' = [reading EXCEPT !.next = "notices", !.links = Links]
    /\ UNCHANGED <<row, notice, archives, copy, mapped, made, told>>

\* Tombstones are the last table, so that they cover the rows read before.
ReadNotices ==
    /\ reading.next = "notices"
    /\ archives' = archives \cup {[rows |-> reading.rows, links |-> reading.links,
                                   notices |-> notice, torn |-> reading.torn]}
    /\ reading' = NotReading
    /\ UNCHANGED <<row, notice, copy, mapped, made, told>>

-----------------------------------------------------------------------------
(* Imports.                                                                *)

In(a, o) == a.rows[o] # "none"
SourcesIn(a, c) == {e \in Evidence : <<c, e>> \in a.links}

\* A mutated form of Announced: only what the archive still carries.
AnnouncedRows(a) == {o \in a.notices : In(a, o) /\ mapped[o] # "none" /\ copy[o] # "removed"}

\* Copies of objects whose deletion the archive announces are redacted, with
\* the local claims that cite them.
Announced(a) == {o \in a.notices : mapped[o] # "none" /\ copy[o] # "removed"}
CopiesCiting(S) == {c \in SourceClaims : copy[c] # "none" /\ Uses[c] \cap S # {}}
Redacted(a) == Announced(a) \cup CopiesCiting(Announced(a))
Removed(a, o) == copy[o] = "removed" \/ o \in Redacted(a)

\* Neither what the source deleted nor what was deleted here comes in, nor a
\* claim that rests on it.
BlockedEvidence(a) == {e \in Evidence : In(a, e) /\ (e \in a.notices \/ (mapped[e] # "none" /\ Removed(a, e)))}
\* A mutated form of BlockedClaim: the claim's own tombstones only.
BlockedByItself(a, c) == c \in a.notices \/ (mapped[c] # "none" /\ Removed(a, c))

BlockedClaim(a, c) ==
    \/ c \in a.notices
    \/ SourcesIn(a, c) \cap BlockedEvidence(a) # {}
    \/ mapped[c] # "none" /\ Removed(a, c)

Offered(a) == {e \in Evidence : In(a, e) /\ e \notin BlockedEvidence(a)}
              \cup {c \in SourceClaims : In(a, c) /\ ~BlockedClaim(a, c)}

\* A changed source is refused, and so is an archive with a link to a row it
\* lacks or a claim without sources.
Complete(a) ==
    /\ \A l \in a.links : In(a, l[1]) /\ In(a, l[2])
    /\ \A c \in SourceClaims : In(a, c) /\ c \notin a.notices => SourcesIn(a, c) # {}
Unchanged(a) == \A o \in Offered(a) : mapped[o] # "none" => mapped[o] = a.rows[o]

\* What is new to the target.
Fresh(a) == {o \in Offered(a) : mapped[o] = "none"}

Acceptable(a) ==
    /\ \E o \in Objects : In(a, o) \/ o \in a.notices
    /\ Complete(a) /\ Unchanged(a)

Import(a) ==
    /\ Acceptable(a)
    /\ copy' = [o \in Objects |-> CASE o \in Redacted(a) -> "removed"
                                    [] o \in Fresh(a) -> "present"
                                    [] OTHER -> copy[o]]
    /\ mapped' = [o \in Objects |-> IF o \in Fresh(a) THEN a.rows[o] ELSE mapped[o]]
    /\ made' = [o \in Objects |-> IF o \in Fresh(a) THEN made[o] + 1 ELSE made[o]]
    /\ told' = told \cup {o \in a.notices : mapped[o] # "none"}
    /\ UNCHANGED <<row, notice, reading, archives>>

\* The owner of the target redacts or deletes a copy.
RemoveCopy(o) ==
    /\ copy[o] \in {"present", "withdrawn"}
    /\ copy' = [p \in Objects |-> IF p = o \/ p \in CopiesCiting({o}) THEN "removed" ELSE copy[p]]
    /\ UNCHANGED <<row, notice, reading, archives, mapped, made, told>>

\* Forgetting by tombstone leaves one for the object itself only.
BuryCopy(o) ==
    /\ copy[o] = "present"
    /\ copy' = [p \in Objects |-> IF p = o THEN "removed"
                                  ELSE IF p \in CopiesCiting({o}) /\ copy[p] = "present" THEN "withdrawn"
                                  ELSE copy[p]]
    /\ UNCHANGED <<row, notice, reading, archives, mapped, made, told>>

\* What the routes of exports and imports offer, between edits and deletions.
ArchivesNext ==
    \/ \E o \in Objects : \/ Create(o) \/ Erase(o, "redacted") \/ Erase(o, "deleted")
                          \/ RemoveCopy(o) \/ BuryCopy(o)
    \/ \E c \in SourceClaims : Edit(c)
    \/ ReadEvidence \/ ReadClaims \/ ReadLinks \/ ReadNotices
    \/ \E a \in archives : Import(a)

ArchivesSpec == ArchivesInit /\ [][ArchivesNext]_archiveVars

-----------------------------------------------------------------------------
(* Properties.                                                             *)

\* Whatever archives are imported, in any order and any number of times,
\* before and after deletions on both sides: an object of the source gets one
\* copy at most, so that a deleted one never returns as a new copy.
OneCopyOfEach == \A o \in Objects : made[o] <= 1

\* A copy the target had when an archive announced that the source deleted
\* the object is removed, also by an archive that does not carry the row.
SourceDeletionsArrive == \A o \in told : copy[o] = "removed"

\* No imported claim is in service without its evidence, or after one of the
\* events it cites was removed from the target.
ClaimsKeepTheirEvidence ==
    \A c \in SourceClaims : copy[c] = "present" => \A e \in Uses[c] : copy[e] = "present"

\* An archive taken while nobody wrote is accepted by a fresh database,
\* whatever was redacted and deleted in the source before.  One that was read
\* around another process' writes can be refused, though it verifies.
ArchivesAreComplete == \A a \in archives : ~a.torn => Complete(a)
=============================================================================
