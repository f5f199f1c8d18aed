---------------------------- MODULE StorageProofs ----------------------------
(***************************************************************************)
(* Proofs about Archives, Protection and Databases, for every number of    *)
(* objects, archives, keys, events, claims, files, writes and processes.   *)
(*                                                                         *)
(* Archives: what has been read of the source so far, and what the rest of *)
(* it will add, together link every claim to its evidence or announce that *)
(* one of them is gone.  Keys: once a library has found a key unused, what *)
(* it seals came later.  Indexes: what is indexed is the text of a claim   *)
(* in service.  Databases: a write that no copy has is in a file that no   *)
(* restore is about to replace; no two files, and no file and no copy that *)
(* is to replace one, share a generation.                                  *)
(***************************************************************************)
EXTENDS Protection, Archives, Databases, TLAPS

-----------------------------------------------------------------------------
(* Archives and their imports.                                             *)

LiveRows == {"first", "edited", "redacted"}

ReadArchive == [next : {"claims", "links", "notices"}, rows : [Objects -> Rows],
                links : SUBSET (SourceClaims \X Evidence), torn : BOOLEAN]

ArchivesTypeOK ==
    /\ row \in [Objects -> Rows] /\ notice \in SUBSET Objects
    /\ reading \in ReadArchive \cup {NotReading}
    /\ archives \in SUBSET Archive
    /\ copy \in [Objects -> Copies] /\ mapped \in [Objects -> Rows]
    /\ made \in [Objects -> Nat] /\ told \in SUBSET Objects

\* The source: what is erased is announced, and a claim that is not has its
\* evidence.
SourceSound ==
    /\ \A o \in Objects : row[o] \in {"redacted", "deleted"} => o \in notice
    /\ \A c \in SourceClaims : row[c] \in {"first", "edited"} => \A e \in Uses[c] : HasRow(e)

\* A claim of an archive that it does not announce as erased comes with a link
\* to each event it cites, whoever wrote while the archive was read.
ClaimsAreLinked(rows, links, notices) ==
    \A c \in SourceClaims : rows[c] # "none" /\ c \notin notices => \A e \in Uses[c] : <<c, e>> \in links

\* The tables that a backup has read: what was not erased since is still there;
\* and while nobody wrote, they are as they were read.
ReadingSound ==
    /\ reading.next \in {"links", "notices"} =>
         \A c \in SourceClaims : reading.rows[c] # "none" /\ c \notin notice => row[c] \in {"first", "edited"}
    /\ reading.next = "notices" => ClaimsAreLinked(reading.rows, reading.links, notice)
    /\ reading # NotReading /\ ~reading.torn =>
         /\ \A e \in Evidence : reading.rows[e] = RowsOf(Evidence)[e]
         /\ reading.next \in {"links", "notices"} =>
              \A c \in SourceClaims : reading.rows[c] = RowsOf(SourceClaims)[c]
         /\ reading.next = "notices" => reading.links = Links

ArchivesSound ==
    \A a \in archives : /\ ClaimsAreLinked(a.rows, a.links, a.notices)
                        /\ ~a.torn => Complete(a)

\* The target: its copies are of what is mapped, once, and only claims are
\* withdrawn.
TargetSound ==
    /\ \A o \in Objects : copy[o] = "none" <=> mapped[o] = "none"
    /\ \A o \in Objects : made[o] = IF mapped[o] = "none" THEN 0 ELSE 1
    /\ \A e \in Evidence : copy[e] # "withdrawn"
    /\ SourceDeletionsArrive
    /\ ClaimsKeepTheirEvidence

SourceInv == ArchivesTypeOK /\ SourceSound /\ ReadingSound /\ ArchivesSound

ArchivesInv == SourceInv /\ TargetSound

\* Nothing is stored, archived or imported yet.
LEMMA ArchivesInitInv == ArchivesInit => ArchivesInv
<1> SUFFICES ASSUME ArchivesInit PROVE ArchivesInv
  OBVIOUS
<1> USE DEF ArchivesInit
<1>1. ArchivesTypeOK
  BY DEF ArchivesTypeOK, Rows, Copies
<1>2. SourceSound /\ ReadingSound /\ ArchivesSound
  BY DEF SourceSound, ReadingSound, ArchivesSound, NotReading, Objects
<1>3. TargetSound
  BY DEF TargetSound, SourceDeletionsArrive, ClaimsKeepTheirEvidence, Objects
<1> QED BY <1>1, <1>2, <1>3 DEF ArchivesInv, SourceInv

\* A write of the source, whatever is being read around it.
LEMMA SourceWriteStep ==
    ASSUME ArchivesInv, NEW rows \in [Objects -> Rows], NEW notices \in SUBSET Objects,
           SourceWrites(rows, notices), notice \subseteq notices,
           \A o \in Objects : rows[o] \in {"redacted", "deleted"} => o \in notices,
           \A c \in SourceClaims : rows[c] \in {"first", "edited"} =>
               \A e \in Uses[c] : rows[e] \in LiveRows,
           \A c \in SourceClaims : row[c] \in {"first", "edited"} /\ c \notin notices => rows[c] \in {"first", "edited"}
    PROVE  ArchivesInv'
<1>1. row' = rows /\ notice' = notices /\ UNCHANGED <<archives, copy, mapped, made, told>>
  BY DEF SourceWrites
<1>2. \/ reading' = reading /\ (reading = NotReading \/ (rows = row /\ notices = notice))
      \/ reading # NotReading /\ reading' = [reading EXCEPT !.torn = TRUE]
  BY DEF SourceWrites
<1>3. reading \in ReadArchive \cup {NotReading}
  BY DEF ArchivesInv, SourceInv, ArchivesTypeOK
<1>4. ArchivesTypeOK'
  <2>1. reading' \in ReadArchive \cup {NotReading}
    BY <1>2, <1>3 DEF ReadArchive
  <2> QED BY <1>1, <2>1 DEF ArchivesInv, SourceInv, ArchivesTypeOK
<1>5. SourceSound'
  BY <1>1 DEF SourceSound, HasRow, LiveRows
<1>6. ReadingSound'
  <2>1. CASE reading' = reading /\ reading = NotReading
    BY <2>1 DEF ReadingSound, NotReading
  <2>2. CASE UNCHANGED <<reading, row, notice>>
    BY <2>2 DEF ArchivesInv, SourceInv, ReadingSound, RowsOf, Links, HasRow
  <2>3. CASE reading # NotReading /\ reading' = [reading EXCEPT !.torn = TRUE]
    <3>1. reading' # NotReading /\ reading'.torn /\ reading'.next = reading.next
          /\ reading'.rows = reading.rows /\ reading'.links = reading.links
      BY <1>3, <2>3 DEF ReadArchive, NotReading
    <3> QED BY <1>1, <3>1 DEF ArchivesInv, SourceInv, ReadingSound, ClaimsAreLinked
  <2> QED BY <1>1, <1>2, <2>1, <2>2, <2>3
<1>7. ArchivesSound' /\ TargetSound'
  BY <1>1 DEF ArchivesInv, ArchivesSound, SourceInv, Complete, In, SourcesIn, TargetSound, SourceDeletionsArrive,
              ClaimsKeepTheirEvidence
<1> QED BY <1>4, <1>5, <1>6, <1>7 DEF ArchivesInv, SourceInv

\* Every change of the source keeps what is being read, and what was archived, sound.
LEMMA SourceStep ==
    ASSUME ArchivesInv,
           \/ \E o \in Objects : Create(o) \/ Erase(o, "redacted") \/ Erase(o, "deleted")
           \/ \E c \in SourceClaims : Edit(c)
    PROVE  ArchivesInv'
<1>0. ArchivesTypeOK /\ SourceSound
  BY DEF ArchivesInv, SourceInv
<1>1. ASSUME NEW o \in Objects, Create(o) PROVE ArchivesInv'
  <2> DEFINE rows == [row EXCEPT ![o] = "first"]
  <2>1. rows \in [Objects -> Rows] /\ (o \in SourceClaims => row[o] = "none") /\ SourceWrites(rows, notice)
    BY <1>0, <1>1, ArchivesAssumption DEF ArchivesTypeOK, Rows, Create, Again
  <2>2. \A p \in Objects : rows[p] = IF p = o THEN "first" ELSE row[p]
    BY <1>0 DEF ArchivesTypeOK
  <2> HIDE DEF rows
  <2>3. \A c \in SourceClaims : rows[c] \in {"first", "edited"} => \A e \in Uses[c] : rows[e] \in LiveRows
    <3> SUFFICES ASSUME NEW c \in SourceClaims, rows[c] \in {"first", "edited"}, NEW e \in Uses[c]
                 PROVE  rows[e] \in LiveRows
      OBVIOUS
    <3>1. c \in Objects /\ e \in Objects
      BY ArchivesAssumption DEF Objects
    <3>2. c = o => HasRow(e)
      BY <1>1 DEF Create
    <3>3. c # o => HasRow(e)
      BY <1>0, <2>2, <3>1 DEF SourceSound
    <3> QED BY <2>2, <3>1, <3>2, <3>3 DEF HasRow, LiveRows
  <2>4. \A p \in Objects : rows[p] \in {"redacted", "deleted"} => p \in notice
    BY <1>0, <2>2 DEF SourceSound
  <2>5. \A c \in SourceClaims : row[c] \in {"first", "edited"} => rows[c] \in {"first", "edited"}
    BY <2>1, <2>2 DEF Objects
  <2> QED BY <1>0, <2>1, <2>3, <2>4, <2>5, SourceWriteStep DEF ArchivesTypeOK
<1>2. ASSUME NEW c \in SourceClaims, Edit(c) PROVE ArchivesInv'
  <2> DEFINE rows == [row EXCEPT ![c] = "edited"]
  <2>1. rows \in [Objects -> Rows] /\ row[c] = "first" /\ SourceWrites(rows, notice)
    BY <1>0, <1>2 DEF ArchivesTypeOK, Rows, Edit, Objects
  <2>2. \A p \in Objects : rows[p] = IF p = c THEN "edited" ELSE row[p]
    BY <1>0 DEF ArchivesTypeOK
  <2> HIDE DEF rows
  <2>3. \A d \in SourceClaims : rows[d] \in {"first", "edited"} => \A e \in Uses[d] : rows[e] \in LiveRows
    <3> SUFFICES ASSUME NEW d \in SourceClaims, rows[d] \in {"first", "edited"}, NEW e \in Uses[d]
                 PROVE  rows[e] \in LiveRows
      OBVIOUS
    <3>1. d \in Objects /\ e \in Objects
      BY ArchivesAssumption DEF Objects
    <3>2. HasRow(e)
      BY <1>0, <2>1, <2>2, <3>1 DEF SourceSound
    <3> QED BY <2>2, <3>1, <3>2 DEF HasRow, LiveRows
  <2>4. \A p \in Objects : rows[p] \in {"redacted", "deleted"} => p \in notice
    BY <1>0, <2>2 DEF SourceSound
  <2>5. \A d \in SourceClaims : row[d] \in {"first", "edited"} => rows[d] \in {"first", "edited"}
    BY <2>1, <2>2 DEF Objects
  <2> QED BY <1>0, <2>1, <2>3, <2>4, <2>5, SourceWriteStep DEF ArchivesTypeOK
<1>3. ASSUME NEW o \in Objects, NEW mode \in {"redacted", "deleted"}, Erase(o, mode) PROVE ArchivesInv'
  <2> DEFINE rows == [p \in Objects |-> IF p = o THEN mode ELSE IF p \in CitedBy({o}) THEN "redacted" ELSE row[p]]
             notices == notice \cup {o} \cup CitedBy({o})
  <2>1. rows \in [Objects -> Rows] /\ notices \in SUBSET Objects /\ SourceWrites(rows, notices)
    BY <1>0, <1>3 DEF ArchivesTypeOK, Rows, Erase, CitedBy, Objects
  <2>2. \A p \in Objects : rows[p] = IF p = o THEN mode ELSE IF p \in CitedBy({o}) THEN "redacted" ELSE row[p]
    OBVIOUS
  <2>3. notice \subseteq notices /\ o \in notices /\ CitedBy({o}) \subseteq notices
    OBVIOUS
  <2> HIDE DEF rows, notices
  <2>4. \A d \in SourceClaims : rows[d] \in {"first", "edited"} => \A e \in Uses[d] : rows[e] \in LiveRows
    <3> SUFFICES ASSUME NEW d \in SourceClaims, rows[d] \in {"first", "edited"}, NEW e \in Uses[d]
                 PROVE  rows[e] \in LiveRows
      OBVIOUS
    <3>1. d \in Objects /\ e \in Objects /\ e \notin SourceClaims
      BY ArchivesAssumption DEF Objects
    <3>2. row[d] \in {"first", "edited"} /\ d \notin CitedBy({o})
      BY <2>2, <3>1
    <3>3. HasRow(e) /\ HasRow(d)
      BY <1>0, <3>2 DEF SourceSound, HasRow
    <3>4. e # o
      BY <3>2, <3>3 DEF CitedBy
    <3>5. e \notin CitedBy({o})
      BY <3>1 DEF CitedBy
    <3> QED BY <2>2, <3>1, <3>3, <3>4, <3>5 DEF HasRow, LiveRows
  <2>5. \A p \in Objects : rows[p] \in {"redacted", "deleted"} => p \in notices
    BY <1>0, <2>2, <2>3 DEF SourceSound
  <2>6. \A d \in SourceClaims : row[d] \in {"first", "edited"} /\ d \notin notices => rows[d] \in {"first", "edited"}
    BY <2>2, <2>3 DEF Objects
  <2> QED BY <2>1, <2>3, <2>4, <2>5, <2>6, SourceWriteStep
<1> QED BY <1>1, <1>2, <1>3

\* A step of a backup changes nothing that the source or the target holds.
LEMMA BackupRest ==
    ASSUME ArchivesInv, UNCHANGED <<row, notice, copy, mapped, made, told>>,
           reading' \in ReadArchive \cup {NotReading}, archives' \in SUBSET Archive, ReadingSound', ArchivesSound'
    PROVE  ArchivesInv'
BY DEF ArchivesInv, SourceInv, ArchivesTypeOK, SourceSound, HasRow, TargetSound, SourceDeletionsArrive,
       ClaimsKeepTheirEvidence

\* What the tables read so far say, and what the rest of them will.
LEMMA BackupStep ==
    ASSUME ArchivesInv, ReadEvidence \/ ReadClaims \/ ReadLinks \/ ReadNotices
    PROVE  ArchivesInv'
<1>0. ArchivesTypeOK /\ SourceSound /\ ReadingSound /\ ArchivesSound
  BY DEF ArchivesInv, SourceInv
<1>1. reading \in ReadArchive \cup {NotReading} /\ archives \in SUBSET Archive /\ row \in [Objects -> Rows]
      /\ notice \in SUBSET Objects
  BY <1>0 DEF ArchivesTypeOK
<1>2. ASSUME NEW S PROVE RowsOf(S) \in [Objects -> Rows]
  BY <1>1 DEF RowsOf, Rows
<1>3. Links \in SUBSET (SourceClaims \X Evidence)
  BY DEF Links
<1>4. UNCHANGED archives => ArchivesSound'
  BY <1>0 DEF ArchivesSound, Complete, In, SourcesIn
<1>5. CASE ReadEvidence
  <2>1. reading' = [next |-> "claims", rows |-> RowsOf(Evidence), links |-> {}, torn |-> FALSE]
        /\ UNCHANGED <<row, notice, archives, copy, mapped, made, told>>
    BY <1>5 DEF ReadEvidence
  <2>2. reading' \in ReadArchive
    BY <1>2, <2>1 DEF ReadArchive
  <2>3. ReadingSound'
    BY <2>1 DEF ReadingSound, RowsOf, HasRow
  <2> QED BY <1>1, <1>4, <2>1, <2>2, <2>3, BackupRest
<1>6. CASE ReadClaims
  <2> DEFINE rows == [o \in Objects |-> IF o \in SourceClaims THEN RowsOf(SourceClaims)[o] ELSE reading.rows[o]]
  <2>1. reading \in ReadArchive /\ reading.next = "claims"
    BY <1>1, <1>6 DEF ReadClaims, NotReading
  <2>2. reading' = [reading EXCEPT !.next = "links", !.rows = rows]
        /\ UNCHANGED <<row, notice, archives, copy, mapped, made, told>>
    BY <1>6 DEF ReadClaims
  <2>3. rows \in [Objects -> Rows]
    BY <1>2, <2>1 DEF ReadArchive
  <2>4. /\ \A c \in SourceClaims : rows[c] = RowsOf(SourceClaims)[c]
        /\ \A e \in Evidence : rows[e] = reading.rows[e]
    BY ArchivesAssumption DEF Objects
  <2> HIDE DEF rows
  <2>5. reading' \in ReadArchive /\ reading'.next = "links" /\ reading'.rows = rows /\ reading'.torn = reading.torn
    BY <2>1, <2>2, <2>3 DEF ReadArchive
  <2>6. \A c \in SourceClaims : rows[c] # "none" /\ c \notin notice => row[c] \in {"first", "edited"}
    BY <1>0, <2>4 DEF RowsOf, HasRow, Objects, SourceSound
  <2>7. reading # NotReading /\ ~reading.torn => \A e \in Evidence : rows[e] = RowsOf(Evidence)[e]
    BY <1>0, <2>4 DEF ReadingSound
  <2>8. ReadingSound'
    <3>1. \A S : RowsOf(S)' = RowsOf(S)
      BY <2>2 DEF RowsOf, HasRow
    <3>2. reading # NotReading
      BY <2>1 DEF NotReading
    <3> QED BY <2>2, <2>4, <2>5, <2>6, <2>7, <3>1, <3>2 DEF ReadingSound
  <2> QED BY <1>1, <1>4, <2>2, <2>5, <2>8, BackupRest
<1>7. CASE ReadLinks
  <2>1. reading \in ReadArchive /\ reading.next = "links"
    BY <1>1, <1>7 DEF ReadLinks, NotReading
  <2>2. reading' = [reading EXCEPT !.next = "notices", !.links = Links]
        /\ UNCHANGED <<row, notice, archives, copy, mapped, made, told>>
    BY <1>7 DEF ReadLinks
  <2>3. reading' \in ReadArchive /\ reading'.next = "notices" /\ reading'.rows = reading.rows
        /\ reading'.links = Links /\ reading'.torn = reading.torn
    BY <1>3, <2>1, <2>2 DEF ReadArchive
  <2>4. ClaimsAreLinked(reading.rows, Links, notice)
    <3> SUFFICES ASSUME NEW c \in SourceClaims, reading.rows[c] # "none", c \notin notice, NEW e \in Uses[c]
                 PROVE  <<c, e>> \in Links
      BY DEF ClaimsAreLinked
    <3>1. row[c] \in {"first", "edited"} /\ e \in Evidence
      BY <1>0, <2>1, ArchivesAssumption DEF ReadingSound
    <3>2. HasRow(c) /\ HasRow(e)
      BY <1>0, <3>1 DEF SourceSound, HasRow
    <3> QED BY <3>1, <3>2 DEF Links
  <2>5. ReadingSound'
    <3>1. Links' = Links /\ \A S : RowsOf(S)' = RowsOf(S)
      BY <2>2 DEF RowsOf, HasRow, Links
    <3>2. reading # NotReading
      BY <2>1 DEF NotReading
    <3> QED BY <1>0, <2>1, <2>2, <2>3, <2>4, <3>1, <3>2 DEF ReadingSound
  <2> QED BY <1>1, <1>4, <2>2, <2>3, <2>5, BackupRest
<1>8. CASE ReadNotices
  <2> DEFINE new == [rows |-> reading.rows, links |-> reading.links, notices |-> notice, torn |-> reading.torn]
  <2>1. reading \in ReadArchive /\ reading.next = "notices" /\ reading # NotReading
    BY <1>1, <1>8 DEF ReadNotices, NotReading
  <2>2. archives' = archives \cup {new} /\ reading' = NotReading
        /\ UNCHANGED <<row, notice, copy, mapped, made, told>>
    BY <1>8 DEF ReadNotices
  <2>3. new \in Archive
    BY <1>1, <2>1 DEF ReadArchive, Archive
  <2>4. new.rows = reading.rows /\ new.links = reading.links /\ new.notices = notice /\ new.torn = reading.torn
    OBVIOUS
  <2> HIDE DEF new
  <2>5. ClaimsAreLinked(new.rows, new.links, new.notices)
    BY <1>0, <2>1, <2>4 DEF ReadingSound
  <2>6. ASSUME ~new.torn PROVE Complete(new)
    <3>1. /\ \A e \in Evidence : new.rows[e] = RowsOf(Evidence)[e]
          /\ \A c \in SourceClaims : new.rows[c] = RowsOf(SourceClaims)[c]
          /\ new.links = Links
      BY <1>0, <2>1, <2>4, <2>6 DEF ReadingSound
    <3>2. \A l \in new.links : In(new, l[1]) /\ In(new, l[2])
      <4> SUFFICES ASSUME NEW l \in Links PROVE In(new, l[1]) /\ In(new, l[2])
        BY <3>1
      <4>1. l[1] \in SourceClaims /\ l[2] \in Evidence /\ HasRow(l[1]) /\ HasRow(l[2])
        BY DEF Links
      <4> QED BY <3>1, <4>1 DEF In, RowsOf, HasRow, Objects
    <3>3. ASSUME NEW c \in SourceClaims, In(new, c), c \notin new.notices PROVE SourcesIn(new, c) # {}
      <4>1. PICK e \in Uses[c] : TRUE
        BY ArchivesAssumption
      <4>2. <<c, e>> \in new.links /\ e \in Evidence
        BY <2>5, <3>3, ArchivesAssumption DEF In, ClaimsAreLinked
      <4> QED BY <4>2 DEF SourcesIn
    <3> QED BY <3>2, <3>3 DEF Complete
  <2>7. ArchivesSound'
    BY <1>0, <2>2, <2>5, <2>6 DEF ArchivesSound, Complete, In, SourcesIn
  <2>8. ReadingSound'
    BY <2>2 DEF ReadingSound, NotReading
  <2> QED BY <1>1, <2>2, <2>3, <2>7, <2>8, BackupRest
<1> QED BY <1>5, <1>6, <1>7, <1>8

\* A step of the target leaves the source and the archives alone.
LEMMA TargetRest ==
    ASSUME ArchivesInv, UNCHANGED <<row, notice, reading, archives>>, TargetSound',
           copy' \in [Objects -> Copies], mapped' \in [Objects -> Rows], made' \in [Objects -> Nat],
           told' \in SUBSET Objects
    PROVE  ArchivesInv'
<1>1. ArchivesTypeOK'
  BY DEF ArchivesInv, SourceInv, ArchivesTypeOK
<1>2. SourceSound'
  BY DEF ArchivesInv, SourceInv, SourceSound, HasRow
<1>3. ReadingSound'
  <2>1. Links' = Links /\ \A S : RowsOf(S)' = RowsOf(S)
    BY DEF RowsOf, HasRow, Links
  <2> QED BY <2>1 DEF ArchivesInv, SourceInv, ReadingSound
<1>4. ArchivesSound'
  BY DEF ArchivesInv, SourceInv, ArchivesSound, Complete, In, SourcesIn
<1> QED BY <1>1, <1>2, <1>4, <1>3 DEF ArchivesInv, SourceInv

\* An import that is not refused brings in, with a claim, what it cites, and
\* takes out what was announced.
LEMMA ImportStep ==
    ASSUME ArchivesInv, NEW a \in archives, Import(a)
    PROVE  ArchivesInv'
<1>0. ArchivesTypeOK /\ TargetSound /\ ArchivesSound
  BY DEF ArchivesInv, SourceInv
<1>1. /\ a \in Archive /\ a.rows \in [Objects -> Rows] /\ a.notices \in SUBSET Objects
      /\ copy \in [Objects -> Copies] /\ mapped \in [Objects -> Rows] /\ made \in [Objects -> Nat]
      /\ told \in SUBSET Objects
  BY <1>0 DEF ArchivesTypeOK, Archive
<1>2. Acceptable(a) /\ UNCHANGED <<row, notice, reading, archives>>
  BY DEF Import
<1>3. \A o \in Objects : mapped'[o] = IF o \in Fresh(a) THEN a.rows[o] ELSE mapped[o]
  BY DEF Import
<1>4. \A o \in Objects : made'[o] = IF o \in Fresh(a) THEN made[o] + 1 ELSE made[o]
  BY DEF Import
<1>5. \A o \in Objects : /\ o \in Fresh(a) => mapped[o] = "none" /\ a.rows[o] # "none" /\ o \in Offered(a)
                         /\ o \in Redacted(a) => mapped[o] # "none"
  BY <1>0 DEF Fresh, Offered, In, Redacted, Announced, CopiesCiting, TargetSound, Objects
<1>6. \A o \in Objects : copy'[o] = IF o \in Redacted(a) THEN "removed"
                                    ELSE IF o \in Fresh(a) THEN "present" ELSE copy[o]
  BY <1>5 DEF Import
<1>7. copy' \in [Objects -> Copies] /\ mapped' \in [Objects -> Rows] /\ made' \in [Objects -> Nat]
      /\ told' \in SUBSET Objects
  <2>1. copy' \in [Objects -> Copies]
    BY <1>1, <1>6, <1>5 DEF Import, Copies
  <2>2. mapped' \in [Objects -> Rows] /\ made' \in [Objects -> Nat]
    BY <1>1 DEF Import
  <2>3. told' \in SUBSET Objects
    BY <1>1 DEF Import
  <2> QED BY <2>1, <2>2, <2>3
<1>8. \A o \in Objects : copy'[o] = "none" <=> mapped'[o] = "none"
  BY <1>0, <1>6, <1>3, <1>5 DEF TargetSound
<1>9. \A o \in Objects : made'[o] = IF mapped'[o] = "none" THEN 0 ELSE 1
  BY <1>0, <1>3, <1>4, <1>5 DEF TargetSound
<1>10. \A e \in Evidence : copy'[e] # "withdrawn"
  BY <1>0, <1>6 DEF TargetSound, Objects
<1>11. SourceDeletionsArrive'
  <2> SUFFICES ASSUME NEW o \in told' PROVE copy'[o] = "removed"
    BY DEF SourceDeletionsArrive
  <2>1. o \in told \/ (o \in a.notices /\ mapped[o] # "none")
    BY DEF Import
  <2>2. o \in Objects
    BY <1>7
  <2>3. CASE o \in told
    <3>1. copy[o] = "removed"
      BY <1>0, <2>3 DEF TargetSound, SourceDeletionsArrive
    <3>2. mapped[o] # "none"
      BY <1>0, <2>2, <3>1 DEF TargetSound
    <3> QED BY <1>6, <1>5, <2>2, <3>1, <3>2
  <2>4. CASE o \in a.notices /\ mapped[o] # "none"
    <3>1. copy[o] = "removed" \/ o \in Redacted(a)
      BY <2>4 DEF Redacted, Announced
    <3> QED BY <1>6, <1>5, <2>2, <2>4, <3>1
  <2> QED BY <2>1, <2>3, <2>4
<1>12. ClaimsKeepTheirEvidence'
  <2> SUFFICES ASSUME NEW c \in SourceClaims, copy'[c] = "present", NEW e \in Uses[c]
               PROVE  copy'[e] = "present"
    BY DEF ClaimsKeepTheirEvidence
  <2>1. c \in Objects /\ e \in Evidence /\ e \in Objects /\ e \notin SourceClaims
    BY ArchivesAssumption DEF Objects
  <2>2. c \notin Redacted(a)
    BY <1>6, <2>1
  <2>3. CASE c \in Fresh(a)
    <3>1. In(a, c) /\ ~BlockedClaim(a, c)
      BY <2>1, <2>3, ArchivesAssumption DEF Fresh, Offered
    <3>2. <<c, e>> \in a.links
      BY <1>0, <3>1 DEF ArchivesSound, ClaimsAreLinked, In, BlockedClaim
    <3>3. In(a, e)
      BY <1>2, <3>2 DEF Acceptable, Complete
    <3>4. e \notin BlockedEvidence(a)
      BY <2>1, <3>1, <3>2 DEF BlockedClaim, SourcesIn
    <3>5. e \in Offered(a)
      BY <2>1, <3>3, <3>4 DEF Offered
    <3>6. CASE mapped[e] = "none"
      BY <1>6, <1>5, <2>1, <3>5, <3>6 DEF Fresh
    <3>7. CASE mapped[e] # "none"
      <4>1. ~Removed(a, e)
        BY <2>1, <3>3, <3>4, <3>7 DEF BlockedEvidence
      <4>2. copy[e] = "present" /\ e \notin Redacted(a)
        BY <1>0, <1>1, <2>1, <3>7, <4>1 DEF Removed, TargetSound, Copies
      <4> QED BY <1>6, <2>1, <4>2
    <3> QED BY <3>6, <3>7
  <2>4. CASE c \notin Fresh(a)
    <3>1. copy[c] = "present"
      BY <1>6, <2>1, <2>2, <2>4
    <3>2. copy[e] = "present"
      BY <1>0, <3>1 DEF TargetSound, ClaimsKeepTheirEvidence
    <3>3. e \notin Announced(a)
      BY <2>2, <3>1 DEF Redacted, CopiesCiting
    <3>4. e \notin Redacted(a)
      BY <2>1, <3>3 DEF Redacted, CopiesCiting
    <3> QED BY <1>6, <2>1, <3>2, <3>4
  <2> QED BY <2>3, <2>4
<1>13. TargetSound'
  BY <1>8, <1>9, <1>10, <1>11, <1>12 DEF TargetSound
<1> QED BY <1>2, <1>7, <1>13, TargetRest

\* Removals in the target reach every claim that cites what is removed.
LEMMA RemovalStep ==
    ASSUME ArchivesInv, NEW o \in Objects, RemoveCopy(o) \/ BuryCopy(o)
    PROVE  ArchivesInv'
<1>1. TargetSound /\ copy \in [Objects -> Copies] /\ mapped \in [Objects -> Rows] /\ made \in [Objects -> Nat]
      /\ told \in SUBSET Objects
  BY DEF ArchivesInv, SourceInv, ArchivesTypeOK
<1>2. UNCHANGED <<row, notice, reading, archives, mapped, made, told>>
  BY DEF RemoveCopy, BuryCopy
<1>3. copy[o] \in {"present", "withdrawn"}
  BY DEF RemoveCopy, BuryCopy
<1>4. copy' \in [Objects -> Copies]
  BY <1>1 DEF RemoveCopy, BuryCopy, Copies
<1>5. \A p \in Objects :
        /\ p = o => copy'[p] = "removed"
        /\ p # o /\ p \notin CopiesCiting({o}) => copy'[p] = copy[p]
        /\ p \in CopiesCiting({o}) => copy'[p] \in {"removed", "withdrawn"}
        /\ copy[p] = "removed" => copy'[p] = "removed"
        /\ copy'[p] = "present" => copy[p] = "present"
  BY <1>1 DEF RemoveCopy, BuryCopy, CopiesCiting, Copies, Objects
<1>6. \A p \in Objects : copy'[p] = "none" <=> mapped'[p] = "none"
  BY <1>1, <1>2, <1>3, <1>5 DEF TargetSound, CopiesCiting
<1>7. \A e \in Evidence : copy'[e] # "withdrawn"
  BY <1>1, <1>5, ArchivesAssumption DEF TargetSound, CopiesCiting, Objects
<1>8. SourceDeletionsArrive'
  BY <1>1, <1>2, <1>5 DEF TargetSound, SourceDeletionsArrive
<1>9. ClaimsKeepTheirEvidence'
  <2> SUFFICES ASSUME NEW c \in SourceClaims, copy'[c] = "present", NEW e \in Uses[c]
               PROVE  copy'[e] = "present"
    BY DEF ClaimsKeepTheirEvidence
  <2>1. c \in Objects /\ e \in Objects /\ e \notin SourceClaims
    BY ArchivesAssumption DEF Objects
  <2>2. copy[c] = "present" /\ c \notin CopiesCiting({o})
    BY <1>5, <2>1
  <2>3. copy[e] = "present" /\ e # o /\ e \notin CopiesCiting({o})
    BY <1>1, <2>1, <2>2 DEF TargetSound, ClaimsKeepTheirEvidence, CopiesCiting
  <2> QED BY <1>5, <2>1, <2>3
<1>10. TargetSound'
  BY <1>1, <1>2, <1>6, <1>7, <1>8, <1>9 DEF TargetSound
<1> QED BY <1>1, <1>2, <1>4, <1>10, TargetRest

\* A stuttering step.
LEMMA ArchivesStutter == ArchivesInv /\ UNCHANGED archiveVars => ArchivesInv'
<1> SUFFICES ASSUME ArchivesInv, UNCHANGED archiveVars PROVE ArchivesInv'
  OBVIOUS
<1> QED BY TargetRest DEF archiveVars, ArchivesInv, SourceInv, ArchivesTypeOK, TargetSound, SourceDeletionsArrive, ClaimsKeepTheirEvidence

\* The invariant is inductive.
LEMMA ArchivesStep == ArchivesInv /\ [ArchivesNext]_archiveVars => ArchivesInv'
BY SourceStep, BackupStep, ImportStep, RemovalStep, ArchivesStutter DEF ArchivesNext

\* So it holds throughout.
LEMMA ArchivesAlways == ArchivesSpec => []ArchivesInv
BY ArchivesInitInv, ArchivesStep, PTL DEF ArchivesSpec

\* Whatever archives are taken while the source goes on writing, and whichever of
\* them are imported in whichever order, an object whose deletion an archive
\* announced to a target that had it stays out of service there (memory.py import,
\* _apply_import_tombstone).
THEOREM DeletionsArrive == ArchivesSpec => []SourceDeletionsArrive
<1>1. ArchivesInv => SourceDeletionsArrive
  BY DEF ArchivesInv, TargetSound
<1> QED BY <1>1, ArchivesAlways, PTL

\* Torn archives included, a claim in service in the target has the evidence it
\* cites (memory.py import, "dangling evidence link").
THEOREM EvidenceComesAlong == ArchivesSpec => []ClaimsKeepTheirEvidence
<1>1. ArchivesInv => ClaimsKeepTheirEvidence
  BY DEF ArchivesInv, TargetSound
<1> QED BY <1>1, ArchivesAlways, PTL

\* An archive taken while nobody wrote lacks no row that it links, and no evidence
\* of a claim it does not announce as deleted, whatever was erased before: a fresh
\* database accepts it (memory.py export and import).
THEOREM WholeArchivesImport == ArchivesSpec => []ArchivesAreComplete
<1>1. ArchivesInv => ArchivesAreComplete
  BY DEF ArchivesInv, SourceInv, ArchivesSound, ArchivesAreComplete
<1> QED BY <1>1, ArchivesAlways, PTL

\* No order of imports copies an object twice (memory.py import,
\* source_mappings).
THEOREM ImportsAreSingle == ArchivesSpec => []OneCopyOfEach
<1>1. ArchivesInv => OneCopyOfEach
  BY DEF ArchivesInv, TargetSound, OneCopyOfEach
<1> QED BY <1>1, ArchivesAlways, PTL

-----------------------------------------------------------------------------
(* Keys and the payloads they seal.                                        *)

EventRow == Event \cup {NoEvent}
Rotation == [key : Keys, used : BOOLEAN] \cup {NotRotating}

KeyTypeOK ==
    /\ protected \in BOOLEAN
    /\ key \in [Keys -> {"none", "active", "rotated"}]
    /\ event \in [Events -> EventRow]
    /\ rotating \in Rotation
    /\ late \in SUBSET Events

\* Once a process has found a key unused, what is sealed with it came later; and
\* such a key exists.
CountedIsSealedLate ==
    rotating # NotRotating =>
        /\ key[rotating.key] # "none"
        /\ ~rotating.used => \A e \in Events : Sealed(e) /\ event[e].seal = rotating.key => e \in late

KeysInv == KeyTypeOK /\ RetiredKeysSealNothing /\ CountedIsSealedLate

\* What seals an event is a key.
LEMMA SealIsKey ==
    ASSUME KeyTypeOK, NEW e \in Events, Sealed(e)
    PROVE  event[e] \in Event /\ event[e].seal \in Keys
BY DEF KeyTypeOK, EventRow, Event, Sealed, Stored

\* Nothing is sealed yet.
LEMMA KeysInitInv == ProtectionInit => KeysInv
<1> SUFFICES ASSUME ProtectionInit PROVE KeysInv
  OBVIOUS
<1>1. KeyTypeOK
  BY DEF ProtectionInit, KeyTypeOK, EventRow, Rotation
<1>2. \A e \in Events : ~Stored(e)
  BY DEF ProtectionInit, Stored
<1>3. RetiredKeysSealNothing /\ CountedIsSealedLate
  BY <1>2 DEF ProtectionInit, RetiredKeysSealNothing, CountedIsSealedLate, Sealed
<1> QED BY <1>1, <1>3 DEF KeysInv

\* A key that is taken for new content is active, and no other key changes.
LEMMA ContentKeyIsActive ==
    ASSUME KeyTypeOK, NEW k, NEW keys, ContentKey(k, keys)
    PROVE  /\ k \in Keys /\ k # Clear
           /\ keys \in [Keys -> {"none", "active", "rotated"}] /\ keys[k] = "active"
           /\ \A j \in Keys : j # k => keys[j] = key[j]
           /\ key[k] \in {"none", "active"}
<1>1. CASE k \in Active(key) /\ keys = key
  BY <1>1 DEF Active, KeyTypeOK, Keys, Clear
<1>2. CASE k \in Unused /\ keys = [key EXCEPT ![k] = "active"]
  BY <1>2 DEF Unused, KeyTypeOK, Keys, Clear
<1> QED BY <1>1, <1>2 DEF ContentKey

\* A step that makes at most one key active, and seals nothing again.
LEMMA KeyMade ==
    ASSUME KeysInv, NEW k \in Keys, UNCHANGED <<event, rotating, late>>, protected' \in BOOLEAN,
           key' \in [Keys -> {"none", "active", "rotated"}], key'[k] = "active",
           \A j \in Keys : j # k => key'[j] = key[j]
    PROVE  KeysInv'
<1>1. KeyTypeOK'
  BY DEF KeysInv, KeyTypeOK
<1>2. \A e \in Events : Sealed(e) => event[e].seal \in Keys
  BY SealIsKey DEF KeysInv
<1>3. RetiredKeysSealNothing'
  BY <1>2 DEF KeysInv, RetiredKeysSealNothing, Sealed, Stored
<1>4. CountedIsSealedLate'
  <2>1. rotating # NotRotating => rotating.key \in Keys
    BY DEF KeysInv, KeyTypeOK, Rotation
  <2> QED BY <2>1 DEF KeysInv, CountedIsSealedLate, Sealed, Stored
<1> QED BY <1>1, <1>3, <1>4 DEF KeysInv

\* A step of claims and indexes.
LEMMA KeysStutter ==
    ASSUME KeysInv, UNCHANGED <<protected, key, event, rotating, late>>
    PROVE  KeysInv'
BY DEF KeysInv, KeyTypeOK, RetiredKeysSealNothing, CountedIsSealedLate, Sealed, Stored

\* A key that is added is active.
LEMMA CreateStep == ASSUME KeysInv, CreateKey PROVE KeysInv'
<1>1. PICK k \in Unused : key' = [key EXCEPT ![k] = "active"]
  BY DEF CreateKey
<1>2. k \in Keys /\ key \in [Keys -> {"none", "active", "rotated"}] /\ protected' \in BOOLEAN
  BY DEF Unused, KeysInv, KeyTypeOK, CreateKey
<1>3. /\ key' \in [Keys -> {"none", "active", "rotated"}] /\ key'[k] = "active"
      /\ \A j \in Keys : j # k => key'[j] = key[j]
  BY <1>1, <1>2
<1>4. UNCHANGED <<event, rotating, late>>
  BY DEF CreateKey
<1> QED BY <1>2, <1>3, <1>4, KeyMade

\* Protected mode that is enabled gets an active key.
LEMMA ModeStep == ASSUME KeysInv, NEW on \in BOOLEAN, SetProtectedMode(on) PROVE KeysInv'
<1>1. protected' \in BOOLEAN /\ UNCHANGED <<event, rotating, late>>
  BY DEF SetProtectedMode
<1>2. CASE on
  <2>1. PICK k \in Keys : ContentKey(k, key')
    BY <1>2 DEF SetProtectedMode
  <2> QED BY <1>1, <2>1, ContentKeyIsActive, KeyMade DEF KeysInv
<1>3. CASE ~on
  BY <1>1, <1>3 DEF SetProtectedMode, KeysInv, KeyTypeOK, RetiredKeysSealNothing, CountedIsSealedLate, Sealed, Stored
<1> QED BY <1>2, <1>3

\* New content is sealed with the active key, or late if that was counted.
LEMMA SealedWriteStep ==
    ASSUME KeysInv, NEW e \in Events, NEW level \in Levels, WriteEvent(e, level)
    PROVE  KeysInv'
<1>0. KeyTypeOK
  BY DEF KeysInv
<1>1. PICK seal \in Keys \cup {Clear} :
        /\ Seal(level, seal, key')
        /\ event' = [event EXCEPT ![e] = [level |-> level, seal |-> seal, kept |-> TRUE]]
        /\ late' = IF seal # Clear /\ rotating = [key |-> seal, used |-> FALSE]
                   THEN late \cup {e} ELSE late \ {e}
  BY DEF WriteEvent
<1>2. UNCHANGED <<protected, rotating>>
  BY DEF WriteEvent
<1>3. [level |-> level, seal |-> seal, kept |-> TRUE] \in Event
  BY DEF Event
<1>4. /\ event' \in [Events -> EventRow] /\ event'[e] = [level |-> level, seal |-> seal, kept |-> TRUE]
      /\ \A d \in Events : d # e => event'[d] = event[d]
  BY <1>0, <1>1, <1>3 DEF KeyTypeOK, EventRow
<1>5. event'[e].seal = seal
  BY <1>4
<1>6. /\ key' \in [Keys -> {"none", "active", "rotated"}]
      /\ seal # Clear => key'[seal] = "active"
      /\ \A j \in Keys : key[j] # "none" => key'[j] = key[j]
  <2>1. CASE ContentKey(seal, key')
    BY <1>0, <2>1, ContentKeyIsActive
  <2>2. CASE seal = Clear /\ key' = key
    BY <1>0, <2>2 DEF KeyTypeOK
  <2> QED BY <1>1, <2>1, <2>2 DEF Seal
<1>7. late' \in SUBSET Events /\ \A d \in Events : d # e => (d \in late' <=> d \in late)
  BY <1>0, <1>1 DEF KeyTypeOK
<1>8. KeyTypeOK'
  BY <1>0, <1>2, <1>4, <1>6, <1>7 DEF KeyTypeOK
<1>9. \A d \in Events : d # e => (Sealed(d)' <=> Sealed(d))
  BY <1>4 DEF Sealed, Stored
<1>10. \A d \in Events : Sealed(d) => event[d].seal \in Keys
  BY <1>0, SealIsKey
<1>11. RetiredKeysSealNothing'
  <2> SUFFICES ASSUME NEW d \in Events, Sealed(d)', d \notin late'
               PROVE  key'[event'[d].seal] = "active"
    BY DEF RetiredKeysSealNothing
  <2>1. CASE d = e
    BY <1>5, <1>6, <2>1 DEF Sealed
  <2>2. CASE d # e
    <3>1. key[event[d].seal] = "active" /\ event'[d] = event[d] /\ event[d].seal \in Keys
      BY <1>4, <1>7, <1>9, <1>10, <2>2 DEF KeysInv, RetiredKeysSealNothing
    <3> QED BY <1>6, <3>1
  <2> QED BY <2>1, <2>2
<1>12. CountedIsSealedLate'
  <2> SUFFICES ASSUME rotating # NotRotating
               PROVE  /\ key'[rotating.key] # "none"
                      /\ ~rotating.used => \A d \in Events : Sealed(d)' /\ event'[d].seal = rotating.key => d \in late'
    BY <1>2 DEF CountedIsSealedLate
  <2>1. rotating \in [key : Keys, used : BOOLEAN] /\ key[rotating.key] # "none"
    BY <1>0 DEF KeyTypeOK, Rotation, KeysInv, CountedIsSealedLate
  <2>2. ASSUME ~rotating.used, NEW d \in Events, Sealed(d)', event'[d].seal = rotating.key
        PROVE  d \in late'
    <3>1. CASE d = e
      <4>1. rotating = [key |-> seal, used |-> FALSE] /\ seal # Clear
        BY <1>5, <2>1, <2>2, <3>1 DEF Sealed
      <4> QED BY <1>1, <3>1, <4>1
    <3>2. CASE d # e
      BY <1>4, <1>7, <1>9, <2>2, <3>2 DEF KeysInv, CountedIsSealedLate
    <3> QED BY <3>1, <3>2
  <2> QED BY <1>6, <2>1, <2>2
<1> QED BY <1>8, <1>11, <1>12 DEF KeysInv

\* A rotation seals all payloads of the old key again, if it found any.
LEMMA RotatedKeys ==
    ASSUME KeysInv, NEW old \in Keys, NEW used \in BOOLEAN, Rotated(old, used), key[old] # "none",
           rotating' \in {rotating, NotRotating},
           ~used => \A e \in Events : Sealed(e) /\ event[e].seal = old => e \in late
    PROVE  KeysInv'
<1>0. KeyTypeOK
  BY DEF KeysInv
<1>1. PICK new \in Unused :
        /\ key' = [key EXCEPT ![old] = "rotated", ![new] = "active"]
        /\ event' = [e \in Events |->
                       IF used /\ e \in PayloadsOf(old) THEN [event[e] EXCEPT !.seal = new] ELSE event[e]]
  BY DEF Rotated
<1>2. new \in Keys /\ key[new] = "none" /\ new # old /\ new # Clear
  BY DEF Unused, Keys, Clear
<1>3. /\ key' \in [Keys -> {"none", "active", "rotated"}] /\ key'[new] = "active" /\ key'[old] = "rotated"
      /\ \A j \in Keys : j # new /\ j # old => key'[j] = key[j]
  BY <1>0, <1>1, <1>2 DEF KeyTypeOK
<1>4. \A e \in Events : Sealed(e) => event[e] \in Event /\ event[e].seal \in Keys
  BY <1>0, SealIsKey
<1>5. \A e \in Events :
        IF used /\ e \in PayloadsOf(old)
        THEN event'[e] \in Event /\ event'[e].seal = new
        ELSE event'[e] = event[e]
  <2> SUFFICES ASSUME NEW e \in Events, used, e \in PayloadsOf(old)
               PROVE  [event[e] EXCEPT !.seal = new] \in Event /\ [event[e] EXCEPT !.seal = new].seal = new
    BY <1>1
  <2>1. event[e] \in Event
    BY <1>4 DEF PayloadsOf
  <2> QED BY <1>2, <2>1 DEF Event
<1>6. event' \in [Events -> EventRow]
  <2>1. \A e \in Events : event'[e] \in EventRow
    BY <1>0, <1>5 DEF KeyTypeOK, EventRow
  <2> QED BY <1>1, <2>1
<1>7. late' \in SUBSET Events
      /\ \A e \in Events : e \in late' <=> e \in late /\ ~(used /\ e \in PayloadsOf(old))
  BY <1>0 DEF Rotated, KeyTypeOK
<1>8. KeyTypeOK'
  BY <1>0, <1>3, <1>6, <1>7 DEF Rotated, KeyTypeOK, Rotation
<1>9. RetiredKeysSealNothing'
  <2> SUFFICES ASSUME NEW e \in Events, Sealed(e)', e \notin late'
               PROVE  key'[event'[e].seal] = "active"
    BY DEF RetiredKeysSealNothing
  <2>1. CASE used /\ e \in PayloadsOf(old)
    BY <1>3, <1>5, <2>1
  <2>2. CASE ~(used /\ e \in PayloadsOf(old))
    <3>1. event'[e] = event[e] /\ Sealed(e) /\ e \notin late
      BY <1>5, <1>7, <2>2 DEF Sealed, Stored
    <3>2. key[event[e].seal] = "active" /\ event[e].seal \in Keys /\ event[e].seal # old
      BY <1>4, <2>2, <3>1 DEF KeysInv, RetiredKeysSealNothing, PayloadsOf
    <3> QED BY <1>2, <1>3, <3>1, <3>2
  <2> QED BY <2>1, <2>2
<1>10. CountedIsSealedLate'
  <2> SUFFICES ASSUME rotating' = rotating, rotating # NotRotating
               PROVE  /\ key'[rotating.key] # "none"
                      /\ ~rotating.used => \A e \in Events : Sealed(e)' /\ event'[e].seal = rotating.key => e \in late'
    BY DEF CountedIsSealedLate
  <2>1. rotating.key \in Keys /\ key[rotating.key] # "none" /\ rotating.key # new
    BY <1>0, <1>2 DEF KeyTypeOK, Rotation, KeysInv, CountedIsSealedLate
  <2>2. ASSUME ~rotating.used, NEW e \in Events, Sealed(e)', event'[e].seal = rotating.key
        PROVE  e \in late'
    <3>1. ~(used /\ e \in PayloadsOf(old)) /\ event'[e] = event[e]
      BY <1>5, <2>1, <2>2
    <3>2. Sealed(e)
      BY <2>2, <3>1 DEF Sealed, Stored
    <3> QED BY <1>7, <2>2, <3>1, <3>2 DEF KeysInv, CountedIsSealedLate
  <2> QED BY <1>3, <2>1, <2>2
<1> QED BY <1>8, <1>9, <1>10 DEF KeysInv

\* A rotation, in one transaction or after a count: only what came in between may keep the old key.
LEMMA RotationStep ==
    ASSUME KeysInv, CommitRotation \/ \E k \in Keys : RotateKey(k) \/ CountForRotation(k)
    PROVE  KeysInv'
<1>1. ASSUME NEW k \in Keys, RotateKey(k) PROVE KeysInv'
  <2>1. key[k] # "none" /\ Rotated(k, PayloadsOf(k) # {}) /\ rotating' \in {rotating, NotRotating}
    BY <1>1 DEF RotateKey, Active
  <2>2. (PayloadsOf(k) # {}) \in BOOLEAN
        /\ (~(PayloadsOf(k) # {}) => \A e \in Events : Sealed(e) /\ event[e].seal = k => e \in late)
    BY DEF PayloadsOf
  <2> QED BY <2>1, <2>2, RotatedKeys
<1>2. ASSUME NEW k \in Keys, CountForRotation(k) PROVE KeysInv'
  <2> DEFINE used == PayloadsOf(k) # {}
  <2>1. rotating' = [key |-> k, used |-> used] /\ key[k] = "active" /\ UNCHANGED <<protected, key, event, late>>
    BY <1>2 DEF CountForRotation, Active
  <2>2. used \in BOOLEAN /\ (~used => \A e \in Events : ~(Sealed(e) /\ event[e].seal = k))
    BY DEF PayloadsOf
  <2> HIDE DEF used
  <2>3. rotating'.key = k /\ rotating'.used = used /\ rotating' \in Rotation
    BY <2>1, <2>2 DEF Rotation
  <2>4. CountedIsSealedLate'
    BY <2>1, <2>2, <2>3 DEF CountedIsSealedLate, Sealed, Stored
  <2> QED BY <2>1, <2>3, <2>4 DEF KeysInv, KeyTypeOK, RetiredKeysSealNothing, Sealed, Stored
<1>3. CASE CommitRotation
  <2>1. rotating # NotRotating /\ Rotated(rotating.key, rotating.used) /\ rotating' \in {rotating, NotRotating}
    BY <1>3 DEF CommitRotation
  <2>2. rotating.key \in Keys /\ rotating.used \in BOOLEAN
    BY <2>1 DEF KeysInv, KeyTypeOK, Rotation
  <2>3. key[rotating.key] # "none"
        /\ (~rotating.used => \A e \in Events : Sealed(e) /\ event[e].seal = rotating.key => e \in late)
    BY <2>1 DEF KeysInv, CountedIsSealedLate
  <2> QED BY <2>1, <2>2, <2>3, RotatedKeys
<1> QED BY <1>1, <1>2, <1>3

\* Erasure takes the payload, and its seal.
LEMMA EraseKeys ==
    ASSUME KeysInv, NEW e \in Events, RedactEvent(e) \/ DeleteEvent(e)
    PROVE  KeysInv'
<1>0. KeyTypeOK /\ Stored(e)
  BY DEF KeysInv, RedactEvent, DeleteEvent, EraseEvent
<1>1. event[e] \in Event
  BY <1>0 DEF KeyTypeOK, EventRow, Stored
<1>2. PICK erased \in EventRow : erased.seal = Clear /\ event' = [event EXCEPT ![e] = erased]
  <2>1. [event[e] EXCEPT !.seal = Clear, !.kept = FALSE] \in EventRow
        /\ [event[e] EXCEPT !.seal = Clear, !.kept = FALSE].seal = Clear
    BY <1>1 DEF EventRow, Event
  <2>2. NoEvent \in EventRow /\ NoEvent.seal = Clear
    BY DEF EventRow, NoEvent
  <2> QED BY <2>1, <2>2 DEF RedactEvent, DeleteEvent, EraseEvent
<1>3. UNCHANGED <<protected, key, rotating>> /\ late' = late \ {e}
  BY DEF RedactEvent, DeleteEvent, EraseEvent, Scrubbed
<1>4. event' \in [Events -> EventRow] /\ event'[e].seal = Clear /\ \A d \in Events : d # e => event'[d] = event[d]
  BY <1>0, <1>2 DEF KeyTypeOK
<1>5. KeyTypeOK'
  BY <1>0, <1>3, <1>4 DEF KeyTypeOK
<1>6. \A d \in Events : Sealed(d)' => d # e /\ Sealed(d) /\ event'[d] = event[d] /\ (d \in late' <=> d \in late)
  BY <1>3, <1>4 DEF Sealed, Stored
<1>7. RetiredKeysSealNothing'
  BY <1>3, <1>6 DEF KeysInv, RetiredKeysSealNothing
<1>8. CountedIsSealedLate'
  BY <1>3, <1>6 DEF KeysInv, CountedIsSealedLate
<1> QED BY <1>5, <1>7, <1>8 DEF KeysInv

\* The steps that no key and no payload takes part in.
KeysRestNext ==
    \/ CheckIntegrity \/ RepairFulltext \/ StoreVectors
    \/ \E e \in Events : ForgetEvent(e)
    \/ \E C \in SUBSET Claims : \E outcome \in [C -> {"archived", "redacted", "deleted"}] : RunRetention(outcome)
    \/ \E c \in Claims : \/ RecordClaim(c) \/ ChangeStatus(c) \/ ForgetClaim(c)
                         \/ EraseClaim(c, RedactedRow) \/ EraseClaim(c, DeletedRow)
    \/ \E provider \in Providers :
         \/ MarkStaleSemantic(provider) \/ VerifySemantic(provider) \/ PruneStaleSemantic(provider)
         \/ \E policy \in Policies, wanted \in SUBSET Claims :
              IndexSemantic(provider, policy, wanted) \/ ReadTexts(provider, policy, wanted)

\* Nothing else touches keys or payloads.
LEMMA KeysRestStep == KeysRestNext => UNCHANGED <<protected, key, event, rotating, late>>
<1>1. ASSUME NEW C \in SUBSET Claims, Archived(C) PROVE UNCHANGED <<protected, key, event, rotating, late>>
  BY <1>1 DEF Archived
<1>2. ASSUME NEW C \in SUBSET Claims, NEW r, Scrubbed(C, r) PROVE UNCHANGED <<protected, key, rotating>>
  BY <1>2 DEF Scrubbed
<1>3. ASSUME NEW e \in Events, ForgetEvent(e) PROVE UNCHANGED <<protected, key, event, rotating, late>>
  BY <1>1, <1>3 DEF ForgetEvent, Citing
<1>4. ASSUME NEW c \in Claims, ForgetClaim(c) PROVE UNCHANGED <<protected, key, event, rotating, late>>
  BY <1>1, <1>4 DEF ForgetClaim
<1>5. ASSUME NEW c \in Claims, EraseClaim(c, RedactedRow) \/ EraseClaim(c, DeletedRow)
      PROVE  UNCHANGED <<protected, key, event, rotating, late>>
  BY <1>2, <1>5 DEF EraseClaim
<1>6. ASSUME NEW C \in SUBSET Claims, NEW outcome \in [C -> {"archived", "redacted", "deleted"}], RunRetention(outcome)
      PROVE  UNCHANGED <<protected, key, event, rotating, late>>
  BY <1>6 DEF RunRetention, RetainedRow
<1>7. ASSUME CheckIntegrity \/ RepairFulltext \/ StoreVectors
      PROVE  UNCHANGED <<protected, key, event, rotating, late>>
  BY <1>7 DEF CheckIntegrity, RepairFulltext, StoreVectors
<1>8. ASSUME NEW c \in Claims, RecordClaim(c) \/ ChangeStatus(c)
      PROVE  UNCHANGED <<protected, key, event, rotating, late>>
  BY <1>8 DEF RecordClaim, ChangeStatus
<1>9. ASSUME NEW provider \in Providers, MarkStaleSemantic(provider) \/ VerifySemantic(provider) \/ PruneStaleSemantic(provider)
      PROVE  UNCHANGED <<protected, key, event, rotating, late>>
  BY <1>9 DEF MarkStaleSemantic, VerifySemantic, PruneStaleSemantic
<1>10. ASSUME NEW provider \in Providers, NEW policy \in Policies, NEW wanted \in SUBSET Claims,
              IndexSemantic(provider, policy, wanted) \/ ReadTexts(provider, policy, wanted)
       PROVE  UNCHANGED <<protected, key, event, rotating, late>>
  BY <1>10 DEF IndexSemantic, ReadTexts
<1> QED BY <1>3, <1>4, <1>5, <1>6, <1>7, <1>8, <1>9, <1>10 DEF KeysRestNext

\* The invariant is inductive.
LEMMA KeysStep == KeysInv /\ [ProtectionNext]_protectionVars => KeysInv'
<1> SUFFICES ASSUME KeysInv, [ProtectionNext]_protectionVars PROVE KeysInv'
  OBVIOUS
<1>1. CASE KeysRestNext
  BY <1>1, KeysRestStep, KeysStutter
<1>2. CASE UNCHANGED protectionVars
  BY <1>2, KeysStutter DEF protectionVars
<1>3. CASE CreateKey \/ \E on \in BOOLEAN : SetProtectedMode(on)
  BY <1>3, CreateStep, ModeStep
<1>4. CASE \E e \in Events : RedactEvent(e) \/ DeleteEvent(e) \/ \E level \in Levels : WriteEvent(e, level)
  BY <1>4, EraseKeys, SealedWriteStep
<1>5. CASE CommitRotation \/ \E k \in Keys : RotateKey(k) \/ CountForRotation(k)
  BY <1>5, RotationStep
<1> QED BY <1>1, <1>2, <1>3, <1>4, <1>5 DEF ProtectionNext, KeysRestNext

\* No payload is sealed with a key that was rotated, but for those sealed between a
\* library's count of that key's payloads and its rotation, however many keys there
\* are (hardening.py rotate_key).
THEOREM RetiredKeysSafety == ProtectionSpec => []RetiredKeysSealNothing
<1>1. KeysInv => RetiredKeysSealNothing
  BY DEF KeysInv
<1> QED BY <1>1, KeysInitInv, KeysStep, PTL DEF ProtectionSpec

\* Content that is stored, raised or sealed again while protected mode is on is
\* sealed.
LEMMA SealStep ==
    ASSUME KeyTypeOK, protected, ProtectionNext, NEW e \in Events, event'[e] # event[e],
           Private(event'[e].level), event'[e].kept
    PROVE  event'[e].seal # Clear
<1>1. CASE KeysRestNext \/ CreateKey \/ \E on \in BOOLEAN : SetProtectedMode(on)
  BY <1>1, KeysRestStep DEF CreateKey, SetProtectedMode
<1>2. ASSUME NEW d \in Events, RedactEvent(d) \/ DeleteEvent(d) PROVE FALSE
  <2>1. d = e /\ event[e] \in EventRow /\ Stored(d)
    BY <1>2 DEF RedactEvent, DeleteEvent, EraseEvent, KeyTypeOK
  <2>2. ~event'[e].kept
    <3>1. event[e] \in Event
      BY <2>1 DEF EventRow, Stored
    <3>2. event'[e] \in {NoEvent, [event[e] EXCEPT !.seal = Clear, !.kept = FALSE]}
      BY <1>2, <2>1 DEF RedactEvent, DeleteEvent, EraseEvent, KeyTypeOK
    <3>3. ~NoEvent.kept
      BY DEF NoEvent
    <3>4. ~[event[e] EXCEPT !.seal = Clear, !.kept = FALSE].kept
      BY <3>1 DEF Event
    <3> QED BY <3>2, <3>3, <3>4
  <2> QED BY <1>2, <2>2
<1>3. ASSUME NEW d \in Events, NEW level \in Levels, WriteEvent(d, level) PROVE event'[e].seal # Clear
  <2>1. PICK seal \in Keys \cup {Clear} :
          Seal(level, seal, key') /\ event' = [event EXCEPT ![d] = [level |-> level, seal |-> seal, kept |-> TRUE]]
    BY <1>3 DEF WriteEvent
  <2>2. d = e /\ event'[e] = [level |-> level, seal |-> seal, kept |-> TRUE]
    BY <2>1 DEF KeyTypeOK
  <2>3. ContentKey(seal, key')
    BY <2>1, <2>2 DEF Seal
  <2> QED BY <2>2, <2>3, ContentKeyIsActive
<1>4. ASSUME NEW old, NEW used, Rotated(old, used) PROVE event'[e].seal # Clear
  <2>1. PICK new \in Unused :
          event' = [d \in Events |->
                      IF used /\ d \in PayloadsOf(old) THEN [event[d] EXCEPT !.seal = new] ELSE event[d]]
    BY <1>4 DEF Rotated
  <2>2. e \in PayloadsOf(old) /\ event'[e] = [event[e] EXCEPT !.seal = new] /\ new # Clear
    BY <2>1 DEF Unused, Keys, Clear
  <2>3. event[e] \in Event
    BY <2>2, SealIsKey DEF PayloadsOf
  <2> QED BY <2>2, <2>3 DEF Event
<1>5. ASSUME CommitRotation \/ \E k \in Keys : RotateKey(k) \/ CountForRotation(k) PROVE event'[e].seal # Clear
  BY <1>4, <1>5 DEF CommitRotation, RotateKey, CountForRotation
<1> QED BY <1>1, <1>2, <1>3, <1>5 DEF ProtectionNext, KeysRestNext

\* While protected mode is on, no step leaves private content in the clear,
\* whichever stores it, raises its level or seals it again (memory.py ingest,
\* hardening.py).
THEOREM ProtectionKept == ProtectionSpec => ProtectionSeals
<1> DEFINE Sealing == protected => \A e \in Events :
                        event'[e] # event[e] /\ Private(event'[e].level) /\ event'[e].kept => event'[e].seal # Clear
<1>1. KeysInv /\ [ProtectionNext]_protectionVars => [Sealing]_protectionVars
  BY SealStep DEF KeysInv
<1> QED BY <1>1, KeysInitInv, KeysStep, PTL DEF ProtectionSpec, ProtectionSeals

-----------------------------------------------------------------------------
(* What is in the indexes.                                                 *)

Texts == {"own", "redacted"}
TextSets == SUBSET (Claims \X Texts)
IndexRun == [provider : Providers, policy : Policies, texts : TextSets]

IndexTypeOK ==
    /\ claim \in [Claims -> ClaimRow]
    /\ \A c \in Claims : claim[c].status # "none" => claim[c].text \in Texts
    /\ fulltext \in [Claims -> {"none"} \cup Texts]
    /\ vectors \in SUBSET Vector
    /\ indexing \in IndexRun \cup {NotIndexing}

\* What an index has, or a process holds, of a claim's own words.
SaysOwn(c, vecs, texts) == (\E v \in vecs : v.claim = c /\ v.text = "own") \/ <<c, "own">> \in texts

ErasedTextIsFound ==
    \A c \in Claims : claim[c].text = "redacted" =>
        fulltext[c] # "own" /\ (c \notin held => ~SaysOwn(c, vectors, indexing.texts))

IndexInv == IndexTypeOK /\ ErasedTextIsFound /\ SearchSeesEveryVector

\* There are no claims yet.
LEMMA IndexInitInv == ProtectionInit => IndexInv
<1> SUFFICES ASSUME ProtectionInit PROVE IndexInv
  OBVIOUS
<1> USE DEF ProtectionInit
<1>1. IndexTypeOK
  BY DEF IndexTypeOK, ClaimRow
<1>2. ErasedTextIsFound
  BY DEF ErasedTextIsFound
<1>3. SearchSeesEveryVector
  BY DEF SearchSeesEveryVector, Searchable, Compared
<1> QED BY <1>1, <1>2, <1>3 DEF IndexInv

\* A step of claims and indexes that adds no words of an erased claim.
LEMMA IndexKept ==
    ASSUME IndexInv, IndexTypeOK', SearchSeesEveryVector', held \subseteq held',
           \A c \in Claims : claim'[c].text = "redacted" =>
               /\ fulltext'[c] # "own"
               /\ c \notin held' =>
                    \/ ~SaysOwn(c, vectors', indexing'.texts)
                    \/ /\ claim[c].text = "redacted"
                       /\ SaysOwn(c, vectors', indexing'.texts) => SaysOwn(c, vectors, indexing.texts)
    PROVE  IndexInv'
BY DEF IndexInv, ErasedTextIsFound

\* Vectors that are marked stale, or pruned, say no more than before.
LEMMA FewerVectors ==
    ASSUME IndexInv, vectors' \in SUBSET Vector,
           \A v \in vectors' : v.status = "indexed" => v \in vectors
    PROVE  SearchSeesEveryVector'
BY DEF IndexInv, SearchSeesEveryVector, Searchable, Compared

\* A vector that is marked stale keeps its text.
LEMMA StaleVector ==
    ASSUME NEW v \in Vector
    PROVE  /\ Stale(v) \in Vector /\ Stale(v).claim = v.claim /\ Stale(v).text = v.text
           /\ Stale(v).status # "indexed" /\ Stale(v).provider = v.provider
BY DEF Stale, Vector

\* New vectors: of the texts that were read, as the policy has it.
LEMMA VectorsOfTexts ==
    ASSUME NEW provider \in Providers, NEW policy \in Policies, NEW texts \in TextSets
    PROVE  \A v \in NewVectors(provider, policy, texts) :
             /\ v \in Vector /\ v.provider = provider /\ v.version = policy
             /\ v.text = "own" => <<v.claim, "own">> \in texts
<1> SUFFICES ASSUME NEW t \in texts, Embeddable(t[1], t[2], provider, policy) # "none",
                    NEW v, v = [claim |-> t[1], provider |-> provider, version |-> policy,
                                text |-> Embeddable(t[1], t[2], provider, policy), status |-> "indexed"]
             PROVE  /\ v \in Vector /\ v.provider = provider /\ v.version = policy
                    /\ v.text = "own" => <<v.claim, "own">> \in texts
  BY DEF NewVectors
<1>1. t[1] \in Claims /\ t[2] \in Texts /\ t = <<t[1], t[2]>>
  BY DEF TextSets
<1>2. Embeddable(t[1], t[2], provider, policy) \in {t[2], "redacted", "none"}
  <2> DEFINE open == ~CitesPrivate(t[1]) \/ policy = "explicit_sensitive_indexing"
             near == CitesPrivate(t[1]) /\ policy = "local_only_sensitive" /\ provider \notin Remote
             blurred == CitesPrivate(t[1]) /\ policy = "index_redacted_sensitive" /\ provider \notin Remote
  <2>1. Embeddable(t[1], t[2], provider, policy) =
          CASE open -> t[2] [] near -> t[2] [] blurred -> "redacted" [] OTHER -> "none"
    BY DEF Embeddable
  <2>2. ~(open /\ blurred) /\ ~(near /\ blurred)
    OBVIOUS
  <2> HIDE DEF open, near, blurred
  <2> QED BY <2>1, <2>2
<1>3. v.claim = t[1] /\ v.provider = provider /\ v.version = policy
      /\ v.text = Embeddable(t[1], t[2], provider, policy)
  OBVIOUS
<1>4. v \in Vector
  BY <1>1, <1>2 DEF Vector, Texts
<1> QED BY <1>1, <1>2, <1>3, <1>4 DEF Texts

\* One run of the index, of texts that were read.
LEMMA EmbeddedStep ==
    ASSUME IndexInv, NEW provider \in Providers, NEW policy \in Policies, NEW texts \in TextSets,
           Embedded(provider, policy, texts), UNCHANGED <<claim, fulltext, held>>,
           indexing' \in {indexing, NotIndexing},
           \A c \in Claims : claim[c].text = "redacted" /\ c \notin held => <<c, "own">> \notin texts
    PROVE  IndexInv'
<1> DEFINE new == NewVectors(provider, policy, texts)
           others == OtherVersions(provider, policy)
           replaced == {v \in vectors : \E n \in new : v.claim = n.claim /\ v.provider = n.provider
                                                       /\ v.version = n.version}
<1>0. IndexTypeOK /\ vectors \in SUBSET Vector /\ others \subseteq vectors
  BY DEF IndexInv, IndexTypeOK, OtherVersions
<1>1. vectors' = ((vectors \ replaced) \ others) \cup {Stale(v) : v \in others} \cup new
  BY DEF Embedded
<1>2. \A v \in new : /\ v \in Vector /\ v.provider = provider /\ v.version = policy
                     /\ v.text = "own" => <<v.claim, "own">> \in texts
  BY VectorsOfTexts, ZenonT(60)
<1>3. \A v \in vectors : v.provider = provider /\ v.version # policy => v \in others
  BY DEF OtherVersions
<1> HIDE DEF new, others, replaced
<1>4. \A w \in vectors' : \/ w \in vectors /\ w \notin others
                          \/ \E v \in others : w = Stale(v)
                          \/ w \in new
  BY <1>1
<1>5. vectors' \in SUBSET Vector
  BY <1>0, <1>2, <1>4, StaleVector
<1>6. IndexTypeOK'
  <2>1. indexing' \in IndexRun \cup {NotIndexing}
    BY <1>0 DEF IndexTypeOK
  <2> QED BY <1>0, <1>5, <2>1 DEF IndexTypeOK
<1>7. SearchSeesEveryVector'
  <2> SUFFICES ASSUME NEW p \in Providers, NEW v \in Searchable(p)', NEW w \in Searchable(p)'
               PROVE  v.version = w.version
    BY DEF SearchSeesEveryVector
  <2>1. ASSUME NEW u \in Searchable(p)' PROVE u.provider = p /\ u.status = "indexed" /\ u \in vectors'
    BY <2>1 DEF Searchable, Compared
  <2>2. ASSUME NEW u \in Searchable(p)' PROVE (u \in vectors /\ u \notin others) \/ u \in new
    BY <1>0, <1>4, <2>1, <2>2, StaleVector
  <2>3. CASE p = provider
    <3>1. ASSUME NEW u \in Searchable(p)' PROVE u.version = policy
      BY <1>2, <1>3, <2>1, <2>2, <2>3, <3>1
    <3> QED BY <3>1
  <2>4. CASE p # provider
    <3>1. ASSUME NEW u \in Searchable(p)' PROVE u \in Searchable(p)
      BY <1>2, <2>1, <2>2, <2>4, <3>1 DEF Searchable, Compared
    <3> QED BY <3>1 DEF IndexInv, SearchSeesEveryVector
  <2> QED BY <2>3, <2>4
<1>8. ASSUME NEW c \in Claims, claim[c].text = "redacted", c \notin held
      PROVE  ~SaysOwn(c, vectors', indexing'.texts)
  <2>1. ~SaysOwn(c, vectors, indexing.texts)
    BY <1>8 DEF IndexInv, ErasedTextIsFound
  <2>2. \A w \in vectors' : ~(w.claim = c /\ w.text = "own")
    BY <1>0, <1>2, <1>4, <1>8, <2>1, StaleVector DEF SaysOwn
  <2>3. <<c, "own">> \notin indexing'.texts
    BY <2>1 DEF SaysOwn, NotIndexing
  <2> QED BY <2>2, <2>3 DEF SaysOwn
<1> QED BY <1>6, <1>7, <1>8 DEF IndexInv, ErasedTextIsFound

\* The texts that are read are those of claims in service.
LEMMA ReadTextsAreCurrent ==
    ASSUME IndexTypeOK, NEW wanted \in SUBSET Claims
    PROVE  TextsOf(wanted) \in TextSets /\ \A c \in Claims : <<c, "own">> \in TextsOf(wanted) => claim[c].text = "own"
BY DEF IndexTypeOK, TextsOf, TextSets

\* An index run, in one transaction or of texts read before.
LEMMA IndexingStep ==
    ASSUME IndexInv,
           \/ StoreVectors
           \/ \E provider \in Providers, policy \in Policies, wanted \in SUBSET Claims :
                IndexSemantic(provider, policy, wanted) \/ ReadTexts(provider, policy, wanted)
    PROVE  IndexInv'
<1>0. IndexTypeOK
  BY DEF IndexInv
<1>1. ASSUME NEW provider \in Providers, NEW policy \in Policies, NEW wanted \in SUBSET Claims,
             IndexSemantic(provider, policy, wanted)
      PROVE  IndexInv'
  <2>1. Embedded(provider, policy, TextsOf(wanted)) /\ UNCHANGED <<claim, fulltext, held, indexing>>
    BY <1>1 DEF IndexSemantic
  <2>2. TextsOf(wanted) \in TextSets /\ \A c \in Claims : claim[c].text = "redacted" => <<c, "own">> \notin TextsOf(wanted)
    BY <1>0, ReadTextsAreCurrent
  <2> QED BY <2>1, <2>2, EmbeddedStep
<1>2. ASSUME NEW provider \in Providers, NEW policy \in Policies, NEW wanted \in SUBSET Claims,
             ReadTexts(provider, policy, wanted)
      PROVE  IndexInv'
  <2>1. indexing' = [provider |-> provider, policy |-> policy, texts |-> TextsOf(wanted)]
        /\ UNCHANGED <<claim, fulltext, vectors, held>>
    BY <1>2 DEF ReadTexts
  <2>2. TextsOf(wanted) \in TextSets /\ \A c \in Claims : claim[c].text = "redacted" => <<c, "own">> \notin TextsOf(wanted)
    BY <1>0, ReadTextsAreCurrent
  <2>3. indexing' \in IndexRun /\ indexing'.texts = TextsOf(wanted)
    BY <2>1, <2>2 DEF IndexRun
  <2>4. IndexTypeOK'
    BY <1>0, <2>1, <2>3 DEF IndexTypeOK
  <2>5. SearchSeesEveryVector'
    BY <2>1 DEF IndexInv, SearchSeesEveryVector, Searchable, Compared
  <2> QED BY <2>1, <2>2, <2>3, <2>4, <2>5 DEF IndexInv, ErasedTextIsFound, SaysOwn
<1>3. CASE StoreVectors
  <2>1. /\ indexing # NotIndexing /\ Embedded(indexing.provider, indexing.policy, indexing.texts)
        /\ UNCHANGED <<claim, fulltext, held>> /\ indexing' = NotIndexing
    BY <1>3 DEF StoreVectors
  <2>2. indexing.provider \in Providers /\ indexing.policy \in Policies /\ indexing.texts \in TextSets
    BY <1>0, <2>1 DEF IndexTypeOK, IndexRun
  <2>3. \A c \in Claims : claim[c].text = "redacted" /\ c \notin held => <<c, "own">> \notin indexing.texts
    BY DEF IndexInv, ErasedTextIsFound, SaysOwn
  <2> QED BY <2>1, <2>2, <2>3, EmbeddedStep
<1> QED BY <1>1, <1>2, <1>3

\* Vectors that are marked stale or pruned.
LEMMA StaleStep ==
    ASSUME IndexInv, NEW provider \in Providers,
           MarkStaleSemantic(provider) \/ VerifySemantic(provider) \/ PruneStaleSemantic(provider)
    PROVE  IndexInv'
<1>0. IndexTypeOK /\ vectors \in SUBSET Vector /\ UNCHANGED <<claim, fulltext, indexing, held>>
  BY DEF IndexInv, IndexTypeOK, MarkStaleSemantic, VerifySemantic, PruneStaleSemantic
<1>1. \A w \in vectors' : \E v \in vectors : w = v \/ w = Stale(v)
  BY DEF MarkStaleSemantic, VerifySemantic, PruneStaleSemantic
<1>2. vectors' \in SUBSET Vector /\ \A v \in vectors' : v.status = "indexed" => v \in vectors
  BY <1>0, <1>1, StaleVector
<1>3. \A w \in vectors' : \E v \in vectors : v.claim = w.claim /\ v.text = w.text
  BY <1>0, <1>1, StaleVector
<1>4. \A c \in Claims : SaysOwn(c, vectors', indexing'.texts) => SaysOwn(c, vectors, indexing.texts)
  BY <1>0, <1>3 DEF SaysOwn
<1>5. IndexTypeOK'
  BY <1>0, <1>2 DEF IndexTypeOK
<1> QED BY <1>0, <1>2, <1>4, <1>5, FewerVectors DEF IndexInv, ErasedTextIsFound

\* Claims go out of service, and some of them lose their text.
LEMMA WithdrawnStep ==
    ASSUME IndexInv, NEW C \in SUBSET Claims, NEW erased \in SUBSET C, UNCHANGED indexing,
           claim' \in [Claims -> ClaimRow],
           \A c \in Claims : c \notin C => claim'[c] = claim[c],
           \A c \in C : claim'[c].text \in Texts /\ (c \notin erased => claim'[c].text = claim[c].text),
           fulltext' = [c \in Claims |-> IF c \in C THEN "none" ELSE fulltext[c]],
           \A w \in vectors' : \E v \in vectors : v.claim \notin erased /\ (w = v \/ w = Stale(v)),
           held \subseteq held', \A c \in erased : <<c, "own">> \in indexing.texts => c \in held'
    PROVE  IndexInv'
<1>0. IndexTypeOK /\ vectors \in SUBSET Vector
  BY DEF IndexInv, IndexTypeOK
<1>1. vectors' \in SUBSET Vector /\ \A v \in vectors' : v.status = "indexed" => v \in vectors
  BY <1>0, StaleVector
<1>2. \A w \in vectors' : \E v \in vectors : v.claim = w.claim /\ v.text = w.text /\ w.claim \notin erased
  BY <1>0, StaleVector
<1>3. IndexTypeOK'
  <2>1. fulltext' \in [Claims -> {"none"} \cup Texts]
    BY <1>0 DEF IndexTypeOK
  <2>2. \A c \in Claims : claim'[c].status # "none" => claim'[c].text \in Texts
    BY <1>0 DEF IndexTypeOK
  <2> QED BY <1>0, <1>1, <2>1, <2>2 DEF IndexTypeOK
<1>4. ASSUME NEW c \in Claims, claim'[c].text = "redacted"
      PROVE  /\ fulltext'[c] # "own"
             /\ c \notin held' => \/ ~SaysOwn(c, vectors', indexing'.texts)
                                  \/ /\ claim[c].text = "redacted"
                                     /\ SaysOwn(c, vectors', indexing'.texts) => SaysOwn(c, vectors, indexing.texts)
  <2>1. CASE c \in erased
    <3>1. fulltext'[c] = "none"
      BY <2>1
    <3>2. c \notin held' => <<c, "own">> \notin indexing'.texts
      BY <2>1
    <3> QED BY <1>2, <2>1, <3>1, <3>2 DEF SaysOwn
  <2>2. CASE c \notin erased
    <3>1. claim[c].text = "redacted"
      BY <1>4, <2>2
    <3>2. fulltext'[c] # "own"
      BY <3>1 DEF IndexInv, ErasedTextIsFound
    <3>3. SaysOwn(c, vectors', indexing'.texts) => SaysOwn(c, vectors, indexing.texts)
      BY <1>2 DEF SaysOwn
    <3> QED BY <3>1, <3>2, <3>3
  <2> QED BY <2>1, <2>2
<1> QED BY <1>0, <1>1, <1>3, <1>4, FewerVectors, IndexKept

\* Redaction, deletion and escalation.
LEMMA ForgetStep ==
    ASSUME IndexInv, NEW C \in SUBSET Claims, \A c \in C : Recorded(c), Archived(C)
    PROVE  IndexInv'
<1>0. claim \in [Claims -> ClaimRow] /\ vectors \in SUBSET Vector
  BY DEF IndexInv, IndexTypeOK
<1>1. /\ claim' = [c \in Claims |-> IF c \in C THEN [claim[c] EXCEPT !.status = "retired"] ELSE claim[c]]
      /\ UNCHANGED <<indexing, held>>
  BY DEF Archived
<1>2. \A c \in Claims : [claim[c] EXCEPT !.status = "retired"] \in ClaimRow
                        /\ [claim[c] EXCEPT !.status = "retired"].status = "retired"
                        /\ [claim[c] EXCEPT !.status = "retired"].text = claim[c].text
  BY <1>0 DEF ClaimRow
<1>3. claim' \in [Claims -> ClaimRow] /\ \A c \in C : claim'[c].text \in Texts /\ claim'[c].text = claim[c].text
  <2>1. \A c \in C : claim[c].text \in Texts
    BY DEF Recorded, IndexInv, IndexTypeOK
  <2> QED BY <1>0, <1>1, <1>2, <2>1
<1>4. \A w \in vectors' : \E v \in vectors : v.claim \notin {} /\ (w = v \/ w = Stale(v))
  BY DEF Archived
<1>5. held \subseteq held' /\ \A c \in {} : <<c, "own">> \in indexing.texts => c \in held'
  BY <1>1
<1>6. fulltext' = [c \in Claims |-> IF c \in C THEN "none" ELSE fulltext[c]] /\ {} \in SUBSET C
  BY DEF Archived
<1> QED BY <1>1, <1>3, <1>4, <1>5, <1>6, WithdrawnStep

\* Erasure takes the words out of a claim, its full-text row and its vectors.
LEMMA EraseStep ==
    ASSUME IndexInv, NEW C \in SUBSET Claims, NEW r \in {RedactedRow, DeletedRow}, Scrubbed(C, r)
    PROVE  IndexInv'
<1>1. claim' = [c \in Claims |-> IF c \in C THEN r ELSE claim[c]] /\ UNCHANGED indexing
      /\ r \in ClaimRow /\ r.text \in Texts
  BY DEF Scrubbed, RedactedRow, DeletedRow, ClaimRow, Texts
<1>2. claim' \in [Claims -> ClaimRow]
  BY <1>1 DEF IndexInv, IndexTypeOK
<1>3. \A w \in vectors' : \E v \in vectors : v.claim \notin C /\ (w = v \/ w = Stale(v))
  BY DEF Scrubbed
<1>4. /\ fulltext' = [c \in Claims |-> IF c \in C THEN "none" ELSE fulltext[c]]
      /\ held \subseteq held' /\ \A c \in C : <<c, "own">> \in indexing.texts => c \in held'
  BY DEF Scrubbed
<1> QED BY <1>1, <1>2, <1>3, <1>4, WithdrawnStep

\* So does retention, for all the claims its policies name.
LEMMA RetentionStep ==
    ASSUME IndexInv, NEW C \in SUBSET Claims, NEW outcome \in [C -> {"archived", "redacted", "deleted"}],
           RunRetention(outcome)
    PROVE  IndexInv'
<1> DEFINE erased == {c \in C : outcome[c] # "archived"}
<1>0. claim \in [Claims -> ClaimRow] /\ DOMAIN outcome = C /\ erased \in SUBSET C
  BY DEF IndexInv, IndexTypeOK
<1>1. \A c \in Claims :
        /\ c \notin C => claim'[c] = claim[c]
        /\ c \in C /\ outcome[c] = "archived" => claim'[c] = [claim[c] EXCEPT !.status = "retired"]
        /\ c \in C /\ outcome[c] # "archived" => claim'[c] \in {RedactedRow, DeletedRow}
  BY <1>0 DEF RunRetention, RetainedRow
<1>2. /\ fulltext' = [c \in Claims |-> IF c \in C THEN "none" ELSE fulltext[c]]
      /\ held \subseteq held' /\ \A c \in erased : <<c, "own">> \in indexing.texts => c \in held'
      /\ UNCHANGED indexing
  BY <1>0 DEF RunRetention, RetainedRow
<1>3. \A c \in Claims : [claim[c] EXCEPT !.status = "retired"] \in ClaimRow
                        /\ [claim[c] EXCEPT !.status = "retired"].status = "retired"
                        /\ [claim[c] EXCEPT !.status = "retired"].text = claim[c].text
  BY <1>0 DEF ClaimRow
<1>4. \A r \in {RedactedRow, DeletedRow} : r \in ClaimRow /\ r.text \in Texts
  BY DEF RedactedRow, DeletedRow, ClaimRow, Texts
<1>5. claim' \in [Claims -> ClaimRow]
  <2>1. \A c \in Claims : claim'[c] \in ClaimRow
    BY <1>0, <1>1, <1>3, <1>4
  <2> QED BY <2>1 DEF RunRetention, RetainedRow
<1>6. \A c \in C : claim'[c].text \in Texts /\ (c \notin erased => claim'[c].text = claim[c].text)
  <2>1. \A c \in C : claim[c].text \in Texts
    BY <1>0 DEF RunRetention, RetainedRow, Recorded, IndexInv, IndexTypeOK
  <2> QED BY <1>1, <1>3, <1>4, <2>1
<1>7. \A w \in vectors' : \E v \in vectors : v.claim \notin erased /\ (w = v \/ w = Stale(v))
  BY <1>0 DEF RunRetention, RetainedRow
<1>8. \A c \in Claims : c \notin C => claim'[c] = claim[c]
  BY <1>1
<1> HIDE DEF erased
<1> QED BY <1>0, <1>2, <1>5, <1>6, <1>7, <1>8, WithdrawnStep

\* A claim's words come in with the claim, and only with it.
LEMMA ClaimStep ==
    ASSUME IndexInv, NEW c \in Claims, RecordClaim(c) \/ ChangeStatus(c)
    PROVE  IndexInv'
<1>0. IndexTypeOK /\ UNCHANGED <<vectors, indexing, held>>
  BY DEF IndexInv, RecordClaim, ChangeStatus
<1>1. SearchSeesEveryVector'
  BY <1>0 DEF IndexInv, SearchSeesEveryVector, Searchable, Compared
<1>2. CASE RecordClaim(c)
  <2>1. /\ claim' \in [Claims -> ClaimRow] /\ claim'[c] = [status |-> "active", text |-> "own"]
        /\ \A d \in Claims : d # c => claim'[d] = claim[d]
    BY <1>0, <1>2 DEF RecordClaim, IndexTypeOK, ClaimRow
  <2>2. fulltext' \in [Claims -> {"none"} \cup Texts] /\ \A d \in Claims : d # c => fulltext'[d] = fulltext[d]
    BY <1>0, <1>2 DEF RecordClaim, IndexTypeOK, Indexed, Texts
  <2>3. IndexTypeOK'
    BY <1>0, <2>1, <2>2 DEF IndexTypeOK, Texts
  <2>4. ErasedTextIsFound'
    BY <1>0, <2>1, <2>2 DEF IndexInv, ErasedTextIsFound, SaysOwn
  <2> QED BY <1>1, <2>3, <2>4 DEF IndexInv
<1>3. CASE ChangeStatus(c)
  <2>1. claim[c] \in ClaimRow /\ claim[c].text \in Texts
    BY <1>0, <1>3 DEF ChangeStatus, Recorded, IndexTypeOK
  <2>2. PICK s \in {"active", "retired"} : claim' = [claim EXCEPT ![c].status = s]
    BY <1>0, <1>3 DEF ChangeStatus, IndexTypeOK
  <2>3. [claim[c] EXCEPT !.status = s] \in ClaimRow /\ [claim[c] EXCEPT !.status = s].text = claim[c].text
    BY <2>1 DEF ClaimRow
  <2>4. /\ claim' \in [Claims -> ClaimRow]
        /\ \A d \in Claims : claim'[d].text = claim[d].text /\ (d # c => claim'[d] = claim[d])
    BY <1>0, <2>2, <2>3 DEF IndexTypeOK
  <2>5. UNCHANGED fulltext
    BY <1>3 DEF ChangeStatus
  <2>6. IndexTypeOK'
    BY <1>0, <2>1, <2>4, <2>5 DEF IndexTypeOK
  <2> QED BY <1>0, <1>1, <2>4, <2>5, <2>6 DEF IndexInv, ErasedTextIsFound, SaysOwn
<1> QED BY <1>2, <1>3

\* Keys, payloads, findings and the mode are in no index.
LEMMA IndexStutter ==
    ASSUME IndexInv, UNCHANGED <<claim, fulltext, vectors, indexing, held>>
    PROVE  IndexInv'
BY DEF IndexInv, IndexTypeOK, ErasedTextIsFound, SaysOwn, SearchSeesEveryVector, Searchable, Compared

\* A repair puts in what the claim says by then.
LEMMA RepairStep == ASSUME IndexInv, RepairFulltext PROVE IndexInv'
<1>0. IndexTypeOK /\ UNCHANGED <<claim, vectors, indexing, held>>
  BY DEF IndexInv, RepairFulltext
<1>1. \A c \in Claims : fulltext'[c] \in {"none", claim[c].text}
                        /\ (claim[c].status # "active" => fulltext'[c] = "none")
  BY DEF RepairFulltext, Indexed
<1>2. \A c \in Claims : fulltext'[c] \in {"none"} \cup Texts
  BY <1>0, <1>1 DEF IndexTypeOK
<1>3. fulltext' \in [Claims -> {"none"} \cup Texts]
  BY <1>2 DEF RepairFulltext
<1>4. IndexTypeOK'
  BY <1>0, <1>3 DEF IndexTypeOK
<1>5. SearchSeesEveryVector'
  BY <1>0 DEF IndexInv, SearchSeesEveryVector, Searchable, Compared
<1> QED BY <1>0, <1>1, <1>4, <1>5 DEF IndexInv, ErasedTextIsFound, SaysOwn

\* The invariant is inductive.
LEMMA IndexStep == IndexInv /\ [ProtectionNext]_protectionVars => IndexInv'
<1> SUFFICES ASSUME IndexInv, [ProtectionNext]_protectionVars PROVE IndexInv'
  OBVIOUS
<1>1. ASSUME NEW e \in Events, RedactEvent(e) \/ DeleteEvent(e) PROVE IndexInv'
  <2>1. Scrubbed(Citing(e), RedactedRow) /\ Citing(e) \in SUBSET Claims
    BY <1>1 DEF RedactEvent, DeleteEvent, EraseEvent, Citing
  <2> QED BY <2>1, EraseStep
<1>2. ASSUME NEW e \in Events, ForgetEvent(e) PROVE IndexInv'
  <2>1. Archived(Citing(e)) /\ Citing(e) \in SUBSET Claims /\ \A c \in Citing(e) : Recorded(c)
    BY <1>2 DEF ForgetEvent, Citing
  <2> QED BY <2>1, ForgetStep
<1>3. ASSUME NEW c \in Claims, ForgetClaim(c) PROVE IndexInv'
  BY <1>3, ForgetStep DEF ForgetClaim
<1>4. ASSUME NEW c \in Claims, EraseClaim(c, RedactedRow) \/ EraseClaim(c, DeletedRow) PROVE IndexInv'
  BY <1>4, EraseStep DEF EraseClaim
<1>5. CASE UNCHANGED protectionVars
  BY <1>5, IndexStutter DEF protectionVars
<1>6. CASE CreateKey \/ CheckIntegrity \/ \E on \in BOOLEAN : SetProtectedMode(on)
  BY <1>6, IndexStutter DEF CreateKey, CheckIntegrity, SetProtectedMode
<1>7. CASE CommitRotation \/ \E k \in Keys : RotateKey(k) \/ CountForRotation(k)
  BY <1>7, IndexStutter DEF CommitRotation, RotateKey, CountForRotation, Rotated
<1>8. CASE \E e \in Events, level \in Levels : WriteEvent(e, level)
  BY <1>8, IndexStutter DEF WriteEvent
<1> QED BY <1>1, <1>2, <1>3, <1>4, <1>5, <1>6, <1>7, <1>8, RepairStep, IndexingStep, StaleStep, RetentionStep, ClaimStep
        DEF ProtectionNext

\* So it holds throughout.
LEMMA IndexAlways == ProtectionSpec => []IndexInv
BY IndexInitInv, IndexStep, PTL DEF ProtectionSpec

\* Whatever is indexed, rebuilt, repaired or pruned meanwhile, no words of a
\* redacted or deleted claim stay in the full-text index or in a live vector, but
\* for a vector of text that a library process held (deletion.py apply, semantic
\* index).
THEOREM IndexesForget == ProtectionSpec => []ErasedTextLeavesIndexes
<1>1. IndexInv => ErasedTextLeavesIndexes
  BY DEF IndexInv, ErasedTextIsFound, SaysOwn, ErasedTextLeavesIndexes
<1> QED BY <1>1, IndexAlways, PTL

\* The vectors of a provider that a search can match are of one index version, in
\* whatever order index runs of different policies end (memory.py index_semantic,
\* semantic search).
THEOREM SearchIsComplete == ProtectionSpec => []SearchSeesEveryVector
<1>1. IndexInv => SearchSeesEveryVector
  BY DEF IndexInv
<1> QED BY <1>1, IndexAlways, PTL

-----------------------------------------------------------------------------
(* Databases: what is stored in them, and what upgrades do to it.          *)

States == {"absent", "default", "own"}
Releases == 0..3
WriteSets == SUBSET Writes
SettingSets == [Defaults -> States]
DB == [marker : Releases, triggers : Releases, writes : WriteSets, generation : Nat, epoch : Nat,
       settings : SettingSets]

\* Only what has the triggers has a generation, and what was never opened holds
\* nothing.
Whole(db) == (db.triggers = 0 <=> db.generation = 0) /\ (db.marker = 0 => db.writes = {})
WholeDB == {db \in DB : Whole(db)}

Doings == {"nothing", "archived", "upgrading", "restoring", "replacing"}
Activity == [doing : Doings, file : Files \cup {"none"}, seen : 0..3, archive : Backups \cup {"none"},
             over : BOOLEAN, held : WholeDB]
Kind == {"none", "kept", "damaged"}
ArchiveSets == [Backups -> [state : Kind, file : WholeDB]]

DatabasesTypeOK ==
    /\ file \in [Files -> WholeDB]
    /\ archive \in ArchiveSets
    /\ process \in [Processes -> Activity]
    /\ generations \in Nat
    /\ inspected \in WholeDB

\* What earlier releases leave is whole.
LEMMA AbsentIsDB == Absent \in WholeDB /\ Published \in WholeDB /\ Unextended \in WholeDB /\ Idle \in Activity
<1>1. /\ Absent \in DB /\ Absent.settings = [d \in Defaults |-> "absent"] /\ Absent.writes = {}
      /\ Absent.triggers = 0 /\ Absent.generation = 0
  BY DEF Absent, DB, States, Releases, WriteSets, SettingSets
<1>2. [d \in Defaults |-> "default"] \in SettingSets /\ 1 \in Releases /\ 2 \in Releases /\ Marker.first = 1 /\ Marker.current = 2 /\ Triggers.earlier = 1
  BY DEF States, Marker, Triggers, Releases, SettingSets
<1>3. Published \in DB /\ Published.writes = {} /\ Published.triggers = 0 /\ Published.generation = 0
  BY <1>1, <1>2 DEF Published, DB
<1>4. Unextended \in DB /\ Unextended.writes = {} /\ Unextended.triggers = 1 /\ Unextended.generation = 1
  BY <1>2, <1>3 DEF Unextended, DB
<1>5. Absent \in WholeDB /\ Published \in WholeDB /\ Unextended \in WholeDB
  BY <1>1, <1>3, <1>4 DEF WholeDB, Whole
<1>6. Idle \in Activity
  BY <1>5 DEF Idle, Activity, Doings
<1> QED BY <1>5, <1>6

\* A new generation changes nothing that is stored.
LEMMA RedrawnKeeps ==
    ASSUME NEW db \in DB, NEW n \in Nat
    PROVE  /\ Redrawn(db, n) \in DB
           /\ Redrawn(db, n).marker = db.marker /\ Redrawn(db, n).triggers = db.triggers
           /\ Redrawn(db, n).writes = db.writes /\ Redrawn(db, n).settings = db.settings
           /\ Redrawn(db, n).generation = n
<1> DEFINE m == IF db.triggers = Triggers.none THEN 0 ELSE db.epoch + 1
<1>1. m \in Nat
  BY DEF DB
<1>2. Redrawn(db, n) = [db EXCEPT !.generation = n, !.epoch = m]
  BY DEF Redrawn
<1> HIDE DEF m
<1> QED BY <1>1, <1>2 DEF DB

\* A backfill leaves what an owner set.
LEMMA BackfillKeeps ==
    ASSUME NEW settings \in SettingSets, NEW seen
    PROVE  /\ Backfilled(settings, seen) \in SettingSets
           /\ \A d \in Defaults : settings[d] = "own" => Backfilled(settings, seen)[d] = "own"
BY DEF Backfilled, Kept, States, SettingSets

\* An upgrade keeps what was written and what was set.
LEMMA UpgradeKeeps ==
    ASSUME NEW db \in DB, NEW seen, NEW n \in Nat, n > 0
    PROVE  /\ Upgraded(db, seen, n) \in WholeDB
           /\ Upgraded(db, seen, n).marker = 2 /\ Upgraded(db, seen, n).triggers = 2
           /\ Upgraded(db, seen, n).writes = db.writes /\ Upgraded(db, seen, n).generation = n
           /\ \A d \in Defaults : db.settings[d] = "own" => Upgraded(db, seen, n).settings[d] = "own"
<1> DEFINE new == Redrawn(db, n)
           settings == Backfilled(db.settings, seen)
<1>1. new \in DB /\ new.writes = db.writes /\ new.generation = n
  BY RedrawnKeeps
<1>2. settings \in SettingSets /\ \A d \in Defaults : db.settings[d] = "own" => settings[d] = "own"
  BY BackfillKeeps DEF DB
<1>0. 2 \in Releases
  BY DEF Releases
<1>3. Upgraded(db, seen, n) = [new EXCEPT !.marker = 2, !.triggers = 2, !.settings = settings]
  BY DEF Upgraded, Marker, Triggers
<1> HIDE DEF new, settings
<1>4. /\ Upgraded(db, seen, n) \in DB
      /\ Upgraded(db, seen, n).marker = 2 /\ Upgraded(db, seen, n).triggers = 2
      /\ Upgraded(db, seen, n).writes = db.writes /\ Upgraded(db, seen, n).generation = n
      /\ Upgraded(db, seen, n).settings = settings
  BY <1>0, <1>1, <1>2, <1>3 DEF DB
<1> QED BY <1>2, <1>4 DEF WholeDB, Whole

\* So does a newer release.
LEMMA NewerKeeps ==
    ASSUME NEW db \in DB, NEW n \in Nat, n > 0, NEW triggers \in {Triggers.current, Triggers.newer}
    PROVE  /\ Newer(db, triggers, n) \in WholeDB /\ Newer(db, triggers, n).writes = db.writes
           /\ Newer(db, triggers, n).generation = n /\ Newer(db, triggers, n).triggers = triggers
           /\ \A d \in Defaults : db.settings[d] = "own" => Newer(db, triggers, n).settings[d] = "own"
<1> DEFINE base == Redrawn(db, n)
           settings == [d \in Defaults |-> Kept(db.settings[d])]
<1>1. base \in DB /\ base.writes = db.writes /\ base.generation = n
  BY RedrawnKeeps
<1>2. triggers \in {2, 3} /\ Marker.newer = 3 /\ triggers \in Releases /\ 3 \in Releases
  BY DEF Triggers, Marker, Releases
<1>3. settings \in SettingSets /\ \A d \in Defaults : db.settings[d] = "own" => settings[d] = "own"
  BY DEF DB, Kept, States, SettingSets
<1>4. Newer(db, triggers, n) = [base EXCEPT !.marker = 3, !.triggers = triggers, !.settings = settings]
  BY <1>2 DEF Newer
<1> HIDE DEF base, settings
<1>5. /\ Newer(db, triggers, n) \in DB /\ Newer(db, triggers, n).marker = 3
      /\ Newer(db, triggers, n).triggers = triggers /\ Newer(db, triggers, n).writes = db.writes
      /\ Newer(db, triggers, n).generation = n /\ Newer(db, triggers, n).settings = settings
  BY <1>1, <1>2, <1>3, <1>4 DEF DB
<1>6. Newer(db, triggers, n) \in WholeDB
  BY <1>2, <1>5 DEF WholeDB, Whole
<1> QED BY <1>3, <1>5, <1>6

\* What a restore is to put in place.
LEMMA PreparedKeeps ==
    ASSUME NEW db \in WholeDB, generations \in Nat
    PROVE  /\ Prepared(db) \in WholeDB
           /\ Prepared(db).marker = 2 /\ Prepared(db).generation = generations + 2
<1> DEFINE base == IF Current(db) THEN db ELSE Upgraded(db, db.marker, generations + 1)
<1>1. db \in DB
  BY DEF WholeDB
<1>2. base \in DB /\ base.marker = 2 /\ base.triggers = 2
  <2>1. CASE Current(db)
    BY <1>1, <2>1 DEF Current, Marker, Triggers
  <2>2. CASE ~Current(db)
    BY <1>1, <2>2, UpgradeKeeps DEF WholeDB
  <2> QED BY <2>1, <2>2
<1>3. Prepared(db) = Redrawn(base, generations + 2)
  BY DEF Prepared
<1> HIDE DEF base
<1>4. Prepared(db) \in DB /\ Prepared(db).marker = 2 /\ Prepared(db).triggers = 2 /\ Prepared(db).generation = generations + 2
  BY <1>2, <1>3, RedrawnKeeps
<1> QED BY <1>4 DEF WholeDB, Whole

-----------------------------------------------------------------------------

\* What each step does to the files.
FileStep ==
    \/ UNCHANGED file
    \/ \E p \in Processes : Migrate(p)
    \/ \E f \in Files, t \in {Triggers.current, Triggers.newer} : NewerRelease(f, t)
    \/ \E f \in Files, w \in Writes : Write(f, w)
    \/ \E f \in Files, d \in Settings : Choose(f, d)
    \/ \E p \in Processes : Replace(p)

\* Nothing else touches the files.
LEMMA StepsOfFiles == DatabasesNext => FileStep
<1>1. ASSUME NEW p \in Processes, NEW f \in Files, ReadVersion(p, f) PROVE UNCHANGED file
  BY <1>1 DEF ReadVersion
<1>2. ASSUME NEW p \in Processes, SetAside(p) \/ Stop(p) PROVE UNCHANGED file
  BY <1>2 DEF SetAside, Stop
<1>3. ASSUME NEW f \in Files, Inspect(f) PROVE UNCHANGED file
  BY <1>3 DEF Inspect
<1>4. ASSUME NEW a \in Backups, NEW f \in Files, Backup(a, f) \/ Damage(a) PROVE UNCHANGED file
  BY <1>4 DEF Backup, Damage
<1>5. ASSUME NEW p \in Processes, NEW a \in Backups, NEW f \in Files, NEW over \in BOOLEAN,
             Apply(p, a, f) \/ Prepare(p, a, f, over)
      PROVE  UNCHANGED file
  BY <1>5 DEF Apply, Prepare
<1>6. ASSUME NEW a \in Backups, Damage(a) PROVE UNCHANGED file
  BY <1>6 DEF Damage
<1> QED BY <1>1, <1>2, <1>3, <1>4, <1>5, <1>6 DEF DatabasesNext, FileStep

\* A write and a choice, in one database.
LEMMA WriteKeeps ==
    ASSUME NEW db \in WholeDB, NEW w \in Writes, db.marker > 0
    PROVE  LET new == [db EXCEPT !.writes = @ \cup {w}, !.epoch = IF db.triggers = Triggers.none THEN @ ELSE @ + 1]
           IN  /\ new \in WholeDB /\ new.writes = db.writes \cup {w} /\ new.settings = db.settings
               /\ new.generation = db.generation /\ new.triggers = db.triggers
               /\ db.triggers # 0 => new.epoch = db.epoch + 1
<1> DEFINE writes == db.writes \cup {w}
           epoch == IF db.triggers = Triggers.none THEN db.epoch ELSE db.epoch + 1
           new == [db EXCEPT !.writes = writes, !.epoch = epoch]
<1>1. db \in DB /\ db.marker > 0 /\ Whole(db)
  BY DEF WholeDB
<1>2. writes \in WriteSets
  BY <1>1 DEF DB, WriteSets
<1>3. epoch \in Nat /\ (db.triggers # 0 => epoch = db.epoch + 1)
  BY <1>1 DEF DB, Triggers
<1>4. new = [db EXCEPT !.writes = @ \cup {w}, !.epoch = IF db.triggers = Triggers.none THEN @ ELSE @ + 1]
  OBVIOUS
<1>5. new.writes = writes /\ writes = db.writes \cup {w}
  BY <1>1 DEF DB
<1> HIDE DEF writes, epoch
<1>6. /\ new \in DB /\ new.settings = db.settings /\ new.epoch = epoch
      /\ new.generation = db.generation /\ new.triggers = db.triggers /\ new.marker = db.marker
  BY <1>1, <1>2, <1>3 DEF DB
<1> HIDE DEF new
<1>7. new \in WholeDB
  <2>1. db.marker \in 0..3 /\ db.marker # 0
    BY <1>1 DEF DB, Releases
  <2> QED BY <1>1, <1>6, <2>1 DEF WholeDB, Whole
<1> QED BY <1>3, <1>4, <1>5, <1>6, <1>7

\* A choice is of one setting and of nothing else.
LEMMA ChoiceKeeps ==
    ASSUME NEW db \in WholeDB, NEW s \in Settings
    PROVE  LET new == [db EXCEPT !.settings[s] = "own"]
           IN  /\ new \in WholeDB /\ new.writes = db.writes /\ new.generation = db.generation
               /\ new.epoch = db.epoch /\ new.triggers = db.triggers
               /\ \A d \in Defaults : db.settings[d] = "own" => new.settings[d] = "own"
<1> DEFINE settings == [db.settings EXCEPT ![s] = "own"]
           new == [db EXCEPT !.settings = settings]
<1>1. db \in DB /\ db.settings \in SettingSets /\ s \in Defaults
  BY DatabasesAssumption DEF WholeDB, DB
<1>2. settings \in SettingSets /\ \A d \in Defaults : db.settings[d] = "own" => settings[d] = "own"
  BY <1>1 DEF States, SettingSets
<1>3. new = [db EXCEPT !.settings[s] = "own"]
  OBVIOUS
<1> HIDE DEF settings
<1>4. /\ new \in DB /\ new.writes = db.writes /\ new.generation = db.generation
      /\ new.epoch = db.epoch /\ new.triggers = db.triggers /\ new.marker = db.marker /\ new.settings = settings
  BY <1>1, <1>2 DEF DB
<1>5. new \in WholeDB
  BY <1>4 DEF WholeDB, Whole
<1> HIDE DEF new
<1> QED BY <1>2, <1>3, <1>4, <1>5

\* The files after a step: one of them, at most, is another.
LEMMA FilesAfter ==
    ASSUME DatabasesTypeOK, FileStep
    PROVE  /\ file' \in [Files -> WholeDB]
           /\ \A f \in Files, d \in Settings : file[f].settings[d] = "own" /\ file'[f].settings[d] # "own"
                => \E p \in Processes : process[p].doing = "replacing" /\ process[p].file = f
<1> DEFINE Good == /\ file' \in [Files -> WholeDB]
                   /\ \A f \in Files, d \in Settings : file[f].settings[d] = "own" /\ file'[f].settings[d] # "own"
                        => \E p \in Processes : process[p].doing = "replacing" /\ process[p].file = f
<1>0. file \in [Files -> WholeDB] /\ generations \in Nat /\ Settings \subseteq Defaults
  BY DatabasesAssumption DEF DatabasesTypeOK
<1>1. ASSUME NEW f \in Files, NEW new \in WholeDB, file' = [file EXCEPT ![f] = new],
             \A d \in Defaults : file[f].settings[d] = "own" => new.settings[d] = "own"
      PROVE  Good
  BY <1>0, <1>1
<1>2. ASSUME NEW p \in Processes, Migrate(p) PROVE Good
  <2> DEFINE f == process[p].file
             new == Upgraded(file[f], process[p].seen, generations + 1)
  <2>1. file' = file \/ file' = [file EXCEPT ![f] = new]
    BY <1>2 DEF Migrate
  <2>2. f \in Files => file[f] \in DB
    BY <1>0 DEF WholeDB
  <2>3. f \in Files => /\ new \in WholeDB
                       /\ \A d \in Defaults : file[f].settings[d] = "own" => new.settings[d] = "own"
    BY <1>0, <2>2, UpgradeKeeps
  <2> HIDE DEF f, new
  <2>4. f \notin Files => file' = file
    BY <1>0, <2>1
  <2> QED BY <1>0, <1>1, <2>1, <2>3, <2>4
<1>3. ASSUME NEW f \in Files, NEW t \in {Triggers.current, Triggers.newer}, NewerRelease(f, t) PROVE Good
  <2> DEFINE new == Newer(file[f], t, generations + 1)
  <2>1. file' = [file EXCEPT ![f] = new]
    BY <1>3 DEF NewerRelease
  <2>2. file[f] \in DB
    BY <1>0 DEF WholeDB
  <2>3. new \in WholeDB /\ \A d \in Defaults : file[f].settings[d] = "own" => new.settings[d] = "own"
    BY <1>0, <2>2, NewerKeeps
  <2> HIDE DEF new
  <2> QED BY <1>1, <2>1, <2>3
<1>4. ASSUME NEW f \in Files, NEW w \in Writes, Write(f, w) PROVE Good
  <2> DEFINE new == [file[f] EXCEPT !.writes = @ \cup {w},
                                    !.epoch = IF file[f].triggers = Triggers.none THEN @ ELSE @ + 1]
  <2>1. file' = [file EXCEPT ![f] = new] /\ file[f] \in WholeDB /\ file[f].marker > 0
    BY <1>0, <1>4 DEF Write, Exists
  <2>2. new \in WholeDB /\ new.settings = file[f].settings
    BY <2>1, WriteKeeps
  <2> HIDE DEF new
  <2> QED BY <1>1, <2>1, <2>2
<1>5. ASSUME NEW f \in Files, NEW s \in Settings, Choose(f, s) PROVE Good
  <2> DEFINE new == [file[f] EXCEPT !.settings[s] = "own"]
  <2>1. file' = [file EXCEPT ![f] = new] /\ file[f] \in WholeDB
    BY <1>0, <1>5 DEF Choose
  <2>2. new \in WholeDB /\ \A d \in Defaults : file[f].settings[d] = "own" => new.settings[d] = "own"
    BY <2>1, ChoiceKeeps
  <2> HIDE DEF new
  <2> QED BY <1>1, <2>1, <2>2
<1>6. ASSUME NEW p \in Processes, Replace(p) PROVE Good
  <2>1. file' = [file EXCEPT ![process[p].file] = process[p].held] /\ process[p].doing = "replacing"
    BY <1>6 DEF Replace
  <2>2. process[p].held \in WholeDB
    BY DEF DatabasesTypeOK, Activity
  <2>3. file' \in [Files -> WholeDB] /\ \A f \in Files : f # process[p].file => file'[f] = file[f]
    BY <1>0, <2>1, <2>2
  <2> QED BY <2>1, <2>3
<1>7. ASSUME UNCHANGED file PROVE Good
  BY <1>0, <1>7
<1> QED BY <1>2, <1>3, <1>4, <1>5, <1>6, <1>7 DEF FileStep

-----------------------------------------------------------------------------

\* What a process may become, whatever it does.
Upgrading(p, f) == [process[p] EXCEPT !.doing = "upgrading", !.file = f, !.seen = file[f].marker]
BackedUp(a, f) == [Idle EXCEPT !.doing = "archived", !.file = f, !.archive = a]
Restoring(a, f, over) ==
    [Idle EXCEPT !.doing = "restoring", !.file = f, !.archive = a, !.over = over, !.held = Prepared(archive[a].file)]
AboutToReplace(p) == [process[p] EXCEPT !.doing = "replacing"]

Becomes(p, new) ==
    \/ new = Idle
    \/ \E f \in Files : new = Upgrading(p, f)
    \/ \E a \in Backups, f \in Files : new = BackedUp(a, f)
    \/ \E a \in Backups, f \in Files, over \in BOOLEAN : Prepare(p, a, f, over) /\ new = Restoring(a, f, over)
    \/ SetAside(p) /\ new = AboutToReplace(p)

ProcessStep(p) == \E new : process' = [process EXCEPT ![p] = new] /\ Becomes(p, new)

\* These are activities.
LEMMA ProcessTypes ==
    ASSUME DatabasesTypeOK, NEW p \in Processes
    PROVE  /\ Idle \in Activity /\ Idle.doing = "nothing"
           /\ \A f \in Files : Upgrading(p, f) \in Activity /\ Upgrading(p, f).doing = "upgrading"
           /\ \A f \in Files, a \in Backups : BackedUp(a, f) \in Activity /\ BackedUp(a, f).doing = "archived"
           /\ \A f \in Files, a \in Backups, over \in BOOLEAN :
                 Restoring(a, f, over) \in Activity /\ Restoring(a, f, over).doing = "restoring"
           /\ AboutToReplace(p) \in Activity
<1>0. /\ process \in [Processes -> Activity] /\ process[p] \in Activity
      /\ Idle \in Activity /\ Idle.doing = "nothing"
      /\ file \in [Files -> WholeDB] /\ archive \in [Backups -> [state : Kind, file : WholeDB]]
  BY AbsentIsDB DEF DatabasesTypeOK, ArchiveSets, Idle
<1>2. ASSUME NEW f \in Files PROVE Upgrading(p, f) \in Activity /\ Upgrading(p, f).doing = "upgrading"
  <2>1. file[f].marker \in 0..3
    BY <1>0 DEF WholeDB, DB, Releases
  <2> QED BY <1>0, <2>1 DEF Activity, Doings, Upgrading
<1>3. ASSUME NEW f \in Files, NEW a \in Backups PROVE BackedUp(a, f) \in Activity /\ BackedUp(a, f).doing = "archived"
  BY <1>0 DEF Activity, Doings, BackedUp
<1>4. ASSUME NEW f \in Files, NEW a \in Backups, NEW over \in BOOLEAN
      PROVE  Restoring(a, f, over) \in Activity /\ Restoring(a, f, over).doing = "restoring"
  <2>1. Prepared(archive[a].file) \in WholeDB
    BY <1>0, PreparedKeeps DEF DatabasesTypeOK
  <2> QED BY <1>0, <2>1 DEF Activity, Doings, Restoring
<1>5. AboutToReplace(p) \in Activity
  BY <1>0 DEF Activity, Doings, AboutToReplace
<1> QED BY <1>0, <1>2, <1>3, <1>4, <1>5

\* A step is of one process, if of any.
LEMMA StepsOfProcesses == DatabasesNext => UNCHANGED process \/ \E p \in Processes : ProcessStep(p)
<1>1. ASSUME NEW p \in Processes, NEW f \in Files, ReadVersion(p, f) PROVE ProcessStep(p)
  <2>1. process' = [process EXCEPT ![p] = IF Migratable(file[f]) /\ ~Current(file[f]) THEN Upgrading(p, f) ELSE Idle]
    BY <1>1 DEF ReadVersion, Upgrading
  <2> QED BY <2>1 DEF ProcessStep, Becomes
<1>2. ASSUME NEW p \in Processes, Migrate(p) \/ Replace(p) \/ Stop(p) PROVE ProcessStep(p)
  <2>1. process' = [process EXCEPT ![p] = Idle]
    BY <1>2 DEF Migrate, Replace, Stop
  <2> QED BY <2>1 DEF ProcessStep, Becomes
<1>3. ASSUME NEW p \in Processes, SetAside(p) PROVE ProcessStep(p)
  <2>1. \/ process' = [process EXCEPT ![p] = Idle]
        \/ process' = [process EXCEPT ![p] = AboutToReplace(p)]
    BY <1>3 DEF SetAside, AboutToReplace
  <2> QED BY <1>3, <2>1 DEF ProcessStep, Becomes
<1>4. ASSUME NEW p \in Processes, NEW a \in Backups, NEW f \in Files, Apply(p, a, f) PROVE ProcessStep(p)
  <2>1. process' = [process EXCEPT ![p] = BackedUp(a, f)]
    BY <1>4 DEF Apply, Archiving, BackedUp
  <2> QED BY <2>1 DEF ProcessStep, Becomes
<1>5. ASSUME NEW p \in Processes, NEW a \in Backups, NEW f \in Files, NEW over \in BOOLEAN, Prepare(p, a, f, over)
      PROVE  ProcessStep(p)
  <2>1. process' = [process EXCEPT ![p] = Restoring(a, f, over)]
    BY <1>5 DEF Prepare, Restoring
  <2> QED BY <1>5, <2>1 DEF ProcessStep, Becomes
<1>6. ASSUME NEW f \in Files, \/ \E t \in {Triggers.current, Triggers.newer} : NewerRelease(f, t)
                              \/ \E w \in Writes : Write(f, w)
                              \/ \E d \in Settings : Choose(f, d)
                              \/ Inspect(f)
                              \/ \E a \in Backups : Backup(a, f)
      PROVE  UNCHANGED process
  BY <1>6 DEF NewerRelease, Write, Choose, Inspect, Backup
<1>7. ASSUME NEW a \in Backups, Damage(a) PROVE UNCHANGED process
  BY <1>7 DEF Damage
<1> QED BY <1>1, <1>2, <1>3, <1>4, <1>5, <1>6, <1>7 DEF DatabasesNext

\* What the steps do to backups, generations and what was inspected.
OtherStep ==
    /\ \/ archive' = archive
       \/ \E a \in Backups, f \in Files : archive' = Copied(a, f)
       \/ \E a \in Backups : archive' = [archive EXCEPT ![a].state = "damaged"]
    /\ generations' \in {generations, generations + 1, generations + 2}
    /\ inspected' = inspected \/ \E f \in Files : inspected' = file[f]

\* These are the changes of backups, generations and what was inspected.
LEMMA StepsOfOthers == DatabasesNext => OtherStep
<1>1. ASSUME NEW p \in Processes, NEW f \in Files, ReadVersion(p, f) PROVE OtherStep
  BY <1>1 DEF ReadVersion, ghosts, OtherStep
<1>2. ASSUME NEW p \in Processes, Migrate(p) \/ SetAside(p) \/ Replace(p) \/ Stop(p) PROVE OtherStep
  BY <1>2 DEF Migrate, SetAside, Replace, Stop, ghosts, OtherStep
<1>3. ASSUME NEW f \in Files, NEW t \in {Triggers.current, Triggers.newer}, NewerRelease(f, t) PROVE OtherStep
  BY <1>3 DEF NewerRelease, ghosts, OtherStep
<1>4. ASSUME NEW f \in Files, \/ \E w \in Writes : Write(f, w)
                              \/ \E d \in Settings : Choose(f, d)
                              \/ Inspect(f)
      PROVE  OtherStep
  BY <1>4 DEF Write, Choose, Inspect, ghosts, OtherStep
<1>5. ASSUME NEW a \in Backups, NEW f \in Files, Backup(a, f) PROVE OtherStep
  BY <1>5 DEF Backup, ghosts, OtherStep
<1>6. ASSUME NEW a \in Backups, Damage(a) PROVE OtherStep
  <2>1. archive' = [archive EXCEPT ![a].state = "damaged"] /\ UNCHANGED <<generations, inspected>>
    BY <1>6 DEF Damage, ghosts
  <2> QED BY <2>1 DEF OtherStep
<1>7. ASSUME NEW p \in Processes, NEW a \in Backups, NEW f \in Files, NEW over \in BOOLEAN,
             Apply(p, a, f) \/ Prepare(p, a, f, over)
      PROVE  OtherStep
  BY <1>7 DEF Apply, Prepare, ghosts, OtherStep
<1> QED BY <1>1, <1>2, <1>3, <1>4, <1>5, <1>6, <1>7 DEF DatabasesNext

\* What earlier releases leave has the types.
LEMMA DatabasesInitTypes == DatabasesInit => DatabasesTypeOK
<1> SUFFICES ASSUME DatabasesInit PROVE DatabasesTypeOK
  OBVIOUS
<1>1. file \in [Files -> WholeDB]
  BY AbsentIsDB DEF DatabasesInit
<1>2. archive \in ArchiveSets
  BY AbsentIsDB DEF DatabasesInit, Kind, ArchiveSets
<1>3. process \in [Processes -> Activity]
  BY AbsentIsDB DEF DatabasesInit
<1> QED BY <1>1, <1>2, <1>3, AbsentIsDB DEF DatabasesInit, DatabasesTypeOK

\* Every step keeps the types.
LEMMA DatabasesTypes == DatabasesTypeOK /\ [DatabasesNext]_databaseVars => DatabasesTypeOK'
<1>1. CASE UNCHANGED databaseVars
  BY <1>1 DEF databaseVars, DatabasesTypeOK
<1>2. ASSUME DatabasesTypeOK, DatabasesNext PROVE DatabasesTypeOK'
  <2>1. file' \in [Files -> WholeDB]
    BY <1>2, StepsOfFiles, FilesAfter
  <2>2. process' \in [Processes -> Activity]
    <3>1. CASE UNCHANGED process
      BY <1>2, <3>1 DEF DatabasesTypeOK
    <3>2. ASSUME NEW p \in Processes, ProcessStep(p) PROVE process' \in [Processes -> Activity]
      <4>1. PICK new : process' = [process EXCEPT ![p] = new] /\ Becomes(p, new)
        BY <3>2 DEF ProcessStep
      <4>2. new \in Activity
        BY <1>2, <4>1, ProcessTypes DEF Becomes
      <4> QED BY <1>2, <4>1, <4>2 DEF DatabasesTypeOK
    <3> QED BY <1>2, <3>1, <3>2, StepsOfProcesses
  <2>3. OtherStep
    BY <1>2, StepsOfOthers
  <2>4. archive' \in ArchiveSets
    <3>0. archive \in ArchiveSets
      BY <1>2 DEF DatabasesTypeOK
    <3>1. \A a \in Backups, f \in Files : Copied(a, f) \in ArchiveSets
      BY <1>2 DEF DatabasesTypeOK, Copied, Kind, ArchiveSets
    <3>2. \A a \in Backups : [archive EXCEPT ![a].state = "damaged"] \in ArchiveSets
      BY <1>2 DEF DatabasesTypeOK, Kind, ArchiveSets
    <3> QED BY <2>3, <3>0, <3>1, <3>2 DEF OtherStep
  <2>5. generations' \in Nat /\ inspected' \in WholeDB
    BY <1>2, <2>3 DEF DatabasesTypeOK, OtherStep
  <2> QED BY <2>1, <2>2, <2>4, <2>5 DEF DatabasesTypeOK
<1> QED BY <1>1, <1>2

\* What an owner has set survives every upgrade, whatever release opened the file
\* and however long before the version was read; only a restore replaces it
\* (sqlite.py migrate and its backfills).
THEOREM SettingsSurvive == DatabasesSpec => ChoicesSurviveUpgrades
<1> DEFINE Chosen == \A f \in Files, d \in Settings :
                       file[f].settings[d] = "own" /\ file'[f].settings[d] # "own"
                         => \E p \in Processes : process[p].doing = "replacing" /\ process[p].file = f
<1>1. DatabasesTypeOK /\ [DatabasesNext]_databaseVars => [Chosen]_databaseVars
  BY StepsOfFiles, FilesAfter
<1> QED BY <1>1, DatabasesInitTypes, DatabasesTypes, PTL DEF DatabasesSpec, ChoicesSurviveUpgrades

-----------------------------------------------------------------------------
(* Writes.                                                                 *)

Replacing(p, f) == process[p].doing = "replacing" /\ process[p].file = f

\* A write that no copy has, and that was not made too late for one, is in a
\* file that no restore is about to replace.
WritesHeld ==
    \A w \in written :
        \/ w \in exposed \cup UNION aside
        \/ \E f \in Files : w \in file[f].writes /\ \A p \in Processes : ~Replacing(p, f)

\* Only these add to the writes, or take a file's place.
WritesRest ==
    /\ UNCHANGED <<aside, written, exposed>>
    /\ \A f \in Files : file'[f].writes = file[f].writes
    /\ \A p \in Processes, f \in Files : Replacing(p, f)' => Replacing(p, f)

\* Only a copy put aside comes before a replacement.
LEMMA ReplacingComes ==
    ASSUME DatabasesTypeOK, DatabasesNext, \A p \in Processes : ~SetAside(p), NEW q \in Processes, NEW f \in Files,
           Replacing(q, f)'
    PROVE  Replacing(q, f)
<1>0. process \in [Processes -> Activity] /\ Idle.doing = "nothing"
  BY DEF DatabasesTypeOK, Idle
<1>1. CASE UNCHANGED process
  BY <1>1 DEF Replacing
<1>2. ASSUME NEW p \in Processes, ProcessStep(p) PROVE Replacing(q, f)
  <2>0. PICK new : process' = [process EXCEPT ![p] = new] /\ Becomes(p, new)
    BY <1>2 DEF ProcessStep
  <2>1. CASE q # p
    BY <1>0, <2>0, <2>1 DEF Replacing
  <2>2. CASE q = p
    <3>1. new.doing \in {"nothing", "upgrading", "archived", "restoring"}
      <4>1. ~SetAside(p)
        OBVIOUS
      <4> QED BY <2>0, <4>1, ProcessTypes DEF Becomes
    <3>2. process'[q] = new
      BY <1>0, <2>0, <2>2
    <3> QED BY <3>1, <3>2 DEF Replacing
  <2> QED BY <2>1, <2>2
<1> QED BY <1>1, <1>2, StepsOfProcesses

\* Upgrades and choices change no writes.
LEMMA WritesStay ==
    ASSUME DatabasesTypeOK,
           \/ UNCHANGED file
           \/ \E p \in Processes : Migrate(p)
           \/ \E f \in Files, t \in {Triggers.current, Triggers.newer} : NewerRelease(f, t)
           \/ \E f \in Files, d \in Settings : Choose(f, d)
    PROVE  \A f \in Files : file'[f].writes = file[f].writes
<1>0. file \in [Files -> WholeDB] /\ generations \in Nat
  BY DEF DatabasesTypeOK
<1>1. ASSUME NEW f \in Files, NEW new, file' = [file EXCEPT ![f] = new], new.writes = file[f].writes
      PROVE  \A g \in Files : file'[g].writes = file[g].writes
  BY <1>0, <1>1
<1>2. ASSUME NEW p \in Processes, Migrate(p) PROVE \A g \in Files : file'[g].writes = file[g].writes
  <2> DEFINE f == process[p].file
             new == Upgraded(file[f], process[p].seen, generations + 1)
  <2>1. file' = file \/ file' = [file EXCEPT ![f] = new]
    BY <1>2 DEF Migrate
  <2>2. f \in Files => file[f] \in DB
    BY <1>0 DEF WholeDB
  <2>3. f \in Files => new.writes = file[f].writes
    BY <1>0, <2>2, UpgradeKeeps
  <2> HIDE DEF f, new
  <2> QED BY <1>0, <1>1, <2>1, <2>3
<1>3. ASSUME NEW f \in Files, NEW t \in {Triggers.current, Triggers.newer}, NewerRelease(f, t)
      PROVE  \A g \in Files : file'[g].writes = file[g].writes
  <2> DEFINE new == Newer(file[f], t, generations + 1)
  <2>1. file' = [file EXCEPT ![f] = new] /\ file[f] \in DB
    BY <1>0, <1>3 DEF NewerRelease, WholeDB
  <2>2. new.writes = file[f].writes
    BY <1>0, <2>1, NewerKeeps
  <2> HIDE DEF new
  <2> QED BY <1>1, <2>1, <2>2
<1>4. ASSUME NEW f \in Files, NEW s \in Settings, Choose(f, s) PROVE \A g \in Files : file'[g].writes = file[g].writes
  <2> DEFINE new == [file[f] EXCEPT !.settings[s] = "own"]
  <2>1. file' = [file EXCEPT ![f] = new] /\ file[f] \in WholeDB
    BY <1>0, <1>4 DEF Choose
  <2>2. new.writes = file[f].writes
    BY <2>1, ChoiceKeeps
  <2> HIDE DEF new
  <2> QED BY <1>1, <2>1, <2>2
<1> QED BY <1>2, <1>3, <1>4

\* The invariant is inductive.
LEMMA WritesHeldStep ==
    ASSUME DatabasesTypeOK, WritesHeld, DatabasesNext
    PROVE  WritesHeld'
<1>0. file \in [Files -> WholeDB] /\ process \in [Processes -> Activity] /\ Idle.doing = "nothing"
  BY DEF DatabasesTypeOK, Idle
<1>1. ASSUME NEW p \in Processes, SetAside(p) PROVE WritesHeld'
  <2> DEFINE f == process[p].file
  <2>1. /\ UNCHANGED <<file, written, exposed>> /\ aside \subseteq aside'
        /\ \A q \in Processes : q # p => process'[q] = process[q]
    BY <1>0, <1>1 DEF SetAside, ghosts
  <2>2. \/ process'[p] = Idle
        \/ process'[p].file = f /\ (Exists(f) => file[f].writes \in aside')
    BY <1>0, <1>1 DEF SetAside, Activity
  <2> HIDE DEF f
  <2> SUFFICES ASSUME NEW w \in written, w \notin exposed \cup UNION aside'
               PROVE  \E g \in Files : w \in file[g].writes /\ \A q \in Processes : ~Replacing(q, g)'
    BY <2>1 DEF WritesHeld
  <2>3. PICK g \in Files : w \in file[g].writes /\ \A q \in Processes : ~Replacing(q, g)
    BY <2>1 DEF WritesHeld
  <2>4. Exists(g)
    <3>1. file[g] \in WholeDB /\ file[g].marker \in Nat
      BY <1>0 DEF WholeDB, DB, Releases
    <3> QED BY <2>3, <3>1 DEF WholeDB, Whole, Exists
  <2>5. ~Replacing(p, g)'
    BY <1>0, <2>2, <2>3, <2>4 DEF Replacing
  <2> QED BY <2>1, <2>3, <2>5 DEF Replacing
<1>2. ASSUME NEW f \in Files, NEW v \in Writes, Write(f, v) PROVE WritesHeld'
  <2>1. /\ file[f].writes \cup {v} = file'[f].writes /\ \A g \in Files : g # f => file'[g] = file[g]
        /\ written' = written \cup {v} /\ UNCHANGED <<aside, process>> /\ exposed \subseteq exposed'
        /\ (\E p \in Processes : Replacing(p, f)) => v \in exposed'
    <3> DEFINE new == [file[f] EXCEPT !.writes = @ \cup {v},
                                      !.epoch = IF file[f].triggers = Triggers.none THEN @ ELSE @ + 1]
    <3>1. file' = [file EXCEPT ![f] = new] /\ file[f] \in WholeDB /\ file[f].marker > 0
      BY <1>0, <1>2 DEF Write, Exists
    <3>2. new.writes = file[f].writes \cup {v}
      BY <3>1, WriteKeeps
    <3> HIDE DEF new
    <3>3. file[f].writes \cup {v} = file'[f].writes /\ \A g \in Files : g # f => file'[g] = file[g]
      BY <1>0, <3>1, <3>2
    <3>4. written' = written \cup {v} /\ UNCHANGED <<aside, process>>
      BY <1>2 DEF Write
    <3>5. exposed \subseteq exposed' /\ ((\E p \in Processes : Replacing(p, f)) => v \in exposed')
      BY <1>2 DEF Write, Replacing
    <3> QED BY <3>3, <3>4, <3>5
  <2> SUFFICES ASSUME NEW w \in written', w \notin exposed' \cup UNION aside
               PROVE  \E g \in Files : w \in file'[g].writes /\ \A q \in Processes : ~Replacing(q, g)
    BY <2>1 DEF WritesHeld, Replacing
  <2>2. CASE w = v
    BY <2>1, <2>2
  <2>3. CASE w # v
    <3>1. w \in written /\ w \notin exposed \cup UNION aside
      BY <2>1, <2>3
    <3>2. PICK g \in Files : w \in file[g].writes /\ \A q \in Processes : ~Replacing(q, g)
      BY <3>1 DEF WritesHeld
    <3> QED BY <2>1, <3>2
  <2> QED BY <2>2, <2>3
<1>3. ASSUME NEW p \in Processes, Replace(p) PROVE WritesHeld'
  <2>1. /\ \A g \in Files : g # process[p].file => file'[g] = file[g]
        /\ UNCHANGED <<aside, written, exposed>> /\ Replacing(p, process[p].file)
        /\ \A q \in Processes : q # p => process'[q] = process[q]
        /\ process'[p] = Idle
    BY <1>0, <1>3 DEF Replace, Replacing, ghosts
  <2> SUFFICES ASSUME NEW w \in written, w \notin exposed \cup UNION aside
               PROVE  \E g \in Files : w \in file'[g].writes /\ \A q \in Processes : ~Replacing(q, g)'
    BY <2>1 DEF WritesHeld
  <2>2. PICK g \in Files : w \in file[g].writes /\ \A q \in Processes : ~Replacing(q, g)
    BY DEF WritesHeld
  <2>3. g # process[p].file
    BY <2>1, <2>2
  <2> QED BY <1>0, <2>1, <2>2, <2>3 DEF Replacing
<1>4. ASSUME WritesRest PROVE WritesHeld'
  BY <1>4 DEF WritesHeld, WritesRest
<1>5. ASSUME \A p \in Processes : ~SetAside(p) /\ ~Replace(p), \A f \in Files, w \in Writes : ~Write(f, w)
      PROVE  WritesRest
  <2>1. \A f \in Files : file'[f].writes = file[f].writes
    BY <1>5, StepsOfFiles, WritesStay DEF FileStep
  <2>2. \A p \in Processes, f \in Files : Replacing(p, f)' => Replacing(p, f)
    BY <1>5, ReplacingComes
  <2>3. ASSUME NEW p \in Processes, NEW f \in Files, ReadVersion(p, f) PROVE UNCHANGED <<aside, written, exposed>>
    BY <2>3 DEF ReadVersion, ghosts
  <2>4. ASSUME NEW p \in Processes, Migrate(p) \/ Stop(p) PROVE UNCHANGED <<aside, written, exposed>>
    BY <2>4 DEF Migrate, Stop, ghosts
  <2>5. ASSUME NEW f \in Files, \/ \E t \in {Triggers.current, Triggers.newer} : NewerRelease(f, t)
                                \/ \E d \in Settings : Choose(f, d)
                                \/ Inspect(f)
        PROVE  UNCHANGED <<aside, written, exposed>>
    BY <2>5 DEF NewerRelease, Choose, Inspect, ghosts
  <2>6. ASSUME NEW a \in Backups, Damage(a) \/ \E f \in Files : Backup(a, f) PROVE UNCHANGED <<aside, written, exposed>>
    BY <2>6 DEF Damage, Backup, ghosts
  <2>7. ASSUME NEW p \in Processes, NEW a \in Backups, NEW f \in Files, NEW over \in BOOLEAN,
               Apply(p, a, f) \/ Prepare(p, a, f, over)
        PROVE  UNCHANGED <<aside, written, exposed>>
    BY <2>7 DEF Apply, Prepare, ghosts
  <2>8. UNCHANGED <<aside, written, exposed>>
    BY <1>5, <2>3, <2>4, <2>5, <2>6, <2>7 DEF DatabasesNext
  <2> QED BY <2>1, <2>2, <2>8 DEF WritesRest
<1> QED BY <1>1, <1>2, <1>3, <1>4, <1>5

\* Restores that interleave with writes, upgrades and each other lose no write made
\* before their copy: it is in a file or in one that was put aside (hardening.py
\* restore_backup).
THEOREM NoWriteIsLost == DatabasesSpec => []EarlierWritesAreKept
<1>1. DatabasesInit => WritesHeld
  BY DEF DatabasesInit, WritesHeld
<1>2. DatabasesTypeOK /\ WritesHeld /\ [DatabasesNext]_databaseVars => WritesHeld'
  <2>1. WritesHeld /\ UNCHANGED databaseVars => WritesHeld'
    BY DEF databaseVars, WritesHeld, Replacing
  <2> QED BY <2>1, WritesHeldStep
<1>3. WritesHeld => EarlierWritesAreKept
  BY DEF WritesHeld, EarlierWritesAreKept
<1> QED BY <1>1, <1>2, <1>3, DatabasesInitTypes, DatabasesTypes, PTL DEF DatabasesSpec

-----------------------------------------------------------------------------
(* Revisions.                                                              *)

\* Process p holds a copy that is to replace a file.
Restores(p) == process[p].doing \in {"restoring", "replacing"}

Drawn ==
    /\ \A f \in Files : file[f].generation <= generations
    /\ \A p \in Processes : Restores(p) => process[p].held.generation \in 1..generations
    /\ inspected.generation <= generations

\* No two files, and no file and no copy that is to replace one, share a generation.
Apart ==
    /\ \A f, g \in Files : f # g /\ file[f].generation = file[g].generation => file[f].generation = 0
    /\ \A p \in Processes, f \in Files : Restores(p) => process[p].held.generation # file[f].generation
    /\ \A p \in Processes : Restores(p) => process[p].held.generation # inspected.generation
    /\ \A p, q \in Processes : Restores(p) /\ Restores(q) /\ p # q => process[p].held.generation # process[q].held.generation

\* The epoch of a generation only grows, and with every write.
Onward(db) == db.epoch >= inspected.epoch /\ (db.epoch = inspected.epoch => db.writes = inspected.writes)

Followed ==
    inspected # Absent =>
        /\ inspected.generation > 0
        /\ \A f \in Files : file[f].generation = inspected.generation => Onward(file[f])

RevisionInv == Drawn /\ Apart /\ Followed

\* No process comes to hold a copy.
HeldStays == \A p \in Processes : Restores(p)' => Restores(p) /\ process'[p].held = process[p].held

Quiet ==
    /\ \A f \in Files : /\ file'[f].generation = file[f].generation
                        /\ file'[f].epoch = file[f].epoch /\ file'[f].writes = file[f].writes
    /\ HeldStays /\ UNCHANGED <<generations, inspected>>

Regenerated(f) ==
    /\ \A g \in Files : g # f => file'[g] = file[g]
    /\ f \in Files => file'[f].generation = generations + 1
    /\ HeldStays /\ inspected' = inspected /\ generations' = generations + 1

\* Generations and epochs are numbers.
LEMMA NumbersAreNatural ==
    ASSUME DatabasesTypeOK
    PROVE  /\ generations \in Nat /\ inspected.generation \in Nat /\ inspected.epoch \in Nat
           /\ \A f \in Files : file[f].generation \in Nat /\ file[f].epoch \in Nat
           /\ \A p \in Processes : process[p].held.generation \in Nat
<1>1. \A db \in WholeDB : db.generation \in Nat /\ db.epoch \in Nat
  BY DEF WholeDB, DB
<1>2. \A p \in Processes : process[p].held \in WholeDB
  BY DEF DatabasesTypeOK, Activity
<1> QED BY <1>1, <1>2 DEF DatabasesTypeOK

\* A step that leaves generations, epochs and writes alone.
LEMMA QuietStep == RevisionInv /\ Quiet => RevisionInv'
<1> SUFFICES ASSUME RevisionInv, Quiet PROVE RevisionInv'
  OBVIOUS
<1>1. Drawn'
  BY DEF RevisionInv, Drawn, Quiet, HeldStays
<1>2. Apart'
  BY DEF RevisionInv, Apart, Quiet, HeldStays
<1>3. Followed'
  BY DEF RevisionInv, Followed, Onward, Quiet
<1> QED BY <1>1, <1>2, <1>3 DEF RevisionInv

\* A step that gives a file a new generation.
LEMMA RegeneratedStep ==
    ASSUME DatabasesTypeOK, DatabasesTypeOK', RevisionInv, NEW f, Regenerated(f)
    PROVE  RevisionInv'
<1> USE NumbersAreNatural
<1>1. Drawn'
  BY DEF RevisionInv, Drawn, Regenerated, HeldStays
<1>2. Apart'
  BY DEF RevisionInv, Apart, Drawn, Regenerated, HeldStays
<1>3. Followed'
  BY DEF RevisionInv, Followed, Drawn, Onward, Regenerated
<1> QED BY <1>1, <1>2, <1>3 DEF RevisionInv

\* A write goes on to the next epoch.
LEMMA DatabaseWriteStep ==
    ASSUME DatabasesTypeOK, RevisionInv, NEW f \in Files, NEW w \in Writes, Write(f, w)
    PROVE  RevisionInv'
<1>0. file \in [Files -> WholeDB] /\ file[f] \in WholeDB
  BY DEF DatabasesTypeOK
<1> DEFINE new == [file[f] EXCEPT !.writes = @ \cup {w},
                                  !.epoch = IF file[f].triggers = Triggers.none THEN @ ELSE @ + 1]
<1>1. file' = [file EXCEPT ![f] = new] /\ file[f].marker > 0 /\ UNCHANGED <<process, generations, inspected>>
  BY DEF Write, Exists
<1>2. /\ new.writes = file[f].writes \cup {w} /\ new.generation = file[f].generation
      /\ file[f].triggers # 0 => new.epoch = file[f].epoch + 1
  BY <1>0, <1>1, WriteKeeps
<1> HIDE DEF new
<1>3. /\ file'[f] = new /\ \A g \in Files : g # f => file'[g] = file[g]
      /\ \A g \in Files : file'[g].generation = file[g].generation
  BY <1>0, <1>1, <1>2
<1>4. file[f].generation > 0 => file[f].triggers # 0
  BY <1>0, NumbersAreNatural DEF WholeDB, Whole
<1>5. Drawn'
  BY <1>1, <1>3 DEF RevisionInv, Drawn, Restores
<1>6. Apart'
  BY <1>1, <1>3 DEF RevisionInv, Apart, Restores
<1>7. Followed'
  <2> SUFFICES ASSUME inspected # Absent, NEW g \in Files, file[g].generation = inspected.generation
               PROVE  Onward(file[g])'
    BY <1>1, <1>3 DEF RevisionInv, Followed
  <2>1. Onward(file[g]) /\ file[g].generation > 0
    BY DEF RevisionInv, Followed
  <2>2. CASE g = f
    BY <1>1, <1>2, <1>3, <1>4, <2>1, <2>2, NumbersAreNatural DEF Onward
  <2>3. CASE g # f
    BY <1>1, <1>3, <2>1, <2>3 DEF Onward
  <2> QED BY <2>2, <2>3
<1> QED BY <1>5, <1>6, <1>7 DEF RevisionInv

\* What is inspected is a file, whose generation nothing else has.
LEMMA InspectStep ==
    ASSUME DatabasesTypeOK, RevisionInv, NEW f \in Files, Inspect(f)
    PROVE  RevisionInv'
<1>1. inspected' = file[f] /\ UNCHANGED <<file, process, generations>> /\ file[f].triggers # 0
  BY DEF Inspect, Triggers
<1>2. file[f].generation > 0
  BY <1>1, NumbersAreNatural DEF DatabasesTypeOK, WholeDB, Whole
<1>3. Drawn'
  BY <1>1 DEF RevisionInv, Drawn, Restores
<1>4. Apart'
  BY <1>1 DEF RevisionInv, Apart, Restores
<1>5. Followed'
  BY <1>1, <1>2, NumbersAreNatural DEF RevisionInv, Apart, Followed, Onward
<1> QED BY <1>3, <1>4, <1>5 DEF RevisionInv

\* A copy that is prepared gets a generation that no file has had.
LEMMA PrepareStep ==
    ASSUME DatabasesTypeOK, RevisionInv, NEW p \in Processes, NEW a \in Backups, NEW f \in Files, NEW over \in BOOLEAN,
           Prepare(p, a, f, over)
    PROVE  RevisionInv'
<1>0. process \in [Processes -> Activity] /\ archive[a].file \in WholeDB
  BY DEF DatabasesTypeOK, ArchiveSets
<1>1. process' = [process EXCEPT ![p] = Restoring(a, f, over)] /\ generations' = generations + 2
      /\ UNCHANGED <<file, inspected>>
  BY DEF Prepare, Restoring, ghosts
<1>2. Restoring(a, f, over).held = Prepared(archive[a].file)
  BY ProcessTypes, AbsentIsDB DEF Restoring, Activity
<1>3. Restoring(a, f, over).held.generation = generations + 2
  BY <1>0, <1>2, NumbersAreNatural, PreparedKeeps
<1>4. /\ \A q \in Processes : q # p => process'[q] = process[q]
      /\ process'[p].held.generation = generations + 2
  BY <1>0, <1>1, <1>3
<1>5. \A q \in Processes : q # p => (Restores(q)' <=> Restores(q))
  BY <1>4 DEF Restores
<1>6. Drawn'
  BY <1>1, <1>4, <1>5, NumbersAreNatural DEF RevisionInv, Drawn
<1>7. Apart'
  BY <1>1, <1>4, <1>5, NumbersAreNatural DEF RevisionInv, Apart, Drawn
<1>8. Followed'
  BY <1>1 DEF RevisionInv, Followed, Onward
<1> QED BY <1>6, <1>7, <1>8 DEF RevisionInv

\* A copy takes the place of the file; no other has its generation.
LEMMA ReplaceStep ==
    ASSUME DatabasesTypeOK, RevisionInv, NEW p \in Processes, Replace(p)
    PROVE  RevisionInv'
<1>0. process \in [Processes -> Activity] /\ file \in [Files -> WholeDB]
  BY DEF DatabasesTypeOK
<1> DEFINE f == process[p].file
<1>1. /\ Restores(p) /\ UNCHANGED <<generations, inspected>>
      /\ \A q \in Processes : q # p => process'[q] = process[q]
      /\ process'[p] = Idle
      /\ f \in Files => file'[f] = process[p].held
      /\ \A g \in Files : g # f => file'[g] = file[g]
  BY <1>0 DEF Replace, Restores, ghosts
<1> HIDE DEF f
<1>2. \A q \in Processes : (Restores(q)' => q # p /\ Restores(q) /\ process'[q] = process[q])
  BY <1>1 DEF Restores, Idle
<1>3. Drawn'
  BY <1>1, <1>2, NumbersAreNatural DEF RevisionInv, Drawn
<1>4. Apart'
  BY <1>1, <1>2 DEF RevisionInv, Apart
<1>5. Followed'
  BY <1>1 DEF RevisionInv, Apart, Followed, Onward
<1> QED BY <1>3, <1>4, <1>5 DEF RevisionInv

\* Whatever else happens gives a file a new generation, or leaves generations,
\* epochs and writes alone.
LEMMA OtherRevisions ==
    ASSUME DatabasesTypeOK, DatabasesNext,
           \A f \in Files : (\A w \in Writes : ~Write(f, w)) /\ ~Inspect(f),
           \A p \in Processes : ~Replace(p),
           \A p \in Processes, a \in Backups, f \in Files, over \in BOOLEAN : ~Prepare(p, a, f, over)
    PROVE  Quiet \/ \E f : Regenerated(f)
<1>0. /\ file \in [Files -> WholeDB] /\ process \in [Processes -> Activity] /\ generations \in Nat
      /\ \A f \in Files : file[f] \in DB
  BY DEF DatabasesTypeOK, WholeDB
<1>1. ASSUME NEW p \in Processes, NEW new, process' = [process EXCEPT ![p] = new],
             new.doing \in {"nothing", "upgrading", "archived"}
      PROVE  HeldStays
  BY <1>0, <1>1 DEF HeldStays, Restores
<1>2. ASSUME NEW p \in Processes, NEW f \in Files, ReadVersion(p, f) PROVE Quiet
  <2>1. process' = [process EXCEPT ![p] = IF Migratable(file[f]) /\ ~Current(file[f]) THEN Upgrading(p, f) ELSE Idle]
    BY <1>2 DEF ReadVersion, Upgrading
  <2>2. HeldStays
    BY <1>1, <2>1, ProcessTypes
  <2> QED BY <1>2, <2>2 DEF ReadVersion, Quiet, ghosts
<1>3. ASSUME NEW p \in Processes, Stop(p) PROVE Quiet
  <2>1. process' = [process EXCEPT ![p] = Idle] /\ Idle.doing = "nothing"
    BY <1>3 DEF Stop, Idle
  <2>2. HeldStays
    BY <1>1, <2>1
  <2> QED BY <1>3, <2>2 DEF Stop, Quiet, ghosts
<1>4. ASSUME NEW p \in Processes, SetAside(p) PROVE Quiet
  <2>1. /\ process[p].doing = "restoring" /\ UNCHANGED <<file, generations, inspected>>
        /\ \/ process' = [process EXCEPT ![p] = Idle]
           \/ process' = [process EXCEPT ![p] = AboutToReplace(p)]
    BY <1>4 DEF SetAside, AboutToReplace, ghosts
  <2>2. AboutToReplace(p).held = process[p].held
    BY <1>0 DEF AboutToReplace, Activity
  <2>3. HeldStays
    BY <1>0, <2>1, <2>2 DEF HeldStays, Restores, Idle
  <2> QED BY <2>1, <2>3 DEF Quiet
<1>5. ASSUME NEW p \in Processes, Migrate(p) PROVE Quiet \/ Regenerated(process[p].file)
  <2> DEFINE f == process[p].file
             new == Upgraded(file[f], process[p].seen, generations + 1)
  <2>1. /\ \/ UNCHANGED <<file, generations>>
           \/ file' = [file EXCEPT ![f] = new] /\ generations' = generations + 1
        /\ process' = [process EXCEPT ![p] = Idle] /\ inspected' = inspected
    BY <1>5 DEF Migrate, ghosts
  <2>2. HeldStays
    BY <1>1, <2>1 DEF Idle
  <2>3. f \in Files => new.generation = generations + 1
    BY <1>0, UpgradeKeeps
  <2> HIDE DEF f, new
  <2>4. Quiet \/ Regenerated(f)
    BY <1>0, <2>1, <2>2, <2>3 DEF Quiet, Regenerated
  <2> QED BY <2>4 DEF f
<1>6. ASSUME NEW f \in Files, NEW t \in {Triggers.current, Triggers.newer}, NewerRelease(f, t) PROVE Regenerated(f)
  <2> DEFINE new == Newer(file[f], t, generations + 1)
  <2>1. file' = [file EXCEPT ![f] = new] /\ generations' = generations + 1 /\ UNCHANGED <<process, inspected>>
    BY <1>6 DEF NewerRelease, ghosts
  <2>2. new.generation = generations + 1
    BY <1>0, NewerKeeps
  <2> HIDE DEF new
  <2>3. HeldStays
    BY <2>1 DEF HeldStays, Restores
  <2> QED BY <1>0, <2>1, <2>2, <2>3 DEF Regenerated
<1>7. ASSUME NEW f \in Files, NEW s \in Settings, Choose(f, s) PROVE Quiet
  <2> DEFINE new == [file[f] EXCEPT !.settings[s] = "own"]
  <2>1. file' = [file EXCEPT ![f] = new] /\ UNCHANGED <<process, generations, inspected>> /\ file[f] \in WholeDB
    BY <1>0, <1>7 DEF Choose, ghosts
  <2>2. new.writes = file[f].writes /\ new.generation = file[f].generation /\ new.epoch = file[f].epoch
    BY <2>1, ChoiceKeeps
  <2> HIDE DEF new
  <2>3. HeldStays
    BY <2>1 DEF HeldStays, Restores
  <2> QED BY <1>0, <2>1, <2>2, <2>3 DEF Quiet
<1>8. ASSUME NEW a \in Backups, Damage(a) \/ \E f \in Files : Backup(a, f) PROVE Quiet
  <2>1. UNCHANGED <<file, process, generations, inspected>>
    BY <1>8 DEF Damage, Backup, ghosts
  <2> QED BY <2>1 DEF Quiet, HeldStays, Restores
<1>9. ASSUME NEW p \in Processes, NEW a \in Backups, NEW f \in Files, Apply(p, a, f) PROVE Quiet
  <2>1. process' = [process EXCEPT ![p] = BackedUp(a, f)] /\ UNCHANGED <<file, generations, inspected>>
    BY <1>9 DEF Apply, Archiving, BackedUp, ghosts
  <2>2. HeldStays
    BY <1>1, <2>1, ProcessTypes
  <2> QED BY <2>1, <2>2 DEF Quiet
<1> QED BY <1>2, <1>3, <1>4, <1>5, <1>6, <1>7, <1>8, <1>9 DEF DatabasesNext

\* The invariant is inductive.
LEMMA RevisionStep ==
    ASSUME DatabasesTypeOK, DatabasesTypeOK', RevisionInv, [DatabasesNext]_databaseVars
    PROVE  RevisionInv'
<1>1. CASE UNCHANGED databaseVars
  <2>1. Quiet
    BY <1>1 DEF databaseVars, Quiet, HeldStays, Restores
  <2> QED BY <2>1, QuietStep
<1>2. CASE DatabasesNext
  BY <1>2, QuietStep, RegeneratedStep, DatabaseWriteStep, InspectStep, PrepareStep, ReplaceStep, OtherRevisions
<1> QED BY <1>1, <1>2

\* However databases are upgraded, backed up, restored and written by other
\* releases, a generation and epoch that a client saw never come back with other
\* memory: generations are apart, those of copies still to be put in place
\* included, and the epoch of one only grows (storage/review.py, hardening.py
\* restore_backup).
THEOREM RevisionsNameStates == DatabasesSpec => []RevisionsNameOneState
<1>1. DatabasesInit => RevisionInv
  <2> SUFFICES ASSUME DatabasesInit PROVE RevisionInv
    OBVIOUS
  <2>1. inspected = Absent /\ generations = 1 /\ \A p \in Processes : ~Restores(p)
    BY DEF DatabasesInit, Restores, Idle
  <2>2. Absent.generation = 0 /\ Published.generation = 0 /\ Unextended.generation = 1
    BY AbsentIsDB DEF Absent, Published, Unextended
  <2>3. PICK f \in Files, db \in {Absent, Published, Unextended} : file = [g \in Files |-> IF g = f THEN db ELSE Absent]
    BY DEF DatabasesInit
  <2>4. \A g \in Files : file[g].generation \in {0, 1} /\ (g # f => file[g].generation = 0)
    BY <2>2, <2>3
  <2> QED BY <2>1, <2>2, <2>4 DEF RevisionInv, Drawn, Apart, Followed
<1>2. RevisionInv => RevisionsNameOneState
  BY DEF RevisionInv, Followed, Onward, RevisionsNameOneState
<1> QED BY <1>1, <1>2, RevisionStep, DatabasesInitTypes, DatabasesTypes, PTL DEF DatabasesSpec
=============================================================================
