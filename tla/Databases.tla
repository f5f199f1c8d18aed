------------------------------ MODULE Databases ------------------------------
(***************************************************************************)
(* The database file: its upgrades by this release, its backups, and the   *)
(* restores that replace it.  Files come from earlier releases, and a      *)
(* newer one may take hold of them.  Processes of this release share the   *)
(* files; SQLite makes each transaction and each copy of a file atomic.    *)
(***************************************************************************)
EXTENDS Naturals

CONSTANTS
    Files,          \* paths of databases
    Writes,         \* changes of memory that reviews depend on
    Backups, Processes,
    Settings        \* what an owner may set: members of Defaults

VARIABLES
    file,           \* the databases
    archive,        \* backups: "none", "kept" or "damaged", and the file as it was
    aside,          \* what restores put aside: the writes of each replaced file
    process,        \* what a process is doing, to which file
    generations,    \* the generations drawn so far: each is a fresh uuid
    inspected,      \* ghost: the file as a client has inspected it
    written, exposed   \* ghosts: all writes; those made between a restore's copy and its replacement

databaseVars == <<file, archive, aside, process, generations, inspected, written, exposed>>

ghosts == <<inspected, written, exposed>>

-----------------------------------------------------------------------------
(* Releases differ in the version they store (SCHEMA_VERSION) and in the   *)
(* review triggers they install.                                           *)

Marker == [first |-> 1, current |-> 2, newer |-> 3]

Triggers == [none |-> 0, earlier |-> 1, current |-> 2, newer |-> 3]

\* The default records that each milestone's backfill adds.
M2Defaults == {"half_life_policies"}
M3Defaults == {"category_registry"}
M4Defaults == {"inference_rules"}
M5Defaults == {"ranking_policies", "context_pack_policies"}
M7Defaults == {"dashboard_preferences"}
M8Defaults == {"protected_mode_config"}
M9Defaults == {"public_contracts"}
M9Suites == {"conformance_suites", "sdk_release_records"}
M10Defaults == {"trust_domains"}
M10Policies == {"import_trust_policies"}
M11Defaults == {"semantic_suite"}
M12Defaults == {"llm_suite"}

\* The first two only run when the version read is another.
VersionDefaults == M2Defaults \cup M3Defaults

AlwaysDefaults == M4Defaults \cup M5Defaults \cup M7Defaults \cup M8Defaults
                  \cup M9Defaults \cup M9Suites \cup M10Defaults \cup M10Policies \cup M11Defaults \cup M12Defaults

Defaults == VersionDefaults \cup AlwaysDefaults

ASSUME DatabasesAssumption == Settings \subseteq Defaults

Absent == [marker |-> 0, triggers |-> 0, writes |-> {}, generation |-> 0, epoch |-> 0,
           settings |-> [d \in Defaults |-> "absent"]]

\* What releases before this one leave: the published one, and one of this
\* version that knew fewer triggers.
Published == [Absent EXCEPT !.marker = Marker.first, !.settings = [d \in Defaults |-> "default"]]

Unextended == [Published EXCEPT !.marker = Marker.current, !.triggers = Triggers.earlier, !.generation = 1]

Idle == [doing |-> "nothing", file |-> "none", seen |-> 0, archive |-> "none", over |-> FALSE, held |-> Absent]

DatabasesInit ==
    /\ \E f \in Files, db \in {Absent, Published, Unextended} :
         file = [g \in Files |-> IF g = f THEN db ELSE Absent]
    /\ archive = [a \in Backups |-> [state |-> "none", file |-> Absent]]
    /\ aside = {}
    /\ process = [p \in Processes |-> Idle]
    /\ generations = 1
    /\ inspected = Absent
    /\ written = {} /\ exposed = {}

Exists(f) == file[f].marker > 0

-----------------------------------------------------------------------------
(* Upgrades.                                                               *)

Migratable(db) == db.marker = 0 \/ db.marker \in Marker.first..Marker.current

Current(db) == db.marker = Marker.current /\ db.triggers = Triggers.current

\* A mutated form of Kept: the backfill writes its defaults over what is there.
Overwritten(setting) == "default"

\* INSERT OR IGNORE, and COALESCE for the version in force.
Kept(setting) == IF setting = "absent" THEN "default" ELSE setting

Backfilled(settings, seen) ==
    [d \in Defaults |->
        IF d \in AlwaysDefaults \/ seen # Marker.current THEN Kept(settings[d]) ELSE settings[d]]

\* The review state is created, or else drawn anew, with no receipt kept.
Redrawn(db, generation) ==
    IF db.triggers = Triggers.none THEN [db EXCEPT !.generation = generation, !.epoch = 0]
    ELSE [db EXCEPT !.generation = generation, !.epoch = @ + 1]

\* The one transaction of a migration, begun by a process that read the
\* version before.  Triggers it does not know make it fail.
Succeeds(db) == db.triggers <= Triggers.current

Upgraded(db, seen, generation) ==
    [Redrawn(db, generation) EXCEPT
        !.marker = Marker.current, !.triggers = Triggers.current,
        !.settings = Backfilled(db.settings, seen)]

\* Opening reads the version; a process that archived the file first reads it
\* only then.
ReadVersion(p, f) ==
    /\ process[p] = Idle \/ (process[p].doing = "archived" /\ process[p].file = f)
    /\ process' = [process EXCEPT ![p] =
            IF Migratable(file[f]) /\ ~Current(file[f])
            THEN [@ EXCEPT !.doing = "upgrading", !.file = f, !.seen = file[f].marker] ELSE Idle]
    /\ UNCHANGED <<file, archive, aside, generations, ghosts>>

Migrate(p) ==
    LET f == process[p].file IN
    /\ process[p].doing = "upgrading"
    /\ IF Succeeds(file[f])
       THEN /\ file' = [file EXCEPT ![f] = Upgraded(@, process[p].seen, generations + 1)]
            /\ generations' = generations + 1
       ELSE UNCHANGED <<file, generations>>
    /\ process' = [process EXCEPT ![p] = Idle]
    /\ UNCHANGED <<archive, aside, ghosts>>

\* A newer release opens the file.
Newer(db, triggers, generation) ==
    [Redrawn(db, generation) EXCEPT
        !.marker = Marker.newer, !.triggers = triggers,
        !.settings = [d \in Defaults |-> Kept(db.settings[d])]]

NewerRelease(f, triggers) ==
    /\ Exists(f) /\ file[f].marker # Marker.newer
    /\ triggers \in {Triggers.current, Triggers.newer}
    /\ file' = [file EXCEPT ![f] = Newer(@, triggers, generations + 1)]
    /\ generations' = generations + 1
    /\ UNCHANGED <<archive, aside, process, ghosts>>

-----------------------------------------------------------------------------
(* What happens to an open database, also by processes of other releases   *)
(* that opened it before.                                                  *)

Write(f, w) ==
    /\ Exists(f) /\ w \notin written
    /\ file' = [file EXCEPT ![f].writes = @ \cup {w},
                            ![f].epoch = IF file[f].triggers = Triggers.none THEN @ ELSE @ + 1]
    /\ written' = written \cup {w}
    /\ exposed' = IF \E p \in Processes : process[p].doing = "replacing" /\ process[p].file = f
                  THEN exposed \cup {w} ELSE exposed
    /\ UNCHANGED <<archive, aside, process, generations, inspected>>

Choose(f, setting) ==
    /\ Exists(f) /\ setting \in Settings
    /\ file' = [file EXCEPT ![f].settings[setting] = "own"]
    /\ UNCHANGED <<archive, aside, process, generations, ghosts>>

\* A client inspects: the revision it gets carries generation and epoch.
Inspect(f) ==
    /\ file[f].triggers # Triggers.none /\ inspected = Absent
    /\ inspected' = file[f]
    /\ UNCHANGED <<file, archive, aside, process, generations, written, exposed>>

-----------------------------------------------------------------------------
(* Backups, of files opened as they are.                                   *)

\* A damaged archive, or one that is not authenticated, is refused.
Genuine(a) == archive[a].state = "kept"

Copied(a, f) == [archive EXCEPT ![a] = [state |-> "kept", file |-> file[f]]]

Backup(a, f) ==
    /\ Exists(f) /\ archive[a].state = "none"
    /\ archive' = Copied(a, f)
    /\ UNCHANGED <<file, aside, process, generations, ghosts>>

Damage(a) ==
    /\ Genuine(a)
    /\ archive' = [archive EXCEPT ![a].state = "damaged"]
    /\ UNCHANGED <<file, aside, process, generations, ghosts>>

Archiving(p, a, f) == [process EXCEPT ![p] = [Idle EXCEPT !.doing = "archived", !.file = f, !.archive = a]]

\* "migrate apply --backup-before": the migration follows.
Apply(p, a, f) ==
    /\ process[p] = Idle
    /\ Exists(f) /\ archive[a].state = "none"
    /\ archive' = Copied(a, f)
    /\ process' = Archiving(p, a, f)
    /\ UNCHANGED <<file, aside, generations, ghosts>>

-----------------------------------------------------------------------------
(* Restores: what the archive holds is upgraded and given a generation of  *)
(* its own before anything sees it.                                        *)

Prepared(db) == Redrawn(IF Current(db) THEN db ELSE Upgraded(db, db.marker, generations + 1), generations + 2)

Prepare(p, a, f, over) ==
    LET db == archive[a].file IN
    /\ process[p] = Idle
    /\ Genuine(a) /\ (over \/ ~Exists(f))
    /\ Migratable(db) /\ Succeeds(db)
    /\ process' = [process EXCEPT ![p] =
            [Idle EXCEPT !.doing = "restoring", !.file = f, !.archive = a, !.over = over, !.held = Prepared(db)]]
    /\ generations' = generations + 2
    /\ UNCHANGED <<file, archive, aside, ghosts>>

\* A file of that name by now ends a restore that is to create it.
SetAside(p) ==
    LET f == process[p].file
        refused == Exists(f) /\ ~process[p].over IN
    /\ process[p].doing = "restoring"
    /\ aside' = IF Exists(f) /\ ~refused THEN aside \cup {file[f].writes} ELSE aside
    /\ process' = [process EXCEPT ![p] = IF refused THEN Idle ELSE [@ EXCEPT !.doing = "replacing"]]
    /\ UNCHANGED <<file, archive, generations, ghosts>>

Replace(p) ==
    /\ process[p].doing = "replacing"
    /\ file' = [file EXCEPT ![process[p].file] = process[p].held]
    /\ process' = [process EXCEPT ![p] = Idle]
    /\ UNCHANGED <<archive, aside, generations, ghosts>>

\* A failure, or the end of the process: an open transaction is rolled back.
Stop(p) ==
    /\ process[p] # Idle
    /\ process' = [process EXCEPT ![p] = Idle]
    /\ UNCHANGED <<file, archive, aside, generations, ghosts>>

\* What the routes of backups, restores and migrations offer, and the file system.
DatabasesNext ==
    \/ \E p \in Processes, f \in Files : ReadVersion(p, f)
    \/ \E p \in Processes : Migrate(p) \/ SetAside(p) \/ Replace(p) \/ Stop(p)
    \/ \E f \in Files, t \in {Triggers.current, Triggers.newer} : NewerRelease(f, t)
    \/ \E f \in Files, w \in Writes : Write(f, w)
    \/ \E f \in Files, d \in Settings : Choose(f, d)
    \/ \E f \in Files : Inspect(f)
    \/ \E a \in Backups, f \in Files : Backup(a, f)
    \/ \E a \in Backups : Damage(a)
    \/ \E p \in Processes, a \in Backups, f \in Files :
         Apply(p, a, f) \/ \E over \in BOOLEAN : Prepare(p, a, f, over)

DatabasesSpec == DatabasesInit /\ [][DatabasesNext]_databaseVars

-----------------------------------------------------------------------------
\* What a client inspected is told by its generation and epoch: no file in
\* which both come back holds other memory, whatever was restored, upgraded or
\* written by programs of other releases meanwhile (storage/review.py,
\* hardening.py restore_backup).
RevisionsNameOneState ==
    \A f \in Files :
        inspected # Absent /\ file[f].generation = inspected.generation /\ file[f].epoch = inspected.epoch
            => file[f].writes = inspected.writes

\* No restore loses a write: it is in a file, or in a copy put aside, or was
\* made after the copy and before the replacement (hardening.py restore_backup).
EarlierWritesAreKept ==
    written \subseteq exposed \cup UNION (aside \cup {file[f].writes : f \in Files})

\* What an owner has set survives every upgrade, also by a process that read
\* the version long before (sqlite.py migrate and its backfills).
ChoicesSurviveUpgrades ==
    [][\A f \in Files, d \in Settings :
         file[f].settings[d] = "own" /\ file'[f].settings[d] # "own"
            => \E p \in Processes : process[p].doing = "replacing" /\ process[p].file = f]_databaseVars
=============================================================================
