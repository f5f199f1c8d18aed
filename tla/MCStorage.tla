----------------------------- MODULE MCStorage -----------------------------
(* Instances of Protection, Archives and Databases, by profile.            *)
EXTENDS Protection, Archives, Databases, TLC

CONSTANTS e1, e2, c1, local, remote, s1, d1, d2, w1, w2, b1, b2, q1, q2

VARIABLE profile

CitesOf == c1 :> {e1}
UsesOf == [c \in {d1, d2} |-> {s1}]

\* Keys: two events; no index is looked at.
KeysOnly == /\ indexing = NotIndexing /\ vectors = {}
            /\ \A c \in Claims : claim[c].status = "none"

\* Indexes: one event, which protected mode may seal, and the claim citing it,
\* with vectors of one provider at a time.
IndexesOnly == /\ event[e2] = NoEvent /\ rotating = NotRotating
               /\ event[e1].level # "secret"
               /\ \A k \in Keys : k > 1 => key[k] = "none"
               /\ Cardinality({v.provider : v \in vectors}) <= 1

\* Archives of an event and a claim, edited and deleted in every way, that
\* other processes may write around.
TornArchives == row[d2] = "none"

\* Archives of an event and two claims, which are alike, each taken without a
\* write in between.
WholeArchives == /\ reading # NotReading => ~reading.torn
                 /\ \A c \in SourceClaims : row[c] \notin {"edited", "deleted"}
                 /\ row[d2] # "none" => row[d1] # "none"

\* Databases: two restores of one file among writes and upgrades,
MainOnly == file["spare"] = Absent /\ \A p \in Processes : process[p].file # "spare"

Unset == /\ \A f \in Files : file[f].marker # Marker.newer /\ \A d \in Settings : file[f].settings[d] # "own"
         /\ \A p \in Processes : process[p].doing # "archived"

TwoRestores == /\ MainOnly /\ Unset /\ generations <= 6
               /\ archive[b1].state # "damaged" /\ archive[b2].state = "none"

\* upgrades of one file among settings, a write and a newer release,
Upgrades == /\ MainOnly /\ inspected = Absent /\ generations <= 5
            /\ written \subseteq {w1} /\ archive[b1].state # "damaged" /\ archive[b2].state = "none"
            /\ \A p \in Processes : process[p].doing \notin {"restoring", "replacing"}

\* and one process that restores to either of two files.
TwoFiles == /\ process[q2] = Idle /\ inspected = Absent /\ Unset /\ generations <= 4
            /\ written \subseteq {w1}

DatabaseProfiles == {"restores", "upgrades", "files"}

MCInit ==
    /\ ProtectionInit /\ ArchivesInit /\ DatabasesInit
    /\ profile \in {"keys", "indexes", "torn archives", "whole archives"} \cup DatabaseProfiles
    /\ profile \in DatabaseProfiles \/ \A f \in Files : file[f] = Absent

MCNext ==
    /\ UNCHANGED profile
    /\ \/ /\ profile \in {"keys", "indexes"}
          /\ ProtectionNext /\ UNCHANGED <<archiveVars, databaseVars>>
          /\ IF profile = "keys" THEN KeysOnly' ELSE IndexesOnly'
       \/ /\ profile \in {"torn archives", "whole archives"}
          /\ ArchivesNext /\ UNCHANGED <<protectionVars, databaseVars>>
          /\ IF profile = "torn archives" THEN TornArchives' ELSE WholeArchives'
       \/ /\ profile \in DatabaseProfiles
          /\ DatabasesNext /\ UNCHANGED <<protectionVars, archiveVars>>
          /\ CASE profile = "restores" -> TwoRestores' [] profile = "upgrades" -> Upgrades' [] OTHER -> TwoFiles'

MCSpec == MCInit /\ [][MCNext]_<<protectionVars, archiveVars, databaseVars, profile>>
=============================================================================
