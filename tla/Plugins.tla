------------------------------ MODULE Plugins ------------------------------
(***************************************************************************)
(* Governed plugins: their manifests, installations and grants, what they  *)
(* are run for, and the answers of those that are language models.         *)
(*                                                                         *)
(* A manifest is recorded for a name and a version; an installation for a  *)
(* path and a manifest, so that installations may share one.  A plugin is  *)
(* named by the id of an installation or by its name, which is the         *)
(* newest's.  Requests for an answer wait for it without the lock.         *)
(***************************************************************************)
EXTENDS Naturals, Sequences, SequencesExt

CONSTANTS
    Paths,          \* directories of plugins
    Versions,       \* versions of one plugin name
    Permissions,    \* "write_candidate", "read_text" and any others
    Uses            \* runs of plugins and requests for their answers

ASSUME PluginsAssumption == {"write_candidate", "read_text"} \subseteq Permissions

VARIABLES
    directory,      \* aletheia-plugin.toml of each path
    manifest,       \* plugin_manifests
    installed,      \* plugin_installations, in the order of installed_at
    enabled,        \* those whose status is enabled
    granted,        \* plugin_capability_grants
    use             \* what a plugin is used for

pluginVars == <<directory, manifest, installed, enabled, granted, use>>

Installations == Paths \X Versions
NoManifest == [needs |-> {}, entry |-> "none"]
NoUse == [phase |-> "none", ref |-> "none", plugin |-> "none", entry |-> "none"]

PluginsInit ==
    /\ directory \in [Paths -> [version : Versions, needs : {{}}, entry : {"first"}]]
    /\ manifest = [v \in Versions |-> NoManifest]
    /\ installed = <<>> /\ enabled = {}
    /\ granted = [i \in Installations |-> {}]
    /\ use = [u \in Uses |-> NoUse]

\* get_plugin_installation: an id, or the newest installation of the name.
Installed(ref) == IF ref = "name" THEN installed # <<>> ELSE Contains(installed, ref)
Resolved(ref) == IF ref = "name" THEN Last(installed) ELSE ref

-----------------------------------------------------------------------------
(* Installation and approval.                                              *)

\* The author of the plugin, or who updates the directory.
Publish(p, version, needs, entry) ==
    /\ directory' = [directory EXCEPT ![p] = [version |-> version, needs |-> needs, entry |-> entry]]
    /\ UNCHANGED <<manifest, installed, enabled, granted, use>>

\* _upsert_plugin_manifest: a known manifest keeps all but its checksum.
Recorded(v, payload) ==
    IF manifest[v] = NoManifest THEN [needs |-> payload.needs, entry |-> payload.entry] ELSE manifest[v]

\* An installation that is installed again must be enabled again; it keeps its
\* grants and its place among the newest.
Install(p) ==
    LET v == directory[p].version
        i == <<p, v>>
    IN  /\ manifest' = [manifest EXCEPT ![v] = Recorded(v, directory[p])]
        /\ installed' = IF Contains(installed, i) THEN installed ELSE Append(installed, i)
        /\ enabled' = enabled \ {i}
        /\ UNCHANGED <<directory, granted, use>>

Enable(ref, approved) ==
    LET i == Resolved(ref)
        needs == manifest[i[2]].needs
    IN  /\ Installed(ref) /\ needs \subseteq approved
        /\ enabled' = enabled \cup {i}
        /\ granted' = [granted EXCEPT ![i] = @ \cup needs]
        /\ UNCHANGED <<directory, manifest, installed, use>>

\* Grants are never withdrawn.
Disable(ref) ==
    /\ Installed(ref)
    /\ enabled' = enabled \ {Resolved(ref)}
    /\ UNCHANGED <<directory, manifest, installed, granted, use>>

-----------------------------------------------------------------------------
(* Use.                                                                    *)

Used(u, phase, ref, plugin, entry) ==
    /\ use' = [use EXCEPT ![u] = [phase |-> phase, ref |-> ref, plugin |-> plugin, entry |-> entry]]
    /\ UNCHANGED <<directory, manifest, installed, enabled, granted>>

\* run_plugin_operation checks and writes in several transactions, of which a
\* request of the service makes one.
MayRun(ref) ==
    /\ Resolved(ref) \in enabled
    /\ "write_candidate" \in granted[Resolved(ref)]

Run(u, ref) ==
    /\ use[u] = NoUse /\ Installed(ref)
    /\ Used(u, IF MayRun(ref) THEN "stored" ELSE "refused", ref, Resolved(ref), "operation")

RunInLibrary(u, ref) ==
    /\ use[u] = NoUse /\ Installed(ref)
    /\ Used(u, IF MayRun(ref) THEN "running" ELSE "refused", ref, Resolved(ref), "operation")

StoreCandidate(u) ==
    /\ use[u].phase = "running"
    /\ Used(u, "finished", use[u].ref, use[u].plugin, "operation")

\* A mutated form of Approved: asked at the door only.
ApprovedOnce(u, i) ==
    use[u].phase = "answered" \/ (i \in enabled /\ manifest[i[2]].needs \cup {"read_text"} \subseteq granted[i])

\* OperationAccess.provider, in every attempt of the route.
Approved(u, i) ==
    /\ i \in enabled
    /\ manifest[i[2]].needs \cup {"read_text"} \subseteq granted[i]

\* The route asks for work that has no result yet: everything is rolled back.
Request(u, ref) ==
    /\ use[u] = NoUse
    /\ IF Installed(ref) /\ Approved(u, Resolved(ref))
       THEN Used(u, "waiting", ref, Resolved(ref), manifest[Resolved(ref)[2]].entry)
       ELSE Used(u, "refused", ref, "none", "none")

\* The entrypoint is loaded and asked, after the lock was released.
Answer(u) ==
    /\ use[u].phase = "waiting"
    /\ Used(u, "answered", use[u].ref, use[u].plugin, use[u].entry)

\* The route runs again.  Another entrypoint than that of the transcript makes
\* it end with provider_input_changed.
RouteAgain(u) ==
    LET ref == use[u].ref
        i == Resolved(ref)
    IN  /\ use[u].phase = "answered"
        /\ IF Approved(u, i) /\ manifest[i[2]].entry = use[u].entry
           THEN Used(u, "stored", ref, i, use[u].entry)
           ELSE Used(u, "refused", ref, i, use[u].entry)

\* A receipt is given again only while the plugin would be approved; the
\* operation is not repeated.
GiveAgain(u) ==
    /\ use[u].phase \in {"stored", "replayed", "withheld"} /\ use[u].entry # "operation"
    /\ Used(u, IF Approved(u, Resolved(use[u].ref)) THEN "replayed" ELSE "withheld",
            use[u].ref, use[u].plugin, use[u].entry)

-----------------------------------------------------------------------------
Refs == {"name"} \cup Installations

PluginsNext ==
    \/ \E p \in Paths, v \in Versions, needs \in SUBSET Permissions, e \in {"first", "second"} :
          Publish(p, v, needs, e)
    \/ \E p \in Paths : Install(p)
    \/ \E ref \in Refs, approved \in SUBSET Permissions : Enable(ref, approved)
    \/ \E ref \in Refs : Disable(ref)
    \/ \E u \in Uses :
          \/ \E ref \in Refs : Run(u, ref) \/ RunInLibrary(u, ref) \/ Request(u, ref)
          \/ StoreCandidate(u) \/ Answer(u) \/ RouteAgain(u) \/ GiveAgain(u)

PluginsSpec == PluginsInit /\ [][PluginsNext]_pluginVars

-----------------------------------------------------------------------------
(* Properties.                                                             *)

\* An enabled plugin was granted, for the path it was installed from, all that
\* its recorded manifest asks for, whatever was installed since under its name.
EnabledWithConsent ==
    \A i \in enabled : manifest[i[2]].needs \subseteq granted[i]

\* The service stores an answer, or gives it again, only when the plugin that
\* its name means by then is enabled, and with the permission to read; what it
\* stores was said by that plugin's entrypoint.
AnswersNeedConsent ==
    [][\A u \in Uses :
         /\ use'[u] # use[u] /\ use'[u].phase \in {"stored", "replayed"}
         /\ use'[u].entry # "operation"
         => LET i == Resolved(use[u].ref)
            IN  /\ i \in enabled /\ "read_text" \in granted[i]
                /\ use'[u].phase = "stored" => use'[u].entry = manifest[i[2]].entry]_pluginVars
=============================================================================
