---------------------------- MODULE MCGovernance ----------------------------
(* Instances of Access, Agents, Intake, Plugins and Reviews, by profile.      *)
EXTENDS Access, Agents, Intake, Plugins, Reviews, TLC

CONSTANTS
    Profiles,       \* those of this instance
    s1, s2, a1, a2, k1, k2, r1, r2, r3, r4, x1, x2, e1, e2,
    b1, d1, d2, v1, v2, u1, g1, g2

VARIABLE profile

\* Identifiers are taken in the order of a sequence.
Taken(ids, used(_)) == \A i \in 2..Len(ids) : used(ids[i]) => used(ids[i - 1])

CallsInOrder == LET used(r) == request[r] # NoCall IN Taken(<<r1, r2>>, used) /\ Taken(<<r3, r4>>, used)

NoConsole == \A l \in Logins : login[l] = "none"
NoPairing == \A i \in Invitations : invitation[i] = NoInvitation
OneClient == client[a2] = "none" /\ token[k2] = NoToken

\* Invitations and tokens, and the services that share them.
Pairing == NoConsole /\ \A r \in Calls : request[r] = NoCall

\* Two services count the requests of one client, two here and two there.
Rates == /\ NoPairing /\ NoConsole /\ OneClient /\ CallsInOrder
         /\ client[a1] # "disabled"
         /\ token[k1].status \in {"none", "active"} /\ ~token[k1].lapsed
         /\ \A s \in Services : instance[s] # "ended"
         /\ \A r \in Calls : request[r].phase \notin {"working", "done"}
         /\ \A r \in Calls : request[r].service \in {"none", IF r \in {r1, r2} THEN s1 ELSE s2}

\* One request of one service, with any credential.
Waiting == /\ OneClient /\ instance[s2] = "new"
           /\ \A r \in Calls : r # r1 => request[r] = NoCall
           /\ \A i \in Invitations : refused[s1][i] = 0

\* One extraction or task over up to two events, the other of which is not
\* confidential; or two over one, a service's extraction and a library's by rules.
Extracting == \/ task[x2] = NoTask /\ event[e2].level \in {"none", "personal"}
              \/ /\ event[e2] = NoEvent
                 /\ \A t \in Tasks : task[t].evidence \subseteq {e1}
                 /\ task[x1].mode \in {"none", "service"} /\ task[x1].kind \in {"none", "extract"}
                 /\ task[x2].mode = "library" /\ task[x2].provider = "rules"

\* Two paths and two versions; the second path holds the first version only,
\* which asks for nothing.  What asks for permissions has another entrypoint.
Extending ==
    /\ directory[d2].version = v1 /\ directory[d2].needs = {}
    /\ directory[d1].version = v2 => directory[d1].needs # {}
    /\ \A p \in Paths : /\ directory[p].needs \in {{}, Permissions}
                        /\ directory[p].entry = "first" <=> directory[p].needs = {}

\* One session, with a token of one kind or without, and another registry that is
\* opened at any time.
Serving == /\ agent[g2].phase \in {"none", "new"} /\ agent[g2].token = "none" /\ agent[g2].space = Home
           /\ agent[g1].token \in {"none", "read_write_active"}
           /\ call[g2] = NoToolCall

\* Contradictions, opposite decisions and all statuses, or restores and restarts.
Deciding ==
    backup # NoBackup \/ Renewals > 2 =>
        /\ \A v, w \in (db.inForce \cup {db.content[c] : c \in Candidates}) \ {NoValue} : v = w
        /\ \A c \in Candidates : db.status[c] \notin {"merged", "duplicate", "needs_evidence", "invalid"}
        /\ \A q, r \in Requests \ {x \in Requests : sent[x] = NoRequest} : sent[q].action = sent[r].action

OneCredential == [r \in Requests |-> u1]
OneKey == [r \in Requests |-> "k"]

\* The requests for reviews differ in nothing, nor do the values.
Interchangeable == Permutations(Requests) \cup Permutations(Values)

MCInit ==
    /\ AccessInit /\ AgentsInit /\ IntakeInit /\ Init
    /\ PluginsInit /\ \A p \in Paths : directory[p].version = v1
    /\ profile \in Profiles
    /\ ~guarded /\ (authRequired => profile = "agents")

Accesses == AccessNext /\ CASE profile = "pairing" -> Pairing' [] profile = "rates" -> Rates' [] OTHER -> Waiting'
Extracts == IntakeNext /\ Extracting'
Serves == AgentsNext /\ Serving'
Extends == PluginsNext /\ Extending'

MCNext ==
    /\ UNCHANGED profile
    /\ IF profile \in {"pairing", "rates", "waiting"} THEN Accesses ELSE UNCHANGED accessVars
    /\ IF profile = "agents" THEN Serves ELSE UNCHANGED agentVars
    /\ IF profile = "extracting" THEN Extracts ELSE UNCHANGED intakeVars
    /\ IF profile = "plugins" THEN Extends ELSE UNCHANGED pluginVars
    /\ IF profile = "reviews" THEN Next /\ Deciding' ELSE UNCHANGED vars

MCSpec ==
    MCInit /\ [][MCNext]_<<accessVars, agentVars, intakeVars, pluginVars, vars, profile>>
=============================================================================
