------------------------------- MODULE Access -------------------------------
(***************************************************************************)
(* Who may call the service: clients and their tokens, console sessions,   *)
(* pairing invitations, the rate limit, and the authorization of a request *)
(* that is repeated in a new transaction after provider work.              *)
(*                                                                         *)
(* Several service instances share one database and one directory of       *)
(* invitations.  Each holds its lock over whole methods; where a method    *)
(* has more than one transaction, the lock is the state between them.      *)
(* Time passes in actions of its own.                                      *)
(***************************************************************************)
EXTENDS Naturals, FiniteSets

CONSTANTS
    Services,       \* instances of the service, each started once
    Clients, Tokens, Sessions, Logins, Invitations, Calls,
    Limit,          \* requests of a client in a minute
    Guesses         \* refused attempts that end an invitation

ASSUME AccessAssumption ==
    /\ Limit \in Nat \ {0} /\ Guesses \in Nat \ {0}
    /\ IsFiniteSet(Services)
    /\ {"none", "owner"} \cap (Invitations \cup Logins) = {}
    /\ Tokens \cap Sessions = {}

VARIABLES
    instance,   \* the services: "new", "running", "ended"
    client,     \* api_clients
    token,      \* api_tokens; source: the owner, or the invitation it came from
    login,      \* one-time login tokens of the console
    session,    \* console_sessions
    invitation, \* the files of outstanding invitations, and the service they are bound to
    refused,    \* LocalPairing.failures of each service
    redeeming,  \* the invitation a service has removed and not yet answered
    spent,      \* rate_limit_records of this minute
    counting,   \* a service between reading and updating such a record
    admitted,   \* ghost: requests let through this minute
    request     \* requests and how far they are

accessVars == <<instance, client, token, login, session, invitation, refused, redeeming,
                spent, counting, admitted, request>>

credentialVars == <<client, token, login, session>>
pairingVars == <<invitation, refused, redeeming>>
rateVars == <<spent, counting, admitted>>

NoToken == [client |-> "none", status |-> "none", lapsed |-> FALSE, source |-> "owner"]
NoSession == [login |-> "none", status |-> "none", lapsed |-> FALSE]
NoInvitation == [service |-> "none", status |-> "none", lapsed |-> FALSE]
NoCall == [service |-> "none", credential |-> "none", phase |-> "none"]
NotCounting == [request |-> "none", seen |-> 0, past |-> FALSE]

Identities == Clients \cup {"anonymous"}

AccessInit ==
    /\ instance = [s \in Services |-> "new"]
    /\ client = [c \in Clients |-> "none"]
    /\ token = [t \in Tokens |-> NoToken]
    /\ login = [l \in Logins |-> "none"]
    /\ session = [x \in Sessions |-> NoSession]
    /\ invitation = [i \in Invitations |-> NoInvitation]
    /\ refused = [s \in Services |-> [i \in Invitations |-> 0]]
    /\ redeeming = [s \in Services |-> "none"]
    /\ spent = [c \in Identities |-> 0]
    /\ counting = [s \in Services |-> NotCounting]
    /\ admitted = [c \in Identities |-> 0]
    /\ request = [r \in Calls |-> NoCall]

Free(s) == instance[s] = "running" /\ redeeming[s] = "none" /\ counting[s] = NotCounting

StartService(s) ==
    /\ instance[s] = "new"
    /\ instance' = [instance EXCEPT ![s] = "running"]
    /\ UNCHANGED <<credentialVars, pairingVars, rateVars, request>>

\* What the process held is gone; the files and the database stay.
EndService(s) ==
    /\ instance[s] = "running"
    /\ instance' = [instance EXCEPT ![s] = "ended"]
    /\ refused' = [refused EXCEPT ![s] = [i \in Invitations |-> 0]]
    /\ redeeming' = [redeeming EXCEPT ![s] = "none"]
    /\ counting' = [counting EXCEPT ![s] = NotCounting]
    /\ request' = [r \in Calls |->
            IF request[r].service = s THEN [request[r] EXCEPT !.phase = "lost"] ELSE request[r]]
    /\ UNCHANGED <<credentialVars, invitation, spent, admitted>>

-----------------------------------------------------------------------------
(* Clients and tokens, administered by the owner in any process.           *)

CreateClient(c) ==
    /\ client[c] = "none"
    /\ client' = [client EXCEPT ![c] = "active"]
    /\ UNCHANGED <<instance, token, login, session, pairingVars, rateVars, request>>

DisableClient(c) ==
    /\ client[c] # "none"
    /\ client' = [client EXCEPT ![c] = "disabled"]
    /\ UNCHANGED <<instance, token, login, session, pairingVars, rateVars, request>>

CreateToken(c, t) ==
    /\ client[c] = "active" /\ token[t] = NoToken
    /\ token' = [token EXCEPT ![t] = [NoToken EXCEPT !.client = c, !.status = "active"]]
    /\ UNCHANGED <<instance, client, login, session, pairingVars, rateVars, request>>

RevokeToken(t) ==
    /\ token[t] # NoToken
    /\ token' = [token EXCEPT ![t].status = "revoked"]
    /\ UNCHANGED <<instance, client, login, session, pairingVars, rateVars, request>>

LapseToken(t) ==
    /\ token[t] # NoToken
    /\ token' = [token EXCEPT ![t].lapsed = TRUE]
    /\ UNCHANGED <<instance, client, login, session, pairingVars, rateVars, request>>

-----------------------------------------------------------------------------
(* Console sessions.                                                       *)

IssueLogin(l) ==
    /\ login[l] = "none"
    /\ login' = [login EXCEPT ![l] = "issued"]
    /\ UNCHANGED <<instance, client, token, session, pairingVars, rateVars, request>>

LapseLogin(l) ==
    /\ login[l] = "issued"
    /\ login' = [login EXCEPT ![l] = "lapsed"]
    /\ UNCHANGED <<instance, client, token, session, pairingVars, rateVars, request>>

ConsoleLogin(s, l, x) ==
    /\ Free(s)
    /\ login[l] = "issued" /\ session[x] = NoSession
    /\ login' = [login EXCEPT ![l] = "used"]
    /\ session' = [session EXCEPT ![x] = [login |-> l, status |-> "open", lapsed |-> FALSE]]
    /\ UNCHANGED <<instance, client, token, pairingVars, rateVars, request>>

\* By a logout or by the owner.
RevokeSession(x) ==
    /\ session[x].status = "open"
    /\ session' = [session EXCEPT ![x].status = "revoked"]
    /\ UNCHANGED <<instance, client, token, login, pairingVars, rateVars, request>>

LapseSession(x) ==
    /\ session[x].status = "open"
    /\ session' = [session EXCEPT ![x].lapsed = TRUE]
    /\ UNCHANGED <<instance, client, token, login, pairingVars, rateVars, request>>

-----------------------------------------------------------------------------
(* Pairing.                                                                *)

\* What has lapsed is cleaned up first.
Invite(s, i) ==
    /\ instance[s] = "running" /\ invitation[i] = NoInvitation
    /\ invitation' = [j \in Invitations |->
            IF j = i THEN [service |-> s, status |-> "open", lapsed |-> FALSE]
            ELSE IF invitation[j].lapsed THEN [invitation[j] EXCEPT !.status = "gone"] ELSE invitation[j]]
    /\ UNCHANGED <<instance, credentialVars, refused, redeeming, rateVars, request>>

LapseInvitation(i) ==
    /\ invitation[i].status = "open"
    /\ invitation' = [invitation EXCEPT ![i].lapsed = TRUE]
    /\ UNCHANGED <<instance, credentialVars, refused, redeeming, rateVars, request>>

Redeemable(s, i) ==
    Free(s) /\ invitation[i].status = "open" /\ invitation[i].service = s /\ ~invitation[i].lapsed

Gone(i) == [invitation EXCEPT ![i].status = "gone"]

\* A wrong secret, a code that has lapsed, or a code of another instance.
RefuseCode(s, i) ==
    /\ Free(s) /\ invitation[i].status = "open"
    /\ IF refused[s][i] + 1 >= Guesses
       THEN refused' = [refused EXCEPT ![s][i] = 0] /\ invitation' = Gone(i)
       ELSE refused' = [refused EXCEPT ![s][i] = @ + 1] /\ UNCHANGED invitation
    /\ UNCHANGED <<instance, credentialVars, redeeming, rateVars, request>>

CancelInvitation(s, i) ==
    /\ Redeemable(s, i)
    /\ invitation' = Gone(i)
    /\ refused' = [refused EXCEPT ![s][i] = 0]
    /\ UNCHANGED <<instance, credentialVars, redeeming, rateVars, request>>

\* A mutated form of RemoveCode: the code stays until its token is stored.
RemoveCodeLater(s, i) ==
    /\ Redeemable(s, i)
    /\ redeeming' = [redeeming EXCEPT ![s] = i]
    /\ UNCHANGED <<instance, credentialVars, invitation, refused, rateVars, request>>

\* The file is removed first,
RemoveCode(s, i) ==
    /\ Redeemable(s, i)
    /\ invitation' = Gone(i)
    /\ refused' = [refused EXCEPT ![s][i] = 0]
    /\ redeeming' = [redeeming EXCEPT ![s] = i]
    /\ UNCHANGED <<instance, credentialVars, rateVars, request>>

\* and then a client and its token are stored, or neither.
MintToken(s, c, t) ==
    /\ instance[s] = "running" /\ redeeming[s] # "none"
    /\ client[c] = "none" /\ token[t] = NoToken
    /\ client' = [client EXCEPT ![c] = "active"]
    /\ token' = [token EXCEPT ![t] =
            [client |-> c, status |-> "active", lapsed |-> FALSE, source |-> redeeming[s]]]
    /\ redeeming' = [redeeming EXCEPT ![s] = "none"]
    /\ UNCHANGED <<instance, login, session, invitation, refused, rateVars, request>>

MintFails(s) ==
    /\ redeeming[s] # "none"
    /\ redeeming' = [redeeming EXCEPT ![s] = "none"]
    /\ UNCHANGED <<instance, credentialVars, invitation, refused, rateVars, request>>

-----------------------------------------------------------------------------
(* Authentication.                                                         *)

Valid(x) ==
    \/ /\ x \in Tokens /\ token[x].status = "active" /\ ~token[x].lapsed
       /\ client[token[x].client] = "active"
    \/ x \in Sessions /\ session[x].status = "open" /\ ~session[x].lapsed

Paired(x) == x \in Tokens /\ token[x].source \in Invitations

\* The one who presents a lapsed credential ends it.
Expired(x) ==
    /\ token' = IF x \in Tokens /\ token[x].status = "active" /\ token[x].lapsed
                THEN [token EXCEPT ![x].status = "expired"] ELSE token
    /\ session' = IF x \in Sessions /\ session[x].status = "open" /\ session[x].lapsed
                  THEN [session EXCEPT ![x].status = "revoked"] ELSE session

\* A paired credential is only accepted on the encrypted listener (pinned).
Receive(r, s, x, pinned) ==
    /\ Free(s) /\ request[r] = NoCall
    /\ request' = [request EXCEPT ![r] = [service |-> s, credential |-> x,
            phase |-> IF Valid(x) /\ (Paired(x) => pinned) THEN "authenticated" ELSE "refused"]]
    /\ Expired(x)
    /\ UNCHANGED <<instance, client, login, pairingVars, rateVars>>

-----------------------------------------------------------------------------
(* The rate limit: read under the service's lock, then updated in a        *)
(* transaction that adds one to whatever the row says by then.             *)

Identity(r) == IF request[r].credential \in Tokens THEN token[request[r].credential].client ELSE "anonymous"

\* A mutated form of Exhausted: one request more.
ExhaustedLate(seen) == seen > Limit

Exhausted(seen) == seen >= Limit

ReadRate(r) ==
    LET s == request[r].service
        seen == spent[Identity(r)] IN
    /\ request[r].phase = "authenticated" /\ Free(s)
    /\ IF Exhausted(seen)
       THEN request' = [request EXCEPT ![r].phase = "refused"] /\ UNCHANGED counting
       ELSE counting' = [counting EXCEPT ![s] = [request |-> r, seen |-> seen, past |-> FALSE]] /\ UNCHANGED request
    /\ UNCHANGED <<instance, credentialVars, pairingVars, spent, admitted>>

\* The record is inserted by the first request of the minute: of two that saw
\* none, one fails.
CountRate(s) ==
    LET r == counting[s].request
        c == Identity(r)
        seen == counting[s].seen IN
    /\ counting[s] # NotCounting
    /\ counting' = [counting EXCEPT ![s] = NotCounting]
    /\ IF counting[s].past
       THEN request' = [request EXCEPT ![r].phase = "admitted"] /\ UNCHANGED <<spent, admitted>>
       ELSE IF seen = 0 /\ spent[c] > 0
       THEN request' = [request EXCEPT ![r].phase = "refused"] /\ UNCHANGED <<spent, admitted>>
       ELSE /\ request' = [request EXCEPT ![r].phase = "admitted"]
            /\ spent' = [spent EXCEPT ![c] = @ + 1]
            /\ admitted' = [admitted EXCEPT ![c] = @ + 1]
    /\ UNCHANGED <<instance, credentialVars, pairingVars>>

NextMinute ==
    /\ \E c \in Identities : spent[c] > 0
    /\ spent' = [c \in Identities |-> 0]
    /\ admitted' = [c \in Identities |-> 0]
    /\ counting' = [s \in Services |->
            IF counting[s] = NotCounting THEN NotCounting ELSE [counting[s] EXCEPT !.past = TRUE]]
    /\ UNCHANGED <<instance, credentialVars, pairingVars, request>>

-----------------------------------------------------------------------------
(* A request reads and writes in one transaction.  A missing provider      *)
(* result rolls it back; the work is done with neither lock nor            *)
(* transaction, and the request is repeated with a fresh authentication.   *)

\* A mutated form of Authorized: the authentication at the door counts.
AuthorizedOnce(r) == TRUE

Authorized(r) == Valid(request[r].credential)

Attempt(r, phase) ==
    /\ request[r].phase \in {"admitted", "performed"} /\ Free(request[r].service)
    /\ IF Authorized(r) THEN phase \in {"working", "done"} ELSE phase = "refused"
    /\ request' = [request EXCEPT ![r].phase = phase]
    /\ UNCHANGED <<instance, credentialVars, pairingVars, rateVars>>

Perform(r) ==
    /\ request[r].phase = "working"
    /\ request' = [request EXCEPT ![r].phase = "performed"]
    /\ UNCHANGED <<instance, credentialVars, pairingVars, rateVars>>

AccessNext ==
    \/ \E s \in Services : StartService(s) \/ EndService(s) \/ MintFails(s) \/ CountRate(s)
    \/ \E c \in Clients : CreateClient(c) \/ DisableClient(c)
    \/ \E t \in Tokens : RevokeToken(t) \/ LapseToken(t)
    \/ \E c \in Clients, t \in Tokens : CreateToken(c, t) \/ \E s \in Services : MintToken(s, c, t)
    \/ \E l \in Logins : IssueLogin(l) \/ LapseLogin(l)
    \/ \E x \in Sessions : RevokeSession(x) \/ LapseSession(x)
    \/ \E s \in Services, l \in Logins, x \in Sessions : ConsoleLogin(s, l, x)
    \/ \E i \in Invitations : LapseInvitation(i)
    \/ \E s \in Services, i \in Invitations :
         Invite(s, i) \/ RefuseCode(s, i) \/ CancelInvitation(s, i) \/ RemoveCode(s, i)
    \/ \E r \in Calls, s \in Services, x \in Tokens \cup Sessions, pinned \in BOOLEAN : Receive(r, s, x, pinned)
    \/ \E r \in Calls : ReadRate(r) \/ Perform(r) \/ \E phase \in {"working", "done", "refused"} : Attempt(r, phase)
    \/ NextMinute

AccessSpec == AccessInit /\ [][AccessNext]_accessVars

-----------------------------------------------------------------------------
\* An invitation yields one token and a login token one session, whatever
\* crashes between the file and the database and however many services share
\* both; an invitation that is still open has yielded none (local_pairing.py
\* handle, http.py _console_login).
OneCredentialEach ==
    /\ \A i \in Invitations :
         LET minted == {t \in Tokens : token[t].source = i} IN
         Cardinality(minted) <= (IF invitation[i].status = "open" THEN 0 ELSE 1)
    /\ \A l \in Logins :
         LET opened == {x \in Sessions : session[x].login = l} IN
         Cardinality(opened) <= (IF login[l] = "used" THEN 1 ELSE 0)

\* The services that share a database let at most one request each beyond the
\* limit through in a minute (http.py _check_rate_limit).
AdmittedWithinLimit ==
    \A c \in Identities : admitted[c] <= Limit + Cardinality(Services) - 1

\* A request takes effect only under a credential that is valid in the very
\* transaction that commits it, however long it waited for a provider after it
\* was first authenticated (http.py _route_with_provider_work).
EffectsAreAuthorized ==
    [][\A r \in Calls :
         request[r].phase # "done" /\ request'[r].phase = "done" => Valid(request[r].credential)]_accessVars
=============================================================================
