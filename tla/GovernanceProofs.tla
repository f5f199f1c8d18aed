-------------------------- MODULE GovernanceProofs --------------------------
(***************************************************************************)
(* Proofs about Access, Agents, Intake, Plugins and Reviews, for every     *)
(* number of services, clients, credentials, requests, agents, evidence    *)
(* events, extractions, paths and versions of plugins, candidates and      *)
(* reviewers, and without any bound on epochs or restores.                 *)
(*                                                                         *)
(* Credentials: a file or a login token that has yielded something is      *)
(* used up, and so is an invitation that a service holds between the file  *)
(* and the database.  Rates: what is spent and the services about to count *)
(* it, together, pass the limit by less than the number of services.       *)
(* Agents: what was sent still satisfies the check it passed.  Intake:     *)
(* what still has wording is linked to its evidence, and what was sent too *)
(* late is not what may be sent while its evidence is there.  Plugins:     *)
(* what is installed has a manifest on record that no installation         *)
(* replaces.                                                               *)
(*                                                                         *)
(* Reviews: the pair <<generation, epoch>> is a clock.  No revision is     *)
(* ahead of it, one that equals it belongs to a holder whom nothing has    *)
(* outdated, and a decision that took effect is behind it.  Whatever       *)
(* changes memory moves the clock, past every revision given out; a        *)
(* restore moves the epoch back, but to a generation nobody has seen.      *)
(* Within a generation a decision is final.                                *)
(***************************************************************************)
EXTENDS Access, Agents, Intake, Plugins, Reviews, FiniteSetTheorems, TLAPS

-----------------------------------------------------------------------------
(* Credentials.                                                            *)

TokenRow == {NoToken} \cup [client : Clients, status : {"active", "revoked", "expired"},
                            lapsed : BOOLEAN, source : Invitations \cup {"owner"}]
SessionRow == [login : Logins \cup {"none"}, status : {"none", "open", "revoked"}, lapsed : BOOLEAN]
InvitationFile == [service : Services \cup {"none"}, status : {"none", "open", "gone"}, lapsed : BOOLEAN]
Phases == {"none", "authenticated", "refused", "lost", "admitted", "working", "performed", "done"}
CallState == [service : Services \cup {"none"}, credential : Tokens \cup Sessions \cup {"none"}, phase : Phases]
Count == [request : Calls \cup {"none"}, seen : Nat, past : BOOLEAN]

CredentialTypeOK ==
    /\ token \in [Tokens -> TokenRow]
    /\ login \in [Logins -> {"none", "issued", "lapsed", "used"}]
    /\ session \in [Sessions -> SessionRow]
    /\ invitation \in [Invitations -> InvitationFile]
    /\ redeeming \in [Services -> Invitations \cup {"none"}]

RateTypeOK ==
    /\ spent \in [Identities -> Nat]
    /\ counting \in [Services -> Count]
    /\ request \in [Calls -> CallState]

\* What an invitation or a login token has yielded so far, and that it is used
\* up when it has yielded anything.
OneOrigin ==
    /\ \A t, u \in Tokens : token[t].source \in Invitations /\ token[u].source = token[t].source => t = u
    /\ \A x, y \in Sessions : session[x].login \in Logins /\ session[y].login = session[x].login => x = y

UsedUp ==
    /\ \A t \in Tokens : token[t].source \in Invitations => invitation[token[t].source].status = "gone"
    /\ \A s \in Services : redeeming[s] \in Invitations =>
          /\ invitation[redeeming[s]].status = "gone"
          /\ \A t \in Tokens : token[t].source # redeeming[s]
          /\ \A q \in Services : redeeming[q] = redeeming[s] => q = s
    /\ \A x \in Sessions : session[x].login \in Logins => login[session[x].login] = "used"

CredentialInv == CredentialTypeOK /\ OneOrigin /\ UsedUp

\* Nothing is issued yet.
LEMMA CredentialInitInv == AccessInit => CredentialInv
BY AccessAssumption
DEF AccessInit, CredentialInv, CredentialTypeOK, OneOrigin, UsedUp, NoSession, NoInvitation,
    TokenRow, NoToken, SessionRow, InvitationFile

\* A token that is on record stays what it was issued for.
TokensKept ==
    /\ token' \in [Tokens -> TokenRow]
    /\ \A t \in Tokens :
          token[t].status # "none" => token'[t].status # "none" /\ token'[t].client = token[t].client

SourcesKept == \A t \in Tokens : token'[t].source = token[t].source

\* A token that is revoked, or expires, stays on record.
LEMMA TokenRevoked ==
    ASSUME token \in [Tokens -> TokenRow], NEW t \in Tokens, token[t] # NoToken,
           NEW status \in {"revoked", "expired"},
           token' = [token EXCEPT ![t].status = status]
    PROVE  TokensKept /\ SourcesKept
<1>1. token'[t] = [token[t] EXCEPT !.status = status]
  OBVIOUS
<1>2. token'[t] \in TokenRow /\ token'[t].source = token[t].source /\ token'[t].client = token[t].client
      /\ token'[t].status # "none"
  BY <1>1 DEF TokenRow
<1> QED BY <1>2 DEF TokensKept, SourcesKept

\* So does one whose time has passed.
LEMMA TokenLapsed ==
    ASSUME token \in [Tokens -> TokenRow], NEW t \in Tokens, token[t] # NoToken,
           token' = [token EXCEPT ![t].lapsed = TRUE]
    PROVE  TokensKept /\ SourcesKept
<1>1. token'[t] = [token[t] EXCEPT !.lapsed = TRUE]
  OBVIOUS
<1>2. token'[t] \in TokenRow /\ token'[t].source = token[t].source /\ token'[t].client = token[t].client
      /\ token'[t].status = token[t].status
  BY <1>1 DEF TokenRow
<1> QED BY <1>2 DEF TokensKept, SourcesKept

\* Who presents a credential at most ends it.
LEMMA TokenExpired ==
    ASSUME token \in [Tokens -> TokenRow], NEW x, Expired(x)
    PROVE  TokensKept /\ SourcesKept
<1>1. CASE token' = token
  BY <1>1 DEF TokensKept, SourcesKept
<1>2. CASE token' # token
  <2>1. /\ x \in Tokens /\ token[x].status = "active"
        /\ token' = [token EXCEPT ![x].status = "expired"]
    BY <1>2 DEF Expired
  <2>2. token[x] # NoToken
    BY <2>1 DEF NoToken
  <2> QED BY <2>1, <2>2, TokenRevoked
<1> QED BY <1>1, <1>2

\* The owner issues and revokes tokens: none has an invitation for its origin.
LEMMA TokenStep ==
    ASSUME CredentialInv,
           \/ \E c \in Clients, t \in Tokens : CreateToken(c, t)
           \/ \E t \in Tokens : RevokeToken(t) \/ LapseToken(t)
    PROVE  CredentialInv'
<1> USE AccessAssumption DEF CredentialInv, CredentialTypeOK
<1>1. ASSUME NEW c \in Clients, NEW t \in Tokens, CreateToken(c, t) PROVE CredentialInv'
  BY <1>1 DEF CreateToken, OneOrigin, UsedUp, TokenRow, NoToken, pairingVars
<1>2. ASSUME NEW t \in Tokens, RevokeToken(t) \/ LapseToken(t) PROVE CredentialInv'
  <2>3. TokensKept /\ SourcesKept
    BY <1>2, TokenRevoked, TokenLapsed DEF RevokeToken, LapseToken
  <2>4. UNCHANGED <<login, session, pairingVars>>
    BY <1>2 DEF RevokeToken, LapseToken
  <2> QED BY <2>3, <2>4 DEF TokensKept, SourcesKept, OneOrigin, UsedUp, pairingVars
<1> QED BY <1>1, <1>2

\* A login token is used up by the session it opens.
LEMMA LoginStep ==
    ASSUME CredentialInv,
           \/ \E l \in Logins : IssueLogin(l) \/ LapseLogin(l)
           \/ \E x \in Sessions : RevokeSession(x) \/ LapseSession(x)
           \/ \E s \in Services, l \in Logins, x \in Sessions : ConsoleLogin(s, l, x)
    PROVE  CredentialInv'
<1> USE AccessAssumption DEF CredentialInv, CredentialTypeOK
<1>1. ASSUME NEW l \in Logins, IssueLogin(l) \/ LapseLogin(l) PROVE CredentialInv'
  BY <1>1 DEF IssueLogin, LapseLogin, OneOrigin, UsedUp, pairingVars
<1>2. ASSUME NEW x \in Sessions, RevokeSession(x) \/ LapseSession(x) PROVE CredentialInv'
  <2> DEFINE SameLogins == /\ session' \in [Sessions -> SessionRow]
                           /\ \A y \in Sessions : session'[y].login = session[y].login
  <2>0. ASSUME RevokeSession(x) PROVE SameLogins
    <3>1. session' = [session EXCEPT ![x].status = "revoked"]
      BY <2>0 DEF RevokeSession
    <3> QED BY <3>1 DEF SessionRow
  <2>3. ASSUME LapseSession(x) PROVE SameLogins
    <3>1. session' = [session EXCEPT ![x].lapsed = TRUE]
      BY <2>3 DEF LapseSession
    <3> QED BY <3>1 DEF SessionRow
  <2>1. SameLogins
    BY <1>2, <2>0, <2>3
  <2>2. UNCHANGED <<token, login, pairingVars>>
    BY <1>2 DEF RevokeSession, LapseSession
  <2> QED BY <2>1, <2>2, <1>2 DEF OneOrigin, UsedUp, pairingVars
<1>3. ASSUME NEW s \in Services, NEW l \in Logins, NEW x \in Sessions, ConsoleLogin(s, l, x)
      PROVE  CredentialInv'
  BY <1>3 DEF ConsoleLogin, OneOrigin, UsedUp, SessionRow, pairingVars
<1> QED BY <1>1, <1>2, <1>3

\* An invitation that is redeemed is gone before anybody holds it.
LEMMA PairingStep ==
    ASSUME CredentialInv,
           \/ \E i \in Invitations : LapseInvitation(i)
           \/ \E s \in Services, i \in Invitations :
                Invite(s, i) \/ RefuseCode(s, i) \/ CancelInvitation(s, i) \/ RemoveCode(s, i)
    PROVE  CredentialInv'
<1> USE AccessAssumption DEF CredentialInv, CredentialTypeOK, credentialVars
<1>1. ASSUME NEW i \in Invitations, LapseInvitation(i) PROVE CredentialInv'
  BY <1>1 DEF LapseInvitation, OneOrigin, UsedUp, InvitationFile
<1>2. ASSUME NEW s \in Services, NEW i \in Invitations, Invite(s, i) PROVE CredentialInv'
  BY <1>2 DEF Invite, NoInvitation, OneOrigin, UsedUp, InvitationFile
<1>3. ASSUME NEW s \in Services, NEW i \in Invitations, RefuseCode(s, i) PROVE CredentialInv'
  <2>1. invitation' \in {invitation, Gone(i)} /\ UNCHANGED <<credentialVars, redeeming>>
    BY <1>3 DEF RefuseCode
  <2>2. CASE UNCHANGED <<credentialVars, invitation, redeeming>>
    BY <2>2 DEF OneOrigin, UsedUp
  <2>3. CASE invitation' = Gone(i) /\ UNCHANGED <<credentialVars, redeeming>>
    BY <2>3 DEF Gone, OneOrigin, UsedUp, InvitationFile
  <2> QED BY <2>1, <2>2, <2>3
<1>4. ASSUME NEW s \in Services, NEW i \in Invitations, CancelInvitation(s, i) PROVE CredentialInv'
  BY <1>4 DEF CancelInvitation, Gone, OneOrigin, UsedUp, InvitationFile
<1>5. ASSUME NEW s \in Services, NEW i \in Invitations, RemoveCode(s, i) PROVE CredentialInv'
  BY <1>5 DEF RemoveCode, Redeemable, Gone, OneOrigin, UsedUp, InvitationFile
<1> QED BY <1>1, <1>2, <1>3, <1>4, <1>5

\* Whoever holds a redeemed invitation is the only one, and it has yielded nothing.
LEMMA MintStep ==
    ASSUME CredentialInv, NEW s \in Services,
           MintFails(s) \/ \E c \in Clients, t \in Tokens : MintToken(s, c, t)
    PROVE  CredentialInv'
<1> USE AccessAssumption DEF CredentialInv, CredentialTypeOK, credentialVars
<1>1. CASE MintFails(s)
  BY <1>1 DEF MintFails, OneOrigin, UsedUp
<1>2. ASSUME NEW c \in Clients, NEW t \in Tokens, MintToken(s, c, t) PROVE CredentialInv'
  <2>1. redeeming[s] \in Invitations
    BY <1>2 DEF MintToken
  <2>2. CredentialTypeOK'
    BY <1>2, <2>1 DEF MintToken, TokenRow, NoToken
  <2>3. OneOrigin'
    BY <1>2, <2>1 DEF MintToken, OneOrigin, UsedUp, TokenRow, NoToken
  <2>4. UsedUp'
    BY <1>2, <2>1 DEF MintToken, OneOrigin, UsedUp, TokenRow, NoToken
  <2> QED BY <2>2, <2>3, <2>4
<1> QED BY <1>1, <1>2

\* Requests leave where credentials come from alone.
LEMMA CallStep ==
    ASSUME CredentialInv,
           \/ \E s \in Services : StartService(s) \/ EndService(s) \/ CountRate(s)
           \/ \E c \in Clients : CreateClient(c) \/ DisableClient(c)
           \/ \E r \in Calls, s \in Services, x \in Tokens \cup Sessions, pinned \in BOOLEAN :
                 Receive(r, s, x, pinned)
           \/ \E r \in Calls :
                 ReadRate(r) \/ Perform(r) \/ \E phase \in {"working", "done", "refused"} : Attempt(r, phase)
           \/ NextMinute
    PROVE  CredentialInv'
<1> USE AccessAssumption DEF CredentialInv, CredentialTypeOK, credentialVars, pairingVars
<1>1. ASSUME NEW s \in Services, EndService(s) PROVE CredentialInv'
  BY <1>1 DEF EndService, OneOrigin, UsedUp
<1>2. ASSUME NEW s \in Services, StartService(s) \/ CountRate(s) PROVE CredentialInv'
  BY <1>2 DEF StartService, CountRate, OneOrigin, UsedUp
<1>3. ASSUME NEW c \in Clients, CreateClient(c) \/ DisableClient(c) PROVE CredentialInv'
  BY <1>3 DEF CreateClient, DisableClient, OneOrigin, UsedUp
<1>4. ASSUME NEW r \in Calls, NEW s \in Services, NEW x \in Tokens \cup Sessions, NEW pinned \in BOOLEAN,
             Receive(r, s, x, pinned)
      PROVE  CredentialInv'
  <2>1. UNCHANGED <<login, invitation, redeeming>>
    BY <1>4 DEF Receive
  <2>2. token' \in [Tokens -> TokenRow] /\ \A t \in Tokens : token'[t].source = token[t].source
    BY <1>4, TokenExpired DEF Receive, TokensKept, SourcesKept
  <2>3. session' \in [Sessions -> SessionRow] /\ \A y \in Sessions : session'[y].login = session[y].login
    BY <1>4 DEF Receive, Expired, SessionRow
  <2> QED BY <2>1, <2>2, <2>3 DEF OneOrigin, UsedUp
<1>5. ASSUME NEW r \in Calls, ReadRate(r) \/ Perform(r) PROVE CredentialInv'
  BY <1>5 DEF ReadRate, Perform, OneOrigin, UsedUp
<1>6. ASSUME NEW r \in Calls, NEW phase, Attempt(r, phase) PROVE CredentialInv'
  BY <1>6 DEF Attempt, OneOrigin, UsedUp
<1>7. CASE NextMinute
  BY <1>7 DEF NextMinute, OneOrigin, UsedUp
<1> QED BY <1>1, <1>2, <1>3, <1>4, <1>5, <1>6, <1>7

\* A stuttering step.
LEMMA CredentialStutter == CredentialInv /\ UNCHANGED accessVars => CredentialInv'
BY DEF accessVars, CredentialInv, CredentialTypeOK, OneOrigin, UsedUp

\* The credential invariant is inductive.
LEMMA CredentialStep == CredentialInv /\ [AccessNext]_accessVars => CredentialInv'
BY TokenStep, LoginStep, PairingStep, MintStep, CallStep, CredentialStutter DEF AccessNext

\* It implies that nothing yields two credentials.
LEMMA CredentialUnique == CredentialInv => OneCredentialEach
<1> SUFFICES ASSUME CredentialInv PROVE OneCredentialEach
  OBVIOUS
<1>1. ASSUME NEW S, \A a, b \in S : a = b PROVE Cardinality(S) <= 1
  <2>1. CASE S = {}
    BY <2>1, FS_EmptySet
  <2>2. ASSUME NEW a \in S PROVE Cardinality(S) <= 1
    <3>1. S = {a}
      BY <1>1
    <3>2. Cardinality({a}) = 1
      BY FS_Singleton
    <3> QED BY <3>1, <3>2
  <2> QED BY <2>1, <2>2
<1>2. ASSUME NEW i \in Invitations
      PROVE  Cardinality({t \in Tokens : token[t].source = i})
                <= (IF invitation[i].status = "open" THEN 0 ELSE 1)
  <2>1. CASE invitation[i].status = "open"
    <3>1. {t \in Tokens : token[t].source = i} = {}
      BY <2>1 DEF CredentialInv, UsedUp
    <3> QED BY <3>1, <2>1, FS_EmptySet
  <2>2. CASE invitation[i].status # "open"
    <3>1. \A a, b \in {t \in Tokens : token[t].source = i} : a = b
      BY DEF CredentialInv, OneOrigin
    <3> QED BY <3>1, <2>2, <1>1
  <2> QED BY <2>1, <2>2
<1>3. ASSUME NEW l \in Logins
      PROVE  Cardinality({x \in Sessions : session[x].login = l})
                <= (IF login[l] = "used" THEN 1 ELSE 0)
  <2>1. CASE login[l] # "used"
    <3>1. {x \in Sessions : session[x].login = l} = {}
      BY <2>1 DEF CredentialInv, UsedUp
    <3> QED BY <3>1, <2>1, FS_EmptySet
  <2>2. CASE login[l] = "used"
    <3>1. \A a, b \in {x \in Sessions : session[x].login = l} : a = b
      BY DEF CredentialInv, OneOrigin
    <3> QED BY <3>1, <2>2, <1>1
  <2> QED BY <2>1, <2>2
<1> QED BY <1>2, <1>3 DEF OneCredentialEach

\* Whatever crashes between the removal of an invitation and the transaction that
\* stores its token, and however many services share both, an invitation yields
\* at most one token and a login token at most one session, and an invitation
\* that is still open has yielded none (local_pairing.py handle, http.py
\* _console_login).
THEOREM CredentialsAreSingle == AccessSpec => []OneCredentialEach
BY CredentialInitInv, CredentialStep, CredentialUnique, PTL DEF AccessSpec

-----------------------------------------------------------------------------
(* The rate limit.                                                         *)

\* A request that was let in came with a credential that is still on record,
\* so what it counts for does not change.
OnRecord(r) ==
    /\ r \in Calls /\ request[r].phase # "none"
    /\ request[r].credential \in Tokens => token[request[r].credential].status # "none"

\* The services that are about to add one to the record of an identity.
Counters(c) ==
    {s \in Services : counting[s] # NotCounting /\ ~counting[s].past /\ Identity(counting[s].request) = c}

RateInv ==
    /\ RateTypeOK /\ token \in [Tokens -> TokenRow]
    /\ admitted = spent
    /\ \A r \in Calls : request[r].phase = "authenticated" => OnRecord(r)
    /\ \A s \in Services : counting[s] # NotCounting => OnRecord(counting[s].request)
    /\ \A c \in Identities : spent[c] + Cardinality(Counters(c)) <= Limit + Cardinality(Services) - 1

\* At most as many count as there are services.
LEMMA CountersFinite ==
    ASSUME NEW c
    PROVE  /\ IsFiniteSet(Counters(c)) /\ Cardinality(Counters(c)) \in Nat
           /\ Cardinality(Services) \in Nat /\ Cardinality(Counters(c)) <= Cardinality(Services)
<1>1. Counters(c) \in SUBSET Services
  BY DEF Counters
<1>2. IsFiniteSet(Services) /\ IsFiniteSet(Counters(c)) /\ Cardinality(Counters(c)) <= Cardinality(Services)
  BY <1>1, FS_Subset, AccessAssumption
<1> QED BY <1>2, FS_CardinalityType

\* When nothing is spent more and no service starts to count, the bound stays.
LEMMA FewerCounters ==
    ASSUME RateInv, NEW c \in Identities,
           spent' = spent, Counters(c)' \subseteq Counters(c)
    PROVE  spent'[c] + Cardinality(Counters(c)') <= Limit + Cardinality(Services) - 1
<1>1. Cardinality(Counters(c)') <= Cardinality(Counters(c)) /\ Cardinality(Counters(c)') \in Nat
  BY CountersFinite, FS_Subset, FS_CardinalityType
<1>2. spent[c] \in Nat /\ Limit \in Nat
  BY AccessAssumption DEF RateInv, RateTypeOK
<1> QED BY <1>1, <1>2, CountersFinite DEF RateInv

\* Nobody counts and nothing is spent.
LEMMA RateInitInv == AccessInit => RateInv
<1> SUFFICES ASSUME AccessInit PROVE RateInv
  OBVIOUS
<1>1. RateTypeOK /\ token \in [Tokens -> TokenRow] /\ admitted = spent
  BY DEF AccessInit, RateTypeOK, Identities, Count, CallState, Phases, TokenRow, NoToken, NotCounting, NoCall
<1>2. \A r \in Calls : request[r].phase # "authenticated"
  BY DEF AccessInit, NoCall
<1>3. \A s \in Services : counting[s] = NotCounting
  BY DEF AccessInit
<1>4. ASSUME NEW c \in Identities
      PROVE  spent[c] + Cardinality(Counters(c)) <= Limit + Cardinality(Services) - 1
  <2>1. Counters(c) = {} /\ spent[c] = 0
    BY <1>3 DEF Counters, AccessInit
  <2>2. Cardinality(Counters(c)) = 0
    BY <2>1, FS_EmptySet
  <2> QED BY <2>1, <2>2, CountersFinite, AccessAssumption
<1> QED BY <1>1, <1>2, <1>3, <1>4 DEF RateInv

\* Steps that count nothing and leave what came with a request on record.
LEMMA QuietStep ==
    ASSUME RateInv, UNCHANGED <<spent, counting, admitted, request>>,
           TokensKept
    PROVE  RateInv'
<1>1. RateTypeOK' /\ admitted' = spent'
  BY DEF RateInv, RateTypeOK
<1>2. ASSUME NEW r, OnRecord(r) PROVE OnRecord(r)' /\ Identity(r)' = Identity(r)
  BY <1>2 DEF OnRecord, Identity, TokensKept
<1>3. ASSUME NEW c \in Identities PROVE Counters(c)' \subseteq Counters(c)
  BY <1>2 DEF RateInv, Counters
<1>4. \A r \in Calls : request'[r].phase = "authenticated" => OnRecord(r)'
  BY <1>2 DEF RateInv
<1>5. \A s \in Services : counting'[s] # NotCounting => OnRecord(counting[s].request)'
  BY <1>2 DEF RateInv
<1> QED BY <1>1, <1>3, <1>4, <1>5, FewerCounters DEF RateInv, TokensKept

\* Administration, sessions and pairing count nothing.
LEMMA AdministrationRate ==
    ASSUME RateInv, CredentialInv,
           \/ \E s \in Services : StartService(s) \/ MintFails(s)
           \/ \E c \in Clients : CreateClient(c) \/ DisableClient(c)
           \/ \E t \in Tokens : RevokeToken(t) \/ LapseToken(t)
           \/ \E c \in Clients, t \in Tokens : CreateToken(c, t) \/ \E s \in Services : MintToken(s, c, t)
           \/ \E l \in Logins : IssueLogin(l) \/ LapseLogin(l)
           \/ \E x \in Sessions : RevokeSession(x) \/ LapseSession(x)
           \/ \E s \in Services, l \in Logins, x \in Sessions : ConsoleLogin(s, l, x)
           \/ \E i \in Invitations : LapseInvitation(i)
           \/ \E s \in Services, i \in Invitations :
                Invite(s, i) \/ RefuseCode(s, i) \/ CancelInvitation(s, i) \/ RemoveCode(s, i)
    PROVE  RateInv'
<1> DEFINE Uncounted == UNCHANGED <<spent, counting, admitted, request>>
<1> SUFFICES Uncounted /\ TokensKept
  BY QuietStep
<1>0. token \in [Tokens -> TokenRow]
  BY DEF RateInv
<1>1. ASSUME UNCHANGED token PROVE TokensKept
  BY <1>0, <1>1 DEF TokensKept
<1>2. ASSUME \E s \in Services : StartService(s) \/ MintFails(s) PROVE Uncounted /\ UNCHANGED token
  BY <1>2 DEF StartService, MintFails, credentialVars, pairingVars, rateVars
<1>3. ASSUME \E c \in Clients : CreateClient(c) \/ DisableClient(c) PROVE Uncounted /\ UNCHANGED token
  BY <1>3 DEF CreateClient, DisableClient, credentialVars, pairingVars, rateVars
<1>4. ASSUME NEW t \in Tokens, RevokeToken(t) \/ LapseToken(t) PROVE Uncounted /\ TokensKept
  <2>1. Uncounted /\ token[t] # NoToken
    BY <1>4 DEF RevokeToken, LapseToken, rateVars
  <2> QED BY <1>0, <1>4, <2>1, TokenRevoked, TokenLapsed DEF RevokeToken, LapseToken
<1>5. ASSUME NEW c \in Clients, NEW t \in Tokens, NEW row \in TokenRow,
             token[t] = NoToken, token' = [token EXCEPT ![t] = row]
      PROVE  TokensKept
  BY <1>0, <1>5 DEF TokensKept, NoToken
<1>6. ASSUME NEW c \in Clients, NEW t \in Tokens, CreateToken(c, t) PROVE Uncounted /\ TokensKept
  <2>1. Uncounted /\ token[t] = NoToken
    BY <1>6 DEF CreateToken, rateVars
  <2>2. [NoToken EXCEPT !.client = c, !.status = "active"] \in TokenRow
    BY DEF TokenRow, NoToken
  <2>3. token' = [token EXCEPT ![t] = [NoToken EXCEPT !.client = c, !.status = "active"]]
    BY <1>6 DEF CreateToken
  <2> QED BY <1>5, <2>1, <2>2, <2>3
<1>7. ASSUME NEW c \in Clients, NEW t \in Tokens, NEW s \in Services, MintToken(s, c, t)
      PROVE  Uncounted /\ TokensKept
  <2>1. Uncounted /\ token[t] = NoToken /\ redeeming[s] \in Invitations
    BY <1>7 DEF MintToken, rateVars, CredentialInv, CredentialTypeOK
  <2>2. [client |-> c, status |-> "active", lapsed |-> FALSE, source |-> redeeming[s]] \in TokenRow
    BY <2>1 DEF TokenRow, NoToken
  <2>3. token' = [token EXCEPT ![t] =
            [client |-> c, status |-> "active", lapsed |-> FALSE, source |-> redeeming[s]]]
    BY <1>7 DEF MintToken
  <2> QED BY <1>5, <2>1, <2>2, <2>3
<1>8. ASSUME NEW l \in Logins, IssueLogin(l) \/ LapseLogin(l) PROVE Uncounted /\ UNCHANGED token
  BY <1>8 DEF IssueLogin, LapseLogin, rateVars
<1>9. ASSUME NEW x \in Sessions, RevokeSession(x) \/ LapseSession(x) PROVE Uncounted /\ UNCHANGED token
  BY <1>9 DEF RevokeSession, LapseSession, rateVars
<1>10. ASSUME NEW s \in Services, NEW l \in Logins, NEW x \in Sessions, ConsoleLogin(s, l, x)
       PROVE  Uncounted /\ UNCHANGED token
  BY <1>10 DEF ConsoleLogin, rateVars
<1>11. ASSUME NEW s \in Services, NEW i \in Invitations,
              \/ LapseInvitation(i) \/ Invite(s, i) \/ RefuseCode(s, i)
              \/ CancelInvitation(s, i) \/ RemoveCode(s, i)
       PROVE  Uncounted /\ UNCHANGED token
  BY <1>11
  DEF LapseInvitation, Invite, RefuseCode, CancelInvitation, RemoveCode, credentialVars, rateVars
<1>12. ASSUME NEW i \in Invitations, LapseInvitation(i) PROVE Uncounted /\ UNCHANGED token
  BY <1>12 DEF LapseInvitation, credentialVars, rateVars
<1> HIDE DEF Uncounted
<1> QED BY <1>1, <1>2, <1>3, <1>4, <1>6, <1>7, <1>8, <1>9, <1>10, <1>11, <1>12

\* Steps that count nothing, keep what a request came with, and authenticate
\* only what is on record.
LEMMA SteadyStep ==
    ASSUME RateInv, spent' = spent, admitted' = admitted, RateTypeOK', TokensKept,
           \A s \in Services : counting'[s] = counting[s] \/ counting'[s] = NotCounting,
           \A r \in Calls : request[r].phase # "none" =>
                request'[r].credential = request[r].credential /\ request'[r].phase # "none",
           \A r \in Calls : request'[r].phase = "authenticated" =>
                request[r].phase = "authenticated" \/ OnRecord(r)'
    PROVE  RateInv'
<1>1. ASSUME NEW r, OnRecord(r) PROVE OnRecord(r)' /\ Identity(r)' = Identity(r)
  BY <1>1 DEF OnRecord, Identity, TokensKept
<1>2. ASSUME NEW c \in Identities PROVE Counters(c)' \subseteq Counters(c)
  BY <1>1 DEF RateInv, Counters
<1>3. ASSUME NEW r \in Calls, request'[r].phase = "authenticated" PROVE OnRecord(r)'
  BY <1>1, <1>3 DEF RateInv
<1>4. ASSUME NEW s \in Services, counting'[s] # NotCounting PROVE OnRecord(counting[s].request)'
  <2>1. counting'[s] = counting[s] /\ counting[s] # NotCounting
    BY <1>4
  <2>2. OnRecord(counting[s].request)
    BY <2>1 DEF RateInv
  <2>3. \A r : OnRecord(r) => OnRecord(r)'
    BY <1>1
  <2> QED BY <2>1, <2>2, <2>3
<1>5. ASSUME NEW c \in Identities
      PROVE  spent'[c] + Cardinality(Counters(c)') <= Limit + Cardinality(Services) - 1
  BY <1>2, FewerCounters
<1>6. admitted' = spent'
  BY DEF RateInv
<1> QED BY <1>3, <1>4, <1>5, <1>6 DEF RateInv, TokensKept

\* The service ends, or a request comes in or goes on, and nobody counts.
LEMMA RequestRate ==
    ASSUME RateInv,
           \/ \E s \in Services : EndService(s)
           \/ \E r \in Calls, s \in Services, x \in Tokens \cup Sessions, pinned \in BOOLEAN :
                 Receive(r, s, x, pinned)
           \/ \E r \in Calls : Perform(r) \/ \E phase \in {"working", "done", "refused"} : Attempt(r, phase)
    PROVE  RateInv'
<1>0. RateTypeOK /\ token \in [Tokens -> TokenRow]
  BY DEF RateInv
<1>2. ASSUME NEW s \in Services, EndService(s) PROVE RateInv'
  <2>1. UNCHANGED <<spent, admitted, token>>
    BY <1>2 DEF EndService, credentialVars
  <2>2. RateTypeOK'
    BY <1>0, <1>2 DEF EndService, RateTypeOK, CallState, Count, Phases, NotCounting
  <2>3. \A q \in Services : counting'[q] = counting[q] \/ counting'[q] = NotCounting
    BY <1>0, <1>2 DEF EndService, RateTypeOK
  <2>4. \A r \in Calls : request[r].phase # "none" =>
            request'[r].credential = request[r].credential /\ request'[r].phase # "none"
    BY <1>0, <1>2 DEF EndService, RateTypeOK, CallState
  <2>6. \A r \in Calls : request'[r].phase = "authenticated" => request[r].phase = "authenticated"
    BY <1>0, <1>2 DEF EndService, RateTypeOK, CallState
  <2>7. spent' = spent /\ admitted' = admitted
    BY <2>1
  <2>5. TokensKept
    BY <1>0, <2>1 DEF TokensKept
  <2> QED BY SteadyStep, <2>2, <2>3, <2>4, <2>5, <2>6, <2>7
<1>3. ASSUME NEW r \in Calls, NEW s \in Services, NEW x \in Tokens \cup Sessions, NEW pinned \in BOOLEAN,
             Receive(r, s, x, pinned)
      PROVE  RateInv'
  <2> DEFINE outcome == IF Valid(x) /\ (Paired(x) => pinned) THEN "authenticated" ELSE "refused"
  <2>1. UNCHANGED <<spent, admitted, counting>> /\ request[r] = NoCall
    BY <1>3 DEF Receive, rateVars
  <2>2. request' = [request EXCEPT ![r] = [service |-> s, credential |-> x, phase |-> outcome]]
    BY <1>3 DEF Receive
  <2>3. outcome \in {"authenticated", "refused"}
    OBVIOUS
  <2>4. outcome = "authenticated" /\ x \in Tokens => token[x].status # "none"
    BY AccessAssumption DEF Valid
  <2>5. TokensKept
    BY <1>0, <1>3, TokenExpired DEF Receive
  <2> HIDE DEF outcome
  <2>6. RateTypeOK'
    BY <1>0, <2>1, <2>2, <2>3 DEF RateTypeOK, CallState, Phases
  <2>7. \A q \in Calls : request[q].phase # "none" =>
            request'[q].credential = request[q].credential /\ request'[q].phase # "none"
    BY <1>0, <2>1, <2>2 DEF RateTypeOK, NoCall, CallState
  <2>8. \A q \in Calls : q # r => request'[q] = request[q]
    BY <1>0, <2>2 DEF RateTypeOK
  <2>9. request'[r].phase = "authenticated" => OnRecord(r)'
    BY <1>0, <2>2, <2>4, <2>5 DEF OnRecord, RateTypeOK, CallState, TokensKept
  <2>10. \A q \in Calls : request'[q].phase = "authenticated" => request[q].phase = "authenticated" \/ OnRecord(q)'
    BY <2>8, <2>9
  <2> QED BY <1>0, SteadyStep, <2>1, <2>5, <2>6, <2>7, <2>10
<1>4. ASSUME NEW r \in Calls, NEW phase \in {"working", "done", "refused"}, Perform(r) \/ Attempt(r, phase)
      PROVE  RateInv'
  <2>1. UNCHANGED <<spent, admitted, counting, token>>
    BY <1>4 DEF Perform, Attempt, credentialVars, rateVars
  <2>2. \E new \in {"working", "done", "refused", "performed"} : request' = [request EXCEPT ![r].phase = new]
    BY <1>4 DEF Perform, Attempt
  <2>3. RateTypeOK'
    BY <1>0, <2>1, <2>2 DEF RateTypeOK, CallState, Phases
  <2>4. TokensKept
    BY <1>0, <2>1 DEF TokensKept
  <2>5. \A q \in Calls : /\ request[q].phase # "none" =>
                             request'[q].credential = request[q].credential /\ request'[q].phase # "none"
                         /\ request'[q].phase = "authenticated" => request[q].phase = "authenticated"
    BY <1>0, <2>2 DEF RateTypeOK, CallState
  <2> QED BY SteadyStep, <2>1, <2>3, <2>4, <2>5
<1> QED BY <1>2, <1>3, <1>4

\* A request is counted: it stops to be about to be.
LEMMA CountStep ==
    ASSUME RateInv, NEW s \in Services, CountRate(s)
    PROVE  RateInv'
<1> DEFINE r == counting[s].request
           d == Identity(r)
           through == ~counting[s].past /\ ~(counting[s].seen = 0 /\ spent[d] > 0)
<1>1. RateTypeOK /\ OnRecord(r) /\ r \in Calls /\ Limit \in Nat
  BY AccessAssumption DEF CountRate, RateInv, OnRecord
<1>2. /\ counting' = [counting EXCEPT ![s] = NotCounting]
      /\ UNCHANGED <<credentialVars>>
      /\ \E phase \in {"admitted", "refused"} : request' = [request EXCEPT ![r].phase = phase]
  BY DEF CountRate
<1>3. \/ ~through /\ spent' = spent /\ admitted' = admitted
      \/ /\ through
         /\ spent' = [spent EXCEPT ![d] = @ + 1]
         /\ admitted' = [admitted EXCEPT ![d] = @ + 1]
  BY DEF CountRate
<1>4. token' = token /\ token' \in [Tokens -> TokenRow]
  BY <1>2 DEF RateInv, credentialVars
<1>5. counting' \in [Services -> Count]
  BY <1>1, <1>2 DEF RateTypeOK, Count, NotCounting
<1>6. /\ request' \in [Calls -> CallState]
      /\ \A q \in Calls : /\ request'[q].credential = request[q].credential
                          /\ request'[q].phase = "authenticated" => request[q].phase = "authenticated"
                          /\ request[q].phase # "none" => request'[q].phase # "none"
  BY <1>1, <1>2 DEF RateTypeOK, CallState, Phases
<1>7. spent' \in [Identities -> Nat]
  BY <1>1, <1>3 DEF RateTypeOK
<1>8. ASSUME NEW q, OnRecord(q) PROVE OnRecord(q)' /\ Identity(q)' = Identity(q)
  BY <1>4, <1>6, <1>8 DEF OnRecord, Identity
<1>9. admitted' = spent'
  BY <1>3 DEF RateInv
<1>10. ASSUME NEW q \in Services, counting'[q] # NotCounting PROVE q # s /\ counting'[q] = counting[q]
  BY <1>1, <1>2, <1>10 DEF RateTypeOK
<1>11. ASSUME NEW q \in Services, counting'[q] # NotCounting PROVE OnRecord(counting[q].request)'
  <2>1. OnRecord(counting[q].request)
    BY <1>10, <1>11 DEF RateInv
  <2> QED BY <1>8, <1>10, <1>11, <2>1 DEF OnRecord
<1>12. ASSUME NEW q \in Calls, request'[q].phase = "authenticated" PROVE OnRecord(q)'
  BY <1>6, <1>8, <1>12 DEF RateInv
<1>13. ASSUME NEW c \in Identities PROVE Counters(c)' \subseteq Counters(c) \ {s}
  <2>1. SUFFICES ASSUME NEW q \in Services, counting'[q] # NotCounting, ~counting'[q].past,
                        Identity(counting[q].request)' = c
                 PROVE  q \in Counters(c) \ {s}
    BY DEF Counters
  <2>2. q # s /\ counting'[q] = counting[q] /\ OnRecord(counting[q].request)
    BY <1>10, <2>1 DEF RateInv
  <2>3. Identity(counting[q].request) = c
    BY <1>4, <1>6, <2>1, <2>2 DEF Identity, OnRecord
  <2> QED BY <2>1, <2>2, <2>3 DEF Counters
<1>14. ASSUME NEW c \in Identities
       PROVE  spent'[c] + Cardinality(Counters(c)') <= Limit + Cardinality(Services) - 1
  <2>1. CASE spent'[c] = spent[c]
    <3>1. Counters(c)' \subseteq Counters(c)
      BY <1>13
    <3>2. Cardinality(Counters(c)') <= Cardinality(Counters(c)) /\ Cardinality(Counters(c)') \in Nat
      BY <3>1, CountersFinite, FS_Subset, FS_CardinalityType
    <3>3. spent[c] \in Nat /\ Limit \in Nat
      BY <1>1 DEF RateTypeOK
    <3> QED BY <2>1, <3>2, <3>3, CountersFinite DEF RateInv
  <2>2. CASE spent'[c] # spent[c]
    <3>1. through /\ d = c /\ spent'[c] = spent[c] + 1
      BY <1>1, <1>3, <2>2 DEF RateTypeOK
    <3>2. s \in Counters(c)
      BY <3>1 DEF Counters, CountRate
    <3>3. Cardinality(Counters(c) \ {s}) = Cardinality(Counters(c)) - 1 /\ IsFiniteSet(Counters(c) \ {s})
      BY <3>2, CountersFinite, FS_RemoveElement
    <3>4. Cardinality(Counters(c)') <= Cardinality(Counters(c)) - 1 /\ Cardinality(Counters(c)') \in Nat
      BY <1>13, <3>3, FS_Subset, FS_CardinalityType
    <3>5. spent[c] \in Nat /\ Limit \in Nat
      BY <1>1 DEF RateTypeOK
    <3> QED BY <3>1, <3>4, <3>5, CountersFinite DEF RateInv
  <2> QED BY <2>1, <2>2
<1> HIDE DEF r, d, through
<1> QED BY <1>4, <1>5, <1>6, <1>7, <1>9, <1>11, <1>12, <1>14 DEF RateInv, RateTypeOK

\* A service reads the record of a request before it counts it.
LEMMA ReadStep ==
    ASSUME RateInv, NEW r \in Calls, ReadRate(r)
    PROVE  RateInv'
<1> DEFINE s == request[r].service
           d == Identity(r)
<1>1. RateTypeOK /\ OnRecord(r) /\ Limit \in Nat
  BY AccessAssumption DEF ReadRate, RateInv
<1>2. UNCHANGED <<spent, admitted, token>>
  BY DEF ReadRate, credentialVars
<1>3. CASE Exhausted(spent[d])
  <2>1. UNCHANGED counting /\ request' = [request EXCEPT ![r].phase = "refused"]
    BY <1>3 DEF ReadRate
  <2>2. RateTypeOK' /\ token' \in [Tokens -> TokenRow]
    BY <1>1, <1>2, <2>1 DEF RateInv, RateTypeOK, CallState, Phases
  <2>3. \A q \in Calls : /\ request[q].phase # "none" =>
                             request'[q].credential = request[q].credential /\ request'[q].phase # "none"
                         /\ request'[q].phase = "authenticated" => request[q].phase = "authenticated"
    BY <1>1, <2>1 DEF RateTypeOK, CallState
  <2>4. TokensKept
    BY <1>2, <2>2 DEF TokensKept
  <2> QED BY <1>2, <2>1, <2>2, <2>3, <2>4, SteadyStep
<1>4. CASE ~Exhausted(spent[d])
  <2>1. /\ UNCHANGED request
        /\ counting' = [counting EXCEPT ![s] = [request |-> r, seen |-> spent[d], past |-> FALSE]]
    BY <1>4 DEF ReadRate
  <2>2. spent[d] \in Nat
    BY <1>1, <1>2 DEF RateInv, RateTypeOK, Identity, OnRecord, Identities, TokenRow, NoToken, CallState
  <2>3. RateTypeOK' /\ token' \in [Tokens -> TokenRow]
    BY <1>1, <1>2, <2>1, <2>2 DEF RateInv, RateTypeOK, Count
  <2>4. ASSUME NEW q PROVE (OnRecord(q) => OnRecord(q)') /\ Identity(q)' = Identity(q)
    BY <1>2, <2>1 DEF OnRecord, Identity
  <2>5. ASSUME NEW q \in Services, counting'[q] # NotCounting PROVE OnRecord(counting[q].request)'
    <3>1. CASE q = s
      BY <1>1, <2>1, <2>4, <3>1 DEF RateTypeOK, OnRecord
    <3>2. CASE q # s
      <4>1. counting'[q] = counting[q] /\ OnRecord(counting[q].request)
        BY <1>1, <2>1, <2>5, <3>2 DEF RateTypeOK, RateInv
      <4> QED BY <1>2, <2>1, <4>1 DEF OnRecord
    <3> QED BY <3>1, <3>2
  <2>6. ASSUME NEW c \in Identities
        PROVE  spent'[c] + Cardinality(Counters(c)') <= Limit + Cardinality(Services) - 1
    <3>1. CASE c = d
      <4>1. spent'[c] \in Nat /\ spent'[c] < Limit
        BY <1>1, <1>2, <1>4, <2>2, <3>1 DEF Exhausted
      <4>2. Counters(c)' \in SUBSET Services
        BY DEF Counters
      <4>3. Cardinality(Counters(c)') \in Nat /\ Cardinality(Counters(c)') <= Cardinality(Services)
        BY <4>2, AccessAssumption, FS_Subset, FS_CardinalityType
      <4>4. Cardinality(Services) \in Nat
        BY AccessAssumption, FS_CardinalityType
      <4> QED BY <1>1, <4>1, <4>3, <4>4
    <3>2. CASE c # d
      <4>2. ASSUME NEW q \in Counters(c)' PROVE q # s /\ counting'[q] = counting[q]
        <5>1. q \in Services /\ Identity(counting[q].request)' = c
          BY DEF Counters
        <5>2. CASE q = s
          <6>1. counting'[q].request = r
            BY <1>1, <2>1, <5>1, <5>2 DEF RateTypeOK
          <6>2. Identity(counting[q].request)' = d
            BY <1>2, <2>1, <6>1 DEF Identity
          <6> QED BY <3>2, <5>1, <6>2
        <5> QED BY <1>1, <2>1, <5>1, <5>2 DEF RateTypeOK
      <4>3. ASSUME NEW q \in Counters(c)' PROVE q \in Counters(c)
        BY <1>2, <2>1, <4>2 DEF Counters, Identity
      <4>1. Counters(c)' \subseteq Counters(c)
        BY <4>3
      <4> QED BY <1>2, <4>1, FewerCounters
    <3> QED BY <3>1, <3>2
  <2>7. \A q \in Calls : request'[q].phase = "authenticated" => OnRecord(q)'
    BY <2>1, <2>4 DEF RateInv
  <2>8. admitted' = spent'
    BY <1>2 DEF RateInv
  <2> QED BY <2>3, <2>5, <2>6, <2>7, <2>8 DEF RateInv
<1> QED BY <1>3, <1>4

\* With the minute, what is counted late no longer counts.
LEMMA MinuteStep ==
    ASSUME RateInv, NextMinute
    PROVE  RateInv'
<1>1. /\ spent' = [c \in Identities |-> 0] /\ admitted' = spent'
      /\ counting' = [s \in Services |->
            IF counting[s] = NotCounting THEN NotCounting ELSE [counting[s] EXCEPT !.past = TRUE]]
      /\ UNCHANGED <<token, request>>
  BY DEF NextMinute, credentialVars
<1>2. RateTypeOK' /\ token' \in [Tokens -> TokenRow]
  BY <1>1 DEF RateInv, RateTypeOK, Count, NotCounting
<1>3. ASSUME NEW q PROVE OnRecord(q) => OnRecord(q)'
  BY <1>1 DEF OnRecord
<1>4. ASSUME NEW s \in Services, counting'[s] # NotCounting
      PROVE  OnRecord(counting[s].request)' /\ counting'[s].past
  <2>1. /\ counting[s] # NotCounting /\ counting'[s].request = counting[s].request
        /\ counting'[s].past
    BY <1>1, <1>4 DEF RateInv, RateTypeOK, Count
  <2> QED BY <1>1, <2>1 DEF OnRecord, RateInv
<1>5. ASSUME NEW c \in Identities
      PROVE  spent'[c] + Cardinality(Counters(c)') <= Limit + Cardinality(Services) - 1
  <2>1. Counters(c)' = {} /\ spent'[c] = 0
    BY <1>1, <1>4 DEF Counters
  <2>2. Cardinality(Counters(c)') = 0
    BY <2>1, FS_EmptySet
  <2> QED BY <2>1, <2>2, CountersFinite, AccessAssumption
<1>6. \A q \in Calls : request'[q].phase = "authenticated" => OnRecord(q)'
  BY <1>1, <1>3 DEF RateInv
<1> QED BY <1>1, <1>2, <1>4, <1>5, <1>6 DEF RateInv

\* A stuttering step.
LEMMA RateStutter == RateInv /\ UNCHANGED accessVars => RateInv'
<1> SUFFICES ASSUME RateInv, UNCHANGED accessVars PROVE RateInv'
  OBVIOUS
<1>1. UNCHANGED <<spent, counting, admitted, request, token>>
  BY DEF accessVars
<1> QED BY <1>1, QuietStep DEF RateInv, TokensKept

\* The rate invariant is inductive, given that of the credentials.
LEMMA RateStep == CredentialInv /\ RateInv /\ [AccessNext]_accessVars => RateInv'
BY AdministrationRate, RequestRate, CountStep, ReadStep, MinuteStep, RateStutter DEF AccessNext

\* It bounds what was let through.
LEMMA RateBound == RateInv => AdmittedWithinLimit
<1> SUFFICES ASSUME RateInv, NEW c \in Identities PROVE admitted[c] <= Limit + Cardinality(Services) - 1
  BY DEF AdmittedWithinLimit
<1>1. admitted[c] \in Nat /\ Limit \in Nat /\ admitted[c] = spent[c]
  BY AccessAssumption DEF RateInv, RateTypeOK
<1> QED BY <1>1, CountersFinite DEF RateInv

\* Services that read the record of a minute under their own locks and update it
\* later let at most one request each beyond the limit through (http.py
\* _check_rate_limit).
THEOREM RateIsLimited == AccessSpec => []AdmittedWithinLimit
BY CredentialInitInv, CredentialStep, RateInitInv, RateStep, RateBound, PTL DEF AccessSpec

-----------------------------------------------------------------------------
(* Authorization.                                                          *)

\* Only an attempt makes a request take effect, and it authenticates again.
LEMMA EffectStep ==
    ASSUME RateInv, [AccessNext]_accessVars, NEW r \in Calls,
           request[r].phase # "done", request'[r].phase = "done"
    PROVE  Valid(request[r].credential)
<1>0. request \in [Calls -> CallState]
  BY DEF RateInv, RateTypeOK
<1>1. ASSUME NEW q \in Calls, NEW phase \in {"working", "done", "refused"}, Attempt(q, phase)
      PROVE  Valid(request[r].credential)
  <2>1. request' = [request EXCEPT ![q].phase = phase]
    BY <1>1 DEF Attempt
  <2>2. q = r /\ phase = "done"
    BY <1>0, <2>1 DEF CallState
  <2> QED BY <1>1, <2>2 DEF Attempt, Authorized
<1>16. ASSUME NEW q, NEW phase, phase # "done", request' = [request EXCEPT ![q].phase = phase] PROVE FALSE
  BY <1>0, <1>16 DEF CallState
<1>2. ASSUME NEW s \in Services, EndService(s) PROVE FALSE
  BY <1>2 DEF EndService, CallState
<1>3. ASSUME NEW s \in Services, CountRate(s) PROVE FALSE
  <2>1. \E phase \in {"admitted", "refused"} : request' = [request EXCEPT ![counting[s].request].phase = phase]
    BY <1>3 DEF CountRate
  <2> QED BY <1>16, <2>1
<1>4. ASSUME NEW q \in Calls, NEW s \in Services, NEW x \in Tokens \cup Sessions, NEW pinned \in BOOLEAN,
             Receive(q, s, x, pinned)
      PROVE  FALSE
  BY <1>4 DEF Receive
<1>5. ASSUME NEW q \in Calls, ReadRate(q) \/ Perform(q) PROVE FALSE
  <2>1. \/ request' = request
        \/ \E phase \in {"refused", "performed"} : request' = [request EXCEPT ![q].phase = phase]
    BY <1>5 DEF ReadRate, Perform
  <2> QED BY <1>16, <2>1
<1>6. request' # request
  OBVIOUS
<1>7. ASSUME NEW s \in Services, StartService(s) \/ MintFails(s) PROVE FALSE
  BY <1>6, <1>7 DEF StartService, MintFails
<1>8. ASSUME NEW c \in Clients, CreateClient(c) \/ DisableClient(c) PROVE FALSE
  BY <1>6, <1>8 DEF CreateClient, DisableClient
<1>9. ASSUME NEW t \in Tokens, RevokeToken(t) \/ LapseToken(t) PROVE FALSE
  BY <1>6, <1>9 DEF RevokeToken, LapseToken
<1>10. ASSUME NEW c \in Clients, NEW t \in Tokens, CreateToken(c, t) \/ \E s \in Services : MintToken(s, c, t)
       PROVE  FALSE
  BY <1>6, <1>10 DEF CreateToken, MintToken
<1>11. ASSUME NEW l \in Logins, IssueLogin(l) \/ LapseLogin(l) PROVE FALSE
  BY <1>6, <1>11 DEF IssueLogin, LapseLogin
<1>12. ASSUME NEW x \in Sessions, RevokeSession(x) \/ LapseSession(x) PROVE FALSE
  BY <1>6, <1>12 DEF RevokeSession, LapseSession
<1>13. ASSUME NEW s \in Services, NEW l \in Logins, NEW x \in Sessions, ConsoleLogin(s, l, x) PROVE FALSE
  BY <1>6, <1>13 DEF ConsoleLogin
<1>14. ASSUME NEW s \in Services, NEW i \in Invitations,
              Invite(s, i) \/ RefuseCode(s, i) \/ CancelInvitation(s, i) \/ RemoveCode(s, i)
       PROVE  FALSE
  BY <1>6, <1>14 DEF Invite, RefuseCode, CancelInvitation, RemoveCode
<1>15. ASSUME NEW i \in Invitations, LapseInvitation(i) PROVE FALSE
  BY <1>6, <1>15 DEF LapseInvitation
<1>17. ~NextMinute /\ ~UNCHANGED accessVars
  BY <1>6 DEF NextMinute, accessVars
<1> QED
  BY <1>1, <1>2, <1>3, <1>4, <1>5, <1>7, <1>8, <1>9, <1>10, <1>11, <1>12, <1>13, <1>14, <1>15, <1>17
  DEF AccessNext

\* A request takes effect only in a transaction that found its credential valid,
\* however long ago it came in (http.py _route_with_provider_work).
THEOREM EffectsAuthorized == AccessSpec => EffectsAreAuthorized
<1>1. RateInv /\ [AccessNext]_accessVars =>
        [\A r \in Calls :
            request[r].phase # "done" /\ request'[r].phase = "done" => Valid(request[r].credential)]_accessVars
  BY EffectStep
<1> QED BY <1>1, CredentialInitInv, CredentialStep, RateInitInv, RateStep, PTL DEF AccessSpec, EffectsAreAuthorized

-----------------------------------------------------------------------------
(* Calls of agents.                                                        *)

Registry == [mode : Modes \cup {"none"}, token : Modes \cup {"none"}, space : Spaces,
             phase : {"none", "new", "initialized", "ready", "ended"}]

ToolCall == [tool : Tools \cup {"none"}, space : Spaces, done : BOOLEAN,
             phase : {"none", "sent", "served", "refused", "result", "failed"}]

AgentsTypeOK ==
    /\ everybody \in Modes /\ authRequired \in BOOLEAN /\ guarded \in BOOLEAN
    /\ agent \in [Agents -> Registry]
    /\ call \in [Agents -> ToolCall]
    /\ invocation \in [Agents -> {"none", "ok", "error"}]

\* A call belongs to a registry that is open, which does not change, and what
\* was sent or done passed that registry's own check.
CallsChecked ==
    \A a \in Agents :
        /\ call[a].phase # "none" => agent[a].phase # "none"
        /\ call[a].phase \in {"sent", "served"} \/ call[a].done =>
              call[a].phase # "none" /\ RequireMode(a, call[a].tool, call[a].space)

AgentsInv == AgentsTypeOK /\ CallsChecked

\* No registry is open.
LEMMA AgentsInitInv == AgentsInit => AgentsInv
BY DEF AgentsInit, AgentsInv, AgentsTypeOK, Registry, ToolCall, CallsChecked, NoAgent, NoToolCall, Modes, Spaces

\* RequireMode goes by what a registry was opened with.
LEMMA SameRegistry ==
    ASSUME NEW a \in Agents, agent'[a].mode = agent[a].mode, agent'[a].token = agent[a].token,
           agent'[a].space = agent[a].space
    PROVE  \A tool, space : RequireMode(a, tool, space) => RequireMode(a, tool, space)'
BY DEF RequireMode

\* Opening a registry, and how far its session is.
LEMMA SessionStep ==
    ASSUME AgentsInv, NEW a \in Agents,
           \/ \E mode \in Modes, tok \in Modes \cup {"none"}, space \in Spaces : Register(a, mode, tok, space)
           \/ Initialize(a) \/ Initialized(a) \/ Hangup(a)
    PROVE  AgentsInv'
<1> USE DEF AgentsInv
<1>1. ASSUME NEW mode \in Modes, NEW tok \in Modes \cup {"none"}, NEW space \in Spaces,
             Register(a, mode, tok, space)
      PROVE  AgentsInv'
  <2>1. AgentsTypeOK'
    BY <1>1 DEF Register, AgentsTypeOK, Registry
  <2>2. call' = call /\ call[a].phase = "none" /\ ~call[a].done
        /\ \A b \in Agents \ {a} : agent'[b] = agent[b]
    BY <1>1 DEF Register, AgentsTypeOK, CallsChecked, NoAgent
  <2>3. agent'[a].phase # "none"
    BY <1>1 DEF Register, AgentsTypeOK
  <2> QED BY <2>1, <2>2, <2>3, SameRegistry DEF CallsChecked
<1>2. CASE Initialize(a) \/ Initialized(a) \/ Hangup(a)
  <2>1. /\ UNCHANGED <<everybody, authRequired, guarded, call, invocation>>
        /\ \E phase \in {"initialized", "ready", "ended"} : agent' = [agent EXCEPT ![a].phase = phase]
    BY <1>2 DEF Initialize, Initialized, Hangup
  <2>4. PICK phase \in {"initialized", "ready", "ended"} : agent' = [agent EXCEPT ![a].phase = phase]
    BY <2>1
  <2>5. agent \in [Agents -> Registry]
    BY DEF AgentsTypeOK
  <2>6. [agent[a] EXCEPT !.phase = phase] \in Registry
    BY <2>5 DEF Registry
  <2>2. AgentsTypeOK'
    BY <2>1, <2>4, <2>5, <2>6 DEF AgentsTypeOK
  <2>3. \A b \in Agents : /\ agent'[b].mode = agent[b].mode /\ agent'[b].token = agent[b].token
                          /\ agent'[b].space = agent[b].space
                          /\ agent[b].phase # "none" => agent'[b].phase # "none"
    BY <2>4, <2>5 DEF Registry
  <2> QED BY <2>1, <2>2, <2>3, SameRegistry DEF CallsChecked
<1> QED BY <1>1, <1>2

\* A call is sent only after the check, and the check still holds later.
LEMMA ToolCallStep ==
    ASSUME AgentsInv, NEW a \in Agents,
           \/ Serve(a) \/ AnswerAgent(a)
           \/ \E tool \in Tools, space \in Spaces : Call(a, tool, space)
           \/ \E written \in BOOLEAN : Log(a, written)
    PROVE  AgentsInv'
<1> USE DEF AgentsInv
<1>1. ASSUME UNCHANGED <<everybody, authRequired, guarded, agent>>, AgentsTypeOK',
             \A b \in Agents \ {a} : call'[b] = call[b],
             call'[a].phase # "none" => agent[a].phase # "none",
             call'[a].phase \in {"sent", "served"} \/ call'[a].done =>
                call'[a].phase # "none" /\ RequireMode(a, call'[a].tool, call'[a].space)
      PROVE  AgentsInv'
  <2>1. \A b, tool, space : RequireMode(b, tool, space)' <=> RequireMode(b, tool, space)
    BY <1>1 DEF RequireMode
  <2> QED BY <1>1, <2>1 DEF CallsChecked
<1>2. CASE Serve(a)
  <2> DEFINE passes == Admits(a, call[a].tool, call[a].space)
  <2>1. /\ call[a].phase = "sent" /\ UNCHANGED <<everybody, authRequired, guarded, agent, invocation>>
        /\ call' = [call EXCEPT ![a].done = passes, ![a].phase = IF passes THEN "served" ELSE "refused"]
    BY <1>2 DEF Serve
  <2>2. passes \in BOOLEAN
    BY DEF Admits
  <2> HIDE DEF passes
  <2>3. AgentsTypeOK'
    BY <2>1, <2>2 DEF ToolCall, AgentsTypeOK
  <2> QED BY <1>1, <2>1, <2>2, <2>3 DEF ToolCall, AgentsTypeOK, CallsChecked
<1>3. CASE AnswerAgent(a)
  <2>1. UNCHANGED <<everybody, authRequired, guarded, agent, invocation>> /\ call' = [call EXCEPT ![a] = NoToolCall]
    BY <1>3 DEF AnswerAgent
  <2>2. AgentsTypeOK'
    BY <2>1 DEF ToolCall, AgentsTypeOK, NoToolCall, Spaces
  <2> QED BY <1>1, <2>1, <2>2 DEF ToolCall, AgentsTypeOK, NoToolCall
<1>4. ASSUME NEW tool \in Tools, NEW space \in Spaces, Call(a, tool, space) PROVE AgentsInv'
  <2> DEFINE phase == IF RequireMode(a, tool, space) THEN "sent" ELSE "failed"
  <2>1. /\ UNCHANGED <<everybody, authRequired, guarded, agent, invocation>> /\ agent[a].phase # "none"
        /\ call' = [call EXCEPT ![a] = [tool |-> tool, space |-> space, done |-> FALSE, phase |-> phase]]
    BY <1>4 DEF Call
  <2>2. phase \in {"sent", "failed"} /\ (phase = "sent" => RequireMode(a, tool, space))
    OBVIOUS
  <2> HIDE DEF phase
  <2>3. AgentsTypeOK'
    BY <2>1, <2>2 DEF ToolCall, AgentsTypeOK
  <2> QED BY <1>1, <2>1, <2>2, <2>3 DEF ToolCall, AgentsTypeOK
<1>5. ASSUME NEW written \in BOOLEAN, Log(a, written) PROVE AgentsInv'
  <2>1. /\ UNCHANGED <<everybody, authRequired, guarded, agent>> /\ call[a].phase \in {"served", "refused"}
        /\ \E phase \in {"result", "refused", "failed"} : call' = [call EXCEPT ![a].phase = phase]
    BY <1>5 DEF Log
  <2>3. \E status \in {"ok", "error"} : invocation' = invocation \/ invocation' = [invocation EXCEPT ![a] = status]
    BY <1>5 DEF Log
  <2>4. invocation' \in [Agents -> {"none", "ok", "error"}]
    BY <2>3 DEF ToolCall, AgentsTypeOK
  <2>6. PICK phase \in {"result", "refused", "failed"} : call' = [call EXCEPT ![a].phase = phase]
    BY <2>1
  <2>7. call \in [Agents -> ToolCall]
    BY DEF AgentsTypeOK
  <2>8. [call[a] EXCEPT !.phase = phase] \in ToolCall
    BY <2>7 DEF ToolCall
  <2>5. call' \in [Agents -> ToolCall]
    BY <2>6, <2>7, <2>8
  <2>2. AgentsTypeOK'
    BY <2>1, <2>4, <2>5 DEF AgentsTypeOK
  <2> QED BY <1>1, <2>1, <2>2 DEF ToolCall, AgentsTypeOK, CallsChecked
<1> QED BY <1>2, <1>3, <1>4, <1>5

\* Protected mode touches no registry.
LEMMA AgentsRest == AgentsInv /\ (Protect \/ UNCHANGED agentVars) => AgentsInv'
<1> SUFFICES ASSUME AgentsInv, Protect \/ UNCHANGED agentVars PROVE AgentsInv'
  OBVIOUS
<1>1. UNCHANGED <<everybody, authRequired, agent, call, invocation>> /\ guarded' \in BOOLEAN
  BY DEF Protect, agentVars, AgentsInv, AgentsTypeOK
<1>2. \A b, tool, space : RequireMode(b, tool, space)' <=> RequireMode(b, tool, space)
  BY <1>1 DEF RequireMode
<1> QED BY <1>1, <1>2 DEF AgentsInv, AgentsTypeOK, CallsChecked

\* The invariant is inductive.
LEMMA AgentsStep == AgentsInv /\ [AgentsNext]_agentVars => AgentsInv'
BY SessionStep, ToolCallStep, AgentsRest DEF AgentsNext

\* No registry that is opened before, after or during a call lets an agent do
\* more than the mode of its own registry allows (mcp/registry.py _require_mode).
THEOREM AgentsStayInMode == AgentsSpec => []CallsStayWithinTheirMode
<1>1. AgentsInv => CallsStayWithinTheirMode
  BY DEF AgentsInv, CallsChecked, RequireMode, CallsStayWithinTheirMode
<1> QED BY <1>1, AgentsInitInv, AgentsStep, PTL DEF AgentsSpec

-----------------------------------------------------------------------------
(* Evidence and what is extracted from it.                                 *)

Texts == {"none", "own", "redacted"}
EventRow == [level : Levels \cup {"none"}, text : Texts]
CandidateRow == [status : {"none", "pending_review", "duplicate", "rejected"}, text : Texts, linked : BOOLEAN]

Inputs == {<<>>} \cup UNION {[D -> EventRow] : D \in SUBSET Events}
TaskRow == [mode : {"none", "service", "library"}, kind : {"none", "extract", "advise"},
            provider : Providers \cup {"none"}, evidence : SUBSET Events, input : Inputs,
            answers : Seq(Answers),
            phase : {"none", "ready", "working", "read", "done", "refused"},
            run : {"none", "completed", "invalid_schema", "unsafe"}]

IntakeTypeOK ==
    /\ event \in [Events -> EventRow]
    /\ candidate \in [Tasks -> [Events -> CandidateRow]]
    /\ task \in [Tasks -> TaskRow]

\* A candidate that still has its wording is linked to its evidence, where a
\* deletion finds it.
FoundByDeletions ==
    \A r \in Tasks, e \in Events : candidate[r][e].text = "own" => candidate[r][e].linked

\* What is asked about and stored is the evidence of the request.
ReadIsEvidence ==
    \A r \in Tasks : task[r].phase \in {"working", "read"} => task[r].input \in [task[r].evidence -> EventRow]

IntakeInv == IntakeTypeOK /\ FoundByDeletions /\ ReadIsEvidence /\ ErasedTextLeavesCandidates

\* There is no evidence yet.
LEMMA IntakeInitInv == IntakeInit => IntakeInv
BY DEF IntakeInit, IntakeInv, IntakeTypeOK, FoundByDeletions, ReadIsEvidence, ErasedTextLeavesCandidates,
       NoEvent, NoCandidate, NoTask, EventRow, CandidateRow, Texts, TaskRow, Inputs

\* What is scrubbed has lost its wording, if it was linked.
LEMMA ScrubbedRow ==
    ASSUME NEW c \in CandidateRow, c.text = "own" => c.linked
    PROVE  Scrubbed(c) \in CandidateRow /\ Scrubbed(c).text # "own"
BY DEF Scrubbed, CandidateRow, Texts

\* Redaction and deletion reach every candidate that has wording left; a write erases none.
LEMMA EvidenceStep ==
    ASSUME IntakeInv, NEW e \in Events,
           RedactEvent(e) \/ DeleteEvent(e) \/ \E level \in Levels : WriteEvent(e, level)
    PROVE  IntakeInv'
<1> USE DEF IntakeInv
<1>0. \A r \in Tasks : Scrubbed(candidate[r][e]) \in CandidateRow /\ Scrubbed(candidate[r][e]).text # "own"
  BY ScrubbedRow DEF IntakeTypeOK, FoundByDeletions
<1>1. CASE RedactEvent(e)
  <2>1. /\ UNCHANGED <<task, held>>
        /\ event' = [event EXCEPT ![e].text = "redacted"]
        /\ candidate' = [r \in Tasks |-> [candidate[r] EXCEPT ![e] = Scrubbed(candidate[r][e])]]
    BY <1>1 DEF RedactEvent
  <2>2. event' \in [Events -> EventRow] /\ \A d \in Events \ {e} : event'[d] = event[d]
    BY <2>1 DEF IntakeTypeOK, EventRow, Texts
  <2>3. \A r \in Tasks : /\ candidate'[r][e] = Scrubbed(candidate[r][e])
                         /\ \A d \in Events \ {e} : candidate'[r][d] = candidate[r][d]
    BY <2>1 DEF IntakeTypeOK
  <2>4. candidate' \in [Tasks -> [Events -> CandidateRow]]
    BY <1>0, <2>1 DEF IntakeTypeOK
  <2>5. IntakeTypeOK'
    BY <2>1, <2>2, <2>4 DEF IntakeTypeOK
  <2> QED BY <1>0, <2>1, <2>2, <2>3, <2>5 DEF FoundByDeletions, ReadIsEvidence, ErasedTextLeavesCandidates
<1>2. CASE DeleteEvent(e)
  <2> DEFINE gone(r) == [Scrubbed(candidate[r][e]) EXCEPT !.linked = FALSE]
  <2>1. /\ UNCHANGED <<task, held>>
        /\ event' = [event EXCEPT ![e] = NoEvent]
        /\ candidate' = [r \in Tasks |-> [candidate[r] EXCEPT ![e] = gone(r)]]
    BY <1>2 DEF DeleteEvent
  <2>0. \A r \in Tasks : gone(r) \in CandidateRow /\ gone(r).text # "own"
    BY <1>0 DEF CandidateRow
  <2> HIDE DEF gone
  <2>2. event' \in [Events -> EventRow] /\ \A d \in Events \ {e} : event'[d] = event[d]
    BY <2>1 DEF IntakeTypeOK, EventRow, Texts, NoEvent
  <2>3. \A r \in Tasks : /\ candidate'[r][e] = gone(r)
                         /\ \A d \in Events \ {e} : candidate'[r][d] = candidate[r][d]
    BY <2>1 DEF IntakeTypeOK
  <2>4. candidate' \in [Tasks -> [Events -> CandidateRow]]
    BY <2>0, <2>1 DEF IntakeTypeOK
  <2>5. IntakeTypeOK'
    BY <2>1, <2>2, <2>4 DEF IntakeTypeOK
  <2> QED BY <2>0, <2>1, <2>2, <2>3, <2>5 DEF FoundByDeletions, ReadIsEvidence, ErasedTextLeavesCandidates
<1>3. ASSUME NEW level \in Levels, WriteEvent(e, level) PROVE IntakeInv'
  <2>1. UNCHANGED <<task, candidate, held>> /\ event' = [event EXCEPT ![e] = [level |-> level, text |-> "own"]]
    BY <1>3 DEF WriteEvent
  <2>2. event' \in [Events -> EventRow] /\ \A d \in Events : event'[d].text # "own" => event'[d] = event[d]
    BY <2>1 DEF IntakeTypeOK, EventRow, Texts
  <2>3. IntakeTypeOK'
    BY <2>1, <2>2 DEF IntakeTypeOK
  <2> QED BY <2>1, <2>2, <2>3 DEF FoundByDeletions, ReadIsEvidence, ErasedTextLeavesCandidates
<1> QED BY <1>1, <1>2, <1>3

\* An extraction stores its drafts: each has the wording that was read.
LEMMA DraftedRows ==
    ASSUME IntakeInv, NEW r \in Tasks, NEW D \in SUBSET Events, NEW input \in [D -> EventRow],
           NEW drawn \in SUBSET D, candidate' = Drafted(r, input, drawn)
    PROVE  /\ candidate' \in [Tasks -> [Events -> CandidateRow]]
           /\ \A q \in Tasks, e \in Events : candidate'[q][e].text = "own" =>
                \/ candidate'[q][e] = candidate[q][e]
                \/ candidate'[q][e].linked /\ q = r /\ e \in D /\ input[e].text = "own"
<1> DEFINE row(e) == IF e \in drawn
                     THEN [status |-> CandidateStatus(e, input[e].text), text |-> input[e].text, linked |-> TRUE]
                     ELSE NoCandidate
<1>1. \A e \in Events : /\ row(e) \in CandidateRow
                        /\ row(e).text = "own" => row(e).linked /\ e \in D /\ input[e].text = "own"
  BY DEF CandidateRow, CandidateStatus, NoCandidate, EventRow, Texts
<1>2. candidate' = [candidate EXCEPT ![r] = [e \in Events |-> row(e)]]
  BY DEF Drafted
<1>3. candidate \in [Tasks -> [Events -> CandidateRow]]
  BY DEF IntakeInv, IntakeTypeOK
<1> HIDE DEF row
<1>4. /\ candidate'[r] = [e \in Events |-> row(e)]
      /\ \A q \in Tasks \ {r} : candidate'[q] = candidate[q]
  BY <1>2, <1>3
<1>5. [e \in Events |-> row(e)] \in [Events -> CandidateRow]
  BY <1>1
<1>6. candidate' \in [Tasks -> [Events -> CandidateRow]]
  BY <1>2, <1>3, <1>5
<1>7. ASSUME NEW q \in Tasks, NEW e \in Events, candidate'[q][e].text = "own"
      PROVE  \/ candidate'[q][e] = candidate[q][e]
             \/ candidate'[q][e].linked /\ q = r /\ e \in D /\ input[e].text = "own"
  BY <1>1, <1>4, <1>7
<1> QED BY <1>6, <1>7

\* A request that is settled keeps what it was sent with.
LEMMA SettledTask ==
    ASSUME task \in [Tasks -> TaskRow], ReadIsEvidence, NEW r \in Tasks,
           NEW phase \in {"done", "refused"}, NEW run \in {"none", "completed", "invalid_schema", "unsafe"},
           task' = Settled(r, phase, run), UNCHANGED event
    PROVE  task' \in [Tasks -> TaskRow] /\ ReadIsEvidence'
<1>1. task' = [task EXCEPT ![r] = [task[r] EXCEPT !.phase = phase, !.run = run]]
  BY DEF Settled
<1>2. [task[r] EXCEPT !.phase = phase, !.run = run] \in TaskRow
  <2>1. task[r] \in TaskRow
    OBVIOUS
  <2>2. \A row \in TaskRow : [row EXCEPT !.phase = phase] \in TaskRow
    BY DEF TaskRow
  <2>3. \A row \in TaskRow : [row EXCEPT !.run = run] \in TaskRow
    BY DEF TaskRow
  <2>4. [[task[r] EXCEPT !.phase = phase] EXCEPT !.run = run] \in TaskRow
    BY <2>1, <2>2, <2>3
  <2> QED BY <2>4
<1>3. task' \in [Tasks -> TaskRow]
  BY <1>1, <1>2
<1>4. task'[r].phase = phase /\ \A q \in Tasks \ {r} : task'[q] = task[q]
  BY <1>1 DEF TaskRow
<1> QED BY <1>3, <1>4 DEF ReadIsEvidence

\* The tail of a request, with what was read or is there.
LEMMA StoredTask ==
    ASSUME task \in [Tasks -> TaskRow], ReadIsEvidence, NEW r \in Tasks, NEW input,
           Stored(r, input), UNCHANGED event
    PROVE  task' \in [Tasks -> TaskRow] /\ ReadIsEvidence'
<1>1. \E phase \in {"done", "refused"}, run \in {"none", "completed", "invalid_schema", "unsafe"} :
        task' = Settled(r, phase, run)
  BY DEF Stored
<1> QED BY <1>1, SettledTask

\* A request stores drafts whose erased wording is accounted for.
LEMMA StoredCandidates ==
    ASSUME IntakeInv, NEW r \in Tasks, NEW D \in SUBSET Events, NEW input \in [D -> EventRow],
           Stored(r, input), UNCHANGED event,
           held \subseteq held',
           \A e \in D : input[e].text = "own" /\ event[e].text # "own" => <<r, e>> \in held'
    PROVE  IntakeInv'
<1>1. task' \in [Tasks -> TaskRow] /\ ReadIsEvidence'
  BY StoredTask DEF IntakeInv, IntakeTypeOK
<1>2. CASE candidate' = candidate
  BY <1>1, <1>2 DEF IntakeInv, IntakeTypeOK, FoundByDeletions, ErasedTextLeavesCandidates
<1>3. ASSUME NEW drawn \in SUBSET D, candidate' = Drafted(r, input, drawn) PROVE IntakeInv'
  <2>1. /\ candidate' \in [Tasks -> [Events -> CandidateRow]]
        /\ \A q \in Tasks, e \in Events : candidate'[q][e].text = "own" =>
                \/ candidate'[q][e] = candidate[q][e]
                \/ candidate'[q][e].linked /\ q = r /\ e \in D /\ input[e].text = "own"
    BY <1>3, DraftedRows
  <2>2. IntakeTypeOK'
    BY <1>1, <2>1 DEF IntakeInv, IntakeTypeOK
  <2>3. FoundByDeletions'
    BY <2>1 DEF IntakeInv, FoundByDeletions
  <2>4. ErasedTextLeavesCandidates'
    BY <2>1 DEF IntakeInv, ErasedTextLeavesCandidates
  <2> QED BY <1>1, <2>2, <2>3, <2>4 DEF IntakeInv
<1> QED BY <1>2, <1>3 DEF Stored, Drawn

\* A request gets along without storing candidates.
LEMMA TaskStep ==
    ASSUME IntakeInv, UNCHANGED <<event, candidate, held>>, task' \in [Tasks -> TaskRow], ReadIsEvidence'
    PROVE  IntakeInv'
BY DEF IntakeInv, IntakeTypeOK, FoundByDeletions, ErasedTextLeavesCandidates

\* The evidence of a request as a function.
LEMMA EvidenceRows ==
    ASSUME IntakeInv, NEW r \in Tasks
    PROVE  task[r].evidence \in SUBSET Events /\ Evidence(r) \in [task[r].evidence -> EventRow]
<1>1. task[r].evidence \in SUBSET Events
  BY DEF IntakeInv, IntakeTypeOK, TaskRow
<1> QED BY <1>1 DEF Evidence, IntakeInv, IntakeTypeOK

\* A request reads its evidence and asks, or has read what it stores.
LEMMA ReadingTask ==
    ASSUME IntakeInv, NEW r \in Tasks, NEW phase \in {"working", "read"}, UNCHANGED <<event, candidate, held>>,
           task' = [task EXCEPT ![r].phase = phase, ![r].input = Evidence(r)]
    PROVE  IntakeInv'
<1>1. task \in [Tasks -> TaskRow] /\ ReadIsEvidence /\ Evidence(r) \in Inputs
  BY EvidenceRows DEF IntakeInv, IntakeTypeOK, Inputs
<1>2. task' = [task EXCEPT ![r] = [task[r] EXCEPT !.phase = phase, !.input = Evidence(r)]]
  BY <1>1
<1>3. [task[r] EXCEPT !.phase = phase, !.input = Evidence(r)] \in TaskRow
  BY <1>1, ZenonT(60) DEF TaskRow
<1>4. task' \in [Tasks -> TaskRow]
  BY <1>1, <1>2, <1>3
<1>5. /\ task'[r].input = Evidence(r) /\ task'[r].evidence = task[r].evidence
      /\ \A q \in Tasks \ {r} : task'[q] = task[q]
  BY <1>1, <1>2 DEF TaskRow
<1>6. ReadIsEvidence'
  BY <1>1, <1>5, EvidenceRows DEF ReadIsEvidence
<1> QED BY <1>4, <1>6, TaskStep

\* A new request has read nothing.
LEMMA SubmitStep ==
    ASSUME IntakeInv, NEW r \in Tasks, NEW mode \in {"service", "library"}, NEW kind \in {"extract", "advise"},
           NEW provider \in Providers, NEW evidence \in SUBSET Events, Submit(r, mode, kind, provider, evidence)
    PROVE  IntakeInv'
<1> DEFINE row == [NoTask EXCEPT !.mode = mode, !.kind = kind, !.provider = provider,
                                 !.evidence = evidence, !.phase = "ready"]
<1>1. row \in TaskRow /\ row.phase = "ready"
  <2>1. <<>> \in Inputs /\ <<>> \in Seq(Answers)
    BY DEF Inputs
  <2>2. NoTask \in TaskRow
    BY <2>1 DEF NoTask, TaskRow
  <2>3. ASSUME NEW n \in TaskRow
        PROVE  LET new == [n EXCEPT !.mode = mode, !.kind = kind, !.provider = provider,
                                    !.evidence = evidence, !.phase = "ready"]
               IN  new \in TaskRow /\ new.phase = "ready"
    BY DEF TaskRow
  <2> QED BY <2>2, <2>3
<1>2. UNCHANGED <<event, candidate, held>> /\ task' = [task EXCEPT ![r] = row]
  BY DEF Submit
<1> HIDE DEF row
<1>3. task' \in [Tasks -> TaskRow] /\ ReadIsEvidence'
  BY <1>1, <1>2 DEF IntakeInv, IntakeTypeOK, ReadIsEvidence
<1> QED BY <1>2, <1>3, TaskStep

\* Asking a model changes what was answered, not what was read.
LEMMA AskStep ==
    ASSUME IntakeInv, NEW r \in Tasks,
           AskAgain(r) \/ \E answer \in Answers : Ask(r, answer)
    PROVE  IntakeInv'
<1>1. task \in [Tasks -> TaskRow] /\ ReadIsEvidence
  BY DEF IntakeInv, IntakeTypeOK
<1>2. /\ UNCHANGED <<event, candidate, held>> /\ task[r].phase \in {"working", "read"}
      /\ \E phase \in {"working", "ready", "read"}, given \in Seq(Answers) :
            task' = [task EXCEPT ![r] = [task[r] EXCEPT !.phase = phase, !.answers = given]]
  <2>1. ASSUME AskAgain(r)
        PROVE  task' = [task EXCEPT ![r] = [task[r] EXCEPT !.phase = "working", !.answers = task[r].answers]]
    BY <1>1, <2>1 DEF AskAgain, TaskRow
  <2>2. task[r].answers \in Seq(Answers)
    BY <1>1 DEF TaskRow
  <2>3. ASSUME NEW answer \in Answers, Ask(r, answer)
        PROVE  \E phase \in {"ready", "read"} :
                  task' = [task EXCEPT ![r] = [task[r] EXCEPT !.phase = phase, !.answers = Append(task[r].answers, answer)]]
    BY <1>1, <2>3 DEF Ask, TaskRow, Answers
  <2>4. \A answer \in Answers : Append(task[r].answers, answer) \in Seq(Answers)
    BY <2>2
  <2>5. UNCHANGED <<event, candidate, held>> /\ task[r].phase \in {"working", "read"}
    BY DEF AskAgain, Ask
  <2> QED BY <2>1, <2>2, <2>3, <2>4, <2>5
<1>3. PICK phase \in {"working", "ready", "read"}, given \in Seq(Answers) :
        task' = [task EXCEPT ![r] = [task[r] EXCEPT !.phase = phase, !.answers = given]]
  BY <1>2
<1>4. [task[r] EXCEPT !.phase = phase, !.answers = given] \in TaskRow
  BY <1>1, ZenonT(60) DEF TaskRow
<1>5. task' \in [Tasks -> TaskRow]
  BY <1>1, <1>3, <1>4
<1>6. /\ task'[r].input = task[r].input /\ task'[r].evidence = task[r].evidence
      /\ \A q \in Tasks \ {r} : task'[q] = task[q]
  BY <1>1, <1>3 DEF TaskRow
<1>7. ReadIsEvidence'
  BY <1>1, <1>2, <1>6 DEF ReadIsEvidence
<1> QED BY <1>2, <1>5, <1>7, TaskStep

\* What a request does with its evidence, in the service or over the library.
LEMMA AttemptStep ==
    ASSUME IntakeInv, NEW r \in Tasks,
           \/ AttemptRefused(r) \/ AttemptBlocked(r) \/ AttemptSuspended(r) \/ AttemptStored(r)
           \/ ReadEvidence(r) \/ StoreRead(r)
    PROVE  IntakeInv'
<1>1. task \in [Tasks -> TaskRow] /\ ReadIsEvidence
  BY DEF IntakeInv, IntakeTypeOK
<1>2. ASSUME NEW phase \in {"done", "refused"}, NEW run \in {"none", "completed", "invalid_schema", "unsafe"},
             task' = Settled(r, phase, run), UNCHANGED <<event, candidate, held>>
      PROVE  IntakeInv'
  BY <1>1, <1>2, SettledTask, TaskStep
<1>3. CASE AttemptRefused(r)
  BY <1>2, <1>3 DEF AttemptRefused
<1>4. CASE AttemptBlocked(r)
  BY <1>2, <1>4 DEF AttemptBlocked
<1>5. CASE AttemptSuspended(r)
  BY <1>5, ReadingTask DEF AttemptSuspended
<1>6. CASE AttemptStored(r)
  <2>1. Stored(r, Evidence(r)) /\ UNCHANGED <<event, held>>
    BY <1>6 DEF AttemptStored
  <2>2. \A e \in task[r].evidence : Evidence(r)[e] = event[e]
    BY DEF Evidence
  <2> QED BY <2>1, <2>2, EvidenceRows, StoredCandidates
<1>7. CASE ReadEvidence(r)
  <2>1. UNCHANGED <<event, candidate, held>>
    BY <1>7 DEF ReadEvidence
  <2>2. \/ \E phase \in {"done", "refused"}, run \in {"none", "unsafe"} : task' = Settled(r, phase, run)
        \/ \E phase \in {"working", "read"} : task' = [task EXCEPT ![r].input = Evidence(r), ![r].phase = phase]
    BY <1>7 DEF ReadEvidence
  <2>3. ASSUME NEW phase \in {"working", "read"}, task' = [task EXCEPT ![r].input = Evidence(r), ![r].phase = phase]
        PROVE  IntakeInv'
    <3>1. task' = [task EXCEPT ![r].phase = phase, ![r].input = Evidence(r)]
      BY <1>1, <2>3 DEF TaskRow
    <3> QED BY <2>1, <3>1, ReadingTask
  <2> QED BY <1>2, <2>1, <2>2, <2>3
<1>8. CASE StoreRead(r)
  <2> DEFINE since == {e \in DOMAIN task[r].input : task[r].input[e].text = "own" /\ event[e].text # "own"}
  <2>1. task[r].input \in [task[r].evidence -> EventRow] /\ task[r].evidence \in SUBSET Events
    BY <1>1, <1>8, EvidenceRows DEF StoreRead, ReadIsEvidence
  <2>2. UNCHANGED event
    BY <1>8 DEF StoreRead
  <2>3. \/ task' = Settled(r, "refused", "none") /\ UNCHANGED <<candidate, held>>
        \/ Stored(r, task[r].input) /\ held' = held \cup {<<r, e>> : e \in since}
    BY <1>8 DEF StoreRead
  <2>4. ASSUME Stored(r, task[r].input), held' = held \cup {<<r, e>> : e \in since} PROVE IntakeInv'
    <3>1. \A e \in task[r].evidence : task[r].input[e].text = "own" /\ event[e].text # "own" => <<r, e>> \in held'
      BY <2>1, <2>4
    <3>2. held \subseteq held'
      BY <2>4
    <3> QED BY <2>1, <2>2, <2>4, <3>1, <3>2, StoredCandidates
  <2> QED BY <1>2, <2>2, <2>3, <2>4
<1> QED BY <1>3, <1>4, <1>5, <1>6, <1>7, <1>8

\* A stuttering step.
LEMMA IntakeStutter == IntakeInv /\ UNCHANGED intakeVars => IntakeInv'
BY DEF intakeVars, IntakeInv, IntakeTypeOK, FoundByDeletions, ReadIsEvidence, ErasedTextLeavesCandidates

\* The invariant is inductive.
LEMMA IntakeStep == IntakeInv /\ [IntakeNext]_intakeVars => IntakeInv'
BY EvidenceStep, SubmitStep, AskStep, AttemptStep, IntakeStutter DEF IntakeNext

\* No order of extractions, model answers, redactions, deletions and repeated
\* ingestion leaves erased wording in a candidate, but for those that a library
\* process stored of text it held (memory.py extract_candidates, deletion.py
\* apply).
THEOREM CandidatesForget == IntakeSpec => []ErasedTextLeavesCandidates
<1>1. IntakeInv => ErasedTextLeavesCandidates
  BY DEF IntakeInv
<1> QED BY <1>1, IntakeInitInv, IntakeStep, PTL DEF IntakeSpec

-----------------------------------------------------------------------------
(* What is still sent.                                                     *)
(*                                                                         *)
(* A request that was sent too late is not sent again by a service: as     *)
(* long as its evidence is there, it is not what may be sent (LateStops).  *)
(* A library process looks at nothing; it asks as often as it may repair.  *)

Tries(row) == IF row.kind = "extract" THEN Repairs ELSE 0

Sent(row, n) ==
    /\ n \in Nat /\ n <= Len(row.answers) /\ Len(row.answers) <= Tries(row) + 1
    /\ row.phase = "working" => Len(row.answers) <= Tries(row)
    /\ row.mode # "library" => n <= 1 /\ (row.phase = "working" => n = 0)

LateStops(r) ==
    task[r].mode = "service" /\ late[r] > 0 => ~Found(r) \/ ~Sendable(r, event)

SendingInv ==
    /\ DOMAIN late = Tasks
    /\ \A r \in Tasks : Sent(task[r], late[r]) /\ LateStops(r)

\* A request gets along; if it reads anew, nothing was late.
LEMMA SendingTask ==
    ASSUME IntakeInv, SendingInv, NEW r \in Tasks, NEW row, UNCHANGED <<event, late>>,
           task' = [task EXCEPT ![r] = row], Sent(row, late[r]),
           \/ row.mode # "service" \/ late[r] = 0
           \/ /\ row.mode = task[r].mode /\ row.provider = task[r].provider
              /\ row.evidence = task[r].evidence /\ row.input = task[r].input
    PROVE  SendingInv'
<1>1. DOMAIN task = Tasks
  BY DEF IntakeInv, IntakeTypeOK
<1>2. task'[r] = row /\ \A q \in Tasks \ {r} : task'[q] = task[q]
  BY <1>1
<1>3. \A q \in Tasks \ {r} : LateStops(q)'
  BY <1>2 DEF SendingInv, LateStops, Found, Known, Sendable
<1>4. LateStops(r)'
  <2>1. CASE row.mode # "service" \/ late[r] = 0
    BY <1>2, <2>1 DEF LateStops
  <2>2. CASE /\ row.mode = task[r].mode /\ row.provider = task[r].provider
             /\ row.evidence = task[r].evidence /\ row.input = task[r].input
    BY <1>2, <2>2 DEF SendingInv, LateStops, Found, Known, Sendable
  <2> QED BY <2>1, <2>2
<1>5. \A q \in Tasks : Sent(task'[q], late'[q])
  BY <1>2 DEF SendingInv
<1> QED BY <1>3, <1>4, <1>5 DEF SendingInv

\* What a redaction or a deletion leaves could be sent before; a write counts
\* from the evidence it leaves.
LEMMA SendingEvidence ==
    ASSUME IntakeInv, SendingInv, NEW e \in Events,
           RedactEvent(e) \/ DeleteEvent(e) \/ \E level \in Levels : WriteEvent(e, level)
    PROVE  SendingInv'
<1>1. event \in [Events -> EventRow] /\ task \in [Tasks -> TaskRow] /\ UNCHANGED task
  BY DEF IntakeInv, IntakeTypeOK, RedactEvent, DeleteEvent, WriteEvent
<1>2. \A r \in Tasks : task[r].evidence \in SUBSET Events
  BY <1>1 DEF TaskRow
<1>3. CASE RedactEvent(e)
  <2>1. UNCHANGED late /\ event' = [event EXCEPT ![e].text = "redacted"]
    BY <1>3 DEF RedactEvent
  <2>2. \A d \in Events : /\ event'[d].level = event[d].level
                          /\ event'[d].text = "own" => event[d].text = "own"
                          /\ Known(d) => event'[d] # NoEvent
    BY <1>1, <2>1 DEF EventRow, Texts, Known, NoEvent
  <2>3. ASSUME NEW r \in Tasks PROVE LateStops(r)'
    <3>1. Found(r)' => Found(r)
      BY <1>1, <1>2, <1>3, <2>1 DEF Found, Known, RedactEvent
    <3>2. Blocked(task[r].provider, [d \in task[r].evidence |-> event[d]]) =>
            Blocked(task[r].provider, [d \in task[r].evidence |-> event'[d]])
      BY <1>2, <2>2 DEF Blocked
    <3>3. Sendable(r, event') => Sendable(r, event)
      <4>1. \A d \in DOMAIN task[r].input : d \in Events
        BY <1>1 DEF TaskRow, Inputs
      <4> QED BY <2>2, <3>2, <4>1 DEF Sendable
    <3> QED BY <1>1, <2>1, <3>1, <3>3 DEF SendingInv, LateStops, Sendable
  <2> QED BY <1>1, <2>1, <2>3 DEF SendingInv
<1>4. CASE DeleteEvent(e)
  <2>1. UNCHANGED late /\ event' = [event EXCEPT ![e] = NoEvent]
    BY <1>4 DEF DeleteEvent
  <2>2. ASSUME NEW r \in Tasks PROVE LateStops(r)'
    <3>1. CASE e \in task[r].evidence
      BY <1>1, <2>1, <3>1 DEF LateStops, Found, Known
    <3>2. CASE e \notin task[r].evidence
      <4>1. Found(r)' => Found(r)
        BY <1>1, <1>2, <2>1, <3>2 DEF Found, Known
      <4>2. [d \in task[r].evidence |-> event'[d]] = [d \in task[r].evidence |-> event[d]]
        BY <1>1, <1>2, <2>1, <3>2
      <4>3. \A d \in DOMAIN task[r].input : event'[d].text = "own" => event[d].text = "own"
        BY <1>1, <2>1 DEF NoEvent, TaskRow, Inputs
      <4>4. Sendable(r, event') => Sendable(r, event)
        BY <4>2, <4>3 DEF Sendable
      <4> QED BY <1>1, <2>1, <4>1, <4>4 DEF SendingInv, LateStops, Sendable
    <3> QED BY <3>1, <3>2
  <2> QED BY <1>1, <2>1, <2>2 DEF SendingInv
<1>5. ASSUME NEW level \in Levels, WriteEvent(e, level) PROVE SendingInv'
  <2>1. late' = [r \in Tasks |-> IF Sendable(r, event') THEN 0 ELSE late[r]]
    BY <1>5 DEF WriteEvent
  <2>2. ASSUME NEW r \in Tasks PROVE Sent(task[r], late'[r]) /\ LateStops(r)'
    <3>1. CASE Sendable(r, event')
      <4>1. late'[r] = 0 /\ Sent(task[r], late[r])
        BY <2>1, <3>1 DEF SendingInv
      <4>2. Len(task[r].answers) \in Nat
        BY <1>1 DEF TaskRow
      <4> QED BY <1>1, <4>1, <4>2 DEF Sent, LateStops
    <3>2. CASE ~Sendable(r, event')
      <4>1. late'[r] = late[r] /\ Sent(task[r], late[r])
        BY <2>1, <3>2 DEF SendingInv
      <4> QED BY <1>1, <3>2, <4>1 DEF LateStops, Sendable
    <3> QED BY <3>1, <3>2
  <2> QED BY <1>1, <2>1, <2>2 DEF SendingInv
<1> QED BY <1>3, <1>4, <1>5

\* What a service may send, nothing of it was sent too late.
LEMMA PermittedIsSendable ==
    ASSUME IntakeInv, SendingInv, NEW r \in Tasks, task[r].mode = "service",
           Found(r), task[r].input \in {<<>>, Evidence(r)}, ~Blocked(task[r].provider, Evidence(r))
    PROVE  late[r] = 0
<1>1. Sendable(r, event)
  <2>1. task[r].evidence \in SUBSET Events
    BY EvidenceRows
  <2>2. \A e \in DOMAIN task[r].input : task[r].input[e] = event[e]
    BY DEF Evidence
  <2> QED BY <2>2 DEF Sendable, Evidence
<1>2. Sent(task[r], late[r])
  BY DEF SendingInv
<1> QED BY <1>1, <1>2 DEF SendingInv, LateStops, Sent

\* A request is read, sent, answered or settled.
LEMMA SendingStep ==
    ASSUME IntakeInv, SendingInv, NEW r \in Tasks,
           \/ AttemptRefused(r) \/ AttemptBlocked(r) \/ AttemptSuspended(r) \/ AttemptStored(r)
           \/ ReadEvidence(r) \/ AskAgain(r) \/ StoreRead(r)
           \/ \E answer \in Answers : Ask(r, answer)
    PROVE  SendingInv'
<1>1. task[r] \in TaskRow /\ task \in [Tasks -> TaskRow] /\ Sent(task[r], late[r])
  BY DEF IntakeInv, IntakeTypeOK, SendingInv
<1>2. Len(task[r].answers) \in Nat /\ task[r].answers \in Seq(Answers)
  BY <1>1 DEF TaskRow
<1>3. ASSUME NEW phase \in {"done", "refused"}, NEW run, task' = Settled(r, phase, run), UNCHANGED <<event, late>>
      PROVE  SendingInv'
  <2> DEFINE row == [task[r] EXCEPT !.phase = phase, !.run = run]
  <2>1. task' = [task EXCEPT ![r] = row]
    BY <1>3 DEF Settled
  <2>2. /\ row.mode = task[r].mode /\ row.kind = task[r].kind /\ row.provider = task[r].provider
        /\ row.evidence = task[r].evidence /\ row.input = task[r].input
        /\ row.answers = task[r].answers /\ row.phase # "working"
    BY <1>1, <1>3 DEF TaskRow
  <2> HIDE DEF row
  <2>3. Sent(row, late[r])
    BY <1>1, <2>2 DEF Sent, Tries
  <2> QED BY <1>3, <2>1, <2>2, <2>3, SendingTask
<1>4. ASSUME Unanswered(r) PROVE Len(task[r].answers) <= Tries(task[r])
  BY <1>4 DEF Unanswered, Tries
<1>5. ASSUME NEW phase \in {"working", "read"}, NEW input, UNCHANGED <<event, late>>,
             task' = [task EXCEPT ![r] = [task[r] EXCEPT !.phase = phase, !.input = input]],
             phase = "working" => Unanswered(r),
             task[r].mode # "library" => late[r] = 0
      PROVE  SendingInv'
  <2> DEFINE row == [task[r] EXCEPT !.phase = phase, !.input = input]
  <2>1. /\ row.mode = task[r].mode /\ row.kind = task[r].kind
        /\ row.answers = task[r].answers /\ row.phase = phase
    BY <1>1 DEF TaskRow
  <2>2. task' = [task EXCEPT ![r] = row]
    BY <1>5
  <2> HIDE DEF row
  <2>3. Sent(row, late[r])
    BY <1>1, <1>4, <1>5, <2>1 DEF Sent, Tries
  <2> QED BY <1>5, <2>1, <2>2, <2>3, SendingTask
<1>6. CASE AttemptRefused(r) \/ AttemptBlocked(r) \/ AttemptStored(r) \/ StoreRead(r)
  BY <1>3, <1>6 DEF AttemptRefused, AttemptBlocked, AttemptStored, StoreRead, Stored
<1>7. CASE AttemptSuspended(r)
  <2>1. late[r] = 0
    BY <1>7, PermittedIsSendable DEF AttemptSuspended, Permitted
  <2>2. task' = [task EXCEPT ![r] = [task[r] EXCEPT !.phase = "working", !.input = Evidence(r)]]
    BY <1>1, <1>7 DEF AttemptSuspended
  <2>3. UNCHANGED <<event, late>> /\ Unanswered(r) /\ "working" \in {"working", "read"}
    BY <1>7 DEF AttemptSuspended
  <2> QED BY <1>5, <2>1, <2>2, <2>3, Zenon
<1>8. CASE ReadEvidence(r)
  <2>1. task[r].mode = "library" /\ UNCHANGED <<event, late>>
    BY <1>8 DEF ReadEvidence
  <2>2. \/ \E phase \in {"done", "refused"}, run \in {"none", "unsafe"} : task' = Settled(r, phase, run)
        \/ \E phase \in {"working", "read"} :
              /\ phase = "working" => Unanswered(r)
              /\ task' = [task EXCEPT ![r].input = Evidence(r), ![r].phase = phase]
    BY <1>8 DEF ReadEvidence
  <2>3. ASSUME NEW phase \in {"working", "read"}, phase = "working" => Unanswered(r),
               task' = [task EXCEPT ![r].input = Evidence(r), ![r].phase = phase]
        PROVE  SendingInv'
    <3>1. task' = [task EXCEPT ![r] = [task[r] EXCEPT !.phase = phase, !.input = Evidence(r)]]
      BY <1>1, <2>3 DEF TaskRow
    <3> QED BY <1>5, <2>1, <2>3, <3>1, Zenon
  <2> QED BY <1>3, <2>1, <2>2, <2>3
<1>9. CASE AskAgain(r)
  <2>1. /\ task[r].mode = "library" /\ UNCHANGED <<event, late>> /\ Unanswered(r)
        /\ task' = [task EXCEPT ![r].phase = "working"]
    BY <1>9 DEF AskAgain
  <2>2. task' = [task EXCEPT ![r] = [task[r] EXCEPT !.phase = "working", !.input = task[r].input]]
    BY <1>1, <2>1 DEF TaskRow
  <2>3. "working" \in {"working", "read"}
    OBVIOUS
  <2> QED BY <1>5, <2>1, <2>2, <2>3, Zenon
<1>10. ASSUME NEW answer \in Answers, Ask(r, answer) PROVE SendingInv'
  <2> DEFINE phase == IF task[r].mode = "service" THEN "ready" ELSE "read"
             given == Append(task[r].answers, answer)
             row == [task[r] EXCEPT !.answers = given, !.phase = phase]
  <2>1. /\ task[r].phase = "working" /\ UNCHANGED event
        /\ task' = [task EXCEPT ![r] = row]
        /\ late' = [late EXCEPT ![r] = IF Sendable(r, event) THEN @ ELSE @ + 1]
    BY <1>10 DEF Ask
  <2>2. Len(given) = Len(task[r].answers) + 1
    BY <1>2
  <2> HIDE DEF given
  <2>3. /\ row.mode = task[r].mode /\ row.kind = task[r].kind /\ row.provider = task[r].provider
        /\ row.evidence = task[r].evidence /\ row.input = task[r].input
        /\ row.answers = given /\ row.phase # "working"
    BY <1>1 DEF TaskRow
  <2> HIDE DEF row
  <2>4. /\ task'[r] = row /\ \A q \in Tasks \ {r} : task'[q] = task[q] /\ late'[q] = late[q]
        /\ late'[r] = IF Sendable(r, event) THEN late[r] ELSE late[r] + 1
        /\ DOMAIN late' = Tasks
    BY <1>1, <2>1 DEF SendingInv
  <2>5. \A q \in Tasks \ {r} : Sent(task'[q], late'[q]) /\ LateStops(q)'
    BY <2>1, <2>4 DEF SendingInv, LateStops, Found, Known, Sendable
  <2>6. Sent(row, late'[r])
    BY <1>1, <1>2, <2>1, <2>2, <2>3, <2>4, IntakeAssumption DEF Sent, Tries
  <2>7. LateStops(r)'
    <3>1. Sendable(r, event)' <=> Sendable(r, event)
      BY <2>1, <2>3, <2>4 DEF Sendable
    <3>2. Found(r)' <=> Found(r)
      BY <2>1, <2>3, <2>4 DEF Found, Known
    <3> QED BY <2>3, <2>4, <3>1, <3>2 DEF SendingInv, LateStops
  <2> QED BY <2>4, <2>5, <2>6, <2>7 DEF SendingInv
<1> QED BY <1>6, <1>7, <1>8, <1>9, <1>10

\* A new request was never sent.
LEMMA SendingSubmit ==
    ASSUME IntakeInv, SendingInv, NEW r \in Tasks, NEW mode \in {"service", "library"}, NEW kind \in {"extract", "advise"},
           NEW provider \in Providers, NEW evidence \in SUBSET Events, Submit(r, mode, kind, provider, evidence)
    PROVE  SendingInv'
<1> DEFINE row == [NoTask EXCEPT !.mode = mode, !.kind = kind, !.provider = provider,
                                 !.evidence = evidence, !.phase = "ready"]
<1>1. task' = [task EXCEPT ![r] = row] /\ task[r] = NoTask /\ UNCHANGED <<event, late>>
  BY DEF Submit
<1>2. late[r] = 0
  BY <1>1 DEF SendingInv, Sent, NoTask
<1>3. row.answers = <<>> /\ row.phase = "ready"
  BY DEF NoTask
<1> HIDE DEF row
<1>4. Sent(row, 0)
  BY <1>3, IntakeAssumption DEF Sent, Tries
<1> QED BY <1>1, <1>2, <1>4, SendingTask

\* A service sends text that was erased, or became too private for the model,
\* at most once more, when the message was on its way, and a library process
\* once for each repair: for every number of requests and events, in whatever
\* order evidence is erased, raised and written again (extraction.py
\* LLMExtractor.extract, provider_work.py).
THEOREM SendingEnds == IntakeSpec => []SendingStops
<1>1. IntakeInit => SendingInv
  BY IntakeAssumption DEF IntakeInit, SendingInv, Sent, Tries, LateStops, NoTask
<1>2. IntakeInv /\ SendingInv /\ [IntakeNext]_intakeVars => SendingInv'
  <2>1. IntakeInv /\ SendingInv /\ UNCHANGED intakeVars => SendingInv'
    BY DEF intakeVars, SendingInv, LateStops, Found, Known, Sendable
  <2> QED BY <2>1, SendingEvidence, SendingStep, SendingSubmit DEF IntakeNext
<1>3. IntakeInv /\ SendingInv => SendingStops
  <2>1. ASSUME IntakeInv, SendingInv, NEW r \in Tasks
        PROVE  late[r] <= (IF task[r].mode = "library" /\ task[r].kind = "extract" THEN Repairs + 1 ELSE 1)
    <3>1. Len(task[r].answers) \in Nat /\ task[r].mode \in {"none", "service", "library"}
      BY <2>1 DEF IntakeInv, IntakeTypeOK, TaskRow
    <3>2. Sent(task[r], late[r])
      BY <2>1 DEF SendingInv
    <3> QED BY <3>1, <3>2, IntakeAssumption DEF Sent, Tries
  <2> QED BY <2>1 DEF SendingStops
<1> QED BY <1>1, <1>2, <1>3, IntakeInitInv, IntakeStep, PTL DEF IntakeSpec

-----------------------------------------------------------------------------
(* Plugins.                                                                *)

Manifest == [needs : SUBSET Permissions, entry : {"none", "first", "second"}]

PluginsTypeOK ==
    /\ directory \in [Paths -> [version : Versions, needs : SUBSET Permissions, entry : {"first", "second"}]]
    /\ manifest \in [Versions -> Manifest]
    /\ installed \in Seq(Installations) /\ enabled \in SUBSET Installations
    /\ granted \in [Installations -> SUBSET Permissions]
    /\ DOMAIN use = Uses

\* What is installed has a manifest on record, and what is enabled is installed
\* and was granted what that manifest asks for.
Governed ==
    /\ \A n \in DOMAIN installed : manifest[installed[n][2]] # NoManifest
    /\ \A i \in enabled : /\ \E n \in DOMAIN installed : installed[n] = i
                          /\ manifest[i[2]].needs \subseteq granted[i]

PluginsInv == PluginsTypeOK /\ Governed

\* Nothing is installed.
LEMMA PluginsInitInv == PluginsInit => PluginsInv
BY DEF PluginsInit, PluginsInv, PluginsTypeOK, Governed, NoManifest, Manifest

\* A plugin that is named is one that is installed.
LEMMA NamedIsInstalled ==
    ASSUME PluginsInv, NEW ref \in Refs, Installed(ref)
    PROVE  \E n \in DOMAIN installed : installed[n] = Resolved(ref)
<1>1. CASE ref = "name"
  <2>1. installed # <<>> /\ Resolved(ref) = installed[Len(installed)] /\ installed \in Seq(Installations)
    BY <1>1 DEF Installed, Resolved, Last, PluginsInv, PluginsTypeOK
  <2>2. Len(installed) \in DOMAIN installed
    BY <2>1
  <2> QED BY <2>1, <2>2
<1>2. CASE ref # "name"
  BY <1>2 DEF Installed, Resolved, Contains, PluginsInv, PluginsTypeOK
<1> QED BY <1>1, <1>2

\* A directory that changes is not what is on record.
LEMMA PublishStep ==
    ASSUME PluginsInv, NEW p \in Paths, NEW v \in Versions, NEW needs \in SUBSET Permissions,
           NEW e \in {"first", "second"}, Publish(p, v, needs, e)
    PROVE  PluginsInv'
BY DEF Publish, PluginsInv, PluginsTypeOK, Governed

\* A manifest on record is not replaced, so what was granted still covers it.
LEMMA InstallStep ==
    ASSUME PluginsInv, NEW p \in Paths, Install(p)
    PROVE  PluginsInv'
<1> DEFINE v == directory[p].version
           i == <<p, v>>
<1>1. v \in Versions /\ i \in Installations
  BY DEF PluginsInv, PluginsTypeOK, Installations
<1>2. Recorded(v, directory[p]) \in Manifest /\ Recorded(v, directory[p]) # NoManifest
      /\ (manifest[v] # NoManifest => Recorded(v, directory[p]) = manifest[v])
  BY <1>1 DEF Recorded, PluginsInv, PluginsTypeOK, Manifest, NoManifest
<1>3. /\ manifest' \in [Versions -> Manifest] /\ manifest'[v] # NoManifest
      /\ \A w \in Versions : manifest[w] # NoManifest => manifest'[w] = manifest[w]
  BY <1>1, <1>2 DEF Install, PluginsInv, PluginsTypeOK
<1>4. installed' = installed \/ installed' = Append(installed, i)
  BY DEF Install
<1>0. installed \in Seq(Installations)
  BY DEF PluginsInv, PluginsTypeOK
<1>a. ASSUME NEW x \in Installations, NEW seq \in Seq(Installations)
      PROVE  /\ Append(seq, x) \in Seq(Installations)
             /\ \A n \in DOMAIN Append(seq, x) :
                    (n \in DOMAIN seq /\ Append(seq, x)[n] = seq[n]) \/ Append(seq, x)[n] = x
             /\ \A n \in DOMAIN seq : n \in DOMAIN Append(seq, x) /\ Append(seq, x)[n] = seq[n]
  OBVIOUS
<1>5. installed' \in Seq(Installations)
  BY <1>0, <1>1, <1>4, <1>a
<1>6. \A n \in DOMAIN installed' : (n \in DOMAIN installed /\ installed'[n] = installed[n]) \/ installed'[n] = i
  BY <1>0, <1>1, <1>4, <1>a
<1>7. \A n \in DOMAIN installed : n \in DOMAIN installed' /\ installed'[n] = installed[n]
  BY <1>0, <1>1, <1>4, <1>a
<1>8. UNCHANGED <<directory, granted, use>> /\ enabled' = enabled \ {i}
  BY DEF Install
<1>9. PluginsTypeOK'
  BY <1>3, <1>5, <1>8 DEF PluginsInv, PluginsTypeOK
<1>10. \A n \in DOMAIN installed : installed[n] \in Installations /\ installed[n][2] \in Versions
  BY DEF PluginsInv, PluginsTypeOK, Installations
<1>11. \A n \in DOMAIN installed' : manifest'[installed'[n][2]] # NoManifest
  BY <1>3, <1>6, <1>10 DEF PluginsInv, Governed
<1>12. ASSUME NEW j \in enabled'
       PROVE  (\E n \in DOMAIN installed' : installed'[n] = j) /\ manifest'[j[2]].needs \subseteq granted'[j]
  <2>1. j \in enabled
    BY <1>8
  <2>2. PICK n \in DOMAIN installed : installed[n] = j
    BY <2>1 DEF PluginsInv, Governed
  <2>3. manifest'[j[2]] = manifest[j[2]]
    BY <1>3, <1>10, <2>2 DEF PluginsInv, Governed
  <2> QED BY <1>7, <1>8, <2>1, <2>2, <2>3 DEF PluginsInv, Governed
<1> QED BY <1>9, <1>11, <1>12 DEF PluginsInv, Governed

\* Enabling grants what the recorded manifest asks for.
LEMMA EnableStep ==
    ASSUME PluginsInv, NEW ref \in Refs, NEW approved \in SUBSET Permissions, Enable(ref, approved)
    PROVE  PluginsInv'
<1> DEFINE i == Resolved(ref)
<1>1. PICK n \in DOMAIN installed : installed[n] = i
  BY NamedIsInstalled DEF Enable
<1>2. i \in Installations /\ i[2] \in Versions
  BY <1>1 DEF PluginsInv, PluginsTypeOK, Installations
<1>3. /\ UNCHANGED <<directory, manifest, installed, use>>
      /\ enabled' = enabled \cup {i}
      /\ granted' = [granted EXCEPT ![i] = @ \cup manifest[i[2]].needs]
  BY DEF Enable
<1>4. manifest[i[2]].needs \in SUBSET Permissions
  BY <1>2 DEF PluginsInv, PluginsTypeOK, Manifest
<1> HIDE DEF i
<1>5. PluginsTypeOK'
  BY <1>2, <1>3, <1>4 DEF PluginsInv, PluginsTypeOK
<1>6. Governed'
  BY <1>1, <1>2, <1>3 DEF PluginsInv, PluginsTypeOK, Governed
<1> QED BY <1>5, <1>6 DEF PluginsInv

\* Disabling and use grant nothing and enable nothing.
LEMMA RestStep ==
    ASSUME PluginsInv,
           \/ \E ref \in Refs : Disable(ref)
           \/ \E u \in Uses :
                \/ \E ref \in Refs : Run(u, ref) \/ RunInLibrary(u, ref) \/ Request(u, ref)
                \/ StoreCandidate(u) \/ Answer(u) \/ RouteAgain(u) \/ GiveAgain(u)
           \/ UNCHANGED pluginVars
    PROVE  PluginsInv'
<1>1. UNCHANGED <<directory, manifest, installed, granted>> /\ enabled' \subseteq enabled
  BY DEF Disable, Run, RunInLibrary, Request, StoreCandidate, Answer, RouteAgain, GiveAgain, Used, pluginVars
<1>2. DOMAIN use' = DOMAIN use
  BY DEF Disable, Run, RunInLibrary, Request, StoreCandidate, Answer, RouteAgain, GiveAgain, Used, pluginVars
<1>3. PluginsTypeOK'
  BY <1>1, <1>2 DEF PluginsInv, PluginsTypeOK
<1>4. Governed'
  BY <1>1 DEF PluginsInv, Governed
<1> QED BY <1>3, <1>4 DEF PluginsInv

\* The invariant is inductive.
LEMMA PluginsStep == PluginsInv /\ [PluginsNext]_pluginVars => PluginsInv'
BY PublishStep, InstallStep, EnableStep, RestStep DEF PluginsNext

\* What is enabled was granted what its recorded manifest asks for, however often
\* a name and version were installed from changed directories (platform.py
\* enable_plugin).
THEOREM PluginsEnabledWithConsent == PluginsSpec => []EnabledWithConsent
<1>1. PluginsInv => EnabledWithConsent
  BY DEF PluginsInv, Governed, EnabledWithConsent
<1> QED BY <1>1, PluginsInitInv, PluginsStep, PTL DEF PluginsSpec

-----------------------------------------------------------------------------
(* Answers.                                                                *)

\* What the step of a use must answer for.
Consented(u) ==
    use'[u] # use[u] /\ use'[u].phase \in {"stored", "replayed"} /\ use'[u].entry # "operation"
    => LET i == Resolved(use[u].ref)
       IN  /\ i \in enabled /\ "read_text" \in granted[i]
           /\ use'[u].phase = "stored" => use'[u].entry = manifest[i[2]].entry

\* A step changes what one use is recorded as.
LEMMA OneUse ==
    ASSUME PluginsInv, NEW u \in Uses, NEW phase, NEW ref, NEW plugin, NEW entry,
           Used(u, phase, ref, plugin, entry), NEW w \in Uses
    PROVE  use'[w] = use[w] \/ (w = u /\ use'[w].phase = phase /\ use'[w].entry = entry)
BY DEF Used, PluginsInv, PluginsTypeOK

\* What does not store or repeat an answer.
LEMMA NoAnswer ==
    ASSUME PluginsInv, NEW u \in Uses, NEW phase, NEW ref, NEW plugin, NEW entry,
           Used(u, phase, ref, plugin, entry),
           phase \notin {"stored", "replayed"} \/ entry = "operation", NEW w \in Uses
    PROVE  Consented(w)
<1>1. use'[w] = use[w] \/ (w = u /\ use'[w].phase = phase /\ use'[w].entry = entry)
  BY OneUse
<1> QED BY <1>1 DEF Consented

\* Of all steps only a repeated route stores an answer, and only a receipt gives one again.
LEMMA AnswerStep ==
    ASSUME PluginsInv, [PluginsNext]_pluginVars, NEW w \in Uses
    PROVE  Consented(w)
<1>1. ASSUME UNCHANGED use PROVE Consented(w)
  BY <1>1 DEF Consented
<1>2. ASSUME NEW u \in Uses, NEW ref \in Refs, Run(u, ref) \/ RunInLibrary(u, ref) PROVE Consented(w)
  <2>1. \E phase : Used(u, phase, ref, Resolved(ref), "operation")
    BY <1>2 DEF Run, RunInLibrary
  <2> QED BY <2>1, NoAnswer
<1>3. ASSUME NEW u \in Uses, NEW ref \in Refs, Request(u, ref) PROVE Consented(w)
  <2>1. \E plugin, entry : \E phase \in {"waiting", "refused"} : Used(u, phase, ref, plugin, entry)
    BY <1>3 DEF Request
  <2> QED BY <2>1, NoAnswer
<1>4. ASSUME NEW u \in Uses, StoreCandidate(u) \/ Answer(u) PROVE Consented(w)
  <2>1. \E ref, plugin, entry : \E phase \in {"finished", "answered"} : Used(u, phase, ref, plugin, entry)
    BY <1>4 DEF StoreCandidate, Answer
  <2> QED BY <2>1, NoAnswer
<1>5. ASSUME NEW u \in Uses, RouteAgain(u) PROVE Consented(w)
  <2> DEFINE i == Resolved(use[u].ref)
  <2>1. CASE Approved(u, i) /\ manifest[i[2]].entry = use[u].entry
    <3>1. Used(u, "stored", use[u].ref, i, use[u].entry)
      BY <1>5, <2>1 DEF RouteAgain
    <3>2. i \in enabled /\ "read_text" \in granted[i]
      BY <2>1 DEF Approved
    <3>3. use'[w] = use[w] \/ (w = u /\ use'[w].phase = "stored" /\ use'[w].entry = use[u].entry)
      BY <3>1, OneUse
    <3> QED BY <2>1, <3>2, <3>3 DEF Consented
  <2>2. CASE ~(Approved(u, i) /\ manifest[i[2]].entry = use[u].entry)
    <3>1. Used(u, "refused", use[u].ref, i, use[u].entry)
      BY <1>5, <2>2 DEF RouteAgain
    <3> QED BY <3>1, NoAnswer
  <2> QED BY <2>1, <2>2
<1>6. ASSUME NEW u \in Uses, GiveAgain(u) PROVE Consented(w)
  <2> DEFINE i == Resolved(use[u].ref)
  <2>1. CASE Approved(u, i)
    <3>1. Used(u, "replayed", use[u].ref, use[u].plugin, use[u].entry)
      BY <1>6, <2>1 DEF GiveAgain
    <3>2. i \in enabled /\ "read_text" \in granted[i]
      BY <2>1 DEF Approved
    <3>3. use'[w] = use[w] \/ (w = u /\ use'[w].phase = "replayed" /\ use'[w].entry = use[u].entry)
      BY <3>1, OneUse
    <3> QED BY <3>2, <3>3 DEF Consented
  <2>2. CASE ~Approved(u, i)
    <3>1. Used(u, "withheld", use[u].ref, use[u].plugin, use[u].entry)
      BY <1>6, <2>2 DEF GiveAgain
    <3> QED BY <3>1, NoAnswer
  <2> QED BY <2>1, <2>2
<1>7. ASSUME \/ \E p \in Paths, v \in Versions, needs \in SUBSET Permissions, e \in {"first", "second"} :
                  Publish(p, v, needs, e)
             \/ \E p \in Paths : Install(p)
             \/ \E ref \in Refs, approved \in SUBSET Permissions : Enable(ref, approved)
             \/ \E ref \in Refs : Disable(ref)
             \/ UNCHANGED pluginVars
      PROVE  UNCHANGED use
  BY <1>7 DEF Publish, Install, Enable, Disable, pluginVars
<1> QED BY <1>1, <1>2, <1>3, <1>4, <1>5, <1>6, <1>7 DEF PluginsNext

\* The service stores an answer, or gives it again, only while the plugin that its
\* name means by then is enabled and may read (platform.py OperationAccess).
THEOREM AnswersConsented == PluginsSpec => AnswersNeedConsent
<1>1. PluginsInv /\ [PluginsNext]_pluginVars =>
        [\A u \in Uses :
            /\ use'[u] # use[u] /\ use'[u].phase \in {"stored", "replayed"}
            /\ use'[u].entry # "operation"
            => LET i == Resolved(use[u].ref)
               IN  /\ i \in enabled /\ "read_text" \in granted[i]
                   /\ use'[u].phase = "stored" => use'[u].entry = manifest[i[2]].entry]_pluginVars
  BY AnswerStep DEF Consented
<1> QED BY <1>1, PluginsInitInv, PluginsStep, PTL DEF PluginsSpec, AnswersNeedConsent

-----------------------------------------------------------------------------
(* Reviews.                                                                *)

\* A revision is not ahead of the clock.
Seen(v) ==
    /\ v.generation <= renewed
    /\ v.generation = db.generation => v.epoch <= db.epoch

\* A revision is at the clock.
Now(v) == v.generation = db.generation /\ v.epoch = db.epoch

Clock ==
    /\ db.generation <= renewed
    /\ \A u \in Credentials : view[u] # NoRequest =>
         Seen(view[u]) /\ (Now(view[u]) => u \notin outdated)
    /\ \A r \in Requests : sent[r] # NoRequest =>
         Seen(sent[r].revision) /\ (Now(sent[r].revision) => r \notin outdated)

Spent ==
    \A r \in Requests : applied[r] # 0 =>
        applied[r] = 1 /\ sent[r] # NoRequest /\ ~Now(sent[r].revision)

\* Only a decided candidate has a claim, and an open one has a content.
Sound(d) ==
    \A c \in Candidates :
        /\ d.claims[c] = 0 \/ (d.claims[c] = 1 /\ d.status[c] \in {"promoted", "rejected"})
        /\ d.status[c] \notin Terminal \cup {"absent"} => d.content[c] \in Values

\* Receipts and answers are about decisions that took effect.
Honest ==
    /\ \A row \in db.replays : /\ applied[row.by] = 1
                               /\ row.record = Record(row.by) /\ row.body = Body(row.by)
    /\ \A r \in Requests : sent[r] = NoRequest => answers[r] = {}

Inv ==
    /\ TypeOK /\ Clock /\ Spent
    /\ Sound(db)
    /\ backup # NoBackup => Sound(backup)
    /\ Honest /\ AnswersAreDecisions /\ ReceiptsTellTheOutcome

-----------------------------------------------------------------------------
(* What the writers of the library have in common.                         *)

\* A candidate keeps its decision, or was open, or is withdrawn.
Decently(c) ==
    /\ \/ db'.status[c] = db.status[c] /\ db'.claims[c] = db.claims[c]
       \/ Open(c) /\ db'.claims[c] = db.claims[c]
       \/ Open(c) /\ db'.claims[c] = db.claims[c] + 1 /\ db'.status[c] = "promoted"
       \/ db.status[c] = "absent" /\ db'.claims[c] = db.claims[c]
       \/ db'.status[c] = "rejected" /\ db'.claims[c] = db.claims[c]
             /\ db.status[c] # "absent"
    /\ db'.status[c] \notin Terminal \cup {"absent"} =>
         db'.content[c] \in Values
    /\ db.status[c] \in Terminal => db'.content[c] \in {db.content[c], NoValue}

LibraryStep ==
    /\ Others
    /\ db' \in Databases /\ db'.epoch = db.epoch + 1
    /\ db'.generation = db.generation /\ db'.replays = db.replays
    /\ outdated' \subseteq Credentials \cup Requests
    /\ \A c \in Candidates : Decently(c)

\* A writer of the library keeps the invariant.
LEMMA LibraryStepKeeps == Inv /\ LibraryStep => Inv'
<1> SUFFICES ASSUME Inv, LibraryStep PROVE Inv'
  OBVIOUS
<1> USE DEF Inv
<1>1. db \in Databases /\ db' \in Databases /\ renewed \in Nat
  BY DEF TypeOK, LibraryStep
<1>2. /\ db.generation \in Nat /\ db.epoch \in Nat /\ db'.epoch = db.epoch + 1
      /\ db'.generation = db.generation /\ db'.replays = db.replays
      /\ UNCHANGED <<backup, renewed, service, view, sent, applied, answers>>
  BY <1>1 DEF Databases, LibraryStep, Others
<1>3. TypeOK'
  BY <1>1, <1>2 DEF TypeOK, LibraryStep
<1>4. /\ \A u \in Credentials : view[u] # NoRequest => view[u] \in Revisions
      /\ \A r \in Requests : sent[r] # NoRequest => sent[r].revision \in Revisions
  BY DEF TypeOK, Requested
<1>5. ASSUME NEW v \in Revisions, Seen(v) PROVE Seen(v)' /\ ~Now(v)'
  BY <1>2, <1>5 DEF Seen, Now, Revisions
<1>6. Clock'
  BY <1>2, <1>4, <1>5 DEF Clock
<1>7. Spent'
  BY <1>2, <1>4, <1>5 DEF Spent, Clock
<1>8. Sound(db)'
  <2> SUFFICES ASSUME NEW c \in Candidates
               PROVE  /\ db'.claims[c] = 0 \/ (db'.claims[c] = 1 /\ db'.status[c] \in {"promoted", "rejected"})
                      /\ db'.status[c] \notin Terminal \cup {"absent"} => db'.content[c] \in Values
    BY DEF Sound
  <2> QED
    BY DEF LibraryStep, Decently, Sound, Open, Exists, Terminal
<1>9. (backup # NoBackup => Sound(backup))'
  BY <1>2 DEF Sound
<1>10. Honest' /\ AnswersAreDecisions'
  BY <1>2 DEF Honest, AnswersAreDecisions, Record, Body
<1>11. ReceiptsTellTheOutcome'
  <2> SUFFICES ASSUME NEW row \in db.replays
               PROVE  LET c == Target(row.by) IN
                      IF sent[row.by].action = "promote"
                      THEN db'.claims[c] = 1 /\ db'.status[c] \in {"promoted", "rejected"}
                      ELSE db'.claims[c] = 0 /\ db'.status[c] = "rejected"
    BY <1>2 DEF ReceiptsTellTheOutcome, Target
  <2>1. row.by \in Requests /\ applied[row.by] = 1
    BY <1>1 DEF Databases, Honest
  <2>2. Target(row.by) \in Candidates
    BY <2>1, <1>4 DEF Spent, Target, Revisions
  <2> QED
    BY <2>2 DEF LibraryStep, Decently, ReceiptsTellTheOutcome, Open, Exists, Terminal
<1> QED
  BY <1>3, <1>6, <1>7, <1>8, <1>9, <1>10, <1>11

\* Advance changes the epoch only, and whom it outdates.
LEMMA AdvanceMoves ==
    ASSUME TypeOK, NEW new \in Databases, Advance(new)
    PROVE  /\ db' \in Databases /\ db'.epoch = db.epoch + 1
           /\ db'.generation = new.generation /\ db'.replays = new.replays
           /\ db'.status = new.status /\ db'.content = new.content /\ db'.claims = new.claims
           /\ outdated' \subseteq Credentials \cup Requests
<1>1. db' = [new EXCEPT !.epoch = db.epoch + 1] /\ db.epoch + 1 \in Nat
  BY DEF Advance, Becomes, TypeOK, Databases
<1>2. outdated' \subseteq Credentials \cup Requests
  BY DEF Advance, Becomes, TypeOK
<1> QED
  BY <1>1, <1>2 DEF Databases

\* Each writer of the library takes such a step: a proposal by a client or a peer,
LEMMA RememberDecent ==
    ASSUME Inv, NEW c \in Candidates, NEW v \in Values, Remember(c, v)
    PROVE  LibraryStep
<1> DEFINE new == Proposed(c, v, "pending_review", FALSE)
<1>1. db \in Databases
  BY DEF Inv, TypeOK
<1>2. /\ new \in Databases /\ new.generation = db.generation /\ new.replays = db.replays
      /\ new.claims = db.claims /\ new.status = [db.status EXCEPT ![c] = "pending_review"]
      /\ new.content = [db.content EXCEPT ![c] = v]
  BY <1>1 DEF Databases, Proposed, Statuses, Editable
<1>3. Advance(new) /\ Others /\ db.status[c] = "absent"
  BY DEF Remember
<1> HIDE DEF new
<1>4. \A e \in Candidates : Decently(e)
  BY <1>1, <1>2, <1>3, AdvanceMoves DEF Inv, Sound, Decently, Databases, Terminal
<1> QED
  BY <1>2, <1>3, <1>4, AdvanceMoves DEF Inv, LibraryStep

\* Whatever status and rating a draft gets.
LEMMA ProposedDecent ==
    ASSUME Inv, NEW c \in Candidates, NEW v \in Values, NEW s \in Statuses, NEW risk \in BOOLEAN,
           db.status[c] = "absent", Advance(Proposed(c, v, s, risk)), Others
    PROVE  LibraryStep
<1> DEFINE new == Proposed(c, v, s, risk)
<1>1. db \in Databases
  BY DEF Inv, TypeOK
<1>2. /\ new \in Databases /\ new.generation = db.generation /\ new.replays = db.replays
      /\ new.claims = db.claims /\ new.status = [db.status EXCEPT ![c] = s]
      /\ new.content = [db.content EXCEPT ![c] = v]
  BY <1>1 DEF Databases, Proposed
<1>3. Advance(new)
  OBVIOUS
<1> HIDE DEF new
<1>4. \A e \in Candidates : Decently(e)
  BY <1>1, <1>2, <1>3, AdvanceMoves DEF Inv, Sound, Decently, Databases, Terminal
<1> QED
  BY <1>2, <1>3, <1>4, AdvanceMoves DEF Inv, LibraryStep

\* extraction,
LEMMA ExtractDecent ==
    ASSUME Inv, NEW c \in Candidates, NEW v \in Values, Extract(c, v)
    PROVE  LibraryStep
<1>1. \E s \in Statuses, risk \in BOOLEAN : Advance(Proposed(c, v, s, risk))
  BY DEF Extract, Statuses, Editable, Terminal
<1> QED
  BY <1>1, ProposedDecent DEF Extract

\* A review of an open candidate, whether or not it promotes.
LEMMA ReviewedTypes ==
    ASSUME Inv, NEW c \in Candidates, NEW v \in Values, NEW s \in Statuses,
           NEW decision \in Decisions
    PROVE  LET new == Reviewed(c, decision, v, s) IN
           /\ new \in Databases /\ new.generation = db.generation /\ new.replays = db.replays
           /\ new.claims = db.claims
           /\ new.status = [db.status EXCEPT ![c] = StatusAfter(c, decision, s)]
           /\ new.content = [db.content EXCEPT ![c] = v]
<1>1. db \in Databases
  BY DEF Inv, TypeOK
<1>2. StatusAfter(c, decision, s) \in Statuses
  BY <1>1 DEF Databases, StatusAfter, Decisions, Statuses, Terminal, Editable
<1> QED
  BY <1>1, <1>2 DEF Databases, Reviewed

\* a review,
LEMMA ReviewCandidateDecent ==
    ASSUME Inv, NEW c \in Candidates, NEW v \in Values, NEW s \in Statuses,
           NEW decision \in Decisions, ReviewCandidate(c, decision, v, s)
    PROVE  LibraryStep
<1> DEFINE new == Reviewed(c, decision, v, s)
<1>1. db \in Databases
  BY DEF Inv, TypeOK
<1>2. /\ new \in Databases /\ new.generation = db.generation /\ new.replays = db.replays
      /\ new.claims = db.claims /\ new.content = [db.content EXCEPT ![c] = v]
      /\ new.status = [db.status EXCEPT ![c] = StatusAfter(c, decision, s)]
  BY ReviewedTypes
<1>3. Advance(new) /\ Others /\ Open(c) /\ db.status[c] \notin Terminal
  BY DEF ReviewCandidate, Open
<1> HIDE DEF new
<1>4. \A e \in Candidates : Decently(e)
  BY <1>1, <1>2, <1>3, AdvanceMoves DEF Inv, Sound, Decently, Databases
<1> QED
  BY <1>2, <1>3, <1>4, AdvanceMoves DEF Inv, LibraryStep

\* Promotion of an open candidate with content v.
LEMMA PromotedTypes ==
    ASSUME NEW STATE d, d \in Databases, NEW c \in Candidates, d.content[c] \in Values
    PROVE  /\ Promoted(d, c) \in Databases
           /\ Promoted(d, c).generation = d.generation /\ Promoted(d, c).replays = d.replays
           /\ Promoted(d, c).epoch = d.epoch /\ Promoted(d, c).content = d.content
           /\ Promoted(d, c).status = [d.status EXCEPT ![c] = "promoted"]
           /\ Promoted(d, c).claims = [d.claims EXCEPT ![c] = d.claims[c] + 1]
<1> DEFINE S == [d.status EXCEPT ![c] = "promoted"]
           C == [d.claims EXCEPT ![c] = d.claims[c] + 1]
           F == d.inForce \cup {d.content[c]}
<1>1. S \in [Candidates -> Statuses] /\ C \in [Candidates -> Nat] /\ F \in SUBSET Values
  BY DEF Databases, Statuses, Terminal
<1>2. Promoted(d, c) = [d EXCEPT !.status = S, !.claims = C, !.inForce = F]
  BY DEF Promoted, Databases
<1> HIDE DEF S, C, F
<1>3. /\ Promoted(d, c) \in Databases
      /\ Promoted(d, c).generation = d.generation /\ Promoted(d, c).replays = d.replays
      /\ Promoted(d, c).epoch = d.epoch /\ Promoted(d, c).content = d.content
      /\ Promoted(d, c).status = S /\ Promoted(d, c).claims = C
  BY <1>1, <1>2 DEF Databases
<1> QED
  BY <1>3 DEF S, C

\* a promotion, with or without edits,
LEMMA PromoteCandidateDecent ==
    ASSUME Inv, NEW c \in Candidates, NEW v \in Values, NEW s \in Statuses,
           NEW force \in BOOLEAN, PromoteCandidate(c, v, s, force)
    PROVE  LibraryStep
<1> DEFINE mid == Reviewed(c, "edit", v, s)
           new == Promoted(mid, c)
<1>1. db \in Databases
  BY DEF Inv, TypeOK
<1>2. /\ mid \in Databases /\ mid.generation = db.generation /\ mid.replays = db.replays
      /\ mid.claims = db.claims /\ mid.content = [db.content EXCEPT ![c] = v]
      /\ mid.status = [db.status EXCEPT ![c] = StatusAfter(c, "edit", s)]
  <2>1. "edit" \in Decisions
    BY DEF Decisions
  <2> QED
    BY <2>1, ReviewedTypes
<1>3. Advance(new) /\ Others /\ Open(c) /\ db.status[c] \notin Terminal
  BY DEF PromoteCandidate, Open
<1> HIDE DEF mid
<1>4. mid.content[c] \in Values
  BY <1>1, <1>2 DEF Databases
<1>5. /\ new \in Databases /\ new.generation = db.generation /\ new.replays = db.replays
      /\ new.content = mid.content
      /\ new.status = [mid.status EXCEPT ![c] = "promoted"]
      /\ new.claims = [db.claims EXCEPT ![c] = db.claims[c] + 1]
  <2>1. /\ Promoted(mid, c) \in Databases
        /\ Promoted(mid, c).generation = mid.generation /\ Promoted(mid, c).replays = mid.replays
        /\ Promoted(mid, c).content = mid.content
        /\ Promoted(mid, c).status = [mid.status EXCEPT ![c] = "promoted"]
        /\ Promoted(mid, c).claims = [mid.claims EXCEPT ![c] = mid.claims[c] + 1]
    BY <1>2, <1>4, PromotedTypes
  <2> QED
    BY <2>1, <1>2
<1> HIDE DEF new
<1>6. \A e \in Candidates : Decently(e)
  BY <1>1, <1>2, <1>3, <1>5, AdvanceMoves DEF Inv, Sound, Decently, Databases, Terminal
<1> QED
  BY <1>5, <1>3, <1>6, AdvanceMoves DEF Inv, LibraryStep

\* a deletion,
LEMMA DeleteCandidateDecent ==
    ASSUME Inv, NEW c \in Candidates, NEW v \in Values \cup {NoValue}, NEW values \in SUBSET Values,
           DeleteCandidate(c, v, values)
    PROVE  LibraryStep
<1> DEFINE new == [db EXCEPT !.status[c] = "rejected", !.content[c] = v, !.inForce = values]
<1>1. db \in Databases
  BY DEF Inv, TypeOK
<1>2. /\ new \in Databases /\ new.generation = db.generation /\ new.replays = db.replays
      /\ new.claims = db.claims /\ new.content = [db.content EXCEPT ![c] = v]
      /\ new.status = [db.status EXCEPT ![c] = "rejected"]
  BY <1>1 DEF Databases, Statuses, Terminal
<1>3. Advance(new) /\ Others /\ db.status[c] # "absent" /\ v \in {db.content[c], NoValue}
  BY DEF DeleteCandidate, Exists
<1> HIDE DEF new
<1>4. \A e \in Candidates : Decently(e)
  BY <1>1, <1>2, <1>3, AdvanceMoves DEF Inv, Sound, Decently, Databases, Terminal
<1> QED
  BY <1>2, <1>3, <1>4, AdvanceMoves DEF Inv, LibraryStep

\* and any other change of the slot.
LEMMA ChangeMemoryDecent ==
    ASSUME Inv, NEW values \in SUBSET Values, ChangeMemory(values)
    PROVE  LibraryStep
<1> DEFINE new == [db EXCEPT !.inForce = values]
<1>1. db \in Databases
  BY DEF Inv, TypeOK
<1>2. /\ new \in Databases /\ new.generation = db.generation /\ new.replays = db.replays
      /\ new.claims = db.claims /\ new.content = db.content /\ new.status = db.status
  BY <1>1 DEF Databases
<1>3. Advance(new) /\ Others
  BY DEF ChangeMemory
<1> HIDE DEF new
<1>4. \A e \in Candidates : Decently(e)
  BY <1>1, <1>2, <1>3, AdvanceMoves DEF Inv, Sound, Decently, Databases, Terminal
<1> QED
  BY <1>2, <1>3, <1>4, AdvanceMoves DEF Inv, LibraryStep

-----------------------------------------------------------------------------
(* The review protocol.                                                    *)

\* What the steps below take from the type invariant.
LEMMA Typed ==
    ASSUME TypeOK
    PROVE  /\ db \in Databases /\ db.generation \in Nat /\ db.epoch \in Nat /\ renewed \in Nat
           /\ Service \in [identity : Nat, generation : Nat] /\ Service.identity \in Nat
           /\ \A u \in Credentials : view[u] # NoRequest => view[u] \in Revisions
           /\ \A r \in Requests : sent[r] # NoRequest =>
                /\ sent[r].action \in Actions /\ sent[r].revision \in Revisions
                /\ Target(r) \in Candidates /\ Body(r) \in Actions \X Revisions
           /\ \A r \in Requests : CredentialOf[r] \in Credentials
<1>1. Service \in [identity : Nat, generation : Nat]
  BY DEF TypeOK, Databases, Service
<1>2. \A r \in Requests : sent[r] # NoRequest =>
        sent[r].action \in Actions /\ sent[r].revision \in Revisions
  BY DEF TypeOK, Requested
<1> QED
  BY <1>1, <1>2 DEF TypeOK, Databases, Revisions, Target, Body, Credentials

\* Steps that change nothing but the service and an answer.
LEMMA AnsweredKeeps ==
    ASSUME Inv, UNCHANGED <<db, backup, renewed, view, sent, outdated, applied>>,
           service' \in [identity : Nat, generation : Nat],
           answers' \in [Requests -> SUBSET Requests],
           \A r \in Requests : \A q \in answers'[r] \ answers[r] :
               /\ sent[r] # NoRequest /\ applied[q] = 1
               /\ CredentialOf[q] = CredentialOf[r] /\ Body(q) = Body(r)
    PROVE  Inv'
<1>1. TypeOK'
  BY DEF Inv, TypeOK
<1>2. Clock' /\ Spent' /\ Sound(db)' /\ (backup # NoBackup => Sound(backup))'
  BY DEF Inv, Clock, Spent, Seen, Now, Sound
<1>3. Honest'
  BY DEF Inv, Honest, Record, Body
<1>4. AnswersAreDecisions'
  <2> SUFFICES ASSUME NEW r \in Requests, NEW q \in answers'[r]
               PROVE  applied[q] = 1 /\ CredentialOf[q] = CredentialOf[r] /\ Body(q) = Body(r)
    BY DEF AnswersAreDecisions, Body
  <2> QED
    BY DEF Inv, AnswersAreDecisions
<1>5. ReceiptsTellTheOutcome'
  BY DEF Inv, ReceiptsTellTheOutcome, Target
<1> QED
  BY <1>1, <1>2, <1>3, <1>4, <1>5 DEF Inv

\* A replay answers with a decision of the same credential, key and body.
LEMMA ReplayKeeps ==
    ASSUME Inv, NEW r \in Requests, Replay(r)
    PROVE  Inv'
<1> USE DEF Inv
<1>1. PICK row \in Kept(r) : row.body = Body(r) /\ Reply(r, row.by)
  BY DEF Replay
<1>2. row \in db.replays /\ row.record = Record(r) /\ row.by \in Requests
  BY <1>1, Typed DEF Kept, Databases
<1>3. applied[row.by] = 1 /\ CredentialOf[row.by] = CredentialOf[r] /\ Body(row.by) = Body(r)
  BY <1>1, <1>2 DEF Honest, Record
<1>4. answers' = [answers EXCEPT ![r] = @ \cup {row.by}] /\ answers \in [Requests -> SUBSET Requests]
  BY <1>1 DEF Reply, TypeOK
<1>5. answers' \in [Requests -> SUBSET Requests]
  BY <1>2, <1>4
<1>6. \A p \in Requests : \A q \in answers'[p] \ answers[p] : p = r /\ q = row.by
  BY <1>4
<1>7. sent[r] # NoRequest /\ UNCHANGED <<db, backup, renewed, view, sent, outdated, applied>>
  BY DEF Replay
<1>8. service' \in [identity : Nat, generation : Nat]
  BY Typed DEF Replay
<1> QED
  BY <1>3, <1>5, <1>6, <1>7, <1>8, AnsweredKeeps

\* A refusal changes nothing else,
LEMMA RefuseKeeps ==
    ASSUME Inv, NEW r \in Requests, Refuse(r)
    PROVE  Inv'
<1>1. service' \in [identity : Nat, generation : Nat]
  BY Typed DEF Refuse, Inv
<1>2. UNCHANGED <<db, backup, renewed, view, sent, outdated, applied, answers>>
  BY DEF Refuse
<1>3. answers' \in [Requests -> SUBSET Requests]
  BY <1>2 DEF Inv, TypeOK
<1> QED
  BY <1>1, <1>2, <1>3, AnsweredKeeps

\* and neither does a restart.
LEMMA RestartKeeps ==
    ASSUME Inv, Restart
    PROVE  Inv'
<1>1. service' \in [identity : Nat, generation : Nat]
  BY DEF Restart, Inv, TypeOK
<1>2. UNCHANGED <<db, backup, renewed, view, sent, outdated, applied, answers>>
  BY DEF Restart
<1>3. answers' \in [Requests -> SUBSET Requests]
  BY <1>2 DEF Inv, TypeOK
<1> QED
  BY <1>1, <1>2, <1>3, AnsweredKeeps

\* A backup is as sound as the database.
LEMMA BackupKeeps ==
    ASSUME Inv, Backup
    PROVE  Inv'
<1>1. TypeOK'
  BY DEF Inv, TypeOK, Backup
<1>2. Clock' /\ Spent' /\ Sound(db)' /\ (backup # NoBackup => Sound(backup))'
  BY DEF Inv, Clock, Spent, Seen, Now, Sound, Backup
<1>3. Honest' /\ AnswersAreDecisions' /\ ReceiptsTellTheOutcome'
  BY DEF Inv, Honest, AnswersAreDecisions, ReceiptsTellTheOutcome, Record, Body, Target, Backup
<1> QED
  BY <1>1, <1>2, <1>3 DEF Inv

\* An inspection gives out the revision of the clock, to a holder it updates.
LEMMA InspectKeeps ==
    ASSUME Inv, NEW u \in Credentials, NEW c \in Candidates, Inspect(u, c)
    PROVE  Inv'
<1> DEFINE seen == Revision(Service.identity, c, u)
<1> USE DEF Inv
<1>1. /\ seen \in Revisions
      /\ seen.generation = db.generation /\ seen.epoch = db.epoch
  BY Typed DEF Revision, Revisions
<1>2. /\ view' = [view EXCEPT ![u] = seen] /\ outdated' = outdated \ {u}
      /\ service' = Service
      /\ UNCHANGED <<db, backup, renewed, sent, applied, answers>>
  BY DEF Inspect
<1> HIDE DEF seen
<1>3. TypeOK'
  BY <1>1, <1>2, Typed DEF TypeOK
<1>4. Clock'
  <2>1. \A v \in Credentials : view'[v] # NoRequest =>
          Seen(view'[v]) /\ (Now(view'[v]) => v \notin outdated')
    BY <1>1, <1>2, Typed DEF TypeOK, Clock, Seen
  <2> QED
    BY <2>1, <1>2 DEF Clock, Seen, Now
<1>5. Spent' /\ Sound(db)' /\ (backup # NoBackup => Sound(backup))'
  BY <1>2 DEF Spent, Now, Sound
<1>6. Honest' /\ AnswersAreDecisions' /\ ReceiptsTellTheOutcome'
  BY <1>2 DEF Honest, AnswersAreDecisions, ReceiptsTellTheOutcome, Record, Body, Target
<1> QED
  BY <1>3, <1>4, <1>5, <1>6

\* A request carries its credential's view, and is as outdated as that.
LEMMA SendKeeps ==
    ASSUME Inv, NEW r \in Requests, NEW action \in Actions, Send(r, action)
    PROVE  Inv'
<1> DEFINE u == CredentialOf[r]
           asked == [action |-> action, revision |-> view[u]]
<1> USE DEF Inv
<1>1. /\ sent[r] = NoRequest /\ view[u] # NoRequest
      /\ sent' = [sent EXCEPT ![r] = asked]
      /\ outdated' = IF u \in outdated THEN outdated \cup {r} ELSE outdated \ {r}
      /\ UNCHANGED <<db, backup, renewed, service, view, applied, answers>>
  BY DEF Send
<1>2. u \in Credentials /\ u # r /\ r \notin Credentials
  BY Typed, ReviewsAssumption DEF Credentials
<1>3. /\ view[u] \in Revisions /\ asked \in Requested
      /\ asked.revision = view[u] /\ Seen(view[u]) /\ (Now(view[u]) => u \notin outdated)
  BY <1>1, <1>2, Typed DEF Requested, Clock
<1> HIDE DEF asked
<1>4. TypeOK'
  BY <1>1, <1>2, <1>3 DEF TypeOK
<1>5. Clock'
  <2>1. \A v \in Credentials : view[v] # NoRequest =>
          Seen(view[v]) /\ (Now(view[v]) => v \notin outdated')
    BY <1>1, <1>2 DEF Clock
  <2>2. \A q \in Requests : sent'[q] # NoRequest =>
          Seen(sent'[q].revision) /\ (Now(sent'[q].revision) => q \notin outdated')
    BY <1>1, <1>3 DEF TypeOK, Clock
  <2> QED
    BY <2>1, <2>2, <1>1 DEF Clock, Seen, Now
<1>6. \A q \in Requests : applied[q] # 0 => q # r /\ sent'[q] = sent[q]
  BY <1>1 DEF Spent, TypeOK
<1>7. Spent' /\ Sound(db)' /\ (backup # NoBackup => Sound(backup))'
  BY <1>1, <1>6 DEF Spent, Now, Sound
<1>8. \A row \in db.replays : row.by \in Requests /\ sent'[row.by] = sent[row.by]
  BY <1>6, Typed DEF Honest, Databases
<1>9. Honest' /\ ReceiptsTellTheOutcome'
  <2>1. \A q \in Requests : sent'[q] = NoRequest => answers[q] = {}
    BY <1>1 DEF Honest, TypeOK
  <2> QED
    BY <2>1, <1>1, <1>8 DEF Honest, ReceiptsTellTheOutcome, Record, Body, Target
<1>10. AnswersAreDecisions'
  <2> SUFFICES ASSUME NEW p \in Requests, NEW q \in answers[p]
               PROVE  /\ applied[q] = 1 /\ CredentialOf[q] = CredentialOf[p]
                      /\ Body(q)' = Body(p)'
    BY <1>1 DEF AnswersAreDecisions
  <2>1. p # r /\ q \in Requests
    BY <1>1 DEF Honest, TypeOK
  <2>2. applied[q] = 1 /\ CredentialOf[q] = CredentialOf[p] /\ Body(q) = Body(p)
    BY DEF AnswersAreDecisions
  <2>3. sent'[p] = sent[p] /\ sent'[q] = sent[q]
    BY <2>1, <2>2, <1>1, <1>6 DEF TypeOK
  <2> QED
    BY <2>2, <2>3 DEF Body
<1> QED
  BY <1>4, <1>5, <1>7, <1>9, <1>10

\* Receipts that expire change nothing that a reviewer relies on.
LEMMA ExpireKeeps ==
    ASSUME Inv, Expire
    PROVE  Inv'
<1> USE DEF Inv
<1>1. PICK row \in db.replays : Becomes([db EXCEPT !.replays = @ \ {row}])
  BY DEF Expire
<1>2. /\ db' \in Databases /\ db'.generation = db.generation /\ db'.epoch = db.epoch
      /\ db'.status = db.status /\ db'.content = db.content /\ db'.claims = db.claims
      /\ db'.replays \subseteq db.replays
      /\ World(db') = World(db)
  BY <1>1, Typed DEF Becomes, Databases, World
<1>3. outdated' = outdated /\ UNCHANGED <<backup, renewed, service, view, sent, applied, answers>>
  BY <1>1, <1>2 DEF Becomes, Expire, Others
<1>4. TypeOK'
  BY <1>2, <1>3 DEF TypeOK
<1>5. Clock' /\ Spent'
  BY <1>2, <1>3 DEF Clock, Spent, Seen, Now
<1>6. Sound(db)' /\ (backup # NoBackup => Sound(backup))'
  BY <1>2, <1>3 DEF Sound
<1>7. Honest' /\ AnswersAreDecisions' /\ ReceiptsTellTheOutcome'
  BY <1>2, <1>3 DEF Honest, AnswersAreDecisions, ReceiptsTellTheOutcome, Record, Body, Target
<1> QED
  BY <1>4, <1>5, <1>6, <1>7

\* A renewed database is of a generation that no revision has.
LEMMA RenewKeeps ==
    ASSUME Inv, NEW STATE d, d \in Databases, Sound(d), Renew(d)
    PROVE  Inv'
<1> USE DEF Inv
<1>1. /\ db' = Rotated(d) /\ renewed' = renewed + 1
      /\ outdated' \in {outdated, Credentials \cup Requests}
      /\ UNCHANGED <<backup, service, view, sent, applied, answers>>
  BY DEF Renew, Becomes
<1>2. /\ db' \in Databases /\ db'.generation = renewed + 1 /\ db'.replays = {}
      /\ db'.status = d.status /\ db'.content = d.content /\ db'.claims = d.claims
  <2>1. db' = [d EXCEPT !.generation = renewed + 1, !.epoch = d.epoch + 1, !.replays = {}]
    BY <1>1 DEF Rotated
  <2>2. renewed + 1 \in Nat /\ d.epoch + 1 \in Nat
    BY Typed DEF Databases
  <2> QED
    BY <2>1, <2>2 DEF Databases
<1>3. TypeOK'
  BY <1>1, <1>2, Typed DEF TypeOK
<1>4. ASSUME NEW v \in Revisions, Seen(v) PROVE Seen(v)' /\ ~Now(v)'
  BY <1>1, <1>2, <1>4, Typed DEF Seen, Now, Revisions
<1>5. Clock'
  BY <1>1, <1>2, <1>4, Typed DEF Clock
<1>6. Spent'
  BY <1>1, <1>4, Typed DEF Spent, Clock
<1>7. Sound(db)' /\ (backup # NoBackup => Sound(backup))'
  BY <1>1, <1>2 DEF Sound
<1>8. Honest' /\ AnswersAreDecisions' /\ ReceiptsTellTheOutcome'
  BY <1>1, <1>2 DEF Honest, AnswersAreDecisions, ReceiptsTellTheOutcome, Body
<1> QED
  BY <1>3, <1>5, <1>6, <1>7, <1>8

\* A decision is applied to an open candidate, by a request at the clock.
LEMMA DecideMoves ==
    ASSUME Inv, NEW r \in Requests, Decide(r)
    PROVE  LET c == Target(r) IN
           /\ c \in Candidates /\ Open(c) /\ sent[r] # NoRequest /\ sent[r].action \in Actions
           /\ Now(sent[r].revision) /\ r \notin outdated /\ applied[r] = 0
           /\ db' \in Databases /\ db'.generation = db.generation /\ db'.epoch = db.epoch + 1
           /\ db'.replays = db.replays \cup {Receipt(r)} /\ db'.content = db.content
           /\ IF sent[r].action = "promote"
              THEN /\ db'.status = [db.status EXCEPT ![c] = "promoted"]
                   /\ db'.claims = [db.claims EXCEPT ![c] = db.claims[c] + 1]
              ELSE /\ db'.status = [db.status EXCEPT ![c] = "rejected"]
                   /\ db'.claims = db.claims
           /\ outdated' \subseteq Credentials \cup Requests
<1> DEFINE c == Target(r)
           out == IF sent[r].action = "promote" THEN Promoted(db, c)
                  ELSE [db EXCEPT !.status[c] = "rejected"]
           row == Receipt(r)
           new == [out EXCEPT !.replays = @ \cup {row}]
<1>1. /\ sent[r] # NoRequest /\ Current(r) /\ Open(c)
      /\ Advance(Decided(r)) /\ sent[r].action \in Actions /\ c \in Candidates
  BY Typed DEF Decide, Applicable, Inv
<1>2. Now(sent[r].revision)
  BY <1>1 DEF Current, Revision, Now
<1>3. r \notin outdated /\ applied[r] = 0
  BY <1>1, <1>2 DEF Inv, Clock, Spent
<1>4. db \in Databases /\ db.content[c] \in Values
  BY <1>1, Typed DEF Inv, Sound, Open, Exists
<1>5. row \in [record : Records, body : Actions \X Revisions, by : Requests]
  BY <1>1, Typed DEF Inv, Receipt, Records
<1> HIDE DEF c, row
<1>6. CASE sent[r].action = "promote"
  <2>1. out = Promoted(db, c)
    BY <1>6
  <2>2. /\ out \in Databases /\ out.generation = db.generation /\ out.replays = db.replays
        /\ out.content = db.content /\ out.status = [db.status EXCEPT ![c] = "promoted"]
        /\ out.claims = [db.claims EXCEPT ![c] = db.claims[c] + 1]
    <3>1. /\ Promoted(db, c) \in Databases /\ Promoted(db, c).generation = db.generation
          /\ Promoted(db, c).replays = db.replays /\ Promoted(db, c).content = db.content
          /\ Promoted(db, c).status = [db.status EXCEPT ![c] = "promoted"]
          /\ Promoted(db, c).claims = [db.claims EXCEPT ![c] = db.claims[c] + 1]
      BY <1>1, <1>4, PromotedTypes
    <3> QED
      BY <2>1, <3>1
  <2> HIDE DEF out
  <2>3. /\ new \in Databases /\ new.generation = db.generation /\ new.content = db.content
        /\ new.replays = db.replays \cup {row}
        /\ new.status = out.status /\ new.claims = out.claims
    BY <2>2, <1>5 DEF Databases
  <2>4. Decided(r) = new
    BY DEF Decided, out, new, c, row
  <2> HIDE DEF new
  <2>5. Advance(new)
    BY <1>1, <2>4
  <2> QED
    BY <1>1, <1>2, <1>3, <1>6, <2>2, <2>3, <2>5, AdvanceMoves DEF Inv, c, row
<1>7. CASE sent[r].action # "promote"
  <2>1. out = [db EXCEPT !.status[c] = "rejected"]
    BY <1>7
  <2>2. /\ out \in Databases /\ out.generation = db.generation /\ out.replays = db.replays
        /\ out.content = db.content /\ out.status = [db.status EXCEPT ![c] = "rejected"]
        /\ out.claims = db.claims
    BY <1>1, <1>4, <2>1 DEF Databases, Statuses, Terminal
  <2> HIDE DEF out
  <2>3. /\ new \in Databases /\ new.generation = db.generation /\ new.content = db.content
        /\ new.replays = db.replays \cup {row}
        /\ new.status = out.status /\ new.claims = out.claims
    BY <2>2, <1>5 DEF Databases
  <2>4. Decided(r) = new
    BY DEF Decided, out, new, c, row
  <2> HIDE DEF new
  <2>5. Advance(new)
    BY <1>1, <2>4
  <2> QED
    BY <1>1, <1>2, <1>3, <1>7, <2>2, <2>3, <2>5, AdvanceMoves DEF Inv, c, row
<1> QED
  BY <1>6, <1>7

\* A decision moves the clock past its own revision.
LEMMA DecideKeeps ==
    ASSUME Inv, NEW r \in Requests, Decide(r)
    PROVE  Inv'
<1> DEFINE c == Target(r)
<1> USE DEF Inv
<1>1. /\ c \in Candidates /\ Open(c) /\ sent[r] # NoRequest /\ sent[r].action \in Actions
      /\ Now(sent[r].revision) /\ applied[r] = 0
      /\ db' \in Databases /\ db'.generation = db.generation /\ db'.epoch = db.epoch + 1
      /\ db'.replays = db.replays \cup {Receipt(r)} /\ db'.content = db.content
      /\ outdated' \subseteq Credentials \cup Requests
  BY DecideMoves
<1>2. IF sent[r].action = "promote"
      THEN /\ db'.status = [db.status EXCEPT ![c] = "promoted"]
           /\ db'.claims = [db.claims EXCEPT ![c] = db.claims[c] + 1]
      ELSE /\ db'.status = [db.status EXCEPT ![c] = "rejected"]
           /\ db'.claims = db.claims
  BY DecideMoves
<1>3. /\ applied' = [applied EXCEPT ![r] = @ + 1] /\ answers' = [answers EXCEPT ![r] = @ \cup {r}]
      /\ service' = Service /\ UNCHANGED <<backup, renewed, view, sent>>
  BY DEF Decide, Reply
<1>4. applied \in [Requests -> Nat] /\ answers \in [Requests -> SUBSET Requests]
  BY DEF TypeOK
<1>5. db.claims[c] = 0 /\ db.status[c] \notin Terminal
  BY <1>1 DEF Sound, Open, Terminal
<1> HIDE DEF c
<1>6. TypeOK'
  BY <1>1, <1>3, <1>4, Typed DEF TypeOK
<1>7. ASSUME NEW v \in Revisions, Seen(v) PROVE Seen(v)' /\ ~Now(v)'
  BY <1>1, <1>3, <1>7, Typed DEF Seen, Now, Revisions
<1>8. Clock'
  BY <1>1, <1>3, <1>7, Typed DEF Clock
<1>9. applied'[r] = 1 /\ \A q \in Requests : applied[q] # 0 => q # r /\ applied'[q] = applied[q]
  BY <1>1, <1>3, <1>4
<1>10. Spent'
  <2> SUFFICES ASSUME NEW q \in Requests, applied'[q] # 0
               PROVE  applied'[q] = 1 /\ sent[q] # NoRequest /\ ~Now(sent[q].revision)'
    BY <1>3 DEF Spent
  <2>1. applied'[q] = 1 /\ sent[q] # NoRequest
    BY <1>1, <1>3, <1>4, <1>9 DEF Spent
  <2> QED
    BY <2>1, <1>3, <1>7, Typed DEF Clock
<1>11. Sound(db)' /\ (backup # NoBackup => Sound(backup))'
  <2>1. \A e \in Candidates :
          /\ db'.claims[e] = 0 \/ (db'.claims[e] = 1 /\ db'.status[e] \in {"promoted", "rejected"})
          /\ db'.status[e] \notin Terminal \cup {"absent"} => db'.content[e] \in Values
    BY <1>1, <1>2, <1>5, Typed DEF Sound, Databases, Terminal
  <2> QED
    BY <2>1, <1>3 DEF Sound
<1>12. Honest'
  <2>1. \A row \in db'.replays : /\ applied'[row.by] = 1
                                 /\ row.record = Record(row.by) /\ row.body = Body(row.by)
    BY <1>1, <1>9, Typed DEF Honest, Databases, Receipt
  <2>2. \A q \in Requests : sent[q] = NoRequest => answers'[q] = {}
    BY <1>1, <1>3, <1>4 DEF Honest
  <2> QED
    BY <2>1, <2>2, <1>3 DEF Honest, Record, Body
<1>13. AnswersAreDecisions'
  <2> SUFFICES ASSUME NEW p \in Requests, NEW q \in answers'[p]
               PROVE  applied'[q] = 1 /\ CredentialOf[q] = CredentialOf[p] /\ Body(q) = Body(p)
    BY <1>3 DEF AnswersAreDecisions, Body
  <2>1. CASE q \in answers[p]
    BY <2>1, <1>4, <1>9 DEF AnswersAreDecisions
  <2>2. CASE q \notin answers[p]
    BY <2>2, <1>3, <1>4, <1>9
  <2> QED
    BY <2>1, <2>2
<1>14. ReceiptsTellTheOutcome'
  <2> SUFFICES ASSUME NEW row \in db'.replays
               PROVE  LET e == Target(row.by) IN
                      IF sent[row.by].action = "promote"
                      THEN db'.claims[e] = 1 /\ db'.status[e] \in {"promoted", "rejected"}
                      ELSE db'.claims[e] = 0 /\ db'.status[e] = "rejected"
    BY <1>3 DEF ReceiptsTellTheOutcome, Target
  <2>1. CASE row \in db.replays
    <3>1. row.by \in Requests /\ applied[row.by] = 1
      BY <2>1, Typed DEF Databases, Honest
    <3>2. Target(row.by) \in Candidates
      BY <3>1, Typed DEF Spent
    <3>3. Target(row.by) # c
      BY <2>1, <1>5 DEF ReceiptsTellTheOutcome, Terminal
    <3> QED
      BY <2>1, <3>2, <3>3, <1>1, <1>2, Typed DEF ReceiptsTellTheOutcome, Databases
  <2>2. CASE row = Receipt(r)
    <3>1. row.by = r
      BY <2>2 DEF Receipt
    <3>2. Target(row.by) = c
      BY <3>1 DEF c
    <3> QED
      BY <3>1, <3>2, <1>1, <1>2, <1>5, Typed DEF Databases
  <2> QED
    BY <2>1, <2>2, <1>1
<1> QED
  BY <1>6, <1>8, <1>10, <1>11, <1>12, <1>13, <1>14

-----------------------------------------------------------------------------
\* The invariant holds initially,
LEMMA InitInv == Init => Inv
<1> SUFFICES ASSUME Init PROVE Inv
  OBVIOUS
<1>1. /\ db \in Databases /\ db.generation = 1 /\ db.replays = {}
      /\ \A c \in Candidates : db.status[c] = "absent" /\ db.claims[c] = 0
  BY DEF Init, Databases, Statuses
<1>2. TypeOK
  BY <1>1 DEF Init, TypeOK
<1>3. Clock /\ Spent /\ Honest /\ AnswersAreDecisions /\ ReceiptsTellTheOutcome
  BY <1>1 DEF Init, Clock, Spent, Honest, AnswersAreDecisions, ReceiptsTellTheOutcome
<1>4. Sound(db) /\ backup = NoBackup
  BY <1>1 DEF Init, Sound
<1> QED
  BY <1>2, <1>3, <1>4 DEF Inv

\* and in steps that change nothing,
LEMMA StutterKeeps == Inv /\ UNCHANGED vars => Inv'
  BY DEF Inv, vars, TypeOK, Service, Clock, Spent, Seen, Now, Sound, Honest,
         AnswersAreDecisions, ReceiptsTellTheOutcome, Record, Body, Target

\* and every step keeps it.
LEMMA NextInv == Inv /\ [Next]_vars => Inv'
<1> SUFFICES ASSUME Inv, [Next]_vars PROVE Inv'
  OBVIOUS
<1>1. ASSUME NEW c \in Candidates, CandidateStep(c) PROVE Inv'
  <2>1. ASSUME NEW v \in Values, Remember(c, v) \/ Extract(c, v) PROVE Inv'
    BY <2>1, RememberDecent, ExtractDecent, LibraryStepKeeps
  <2>2. ASSUME NEW v \in Values, NEW s \in Statuses, NEW decision \in Decisions,
               ReviewCandidate(c, decision, v, s)
        PROVE  Inv'
    BY <2>2, ReviewCandidateDecent, LibraryStepKeeps
  <2>3. ASSUME NEW v \in Values, NEW s \in Statuses, NEW force \in BOOLEAN,
               PromoteCandidate(c, v, s, force)
        PROVE  Inv'
    BY <2>3, PromoteCandidateDecent, LibraryStepKeeps
  <2>4. ASSUME NEW v \in Values \cup {NoValue}, NEW values \in SUBSET Values,
               DeleteCandidate(c, v, values)
        PROVE  Inv'
    BY <2>4, DeleteCandidateDecent, LibraryStepKeeps
  <2>5. ASSUME NEW u \in Credentials, Inspect(u, c) PROVE Inv'
    BY <2>5, InspectKeeps
  <2> QED
    BY <1>1, <2>1, <2>2, <2>3, <2>4, <2>5 DEF CandidateStep
<1>2. ASSUME NEW r \in Requests, RequestStep(r) PROVE Inv'
  BY <1>2, SendKeeps, ReplayKeeps, DecideKeeps, RefuseKeeps DEF RequestStep
<1>3. ASSUME NEW values \in SUBSET Values, ChangeMemory(values) PROVE Inv'
  BY <1>3, ChangeMemoryDecent, LibraryStepKeeps
<1>4. CASE Restore
  <2>1. backup \in Databases /\ Sound(backup) /\ Renew(backup)
    BY <1>4 DEF Restore, Inv, TypeOK
  <2> QED
    BY <2>1, RenewKeeps
<1>5. CASE Migrate
  <2>1. db \in Databases /\ Sound(db) /\ Renew(db)
    BY <1>5 DEF Migrate, Inv, TypeOK
  <2> QED
    BY <2>1, RenewKeeps
<1>6. CASE Expire \/ Restart \/ Backup
  BY <1>6, ExpireKeeps, RestartKeeps, BackupKeeps
<1>7. CASE UNCHANGED vars
  BY <1>7, StutterKeeps
<1> QED
  BY <1>1, <1>2, <1>3, <1>4, <1>5, <1>6, <1>7 DEF Next

\* The invariant holds in every state.
THEOREM InvHolds == Spec => []Inv
  BY InitInv, NextInv, PTL DEF Spec

\* However often a decision of a reviewer is sent, it takes effect at most once,
\* although receipts expire, the service restarts and restores undo decisions;
\* the service reports only what took effect, what it still keeps tells the
\* outcome, and a candidate yields one claim at most.
THEOREM ReviewSafety ==
    Spec => [](AppliedOnce /\ AnswersAreDecisions /\ OneClaimEach /\ ReceiptsTellTheOutcome)
<1>1. Inv => AppliedOnce
  <2> SUFFICES ASSUME Inv, NEW r \in Requests PROVE applied[r] <= 1
    BY DEF AppliedOnce
  <2>1. applied[r] = 0 \/ applied[r] = 1
    BY DEF Inv, Spent
  <2> QED
    BY <2>1
<1>2. Inv => OneClaimEach
  <2> SUFFICES ASSUME Inv, NEW c \in Candidates PROVE db.claims[c] <= 1
    BY DEF OneClaimEach
  <2>1. db.claims[c] = 0 \/ db.claims[c] = 1
    BY DEF Inv, Sound
  <2> QED
    BY <2>1
<1>3. Inv => AnswersAreDecisions /\ ReceiptsTellTheOutcome
  BY DEF Inv
<1> QED
  BY <1>1, <1>2, <1>3, InvHolds, PTL

\* No step applies a decision on a memory that its reviewer did not inspect.
LEMMA AppliedMeansMatching ==
    Inv /\ [Next]_vars => (\A r \in Requests : applied'[r] # applied[r] => r \notin outdated)
<1> SUFFICES ASSUME Inv, [Next]_vars, NEW r \in Requests, applied'[r] # applied[r]
             PROVE  r \notin outdated
  OBVIOUS
<1>1. PICK q \in Requests : Decide(q)
  BY DEF Next, vars, CandidateStep, RequestStep, Remember, Extract, ReviewCandidate,
         PromoteCandidate, DeleteCandidate, ChangeMemory, Inspect, Send, Replay, Refuse,
         Expire, Restart, Backup, Restore, Migrate, Renew, Others
<1>2. q = r
  BY <1>1 DEF Decide, Inv, TypeOK
<1> QED
  BY <1>1, <1>2, DecideMoves

\* A decision takes effect only on exactly the memory that its reviewer
\* inspected, whoever writes, and across restores.
THEOREM DecisionsMatch == Spec => DecisionsMatchInspections
  BY AppliedMeansMatching, InvHolds, PTL DEF Spec, DecisionsMatchInspections

\* A writer of the library changes no decision.
LEMMA LibraryStepsAreFinal ==
    ASSUME LibraryStep, NEW c \in Candidates, db.status[c] \in Terminal
    PROVE  /\ db'.status[c] \in {db.status[c], "rejected"}
           /\ db'.content[c] \in {db.content[c], NoValue}
           /\ db'.claims[c] = db.claims[c]
  BY DEF LibraryStep, Decently, Open, Terminal

\* Neither does any other step, but for the restore of another generation.
LEMMA StepsAreFinal ==
    ASSUME Inv, [Next]_vars, NEW c \in Candidates, db.status[c] \in Terminal, db'.generation = db.generation
    PROVE  /\ db'.status[c] \in {db.status[c], "rejected"}
           /\ db'.content[c] \in {db.content[c], NoValue}
           /\ db'.claims[c] = db.claims[c]
<1>1. CASE LibraryStep
  BY <1>1, LibraryStepsAreFinal
<1>2. CASE db'.status = db.status /\ db'.content = db.content /\ db'.claims = db.claims
  BY <1>2
<1>3. ASSUME NEW e \in Candidates, CandidateStep(e) PROVE LibraryStep \/ db' = db
  <2>1. ASSUME NEW u \in Credentials, Inspect(u, e) PROVE db' = db
    BY <2>1 DEF Inspect
  <2> QED
    BY <1>3, <2>1, RememberDecent, ExtractDecent, ReviewCandidateDecent, PromoteCandidateDecent,
       DeleteCandidateDecent DEF CandidateStep
<1>4. ASSUME NEW r \in Requests, Decide(r) PROVE c # Target(r)
  BY <1>4, DecideMoves DEF Open
<1>5. ASSUME NEW r \in Requests, Decide(r)
      PROVE  db'.status[c] = db.status[c] /\ db'.content = db.content /\ db'.claims[c] = db.claims[c]
  <2> DEFINE e == Target(r)
  <2>1. db.status \in [Candidates -> Statuses] /\ db.claims \in [Candidates -> Nat] /\ c # e
    BY <1>4, <1>5, Typed DEF Inv, Databases
  <2>2. /\ db'.content = db.content
        /\ db'.status \in {[db.status EXCEPT ![e] = "promoted"], [db.status EXCEPT ![e] = "rejected"]}
        /\ db'.claims \in {[db.claims EXCEPT ![e] = db.claims[e] + 1], db.claims}
    BY <1>5, DecideMoves
  <2> HIDE DEF e
  <2> QED
    BY <2>1, <2>2
<1>6. ASSUME NEW r \in Requests, RequestStep(r) PROVE Decide(r) \/ db' = db
  BY <1>6 DEF RequestStep, Send, Replay, Refuse
<1>7. CASE Expire
  <2>1. PICK row \in db.replays : db' = [db EXCEPT !.replays = @ \ {row}]
    BY <1>7 DEF Expire, Becomes
  <2> QED
    BY <1>2, <2>1, Typed DEF Inv, Databases
<1>8. ~Restore /\ ~Migrate
  <2> SUFFICES ASSUME NEW STATE d, d \in Databases, Renew(d) PROVE FALSE
    BY Typed DEF Restore, Migrate, Inv, TypeOK
  <2>1. db'.generation = renewed + 1
    BY DEF Renew, Becomes, Rotated, Databases
  <2> QED
    BY <2>1, Typed DEF Inv, Clock
<1>9. ASSUME NEW values \in SUBSET Values, ChangeMemory(values) PROVE LibraryStep
  BY <1>9, ChangeMemoryDecent
<1>10. CASE Restart \/ Backup \/ UNCHANGED vars
  BY <1>2, <1>10 DEF Restart, Backup, vars
<1>11. db' = db => /\ db'.status[c] \in {db.status[c], "rejected"}
                   /\ db'.content[c] \in {db.content[c], NoValue}
                   /\ db'.claims[c] = db.claims[c]
  OBVIOUS
<1> QED
  BY <1>1, <1>3, <1>5, <1>6, <1>7, <1>8, <1>9, <1>10, <1>11 DEF Next

\* A decision about a candidate is final, whoever made it and whichever of the
\* service, the console and the library comes later: only a deletion withdraws
\* it, and only the restore of another database undoes it (memory.py
\* review_candidate, promote_candidate, service/reviews.py).
THEOREM FinalDecisions == Spec => DecisionsAreFinal
<1>1. Inv /\ [Next]_vars =>
        [\A c \in Candidates :
          (db.status[c] \in Terminal /\ db'.generation = db.generation)
          => /\ db'.status[c] \in {db.status[c], "rejected"}
             /\ db'.content[c] \in {db.content[c], NoValue}
             /\ db'.claims[c] = db.claims[c]]_vars
  BY StepsAreFinal
<1> QED
  BY <1>1, InvHolds, PTL DEF Spec, DecisionsAreFinal
=============================================================================
