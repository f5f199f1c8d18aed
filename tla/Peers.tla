-------------------------------- MODULE Peers --------------------------------
(***************************************************************************)
(* Federation, the side of trust: whose bundles a site imports.            *)
(*                                                                         *)
(* A remote instance grants shares to this site and writes signed bundles  *)
(* of them to files.  A file may be imported many times, in any order or   *)
(* never; it may be overwritten.  This site keeps one peer_devices row for *)
(* the remote (the pinned key, the trust its owner gave it), a row per     *)
(* imported grant, and the keys it has retired.  The remote rotates its    *)
(* key; the owner of this site adds, inspects, trusts, revokes and         *)
(* replaces, any of them between the two halves of an approval.            *)
(***************************************************************************)
EXTENDS Naturals, FiniteSets

CONSTANTS
    Shares,         \* share grants of the remote instance to this site
    Files,          \* paths bundles are written to and imported from
    MaxKey,         \* bound: the remote's key pairs, 1..MaxKey in their order
    Registrations,  \* trust statuses add_peer is called with
    Approvals,      \* <<status, domain>> pairs trust_peer is called with
    Policies,       \* trust policies imports are called with
    NoFile,         \* a path nothing was written to
    NoApproval      \* no approval is being given

Statuses == {"unknown", "untrusted", "trusted_device", "trusted_user",
             "trusted_team", "revoked", "blocked"}
Trusted  == {"trusted_device", "trusted_user", "trusted_team"}
Domains  == {"none", "personal", "team", "untrusted"}
CandidateModes == {"candidate_only", "manual_review", "remote_claim_only"}
ImportModes == CandidateModes
               \cup {"active_if_trusted", "active_for_project_state", "trusted_device"}

ASSUME PeersAssumption ==
    /\ MaxKey \in Nat \ {0}
    /\ Registrations \subseteq Statuses
    /\ Approvals \subseteq (Statuses \ {"revoked"}) \X Domains
    /\ Policies \subseteq ImportModes
    /\ NoFile \notin [share : Shares, key : 1..MaxKey]
    /\ NoApproval \notin [status : Statuses, domain : Domains, key : 0..MaxKey]

Keys  == 1..MaxKey
NoKey == 0

VARIABLES
    key,        \* the remote's active federation identity
    granted,    \* share_grants of the remote
    lapsed,     \* the shares whose expires_at has passed, on every clock
    file,       \* the bundle in each file: its share and the key that signed it
    peer,       \* the peer_devices row of the remote, and the keys retired for it
    accepted,   \* the imported share_grants and share_recipients rows
    approval,   \* trust_peer between its read of the peer and its update
    vouched     \* ghost: the key the owner inspected before the last decision

peerVars == <<key, granted, lapsed, file, peer, accepted, approval, vouched>>

Signed == [share : Shares, key : Keys]
Grant  == [status : {"none", "active", "revoked"}, key : Keys \cup {NoKey}]
NoGrant == [status |-> "none", key |-> NoKey]
Peer   == [status : Statuses \cup {"absent"}, pin : Keys \cup {NoKey},
           domain : Domains, revoked : BOOLEAN, retired : SUBSET Keys]

PeerInit ==
    /\ key = 1
    /\ granted = [s \in Shares |-> "none"]
    /\ lapsed = {}
    /\ file = [f \in Files |-> NoFile]
    /\ peer = [status |-> "absent", pin |-> NoKey, domain |-> "none",
               revoked |-> FALSE, retired |-> {}]
    /\ accepted = [s \in Shares |-> NoGrant]
    /\ approval = NoApproval
    /\ vouched = NoKey

\* _revoke_share_grant, for every imported grant in S.
Revoked(grants, S) ==
    [s \in Shares |-> IF s \in S /\ grants[s].status # "none"
                      THEN [grants[s] EXCEPT !.status = "revoked"] ELSE grants[s]]

-----------------------------------------------------------------------------
(* The remote instance.                                                    *)

\* create_share_grant.
CreateShare(s) ==
    /\ granted[s] = "none"
    /\ granted' = [granted EXCEPT ![s] = "active"]
    /\ UNCHANGED <<key, lapsed, file, peer, accepted, approval, vouched>>

RevokeShare(s) ==
    /\ granted[s] = "active"
    /\ granted' = [granted EXCEPT ![s] = "revoked"]
    /\ UNCHANGED <<key, lapsed, file, peer, accepted, approval, vouched>>

\* expires_at passes.  Both sites refuse the share from then on; whether one
\* of them has also written the status down as expired makes no difference.
Lapse(s) ==
    /\ granted[s] # "none" /\ s \notin lapsed
    /\ lapsed' = lapsed \cup {s}
    /\ UNCHANGED <<key, granted, file, peer, accepted, approval, vouched>>

\* rotate_federation_key renews the key pair and revokes every grant.
RotateKey ==
    /\ key < MaxKey
    /\ key' = key + 1
    /\ granted' = [s \in Shares |-> IF granted[s] = "none" THEN "none" ELSE "revoked"]
    /\ UNCHANGED <<lapsed, file, peer, accepted, approval, vouched>>

\* export_share_bundle, to a path that may hold an earlier bundle.
Export(s, f) ==
    /\ granted[s] = "active" /\ s \notin lapsed
    /\ file' = [file EXCEPT ![f] = [share |-> s, key |-> key]]
    /\ UNCHANGED <<key, granted, lapsed, peer, accepted, approval, vouched>>

-----------------------------------------------------------------------------
(* The owner of this site.                                                 *)

\* add_peer with an identity document of any age.  On a known peer it only
\* refreshes the name: a document with another key is refused.
AddPeer(k, status) ==
    /\ k <= key /\ peer.status = "absent"
    /\ peer' = [peer EXCEPT !.status = status, !.pin = k]
    /\ vouched' = k
    /\ UNCHANGED <<key, granted, lapsed, file, accepted, approval>>

\* The first half of trust_peer: the peer is read, and the owner decides.
InspectPeer(status, domain) ==
    /\ approval = NoApproval
    /\ peer.status \notin {"absent", "revoked"}
    /\ approval' = [status |-> status, domain |-> domain, key |-> peer.pin]
    /\ UNCHANGED <<key, granted, lapsed, file, peer, accepted, vouched>>

\* The domain that follows from a status.
DefaultDomain(status) ==
    CASE status = "trusted_device"                      -> "personal"
      [] status = "trusted_team"                        -> "team"
      [] status \in {"unknown", "untrusted", "blocked"} -> "untrusted"
      [] OTHER                                          -> "none"

\* The domain the caller names, or the default.
DomainGiven(status, domain) ==
    IF domain # "none" THEN domain ELSE DefaultDomain(status)

\* Mutated forms of StillInspected: the key, or the revocation, is not looked
\* at again.
StillInspectedAnyKey == peer.status # "revoked" /\ ~peer.revoked
StillInspectedRevoked == peer.pin = approval.key

\* The condition of the second half's UPDATE.
StillInspected ==
    /\ peer.pin = approval.key
    /\ peer.status # "revoked" /\ ~peer.revoked

\* The second half of trust_peer: the update applies to the row the owner
\* inspected, or the approval fails.
ApprovePeer ==
    /\ approval # NoApproval
    /\ IF StillInspected
       THEN /\ peer' = [peer EXCEPT !.status = approval.status,
                                    !.domain = DomainGiven(approval.status, approval.domain)]
            /\ vouched' = approval.key
       ELSE UNCHANGED <<peer, vouched>>
    /\ approval' = NoApproval
    /\ UNCHANGED <<key, granted, lapsed, file, accepted>>

\* revoke_peer, with or without the grants.
RevokePeer(withShares) ==
    /\ peer.status # "absent"
    /\ peer' = [peer EXCEPT !.status = "revoked", !.revoked = TRUE]
    /\ accepted' = IF withShares THEN Revoked(accepted, Shares) ELSE accepted
    /\ UNCHANGED <<key, granted, lapsed, file, approval, vouched>>

\* revoke_share_grant of an imported grant.
RevokeAccepted(s) ==
    /\ accepted[s].status = "active"
    /\ accepted' = Revoked(accepted, {s})
    /\ UNCHANGED <<key, granted, lapsed, file, peer, approval, vouched>>

\* A mutated form of ReplacePeerKey: the grants survive.
ReplacePeerKeyOnly(k) ==
    /\ peer.status # "absent"
    /\ k <= key /\ k # peer.pin /\ k \notin peer.retired
    /\ peer' = [status |-> "unknown", pin |-> k, domain |-> "none",
                revoked |-> FALSE, retired |-> peer.retired \cup {peer.pin}]
    /\ UNCHANGED <<key, granted, lapsed, file, accepted, approval, vouched>>

\* replace_peer_key: a key this site never retired takes the pin, nothing of
\* the trust survives, and the grants are revoked.
ReplacePeerKey(k) ==
    /\ peer.status # "absent"
    /\ k <= key /\ k # peer.pin /\ k \notin peer.retired
    /\ peer' = [status |-> "unknown", pin |-> k, domain |-> "none",
                revoked |-> FALSE, retired |-> peer.retired \cup {peer.pin}]
    /\ accepted' = Revoked(accepted, Shares)
    /\ UNCHANGED <<key, granted, lapsed, file, approval, vouched>>

-----------------------------------------------------------------------------
(* Imports.                                                                *)

\* _validate_import_grant and _peer_for_import.  The bundle's own copy of the
\* grant is active: an inactive one is not exported.
MayImport(b, policy) ==
    /\ b.share \notin lapsed
    /\ accepted[b.share].status # "revoked"
    /\ IF peer.status = "absent"
       THEN policy # "trusted_device" /\ accepted[b.share].status = "none"
       ELSE /\ peer.pin = b.key
            /\ peer.status \notin {"revoked", "blocked"} /\ ~peer.revoked
            /\ policy = "trusted_device" => peer.status = "trusted_device"

\* _policy_for_import: how far the policy and the trust domain let claims in.
Admission(policy) ==
    IF policy \in CandidateModes \/ peer.status = "absent" THEN "candidates"
    ELSE CASE peer.domain = "personal"  -> "projects"
           [] peer.domain = "team"      ->
                IF policy = "active_if_trusted" THEN "all" ELSE "projects"
           [] peer.domain = "none"      ->
                IF policy = "trusted_device" THEN "projects" ELSE "candidates"
           [] peer.domain = "untrusted" -> "candidates"

\* _claim_imports_active.
ImportsActive(policy, isProject) ==
    /\ peer.status \in Trusted
    /\ \/ Admission(policy) = "all"
       \/ Admission(policy) = "projects" /\ isProject

\* What import_share_bundle does to trust: an unknown remote is added with
\* the key of the bundle, and a new grant is recorded.
Receive(f, policy) ==
    /\ file[f] # NoFile
    /\ MayImport(file[f], policy)
    /\ peer' = IF peer.status = "absent"
               THEN [peer EXCEPT !.status = "unknown", !.pin = file[f].key] ELSE peer
    /\ accepted' = IF accepted[file[f].share].status = "none"
                   THEN [accepted EXCEPT ![file[f].share] =
                           [status |-> "active", key |-> file[f].key]]
                   ELSE accepted
    /\ UNCHANGED <<key, granted, lapsed, file, approval, vouched>>

-----------------------------------------------------------------------------
RemoteDecision ==
    \/ \E s \in Shares : CreateShare(s) \/ RevokeShare(s) \/ Lapse(s)
    \/ RotateKey

\* What the routes of peers offer.
OwnerDecision ==
    \/ \E k \in Keys, status \in Registrations : AddPeer(k, status)
    \/ \E d \in Approvals : InspectPeer(d[1], d[2])
    \/ ApprovePeer
    \/ \E withShares \in BOOLEAN : RevokePeer(withShares)
    \/ \E s \in Shares : RevokeAccepted(s)
    \/ \E k \in Keys : ReplacePeerKey(k)

PeerNext ==
    \/ RemoteDecision
    \/ OwnerDecision
    \/ \E s \in Shares, f \in Files : Export(s, f)
    \/ \E f \in Files, policy \in Policies : Receive(f, policy)

PeerSpec == PeerInit /\ [][PeerNext]_peerVars

-----------------------------------------------------------------------------
(* Properties.                                                             *)

PeerTypeOK ==
    /\ key \in Keys
    /\ granted \in [Shares -> {"none", "active", "revoked"}]
    /\ lapsed \subseteq Shares
    /\ file \in [Files -> Signed \cup {NoFile}]
    /\ peer \in Peer
    /\ accepted \in [Shares -> Grant]
    /\ approval \in [status : Statuses \ {"revoked"}, domain : Domains, key : Keys]
                    \cup {NoApproval}
    /\ vouched \in Keys \cup {NoKey}

\* Trust belongs to a key: while the remote is trusted, the pinned key is the
\* one its owner last inspected, whatever was replaced, revoked or imported
\* while an approval was under way; and a retired key is never pinned again.
TrustFollowsKey ==
    /\ peer.status \in Trusted => vouched = peer.pin
    /\ peer.pin \notin peer.retired

\* Every grant still in force was accepted under the key that is pinned now,
\* so that no bundle signed with a replaced key is imported under it.
\* _validate_import_grant compares the bundle with the pinned key only.
GrantsFollowKey ==
    \A s \in Shares : accepted[s].status = "active" =>
        accepted[s].key = peer.pin /\ peer.status # "absent"

\* A revocation is final: a revoked grant never serves again, a revoked
\* remote comes back only with a key that was never retired, and without any
\* of its trust or grants.
RevocationsAreFinal ==
    [][/\ \A s \in Shares : accepted[s].status = "revoked" => accepted'[s].status = "revoked"
       /\ peer.status = "revoked" /\ peer'.status # "revoked" =>
            /\ peer'.pin \notin peer'.retired /\ peer.pin \in peer'.retired
            /\ peer'.status = "unknown"
            /\ \A s \in Shares : accepted'[s].status # "active"]_peerVars
=============================================================================
