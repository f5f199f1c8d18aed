-------------------------- MODULE FederationProofs --------------------------
(***************************************************************************)
(* Proofs about Peers and Imports, for every set of shares, files, claims  *)
(* and evidence, every number of key rotations and every choice of         *)
(* registrations, approvals and import policies.                           *)
(*                                                                         *)
(* Trust: a peer that is known has a pinned key, and one that is not has   *)
(* retired none (Pinned); with it the type invariant is inductive, and on  *)
(* top of it the two statements about trust and about grants.  Content     *)
(* does nothing to trust that Peers does not describe, so the same holds   *)
(* of the whole.  Then, what a notice of a deletion withdraws stays out,   *)
(* an import overwrites no decision made here, and a deletion stays        *)
(* announced by whoever disclosed what was deleted.                        *)
(***************************************************************************)
EXTENDS Imports, SequenceTheorems, TLAPS

Pinned ==
    IF peer.status = "absent" THEN peer.retired = {} ELSE peer.pin \in Keys

Inv == PeerTypeOK /\ Pinned /\ TrustFollowsKey /\ GrantsFollowKey

\* Revoking keeps the shape of the grants, takes every chosen grant out of
\* force and brings none into it.
LEMMA RevokedGrants ==
    ASSUME NEW grants \in [Shares -> Grant], NEW S \in SUBSET Shares
    PROVE  /\ Revoked(grants, S) \in [Shares -> Grant]
           /\ \A s \in Shares :
                /\ grants[s].status = "revoked" => Revoked(grants, S)[s].status = "revoked"
                /\ s \in S => Revoked(grants, S)[s].status # "active"
                /\ Revoked(grants, S)[s].status = "active" => Revoked(grants, S)[s] = grants[s]
BY DEF Revoked, Grant

\* A domain that follows from a status, or that the owner names, is one.
LEMMA DomainType ==
    ASSUME NEW status \in Statuses, NEW domain \in Domains
    PROVE  DomainGiven(status, domain) \in Domains
BY DEF DomainGiven, DefaultDomain, Domains, Statuses

\* A site that knows no peer and holds no grant.
LEMMA PeerInitInv == PeerInit => Inv
BY PeersAssumption
DEF PeerInit, Inv, PeerTypeOK, Pinned, TrustFollowsKey, GrantsFollowKey, Keys, NoKey, Peer,
    Grant, NoGrant, Signed, Statuses, Domains, Trusted

\* What the remote does disturbs only its own state.
LEMMA RemoteStep ==
    ASSUME Inv,
           \/ RemoteDecision
           \/ \E s \in Shares, f \in Files : Export(s, f)
    PROVE  Inv' /\ UNCHANGED <<peer, accepted>>
<1>1. ASSUME NEW s \in Shares, CreateShare(s) \/ RevokeShare(s) \/ Lapse(s)
      PROVE  Inv' /\ UNCHANGED <<peer, accepted>>
  BY <1>1 DEF Inv, PeerTypeOK, Pinned, TrustFollowsKey, GrantsFollowKey,
              CreateShare, RevokeShare, Lapse
<1>2. ASSUME RotateKey PROVE Inv' /\ UNCHANGED <<peer, accepted>>
  BY <1>2, PeersAssumption
  DEF Inv, PeerTypeOK, Pinned, TrustFollowsKey, GrantsFollowKey, RotateKey, Keys
<1>3. ASSUME NEW s \in Shares, NEW f \in Files, Export(s, f)
      PROVE  Inv' /\ UNCHANGED <<peer, accepted>>
  <2>1. [share |-> s, key |-> key] \in Signed
    BY DEF Inv, PeerTypeOK, Signed
  <2> QED
    BY <1>3, <2>1 DEF Inv, PeerTypeOK, Pinned, TrustFollowsKey, GrantsFollowKey, Export
<1> QED
  BY <1>1, <1>2, <1>3 DEF RemoteDecision

\* The decisions that bring a peer in or give trust.
LEMMA AddPeerStep ==
    ASSUME Inv, NEW k \in Keys, NEW status \in Registrations, AddPeer(k, status)
    PROVE  Inv' /\ UNCHANGED accepted
<1>1. peer' \in Peer /\ peer'.pin = k /\ peer'.retired = {} /\ peer'.status = status
  BY PeersAssumption DEF Inv, PeerTypeOK, Pinned, AddPeer, Peer, Statuses
<1>2. \A s \in Shares : accepted[s].status # "active"
  BY DEF Inv, GrantsFollowKey, AddPeer
<1> QED
  BY <1>1, <1>2 DEF Inv, PeerTypeOK, Pinned, TrustFollowsKey, GrantsFollowKey, AddPeer

\* The first half of an approval reads a pinned key.
LEMMA InspectPeerStep ==
    ASSUME Inv, NEW d \in Approvals, InspectPeer(d[1], d[2])
    PROVE  Inv' /\ UNCHANGED <<peer, accepted>>
<1>1. d[1] \in Statuses \ {"revoked"} /\ d[2] \in Domains
  BY PeersAssumption
<1>2. peer.pin \in Keys
  BY DEF Inv, Pinned, InspectPeer
<1> QED
  BY <1>1, <1>2 DEF Inv, PeerTypeOK, Pinned, TrustFollowsKey, GrantsFollowKey, InspectPeer

\* The second half trusts the key it read, or changes nothing.
LEMMA ApprovePeerStep ==
    ASSUME Inv, ApprovePeer
    PROVE  /\ Inv' /\ UNCHANGED accepted
           /\ peer.status = "revoked" => UNCHANGED peer
<1>1. approval \in [status : Statuses \ {"revoked"}, domain : Domains, key : Keys]
  BY DEF Inv, PeerTypeOK, ApprovePeer
<1>2. approval'= NoApproval
  BY DEF ApprovePeer
<1>3. CASE StillInspected
  <2>1. DomainGiven(approval.status, approval.domain) \in Domains
    BY <1>1, DomainType
  <2>2. /\ peer' = [peer EXCEPT !.status = approval.status,
                                !.domain = DomainGiven(approval.status, approval.domain)]
        /\ vouched' = approval.key /\ peer.pin = approval.key /\ peer.status # "revoked"
        /\ UNCHANGED <<key, granted, lapsed, file, accepted>>
    BY <1>3 DEF ApprovePeer, StillInspected
  <2>3. peer \in Peer /\ approval.key \in Keys /\ approval.status \in Statuses
    BY <1>1 DEF Inv, PeerTypeOK
  <2>4. /\ peer' \in Peer /\ peer'.status = approval.status /\ peer'.status # "absent"
        /\ peer'.pin = peer.pin /\ peer'.retired = peer.retired
    <3>1. peer'.status = approval.status /\ peer'.pin = peer.pin /\ peer'.retired = peer.retired
      BY <2>2, <2>3 DEF Peer
    <3>2. approval.status # "absent"
      BY <2>3 DEF Statuses
    <3>3. peer' \in Peer
      BY <2>1, <2>2, <2>3 DEF Peer
    <3> QED
      BY <3>1, <3>2, <3>3
  <2>5. peer.status = "absent" => \A s \in Shares : accepted[s].status # "active"
    BY DEF Inv, GrantsFollowKey
  <2>6. PeerTypeOK'
    BY <1>2, <2>2, <2>3, <2>4 DEF Inv, PeerTypeOK
  <2>7. Pinned' /\ TrustFollowsKey' /\ GrantsFollowKey'
    BY <2>2, <2>3, <2>4 DEF Inv, Pinned, TrustFollowsKey, GrantsFollowKey
  <2> QED
    BY <2>2, <2>6, <2>7 DEF Inv
<1>4. CASE ~StillInspected
  BY <1>2, <1>4 DEF Inv, PeerTypeOK, Pinned, TrustFollowsKey, GrantsFollowKey, ApprovePeer
<1> QED
  BY <1>3, <1>4

\* The decisions that take trust away.
LEMMA RevokePeerStep ==
    ASSUME Inv, NEW withShares \in BOOLEAN, RevokePeer(withShares)
    PROVE  /\ Inv' /\ peer'.status = "revoked"
           /\ \A s \in Shares : accepted[s].status = "revoked" => accepted'[s].status = "revoked"
<1>1. /\ peer' \in Peer /\ peer'.status = "revoked"
      /\ peer'.pin = peer.pin /\ peer'.retired = peer.retired
  BY DEF Inv, PeerTypeOK, RevokePeer, Peer, Statuses
<1>2. /\ accepted' \in [Shares -> Grant]
      /\ \A s \in Shares :
           /\ accepted[s].status = "revoked" => accepted'[s].status = "revoked"
           /\ accepted'[s].status = "active" => accepted'[s] = accepted[s]
  <2>1. CASE withShares
    BY <2>1, RevokedGrants DEF Inv, PeerTypeOK, RevokePeer
  <2>2. CASE ~withShares
    BY <2>2 DEF Inv, PeerTypeOK, RevokePeer
  <2> QED
    BY <2>1, <2>2
<1>3. PeerTypeOK'
  BY <1>1, <1>2 DEF Inv, PeerTypeOK, RevokePeer
<1>4. Pinned' /\ TrustFollowsKey'
  BY <1>1 DEF Inv, Pinned, TrustFollowsKey, RevokePeer, Trusted
<1>5. GrantsFollowKey'
  BY <1>1, <1>2 DEF Inv, GrantsFollowKey
<1> QED
  BY <1>1, <1>2, <1>3, <1>4, <1>5 DEF Inv

\* The revocation of one grant.
LEMMA RevokeAcceptedStep ==
    ASSUME Inv, NEW s \in Shares, RevokeAccepted(s)
    PROVE  /\ Inv' /\ UNCHANGED peer
           /\ \A t \in Shares : accepted[t].status = "revoked" => accepted'[t].status = "revoked"
<1>1. /\ accepted' \in [Shares -> Grant]
      /\ \A t \in Shares :
           /\ accepted[t].status = "revoked" => accepted'[t].status = "revoked"
           /\ accepted'[t].status = "active" => accepted'[t] = accepted[t]
  BY RevokedGrants DEF Inv, PeerTypeOK, RevokeAccepted
<1> QED
  BY <1>1 DEF Inv, PeerTypeOK, Pinned, TrustFollowsKey, GrantsFollowKey, RevokeAccepted

\* A replacement leaves no grant in force, so that none is left to a key that
\* is no longer pinned.
LEMMA ReplacePeerKeyStep ==
    ASSUME Inv, NEW k \in Keys, ReplacePeerKey(k)
    PROVE  /\ Inv'
           /\ peer'.status = "unknown"
           /\ peer'.pin \notin peer'.retired /\ peer.pin \in peer'.retired
           /\ \A s \in Shares :
                /\ accepted'[s].status # "active"
                /\ accepted[s].status = "revoked" => accepted'[s].status = "revoked"
<1>1. peer' = [status |-> "unknown", pin |-> k, domain |-> "none",
               revoked |-> FALSE, retired |-> peer.retired \cup {peer.pin}]
  BY DEF ReplacePeerKey
<1>2. peer.pin \in Keys /\ peer.retired \subseteq Keys
  BY DEF Inv, PeerTypeOK, Pinned, ReplacePeerKey, Peer
<1>3. peer' \in Peer
  BY <1>1, <1>2 DEF Peer, Statuses, Domains
<1>4. peer'.pin \notin peer'.retired /\ peer.pin \in peer'.retired
  BY <1>1 DEF ReplacePeerKey
<1>5. /\ accepted' \in [Shares -> Grant]
      /\ \A s \in Shares :
           /\ accepted'[s].status # "active"
           /\ accepted[s].status = "revoked" => accepted'[s].status = "revoked"
  BY RevokedGrants DEF Inv, PeerTypeOK, ReplacePeerKey
<1>6. PeerTypeOK'
  BY <1>3, <1>5 DEF Inv, PeerTypeOK, ReplacePeerKey
<1>7. Pinned' /\ TrustFollowsKey' /\ GrantsFollowKey'
  BY <1>1, <1>4, <1>5 DEF Pinned, TrustFollowsKey, GrantsFollowKey, Trusted
<1> QED
  BY <1>1, <1>4, <1>5, <1>6, <1>7 DEF Inv

\* An import accepts a grant under the key that is pinned, or pins it.
LEMMA ReceiveStep ==
    ASSUME Inv, NEW f \in Files, NEW policy \in Policies, Receive(f, policy)
    PROVE  /\ Inv'
           /\ peer.status # "absent" => UNCHANGED peer
           /\ \A s \in Shares : accepted[s].status = "revoked" => accepted'[s].status = "revoked"
<1> DEFINE b == file[f]
<1>1. b \in Signed
  BY DEF Inv, PeerTypeOK, Receive
<1>2. b.share \in Shares /\ b.key \in Keys
  BY <1>1 DEF Signed
<1>3. /\ peer' \in Peer /\ peer'.retired = peer.retired /\ peer'.status # "absent"
      /\ peer'.pin = b.key
      /\ IF peer.status = "absent" THEN peer'.status = "unknown" ELSE peer' = peer
  <2>1. CASE peer.status = "absent"
    BY <1>2, <2>1 DEF Inv, PeerTypeOK, Receive, Peer, Statuses
  <2>2. CASE peer.status # "absent"
    BY <2>2 DEF Inv, PeerTypeOK, Receive, MayImport
  <2> QED
    BY <2>1, <2>2
<1>4. /\ accepted' \in [Shares -> Grant]
      /\ \A s \in Shares :
           \/ accepted'[s] = accepted[s]
           \/ accepted[s].status = "none" /\ accepted'[s] = [status |-> "active", key |-> b.key]
  BY <1>2 DEF Inv, PeerTypeOK, Receive, Grant
<1>5. PeerTypeOK'
  BY <1>3, <1>4 DEF Inv, PeerTypeOK, Receive
<1>6. Pinned'
  BY <1>2, <1>3 DEF Pinned
<1>7. TrustFollowsKey'
  BY <1>3 DEF Inv, Pinned, TrustFollowsKey, Receive, Trusted
<1>8. GrantsFollowKey'
  <2>1. ASSUME NEW s \in Shares, accepted'[s].status = "active"
        PROVE  accepted'[s].key = peer'.pin
    BY <1>3, <1>4, <2>1 DEF Inv, GrantsFollowKey
  <2> QED
    BY <1>3, <2>1 DEF GrantsFollowKey
<1> QED
  BY <1>3, <1>4, <1>5, <1>6, <1>7, <1>8 DEF Inv

-----------------------------------------------------------------------------
\* What every step does: it keeps the invariant, and revocations stay.
LEMMA PeerStep ==
    ASSUME Inv, [PeerNext]_peerVars
    PROVE  /\ Inv'
           /\ \A s \in Shares : accepted[s].status = "revoked" => accepted'[s].status = "revoked"
           /\ peer.status = "revoked" /\ peer'.status # "revoked" =>
                /\ peer'.pin \notin peer'.retired /\ peer.pin \in peer'.retired
                /\ peer'.status = "unknown"
                /\ \A s \in Shares : accepted'[s].status # "active"
<1> DEFINE Goal ==
      /\ Inv'
      /\ \A s \in Shares : accepted[s].status = "revoked" => accepted'[s].status = "revoked"
      /\ peer.status = "revoked" /\ peer'.status # "revoked" =>
           /\ peer'.pin \notin peer'.retired /\ peer.pin \in peer'.retired
           /\ peer'.status = "unknown"
           /\ \A s \in Shares : accepted'[s].status # "active"
<1>1. CASE UNCHANGED peerVars
  BY <1>1 DEF peerVars, Inv, PeerTypeOK, Pinned, TrustFollowsKey, GrantsFollowKey
<1>2. CASE RemoteDecision \/ \E s \in Shares, f \in Files : Export(s, f)
  BY <1>2, RemoteStep
<1>3. ASSUME NEW k \in Keys, NEW status \in Registrations, AddPeer(k, status) PROVE Goal
  <2>1. peer.status = "absent"
    BY <1>3 DEF AddPeer
  <2> QED
    BY <1>3, <2>1, AddPeerStep
<1>4. ASSUME NEW d \in Approvals, InspectPeer(d[1], d[2]) PROVE Goal
  BY <1>4, InspectPeerStep
<1>5. CASE ApprovePeer
  BY <1>5, ApprovePeerStep
<1>6. ASSUME NEW withShares \in BOOLEAN, RevokePeer(withShares) PROVE Goal
  BY <1>6, RevokePeerStep
<1>7. ASSUME NEW s \in Shares, RevokeAccepted(s) PROVE Goal
  BY <1>7, RevokeAcceptedStep
<1>8. ASSUME NEW k \in Keys, ReplacePeerKey(k) PROVE Goal
  BY <1>8, ReplacePeerKeyStep
<1>9. ASSUME NEW f \in Files, NEW policy \in Policies, Receive(f, policy) PROVE Goal
  BY <1>9, ReceiveStep
<1>10. CASE OwnerDecision
  BY <1>10, <1>3, <1>4, <1>5, <1>6, <1>7, <1>8 DEF OwnerDecision
<1> QED
  BY <1>1, <1>2, <1>9, <1>10 DEF PeerNext

\* The inductive invariant, from which the theorems below follow.
THEOREM PeerInvariant == PeerSpec => []Inv
<1>1. PeerInit => Inv
  BY PeerInitInv
<1>2. Inv /\ [PeerNext]_peerVars => Inv'
  BY PeerStep
<1> QED
  BY <1>1, <1>2, PTL DEF PeerSpec

\* The state stays well-typed: in particular a peer that is known has a
\* pinned key, and an approval under way names a key.
THEOREM PeerTypes == PeerSpec => []PeerTypeOK
<1>1. Inv => PeerTypeOK
  BY DEF Inv
<1> QED
  BY <1>1, PeerInvariant, PTL

\* Trust belongs to the key its owner inspected, and no retired key is ever
\* pinned again, however approvals, replacements, revocations and imports of
\* old bundles interleave (trust_peer, replace_peer_key, _peer_for_import).
THEOREM TrustSafety == PeerSpec => []TrustFollowsKey
<1>1. Inv => TrustFollowsKey
  BY DEF Inv
<1> QED
  BY <1>1, PeerInvariant, PTL

\* Every grant in force was accepted under the pinned key, though
\* _validate_import_grant compares bundles with the pinned key only.
THEOREM GrantSafety == PeerSpec => []GrantsFollowKey
<1>1. Inv => GrantsFollowKey
  BY DEF Inv
<1> QED
  BY <1>1, PeerInvariant, PTL

\* A revoked grant never serves again, and a revoked peer comes back only by
\* replace_peer_key: with another key, without its trust and its grants.
THEOREM FinalRevocations == PeerSpec => RevocationsAreFinal
<1>1. Inv /\ [PeerNext]_peerVars =>
        [/\ \A s \in Shares : accepted[s].status = "revoked" => accepted'[s].status = "revoked"
         /\ peer.status = "revoked" /\ peer'.status # "revoked" =>
              /\ peer'.pin \notin peer'.retired /\ peer.pin \in peer'.retired
              /\ peer'.status = "unknown"
              /\ \A s \in Shares : accepted'[s].status # "active"]_peerVars
  BY PeerStep
<1> QED
  BY <1>1, PeerInvariant, PTL DEF PeerSpec, RevocationsAreFinal

-----------------------------------------------------------------------------
(* Content.                                                                *)

\* An export or an import of content is one of Peers.
LEMMA ContentStep ==
    ASSUME NEW f \in Files,
           \/ \E s \in Shares : ExportBundle(s, f)
           \/ \E policy \in Policies : Import(f, policy)
    PROVE  PeerNext
BY DEF ExportBundle, Import, PeerNext

\* A sync over a file is an import of it.
LEMMA SyncImports ==
    ASSUME \E f \in Files, policy \in Policies : Import(f, policy) \/ \E s \in Shares : Sync(s, f, policy)
    PROVE  \E f \in Files, policy \in Policies : Import(f, policy)
BY DEF Sync

\* What the remote does to its claims leaves trust alone.
LEMMA RemoteContentStep ==
    ASSUME \/ \E c \in Claims, status \in Shown \cup {"withheld"} : SetStatus(c, status)
           \/ \E c \in Claims : RedactClaim(c)
           \/ \E e \in Evidence : RedactEvidence(e) \/ ForgetEvidence(e)
    PROVE  UNCHANGED peerVars
BY DEF SetStatus, RedactClaim, RedactEvidence, ForgetEvidence

\* So do the reviews of this site's owner.
LEMMA ReviewStep ==
    ASSUME NEW c \in Claims, Review(c)
    PROVE  UNCHANGED peerVars
BY DEF Review, Touches, WriteNative, RetireNative, ForgetNote, Reject, RetireCopy, ForgetCopy,
       Promote, KeepLocal, AcceptRemote, DemoteRemote, Defer

\* The content of federation implements its trust: every step of an import,
\* an export or a review is a step of Peers or leaves trust unchanged.
THEOREM ImportsImplementPeers == Spec => PeerSpec
<1>1. Init => PeerInit
  BY DEF Init
<1>2. [Next]_vars => [PeerNext]_peerVars
  <2>1. CASE Trust
    BY <2>1 DEF Trust, PeerNext
  <2>2. CASE Remote
    BY <2>2, ContentStep, RemoteContentStep DEF Remote
  <2>3. CASE \E f \in Files, policy \in Policies :
               Import(f, policy) \/ \E s \in Shares : Sync(s, f, policy)
    BY <2>3, SyncImports, ContentStep
  <2>4. CASE (\E c \in Claims : Review(c)) \/ \E e \in Evidence : ForgetEvidence(e)
    BY <2>4, ReviewStep, RemoteContentStep
  <2>5. CASE UNCHANGED vars
    BY <2>5 DEF vars
  <2> QED
    BY <2>1, <2>2, <2>3, <2>4, <2>5 DEF Next
<1> QED
  BY <1>1, <1>2, PTL DEF Spec, PeerSpec

\* Whatever is imported, exported, redacted or resolved, trust follows the
\* inspected key, grants follow the pinned one, and revocations are final.
THEOREM TrustOfImports ==
    Spec => [](TrustFollowsKey /\ GrantsFollowKey) /\ RevocationsAreFinal
BY ImportsImplementPeers, TrustSafety, GrantSafety, FinalRevocations, PTL

-----------------------------------------------------------------------------
(* What was withdrawn stays out.                                           *)
(*                                                                         *)
(* A notice scrubs the row the source mapping points to, and everything    *)
(* else only if that row is a candidate.  This is enough because of where  *)
(* live rows can be (RowsOK): a row that waits for review is the mapped    *)
(* one, and next to a mapped row that is a claim, or waits, none is live.  *)

Rows == {copy \in Copy : copy.source \in 0..Len(copy.rows)}

RowsOK(copy) ==
    /\ copy.source = 0 <=> copy.rows = <<>>
    /\ copy.conflict # "none" => Mapped(copy)
    /\ \A i \in DOMAIN copy.rows :
         copy.rows[i].status = "pending" => copy.rows[i].text /\ i = copy.source
    /\ (Mapped(copy) /\ (Source(copy).kind = "claim" \/ Source(copy).status = "pending")) =>
         \A i \in DOMAIN copy.rows : LiveRow(copy.rows[i]) => i = copy.source

Out(copy) == \A i \in DOMAIN copy.rows : ~LiveRow(copy.rows[i])

\* A scrubbed row has no text and is out of service.
LEMMA ScrubbedRow ==
    ASSUME NEW row \in Row
    PROVE  /\ Scrubbed(row) \in Row
           /\ ~Scrubbed(row).text /\ Scrubbed(row).kind = row.kind
           /\ Scrubbed(row).status \notin {"pending", "serving"}
BY DEF Scrubbed, Row

\* Replacing one row of a copy.
LEMMA ReplacedRow ==
    ASSUME NEW copy \in Rows, NEW i \in DOMAIN copy.rows, NEW row \in Row
    PROVE  LET new == [copy EXCEPT !.rows = [copy.rows EXCEPT ![i] = row]]
           IN  /\ new \in Rows /\ new.source = copy.source /\ new.conflict = copy.conflict
               /\ DOMAIN new.rows = DOMAIN copy.rows /\ Len(new.rows) = Len(copy.rows)
               /\ new.rows[i] = row
               /\ \A j \in DOMAIN copy.rows \ {i} : new.rows[j] = copy.rows[j]
<1> DEFINE rows == [copy.rows EXCEPT ![i] = row]
           new == [copy EXCEPT !.rows = rows]
<1>1. copy \in Copy /\ copy.rows \in Seq(Row) /\ i \in 1..Len(copy.rows)
  BY DEF Rows, Copy
<1>2. rows \in Seq(Row) /\ Len(rows) = Len(copy.rows)
      /\ rows[i] = row /\ \A j \in 1..Len(copy.rows) : j # i => rows[j] = copy.rows[j]
  BY <1>1, ExceptSeq
<1>3. /\ new \in Copy /\ new.rows = rows
      /\ new.source = copy.source /\ new.conflict = copy.conflict
  BY <1>1, <1>2 DEF Copy
<1> QED
  BY <1>1, <1>2, <1>3 DEF Rows

\* Adding a row to a copy.
LEMMA AddedRow ==
    ASSUME NEW copy \in Rows, NEW row \in Row
    PROVE  LET n == Len(copy.rows) + 1
               rows == Append(copy.rows, row)
           IN  /\ rows \in Seq(Row) /\ Len(rows) = n /\ rows[n] = row
               /\ n \in 1..n /\ DOMAIN rows = 1..n /\ DOMAIN copy.rows = 1..(n - 1)
               /\ \A j \in DOMAIN copy.rows : rows[j] = copy.rows[j]
<1>1. copy.rows \in Seq(Row)
  BY DEF Rows, Copy
<1> QED
  BY <1>1, AppendProperties

\* Scrubbing one row.
LEMMA ScrubRowEffect ==
    ASSUME NEW copy \in Rows, RowsOK(copy), NEW i \in DOMAIN copy.rows
    PROVE  LET new == ScrubRow(copy, i)
           IN  /\ new \in Rows /\ RowsOK(new)
               /\ new.source = copy.source
               /\ \A j \in DOMAIN new.rows : LiveRow(new.rows[j]) =>
                    j # i /\ j \in DOMAIN copy.rows /\ LiveRow(copy.rows[j])
<1> DEFINE new == ScrubRow(copy, i)
<1>1. copy.rows[i] \in Row
  BY DEF Rows, Copy
<1>2. /\ new \in Rows /\ new.source = copy.source /\ new.conflict = copy.conflict
      /\ DOMAIN new.rows = DOMAIN copy.rows /\ Len(new.rows) = Len(copy.rows)
      /\ new.rows[i] = Scrubbed(copy.rows[i])
      /\ \A j \in DOMAIN copy.rows \ {i} : new.rows[j] = copy.rows[j]
  BY <1>1, ScrubbedRow, ReplacedRow DEF ScrubRow
<1>3. /\ ~new.rows[i].text /\ new.rows[i].kind = copy.rows[i].kind
      /\ new.rows[i].status \notin {"pending", "serving"}
  BY <1>1, <1>2, ScrubbedRow
<1>4. \A j \in DOMAIN new.rows : LiveRow(new.rows[j]) =>
        j # i /\ j \in DOMAIN copy.rows /\ LiveRow(copy.rows[j])
  BY <1>2, <1>3 DEF LiveRow
<1>5. new.source = 0 <=> new.rows = <<>>
  BY <1>2 DEF Rows, Copy, RowsOK
<1>6. Mapped(new) => Source(new).kind = Source(copy).kind
                     /\ (Source(new).status = "pending" => Source(copy).status = "pending")
  BY <1>2, <1>3 DEF Mapped, Source, Rows, Copy
<1>7. RowsOK(new)
  BY <1>2, <1>3, <1>4, <1>5, <1>6 DEF RowsOK, Mapped
<1> QED
  BY <1>2, <1>4, <1>7

\* Scrubbing all of them.
LEMMA ScrubAllEffect ==
    ASSUME NEW copy \in Rows, RowsOK(copy)
    PROVE  LET new == ScrubAll(copy)
           IN  /\ new \in Rows /\ RowsOK(new) /\ Out(new) /\ new.source = copy.source
               /\ Len(new.rows) = Len(copy.rows)
               /\ \A i \in DOMAIN copy.rows : new.rows[i] = Scrubbed(copy.rows[i])
<1> DEFINE rows == [i \in DOMAIN copy.rows |-> Scrubbed(copy.rows[i])]
           new == [copy EXCEPT !.rows = rows]
<1>1. copy \in Copy /\ copy.rows \in Seq(Row) /\ DOMAIN copy.rows = 1..Len(copy.rows)
      /\ Len(copy.rows) \in Nat
  BY DEF Rows, Copy
<1>2. \A i \in DOMAIN copy.rows : /\ rows[i] \in Row /\ ~rows[i].text
                                  /\ rows[i].status \notin {"pending", "serving"}
  BY <1>1, ScrubbedRow
<1>3. rows \in Seq(Row) /\ Len(rows) = Len(copy.rows) /\ DOMAIN rows = DOMAIN copy.rows
  <2>1. rows \in [1..Len(copy.rows) -> Row]
    BY <1>1, <1>2
  <2>2. rows \in Seq(Row)
    BY <1>1, <2>1, SeqDef
  <2>3. Len(rows) \in Nat /\ DOMAIN rows = 1..Len(rows)
    BY <2>2, LenProperties
  <2>4. DOMAIN rows = 1..Len(copy.rows)
    BY <2>1
  <2> HIDE DEF rows
  <2> QED
    BY <1>1, <2>2, <2>3, <2>4
<1>4. /\ new \in Copy /\ new.rows = rows /\ new \in Rows
      /\ new.source = copy.source /\ new.conflict = copy.conflict
  BY <1>1, <1>3 DEF Copy, Rows
<1>5. Out(new)
  BY <1>2, <1>3, <1>4 DEF Out, LiveRow
<1>6. new.rows = <<>> <=> copy.rows = <<>>
  <2> HIDE DEF rows, new
  <2> QED
    BY <1>1, <1>3, <1>4, EmptySeq
<1>7. RowsOK(new)
  <2>1. \A i \in DOMAIN new.rows : new.rows[i].status # "pending"
    BY <1>2, <1>3, <1>4
  <2> HIDE DEF rows, new
  <2> QED
    BY <1>4, <1>5, <1>6, <2>1 DEF RowsOK, Out, Mapped
<1> QED
  BY <1>3, <1>4, <1>5, <1>7 DEF ScrubAll

\* A change that brings nothing live into a copy that had nothing live.
Keeps(old, new) == new \in Rows /\ RowsOK(new) /\ (Out(old) => Out(new))

\* What is not about rows or the source mapping does not matter.
LEMMA SameRows ==
    ASSUME NEW old \in Rows, RowsOK(old), NEW new \in Copy,
           new.rows = old.rows, new.source = old.source,
           new.conflict = "none" \/ Mapped(old)
    PROVE  Keeps(old, new)
BY DEF Keeps, Rows, RowsOK, Out, Mapped, Source

\* A row with another status.
Marked(copy, i, status) == [copy EXCEPT !.rows[i].status = status]

\* A row is decided: it does not wait or serve any more.
LEMMA DecidedRow ==
    ASSUME NEW copy \in Rows, RowsOK(copy), NEW i \in DOMAIN copy.rows,
           NEW status \in {"rejected", "promoted", "retired"},
           [copy.rows[i] EXCEPT !.status = status] \in Row
    PROVE  LET new == Marked(copy, i, status)
           IN  /\ Keeps(copy, new)
               /\ new.source = copy.source /\ new.conflict = copy.conflict
               /\ DOMAIN new.rows = DOMAIN copy.rows /\ Len(new.rows) = Len(copy.rows)
               /\ new.rows[i].status = status /\ new.rows[i].kind = copy.rows[i].kind
               /\ \A j \in DOMAIN copy.rows \ {i} : new.rows[j] = copy.rows[j]
<1> DEFINE row == [copy.rows[i] EXCEPT !.status = status]
           new == [copy EXCEPT !.rows = [copy.rows EXCEPT ![i] = row]]
<1>1. /\ new \in Rows /\ new.source = copy.source /\ new.conflict = copy.conflict
      /\ DOMAIN new.rows = DOMAIN copy.rows /\ Len(new.rows) = Len(copy.rows)
      /\ new.rows[i] = row
      /\ \A j \in DOMAIN copy.rows \ {i} : new.rows[j] = copy.rows[j]
  BY ReplacedRow
<1>2. copy.rows[i] \in Row
  BY DEF Rows, Copy
<1>3. row.status = status /\ row.kind = copy.rows[i].kind /\ ~LiveRow(row)
  BY <1>2 DEF Row, LiveRow
<1> HIDE DEF row, new
<1>4. \A j \in DOMAIN new.rows : LiveRow(new.rows[j]) => LiveRow(copy.rows[j])
  BY <1>1, <1>3
<1>5. new.source = 0 <=> new.rows = <<>>
  BY <1>1 DEF Rows, Copy, RowsOK
<1>6. Mapped(new) => /\ Source(new).kind = Source(copy).kind
                     /\ Source(new).status = "pending" => Source(copy).status = "pending"
  BY <1>1, <1>3 DEF Mapped, Source, Rows, Copy
<1>7. RowsOK(new)
  BY <1>1, <1>3, <1>4, <1>5, <1>6 DEF RowsOK, Mapped
<1>8. Keeps(copy, new)
  BY <1>1, <1>4, <1>7 DEF Keeps, Out
<1> QED
  BY <1>1, <1>3, <1>8 DEF new, row, Marked

\* A row that waits is mapped, has text, and no other row is live.
LEMMA WaitingRow ==
    ASSUME NEW copy \in Rows, RowsOK(copy), NEW i \in DOMAIN copy.rows,
           copy.rows[i].status = "pending"
    PROVE  /\ i = copy.source /\ LiveRow(copy.rows[i])
           /\ copy.rows[i].kind = "candidate"
           /\ \A j \in DOMAIN copy.rows : LiveRow(copy.rows[j]) => j = i
<1>1. i = copy.source /\ copy.rows[i].text /\ copy.rows[i] \in Row /\ i # 0
  BY DEF RowsOK, Rows, Copy
<1> QED
  BY <1>1 DEF RowsOK, Mapped, Source, LiveRow, Row

\* A promotion, with the source mapping left or moved.
LEMMA PromotedEffect ==
    ASSUME NEW copy \in Rows, RowsOK(copy), NEW i \in DOMAIN copy.rows,
           copy.rows[i].status = "pending"
    PROVE  /\ Keeps(copy, Promoted(copy, i))
           /\ Keeps(copy, [Promoted(copy, i) EXCEPT !.source = Len(copy.rows) + 1])
<1> DEFINE old == Marked(copy, i, "promoted")
           n == Len(copy.rows) + 1
           row == [kind |-> "claim", status |-> "serving", text |-> TRUE]
           rows == Append(old.rows, row)
           new == [copy EXCEPT !.rows = rows]
           moved == [new EXCEPT !.source = n]
<1>1. /\ i = copy.source /\ LiveRow(copy.rows[i]) /\ copy.rows[i].kind = "candidate"
      /\ \A j \in DOMAIN copy.rows : LiveRow(copy.rows[j]) => j = i
  BY WaitingRow
<1>2. ~Out(copy)
  BY <1>1 DEF Out
<1>3. copy.rows[i] \in Row /\ row \in Row /\ [copy.rows[i] EXCEPT !.status = "promoted"] \in Row
  BY <1>1 DEF Rows, Copy, Row
<1>4. /\ old \in Rows /\ RowsOK(old) /\ Len(old.rows) = Len(copy.rows)
      /\ DOMAIN old.rows = DOMAIN copy.rows /\ old.source = copy.source
      /\ old.rows[i].status = "promoted" /\ old.rows[i].kind = "candidate"
      /\ \A j \in DOMAIN copy.rows \ {i} : old.rows[j] = copy.rows[j]
  <2>1. /\ Keeps(copy, old) /\ old.source = copy.source /\ Len(old.rows) = Len(copy.rows)
        /\ DOMAIN old.rows = DOMAIN copy.rows
        /\ old.rows[i].status = "promoted" /\ old.rows[i].kind = copy.rows[i].kind
        /\ \A j \in DOMAIN copy.rows \ {i} : old.rows[j] = copy.rows[j]
    BY <1>3, DecidedRow
  <2> QED
    BY <1>1, <2>1 DEF Keeps
<1> HIDE DEF old
<1>5. /\ rows \in Seq(Row) /\ Len(rows) = n /\ rows[n] = row
      /\ n \in 1..n /\ DOMAIN rows = 1..n /\ DOMAIN copy.rows = 1..(n - 1)
      /\ \A j \in DOMAIN copy.rows : rows[j] = old.rows[j]
  BY <1>3, <1>4, AddedRow, SMTT(30)
<1>6. rows # <<>>
  BY <1>5, EmptySeq
<1> HIDE DEF rows, row
<1>7. /\ new \in Copy /\ new.rows = rows /\ new.source = i
      /\ moved \in Copy /\ moved.rows = rows /\ moved.source = n
  <2>1. copy \in Copy /\ n \in Nat /\ copy.source = i
    BY <1>1 DEF Rows, Copy
  <2>2. new \in Copy /\ new.rows = rows /\ new.source = i
    BY <1>5, <2>1 DEF Copy
  <2> QED
    BY <2>1, <2>2 DEF Copy
<1> HIDE DEF new, moved
<1>8. row.status = "serving" /\ row.kind = "claim"
  BY DEF row
<1>9. /\ \A j \in 1..n : rows[j].status # "pending"
      /\ \A j \in 1..n : LiveRow(rows[j]) => j = n
  <2>1. \A j \in 1..(n - 1) : rows[j].status # "pending" /\ ~LiveRow(rows[j])
    <3>1. ASSUME NEW j \in 1..(n - 1), j # i PROVE rows[j].status # "pending" /\ ~LiveRow(rows[j])
      BY <1>1, <1>4, <1>5, <3>1, WaitingRow, SMTT(30)
    <3>2. rows[i].status # "pending" /\ ~LiveRow(rows[i])
      BY <1>4, <1>5 DEF LiveRow
    <3> QED
      BY <3>1, <3>2
  <2>2. \A j \in 1..n : j \in 1..(n - 1) \/ j = n
    BY <1>5
  <2> QED
    BY <1>5, <1>8, <2>1, <2>2
<1>10. new \in Rows /\ moved \in Rows
  BY <1>1, <1>5, <1>7 DEF Rows
<1>11. i # 0 /\ n # 0 /\ rows[i].kind = "candidate"
  BY <1>4, <1>5
<1>12. RowsOK(new)
  BY <1>5, <1>6, <1>7, <1>9, <1>11 DEF RowsOK, Mapped, Source
<1>13. RowsOK(moved)
  BY <1>5, <1>6, <1>7, <1>9, <1>11 DEF RowsOK, Mapped, Source
<1>14. Promoted(copy, i) = new
  <2>1. copy \in Copy
    BY DEF Rows
  <2> QED
    BY <2>1 DEF Promoted, NewRow, new, rows, row, old, Marked
<1> QED
  BY <1>2, <1>10, <1>12, <1>13, <1>14 DEF Keeps, moved

\* A claim in service goes out of service, and a candidate takes its place.
LEMMA DemotedEffect ==
    ASSUME NEW copy \in Rows, RowsOK(copy), Mapped(copy),
           Source(copy).kind = "claim", LiveRow(Source(copy))
    PROVE  Keeps(copy, [copy EXCEPT
                          !.rows = NewRow(Marked(copy, copy.source, "retired"), "candidate", "pending"),
                          !.source = Len(copy.rows) + 1])
<1> DEFINE i == copy.source
           old == Marked(copy, i, "retired")
           n == Len(copy.rows) + 1
           row == [kind |-> "candidate", status |-> "pending", text |-> TRUE]
           rows == Append(old.rows, row)
           new == [copy EXCEPT !.rows = rows, !.source = n]
<1>1. i \in DOMAIN copy.rows /\ copy.rows[i] \in Row /\ copy \in Copy /\ n \in Nat
  BY DEF Rows, Copy, Mapped
<1>2. /\ \A j \in DOMAIN copy.rows : LiveRow(copy.rows[j]) => j = i
      /\ \A j \in DOMAIN copy.rows : copy.rows[j].status = "pending" => j = i
  BY DEF RowsOK, Source
<1>3. row \in Row /\ [copy.rows[i] EXCEPT !.status = "retired"] \in Row /\ LiveRow(row)
  BY <1>1 DEF Row, Source, LiveRow
<1>4. /\ old \in Rows /\ Len(old.rows) = Len(copy.rows)
      /\ old.rows[i].status = "retired"
      /\ \A j \in DOMAIN copy.rows \ {i} : old.rows[j] = copy.rows[j]
  <2>1. "retired" \in {"rejected", "promoted", "retired"}
    OBVIOUS
  <2> QED
    BY <1>1, <1>3, <2>1, DecidedRow DEF Keeps
<1> HIDE DEF old
<1>5. /\ rows \in Seq(Row) /\ Len(rows) = n /\ rows[n] = row
      /\ n \in 1..n /\ DOMAIN rows = 1..n
      /\ \A j \in DOMAIN copy.rows : rows[j] = old.rows[j]
      /\ DOMAIN copy.rows = 1..(n - 1)
  <2>1. DOMAIN old.rows = DOMAIN copy.rows
    BY <1>4 DEF Rows, Copy
  <2> QED
    BY <1>3, <1>4, <2>1, AddedRow, SMTT(30)
<1>6. rows # <<>>
  BY <1>5, EmptySeq
<1> HIDE DEF rows
<1>7. new \in Copy /\ new.rows = rows /\ new.source = n
  BY <1>1, <1>5 DEF Copy
<1>8. row.status = "pending" /\ row.kind = "candidate" /\ row.text
  OBVIOUS
<1> HIDE DEF new, row
<1>9. \A j \in 1..(n - 1) : rows[j].status # "pending" /\ ~LiveRow(rows[j])
  BY <1>2, <1>4, <1>5 DEF LiveRow
<1>10. \A j \in 1..n : j \in 1..(n - 1) \/ j = n
  BY <1>5
<1>11. new \in Rows
  BY <1>5, <1>7 DEF Rows
<1>12. RowsOK(new)
  BY <1>1, <1>5, <1>6, <1>7, <1>8, <1>9, <1>10 DEF RowsOK, Mapped, Source
<1>13. ~Out(copy)
  BY <1>1 DEF Out, Source
<1> QED
  BY <1>11, <1>12, <1>13 DEF Keeps, NewRow, new, rows, row, old

\* A copy of a claim that came in, as a candidate or straight to service.
LEMMA ImportedEffect ==
    ASSUME NEW copy \in Rows, RowsOK(copy), NEW c \in Claims, NEW b, NEW body,
           body.items[c] \in Shown, NEW active
    PROVE  LET new == Imported(b, body, c, copy, active)
           IN  new \in Rows /\ RowsOK(new)
<1> DEFINE new == Imported(b, body, c, copy, active)
<1>1. CASE Mapped(copy)
  <2>1. new = Repeated(c, copy)
    BY <1>1 DEF Imported
  <2>2. new \in Copy /\ new.rows = copy.rows /\ new.source = copy.source
    BY <2>1 DEF Repeated, Rows, Copy
  <2> QED
    BY <1>1, <2>2, SameRows DEF Keeps
<1>2. CASE ~Mapped(copy)
  <2> DEFINE direct == active /\ native[c] # "serving"
             row == IF direct
                    THEN [kind |-> "claim", status |-> body.items[c], text |-> TRUE]
                    ELSE [kind |-> "candidate", status |-> "pending", text |-> TRUE]
             rows == Append(<<>>, row)
  <2>1. copy.rows = <<>> /\ copy \in Copy
    BY <1>2 DEF Mapped, RowsOK, Rows
  <2>2. row \in Row /\ row.text /\ (row.status = "pending" \/ row.kind = "claim")
    BY DEF Row, Shown
  <2>3. rows \in Seq(Row) /\ Len(rows) = 1 /\ rows[1] = row /\ DOMAIN rows = {1}
    BY <2>2
  <2>4. /\ new \in Copy /\ new.rows = rows /\ new.source = 1
    <3>1. CitesIn(b) \in {"nothing", "evidence", "note"}
      BY DEF CitesIn
    <3>2. rows = IF direct THEN NewRow(copy, "claim", body.items[c])
                 ELSE NewRow(copy, "candidate", "pending")
      BY <2>1 DEF NewRow
    <3> HIDE DEF rows
    <3> QED
      BY <1>2, <2>1, <2>3, <3>1, <3>2 DEF Imported, Copy
  <2>5. rows # <<>>
    BY <2>3
  <2> HIDE DEF rows, row, new
  <2>6. new \in Rows
    <3>1. Len(new.rows) = 1 /\ new.source = 1
      BY <2>3, <2>4
    <3>2. 1 \in 0..1
      OBVIOUS
    <3>3. new.source \in 0..Len(new.rows)
      BY <3>1, <3>2, Zenon
    <3> QED
      BY <2>4, <3>3 DEF Rows
  <2>7. RowsOK(new)
    BY <2>2, <2>3, <2>4, <2>5 DEF RowsOK, Mapped, Source
  <2> QED
    BY <2>6, <2>7 DEF new
<1> QED
  BY <1>1, <1>2

\* What notices do to the rows of one claim: they bring nothing back, and of
\* a claim they name nothing stays live.
LEMMA NoticedEffect ==
    ASSUME copies \in [Claims -> Rows], \A c \in Claims : RowsOK(copies[c]),
           NEW N, NEW c \in Claims
    PROVE  /\ Keeps(copies[c], Noticed(N)[c])
           /\ Object("claim", c) \in N => Out(Noticed(N)[c])
<1> DEFINE copy == copies[c]
           new == Noticed(N)[c]
           named == Object("claim", c) \in N /\ Mapped(copy)
           all == ScrubAll(copy)
<1>1. copy \in Rows /\ RowsOK(copy)
  OBVIOUS
<1>2. all \in Rows /\ RowsOK(all) /\ Out(all)
  BY <1>1, ScrubAllEffect
<1>3. CASE named /\ MappedCandidate(copy)
  <2>1. new = [all EXCEPT !.note = IF @ = "kept" THEN "scrubbed" ELSE @]
    BY <1>3 DEF Noticed
  <2>2. new \in Copy /\ new.rows = all.rows /\ new.source = all.source
        /\ new.conflict = all.conflict
    BY <1>2, <2>1 DEF Rows, Copy
  <2>3. Keeps(all, new)
    BY <1>2, <2>2, SameRows DEF RowsOK
  <2> QED
    BY <1>2, <2>3 DEF Keeps
<1>4. CASE ~(named /\ MappedCandidate(copy)) /\ \E e \in ScrubbedEvidence(N) : Cites(copy, e, c)
  <2>1. new = all
    BY <1>4 DEF Noticed
  <2> QED
    BY <1>2, <2>1 DEF Keeps
<1>5. CASE /\ ~(named /\ MappedCandidate(copy)) /\ named
           /\ ~\E e \in ScrubbedEvidence(N) : Cites(copy, e, c)
  <2>1. new = ScrubRow(copy, copy.source)
    BY <1>5 DEF Noticed
  <2>2. copy.source \in DOMAIN copy.rows /\ Source(copy) \in Row
    BY <1>1, <1>5 DEF Rows, Copy, Mapped, Source
  <2>3. Source(copy).kind = "claim"
    BY <1>5, <2>2 DEF MappedCandidate, Row
  <2>4. /\ new \in Rows /\ RowsOK(new)
        /\ \A j \in DOMAIN new.rows : LiveRow(new.rows[j]) =>
             j # copy.source /\ j \in DOMAIN copy.rows /\ LiveRow(copy.rows[j])
    BY <1>1, <2>1, <2>2, ScrubRowEffect
  <2>5. Out(new)
    BY <1>1, <1>5, <2>3, <2>4 DEF Out, RowsOK
  <2> QED
    BY <2>4, <2>5 DEF Keeps
<1>6. CASE ~named /\ ~\E e \in ScrubbedEvidence(N) : Cites(copy, e, c)
  <2>1. new = copy
    BY <1>6 DEF Noticed
  <2>2. Object("claim", c) \in N => copy.rows = <<>>
    BY <1>1, <1>6 DEF RowsOK, Mapped
  <2> QED
    BY <1>1, <2>1, <2>2 DEF Keeps, Out
<1> QED
  BY <1>3, <1>4, <1>5, <1>6

\* Reviews, deletions and resolutions of this site's owner bring nothing back.
LEMMA ReviewEffect ==
    ASSUME copies \in [Claims -> Rows], \A c \in Claims : RowsOK(copies[c]),
           NEW c \in Claims, Review(c)
    PROVE  \E new : Keeps(copies[c], new) /\ Touches(c, new)
<1> DEFINE copy == copies[c]
           Goal == \E new : Keeps(copy, new) /\ Touches(c, new)
<1>1. /\ copy \in Rows /\ RowsOK(copy) /\ copy \in Copy
      /\ \A i \in DOMAIN copy.rows : copy.rows[i] \in Row
  BY DEF Rows, Copy
<1>2. ASSUME NEW new, Keeps(copy, new), NEW conflict \in {"deferred", "resolved"}, Mapped(copy),
             Mapped(new)
      PROVE  Keeps(copy, [new EXCEPT !.conflict = conflict])
  <2> DEFINE last == [new EXCEPT !.conflict = conflict]
  <2>1. last \in Copy /\ last.rows = new.rows /\ last.source = new.source
    BY <1>2 DEF Keeps, Rows, Copy
  <2>2. Keeps(new, last)
    BY <1>2, <2>1, SameRows DEF Keeps
  <2> QED
    BY <1>2, <2>2 DEF Keeps
<1>3. CASE WriteNative(c) \/ RetireNative(c)
  BY <1>1, <1>3 DEF WriteNative, RetireNative, Keeps
<1>4. CASE ForgetNote(c)
  <2> DEFINE all == ScrubAll(copy)
             new == [all EXCEPT !.note = "scrubbed"]
  <2>1. all \in Rows /\ RowsOK(all) /\ Out(all)
    BY <1>1, ScrubAllEffect
  <2>2. new \in Copy /\ new.rows = all.rows /\ new.source = all.source /\ new.conflict = all.conflict
    BY <2>1 DEF Rows, Copy
  <2>3. Keeps(all, new)
    BY <2>1, <2>2, SameRows DEF RowsOK
  <2>4. Keeps(copy, new)
    BY <2>1, <2>3 DEF Keeps
  <2> QED
    BY <1>4, <2>4 DEF ForgetNote
<1>5. ASSUME NEW i \in DOMAIN copy.rows, Reject(c, i) PROVE Goal
  <2>1. [copy.rows[i] EXCEPT !.status = "rejected"] \in Row
    BY <1>1, <1>5 DEF Reject, Row
  <2>2. Keeps(copy, Marked(copy, i, "rejected"))
    BY <1>1, <2>1, DecidedRow
  <2> QED
    BY <1>5, <2>2 DEF Reject, Marked
<1>6. ASSUME NEW i \in DOMAIN copy.rows, RetireCopy(c, i) PROVE Goal
  <2>1. [copy.rows[i] EXCEPT !.status = "retired"] \in Row
    BY <1>1, <1>6 DEF RetireCopy, Row
  <2>2. Keeps(copy, Marked(copy, i, "retired"))
    BY <1>1, <2>1, DecidedRow
  <2> QED
    BY <1>6, <2>2 DEF RetireCopy, Marked
<1>7. ASSUME NEW i \in DOMAIN copy.rows, ForgetCopy(c, i) PROVE Goal
  <2>1. Keeps(copy, ScrubRow(copy, i))
    BY <1>1, ScrubRowEffect DEF Keeps, Out
  <2> QED
    BY <1>7, <2>1 DEF ForgetCopy
<1>8. ASSUME NEW i \in DOMAIN copy.rows, NEW force \in BOOLEAN, Promote(c, i, force) PROVE Goal
  BY <1>1, <1>8, PromotedEffect DEF Promote
<1>9. ASSUME Resolvable(c)
      PROVE  /\ copy.source \in DOMAIN copy.rows /\ Mapped(copy) /\ LiveRow(Source(copy))
             /\ IF MappedCandidate(copy) THEN copy.rows[copy.source].status = "pending"
                ELSE Source(copy).kind = "claim" /\ Source(copy).status = "serving"
  <2>1. Mapped(copy) /\ LiveRow(Source(copy))
    BY <1>1, <1>9 DEF Resolvable, RowsOK
  <2>2. copy.source \in DOMAIN copy.rows
    BY <1>1, <2>1 DEF Rows, Copy, Mapped
  <2> QED
    BY <1>1, <2>1, <2>2 DEF LiveRow, Source, MappedCandidate, Row
<1>10. CASE KeepLocal(c)
  <2> DEFINE status == IF MappedCandidate(copy) THEN "rejected" ELSE "retired"
             new == Marked(copy, copy.source, status)
  <2>1. Resolvable(c) /\ Touches(c, [new EXCEPT !.conflict = "resolved"])
    BY <1>10 DEF KeepLocal, Resolved, Marked
  <2>2. [copy.rows[copy.source] EXCEPT !.status = status] \in Row
    BY <1>1, <1>9, <2>1 DEF MappedCandidate, Source, Row
  <2>3. PICK decision \in {"rejected", "promoted", "retired"} : decision = status
    OBVIOUS
  <2>4. PICK i \in DOMAIN copy.rows : i = copy.source
    BY <1>9, <2>1
  <2> HIDE DEF status
  <2>5. [copy.rows[i] EXCEPT !.status = decision] \in Row
    BY <2>2, <2>3, <2>4
  <2>6. Keeps(copy, Marked(copy, i, decision))
    BY <1>1, <2>5, DecidedRow
  <2>7. Marked(copy, i, decision).source = copy.source
    BY <1>1 DEF Marked, Copy
  <2>8. Keeps(copy, new) /\ new.source = copy.source
    BY <2>3, <2>4, <2>6, <2>7
  <2> HIDE DEF new
  <2> QED
    BY <1>2, <1>9, <2>1, <2>8 DEF Mapped
<1>11. CASE AcceptRemote(c)
  <2> DEFINE new == [Promoted(copy, copy.source) EXCEPT !.source = Len(copy.rows) + 1]
  <2>1. Resolvable(c)
    BY <1>11 DEF AcceptRemote
  <2>2. CASE MappedCandidate(copy)
    <3>1. Touches(c, [new EXCEPT !.conflict = "resolved"])
      BY <1>11, <2>2 DEF AcceptRemote, Resolved
    <3>2. Keeps(copy, new)
      BY <1>1, <1>9, <2>1, <2>2, PromotedEffect
    <3>3. new.source = Len(copy.rows) + 1 /\ Len(copy.rows) \in Nat
      BY <1>1 DEF Promoted, Copy
    <3>4. Mapped(new)
      BY <3>3 DEF Mapped
    <3> HIDE DEF new
    <3> QED
      BY <1>2, <1>9, <2>1, <3>1, <3>2, <3>4
  <2>3. CASE ~MappedCandidate(copy)
    <3>1. Touches(c, [copy EXCEPT !.conflict = "resolved"])
      BY <1>11, <2>3 DEF AcceptRemote, Resolved
    <3>2. Keeps(copy, copy)
      BY <1>1 DEF Keeps
    <3> QED
      BY <1>2, <1>9, <2>1, <3>1, <3>2
  <2> QED
    BY <2>2, <2>3
<1>12. CASE DemoteRemote(c)
  <2> DEFINE new == [copy EXCEPT
                       !.rows = NewRow(Marked(copy, copy.source, "retired"), "candidate", "pending"),
                       !.source = Len(copy.rows) + 1]
  <2>1. Resolvable(c)
    BY <1>12 DEF DemoteRemote
  <2>2. CASE ~MappedCandidate(copy)
    <3>1. Touches(c, [new EXCEPT !.conflict = "resolved"])
      BY <1>12, <2>2 DEF DemoteRemote, Resolved, Marked
    <3>2. Keeps(copy, new)
      BY <1>1, <1>9, <2>1, <2>2, DemotedEffect
    <3>3. new.source = Len(copy.rows) + 1 /\ Len(copy.rows) \in Nat
      BY <1>1 DEF Copy
    <3>4. Mapped(new)
      BY <3>3 DEF Mapped
    <3> HIDE DEF new
    <3> QED
      BY <1>2, <1>9, <2>1, <3>1, <3>2, <3>4
  <2>3. CASE MappedCandidate(copy)
    <3>1. Touches(c, [copy EXCEPT !.conflict = "resolved"])
      BY <1>12, <2>3 DEF DemoteRemote, Resolved
    <3>2. Keeps(copy, copy)
      BY <1>1 DEF Keeps
    <3> QED
      BY <1>2, <1>9, <2>1, <3>1, <3>2
  <2> QED
    BY <2>2, <2>3
<1>13. CASE Defer(c)
  <2>1. Resolvable(c) /\ Touches(c, [copy EXCEPT !.conflict = "deferred"])
    BY <1>13 DEF Defer
  <2>2. Keeps(copy, copy)
    BY <1>1 DEF Keeps
  <2> QED
    BY <1>2, <1>9, <2>1, <2>2
<1> QED
  BY <1>3, <1>4, <1>5, <1>6, <1>7, <1>8, <1>10, <1>11, <1>12, <1>13 DEF Review

\* The inductive invariant of the withdrawals.
ContentTypes ==
    /\ published \in [Claims -> Shown \cup {"withheld"}]
    /\ \A f \in Files : file[f] # NoFile => content[f].items \in [Claims -> Shown \cup {"withheld"}]
    /\ DOMAIN content = Files
    /\ held \in [Evidence -> {"none", "kept", "scrubbed"}]

RowsSound ==
    /\ copies \in [Claims -> Rows]
    /\ \A c \in Claims : RowsOK(copies[c])

WithdrawnOut ==
    /\ \A c \in Claims : Object("claim", c) \in withdrawn => Out(copies[c])
    /\ \A e \in Evidence : Object("evidence", e) \in withdrawn => held[e] # "kept"

ContentInv == ContentTypes /\ RowsSound /\ WithdrawnOut

\* A step on one claim that brings nothing live into it.
LEMMA TouchEffect ==
    ASSUME ContentInv, NEW c \in Claims, NEW new, Keeps(copies[c], new), Touches(c, new)
    PROVE  ContentInv'
<1>1. /\ copies' = [copies EXCEPT ![c] = new]
      /\ UNCHANGED <<file, published, content, held, withdrawn>>
  BY DEF Touches, peerVars
<1>2. ContentTypes'
  BY <1>1 DEF ContentInv, ContentTypes
<1>3. RowsSound'
  BY <1>1 DEF ContentInv, RowsSound, Keeps
<1>4. WithdrawnOut'
  BY <1>1 DEF ContentInv, RowsSound, WithdrawnOut, Keeps
<1> QED
  BY <1>2, <1>3, <1>4 DEF ContentInv

\* An import.
LEMMA ImportEffect ==
    ASSUME ContentInv, NEW f \in Files, NEW policy \in Policies, Import(f, policy)
    PROVE  ContentInv'
<1> DEFINE b == file[f]
           body == content[f]
           N == body.notices \ withdrawn
           delivered == {e \in Evidence : /\ b.share \in WithEvidence /\ ~Gone(N, e)
                                          /\ \E c \in Claims : /\ EvidenceOf[c] = e
                                                               /\ body.items[c] # "withheld"}
<1>1. /\ file[f] # NoFile
      /\ UNCHANGED <<file, published, content>>
      /\ withdrawn' = withdrawn \cup N
      /\ held' = [e \in Evidence |->
                    IF e \in ScrubbedEvidence(N) THEN "scrubbed"
                    ELSE IF e \in delivered THEN "kept" ELSE held[e]]
      /\ copies' = [c \in Claims |->
                      LET copy == Noticed(N)[c]
                      IN  IF Offered(b, body, N, c)
                          THEN Imported(b, body, c, copy, ImportsActive(policy, c \in Projects))
                          ELSE copy]
  BY DEF Import, Receive
<1>2. ContentTypes'
  BY <1>1 DEF ContentInv, ContentTypes
<1>3. ASSUME NEW c \in Claims
      PROVE  /\ copies'[c] \in Rows /\ RowsOK(copies'[c])
             /\ Object("claim", c) \in withdrawn \cup N => Out(copies'[c])
  <2>1. /\ Keeps(copies[c], Noticed(N)[c])
        /\ Object("claim", c) \in N => Out(Noticed(N)[c])
    <3> HIDE DEF N
    <3> QED
      BY NoticedEffect DEF ContentInv, RowsSound
  <2>2. Object("claim", c) \in withdrawn => Out(Noticed(N)[c])
    BY <2>1 DEF ContentInv, WithdrawnOut, Keeps
  <2>3. CASE Offered(b, body, N, c)
    <3>1. body.items[c] \in Shown /\ Object("claim", c) \notin withdrawn \cup N
      BY <1>1, <2>3 DEF ContentInv, ContentTypes, Offered
    <3>2. copies'[c] = Imported(b, body, c, Noticed(N)[c], ImportsActive(policy, c \in Projects))
      BY <1>1, <2>3
    <3> DEFINE copy == Noticed(N)[c]
    <3>3. copy \in Rows /\ RowsOK(copy)
      BY <2>1 DEF Keeps
    <3> HIDE DEF copy, b, body, N
    <3>4. /\ Imported(b, body, c, copy, ImportsActive(policy, c \in Projects)) \in Rows
          /\ RowsOK(Imported(b, body, c, copy, ImportsActive(policy, c \in Projects)))
      BY <3>1, <3>3, ImportedEffect
    <3> QED
      BY <3>1, <3>2, <3>4 DEF copy
  <2>4. CASE ~Offered(b, body, N, c)
    <3>1. copies'[c] = Noticed(N)[c]
      BY <1>1, <2>4
    <3> HIDE DEF N
    <3> QED
      BY <2>1, <2>2, <3>1 DEF Keeps
  <2> QED
    BY <2>3, <2>4
<1>4. RowsSound'
  <2>1. copies' \in [Claims -> Rows]
    <3>1. DOMAIN copies' = Claims /\ copies' = [c \in Claims |-> copies'[c]]
      BY <1>1
    <3> QED
      BY <1>3, <3>1
  <2> QED
    BY <1>3, <2>1 DEF RowsSound
<1>5. ASSUME NEW e \in Evidence, Object("evidence", e) \in withdrawn'
      PROVE  held'[e] # "kept"
  <2>1. Object("evidence", e) \in withdrawn \cup N
    BY <1>1, <1>5
  <2>2. e \notin delivered
    BY <2>1 DEF Gone
  <2>3. e \in ScrubbedEvidence(N) \/ held[e] # "kept"
    BY <2>1 DEF ScrubbedEvidence, ContentInv, WithdrawnOut
  <2> HIDE DEF delivered, N
  <2> QED
    BY <1>1, <2>2, <2>3
<1>6. WithdrawnOut'
  BY <1>1, <1>3, <1>5 DEF WithdrawnOut
<1> QED
  BY <1>2, <1>4, <1>6 DEF ContentInv

\* No claim has a row yet.
LEMMA InitContent == Init => ContentInv
<1>1. SUFFICES ASSUME Init PROVE ContentInv
  OBVIOUS
<1>2. ContentTypes
  BY <1>1 DEF Init, PeerInit, ContentTypes, Shown
<1>3. NoCopy \in Rows /\ RowsOK(NoCopy) /\ Out(NoCopy)
  <2>1. <<>> \in Seq(Row) /\ Len(<<>>) = 0 /\ DOMAIN <<>> = {}
    OBVIOUS
  <2>2. NoCopy \in Copy
    BY <2>1 DEF NoCopy, Copy
  <2> QED
    BY <2>1, <2>2 DEF NoCopy, Rows, RowsOK, Out, Mapped
<1>4. RowsSound /\ WithdrawnOut
  BY <1>1, <1>3 DEF Init, RowsSound, WithdrawnOut
<1> QED
  BY <1>2, <1>4 DEF ContentInv

\* No step brings back what was withdrawn.
LEMMA NextContent == PeerTypeOK /\ PeerTypeOK' /\ ContentInv /\ [Next]_vars => ContentInv'
<1>1. SUFFICES ASSUME PeerTypeOK, PeerTypeOK', ContentInv, [Next]_vars PROVE ContentInv'
  OBVIOUS
<1>2. CASE Trust
  <2>1. UNCHANGED file
    BY <1>2 DEF Trust, RemoteDecision, OwnerDecision, CreateShare, RevokeShare, Lapse, RotateKey,
                AddPeer, InspectPeer, ApprovePeer, RevokePeer, RevokeAccepted, ReplacePeerKey
  <2> QED
    BY <1>1, <1>2, <2>1
       DEF Trust, importVars, ContentInv, ContentTypes, RowsSound, WithdrawnOut
<1>3. CASE Remote
  <2>1. UNCHANGED <<copies, held, withdrawn>>
    BY <1>3 DEF Remote, SetStatus, RedactClaim, RedactEvidence, ExportBundle
  <2>2. (RowsSound /\ WithdrawnOut)'
    BY <1>1, <2>1 DEF ContentInv, RowsSound, WithdrawnOut
  <2>3. ContentTypes'
    <3>1. CASE \E c \in Claims, status \in Shown \cup {"withheld"} : SetStatus(c, status)
      BY <1>1, <3>1 DEF SetStatus, peerVars, ContentInv, ContentTypes
    <3>2. CASE \E c \in Claims : RedactClaim(c)
      BY <1>1, <3>2 DEF RedactClaim, peerVars, ContentInv, ContentTypes
    <3>3. CASE \E e \in Evidence : RedactEvidence(e)
      BY <1>1, <3>3 DEF RedactEvidence, peerVars, ContentInv, ContentTypes
    <3>4. ASSUME NEW s \in Shares, NEW f \in Files, ExportBundle(s, f) PROVE ContentTypes'
      <4> DEFINE items == published
                 notices == Notices(s)
                 body == [items |-> items, notices |-> notices]
      <4>1. /\ content' = [content EXCEPT ![f] = body]
            /\ file' = [file EXCEPT ![f] = [share |-> s, key |-> key]]
            /\ UNCHANGED <<published, held>>
        BY <3>4 DEF ExportBundle, Export
      <4>2. /\ \A g \in Files \ {f} : file'[g] = file[g] /\ content'[g] = content[g]
            /\ content'[f] = body
        BY <1>1, <4>1 DEF PeerTypeOK, ContentInv, ContentTypes
      <4> QED
        BY <1>1, <4>1, <4>2 DEF ContentInv, ContentTypes
    <3> QED
      BY <1>3, <3>1, <3>2, <3>3, <3>4 DEF Remote
  <2> QED
    BY <2>2, <2>3 DEF ContentInv
<1>4. ASSUME NEW f \in Files, NEW policy \in Policies, Import(f, policy) PROVE ContentInv'
  BY <1>1, <1>4, ImportEffect
<1>5. ASSUME NEW c \in Claims, Review(c) PROVE ContentInv'
  <2>1. PICK new : Keeps(copies[c], new) /\ Touches(c, new)
    BY <1>1, <1>5, ReviewEffect DEF ContentInv, RowsSound
  <2> QED
    BY <1>1, <2>1, TouchEffect
<1>6. ASSUME NEW e \in Evidence, ForgetEvidence(e) PROVE ContentInv'
  <2>1. /\ held' = [held EXCEPT ![e] = "scrubbed"]
        /\ copies' = [c \in Claims |->
                        IF Cites(copies[c], e, c) THEN ScrubAll(copies[c]) ELSE copies[c]]
        /\ UNCHANGED <<file, published, content, withdrawn>>
    BY <1>6 DEF ForgetEvidence, peerVars
  <2>2. ASSUME NEW c \in Claims PROVE Keeps(copies[c], copies'[c])
    BY <1>1, <2>1, ScrubAllEffect DEF ContentInv, RowsSound, Keeps
  <2>3. copies' \in [Claims -> Rows]
    <3>1. copies' = [c \in Claims |-> copies'[c]]
      BY <2>1
    <3> QED
      BY <2>2, <3>1 DEF Keeps
  <2>4. RowsSound' /\ WithdrawnOut'
    BY <1>1, <2>1, <2>2, <2>3 DEF ContentInv, RowsSound, WithdrawnOut, Keeps, ContentTypes
  <2>5. ContentTypes'
    BY <1>1, <2>1 DEF ContentInv, ContentTypes
  <2> QED
    BY <2>4, <2>5 DEF ContentInv
<1>7. CASE UNCHANGED vars
  BY <1>1, <1>7 DEF vars, peerVars, importVars, ContentInv, ContentTypes, RowsSound, WithdrawnOut
<1> QED
  <2>1. CASE \E f \in Files, policy \in Policies :
               Import(f, policy) \/ \E s \in Shares : Sync(s, f, policy)
    BY <1>4, <2>1, SyncImports
  <2> QED
    BY <1>1, <1>2, <1>3, <1>5, <1>6, <1>7, <2>1 DEF Next

\* The invariant in every reachable state, with the types of Peers.
THEOREM ContentInvariant == Spec => [](PeerTypeOK /\ ContentInv)
BY InitContent, NextContent, ImportsImplementPeers, PeerTypes, PTL DEF Spec

\* What was withdrawn stays out of memory: after a notice of a deletion was
\* applied, no row made of the claim waits for review or serves, and the
\* evidence is not kept, whatever bundles are imported later and however the
\* rows had been promoted, resolved or deleted.
THEOREM Withdrawals == Spec => []WithdrawnStaysOut
<1>1. ContentInv => WithdrawnStaysOut
  BY DEF ContentInv, WithdrawnOut, Out, WithdrawnStaysOut
<1> QED
  BY <1>1, ContentInvariant, PTL

-----------------------------------------------------------------------------
(* What an import leaves alone.                                            *)

\* The rows of old are still there in new, as they were or scrubbed, and of
\* the same origin.
SameOrScrubbed(old, new) ==
    /\ Len(new.rows) = Len(old.rows) /\ new.source = old.source
    /\ \A i \in DOMAIN old.rows : new.rows[i] \in {old.rows[i], Scrubbed(old.rows[i])}
    /\ new.conflict = old.conflict /\ new.cites = old.cites

\* Notices add no row, decide none anew and move no source mapping.
LEMMA NoticedRows ==
    ASSUME copies \in [Claims -> Rows], \A c \in Claims : RowsOK(copies[c]),
           NEW N, NEW c \in Claims
    PROVE  SameOrScrubbed(copies[c], Noticed(N)[c])
<1> DEFINE copy == copies[c]
           new == Noticed(N)[c]
           named == Object("claim", c) \in N /\ Mapped(copy)
           all == ScrubAll(copy)
<1>1. copy \in Rows /\ RowsOK(copy) /\ copy \in Copy
  BY DEF Rows
<1>2. SameOrScrubbed(copy, all) /\ all \in Copy
  <2>1. /\ all \in Copy /\ all.source = copy.source /\ Len(all.rows) = Len(copy.rows)
        /\ \A i \in DOMAIN copy.rows : all.rows[i] = Scrubbed(copy.rows[i])
    BY <1>1, ScrubAllEffect DEF Rows
  <2>2. all.conflict = copy.conflict /\ all.cites = copy.cites
    BY <1>1 DEF ScrubAll, Copy
  <2> QED
    BY <2>1, <2>2 DEF SameOrScrubbed
<1>3. CASE named /\ MappedCandidate(copy)
  <2>1. new = [all EXCEPT !.note = IF @ = "kept" THEN "scrubbed" ELSE @]
    BY <1>3 DEF Noticed
  <2>2. /\ new.rows = all.rows /\ new.source = all.source
        /\ new.conflict = all.conflict /\ new.cites = all.cites
    BY <1>2, <2>1 DEF Copy
  <2> HIDE DEF all
  <2> QED
    BY <1>2, <2>2 DEF SameOrScrubbed
<1>4. CASE ~(named /\ MappedCandidate(copy)) /\ \E e \in ScrubbedEvidence(N) : Cites(copy, e, c)
  BY <1>2, <1>4 DEF Noticed
<1>5. CASE /\ ~(named /\ MappedCandidate(copy)) /\ named
           /\ ~\E e \in ScrubbedEvidence(N) : Cites(copy, e, c)
  <2>1. new = ScrubRow(copy, copy.source)
    BY <1>5 DEF Noticed
  <2>2. copy.source \in DOMAIN copy.rows /\ copy.rows[copy.source] \in Row
    BY <1>1, <1>5 DEF Rows, Copy, Mapped
  <2>3. /\ new.source = copy.source /\ Len(new.rows) = Len(copy.rows)
        /\ new.rows[copy.source] = Scrubbed(copy.rows[copy.source])
        /\ \A j \in DOMAIN copy.rows \ {copy.source} : new.rows[j] = copy.rows[j]
    BY <1>1, <2>1, <2>2, ScrubbedRow, ReplacedRow DEF ScrubRow
  <2>4. new.conflict = copy.conflict /\ new.cites = copy.cites
    BY <1>1, <2>1 DEF ScrubRow, Copy
  <2> HIDE DEF new, copy
  <2>5. SameOrScrubbed(copy, new)
    BY <2>3, <2>4 DEF SameOrScrubbed
  <2> QED
    BY <2>5 DEF new, copy
<1>6. CASE ~named /\ ~\E e \in ScrubbedEvidence(N) : Cites(copy, e, c)
  BY <1>6 DEF Noticed, SameOrScrubbed
<1> QED
  BY <1>3, <1>4, <1>5, <1>6

\* A claim that has rows gets no other by an import; one that has none and
\* contradicts a native claim waits for review, and the conflict is on record.
LEMMA ImportedRows ==
    ASSUME NEW copy \in Rows, RowsOK(copy), NEW c \in Claims, NEW b, NEW body, NEW active
    PROVE  LET new == Imported(b, body, c, copy, active)
           IN  IF copy.rows # <<>>
               THEN /\ new.rows = copy.rows /\ new.source = copy.source
                    /\ new.cites = copy.cites
                    /\ copy.conflict # "none" => new.conflict = copy.conflict
               ELSE native[c] = "serving" =>
                      new.rows[1].kind = "candidate" /\ new.conflict = "unresolved"
<1> DEFINE new == Imported(b, body, c, copy, active)
<1>1. copy \in Copy /\ (Mapped(copy) <=> copy.rows # <<>>)
  BY DEF Rows, RowsOK, Mapped
<1>2. CASE copy.rows # <<>>
  <2>1. new = Repeated(c, copy)
    BY <1>1, <1>2 DEF Imported
  <2> QED
    BY <1>1, <1>2, <2>1 DEF Repeated, Copy
<1>3. CASE copy.rows = <<>> /\ native[c] = "serving"
  <2>1. new.rows = NewRow(copy, "candidate", "pending") /\ new.conflict = "unresolved"
    BY <1>1, <1>3 DEF Imported, Copy
  <2>2. NewRow(copy, "candidate", "pending")[1].kind = "candidate"
    BY <1>3 DEF NewRow
  <2> QED
    BY <1>3, <2>1, <2>2
<1> QED
  BY <1>2, <1>3

\* What the owner put out of service or deleted comes back by no import, a
\* claim gets no second row, and next to a native claim nothing comes into
\* service without a conflict on record, whatever is in the bundle and
\* whatever the policies of the import (federation.py _import_claim,
\* _apply_remote_tombstone).
THEOREM NothingOverwritten == Spec => ImportsOverwriteNothing
<1> DEFINE Overwrites ==
             (\E f \in Files, policy \in Policies : Import(f, policy)) =>
               \A c \in Claims :
                  LET old == copies[c]
                      new == copies'[c]
                  IN  /\ native'[c] = native[c]
                      /\ old.rows # <<>> =>
                           /\ Len(new.rows) = Len(old.rows) /\ new.source = old.source
                           /\ \A i \in DOMAIN old.rows : new.rows[i] \in {old.rows[i], Scrubbed(old.rows[i])}
                           /\ old.conflict # "none" => new.conflict = old.conflict
                      /\ old.rows = <<>> /\ new.rows # <<>> /\ native[c] = "serving" =>
                           new.rows[1].kind = "candidate" /\ new.conflict = "unresolved"
<1>1. ContentInv => Overwrites
  <2>1. SUFFICES ASSUME ContentInv, NEW f \in Files, NEW policy \in Policies, Import(f, policy),
                        NEW c \in Claims
                 PROVE  LET old == copies[c]
                            new == copies'[c]
                        IN  /\ native'[c] = native[c]
                            /\ old.rows # <<>> =>
                                 /\ Len(new.rows) = Len(old.rows) /\ new.source = old.source
                                 /\ \A i \in DOMAIN old.rows : new.rows[i] \in {old.rows[i], Scrubbed(old.rows[i])}
                                 /\ old.conflict # "none" => new.conflict = old.conflict
                            /\ old.rows = <<>> /\ new.rows # <<>> /\ native[c] = "serving" =>
                                 new.rows[1].kind = "candidate" /\ new.conflict = "unresolved"
    OBVIOUS
  <2> DEFINE b == file[f]
             body == content[f]
             N == body.notices \ withdrawn
             active == ImportsActive(policy, c \in Projects)
  <2>2. native' = native /\ copies'[c] = IF Offered(b, body, N, c)
                                         THEN Imported(b, body, c, Noticed(N)[c], active)
                                         ELSE Noticed(N)[c]
    BY <2>1 DEF Import
  <2> HIDE DEF b, body, N, active
  <2>3. SameOrScrubbed(copies[c], Noticed(N)[c]) /\ copies[c] \in Rows
    BY <2>1, NoticedRows DEF ContentInv, RowsSound
  <2>4. PICK copy : copy = Noticed(N)[c]
    OBVIOUS
  <2>5. copy \in Rows /\ RowsOK(copy)
    BY <2>1, <2>4, NoticedEffect DEF ContentInv, RowsSound, Keeps
  <2>6. copy.rows = <<>> <=> copies[c].rows = <<>>
    <3>1. copy.rows \in Seq(Row) /\ copies[c].rows \in Seq(Row) /\ Len(copy.rows) = Len(copies[c].rows)
      BY <2>3, <2>4, <2>5 DEF SameOrScrubbed, Rows, Copy
    <3> QED
      BY <3>1, EmptySeq
  <2>7. CASE Offered(b, body, N, c)
    <3>1. PICK new : new = Imported(b, body, c, copy, active)
      OBVIOUS
    <3>2. /\ copy.rows # <<>> =>
               /\ new.rows = copy.rows /\ new.source = copy.source
               /\ copy.conflict # "none" => new.conflict = copy.conflict
          /\ copy.rows = <<>> /\ native[c] = "serving" =>
               new.rows[1].kind = "candidate" /\ new.conflict = "unresolved"
      BY <2>5, <3>1, ImportedRows
    <3>3. copies'[c] = new
      BY <2>2, <2>4, <2>7, <3>1
    <3> QED
      BY <2>2, <2>3, <2>4, <2>6, <3>2, <3>3 DEF SameOrScrubbed
  <2>8. CASE ~Offered(b, body, N, c)
    BY <2>2, <2>3, <2>4, <2>6, <2>8 DEF SameOrScrubbed
  <2> QED
    BY <2>7, <2>8
<1> HIDE DEF Overwrites
<1>2. ContentInv => [Overwrites]_vars
  BY <1>1
<1>3. Spec => [][Overwrites]_vars
  BY <1>2, ContentInvariant, PTL
<1> QED
  BY <1>3 DEF Overwrites, ImportsOverwriteNothing


-----------------------------------------------------------------------------
(* Deletions reach every copy.                                             *)
(*                                                                         *)
(* A share goes on to announce what it has disclosed.  So it is enough     *)
(* that whatever is in a bundle, and whatever came in by one, was          *)
(* disclosed by some share; no step takes that back.                       *)

Disclosed(o) == \E s \in Shares : o \in disclosed[s]

BundlesDisclosed ==
    \A f \in Files :
        /\ file[f] = NoFile => content[f] = NothingSent
        /\ file[f] # NoFile => Shows(file[f].share, content[f].items) \subseteq disclosed[file[f].share]

ArrivalsDisclosed ==
    /\ \A c \in Claims :
         /\ Mapped(copies[c]) => Disclosed(Object("claim", c))
         /\ copies[c].cites = "evidence" => Disclosed(Object("evidence", EvidenceOf[c]))
    /\ \A e \in Evidence : held[e] # "none" => Disclosed(Object("evidence", e))

DisclosureInv == BundlesDisclosed /\ ArrivalsDisclosed

\* A change of a copy that neither makes it known nor gives it evidence.
SameOrigin(old, new) ==
    /\ Mapped(new) => Mapped(old)
    /\ new.cites = old.cites

\* Reviews, deletions and resolutions here know no more of the remote.
LEMMA ReviewOrigin ==
    ASSUME copies \in [Claims -> Rows], \A c \in Claims : RowsOK(copies[c]),
           NEW c \in Claims, Review(c)
    PROVE  \E new : SameOrigin(copies[c], new) /\ Touches(c, new)
<1> DEFINE copy == copies[c]
           Goal == \E new : SameOrigin(copy, new) /\ Touches(c, new)
<1>1. copy \in Copy /\ RowsOK(copy)
  BY DEF Rows
<1>2. CASE WriteNative(c) \/ RetireNative(c)
  BY <1>2 DEF WriteNative, RetireNative, SameOrigin
<1>3. CASE ForgetNote(c)
  <2>1. SameOrigin(copy, [ScrubAll(copy) EXCEPT !.note = "scrubbed"])
    BY <1>1 DEF SameOrigin, ScrubAll, Mapped, Copy
  <2> QED
    BY <1>3, <2>1 DEF ForgetNote
<1>4. ASSUME NEW i \in DOMAIN copy.rows, Reject(c, i) \/ RetireCopy(c, i) \/ ForgetCopy(c, i)
      PROVE  Goal
  <2>1. /\ \A status : SameOrigin(copy, [copy EXCEPT !.rows[i].status = status])
        /\ SameOrigin(copy, ScrubRow(copy, i))
    BY <1>1 DEF SameOrigin, ScrubRow, Mapped, Copy
  <2> QED
    BY <1>4, <2>1 DEF Reject, RetireCopy, ForgetCopy
<1>5. \A i : SameOrigin(copy, Promoted(copy, i)) /\ Promoted(copy, i).cites = copy.cites
  BY <1>1 DEF SameOrigin, Promoted, Mapped, Copy
<1>6. ASSUME NEW i \in DOMAIN copy.rows, NEW force \in BOOLEAN, Promote(c, i, force)
      PROVE  Goal
  BY <1>5, <1>6 DEF Promote
<1>7. ASSUME Resolvable(c) PROVE \A new : new.cites = copy.cites => SameOrigin(copy, new)
  BY <1>1, <1>7 DEF Resolvable, RowsOK, SameOrigin
<1>8. CASE KeepLocal(c)
  <2>1. PICK new : /\ new = Resolved([copy EXCEPT !.rows[copy.source].status =
                                        IF MappedCandidate(copy) THEN "rejected" ELSE "retired"])
                   /\ Touches(c, new)
    BY <1>8 DEF KeepLocal
  <2>2. new.cites = copy.cites
    BY <1>1, <2>1 DEF Resolved, Copy
  <2> QED
    BY <1>7, <1>8, <2>1, <2>2 DEF KeepLocal
<1>9. CASE AcceptRemote(c)
  <2>1. PICK new : /\ new = Resolved(IF MappedCandidate(copy)
                                     THEN [Promoted(copy, copy.source) EXCEPT !.source = Len(copy.rows) + 1]
                                     ELSE copy)
                   /\ Touches(c, new)
    BY <1>9 DEF AcceptRemote
  <2>2. new.cites = copy.cites
    BY <1>1, <2>1 DEF Resolved, Promoted, Copy
  <2> QED
    BY <1>7, <1>9, <2>1, <2>2 DEF AcceptRemote
<1>10. CASE DemoteRemote(c)
  <2>1. PICK new : /\ new = Resolved(IF MappedCandidate(copy) THEN copy
                               ELSE [copy EXCEPT
                                       !.rows = NewRow([copy EXCEPT !.rows[copy.source].status = "retired"],
                                                       "candidate", "pending"),
                                       !.source = Len(copy.rows) + 1])
                   /\ Touches(c, new)
    BY <1>10 DEF DemoteRemote
  <2>2. new.cites = copy.cites
    BY <1>1, <2>1 DEF Resolved, Copy
  <2> QED
    BY <1>7, <1>10, <2>1, <2>2 DEF DemoteRemote
<1>11. CASE Defer(c)
  <2>1. [copy EXCEPT !.conflict = "deferred"].cites = copy.cites
    BY <1>1 DEF Copy
  <2> QED
    BY <1>7, <1>11, <2>1 DEF Defer
<1> QED
  BY <1>2, <1>3, <1>4, <1>6, <1>8, <1>9, <1>10, <1>11 DEF Review

\* Steps that disclose nothing and put nothing into a file.
LEMMA OriginsKept ==
    ASSUME DisclosureInv, UNCHANGED <<file, content, disclosed, held>>,
           \A c \in Claims : SameOrigin(copies[c], copies'[c])
    PROVE  DisclosureInv'
<1>1. BundlesDisclosed'
  BY DEF DisclosureInv, BundlesDisclosed, Shows
<1>2. ArrivalsDisclosed'
  BY DEF DisclosureInv, ArrivalsDisclosed, Disclosed, SameOrigin
<1> QED
  BY <1>1, <1>2 DEF DisclosureInv

\* A bundle shows what its share has disclosed with it, and nothing that was
\* disclosed before is taken back.
LEMMA ExportDiscloses ==
    ASSUME PeerTypeOK, disclosed \in [Shares -> SUBSET Objects], DOMAIN content = Files,
           DisclosureInv, NEW s \in Shares, NEW f \in Files, ExportBundle(s, f)
    PROVE  DisclosureInv'
<1> DEFINE bundle == [share |-> s, key |-> key]
           notices == Notices(s)
           body == [items |-> published, notices |-> notices]
           shown == Shows(s, published)
<1>1. /\ file' = [file EXCEPT ![f] = bundle]
      /\ content' = [content EXCEPT ![f] = body]
      /\ disclosed' = [disclosed EXCEPT ![s] = @ \cup shown]
      /\ UNCHANGED <<copies, held>>
  BY DEF ExportBundle, Export
<1>2. \A t \in Shares : disclosed[t] \subseteq disclosed'[t]
  BY <1>1
<1>3. bundle # NoFile /\ bundle.share = s
  BY PeersAssumption DEF PeerTypeOK, Keys
<1>4. body.items = published
  OBVIOUS
<1>5. shown \subseteq disclosed'[s]
  <2> HIDE DEF shown
  <2> QED BY <1>1
<1>6. \A g \in Files : IF g = f THEN file'[g] = bundle /\ content'[g] = body
                       ELSE file'[g] = file[g] /\ content'[g] = content[g]
  BY <1>1 DEF PeerTypeOK
<1>7. \A g \in Files : file[g] # NoFile => file[g].share \in Shares
  BY DEF PeerTypeOK, Signed
<1>8. BundlesDisclosed'
  <2>1. SUFFICES ASSUME NEW g \in Files
                 PROVE  /\ file'[g] = NoFile => content'[g] = NothingSent
                        /\ file'[g] # NoFile =>
                             Shows(file'[g].share, content'[g].items) \subseteq disclosed'[file'[g].share]
    BY DEF BundlesDisclosed, Shows
  <2>2. CASE g = f
    <3> HIDE DEF bundle, body
    <3> QED BY <1>3, <1>4, <1>5, <1>6, <2>2
  <2>3. CASE g # f
    <3>1. file'[g] = file[g] /\ content'[g] = content[g]
      BY <1>6, <2>3
    <3>2. file[g] # NoFile => Shows(file[g].share, content[g].items) \subseteq disclosed[file[g].share]
      BY DEF DisclosureInv, BundlesDisclosed
    <3>3. file[g] = NoFile => content[g] = NothingSent
      BY DEF DisclosureInv, BundlesDisclosed
    <3> QED
      BY <1>2, <1>7, <3>1, <3>2, <3>3
  <2> QED BY <2>2, <2>3
<1>9. ArrivalsDisclosed'
  <2>1. \A o : Disclosed(o) => Disclosed(o)'
    BY <1>2 DEF Disclosed
  <2> QED
    BY <1>1, <2>1 DEF DisclosureInv, ArrivalsDisclosed
<1> QED
  BY <1>8, <1>9 DEF DisclosureInv

\* What an import brings in was shown by its bundle, so disclosed by its share.
LEMMA ImportDisclosed ==
    ASSUME PeerTypeOK, ContentInv, DisclosureInv,
           NEW f \in Files, NEW policy \in Policies, Import(f, policy)
    PROVE  DisclosureInv'
<1> DEFINE b == file[f]
           body == content[f]
           N == body.notices \ withdrawn
           delivered == {e \in Evidence : /\ b.share \in WithEvidence /\ ~Gone(N, e)
                                          /\ \E c \in Claims : /\ EvidenceOf[c] = e
                                                               /\ body.items[c] # "withheld"}
<1>1. /\ file[f] # NoFile
      /\ UNCHANGED <<file, content, disclosed>>
      /\ held' = [e \in Evidence |->
                    IF e \in ScrubbedEvidence(N) THEN "scrubbed"
                    ELSE IF e \in delivered THEN "kept" ELSE held[e]]
      /\ copies' = [c \in Claims |->
                      LET copy == Noticed(N)[c]
                      IN  IF Offered(b, body, N, c)
                          THEN Imported(b, body, c, copy, ImportsActive(policy, c \in Projects))
                          ELSE copy]
  BY DEF Import, Receive
<1>2. b.share \in Shares /\ Shows(b.share, body.items) \subseteq disclosed[b.share]
  BY <1>1 DEF PeerTypeOK, Signed, DisclosureInv, BundlesDisclosed
<1>3. ASSUME NEW c \in Claims, body.items[c] # "withheld"
      PROVE  /\ Disclosed(Object("claim", c))
             /\ b.share \in WithEvidence => Disclosed(Object("evidence", EvidenceOf[c]))
  <2>1. /\ Object("claim", c) \in Shows(b.share, body.items)
        /\ b.share \in WithEvidence => Object("evidence", EvidenceOf[c]) \in Shows(b.share, body.items)
    BY <1>3 DEF Shows, Object
  <2> HIDE DEF b, body
  <2> QED
    BY <1>2, <2>1 DEF Disclosed
<1>4. \A e \in ScrubbedEvidence(N) : Disclosed(Object("evidence", e))
  BY DEF ScrubbedEvidence, Cites, DisclosureInv, ArrivalsDisclosed
<1>5. \A e \in delivered : Disclosed(Object("evidence", e))
  BY <1>3
<1>6. ASSUME NEW e \in Evidence, held'[e] # "none" PROVE Disclosed(Object("evidence", e))
  <2> HIDE DEF N, delivered
  <2> QED
    BY <1>1, <1>4, <1>5, <1>6 DEF DisclosureInv, ArrivalsDisclosed
<1>7. ASSUME NEW c \in Claims
      PROVE  /\ Mapped(copies'[c]) => Disclosed(Object("claim", c))
             /\ copies'[c].cites = "evidence" => Disclosed(Object("evidence", EvidenceOf[c]))
  <2>1. PICK copy : copy = Noticed(N)[c]
    OBVIOUS
  <2>2. PICK new : new = Imported(b, body, c, copy, ImportsActive(policy, c \in Projects))
    OBVIOUS
  <2>3. copies'[c] = IF Offered(b, body, N, c) THEN new ELSE copy
    BY <1>1, <2>1, <2>2
  <2>4. copy \in Rows /\ RowsOK(copy) /\ SameOrScrubbed(copies[c], copy)
    <3> HIDE DEF N
    <3> QED
      BY <2>1, NoticedEffect, NoticedRows DEF ContentInv, RowsSound, Keeps
  <2>5. /\ Mapped(copy) => Disclosed(Object("claim", c))
        /\ copy.cites = "evidence" => Disclosed(Object("evidence", EvidenceOf[c]))
    BY <2>4 DEF SameOrScrubbed, Mapped, DisclosureInv, ArrivalsDisclosed
  <2>6. CASE Offered(b, body, N, c)
    <3>1. body.items[c] # "withheld"
      BY <2>6 DEF Offered
    <3>2. CASE Mapped(copy)
      <4>1. new.cites = copy.cites
        BY <2>2, <2>4, <3>2 DEF Imported, Repeated, Rows, Copy
      <4> QED
        BY <2>3, <2>5, <2>6, <3>2, <4>1
    <3>3. CASE ~Mapped(copy)
      <4>1. new.cites = CitesIn(b)
        BY <2>2, <2>4, <3>3 DEF Imported, Rows, Copy
      <4> HIDE DEF b, body, N
      <4> QED
        BY <1>3, <2>3, <2>6, <3>1, <4>1 DEF CitesIn
    <3> QED
      BY <3>2, <3>3
  <2>7. CASE ~Offered(b, body, N, c)
    BY <2>3, <2>5, <2>7
  <2> QED
    BY <2>6, <2>7
<1>8. BundlesDisclosed'
  BY <1>1 DEF DisclosureInv, BundlesDisclosed, Shows
<1>9. ArrivalsDisclosed'
  <2>1. \A o : Disclosed(o) => Disclosed(o)'
    BY <1>1 DEF Disclosed
  <2> QED
    BY <1>6, <1>7, <2>1 DEF ArrivalsDisclosed
<1> QED
  BY <1>8, <1>9 DEF DisclosureInv


\* What shares disclose are objects.
LEMMA ShownObjects ==
    ASSUME NEW s \in Shares, NEW items
    PROVE  Shows(s, items) \subseteq Objects
BY ImportsAssumption DEF Shows, Objects

Disclosures == disclosed \in [Shares -> SUBSET Objects]

\* Only exports change what shares have disclosed.
LEMMA NextDisclosures == Disclosures /\ [Next]_vars => Disclosures'
<1>1. SUFFICES ASSUME Disclosures, [Next]_vars PROVE Disclosures'
  OBVIOUS
<1>2. ASSUME NEW s \in Shares, NEW f \in Files, ExportBundle(s, f) PROVE Disclosures'
  <2> DEFINE shown == Shows(s, published)
  <2>1. disclosed' = [disclosed EXCEPT ![s] = @ \cup shown] /\ shown \subseteq Objects
    BY <1>2, ShownObjects DEF ExportBundle
  <2> HIDE DEF shown
  <2> QED
    BY <1>1, <2>1 DEF Disclosures
<1>3. ASSUME UNCHANGED disclosed PROVE Disclosures'
  BY <1>1, <1>3 DEF Disclosures
<1>4. CASE Trust
  BY <1>3, <1>4 DEF Trust, importVars
<1>5. CASE Remote
  BY <1>2, <1>3, <1>5 DEF Remote, SetStatus, RedactClaim, RedactEvidence
<1>6. CASE \E f \in Files, policy \in Policies : Import(f, policy) \/ \E s \in Shares : Sync(s, f, policy)
  BY <1>3, <1>6, SyncImports DEF Import
<1>7. ASSUME NEW c \in Claims, Review(c) PROVE Disclosures'
  <2>1. UNCHANGED disclosed
    BY <1>7 DEF Review, Touches, WriteNative, RetireNative, ForgetNote, Reject, RetireCopy, ForgetCopy,
                Promote, KeepLocal, AcceptRemote, DemoteRemote, Defer
  <2> QED
    BY <1>3, <2>1
<1>8. CASE \E e \in Evidence : ForgetEvidence(e)
  BY <1>3, <1>8 DEF ForgetEvidence
<1>9. CASE UNCHANGED vars
  BY <1>3, <1>9 DEF vars, importVars
<1> QED
  BY <1>1, <1>4, <1>5, <1>6, <1>7, <1>8, <1>9 DEF Next

\* Every step keeps track of what was disclosed.
LEMMA NextDisclosure ==
    PeerTypeOK /\ ContentInv /\ Disclosures /\ DisclosureInv /\ [Next]_vars => DisclosureInv'
<1>1. SUFFICES ASSUME PeerTypeOK, ContentInv, Disclosures, DisclosureInv, [Next]_vars
               PROVE  DisclosureInv'
  OBVIOUS
<1>2. \A c \in Claims : SameOrigin(copies[c], copies[c])
  BY DEF SameOrigin
<1>3. CASE Trust
  <2>1. UNCHANGED file
    BY <1>3 DEF Trust, RemoteDecision, OwnerDecision, CreateShare, RevokeShare, Lapse, RotateKey,
                AddPeer, InspectPeer, ApprovePeer, RevokePeer, RevokeAccepted, ReplacePeerKey
  <2> QED
    BY <1>1, <1>2, <1>3, <2>1, OriginsKept DEF Trust, importVars
<1>4. CASE Remote
  <2>1. ASSUME NEW s \in Shares, NEW f \in Files, ExportBundle(s, f) PROVE DisclosureInv'
    BY <1>1, <2>1, ExportDiscloses DEF Disclosures, ContentInv, ContentTypes
  <2>2. CASE \/ \E c \in Claims, status \in Shown \cup {"withheld"} : SetStatus(c, status)
             \/ \E c \in Claims : RedactClaim(c)
             \/ \E e \in Evidence : RedactEvidence(e)
    <3>1. UNCHANGED <<file, content, disclosed, held, copies>>
      BY <2>2 DEF SetStatus, RedactClaim, RedactEvidence, peerVars
    <3> QED
      BY <1>1, <1>2, <3>1, OriginsKept
  <2> QED
    BY <1>4, <2>1, <2>2 DEF Remote
<1>5. CASE \E f \in Files, policy \in Policies : Import(f, policy) \/ \E s \in Shares : Sync(s, f, policy)
  BY <1>1, <1>5, SyncImports, ImportDisclosed
<1>6. ASSUME NEW c \in Claims, Review(c) PROVE DisclosureInv'
  <2>1. PICK new : SameOrigin(copies[c], new) /\ Touches(c, new)
    BY <1>1, <1>6, ReviewOrigin DEF ContentInv, RowsSound
  <2>2. /\ UNCHANGED <<file, content, disclosed, held>>
        /\ copies' = [copies EXCEPT ![c] = new]
    BY <2>1 DEF Touches, peerVars
  <2>3. \A d \in Claims : SameOrigin(copies[d], copies'[d])
    BY <1>1, <1>2, <2>1, <2>2 DEF ContentInv, RowsSound
  <2> QED
    BY <1>1, <2>2, <2>3, OriginsKept
<1>7. ASSUME NEW e \in Evidence, ForgetEvidence(e) PROVE DisclosureInv'
  <2>1. /\ held' = [held EXCEPT ![e] = "scrubbed"] /\ held[e] = "kept"
        /\ copies' = [c \in Claims |->
                        IF Cites(copies[c], e, c) THEN ScrubAll(copies[c]) ELSE copies[c]]
        /\ UNCHANGED <<file, content, disclosed>>
    BY <1>7 DEF ForgetEvidence, peerVars
  <2>2. ASSUME NEW c \in Claims PROVE SameOrigin(copies[c], copies'[c])
    <3>1. copies[c] \in Copy
      BY <1>1 DEF ContentInv, RowsSound, Rows
    <3>2. SameOrigin(copies[c], ScrubAll(copies[c]))
      BY <3>1 DEF SameOrigin, ScrubAll, Mapped, Copy
    <3> QED
      BY <1>2, <2>1, <3>2
  <2>3. BundlesDisclosed'
    BY <1>1, <2>1 DEF DisclosureInv, BundlesDisclosed, Shows
  <2>4. \A d \in Evidence : held'[d] # "none" => held[d] # "none"
    BY <1>1, <2>1 DEF ContentInv, ContentTypes
  <2>5. ArrivalsDisclosed'
    BY <1>1, <2>1, <2>2, <2>4 DEF DisclosureInv, ArrivalsDisclosed, Disclosed, SameOrigin
  <2> QED
    BY <2>3, <2>5 DEF DisclosureInv
<1>8. CASE UNCHANGED vars
  BY <1>1, <1>2, <1>8, OriginsKept DEF vars, peerVars, importVars
<1> QED
  BY <1>1, <1>3, <1>4, <1>5, <1>6, <1>7, <1>8 DEF Next

\* What the remote has deleted and is in a bundle of a share that receives
\* redactions, or came in and was disclosed under such shares only, is announced
\* by the next bundle of one of them, though the share shows nothing of it any
\* more (federation.py _exportable_tombstones, _record_changeset).
THEOREM DeletionsAnnounced == Spec => []DeletionsStayAnnounced
<1>1. Init => Disclosures /\ DisclosureInv
  BY DEF Init, PeerInit, Disclosures, DisclosureInv, BundlesDisclosed, ArrivalsDisclosed, NoCopy, Mapped
<1>2. PeerTypeOK /\ DisclosureInv => DeletionsStayAnnounced
  <2>1. SUFFICES ASSUME PeerTypeOK, DisclosureInv, NEW o \in deleted
                 PROVE  /\ \A f \in Files :
                             content[f] # NothingSent /\ o \in Shows(file[f].share, content[f].items) =>
                               (file[f].share \in WithRedactions => o \in Notices(file[f].share))
                        /\ o \in Arrived /\ {s \in Shares : o \in disclosed[s]} \subseteq WithRedactions
                             => \E s \in Shares : o \in Notices(s)
    BY DEF DeletionsStayAnnounced
  <2>2. ASSUME NEW f \in Files, content[f] # NothingSent, o \in Shows(file[f].share, content[f].items),
               file[f].share \in WithRedactions
        PROVE  o \in Notices(file[f].share)
    BY <2>1, <2>2 DEF DisclosureInv, BundlesDisclosed, Notices
  <2>3. ASSUME o \in Arrived PROVE Disclosed(o)
    <3>1. CASE \E c \in Claims : Mapped(copies[c]) /\ o = <<"claim", c>>
      BY <2>1, <3>1 DEF DisclosureInv, ArrivalsDisclosed, Object
    <3>2. CASE \E e \in Evidence : held[e] # "none" /\ o = <<"evidence", e>>
      BY <2>1, <3>2 DEF DisclosureInv, ArrivalsDisclosed, Object
    <3> QED
      BY <2>3, <3>1, <3>2 DEF Arrived
  <2>4. ASSUME o \in Arrived, {s \in Shares : o \in disclosed[s]} \subseteq WithRedactions
        PROVE  \E s \in Shares : o \in Notices(s)
    <3>1. PICK s \in Shares : o \in disclosed[s]
      BY <2>3, <2>4 DEF Disclosed
    <3>2. s \in WithRedactions
      BY <2>4, <3>1
    <3> QED
      BY <2>1, <3>1, <3>2 DEF Notices
  <2> QED
    BY <2>1, <2>2, <2>4
<1> QED
  BY <1>1, <1>2, NextDisclosures, NextDisclosure, ContentInvariant, PTL DEF Spec

-----------------------------------------------------------------------------
(* Types.                                                                  *)

ObjectTypes ==
    /\ Disclosures
    /\ deleted \subseteq Objects
    /\ content \in [Files -> Payload \cup {NothingSent}]
    /\ \A f \in Files : file[f] # NoFile => content[f] \in Payload
    /\ native \in [Claims -> {"none", "serving", "retired"}]
    /\ withdrawn \subseteq Objects

\* Steps that neither delete, send nor apply notices.
LEMMA ObjectsKept ==
    ASSUME ObjectTypes, UNCHANGED <<file, deleted, content, disclosed, withdrawn>>,
           native' \in [Claims -> {"none", "serving", "retired"}]
    PROVE  ObjectTypes'
BY DEF ObjectTypes, Disclosures

\* What is deleted, sent and withdrawn are objects.
LEMMA NextObjects ==
    PeerTypeOK /\ ContentInv /\ ObjectTypes /\ [Next]_vars => ObjectTypes'
<1>1. SUFFICES ASSUME PeerTypeOK, ContentInv, ObjectTypes, [Next]_vars PROVE ObjectTypes'
  OBVIOUS
<1>2. Disclosures'
  BY <1>1, NextDisclosures DEF ObjectTypes
<1>3. native \in [Claims -> {"none", "serving", "retired"}]
  BY <1>1 DEF ObjectTypes
<1>4. CASE Trust
  <2>1. UNCHANGED file
    BY <1>4 DEF Trust, RemoteDecision, OwnerDecision, CreateShare, RevokeShare, Lapse, RotateKey,
                AddPeer, InspectPeer, ApprovePeer, RevokePeer, RevokeAccepted, ReplacePeerKey
  <2> QED
    BY <1>1, <1>3, <1>4, <2>1, ObjectsKept DEF Trust, importVars
<1>5. CASE Remote
  <2>1. CASE \E c \in Claims, status \in Shown \cup {"withheld"} : SetStatus(c, status)
    BY <1>1, <1>3, <2>1, ObjectsKept DEF SetStatus, peerVars
  <2>2. ASSUME deleted' \subseteq Objects, UNCHANGED <<file, content, native, withdrawn>>
        PROVE  ObjectTypes'
    BY <1>1, <1>2, <2>2 DEF ObjectTypes
  <2>3. ASSUME NEW c \in Claims, RedactClaim(c) PROVE ObjectTypes'
    <3>1. deleted' \subseteq Objects /\ UNCHANGED <<file, content, native, withdrawn>>
      BY <1>1, <2>3 DEF RedactClaim, peerVars, Object, Objects, ObjectTypes
    <3> QED
      BY <2>2, <3>1
  <2>4. ASSUME NEW e \in Evidence, RedactEvidence(e) PROVE ObjectTypes'
    <3> DEFINE on == {c \in Claims : EvidenceOf[c] = e}
    <3>1. /\ deleted' = deleted \cup {Object("evidence", e)} \cup ({"claim"} \X on)
          /\ UNCHANGED <<file, content, native, withdrawn>>
      BY <2>4 DEF RedactEvidence, peerVars
    <3>2. Object("evidence", e) \in Objects /\ {"claim"} \X on \subseteq Objects
      BY DEF Object, Objects
    <3>3. deleted' \subseteq Objects
      BY <1>1, <3>1, <3>2 DEF ObjectTypes
    <3> QED
      BY <2>2, <3>1, <3>3
  <2>5. ASSUME NEW s \in Shares, NEW f \in Files, ExportBundle(s, f) PROVE ObjectTypes'
    <3> DEFINE notices == Notices(s)
               body == [items |-> published, notices |-> notices]
    <3>1. /\ content' = [content EXCEPT ![f] = body]
          /\ file' = [file EXCEPT ![f] = [share |-> s, key |-> key]]
          /\ UNCHANGED <<deleted, native, withdrawn>>
      BY <2>5 DEF ExportBundle, Export
    <3>2. notices \subseteq Objects
      BY <1>1 DEF Notices, ObjectTypes
    <3> HIDE DEF notices
    <3>3. body \in Payload
      BY <1>1, <3>2 DEF Payload, ContentInv, ContentTypes
    <3> HIDE DEF body
    <3>4. content' \in [Files -> Payload \cup {NothingSent}]
      BY <1>1, <3>1, <3>3 DEF ObjectTypes
    <3>5. ASSUME NEW g \in Files, file'[g] # NoFile PROVE content'[g] \in Payload
      BY <1>1, <3>1, <3>3, <3>5 DEF ObjectTypes, PeerTypeOK
    <3> QED
      BY <1>1, <1>2, <3>1, <3>4, <3>5 DEF ObjectTypes
  <2> QED
    BY <1>5, <2>1, <2>3, <2>4, <2>5 DEF Remote
<1>6. ASSUME NEW f \in Files, NEW policy \in Policies, Import(f, policy) PROVE ObjectTypes'
  <2>1. /\ file[f] # NoFile /\ withdrawn' = withdrawn \cup (content[f].notices \ withdrawn)
        /\ UNCHANGED <<file, deleted, content, native>>
    BY <1>6 DEF Import, Receive
  <2>2. content[f].notices \subseteq Objects
    BY <1>1, <2>1 DEF ObjectTypes, Payload
  <2> QED
    BY <1>1, <1>2, <2>1, <2>2 DEF ObjectTypes
<1>7. ASSUME NEW c \in Claims, Review(c) PROVE ObjectTypes'
  <2>1. /\ UNCHANGED <<file, deleted, content, disclosed, withdrawn>>
        /\ \/ UNCHANGED native
           \/ \E status \in {"serving", "retired"} : native' = [native EXCEPT ![c] = status]
    BY <1>7 DEF Review, Touches, peerVars, WriteNative, RetireNative, ForgetNote, Reject, RetireCopy,
                ForgetCopy, Promote, KeepLocal, AcceptRemote, DemoteRemote, Defer
  <2>2. native' \in [Claims -> {"none", "serving", "retired"}]
    BY <1>3, <2>1
  <2> QED
    BY <1>1, <2>1, <2>2, ObjectsKept
<1>8. CASE \E e \in Evidence : ForgetEvidence(e)
  BY <1>1, <1>3, <1>8, ObjectsKept DEF ForgetEvidence, peerVars
<1>9. CASE UNCHANGED vars
  BY <1>1, <1>3, <1>9, ObjectsKept DEF vars, peerVars, importVars
<1> QED
  BY <1>1, <1>4, <1>5, <1>6, <1>7, <1>8, <1>9, SyncImports DEF Next

\* The variables of Imports keep their types, and the row a source mapping
\* points to exists.
THEOREM ImportsTypes == Spec => []ImportsTypeOK
<1>1. Init => ObjectTypes
  BY DEF Init, PeerInit, ObjectTypes, Disclosures
<1>2. PeerTypeOK /\ ContentInv /\ ObjectTypes => ImportsTypeOK
  BY DEF ObjectTypes, Disclosures, ContentInv, ContentTypes, RowsSound, Rows, ImportsTypeOK
<1> QED
  BY <1>1, <1>2, NextObjects, ContentInvariant, PTL DEF Spec
=============================================================================
