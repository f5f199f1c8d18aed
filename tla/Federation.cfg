\* Trust: two grants, two bundle files, three keys of the remote.  Contents:
\* one claim, two grants of which one includes evidence and receives
\* redactions, two bundle files.
SPECIFICATION MCSpec
CONSTANTS
    c1 = c1  c2 = c2
    e1 = e1
    s1 = s1  s2 = s2
    f1 = f1  f2 = f2
    Shares = {s1, s2}
    Files = {f1, f2}
    MaxKey = 3
    Registrations = {"unknown", "trusted_device"}
    Approvals <- SomeApprovals
    Policies = {"candidate_only", "active_if_trusted", "trusted_device"}
    NoFile = NoFile
    NoApproval = NoApproval
    Claims = {c1}
    Evidence = {e1}
    EvidenceOf <- Shared
    WithEvidence = {s1}
    WithRedactions = {s1}
    Projects = {c1}
    NothingSent = NothingSent
    Operations = {"native", "forget", "status"}
    MaxRevocations = 0
CHECK_DEADLOCK FALSE
SYMMETRY Interchangeable
INVARIANTS
    TrustFollowsKey
    GrantsFollowKey
    WithdrawnStaysOut
PROPERTIES
    RevocationsAreFinal
