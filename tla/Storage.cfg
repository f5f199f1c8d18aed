\* Sealed payloads, indexes, and archives of one database read by another.
SPECIFICATION MCSpec
CONSTANTS
    e1 = e1  e2 = e2  c1 = c1  s1 = s1  d1 = d1  d2 = d2
    w1 = w1  w2 = w2  b1 = b1  b2 = b2  q1 = q1  q2 = q2
    local = local  remote = remote
    Events = {e1, e2}
    Claims = {c1}
    Cites <- CitesOf
    Providers = {local, remote}
    Remote = {remote}
    Policies = {"index_public_and_personal_only", "index_redacted_sensitive", "explicit_sensitive_indexing"}
    MaxKeys = 3
    Evidence = {s1}
    SourceClaims = {d1, d2}
    Uses <- UsesOf
    MaxArchives = 2
    Files = {"main", "spare"}
    Writes = {w1, w2}
    Backups = {b1, b2}
    Processes = {q1, q2}
    Settings = {"half_life_policies", "ranking_policies"}
CHECK_DEADLOCK FALSE
INVARIANTS
    ErasedTextLeavesIndexes
    RetiredKeysSealNothing
    SourceDeletionsArrive
    ClaimsKeepTheirEvidence
    ArchivesAreComplete
PROPERTIES
    ChoicesSurviveUpgrades
    ProtectionSeals
