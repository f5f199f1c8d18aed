\* Credentials and rates, evidence on its way to models,
\* agents' tools, plugins, and decisions about candidates.
SPECIFICATION MCSpec
CONSTANTS
    Profiles = {"pairing", "rates", "waiting", "agents", "extracting", "plugins", "reviews"}
    s1 = s1  s2 = s2  a1 = a1  a2 = a2  k1 = k1  k2 = k2
    r1 = r1  r2 = r2  r3 = r3  r4 = r4
    x1 = x1  x2 = x2  e1 = e1  e2 = e2
    b1 = b1  d1 = d1  d2 = d2  v1 = v1  v2 = v2  u1 = u1  g1 = g1  g2 = g2
    Services = {s1, s2}
    Clients = {a1, a2}
    Tokens = {k1, k2}
    Sessions = {y1, y2}
    Logins = {l1}
    Invitations = {i1}
    Calls = {r1, r2, r3, r4}
    Agents = {g1, g2}
    Home = home
    Nested = {below}
    Foreign = {elsewhere}
    Limit = 2
    Guesses = 2
    Events = {e1, e2}
    Tasks = {x1, x2}
    Repairs = 1
    Paths = {d1, d2}
    Versions = {v1, v2}
    Permissions = {"write_candidate", "read_text"}
    Uses = {z1}
    Candidates = {b1}
    Values = {x, y}
    NoValue = NoValue
    HighRisk = {b1}
    Requests = {q1, q2}
    CredentialOf <- OneCredential
    KeyOf <- OneKey
    NoRequest = NoRequest
    NoBackup = NoBackup
    MaxEpoch = 3
    MaxRenewals = 1
SYMMETRY Interchangeable
CHECK_DEADLOCK FALSE
INVARIANTS
    OneCredentialEach
    AdmittedWithinLimit
    ErasedTextLeavesCandidates
    AppliedOnce
    CallsStayWithinTheirMode
PROPERTIES
    EffectsAreAuthorized
    AnswersNeedConsent
    DecisionsMatchInspections
