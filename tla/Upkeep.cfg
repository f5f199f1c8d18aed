\* Jobs of service and library runners on two hosts, whose operator tells the
\* truth; judgements and decisions about two claims.
SPECIFICATION MCSpec
CONSTANTS
    j1 = j1  j2 = j2
    p1 = p1  p2 = p2  p3 = p3
    r1 = r1  r2 = r2  r3 = r3
    b1 = b1  b2 = b2  g1 = g1  g2 = g2
    o1 = o1  o2 = o2  o3 = o3  u1 = u1  u2 = u2  u3 = u3  c2 = c2  c3 = c3  n1 = n1  n2 = n2  e1 = e1  e2 = e2
    Profiles = {"jobs", "judgements", "policies", "learning", "gates", "names", "sessions", "tasks"}
    Jobs = {j1, j2}
    Procs = {p1, p2, p3}
    Runners = {r1, r2, r3}
    ServiceRunners = {r1, r3}
    ProcOf <- OneEach
    HostOf <- TwoHosts
    Unowned = Unowned
    AttemptLimits = {2}
    Historical = {j2}
    MaxJobs = 2
    MaxSuspends = 1
    MaxStops = 2
    PidReuse = TRUE
    TrustedOperator = TRUE
    Rated = {b1, b2}
    Judgements = {g1, g2}
    Days = {"short", "long"}
    Proposals = {o1, o2, o3}
    Policies = {"ranking", "context_pack"}
    Knobs = {w1}
    Procedures = {c1}
    Titles = {t1}
    Cases = {c2, c3}
    Runs = {u1, u2, u3}
    Names = {n1, n2}
    Sources = {e1, e2}
    Objects = {t2}
    Inferences = {t3}
    Flags = {t4}
    Projects = {p5}
    ProjectTitles = {w2, w3}
    Meetings = {m1}
    Notes = {m2}
CHECK_DEADLOCK FALSE
INVARIANTS
    ExclusiveExecution
    OneVersionInForce
    GatedVersionsWereJudged
    ErasedNamesLeaveEntities
    TasksFollowTheirTargets
    RequestsAreWhole
    RankedByWhatIsKnown
