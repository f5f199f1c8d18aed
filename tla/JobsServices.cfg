\* Services on two hosts, one worker each; an operator may confirm wrongly.
SPECIFICATION ServicesSpec
CONSTANTS
    j1 = j1  j2 = j2
    p1 = p1  p2 = p2  p3 = p3
    r1 = r1  r2 = r2  r3 = r3
    Jobs = {j1, j2}
    Procs = {p1, p2, p3}
    Runners = {r1, r2, r3}
    ServiceRunners = {r1, r2, r3}
    ProcOf <- OneEach
    HostOf <- TwoHosts
    Unowned = Unowned
    AttemptLimits = {2}
    Historical = {}
    MaxJobs = 2
    MaxSuspends = 0
    MaxStops = 2
    PidReuse = FALSE
    TrustedOperator = FALSE
INVARIANTS
    EffectsWithCompletion
PROPERTIES
    TerminalForever
    EventuallySettled
