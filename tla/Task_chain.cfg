\* Two tasks, the second (a standing watch) depending on the first; denials,
\* missed ACK windows and an agent that goes offline and comes back.
SPECIFICATION Spec
CONSTANTS
    t1 = t1  t2 = t2  m1 = m1  x1 = x1  x2 = x2
    Task = {t1, t2}
    Mission = {m1}
    Agent = {a1}
    Target = {x1}
    Replica = {r1}
    Handler = {h1}
    MissionOf <- OneMission
    TargetsOf <- SameTarget
    DependsOn <- Chain
    Gated = {t1, t2}
    Intrusive = {t1}
    Watches = {t2}
    MaxRetries = 1
    MaxConcurrentIntrusive = 2
    KillScopes = {}
    Global = Global
    Verdicts = {"ALLOW", "DENY"}
    Statuses = {"SUCCEEDED"}
    Faults = {"ackTimeout", "offline"}
    NoTask = NoTask  NoAgent = NoAgent  None = None
INVARIANTS TypeOK DependencyOrder
PROPERTIES LegalTransitions
CHECK_DEADLOCK FALSE
