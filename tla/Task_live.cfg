\* Two intrusive tasks contend for a cap of one; agents crash, deadlines pass.
SPECIFICATION FairSpec
CONSTANTS
    t1 = t1  t2 = t2  m1 = m1  x1 = x1  x2 = x2
    Task = {t1, t2}
    Mission = {m1}
    Agent = {a1}
    Target = {x1, x2}
    Replica = {r1}
    Handler = {h1}
    MissionOf <- OneMission
    TargetsOf <- Disjoint
    DependsOn <- Independent
    Gated = {t1, t2}
    Intrusive = {t1, t2}
    Watches = {}
    MaxRetries = 1
    MaxConcurrentIntrusive = 1
    KillScopes = {}
    Global = Global
    Verdicts = {"ALLOW", "DENY"}
    Statuses = {"SUCCEEDED", "KILLED", "REJECTED_UNAUTHORIZED"}
    Faults = {"deadline", "agentCrash", "queueTTL"}
    NoTask = NoTask  NoAgent = NoAgent  None = None
INVARIANTS IntrusiveCapRespected
PROPERTIES EverythingSettles
CHECK_DEADLOCK FALSE
