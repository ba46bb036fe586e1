\* Two intrusive tasks with overlapping targets, two replicas, a mission kill;
\* no agent finishes.
SPECIFICATION Spec
CONSTANTS
    t1 = t1  t2 = t2  m1 = m1  x1 = x1  x2 = x2
    Task = {t1, t2}
    Mission = {m1}
    Agent = {a1}
    Target = {x1, x2}
    Replica = {r1, r2}
    Handler = {h1}
    MissionOf <- OneMission
    TargetsOf <- Overlapping
    DependsOn <- Independent
    Gated = {t1, t2}
    Intrusive = {t1, t2}
    Watches = {}
    MaxRetries = 1
    MaxConcurrentIntrusive = 2
    KillScopes = {m1}
    Global = Global
    Verdicts = {"ALLOW"}
    Statuses = {}
    Faults = {"crash", "leaseTTL"}
    NoTask = NoTask  NoAgent = NoAgent  None = None
INVARIANTS  AtMostOneLateDispatch
CHECK_DEADLOCK FALSE
