\* One task, two result handlers: denials, failed audit appends and publishes,
\* crashes, lost messages, results accepted, failed or out of scope, a kill and
\* operators.
SPECIFICATION Spec
CONSTANTS
    t1 = t1  t2 = t2  m1 = m1  x1 = x1  x2 = x2
    Task = {t1}
    Mission = {m1}
    Agent = {a1}
    Target = {x1}
    Replica = {r1}
    Handler = {h1, h2}
    MissionOf <- OneMission
    TargetsOf <- SameTarget
    DependsOn <- Independent
    Gated = {t1}
    Intrusive = {}
    Watches = {t1}
    MaxRetries = 1
    MaxConcurrentIntrusive = 2
    KillScopes = {m1}
    Global = Global
    Verdicts = {"ALLOW", "DENY"}
    Statuses = {"SUCCEEDED", "FAILED", "OUT_OF_SCOPE"}
    Faults = {"audit", "crash", "drop", "operator", "relay"}
    NoTask = NoTask  NoAgent = NoAgent  None = None
INVARIANTS DispatchGated
CHECK_DEADLOCK FALSE
