SPECIFICATION FairSpec
CONSTANTS
    Worker = {"detect", "monitor", "discover", "rest1", "rest2"}
    MaxFinding = 3
    Scenario <- Scenarios
INVARIANTS   AcceptedIsAudited
PROPERTIES  EverythingSettles
CHECK_DEADLOCK FALSE
