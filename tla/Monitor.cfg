SPECIFICATION FairSpec
CONSTANTS
    NoData = NoData
    Worker = {"w1", "w2"}
    Job = {1, 2, 3, 4}
    MaxDeliver = 2
    Scenario <- Scenarios
INVARIANTS OneEventPerWindow NothingLost ConfirmedIsEmitted
PROPERTIES EverythingSettles
CHECK_DEADLOCK FALSE
