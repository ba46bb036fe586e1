SPECIFICATION Spec
CONSTANTS
  Scenario <- MCScenario
  Worker = {"w1", "w2"}
  MaxDeliveries = 2
  MaxDPRetries = 2
INVARIANTS CompletedCoversTasks BudgetKept OnlyScope 
PROPERTIES EndedStaysEnded EverythingSettles
CHECK_DEADLOCK FALSE
