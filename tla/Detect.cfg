SPECIFICATION Spec
CONSTANTS
  Exec = {1, 2}
  Task = {"t1", "t2"}
  Scenario <- MCScenario
INVARIANTS  FinishedHeardAll KillReaches
PROPERTIES EverythingSettles
CHECK_DEADLOCK FALSE
