CONSTANTS
  Logger = {"log1", "log2"}
  Caller = {"call1", "call2"}
  Source <- MCSource
  Scenario <- MCScenario
  MaxDeliver = 2
  NoJob = NoJob
SPECIFICATION Spec
INVARIANTS ChainIntact ChainedOnce
PROPERTIES ImplementsAuditLog
CHECK_DEADLOCK FALSE
