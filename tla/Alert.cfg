SPECIFICATION FairSpec
CONSTANTS
  Scenario <- MCScenario
  EventName <- MCEventName
  MaxIncident = 3
  MaxDeliver = 3
  MaxAttempts = 2
  MaxRepeats = 1
  Burst = 2
INVARIANTS NoTokenNoNotification OneFirstPerWindow 
PROPERTIES EverythingSettles
CHECK_DEADLOCK FALSE
