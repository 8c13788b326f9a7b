SPECIFICATION Spec
CONSTANTS
  MaxSessions = 2
  Keep = 1
  Cleaners = {clean}
CHECK_DEADLOCK FALSE
PROPERTIES
  PruneSparesRunning
