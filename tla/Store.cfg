SPECIFICATION Spec
CONSTANTS
  MaxSessions = 2
  Keep = 1
  Cleaners = {clean, again}
CHECK_DEADLOCK FALSE
INVARIANTS
  TypeOK
  NewestKept
  NewestReportable
  SummaryComesLast

PROPERTIES
  Retained
  
