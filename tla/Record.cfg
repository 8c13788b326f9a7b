SPECIFICATION Spec
CONSTANTS
  Pids = {2, 3}
  Conns <- OneConn
  MaxForks = 2
  Recycling = TRUE
  ThreadForks = TRUE
INVARIANTS
  TypeOK
  Paired
  ReportedOnce
  Whole
  ArgvIsOfTheProcess
PROPERTIES
  ExitedHaveLeft
  LongRunnersGetKnown
  RecordingEnds
