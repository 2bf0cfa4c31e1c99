SPECIFICATION Spec
CONSTANTS
  MaxStart = 3
  MaxStop = 2
  MaxBar = 2
  StopOnError = TRUE
INVARIANTS StoppedIsQuiet RunningIsWhole
PROPERTIES StopsSettle
CHECK_DEADLOCK FALSE
