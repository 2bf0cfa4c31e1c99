CONSTANTS
  Name = {"a", "b"}
  Once = {"b"}
  MaxInst = 3
  MaxPid = 4
  MaxRestarts = 1
  MaxSleep = 1
  Writable = TRUE
  AutoRestart <- MCAutoRestart
SPECIFICATION PatientSpec
INVARIANTS NothingEscapes RecordAgrees
PROPERTIES ServesByName
