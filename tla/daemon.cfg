CONSTANTS
  Name = {"a", "b"}
  Once = {"b"}
  MaxInst = 2
  MaxPid = 4
  MaxRestarts = 1
  MaxSleep = 1
  Writable = TRUE
  MaxCrashes = 2
  AutoRestart <- MCAutoRestart
SPECIFICATION PatientDaemonSpec
INVARIANTS DaemonTypeOK NoResurrection OneCopyPerCrash
PROPERTIES RestoreEnds
