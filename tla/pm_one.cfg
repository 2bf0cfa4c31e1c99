CONSTANTS
  Name = {"a"}
  Once = {}
  MaxInst = 3
  MaxPid = 3
  MaxRestarts = 1
  MaxSleep = 2
  Writable = FALSE
  AutoRestart <- MCAutoRestart
SPECIFICATION FairSpec
INVARIANTS TypeOK OneChildPerInstance
PROPERTIES StoppedStaysDown OnlyTwoEscapes SupervisionResumes Supervises
