CONSTANTS
  Level <- MCLevel
  Enabled <- MCLevel
  AutoReset <- MCAutoReset
  Timed <- MCTimed
  MaxFailures <- MCMaxFailures
  MaxDrawdown = 40
  Equities <- MCEquities
  MaxCount = 3
SPECIFICATION FairSpec
INVARIANTS BreakerTypeOK GlobalFollows FailuresTrip
PROPERTIES OpenSurvives SelfResets
