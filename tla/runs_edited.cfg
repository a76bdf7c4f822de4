SPECIFICATION Spec
CONSTANTS
  s1 = s1
  s2 = s2
  t1 = t1
  t2 = t2
  Targets = {t1, t2}
  ServerOf <- OwnServers
  NFiles = 1
  Earlier <- OneFailed
  JobLists <- OneOrTwoTargets
  MaxRuns = 2
  MaxCrashes = 0
  DbErrors = {}
  LostAnswers = FALSE
INVARIANTS
  NoStuckRunning
  JobStateSumsUp
PROPERTIES
  RetryTouchesOnlyAsked
