SPECIFICATION Spec
CONSTANTS
  s1 = s1
  s2 = s2
  t1 = t1
  t2 = t2
  Targets = {t1, t2}
  ServerOf <- SharedServer
  NFiles = 1
  Earlier <- Fresh
  JobLists <- TwoTargetsOrNone
  MaxRuns = 1
  MaxCrashes = 1
  DbErrors = {"uploads"}
  LostAnswers = FALSE
INVARIANTS
  NoStagingLeak
  RowHasFile
PROPERTIES
  OkWasEarned
  OwedUntilDelivered
