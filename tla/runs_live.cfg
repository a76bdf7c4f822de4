SPECIFICATION FairSpec
CONSTANTS
  s1 = s1
  s2 = s2
  t1 = t1
  t2 = t2
  Targets = {t1}
  ServerOf <- OwnServers
  NFiles = 2
  JobLists <- OneTarget
  Earlier <- Fresh
  MaxRuns = 1
  MaxCrashes = 0
  DbErrors = {"outcomes"}
  LostAnswers = TRUE
PROPERTIES
  EventuallyDelivered
