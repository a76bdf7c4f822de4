SPECIFICATION FairSpec
CONSTANTS
  Files = {f1}
  Targets = {t1}
  Contents = {a, b}
  Absent = Absent
  KeepVersions = 1
  AgeRule = FALSE
  MaxPending = 1
  MaxChanges = 2
  MaxLost = 1
  MaxRestarts = 1
INVARIANTS
  SkipIsSound
  ConfirmedIsNewest
  OwedIsKnown
PROPERTIES
  EventuallyRecorded
