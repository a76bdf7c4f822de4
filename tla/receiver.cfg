SPECIFICATION FairSpec
CONSTANTS
  None = None
  d = d
  p1 = p1
  p2 = p2
  Paths = {p1, p2}
  Folders = {d}
  FolderOf <- OneFolder
  Receivers <- AnyReceiver
  Retention = 1
  StaleAfter = 0
  MaxTime = 2
  MaxUploads = 2
  MaxFailures = 1
INVARIANTS
  TrackedAsCreated
  WithinQuota
PROPERTIES
  NeverOverwritten
  SweptOnlyExpiredAlone
  EventuallySwept
  EventuallyAlerted
